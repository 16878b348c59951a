------------------------ MODULE BatchedProvider_proofs ------------------------
(***************************************************************************)
(* The two providers on top of each other: block listeners always have a   *)
(* source of block events, and no call is forgotten, asked twice or        *)
(* answered with the state of another block - for any number of sockets,   *)
(* listeners, blocks and calls.                                            *)
(***************************************************************************)
EXTENDS BatchedProvider, TLAPS

-------------------------------------------------------------------------------
(* The provider with the socket. *)

(* The HTTP provider is a source and no socket.                            *)
LEMMA SourcesDiffer == Base \in Sources /\ Base \notin Sockets
  BY ProviderAssumption DEF Base, Sources, Sockets

(* A source that is subscribed to has a subscription.                      *)
LEMMA OneMoreSubscription ==
  ASSUME NEW s \in Sources, NEW n \in [Sources -> 0..MaxSubs]
  PROVE  /\ StartBlockEvents(s, n) \in [Sources -> 0..MaxSubs]
         /\ StartBlockEvents(s, n)[s] > 0
  BY ProviderAssumption DEF StartBlockEvents

(* Every way to drop a subscription leaves a count.                        *)
LEMMA OneSubscriptionLess ==
  ASSUME NEW s \in Sources, NEW n \in [Sources -> 0..MaxSubs],
         NEW rest \in StopBlockEvents(s, n)
  PROVE  rest \in [Sources -> 0..MaxSubs]
<1>1. \A left \in OneLess(n[s]) : left \in 0..MaxSubs
  BY ProviderAssumption DEF OneLess
<1> QED
  BY <1>1 DEF StopBlockEvents

(* Whatever source the provider switches to serves the listeners there     *)
(* are, because a subscription is added after the one at the base is gone. *)
LEMMA SwitchoverServes ==
  ASSUME NEW ws \in Sources, NEW n \in [Sources -> 0..MaxSubs],
         NEW switched \in Switchover(ws, n)
  PROVE  /\ switched \in [Sources -> 0..MaxSubs]
         /\ blockListeners # {} => switched[ws] > 0
<1>1. CASE blockListeners = {}
  BY <1>1 DEF Switchover
<1>2. CASE blockListeners # {}
  <2>1. PICK rest \in (IF ws = Base THEN {n} ELSE StopBlockEvents(Base, n)) :
          switched = StartBlockEvents(ws, rest)
    BY <1>2 DEF Switchover
  <2>2. rest \in [Sources -> 0..MaxSubs]
    BY <2>1, SourcesDiffer, OneSubscriptionLess
  <2> QED
    BY <2>1, <2>2, OneMoreSubscription
<1> QED
  BY <1>1, <1>2

(* The provider starts with nothing to serve.                              *)
LEMMA ProviderStarts == ProviderInit => ProviderInv
<1> SUFFICES ASSUME ProviderInit PROVE ProviderInv
  OBVIOUS
<1>1. subs \in [Sources -> 0..MaxSubs] /\ timers \in 0..MaxTimers
  BY ProviderAssumption DEF ProviderInit
<1>2. /\ waiting \in [Waiters -> WaiterStates]
      /\ route \in [Waiters -> Sources]
  BY SourcesDiffer DEF ProviderInit, WaiterStates
<1> QED
  BY <1>1, <1>2, SourcesDiffer
     DEF ProviderInit, ProviderInv, ProviderTypeOK, ListenersHaveASource, ClearableRuns

(* Opening a socket, by the user or by a timer. *)
LEMMA OpeningServes ==
  ASSUME ProviderInv, OpenWebSocket
  PROVE  /\ wsProvider' \in Sources /\ open' \subseteq Sockets /\ ready' \subseteq open'
         /\ subs' \in [Sources -> 0..MaxSubs]
         /\ blockListeners' # {} => subs'[wsProvider'] > 0
<1>1. PICK k \in Sockets \ open :
        /\ wsProvider' = k /\ open' = open \cup {k} /\ subs' \in Switchover(k, subs)
        /\ ready' = ready /\ blockListeners' = blockListeners
  BY DEF OpenWebSocket, listenerVars
<1>2. k \in Sources /\ subs \in [Sources -> 0..MaxSubs]
  BY DEF ProviderInv, ProviderTypeOK, Sources
<1> QED
  BY <1>1, <1>2, SwitchoverServes DEF ProviderInv, ProviderTypeOK

(* Closing sockets, the present one among them. *)
LEMMA ClosingServes ==
  ASSUME NEW closing \in SUBSET Sockets, ProviderInv, SocketsClose(closing)
  PROVE  /\ wsProvider' \in Sources /\ open' \subseteq Sockets /\ ready' \subseteq open'
         /\ subs' \in [Sources -> 0..MaxSubs]
         /\ waiting' \in [Waiters -> WaiterStates] /\ route' \in [Waiters -> Sources]
         /\ blockListeners' # {} => subs'[wsProvider'] > 0
<1> DEFINE remaining == [s \in Sources |-> IF s \in closing THEN 0 ELSE subs[s]]
<1>1. remaining \in [Sources -> 0..MaxSubs] /\ remaining[Base] = subs[Base]
  BY ProviderAssumption, SourcesDiffer DEF ProviderInv, ProviderTypeOK
<1>2. /\ wsProvider' = Base /\ blockListeners' = blockListeners
      /\ subs' \in (IF wsProvider = Base THEN {remaining} ELSE Switchover(Base, remaining))
  BY DEF SocketsClose, listenerVars
<1>3. subs' \in [Sources -> 0..MaxSubs] /\ (blockListeners' # {} => subs'[Base] > 0)
  <2>1. CASE wsProvider = Base
    BY <1>1, <1>2, <2>1 DEF ProviderInv, ListenersHaveASource
  <2>2. CASE wsProvider # Base
    <3> HIDE DEF remaining
    <3> QED
      BY <1>1, <1>2, <2>2, SourcesDiffer, SwitchoverServes
  <2> QED
    BY <2>1, <2>2
<1>4. waiting' \in [Waiters -> WaiterStates] /\ route' \in [Waiters -> Sources]
  BY SourcesDiffer DEF SocketsClose, ProviderInv, ProviderTypeOK, WaiterStates
<1> QED
  BY <1>2, <1>3, <1>4, SourcesDiffer DEF SocketsClose, ProviderInv, ProviderTypeOK

(* Opening, losing and replacing sockets keeps the listeners served.       *)
LEMMA SocketStepServes ==
  ASSUME ProviderInv, SocketStep
  PROVE  ProviderInv'
<1> USE DEF ProviderInv
<1>1. CASE UserOpensWebSocket
  <2>1. OpenWebSocket
    BY <1>1 DEF UserOpensWebSocket
  <2> QED
    BY <1>1, <2>1, OpeningServes
       DEF UserOpensWebSocket, OpenWebSocket, ProviderTypeOK, ListenersHaveASource,
           ClearableRuns, listenerVars, waiterVars
<1>2. CASE UserClosesWebSocket
  <2>1. {wsProvider} \in SUBSET Sockets /\ SocketsClose({wsProvider})
    BY <1>2 DEF UserClosesWebSocket, ProviderTypeOK, Sources
  <2>2. timers' \in 0..MaxTimers /\ clearable' = FALSE
    <3>1. timers' = (IF wsProvider # Base /\ clearable THEN timers - 1 ELSE timers)
      BY <1>2 DEF UserClosesWebSocket, TimersAfterClosing
    <3> QED
      BY <1>2, <3>1, ProviderAssumption DEF UserClosesWebSocket, ProviderTypeOK, ClearableRuns
  <2> QED
    BY <2>1, <2>2, ClosingServes
       DEF SocketsClose, ProviderTypeOK, ListenersHaveASource, ClearableRuns, listenerVars
<1>3. CASE Reconnects
  <2>1. OpenWebSocket
    BY <1>3 DEF Reconnects
  <2>2. timers' \in 0..MaxTimers /\ clearable' \in BOOLEAN /\ (clearable' => timers' > 0)
    <3>1. timers \in 1..MaxTimers /\ timers' = timers - 1
      BY <1>3, ProviderAssumption DEF Reconnects, ProviderTypeOK
    <3>2. clearable \in BOOLEAN
      BY DEF ProviderTypeOK
    <3>3. \/ clearable' = FALSE
          \/ clearable' = clearable /\ timers > (IF clearable THEN 1 ELSE 0)
      BY <1>3, Zenon DEF Reconnects
    <3>4. clearable' \in BOOLEAN
      BY <3>2, <3>3
    <3>5. ASSUME clearable' PROVE timers > 1
      BY <3>3, <3>5
    <3> QED
      BY <3>1, <3>4, <3>5, ProviderAssumption
  <2> QED
    BY <2>1, <2>2, OpeningServes
       DEF OpenWebSocket, ProviderTypeOK, ListenersHaveASource, ClearableRuns,
           listenerVars, waiterVars
<1>4. ASSUME NEW k \in Sockets, SocketConnects(k)
      PROVE  ProviderInv'
  BY <1>4 DEF SocketConnects, ProviderTypeOK, ListenersHaveASource, ClearableRuns,
              listenerVars, waiterVars
<1>5. ASSUME NEW k \in Sockets, ConnectionLost(k)
      PROVE  ProviderInv'
  <2>1. Closing(k) \in SUBSET Sockets /\ SocketsClose(Closing(k))
    BY <1>5, SourcesDiffer DEF ConnectionLost, Closing, ProviderTypeOK, Sources
  <2>2. timers' \in 0..MaxTimers /\ timers' > 0 /\ clearable' = TRUE
    BY <1>5, ProviderAssumption
       DEF ConnectionLost, TimersAfterClosing, ProviderTypeOK, ClearableRuns
  <2> QED
    BY <2>1, <2>2, ClosingServes
       DEF SocketsClose, ProviderTypeOK, ListenersHaveASource, ClearableRuns, listenerVars
<1> QED
  BY <1>1, <1>2, <1>3, <1>4, <1>5 DEF SocketStep

(* A listener is added with a subscription if it is the first one. *)
LEMMA AddingServes ==
  ASSUME NEW key \in Keys, ProviderInv, wsProvider' = wsProvider, AddBlockListener(key)
  PROVE  /\ blockListeners' \subseteq Keys /\ subs' \in [Sources -> 0..MaxSubs]
         /\ subs'[wsProvider'] > 0
<1>1. wsProvider \in Sources /\ subs \in [Sources -> 0..MaxSubs] /\ blockListeners \subseteq Keys
  BY DEF ProviderInv, ProviderTypeOK
<1> QED
  BY <1>1, OneMoreSubscription DEF AddBlockListener, ProviderInv, ListenersHaveASource

(* So does everything the listeners do.                                    *)
LEMMA ListenerStepServes ==
  ASSUME ProviderInv, ListenerStep
  PROVE  ProviderInv'
<1> USE DEF ProviderInv, ProviderTypeOK, ListenersHaveASource, ClearableRuns
<1>1. ASSUME NEW s \in Sources, NEW block \in Blocks, OnBlock(s, block)
      PROVE  ProviderInv'
  BY <1>1 DEF OnBlock, socketVars, waiterVars
<1>2. CASE CallBlockListeners
  BY <1>2 DEF CallBlockListeners, socketVars, waiterVars
<1>3. ASSUME NEW client \in Clients, On(client)
      PROVE  ProviderInv'
  <2>1. client \in Keys /\ wsProvider' = wsProvider /\ AddBlockListener(client)
    BY <1>3 DEF On, Keys, socketVars
  <2>2. /\ blockListeners' \subseteq Keys /\ subs' \in [Sources -> 0..MaxSubs]
        /\ subs'[wsProvider'] > 0
    BY <2>1, AddingServes
  <2> QED
    BY <1>3, <2>2 DEF On, AddBlockListener, socketVars, waiterVars
<1>4. ASSUME NEW client \in Clients, Off(client)
      PROVE  ProviderInv'
  <2>1. subs' \in [Sources -> 0..MaxSubs] /\ (blockListeners' # {} => subs' = subs)
    BY <1>4, OneSubscriptionLess DEF Off
  <2> QED
    BY <1>4, <2>1 DEF Off, socketVars, waiterVars
<1> QED
  BY <1>1, <1>2, <1>3, <1>4 DEF ListenerStep

(* Requests are routed to a source.                                        *)
LEMMA RouteIsASource == ProviderInv => Route \in Sources
  BY SourcesDiffer DEF Route, ProviderInv, ProviderTypeOK

(* A request, and what is done with its answer, moves a waiter. *)
LEMMA WaiterMoves ==
  ASSUME NEW w \in Waiters, NEW state \in WaiterStates, ProviderInv,
         \/ GoesTo(w, state) /\ UNCHANGED <<subs, listenerVars>>
         \/ Ask(w, state) /\ UNCHANGED listenerVars
         \/ Ask(w, state) /\ UNCHANGED <<seenBlock, scheduled, blockListeners>>
                          /\ deferred' \subseteq deferred
  PROVE  ProviderInv'
  BY RouteIsASource, SourcesDiffer
     DEF GoesTo, Ask, ProviderInv, ProviderTypeOK, ListenersHaveASource, ClearableRuns,
         socketVars, listenerVars

(* Waiting for the next block adds a listener.                             *)
LEMMA WaitingForBlockServes ==
  ASSUME NEW w \in Waiters, ProviderInv, WaitForBlock(w)
  PROVE  ProviderInv'
<1> USE DEF ProviderInv, ProviderTypeOK, ListenersHaveASource, ClearableRuns
<1>1. w \in Keys /\ wsProvider' = wsProvider /\ AddBlockListener(w)
  BY DEF WaitForBlock, GoesTo, Keys, socketVars
<1>2. /\ blockListeners' \subseteq Keys /\ subs' \in [Sources -> 0..MaxSubs]
      /\ subs'[wsProvider'] > 0
  BY <1>1, AddingServes
<1>3. "listening" \in WaiterStates /\ Base \in Sources
  BY SourcesDiffer DEF WaiterStates
<1> QED
  BY <1>2, <1>3 DEF WaitForBlock, GoesTo, AddBlockListener, socketVars

(* Waiting for a transaction keeps the listeners served.                   *)
LEMMA WaiterStepServes ==
  ASSUME ProviderInv, WaiterStep
  PROVE  ProviderInv'
<1>1. CASE TransactionSpreads
  BY <1>1 DEF TransactionSpreads, socketVars, listenerVars, ProviderInv, ProviderTypeOK,
              ListenersHaveASource, ClearableRuns
<1>2. ASSUME NEW w \in Waiters,
             \/ WaitForTransaction(w) \/ CallWaiter(w) \/ DelayEnds(w)
             \/ NoReceipt(w) \/ Receipt(w) \/ AnswerFromBehind(w)
             \/ NoBlock(w) \/ Block(w) \/ RequestFails(w)
      PROVE  ProviderInv'
  <2>0. {"fetching", "refetching", "checking", "beforeBlock", "beforeReceipt", "done", "rejected"}
          \subseteq WaiterStates
    BY DEF WaiterStates, Requesting, Delayed
  <2>1. CASE WaitForTransaction(w)
    BY <2>0, <2>1, WaiterMoves DEF WaitForTransaction
  <2>2. CASE CallWaiter(w)
    BY <2>0, <2>2, WaiterMoves DEF CallWaiter
  <2>3. CASE DelayEnds(w)
    BY <2>0, <2>3, WaiterMoves DEF DelayEnds
  <2>4. CASE NoReceipt(w)
    BY <2>4, WaitingForBlockServes DEF NoReceipt
  <2>5. CASE Receipt(w)
    BY <2>0, <2>5, WaiterMoves DEF Receipt
  <2>6. CASE AnswerFromBehind(w)
    BY <2>0, <2>6, WaiterMoves DEF AnswerFromBehind
  <2>7. CASE NoBlock(w)
    BY <2>0, <2>7, WaiterMoves DEF NoBlock
  <2>8. CASE Block(w)
    BY <2>0, <2>8, WaiterMoves, WaitingForBlockServes DEF Block
  <2>9. CASE RequestFails(w)
    BY <2>0, <2>9, WaiterMoves DEF RequestFails
  <2> QED
    BY <1>2, <2>1, <2>2, <2>3, <2>4, <2>5, <2>6, <2>7, <2>8, <2>9
<1> QED
  BY <1>1, <1>2 DEF WaiterStep

(* In every reachable state the source the provider takes block events     *)
(* from serves its listeners: ListenersHaveASource, for any number of      *)
(* sockets, subscriptions and listeners (openWebSocket, closeWebSocket,    *)
(* _onWebSocketClose, on, once and off in any order).                      *)
THEOREM ListenersAreServed == Spec => []ProviderInv
<1>1. Init => ProviderInv
  BY ProviderStarts DEF Init
<1>2. ProviderInv /\ [Next]_vars => ProviderInv'
  <2> SUFFICES ASSUME ProviderInv, [Next]_vars PROVE ProviderInv'
    OBVIOUS
  <2>1. CASE SocketStep
    BY <2>1, SocketStepServes
  <2>2. CASE ListenerStep
    BY <2>2, ListenerStepServes
  <2>3. CASE WaiterStep
    BY <2>3, WaiterStepServes
  <2>4. CASE UNCHANGED providerVars
    BY <2>4 DEF providerVars, socketVars, listenerVars, waiterVars, ProviderInv,
                ProviderTypeOK, ListenersHaveASource, ClearableRuns
  <2> QED
    BY <2>1, <2>2, <2>3, <2>4 DEF Next, vars
<1> QED
  BY <1>1, <1>2, PTL DEF Spec

-------------------------------------------------------------------------------
(* Calls and batches. *)

(* The inductive invariant: a request carries one block and its calls are  *)
(* nowhere else, so that an answer settles those calls, once, with it.     *)
BatchIInv == BatchInv /\ AnswersAreOfTheirBlock

(* No call is made at the start.                                           *)
LEMMA NoCallYet == Init => BatchIInv
<1> SUFFICES ASSUME Init PROVE BatchIInv
  OBVIOUS
<1>1. BatchTypeOK
  BY DEF Init, BatchTypeOK, emptyBatch, Tags
<1>2. NoCallIsForgotten /\ CallsKeepTheirBlock /\ AnswersAreOfTheirBlock
  BY BatchAssumption
     DEF Init, NoCallIsForgotten, CallsKeepTheirBlock, AnswersAreOfTheirBlock, Outstanding, emptyBatch
<1> QED
  BY <1>1, <1>2 DEF BatchIInv, BatchInv

(* A call that is made waits for its arguments. *)
LEMMA Made ==
  ASSUME NEW c \in Calls, BatchIInv, Call(c)
  PROVE  BatchIInv'
<1> USE DEF BatchIInv, BatchInv
<1>1. PICK tag \in Tags : asked' = [asked EXCEPT ![c] = tag]
  BY DEF Call
<1>2. tag # NotAsked /\ asked[c] = NotAsked
  BY BatchAssumption DEF Call
<1>3. asked' \in [Calls -> Tags \cup {NotAsked}] /\ asked'[c] = tag
      /\ \A d \in Calls : d # c => asked'[d] = asked[d]
  BY <1>1 DEF BatchTypeOK
<1>4. answers[c] = Pending
  BY <1>2 DEF CallsKeepTheirBlock
<1>5. /\ c \notin resolving /\ c \notin batched.calls
      /\ \A r \in requests : c \notin r.calls
  BY <1>2 DEF NoCallIsForgotten, Outstanding
<1>6. /\ resolving' = resolving \cup {c} /\ batched' = batched /\ timeout' = timeout
      /\ requests' = requests /\ answers' = answers
  BY DEF Call
<1>7. BatchTypeOK'
  BY <1>3, <1>6 DEF BatchTypeOK
<1>8. NoCallIsForgotten'
  BY <1>2, <1>3, <1>4, <1>5, <1>6 DEF NoCallIsForgotten, Outstanding
<1>9. CallsKeepTheirBlock' /\ AnswersAreOfTheirBlock'
  <2>1. batched.calls \subseteq Calls /\ \A r \in requests : r.calls \subseteq Calls
    BY DEF BatchTypeOK, Request
  <2> QED
    BY <1>2, <1>3, <1>4, <1>5, <1>6, <2>1, BatchAssumption
       DEF CallsKeepTheirBlock, AnswersAreOfTheirBlock
<1> QED
  BY <1>7, <1>8, <1>9

(* A new request carries the calls and the block it is given. *)
LEMMA Sent ==
  ASSUME NEW calls \in SUBSET Calls, NEW tag \in Tags, ProviderInv, Send(calls, tag)
  PROVE  \E r \in Request : r.calls = calls /\ r.blockTag = tag /\ requests' = requests \cup {r}
<1> DEFINE r == [calls |-> calls, blockTag |-> tag, retried |-> tag = seenBlock,
                 startingBlock |-> seenBlock, via |-> Route]
<1>1. seenBlock \in Blocks \cup {0} /\ (tag = seenBlock) \in BOOLEAN
  BY DEF ProviderInv, ProviderTypeOK
<1>2. r \in Request
  BY <1>1, RouteIsASource DEF Request
<1>3. r.calls = calls /\ r.blockTag = tag
  OBVIOUS
<1>4. requests' = requests \cup {r}
  BY DEF Send
<1> HIDE DEF r
<1> QED
  BY <1>2, <1>3, <1>4

(* A call that goes alone is outstanding with its own request. *)
LEMMA SentAlone ==
  ASSUME NEW c \in resolving, NEW r \in Request, BatchIInv,
         r.calls = {c}, r.blockTag = asked[c], requests' = requests \cup {r},
         resolving' = resolving \ {c}, UNCHANGED <<asked, batched, timeout, answers>>
  PROVE  BatchIInv'
<1> USE DEF BatchIInv, BatchInv
<1>1. c \in Calls /\ BatchTypeOK'
  BY DEF BatchTypeOK
<1>2. NoCallIsForgotten'
  BY <1>1 DEF NoCallIsForgotten, Outstanding
<1>3. CallsKeepTheirBlock' /\ AnswersAreOfTheirBlock'
  BY DEF CallsKeepTheirBlock, AnswersAreOfTheirBlock
<1> QED
  BY <1>1, <1>2, <1>3

(* A call that joins the batch has its block. *)
LEMMA Joined ==
  ASSUME NEW c \in resolving, BatchIInv,
         ~AlreadyBatchedCallsConflictWith(asked[c]), EnqueueCall(c),
         resolving' = resolving \ {c}, UNCHANGED <<asked, requests, answers>>
  PROVE  BatchIInv'
<1> USE DEF BatchIInv, BatchInv
<1>1. c \in Calls /\ asked[c] # NotAsked /\ asked[c] \in Tags
  <2>1. c \in Calls
    BY DEF BatchTypeOK
  <2>2. asked[c] # NotAsked
    BY <2>1 DEF NoCallIsForgotten, Outstanding
  <2> QED
    BY <2>1, <2>2 DEF BatchTypeOK
<1>2. /\ batched'.calls = batched.calls \cup {c} /\ timeout' = TRUE
      /\ batched'.blockTag = asked[c]
  BY DEF EnqueueCall, AlreadyBatchedCallsConflictWith
<1>3. batched' \in [calls : SUBSET Calls, blockTag : Tags]
  BY <1>1 DEF EnqueueCall, BatchTypeOK
<1>4. BatchTypeOK'
  BY <1>2, <1>3 DEF BatchTypeOK
<1>5. NoCallIsForgotten'
  BY <1>1, <1>2 DEF NoCallIsForgotten, Outstanding
<1>6. CallsKeepTheirBlock' /\ AnswersAreOfTheirBlock'
  BY <1>2 DEF CallsKeepTheirBlock, AnswersAreOfTheirBlock, AlreadyBatchedCallsConflictWith
<1> QED
  BY <1>4, <1>5, <1>6

(* The calls of the batch go to their request, all with its block. *)
LEMMA Dispatched ==
  ASSUME NEW r \in Request, BatchIInv, timeout,
         r.calls = batched.calls, r.blockTag = batched.blockTag,
         requests' = requests \cup {r}, batched' = emptyBatch, timeout' = FALSE,
         UNCHANGED <<asked, resolving, answers>>
  PROVE  BatchIInv'
<1> USE DEF BatchIInv, BatchInv
<1>1. batched'.calls = {} /\ BatchTypeOK'
  BY DEF BatchTypeOK, emptyBatch, Tags
<1>2. NoCallIsForgotten'
  BY <1>1 DEF NoCallIsForgotten, Outstanding
<1>3. CallsKeepTheirBlock' /\ AnswersAreOfTheirBlock'
  BY <1>1 DEF CallsKeepTheirBlock, AnswersAreOfTheirBlock
<1> QED
  BY <1>1, <1>2, <1>3

(* Requests that are settled take their calls with them, and no others. *)
LEMMA Settled ==
  ASSUME NEW settled \in SUBSET requests, NEW with, BatchIInv,
         \A r \in settled : \A c \in r.calls :
           \/ with[c] \in {Rejected, Lost}
           \/ with[c] = asked[c],
         Settle(settled, with), UNCHANGED <<asked, resolving, batched, timeout>>
  PROVE  BatchIInv'
<1> USE DEF BatchIInv, BatchInv
<1>1. \A r \in requests : \A c \in r.calls :
        c \in Calls /\ asked[c] \in Tags /\ answers[c] = Pending
  <2>1. \A r \in requests : r.calls \subseteq Calls /\ r.blockTag \in Tags
    BY DEF BatchTypeOK, Request
  <2> QED
    BY <2>1 DEF CallsKeepTheirBlock, NoCallIsForgotten, Outstanding
<1>2. \A c \in Calls : IF \E r \in settled : c \in r.calls
                       THEN answers'[c] = with[c] ELSE answers'[c] = answers[c]
  BY DEF Settle
<1>3. \A c \in Calls : (\E r \in settled : c \in r.calls) =>
        /\ answers'[c] \in Tags \cup {Rejected, Lost}
        /\ answers'[c] \in {Rejected, Lost} \/ answers'[c] = asked[c]
  BY <1>1, <1>2
<1>4. Pending \notin Tags \cup {Rejected, Lost} /\ Tags \cap {Rejected, Lost} = {}
  BY BatchAssumption
<1>5. requests' = requests \ settled
  BY DEF Settle
<1>6. BatchTypeOK'
  <2>1. answers' \in [Calls -> Tags \cup {Pending, Rejected, Lost}]
    BY <1>2, <1>3 DEF Settle, BatchTypeOK
  <2> QED
    BY <1>5, <2>1 DEF BatchTypeOK
<1>7. NoCallIsForgotten'
  <2>1. ASSUME NEW c \in Calls
        PROVE  Outstanding(c)' <=> (asked[c] # NotAsked /\ answers'[c] = Pending)
    <3>1. CASE \E r \in settled : c \in r.calls
      <4>1. ~Outstanding(c)'
        BY <1>5, <3>1 DEF Outstanding, NoCallIsForgotten
      <4> QED
        BY <1>3, <1>4, <3>1, <4>1
    <3>2. CASE ~\E r \in settled : c \in r.calls
      BY <1>2, <1>5, <3>2 DEF Outstanding, NoCallIsForgotten
    <3> QED
      BY <3>1, <3>2
  <2> QED
    BY <1>5, <2>1 DEF NoCallIsForgotten
<1>8. CallsKeepTheirBlock' /\ AnswersAreOfTheirBlock'
  <2>1. ASSUME NEW c \in Calls
        PROVE  /\ answers'[c] # Pending => asked[c] # NotAsked
               /\ answers'[c] \in Tags => answers'[c] = asked[c]
    <3>1. NotAsked \notin Tags
      BY BatchAssumption
    <3> QED
      BY <1>1, <1>2, <1>3, <1>4, <3>1 DEF CallsKeepTheirBlock, AnswersAreOfTheirBlock
  <2> QED
    BY <1>5, <2>1 DEF CallsKeepTheirBlock, AnswersAreOfTheirBlock
<1> QED
  BY <1>6, <1>7, <1>8

(* A request that is repeated is the same one, perhaps over another source. *)
LEMMA Repeated ==
  ASSUME NEW r \in requests, ProviderInv, BatchIInv,
         requests' = (requests \ {r}) \cup {[r EXCEPT !.via = Route]},
         UNCHANGED <<asked, resolving, batched, timeout, answers>>
  PROVE  BatchIInv'
<1> USE DEF BatchIInv, BatchInv
<1> DEFINE again == [r EXCEPT !.via = Route]
<1>1. again \in Request /\ again.calls = r.calls /\ again.blockTag = r.blockTag
  BY RouteIsASource DEF BatchTypeOK, Request
<1>2. requests' = (requests \ {r}) \cup {again}
  OBVIOUS
<1> HIDE DEF again
<1>3. BatchTypeOK'
  BY <1>1, <1>2 DEF BatchTypeOK
<1>4. NoCallIsForgotten'
  BY <1>1, <1>2 DEF NoCallIsForgotten, Outstanding
<1>5. CallsKeepTheirBlock' /\ AnswersAreOfTheirBlock'
  BY <1>1, <1>2 DEF CallsKeepTheirBlock, AnswersAreOfTheirBlock
<1> QED
  BY <1>3, <1>4, <1>5

(* Every step of a call, a batch or an answer keeps the calls.             *)
LEMMA BatchStepKeeps ==
  ASSUME ProviderInv, BatchIInv, BatchStep
  PROVE  BatchIInv'
<1>1. ASSUME NEW c \in Calls, Call(c)
      PROVE  BatchIInv'
  BY <1>1, Made
<1>2. ASSUME NEW c \in Calls, Resolved(c)
      PROVE  BatchIInv'
  <2>1. /\ c \in resolving /\ resolving' = resolving \ {c}
        /\ UNCHANGED <<asked, answers>>
    BY <1>2 DEF Resolved
  <2>2. asked[c] \in Tags
    BY <2>1 DEF BatchIInv, BatchInv, BatchTypeOK, NoCallIsForgotten, Outstanding
  <2>3. CASE Send({c}, asked[c]) /\ UNCHANGED <<batched, timeout>>
    <3>1. PICK r \in Request : /\ r.calls = {c} /\ r.blockTag = asked[c]
                               /\ requests' = requests \cup {r}
      BY <2>2, <2>3, Sent
    <3> QED
      BY <2>1, <2>3, <3>1, SentAlone
  <2>4. CASE /\ ~AlreadyBatchedCallsConflictWith(asked[c])
             /\ EnqueueCall(c) /\ UNCHANGED requests
    BY <2>1, <2>4, Joined
  <2> QED
    BY <1>2, <2>3, <2>4 DEF Resolved
<1>3. CASE DispatchCalls
  <2>1. batched.calls \in SUBSET Calls /\ batched.blockTag \in Tags
    BY DEF BatchIInv, BatchInv, BatchTypeOK
  <2>2. PICK r \in Request : /\ r.calls = batched.calls /\ r.blockTag = batched.blockTag
                             /\ requests' = requests \cup {r}
    BY <1>3, <2>1, Sent DEF DispatchCalls
  <2> QED
    BY <1>3, <2>2, Dispatched DEF DispatchCalls
<1>4. ASSUME NEW r \in requests, Answer(r)
      PROVE  BatchIInv'
  <2>1. \A c \in r.calls : [d \in r.calls |-> r.blockTag][c] = asked[c]
    BY DEF BatchIInv, BatchInv, CallsKeepTheirBlock
  <2> QED
    BY <1>4, <2>1, Settled DEF Answer
<1>5. ASSUME NEW r \in requests, Fail(r)
      PROVE  BatchIInv'
  <2>1. \A c \in r.calls : [d \in r.calls |-> Rejected][c] \in {Rejected, Lost}
    OBVIOUS
  <2> QED
    BY <1>5, <2>1, Settled DEF Fail
<1>6. ASSUME NEW r \in requests, HeaderNotFound(r)
      PROVE  BatchIInv'
  <2>1. CASE r.retried /\ seenBlock = r.startingBlock
    BY <1>6, <2>1, Repeated DEF HeaderNotFound
  <2>2. CASE ~(r.retried /\ seenBlock = r.startingBlock)
    <3>1. \A c \in r.calls : [d \in r.calls |-> Rejected][c] \in {Rejected, Lost}
      OBVIOUS
    <3> QED
      BY <1>6, <2>2, <3>1, Settled DEF HeaderNotFound
  <2> QED
    BY <2>1, <2>2
<1> QED
  BY <1>1, <1>2, <1>3, <1>4, <1>5, <1>6 DEF BatchStep

(* The calls lost with a socket are settled as lost. *)
LEMMA LosingKeeps ==
  ASSUME BatchIInv, LoseRequests
  PROVE  BatchIInv'
<1> DEFINE settled == {r \in requests : r.via # Base /\ r.via \notin open'}
           with == [c \in Calls |-> Lost]
<1>1. \A r \in settled : \A c \in r.calls : with[c] \in {Rejected, Lost}
  BY DEF BatchIInv, BatchInv, BatchTypeOK, Request
<1>2. Settle(settled, with) /\ UNCHANGED <<asked, resolving, batched, timeout>>
  BY DEF LoseRequests
<1>3. settled \in SUBSET requests
  OBVIOUS
<1> HIDE DEF settled, with
<1> QED
  BY <1>1, <1>2, <1>3, Settled

(* So they are kept in every reachable state.                              *)
LEMMA BatchInduction == Spec => []BatchIInv
<1>1. Init => BatchIInv
  BY NoCallYet
<1>2. ProviderInv /\ BatchIInv /\ [Next]_vars => BatchIInv'
  <2> SUFFICES ASSUME ProviderInv, BatchIInv, [Next]_vars PROVE BatchIInv'
    OBVIOUS
  <2>1. CASE SocketStep /\ LoseRequests
    BY <2>1, LosingKeeps
  <2>2. CASE UNCHANGED batchVars
    BY <2>2 DEF batchVars, BatchIInv, BatchInv, BatchTypeOK, NoCallIsForgotten,
                CallsKeepTheirBlock, AnswersAreOfTheirBlock, Outstanding
  <2>3. CASE BatchStep
    BY <2>3, BatchStepKeeps
  <2> QED
    BY <2>1, <2>2, <2>3 DEF Next, vars
<1> QED
  BY <1>1, <1>2, ListenersAreServed, PTL DEF Spec

(* No call is forgotten or asked twice, in whatever order arguments        *)
(* resolve, batches are sent, requests are repeated and sockets close.     *)
THEOREM CallsAreKept == Spec => []BatchInv
<1>1. BatchIInv => BatchInv
  BY DEF BatchIInv
<1> QED
  BY <1>1, BatchInduction, PTL

(* A call is only answered with the state of the block it was made for:    *)
(* conflicting calls never share a batch.                                  *)
THEOREM AnswersMatch == Spec => []AnswersAreOfTheirBlock
<1>1. BatchIInv => AnswersAreOfTheirBlock
  BY DEF BatchIInv
<1> QED
  BY <1>1, BatchInduction, PTL

===============================================================================
