---------------------- MODULE WebSocketAugmentedProvider ----------------------
(***************************************************************************)
(* The provider of the providers package that takes block events and reads *)
(* from a WebSocket while one is open and from the provider it extends     *)
(* (the base) otherwise: opening, closing and reconnecting of the socket,  *)
(* the map of block listeners, and waitForTransaction.                     *)
(*                                                                         *)
(* The two nodes are external.  They may be behind each other, so that any *)
(* of them may announce any block; only whether two numbers are the same   *)
(* matters to the code.  Of ethers' providers it matters that `on` adds a  *)
(* subscription each time, that `off` removes one, and that a request sent *)
(* over a socket that closes is never answered.                            *)
(***************************************************************************)
EXTENDS Integers, FiniteSets

CONSTANTS
  Blocks,        (* block numbers                                          *)
  Clients,       (* functions passed to on("block")                        *)
  Waiters,       (* calls of waitForTransaction                            *)
  MaxSockets,    (* bound: sockets open at the same time                   *)
  MaxSubs,       (* bound: more subscriptions than that are not told apart *)
  MaxTimers      (* bound: reconnection timers                             *)

ASSUME ProviderAssumption ==
  MaxSockets \in Nat /\ MaxSubs \in Nat \ {0} /\ MaxTimers \in Nat

Base == 0
Sockets == 1..MaxSockets
Sources == {Base} \cup Sockets
Keys == Clients \cup Waiters

VARIABLES
  wsProvider,     (* _wsProvider, or Base when it is undefined             *)
  open,           (* sockets not closed; the onClose of each is set        *)
  ready,          (* those whose isReady holds                             *)
  timers,         (* pending timers of _onWebSocketClose                   *)
  clearable,      (* _reconnectTimerId is one of them                      *)
  subs,           (* subscriptions of _blockListener to each source        *)
  seenBlock,      (* _seenBlock                                            *)
  scheduled,      (* _blockListenerScheduled                               *)
  blockListeners, (* keys of _blockListeners                               *)
  deferred,       (* waiters whose call was put off by defer               *)
  waiting,        (* where each call of waitForTransaction is              *)
  route,          (* the source of its request, or Base without one        *)
  transaction     (* pending, mined, or known to every node                *)

socketVars == <<wsProvider, open, ready, timers, clearable>>
listenerVars == <<seenBlock, scheduled, blockListeners, deferred>>
waiterVars == <<waiting, route, transaction>>
providerVars == <<socketVars, subs, listenerVars, waiterVars>>

(* A request is on its way: for the receipt, for the receipt after a block *)
(* was announced, or for that block.                                       *)
Requesting == {"fetching", "refetching", "checking"}

(* The loops of _blockContainsTx and _getTransactionReceiptFromLatest wait *)
(* before they ask for the block, or again for the receipt.                *)
Delayed == {"beforeBlock", "beforeReceipt"}

WaiterStates == Requesting \cup Delayed \cup {"idle", "listening", "done", "lost", "rejected"}

ProviderTypeOK ==
  /\ wsProvider \in Sources
  /\ open \subseteq Sockets /\ ready \subseteq open
  /\ timers \in 0..MaxTimers /\ clearable \in BOOLEAN
  /\ subs \in [Sources -> 0..MaxSubs]
  /\ seenBlock \in Blocks \cup {0}
  /\ scheduled \in BOOLEAN
  /\ blockListeners \subseteq Keys
  /\ deferred \subseteq Waiters
  /\ waiting \in [Waiters -> WaiterStates]
  /\ route \in [Waiters -> Sources]
  /\ transaction \in {"pending", "mined", "known"}

ProviderInit ==
  /\ wsProvider = Base /\ open = {} /\ ready = {}
  /\ timers = 0 /\ clearable = FALSE
  /\ subs = [s \in Sources |-> 0]
  /\ seenBlock = 0 /\ scheduled = FALSE
  /\ blockListeners = {} /\ deferred = {}
  /\ waiting = [w \in Waiters |-> "idle"] /\ route = [w \in Waiters |-> Base]
  /\ transaction = "pending"

-------------------------------------------------------------------------------
(* Subscriptions. *)

StartBlockEvents(s, subscriptions) ==
  [subscriptions EXCEPT ![s] = IF @ < MaxSubs THEN @ + 1 ELSE @]

(* What is left when one subscription is removed.                          *)
OneLess(n) ==
  IF n = 0 THEN {0} ELSE IF n < MaxSubs THEN {n - 1} ELSE {n - 1, n}

StopBlockEvents(s, subscriptions) ==
  {[subscriptions EXCEPT ![s] = n] : n \in OneLess(subscriptions[s])}

(* Seeded fault: a closed socket leaves its listeners without a source. *)
SwitchoverToSocketOnly(ws, subscriptions) ==
  IF blockListeners = {} \/ ws = Base THEN {subscriptions}
  ELSE {StartBlockEvents(ws, rest) : rest \in StopBlockEvents(Base, subscriptions)}

Switchover(ws, subscriptions) ==
  IF blockListeners = {} THEN {subscriptions}
  ELSE {StartBlockEvents(ws, rest) :
          rest \in IF ws = Base THEN {subscriptions}
                   ELSE StopBlockEvents(Base, subscriptions)}

-------------------------------------------------------------------------------
(* The socket. *)

(* openWebSocket.  A socket that is open already stays open beside it.     *)
OpenWebSocket ==
  \E k \in Sockets \ open :
    /\ wsProvider' = k
    /\ open' = open \cup {k}
    /\ subs' \in Switchover(k, subs)
    /\ UNCHANGED <<ready, listenerVars, waiterVars>>

(* Sockets close, the present one among them if there is one: the listener *)
(* is moved to the base, and what was asked over the sockets stays         *)
(* unanswered.                                                             *)
SocketsClose(closing) ==
  /\ wsProvider' = Base
  /\ open' = open \ closing
  /\ ready' = ready \ closing
  /\ LET remaining == [s \in Sources |-> IF s \in closing THEN 0 ELSE subs[s]]
     IN  subs' \in IF wsProvider = Base THEN {remaining} ELSE Switchover(Base, remaining)
  /\ waiting' = [w \in Waiters |-> IF route[w] \in closing THEN "lost" ELSE waiting[w]]
  /\ route' = [w \in Waiters |-> IF route[w] \in closing THEN Base ELSE route[w]]
  /\ UNCHANGED <<listenerVars, transaction>>

(* The timer is cleared only when there was a socket to close.             *)
TimersAfterClosing == IF wsProvider # Base /\ clearable THEN timers - 1 ELSE timers

UserOpensWebSocket == OpenWebSocket /\ UNCHANGED <<timers, clearable>>

UserClosesWebSocket ==
  /\ wsProvider # Base
  /\ SocketsClose({wsProvider})
  /\ timers' = TimersAfterClosing
  /\ clearable' = FALSE

SocketConnects(k) ==
  /\ k \in open \ ready
  /\ ready' = ready \cup {k}
  /\ UNCHANGED <<wsProvider, open, timers, clearable, subs, listenerVars, waiterVars>>

(* _onWebSocketClose, called by any socket whose onClose is set: it closes *)
(* the present one, whichever it is, and comes back in ten seconds.        *)
Closing(k) == {k, wsProvider} \ {Base}

ConnectionLost(k) ==
  /\ k \in open
  /\ SocketsClose(Closing(k))
  /\ TimersAfterClosing < MaxTimers
  /\ timers' = TimersAfterClosing + 1
  /\ clearable' = TRUE

(* The timer that fires is the one of _reconnectTimerId, or an older one.  *)
Reconnects ==
  /\ timers > 0
  /\ OpenWebSocket
  /\ timers' = timers - 1
  /\ \/ clearable /\ clearable' = FALSE
     \/ timers > (IF clearable THEN 1 ELSE 0) /\ UNCHANGED clearable

-------------------------------------------------------------------------------
(* Block listeners. *)

(* _onBlock, called by any source that still has a subscription.           *)
OnBlock(s, block) ==
  /\ subs[s] > 0
  /\ s = Base \/ s \in ready
  /\ seenBlock' = block
  /\ scheduled' = TRUE
  /\ UNCHANGED <<socketVars, subs, blockListeners, deferred, waiterVars>>

(* Seeded fault: `once` removes the listener first, and its call finds it *)
(* inactive.                                                              *)
CallAfterRemoval ==
  /\ scheduled
  /\ scheduled' = FALSE
  /\ blockListeners' = blockListeners \ Waiters
  /\ deferred' = deferred \cup (blockListeners' \cap Waiters)
  /\ UNCHANGED <<socketVars, subs, seenBlock, waiterVars>>

(* After 50 ms: each listener's call is deferred, and those of `once` are  *)
(* removed from the map - but not the subscription, if they were the last. *)
(* The calls of clients end outside this module.                           *)
CallBlockListeners ==
  /\ scheduled
  /\ scheduled' = FALSE
  /\ deferred' = deferred \cup (blockListeners \cap Waiters)
  /\ blockListeners' = blockListeners \ Waiters
  /\ UNCHANGED <<socketVars, subs, seenBlock, waiterVars>>

AddBlockListener(key) ==
  /\ key \notin blockListeners
  /\ blockListeners' = blockListeners \cup {key}
  /\ subs' = IF blockListeners = {} THEN StartBlockEvents(wsProvider, subs) ELSE subs
  /\ UNCHANGED <<seenBlock, scheduled>>

On(client) ==
  /\ AddBlockListener(client)
  /\ UNCHANGED <<socketVars, deferred, waiterVars>>

Off(client) ==
  /\ client \in blockListeners
  /\ blockListeners' = blockListeners \ {client}
  /\ subs' \in IF blockListeners' = {} THEN StopBlockEvents(wsProvider, subs) ELSE {subs}
  /\ UNCHANGED <<socketVars, seenBlock, scheduled, deferred, waiterVars>>

-------------------------------------------------------------------------------
(* waitForTransaction without a timeout, for one confirmation. *)

(* The source of getTransactionReceipt, getBlock and call.                 *)
Route == IF wsProvider \in ready THEN wsProvider ELSE Base

Ask(w, request) ==
  /\ waiting' = [waiting EXCEPT ![w] = request]
  /\ route' = [route EXCEPT ![w] = Route]
  /\ UNCHANGED <<socketVars, subs, transaction>>

WaitForTransaction(w) ==
  /\ waiting[w] = "idle"
  /\ Ask(w, "fetching")
  /\ UNCHANGED listenerVars

GoesTo(w, state) ==
  /\ waiting' = [waiting EXCEPT ![w] = state]
  /\ route' = [route EXCEPT ![w] = Base]
  /\ UNCHANGED <<socketVars, transaction>>

(* The next block is waited for, with once.                                *)
WaitForBlock(w) == GoesTo(w, "listening") /\ AddBlockListener(w) /\ UNCHANGED deferred

(* There is no receipt, and no block is known that should contain it.      *)
NoReceipt(w) ==
  /\ waiting[w] = "fetching" /\ transaction # "known"
  /\ WaitForBlock(w)

Receipt(w) ==
  /\ waiting[w] \in {"fetching", "refetching"} /\ transaction # "pending"
  /\ GoesTo(w, "done")
  /\ UNCHANGED <<subs, listenerVars>>

(* The block that was waited for: the receipt is asked for again.          *)
CallWaiter(w) ==
  /\ w \in deferred
  /\ deferred' = deferred \ {w}
  /\ Ask(w, "refetching")
  /\ UNCHANGED <<seenBlock, scheduled, blockListeners>>

(* The answer comes from a node behind the announced block: it has no      *)
(* receipt, which may be right, or one with too few confirmations.         *)
AnswerFromBehind(w) ==
  /\ waiting[w] = "refetching"
  /\ \/ transaction # "known" /\ GoesTo(w, "beforeBlock")
     \/ transaction # "pending" /\ GoesTo(w, "beforeReceipt")
  /\ UNCHANGED <<subs, listenerVars>>

DelayEnds(w) ==
  /\ \/ waiting[w] = "beforeBlock" /\ Ask(w, "checking")
     \/ waiting[w] = "beforeReceipt" /\ Ask(w, "refetching")
  /\ UNCHANGED listenerVars

(* This node does not have the block either.                               *)
NoBlock(w) ==
  /\ waiting[w] = "checking"
  /\ GoesTo(w, "beforeBlock")
  /\ UNCHANGED <<subs, listenerVars>>

(* The announced block contains the transaction, or not.                   *)
Block(w) ==
  /\ waiting[w] = "checking"
  /\ \/ /\ transaction # "pending"
        /\ GoesTo(w, "beforeReceipt")
        /\ UNCHANGED <<subs, listenerVars>>
     \/ WaitForBlock(w)

RequestFails(w) ==
  /\ waiting[w] \in Requesting
  /\ GoesTo(w, "rejected")
  /\ UNCHANGED <<subs, listenerVars>>

(* The transaction is mined, and the other nodes hear of its block.        *)
TransactionSpreads ==
  /\ \/ transaction = "pending" /\ transaction' = "mined"
     \/ transaction = "mined" /\ transaction' = "known"
  /\ UNCHANGED <<socketVars, subs, listenerVars, waiting, route>>

-------------------------------------------------------------------------------
SocketStep ==
  \/ UserOpensWebSocket
  \/ UserClosesWebSocket
  \/ Reconnects
  \/ \E k \in Sockets : SocketConnects(k) \/ ConnectionLost(k)

ListenerStep ==
  \/ \E s \in Sources, block \in Blocks : OnBlock(s, block)
  \/ CallBlockListeners
  \/ \E client \in Clients : On(client) \/ Off(client)

WaiterStep ==
  \/ TransactionSpreads
  \/ \E w \in Waiters :
       \/ WaitForTransaction(w) \/ CallWaiter(w) \/ DelayEnds(w)
       \/ NoReceipt(w) \/ Receipt(w) \/ AnswerFromBehind(w)
       \/ NoBlock(w) \/ Block(w) \/ RequestFails(w)

ProviderNext == SocketStep \/ ListenerStep \/ WaiterStep

(* Blocks go on being mined and announced by the source the provider       *)
(* listens to; nodes answer, timers run, and a node that is asked again    *)
(* and again catches up.  Nothing is assumed of the user, of requests that *)
(* fail, of losses of the connection and of reconnections.                 *)
ProviderFairness ==
  /\ WF_providerVars(\E block \in Blocks : OnBlock(wsProvider, block))
  /\ WF_providerVars(CallBlockListeners)
  /\ WF_providerVars(transaction = "mined" /\ TransactionSpreads)
  /\ \A k \in Sockets : WF_providerVars(SocketConnects(k))
  /\ \A w \in Waiters :
       /\ WF_providerVars(NoReceipt(w) \/ Receipt(w) \/ AnswerFromBehind(w))
       /\ WF_providerVars(CallWaiter(w) \/ DelayEnds(w))
       /\ SF_providerVars(Receipt(w)) /\ SF_providerVars(Block(w))

ProviderSpec == ProviderInit /\ [][ProviderNext]_providerVars /\ ProviderFairness

-------------------------------------------------------------------------------
(* Properties. *)

(* As long as anybody listens to blocks, the source that the provider      *)
(* takes them from has its subscription: opening, closing, losing and      *)
(* reopening sockets, and listeners that come, go and remove themselves    *)
(* in between, never leave the listeners without block events.             *)
ListenersHaveASource == blockListeners # {} => subs[wsProvider] > 0

(* The timer that closing a socket clears is one that still runs.          *)
ClearableRuns == clearable => timers > 0

ProviderInv == ProviderTypeOK /\ ListenersHaveASource /\ ClearableRuns

(* A call of waitForTransaction ends once the transaction is known, unless *)
(* a request fails or the socket it asked closes: although the transaction *)
(* may be mined between the missing receipt and the call of once, although *)
(* nodes lag behind the block that was announced, and although block       *)
(* events move between the sources, as long as they settle in the end.     *)
TransactionsAreNoticed ==
  \A w \in Waiters :
    (\E s \in Sources : <>[](wsProvider = s)) =>
      (waiting[w] \in Requesting \cup Delayed \cup {"listening"} /\ transaction # "pending"
         ~> waiting[w] \in {"done", "lost", "rejected"})
===============================================================================
