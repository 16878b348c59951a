---------------------------- MODULE BatchedProvider ----------------------------
(***************************************************************************)
(* The provider that gathers calls of contracts into one call of the       *)
(* Multicall contract, on top of the WebSocketAugmentedProvider: the class *)
(* Batched(WebSocketAugmented(...)) that the scripts instantiate.          *)
(*                                                                         *)
(* A call waits for its arguments, joins the present batch or goes alone,  *)
(* and is answered with its request, which the provider below sends to one *)
(* of its two nodes and repeats while that node has not heard of the       *)
(* newest block.  The answer is abstracted to the block it was computed    *)
(* at, and the calls of a request to their set.                            *)
(***************************************************************************)
EXTENDS WebSocketAugmentedProvider

CONSTANTS
  Calls,         (* calls of `call`                                        *)
  Latest,        (* the block tag "latest", or none                        *)
  NotAsked, Pending, Rejected, Lost

Tags == Blocks \cup {Latest}

(* The states of a call are told apart from the answers.                   *)
ASSUME BatchAssumption ==
  /\ Tags \cap {NotAsked, Pending, Rejected, Lost} = {}
  /\ Pending # Rejected /\ Pending # Lost /\ Rejected # Lost

VARIABLES
  asked,          (* the block tag of each call, once it is made           *)
  resolving,      (* calls that await their arguments                      *)
  batched,        (* _batched                                              *)
  timeout,        (* the timeout of _timeoutId is pending                  *)
  requests,       (* requests to the nodes under way                       *)
  answers         (* how each call was settled                             *)

batchVars == <<asked, resolving, batched, timeout, requests, answers>>
vars == <<providerVars, batchVars>>

Request == [calls : SUBSET Calls, blockTag : Tags, retried : BOOLEAN,
            startingBlock : Blocks \cup {0}, via : Sources]

BatchTypeOK ==
  /\ asked \in [Calls -> Tags \cup {NotAsked}]
  /\ resolving \subseteq Calls
  /\ batched \in [calls : SUBSET Calls, blockTag : Tags]
  /\ timeout \in BOOLEAN
  /\ requests \subseteq Request
  /\ answers \in [Calls -> Tags \cup {Pending, Rejected, Lost}]

emptyBatch == [calls |-> {}, blockTag |-> Latest]

Init ==
  /\ ProviderInit
  /\ asked = [c \in Calls |-> NotAsked]
  /\ resolving = {}
  /\ batched = emptyBatch
  /\ timeout = FALSE
  /\ requests = {}
  /\ answers = [c \in Calls |-> Pending]

-------------------------------------------------------------------------------
(* Calls and batches. *)

(* The call of the provider below: a call at the newest block is retried.  *)
Send(calls, blockTag) ==
  requests' = requests \cup
    {[calls |-> calls, blockTag |-> blockTag, retried |-> blockTag = seenBlock,
      startingBlock |-> seenBlock, via |-> Route]}

(* Seeded fault: the first call of a batch decides for the others. *)
NeverConflicts(blockTag) == FALSE

AlreadyBatchedCallsConflictWith(blockTag) ==
  batched.calls # {} /\ blockTag # batched.blockTag

(* Seeded fault: a timer that runs is cleared and not set again. *)
EnqueueTogglingTheTimer(c) ==
  /\ batched' = [calls |-> batched.calls \cup {c},
                 blockTag |-> IF batched.calls = {} THEN asked[c] ELSE batched.blockTag]
  /\ timeout' = ~timeout

EnqueueCall(c) ==
  /\ batched' = [calls |-> batched.calls \cup {c},
                 blockTag |-> IF batched.calls = {} THEN asked[c] ELSE batched.blockTag]
  /\ timeout' = TRUE

Call(c) ==
  /\ asked[c] = NotAsked
  /\ \E blockTag \in Tags : asked' = [asked EXCEPT ![c] = blockTag]
  /\ resolving' = resolving \cup {c}
  /\ UNCHANGED <<batched, timeout, requests, answers>>

(* The arguments are there.  A call with a value or gas is not batchable.  *)
Resolved(c) ==
  /\ c \in resolving
  /\ resolving' = resolving \ {c}
  /\ \E batchableCall \in BOOLEAN :
       IF ~batchableCall \/ AlreadyBatchedCallsConflictWith(asked[c])
       THEN Send({c}, asked[c]) /\ UNCHANGED <<batched, timeout>>
       ELSE EnqueueCall(c) /\ UNCHANGED requests
  /\ UNCHANGED <<asked, answers>>

(* Seeded fault: the batch is emptied when its answer is there. *)
DispatchKeepingBatch ==
  /\ timeout
  /\ timeout' = FALSE
  /\ Send(batched.calls, batched.blockTag)
  /\ UNCHANGED <<asked, resolving, batched, answers>>

DispatchCalls ==
  /\ timeout
  /\ timeout' = FALSE
  /\ batched' = emptyBatch
  /\ Send(batched.calls, batched.blockTag)
  /\ UNCHANGED <<asked, resolving, answers>>

-------------------------------------------------------------------------------
(* Answers. *)

Settle(settled, with) ==
  /\ requests' = requests \ settled
  /\ answers' = [c \in Calls |->
                   IF \E r \in settled : c \in r.calls THEN with[c] ELSE answers[c]]

Answer(r) ==
  /\ Settle({r}, [c \in r.calls |-> r.blockTag])
  /\ UNCHANGED <<asked, resolving, batched, timeout>>

(* Any error but a missing header, that of one call of a batch included.   *)
Fail(r) ==
  /\ Settle({r}, [c \in r.calls |-> Rejected])
  /\ UNCHANGED <<asked, resolving, batched, timeout>>

(* The node has not heard of the block: the request is repeated, perhaps   *)
(* over the other provider, until another block was seen.                  *)
HeaderNotFound(r) ==
  /\ r.blockTag # Latest
  /\ IF r.retried /\ seenBlock = r.startingBlock
     THEN /\ requests' = (requests \ {r}) \cup {[r EXCEPT !.via = Route]}
          /\ UNCHANGED answers
     ELSE Settle({r}, [c \in r.calls |-> Rejected])
  /\ UNCHANGED <<asked, resolving, batched, timeout>>

(* Requests on the way over a socket that closes are lost.                 *)
LoseRequests ==
  /\ Settle({r \in requests : r.via # Base /\ r.via \notin open'}, [c \in Calls |-> Lost])
  /\ UNCHANGED <<asked, resolving, batched, timeout>>

-------------------------------------------------------------------------------
BatchStep ==
  \/ \E c \in Calls : Call(c) \/ Resolved(c)
  \/ DispatchCalls
  \/ \E r \in requests : Answer(r) \/ Fail(r) \/ HeaderNotFound(r)

Next ==
  \/ SocketStep /\ LoseRequests
  \/ (ListenerStep \/ WaiterStep) /\ UNCHANGED batchVars
  \/ BatchStep /\ UNCHANGED providerVars

(* Timers run, arguments resolve, and a node that is asked answers.        *)
Fairness ==
  /\ ProviderFairness
  /\ WF_batchVars(DispatchCalls)
  /\ \A c \in Calls :
       /\ WF_batchVars(Resolved(c))
       /\ WF_batchVars(\E r \in requests : c \in r.calls /\ Answer(r))

Spec == Init /\ [][Next]_vars /\ Fairness

-------------------------------------------------------------------------------
(* Properties. *)

Outstanding(c) ==
  c \in resolving \/ c \in batched.calls \/ \E r \in requests : c \in r.calls

(* No call is forgotten or asked twice: each one that was made is in one   *)
(* place until it is settled and in none afterwards, and a batch that is   *)
(* not empty has its timer - whichever batch a call joins and whatever     *)
(* comes between its timer and its answer.                                 *)
NoCallIsForgotten ==
  /\ \A c \in Calls : Outstanding(c) <=> (asked[c] # NotAsked /\ answers[c] = Pending)
  /\ resolving \cap batched.calls = {}
  /\ \A r \in requests : r.calls \cap (resolving \cup batched.calls) = {}
  /\ \A r, q \in requests : r # q => r.calls \cap q.calls = {}
  /\ timeout <=> batched.calls # {}

(* Calls are batched, and asked for, with others of the same block only,   *)
(* and settled after they were made.                                       *)
CallsKeepTheirBlock ==
  /\ \A c \in Calls : answers[c] # Pending => asked[c] # NotAsked
  /\ \A c \in batched.calls : asked[c] = batched.blockTag
  /\ \A r \in requests : \A c \in r.calls : asked[c] = r.blockTag

BatchInv == BatchTypeOK /\ NoCallIsForgotten /\ CallsKeepTheirBlock

(* A call is answered with the state of the block it was made for, never   *)
(* with that of the block of the calls it was batched with.                *)
AnswersAreOfTheirBlock ==
  \A c \in Calls : answers[c] \in Tags => answers[c] = asked[c]

(* Every call is settled in the end, or lost with the socket it was asked  *)
(* over, however the timer of the batch is reset and the block events and  *)
(* the requests change between the providers.                              *)
EveryCallSettles == \A c \in Calls : asked[c] # NotAsked ~> answers[c] # Pending
===============================================================================
