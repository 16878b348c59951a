------------------------------- MODULE ARTHStore -------------------------------
(***************************************************************************)
(* lib-base's ARTHStore and lib-ethers' BlockPolledARTHStore: the state of *)
(* the protocol as the web application sees it.                            *)
(*                                                                         *)
(* For every block the store fetches the contracts' state (_get), takes it *)
(* over as its base state, and derives more from it with further calls     *)
(* (_derive).  Both are asynchronous: any number of them may be under way, *)
(* and their answers come in any order, late, or not at all.  A timer      *)
(* derives again when no block arrives.                                    *)
(*                                                                         *)
(* A part of the state is abstracted to the number of the block whose      *)
(* state it was computed from.  For the derived state this is the block of *)
(* the base state it is given: trove, fees and the warning flag follow     *)
(* from that state alone.  The two rates also read the fee floors of the   *)
(* governance contract, at the latest block; these are taken as constant.  *)
(***************************************************************************)
EXTENDS Integers, FiniteSets

CONSTANTS
  MaxBlock,       (* bound: blocks of the chain                            *)
  MaxStarts,      (* bound: calls of start()                               *)
  MaxPending      (* bound: derivations under way                          *)

ASSUME StoreAssumption == MaxBlock \in Nat /\ MaxStarts \in Nat /\ MaxPending \in Nat

VARIABLES
  head,           (* the latest block                                      *)
  starts,         (* calls of start() so far                               *)
  running,        (* started and not stopped: listening to blocks          *)
  fetches,        (* calls of _get under way                               *)
  loaded,         (* _loaded                                               *)
  base,           (* _baseState                                            *)
  derived,        (* _derivedState                                         *)
  extra,          (* _extraState                                           *)
  derivations,    (* calls of _derive under way, from _load and _update    *)
  timer,          (* the timeout of _scheduleUpdate is pending             *)
  seen,           (* the state last given to onLoaded or to the listeners  *)
  overlapped,     (* two derivations were once under way together          *)
  lost            (* a derivation failed                                   *)

fetchVars == <<head, starts, running, fetches>>
stateVars == <<loaded, base, derived, extra>>
vars == <<fetchVars, stateVars, derivations, timer, seen, overlapped, lost>>

None == -1

(* Fetched before any block event, by start(): the block tag is undefined. *)
Fetch == [initial : BOOLEAN, block : Nat, start : Nat]
Extra == [blockTag : Nat \cup {None}, blockTimestamp : Nat \cup {None}]
NoExtra == [blockTag |-> None, blockTimestamp |-> None]

State == [base |-> base, derived |-> derived, extra |-> extra]

StoreTypeOK ==
  /\ head \in Nat
  /\ starts \in Nat
  /\ running \in BOOLEAN
  /\ fetches \subseteq Fetch
  /\ loaded \in BOOLEAN
  /\ base \in Nat \cup {None}
  /\ derived \in Nat \cup {None}
  /\ extra \in Extra
  /\ derivations \subseteq [id : Nat, load : BOOLEAN, from : Nat, extra : Extra]
  /\ timer \in BOOLEAN
  /\ seen \in [base : Nat \cup {None}, derived : Nat \cup {None}, extra : Extra]
  /\ overlapped \in BOOLEAN
  /\ lost \in BOOLEAN

(* start() has been called once.                                           *)
Init ==
  /\ head = 0
  /\ starts = 1
  /\ running = TRUE
  /\ fetches = {[initial |-> TRUE, block |-> 0, start |-> 1]}
  /\ loaded = FALSE
  /\ base = None
  /\ derived = None
  /\ extra = NoExtra
  /\ derivations = {}
  /\ timer = FALSE
  /\ seen = [base |-> None, derived |-> None, extra |-> NoExtra]
  /\ overlapped = FALSE
  /\ lost = FALSE

-------------------------------------------------------------------------------
(* Starting, stopping, blocks. *)

Start ==
  /\ ~running
  /\ starts < MaxStarts
  /\ starts' = starts + 1
  /\ running' = TRUE
  /\ fetches' = fetches \cup {[initial |-> TRUE, block |-> head, start |-> starts + 1]}
  /\ UNCHANGED <<head, stateVars, derivations, timer, seen, overlapped, lost>>

(* The function start() returns: what is under way goes on.                *)
Stop ==
  /\ running
  /\ running' = FALSE
  /\ timer' = FALSE
  /\ UNCHANGED <<head, starts, fetches, stateVars, derivations, seen, overlapped, lost>>

(* A block is mined; the listener, if there is one, fetches its state.     *)
NewBlock ==
  /\ head < MaxBlock
  /\ head' = head + 1
  /\ fetches' = IF running
                  THEN fetches \cup {[initial |-> FALSE, block |-> head + 1, start |-> starts]}
                  ELSE fetches
  /\ UNCHANGED <<starts, running, stateVars, derivations, timer, seen, overlapped, lost>>

-------------------------------------------------------------------------------
(* Loading and updating.  A call of _load or _update runs up to its await  *)
(* of _derive in the step that makes it, and the rest when that answers.   *)

FreeIds == (1..MaxPending) \ {d.id : d \in derivations}

Derive(load, from, extraUpdate) ==
  /\ \E id \in FreeIds :
       /\ \A other \in FreeIds : id <= other
       /\ derivations' = derivations \cup
            {[id |-> id, load |-> load, from |-> from, extra |-> extraUpdate]}
  /\ overlapped' = (overlapped \/ derivations # {})

(* Seeded fault: the store counts as loaded before it has derived. *)
LoadEarly(block, extraState) ==
  /\ base' = block
  /\ Derive(TRUE, block, extraState)
  /\ loaded' = TRUE
  /\ UNCHANGED <<derived, extra>>

Load(block, extraState) ==
  /\ base' = block
  /\ Derive(TRUE, block, extraState)
  /\ UNCHANGED <<loaded, derived, extra>>

Update(block, extraUpdate) ==
  /\ base' = block
  /\ Derive(FALSE, block, extraUpdate)
  /\ UNCHANGED <<loaded, derived, extra>>

(* _get answers.  The first fetch loads what the latest block was at some  *)
(* moment, and only if nothing is loaded by then; a block's fetch loads or *)
(* updates.                                                                *)
FetchAnswers(fetch) ==
  /\ fetches' = fetches \ {fetch}
  /\ \/ /\ fetch.initial /\ ~loaded
        /\ \E block \in fetch.block..head :
             Load(block, [blockTag |-> None, blockTimestamp |-> block])
     \/ /\ fetch.initial /\ loaded
        /\ UNCHANGED <<stateVars, derivations, overlapped>>
     \/ /\ ~fetch.initial
        /\ LET extraState == [blockTag |-> fetch.block, blockTimestamp |-> fetch.block]
           IN  IF loaded THEN Update(fetch.block, extraState)
               ELSE Load(fetch.block, extraState)
  /\ UNCHANGED <<head, starts, running, timer, seen, lost>>

FetchFails(fetch) ==
  /\ fetches' = fetches \ {fetch}
  /\ UNCHANGED <<head, starts, running, stateVars, derivations, timer, seen, overlapped, lost>>

(* The timeout of 30 seconds: _update without a new base state.            *)
TimerFires ==
  /\ timer
  /\ timer' = FALSE
  /\ Derive(FALSE, base, NoExtra)
  /\ UNCHANGED <<fetchVars, stateVars, seen, lost>>

(* Seeded fault: what the update has of extra state replaces the whole. *)
ReduceExtraWhole(old, update) == update

(* _reduceExtra: a part that is undefined keeps its old value.             *)
ReduceExtra(old, update) ==
  [blockTag |-> IF update.blockTag = None THEN old.blockTag ELSE update.blockTag,
   blockTimestamp |-> IF update.blockTimestamp = None THEN old.blockTimestamp
                      ELSE update.blockTimestamp]

(* Seeded fault: only the first derivation schedules the next update. *)
ScheduleOnLoad == timer' = (timer \/ ~loaded)

ScheduleUpdate == timer' = TRUE

(* onLoaded or the listeners are called; they are given the present state. *)
Notify(d) == seen' = State'

(* _derive answers: the rest of _load or of _update.                       *)
DeriveAnswers(d) ==
  /\ derivations' = derivations \ {d}
  /\ derived' = d.from
  /\ \/ d.load /\ loaded' = TRUE /\ extra' = d.extra
     \/ ~d.load /\ extra' = ReduceExtra(extra, d.extra) /\ UNCHANGED loaded
  /\ UNCHANGED <<fetchVars, base, overlapped, lost>>
  /\ ScheduleUpdate
  /\ Notify(d)

(* A call of _derive fails: nothing after the await is done, and the timer *)
(* is not set again.                                                       *)
DeriveFails(d) ==
  /\ derivations' = derivations \ {d}
  /\ lost' = TRUE
  /\ UNCHANGED <<fetchVars, stateVars, timer, seen, overlapped>>

Next ==
  \/ Start
  \/ Stop
  \/ NewBlock
  \/ \E fetch \in fetches : FetchAnswers(fetch)
  \/ \E fetch \in fetches : FetchFails(fetch)
  \/ TimerFires
  \/ \E d \in derivations : DeriveAnswers(d)
  \/ \E d \in derivations : DeriveFails(d)

(* The node answers what it is asked, and timers run.                      *)
Fairness ==
  /\ WF_vars(\E fetch \in fetches : FetchAnswers(fetch))
  /\ WF_vars(\E d \in derivations : DeriveAnswers(d))
  /\ WF_vars(TimerFires)

Spec == Init /\ [][Next]_vars /\ Fairness

-------------------------------------------------------------------------------
(* Properties. *)

(* A loaded store has every part of its state, whichever fetch loaded it   *)
(* and however many were under way: the assertions of _update hold, and    *)
(* `state` may be read once onLoaded was called.                           *)
LoadedIsComplete ==
  /\ loaded => base # None /\ derived # None /\ extra.blockTimestamp # None
  /\ timer => loaded

(* When nothing is under way and no derivation failed, the callbacks were  *)
(* given the state the store has: no change of it goes unannounced, not    *)
(* even when loads and updates overlapped.                                 *)
SubscribersAreCurrent ==
  derivations = {} /\ ~lost => seen = State

StoreInv ==
  /\ StoreTypeOK
  /\ LoadedIsComplete
  /\ SubscribersAreCurrent

(* As long as derivations did not overlap, the derived state and the block *)
(* named in the extra state are those of the base state whenever nothing   *)
(* is under way.                                                           *)
ConsistentWithoutOverlap ==
  derivations = {} /\ ~overlapped /\ ~lost =>
    /\ derived = base
    /\ extra.blockTimestamp = base
    /\ extra.blockTag \in {base, None}

(* Derivations may overlap and answer in any order, so the derived state   *)
(* may be one of an older base state; in a store that is neither stopped   *)
(* nor fails a derivation it matches the base state in the end, even when  *)
(* no more blocks arrive.                                                  *)
DerivedCatchesUp == []running /\ []~lost => <>[](loaded => derived = base)

(* start() returns a "Function to stop the monitoring": a store that stays *)
(* stopped comes to rest.  It does not when _load or _update was waiting   *)
(* for _derive as it was stopped: what follows the await sets the timer,   *)
(* which nothing clears any more, and each update sets it again.           *)
StopEnds == <>[]~running => <>[]~timer
===============================================================================
