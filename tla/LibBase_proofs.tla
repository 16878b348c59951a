--------------------------- MODULE LibBase_proofs ---------------------------
(***************************************************************************)
(* lib-base.  The store is complete once it is loaded, and consistent as   *)
(* long as its derivations do not overlap - for any number of blocks,      *)
(* starts and derivations under way.                                       *)
(*                                                                         *)
(* The decimals and troves of the SDK compute what the contracts compute,  *)
(* and the changes it makes lead to the wanted trove - for every           *)
(* precision, factor, reserve, rate and trove.  The contract's power by    *)
(* squaring never grows with the exponent, and is off the exact power by   *)
(* half a unit of the last digit for each product at most.                 *)
(***************************************************************************)
EXTENDS ARTHStore, MCArithmetic, DataLemmas

(* What a derivation under way will leave behind: one from _load brings a  *)
(* whole extra state, one from _update finds the store loaded.             *)
PendingIsSound ==
  /\ derivations # {} => base # None
  /\ \A d \in derivations :
       IF d.load THEN d.extra.blockTimestamp # None ELSE loaded

(* The inductive invariant of the store.                                   *)
StoreIInv == StoreInv /\ PendingIsSound

(* Without an overlap there is one derivation at most; it derives from the *)
(* present base state, and completes an extra state that names it.         *)
AloneIsConsistent ==
  ~overlapped /\ ~lost =>
    /\ \A d, e \in derivations : d = e
    /\ derivations = {} =>
         /\ derived = base
         /\ extra.blockTimestamp = base /\ extra.blockTag \in {base, None}
    /\ \A d \in derivations :
         /\ d.from = base
         /\ d.load => d.extra.blockTimestamp = base
         /\ LET after == IF d.load THEN d.extra ELSE ReduceExtra(extra, d.extra)
            IN  after.blockTimestamp = base /\ after.blockTag \in {base, None}

ConsistencyIInv == StoreIInv /\ AloneIsConsistent

Derivation == [id : Nat, load : BOOLEAN, from : Nat, extra : Extra]

(* The invariant holds before start().                                     *)
LEMMA StartState == Init => ConsistencyIInv
<1> SUFFICES ASSUME Init PROVE ConsistencyIInv
  OBVIOUS
<1>1. fetches \subseteq Fetch
  BY DEF Init, Fetch
<1>2. NoExtra \in Extra
  BY DEF NoExtra, Extra
<1>3. seen \in [base : Nat \cup {None}, derived : Nat \cup {None}, extra : Extra]
  BY <1>2 DEF Init
<1>4. StoreTypeOK
  BY <1>1, <1>2, <1>3 DEF Init, StoreTypeOK
<1>5. LoadedIsComplete /\ SubscribersAreCurrent /\ PendingIsSound
  BY DEF Init, LoadedIsComplete, SubscribersAreCurrent, PendingIsSound, State
<1>6. AloneIsConsistent
  BY DEF Init, AloneIsConsistent, NoExtra
<1> QED
  BY <1>4, <1>5, <1>6 DEF ConsistencyIInv, StoreIInv, StoreInv

(* What Derive does: one more derivation is under way.                     *)
LEMMA OneMore ==
  ASSUME NEW load \in BOOLEAN, NEW from \in Nat, NEW update \in Extra,
         StoreTypeOK, Derive(load, from, update)
  PROVE  /\ derivations' \subseteq Derivation /\ derivations' # {}
         /\ overlapped' \in BOOLEAN
         /\ \A d \in derivations' :
              d \in derivations \/ (d.load = load /\ d.from = from /\ d.extra = update)
         /\ ~overlapped' => ~overlapped /\ derivations = {}
         /\ derivations = {} => \A d, e \in derivations' : d = e
<1>1. PICK id \in FreeIds :
        derivations' = derivations \cup
          {[id |-> id, load |-> load, from |-> from, extra |-> update]}
  BY DEF Derive
<1>2. id \in Nat
  <2>1. id \in 1..MaxPending
    BY DEF FreeIds
  <2> QED
    BY <2>1, StoreAssumption
<1> DEFINE new == [id |-> id, load |-> load, from |-> from, extra |-> update]
<1>3. new \in Derivation /\ new.load = load /\ new.from = from /\ new.extra = update
  BY <1>2 DEF Derivation
<1>4. derivations \subseteq Derivation /\ derivations' = derivations \cup {new}
  BY <1>1 DEF StoreTypeOK, Derivation
<1>5. overlapped' = (overlapped \/ derivations # {})
  BY DEF Derive
<1> HIDE DEF new
<1> QED
  BY <1>3, <1>4, <1>5

(* A fetch that answers, and the timer: a derivation from the new base     *)
(* state begins.                                                           *)
LEMMA DerivationBegins ==
  ASSUME ConsistencyIInv,
         NEW load \in BOOLEAN, NEW from \in Nat, NEW update \in Extra,
         Derive(load, from, update), base' = from,
         IF load THEN update.blockTimestamp = from /\ update.blockTag \in {from, None}
         ELSE /\ loaded
              /\ \/ update.blockTimestamp = from /\ update.blockTag = from
                 \/ update = NoExtra /\ from = base,
         head' = head, starts' = starts, running' = running,
         fetches' \subseteq Fetch,
         loaded' = loaded, derived' = derived, extra' = extra,
         timer' \in BOOLEAN, timer' => timer, seen' = seen, lost' = lost
  PROVE  ConsistencyIInv'
<1> USE DEF ConsistencyIInv, StoreIInv
<1>1. StoreTypeOK /\ LoadedIsComplete /\ SubscribersAreCurrent
  BY DEF StoreInv
<1>2. /\ derivations' \subseteq Derivation /\ derivations' # {}
      /\ overlapped' \in BOOLEAN
      /\ \A d \in derivations' :
           d \in derivations \/ (d.load = load /\ d.from = from /\ d.extra = update)
      /\ ~overlapped' => ~overlapped /\ derivations = {}
      /\ derivations = {} => \A d, e \in derivations' : d = e
  BY <1>1, OneMore
<1>3. from # None
  BY DEF None
<1>4. StoreTypeOK'
  BY <1>1, <1>2 DEF StoreTypeOK, Derivation
<1>5. LoadedIsComplete'
  BY <1>1, <1>3 DEF LoadedIsComplete, StoreTypeOK
<1>6. SubscribersAreCurrent'
  BY <1>2 DEF SubscribersAreCurrent
<1>7. PendingIsSound'
  BY <1>2, <1>3 DEF PendingIsSound
<1>8. AloneIsConsistent'
  <2> SUFFICES ASSUME ~overlapped', ~lost'
               PROVE  /\ \A d, e \in derivations' : d = e
                      /\ \A d \in derivations' :
                           /\ d.from = base'
                           /\ d.load => d.extra.blockTimestamp = base'
                           /\ LET after == IF d.load THEN d.extra
                                          ELSE ReduceExtra(extra, d.extra)
                              IN  /\ after.blockTimestamp = base'
                                  /\ after.blockTag \in {base', None}
    BY <1>2 DEF AloneIsConsistent, ReduceExtra
  <2>1. derivations = {} /\ ~overlapped /\ ~lost
    BY <1>2
  <2>2. extra.blockTimestamp = base /\ extra.blockTag \in {base, None}
    BY <2>1 DEF AloneIsConsistent
  <2>3. \A d \in derivations' : d.load = load /\ d.from = from /\ d.extra = update
    BY <1>2, <2>1
  <2>4. CASE load
    BY <1>2, <2>1, <2>3, <2>4
  <2>5. CASE ~load /\ update.blockTimestamp = from /\ update.blockTag = from
    BY <1>2, <1>3, <2>1, <2>3, <2>5 DEF ReduceExtra
  <2>6. CASE ~load /\ update = NoExtra /\ from = base
    BY <1>2, <1>3, <2>1, <2>2, <2>3, <2>6 DEF ReduceExtra, NoExtra
  <2> QED
    BY <2>4, <2>5, <2>6
<1> QED
  BY <1>4, <1>5, <1>6, <1>7, <1>8 DEF StoreInv

(* A step that touches neither the state nor the derivations.              *)
LEMMA StateIsKept ==
  ASSUME ConsistencyIInv,
         head' \in Nat, starts' \in Nat, running' \in BOOLEAN, fetches' \subseteq Fetch,
         UNCHANGED <<stateVars, derivations, seen, overlapped>>,
         timer' \in BOOLEAN, timer' => timer, lost' \in BOOLEAN, lost => lost'
  PROVE  ConsistencyIInv'
<1>1. StoreTypeOK'
  BY DEF ConsistencyIInv, StoreIInv, StoreInv, StoreTypeOK, stateVars
<1>3. LoadedIsComplete' /\ SubscribersAreCurrent' /\ PendingIsSound'
  BY DEF ConsistencyIInv, StoreIInv, StoreInv, LoadedIsComplete, stateVars,
     SubscribersAreCurrent, PendingIsSound, State
<1>2. AloneIsConsistent'
  BY DEF ConsistencyIInv, StoreIInv, StoreInv, StoreTypeOK, AloneIsConsistent, stateVars,
     ReduceExtra
<1> QED
  BY <1>1, <1>2, <1>3 DEF ConsistencyIInv, StoreIInv, StoreInv

(* The answer of a derivation is applied and notified.                     *)
LEMMA DerivationEnds ==
  ASSUME ConsistencyIInv, NEW d \in derivations, DeriveAnswers(d)
  PROVE  ConsistencyIInv'
<1> USE DEF ConsistencyIInv, StoreIInv
<1>1. StoreTypeOK /\ LoadedIsComplete
  BY DEF StoreInv
<1>2. d \in Derivation
  BY <1>1 DEF StoreTypeOK, Derivation
<1>3. /\ derivations' = derivations \ {d}
      /\ derived' = d.from /\ base' = base
      /\ d.load => loaded' = TRUE /\ extra' = d.extra
      /\ ~d.load => loaded' = loaded /\ extra' = ReduceExtra(extra, d.extra)
      /\ timer' = TRUE /\ seen' = State'
      /\ overlapped' = overlapped /\ lost' = lost
      /\ UNCHANGED fetchVars
  BY DEF DeriveAnswers, ScheduleUpdate, Notify
<1>4. base # None /\ d.from # None
  BY <1>2 DEF PendingIsSound, Derivation, None
<1>5. loaded' = TRUE /\ extra' \in Extra /\ extra'.blockTimestamp # None
  BY <1>1, <1>2, <1>3
     DEF PendingIsSound, LoadedIsComplete, StoreTypeOK, Derivation, Extra, ReduceExtra
<1>6. StoreTypeOK'
  BY <1>1, <1>2, <1>3, <1>5 DEF StoreTypeOK, Derivation, State, fetchVars
<1>7. LoadedIsComplete' /\ SubscribersAreCurrent'
  BY <1>3, <1>4, <1>5 DEF LoadedIsComplete, SubscribersAreCurrent
<1>8. PendingIsSound'
  BY <1>3, <1>4, <1>5 DEF PendingIsSound
<1>9. AloneIsConsistent'
  <2> SUFFICES ASSUME ~overlapped, ~lost
               PROVE  /\ derivations' = {} /\ derived' = base
                      /\ extra'.blockTimestamp = base
                      /\ extra'.blockTag \in {base, None}
    BY <1>3 DEF AloneIsConsistent
  <2>1. derivations' = {}
    BY <1>3 DEF AloneIsConsistent
  <2>2. extra' = IF d.load THEN d.extra ELSE ReduceExtra(extra, d.extra)
    BY <1>3
  <2> QED
    BY <1>3, <2>1, <2>2 DEF AloneIsConsistent
<1> QED
  BY <1>6, <1>7, <1>8, <1>9 DEF StoreInv

(* A derivation that fails changes nothing else.                           *)
LEMMA DerivationIsLost ==
  ASSUME ConsistencyIInv, NEW d \in derivations, DeriveFails(d)
  PROVE  ConsistencyIInv'
BY DEF ConsistencyIInv, StoreIInv, DeriveFails, StoreInv, StoreTypeOK, LoadedIsComplete,
   SubscribersAreCurrent, PendingIsSound, AloneIsConsistent, fetchVars, stateVars

(* The answer of a fetch starts a derivation, or is dropped after a stop.  *)
LEMMA FetchEnds ==
  ASSUME ConsistencyIInv, NEW fetch \in fetches, FetchAnswers(fetch)
  PROVE  ConsistencyIInv'
<1>1. StoreTypeOK
  BY DEF ConsistencyIInv, StoreIInv, StoreInv
<1>2. fetch \in Fetch /\ fetches' \subseteq Fetch
  BY <1>1 DEF StoreTypeOK, FetchAnswers
<1>3. /\ head' = head /\ starts' = starts /\ running' = running
      /\ timer' = timer /\ timer' \in BOOLEAN /\ seen' = seen /\ lost' = lost
  BY <1>1 DEF FetchAnswers, StoreTypeOK
<1>4. CASE /\ fetch.initial /\ ~loaded
           /\ \E block \in fetch.block..head :
                Load(block, [blockTag |-> None, blockTimestamp |-> block])
  <2>1. PICK block \in fetch.block..head :
          Load(block, [blockTag |-> None, blockTimestamp |-> block])
    BY <1>4
  <2>2. block \in Nat
    BY <1>1, <1>2, <2>1 DEF Fetch, StoreTypeOK
  <2> DEFINE extraState == [blockTag |-> None, blockTimestamp |-> block]
  <2>3. /\ extraState \in Extra
        /\ extraState.blockTimestamp = block /\ extraState.blockTag = None
    BY <2>2 DEF Extra
  <2>4. /\ Derive(TRUE, block, extraState) /\ base' = block
        /\ loaded' = loaded /\ derived' = derived /\ extra' = extra
    BY <2>1 DEF Load
  <2> HIDE DEF extraState
  <2> QED
    BY <1>2, <1>3, <2>2, <2>3, <2>4, DerivationBegins
<1>5. CASE fetch.initial /\ loaded /\ UNCHANGED <<stateVars, derivations, overlapped>>
  BY <1>1, <1>2, <1>3, <1>5, StateIsKept DEF StoreTypeOK
<1>6. CASE ~fetch.initial
  <2> DEFINE extraState == [blockTag |-> fetch.block, blockTimestamp |-> fetch.block]
  <2>1. fetch.block \in Nat /\ extraState \in Extra
    BY <1>2 DEF Fetch, Extra
  <2>2. extraState.blockTag = fetch.block /\ extraState.blockTimestamp = fetch.block
    OBVIOUS
  <2>3. IF loaded THEN Update(fetch.block, extraState) ELSE Load(fetch.block, extraState)
    BY <1>6 DEF FetchAnswers
  <2> HIDE DEF extraState
  <2>4. base' = fetch.block /\ loaded' = loaded /\ derived' = derived /\ extra' = extra
    BY <2>3 DEF Load, Update
  <2>5. CASE loaded
    <3>1. Derive(FALSE, fetch.block, extraState)
      BY <2>3, <2>5 DEF Update
    <3> QED
      BY <1>2, <1>3, <2>1, <2>2, <2>4, <2>5, <3>1, DerivationBegins
  <2>6. CASE ~loaded
    <3>1. Derive(TRUE, fetch.block, extraState)
      BY <2>3, <2>6 DEF Load
    <3> QED
      BY <1>2, <1>3, <2>1, <2>2, <2>4, <3>1, DerivationBegins
  <2> QED
    BY <2>5, <2>6
<1> QED
  BY <1>4, <1>5, <1>6 DEF FetchAnswers

(* The timer derives the state again, of the same block.                   *)
LEMMA TimerEnds ==
  ASSUME ConsistencyIInv, TimerFires
  PROVE  ConsistencyIInv'
<1>1. StoreTypeOK /\ LoadedIsComplete
  BY DEF ConsistencyIInv, StoreIInv, StoreInv
<1>2. timer /\ loaded /\ base \in Nat
  BY <1>1 DEF TimerFires, LoadedIsComplete, StoreTypeOK
<1>3. NoExtra \in Extra
  BY DEF NoExtra, Extra
<1>4. Derive(FALSE, base, NoExtra)
  BY DEF TimerFires
<1> QED
  BY <1>1, <1>2, <1>3, <1>4, DerivationBegins
     DEF TimerFires, fetchVars, stateVars, StoreTypeOK

(* Every step of the store keeps the invariant.                            *)
LEMMA StoreStep ==
  ASSUME ConsistencyIInv, [Next]_vars
  PROVE  ConsistencyIInv'
<1>1. StoreTypeOK
  BY DEF ConsistencyIInv, StoreIInv, StoreInv
<1>2. CASE Start
  <2>1. [initial |-> TRUE, block |-> head, start |-> starts + 1] \in Fetch
    BY <1>1 DEF StoreTypeOK, Fetch
  <2>2. fetches' \subseteq Fetch
    BY <1>1, <1>2, <2>1 DEF StoreTypeOK, Start
  <2> QED
    BY <1>1, <1>2, <2>2, StateIsKept DEF Start, StoreTypeOK
<1>3. CASE Stop
  BY <1>1, <1>3, StateIsKept DEF Stop, StoreTypeOK
<1>4. CASE NewBlock
  <2>1. [initial |-> FALSE, block |-> head + 1, start |-> starts] \in Fetch
    BY <1>1 DEF StoreTypeOK, Fetch
  <2>2. fetches' \subseteq Fetch
    BY <1>1, <1>4, <2>1 DEF StoreTypeOK, NewBlock
  <2> QED
    BY <1>1, <1>4, <2>2, StateIsKept DEF NewBlock, StoreTypeOK
<1>5. CASE \E fetch \in fetches : FetchAnswers(fetch)
  BY <1>5, FetchEnds
<1>6. CASE \E fetch \in fetches : FetchFails(fetch)
  BY <1>1, <1>6, StateIsKept DEF FetchFails, StoreTypeOK
<1>7. CASE TimerFires
  BY <1>7, TimerEnds
<1>8. CASE \E d \in derivations : DeriveAnswers(d)
  BY <1>8, DerivationEnds
<1>9. CASE \E d \in derivations : DeriveFails(d)
  BY <1>9, DerivationIsLost
<1>10. CASE UNCHANGED vars
  BY <1>1, <1>10, StateIsKept DEF vars, fetchVars, StoreTypeOK
<1> QED
  BY <1>2, <1>3, <1>4, <1>5, <1>6, <1>7, <1>8, <1>9, <1>10 DEF Next

(* So the invariant holds in every reachable state.                        *)
LEMMA StoreIsInductive == Spec => []ConsistencyIInv
BY StartState, StoreStep, PTL DEF Spec

(* A loaded store is complete, and its subscribers hold its state whenever *)
(* nothing is under way, for any number of overlapping loads and updates.  *)
THEOREM StoreIsComplete == Spec => []StoreInv
<1>1. ConsistencyIInv => StoreInv
  BY DEF ConsistencyIInv, StoreIInv
<1> QED
  BY <1>1, StoreIsInductive, PTL

(* Unless derivations have overlapped or failed, the state the application *)
(* reads is all of one block.                                              *)
THEOREM StoreIsConsistent == Spec => []ConsistentWithoutOverlap
<1>1. ConsistencyIInv => ConsistentWithoutOverlap
  BY DEF ConsistencyIInv, AloneIsConsistent, ConsistentWithoutOverlap
<1> QED
  BY <1>1, StoreIsInductive, PTL

-------------------------------------------------------------------------------
(* Exact powers. *)

(* The equation of ExactPower, and a function that satisfies it up to k.   *)
IsExactPower(p) ==
  p = [n \in Nat |-> [x \in Nat |-> IF n = 0 THEN 1 ELSE x * p[n - 1][x]]]

PowersUpTo(p, k) ==
  \A n \in 0..k, x \in Nat : p[n][x] = IF n = 0 THEN 1 ELSE x * p[n - 1][x]

(* Two such functions agree as far as both go.                             *)
LEMMA PowersAgree ==
  ASSUME NEW k \in Nat, NEW p, PowersUpTo(p, k), NEW q, PowersUpTo(q, k)
  PROVE  \A n \in 0..k, x \in Nat : p[n][x] = q[n][x]
<1> DEFINE T == {n \in Nat : n <= k => \A x \in Nat : p[n][x] = q[n][x]}
<1>1. 0 \in T
  BY DEF PowersUpTo
<1>2. ASSUME NEW n \in Nat, n \in T PROVE n + 1 \in T
  <2> SUFFICES ASSUME n + 1 <= k, NEW x \in Nat PROVE p[n + 1][x] = q[n + 1][x]
    OBVIOUS
  <2>1. n + 1 \in 0..k /\ n + 1 # 0 /\ (n + 1) - 1 = n
    OBVIOUS
  <2>2. p[n][x] = q[n][x]
    BY <1>2
  <2> QED BY <2>1, <2>2 DEF PowersUpTo
<1>3. \A n \in Nat : n \in T
  <2> HIDE DEF T
  <2> QED BY <1>1, <1>2, SetInduction
<1> QED BY <1>3

(* There is one up to every exponent,                                      *)
LEMMA PowersExistUpTo == \A k \in Nat : \E p : PowersUpTo(p, k)
<1> DEFINE T == {k \in Nat : \E p : PowersUpTo(p, k)}
<1>1. 0 \in T
  <2> DEFINE p == [n \in Nat |-> [x \in Nat |-> 1]]
  <2>1. PowersUpTo(p, 0)
    BY DEF PowersUpTo
  <2> QED BY <2>1
<1>2. ASSUME NEW k \in Nat, k \in T PROVE k + 1 \in T
  <2>1. PICK q : PowersUpTo(q, k)
    BY <1>2
  <2> DEFINE p == [n \in Nat |-> [x \in Nat |-> IF n = 0 THEN 1 ELSE x * q[n - 1][x]]]
  <2>2. \A n \in Nat, x \in Nat : p[n][x] = IF n = 0 THEN 1 ELSE x * q[n - 1][x]
    OBVIOUS
  <2> HIDE DEF p
  <2>3. \A n \in 0..k, x \in Nat : p[n][x] = q[n][x]
    BY <2>1, <2>2 DEF PowersUpTo
  <2>4. ASSUME NEW n \in 0..(k + 1), NEW x \in Nat
        PROVE  p[n][x] = IF n = 0 THEN 1 ELSE x * p[n - 1][x]
    <3>1. CASE n = 0
      BY <2>2, <3>1
    <3>2. CASE n # 0
      <4>1. n - 1 \in 0..k /\ n \in Nat
        BY <3>2
      <4> QED BY <2>2, <2>3, <3>2, <4>1
    <3> QED BY <3>1, <3>2
  <2>5. PowersUpTo(p, k + 1)
    BY <2>4 DEF PowersUpTo
  <2> QED BY <2>5
<1>3. \A k \in Nat : k \in T
  <2> HIDE DEF T
  <2> QED BY <1>1, <1>2, SetInduction
<1> QED BY <1>3

(* and one for all: at n, take the one up to n.                            *)
LEMMA ExactPowersExist == \E p : IsExactPower(p)
<1> DEFINE G(k) == CHOOSE g : PowersUpTo(g, k)
           p == [n \in Nat |-> [x \in Nat |-> G(n)[n][x]]]
<1>1. \A k \in Nat : PowersUpTo(G(k), k)
  BY PowersExistUpTo
<1>2. \A n \in Nat, x \in Nat : p[n][x] = G(n)[n][x]
  OBVIOUS
<1>3. p = [n \in Nat |-> [x \in Nat |-> p[n][x]]]
  OBVIOUS
<1> HIDE DEF G, p
<1>4. ASSUME NEW n \in Nat, NEW x \in Nat
      PROVE  p[n][x] = IF n = 0 THEN 1 ELSE x * p[n - 1][x]
  <2>1. PowersUpTo(G(n), n) /\ n \in 0..n
    BY <1>1
  <2>2. CASE n = 0
    BY <1>2, <2>1, <2>2 DEF PowersUpTo
  <2>3. CASE n # 0
    <3>1. n - 1 \in Nat /\ n - 1 \in 0..(n - 1)
      BY <2>3
    <3>2. PowersUpTo(G(n - 1), n - 1) /\ PowersUpTo(G(n), n - 1)
      BY <1>1, <2>1, <3>1 DEF PowersUpTo
    <3>3. G(n - 1)[n - 1][x] = G(n)[n - 1][x]
      BY <3>1, <3>2, PowersAgree
    <3>4. G(n)[n][x] = x * G(n)[n - 1][x]
      BY <2>1, <2>3 DEF PowersUpTo
    <3> QED BY <1>2, <2>3, <3>1, <3>3, <3>4
  <2> QED BY <2>2, <2>3
<1>5. p = [n \in Nat |-> [x \in Nat |-> IF n = 0 THEN 1 ELSE x * p[n - 1][x]]]
  <2>1. ASSUME NEW n \in Nat
        PROVE  [x \in Nat |-> p[n][x]] = [x \in Nat |-> IF n = 0 THEN 1 ELSE x * p[n - 1][x]]
    BY <1>4
  <2>2. [n \in Nat |-> [x \in Nat |-> p[n][x]]]
          = [n \in Nat |-> [x \in Nat |-> IF n = 0 THEN 1 ELSE x * p[n - 1][x]]]
    BY <2>1, Zenon
  <2> QED BY <1>3, <2>2, Zenon
<1>6. IsExactPower(p)
  BY <1>5, Zenon DEF IsExactPower
<1> QED BY <1>6

(* The powers of the model: the first two, one more, and a sum of them.    *)
LEMMA ExactPowerSteps ==
  ASSUME NEW x \in Nat
  PROVE  /\ ExactPower[0][x] = 1 /\ ExactPower[1][x] = x
         /\ \A n \in Nat : ExactPower[n][x] \in Nat
         /\ \A n \in Nat : ExactPower[n + 1][x] = x * ExactPower[n][x]
<1>1. ExactPower = CHOOSE p : IsExactPower(p)
  BY Zenon DEF ExactPower, IsExactPower
<1>2. IsExactPower(ExactPower)
  BY <1>1, ExactPowersExist, Zenon
<1>3. ASSUME NEW p, IsExactPower(p)
      PROVE  \A n \in Nat : p[n][x] = IF n = 0 THEN 1 ELSE x * p[n - 1][x]
  <2> DEFINE h == [n \in Nat |-> [y \in Nat |-> IF n = 0 THEN 1 ELSE y * p[n - 1][y]]]
  <2>1. p = h
    BY <1>3, Zenon DEF IsExactPower
  <2>2. \A n \in Nat : h[n][x] = IF n = 0 THEN 1 ELSE x * p[n - 1][x]
    OBVIOUS
  <2> HIDE DEF h
  <2> QED BY <2>1, <2>2, Zenon
<1>4. \A n \in Nat : ExactPower[n][x] = IF n = 0 THEN 1 ELSE x * ExactPower[n - 1][x]
  BY <1>2, <1>3, Zenon
<1>5. ExactPower[0][x] = 1
  BY <1>4
<1>6. \A n \in Nat : ExactPower[n + 1][x] = x * ExactPower[n][x]
  <2> TAKE n \in Nat
  <2>1. n + 1 \in Nat /\ n + 1 # 0 /\ (n + 1) - 1 = n
    OBVIOUS
  <2> QED BY <1>4, <2>1
<1>7. ExactPower[1][x] = x
  <2>1. 0 \in Nat /\ 0 + 1 = 1 /\ x * 1 = x
    OBVIOUS
  <2> QED BY <1>5, <1>6, <2>1
<1> DEFINE T == {n \in Nat : ExactPower[n][x] \in Nat}
<1>8. 0 \in T
  BY <1>5
<1>9. ASSUME NEW n \in Nat, n \in T PROVE n + 1 \in T
  BY <1>6, <1>9
<1>10. \A n \in Nat : n \in T
  <2> HIDE DEF T
  <2> QED BY <1>8, <1>9, SetInduction
<1> QED BY <1>5, <1>6, <1>7, <1>10

(* Exponents add up.                                                       *)
LEMMA ExactPowerSum ==
  ASSUME NEW x \in Nat, NEW m \in Nat
  PROVE  \A n \in Nat : ExactPower[m + n][x] = ExactPower[m][x] * ExactPower[n][x]
<1> DEFINE p(n) == ExactPower[n][x]
           T == {n \in Nat : p(m + n) = p(m) * p(n)}
<1>1. /\ p(0) = 1 /\ \A n \in Nat : p(n) \in Nat
      /\ \A n \in Nat : p(n + 1) = x * p(n)
  BY ExactPowerSteps
<1> HIDE DEF p
<1>2. 0 \in T
  BY <1>1
<1>3. ASSUME NEW n \in Nat, n \in T PROVE n + 1 \in T
  <2>1. m + n \in Nat /\ m + (n + 1) = (m + n) + 1
    OBVIOUS
  <2>2. p(m + (n + 1)) = x * (p(m) * p(n)) /\ p(n + 1) = x * p(n)
    BY <1>1, <1>3, <2>1
  <2>3. \A a, b \in Nat : x * (a * b) = a * (x * b)
    OBVIOUS
  <2>4. p(m) \in Nat /\ p(n) \in Nat
    BY <1>1
  <2>5. p(m + (n + 1)) = p(m) * p(n + 1)
    BY <2>2, <2>3, <2>4
  <2> QED BY <2>5
<1>4. \A n \in Nat : n \in T
  <2> HIDE DEF T
  <2> QED BY <1>2, <1>3, SetInduction
<1> QED BY <1>4 DEF p

(* A power of a decimal is at most the power of one.                       *)
LEMMA ExactPowerGrows ==
  ASSUME NEW x \in Nat, NEW y \in Nat, x <= y
  PROVE  \A n \in Nat : ExactPower[n][x] <= ExactPower[n][y]
<1> DEFINE T == {n \in Nat : ExactPower[n][x] <= ExactPower[n][y]}
<1>1. /\ \A n \in Nat : ExactPower[n][x] \in Nat /\ ExactPower[n][y] \in Nat
      /\ \A n \in Nat : ExactPower[n + 1][x] = x * ExactPower[n][x]
      /\ \A n \in Nat : ExactPower[n + 1][y] = y * ExactPower[n][y]
      /\ ExactPower[0][x] = 1 /\ ExactPower[0][y] = 1
  BY ExactPowerSteps
<1>2. 0 \in T
  BY <1>1
<1>3. ASSUME NEW n \in Nat, n \in T PROVE n + 1 \in T
  <2>1. \A a, b \in Nat : a <= b => x * a <= y * b
    <3> TAKE a, b \in Nat
    <3> HAVE a <= b
    <3>1. x * a <= x * b
      OBVIOUS
    <3>2. x * b <= y * b
      OBVIOUS
    <3>3. x * a \in Nat /\ x * b \in Nat /\ y * b \in Nat
      OBVIOUS
    <3> QED BY <3>1, <3>2, <3>3
  <2>2. x * ExactPower[n][x] <= y * ExactPower[n][y]
    BY <1>1, <1>3, <2>1
  <2> QED BY <1>1, <2>2
<1>4. \A n \in Nat : n \in T
  <2> HIDE DEF T
  <2> QED BY <1>2, <1>3, SetInduction
<1> QED BY <1>4

-------------------------------------------------------------------------------
(* The rounding of _decPow. *)

(* u and v are at most e halves apart.                                     *)
Within(u, v, e) == 2 * (u - v) <= e /\ 2 * (v - u) <= e

(* Both sides of a bound may be scaled.                                    *)
LEMMA WithinTimes ==
  ASSUME NEW u \in Nat, NEW v \in Nat, NEW e \in Nat, NEW c \in Nat, Within(u, v, e)
  PROVE  Within(u * c, v * c, e * c)
<1>1. \A a \in Int : a <= e => a * c <= e * c
  OBVIOUS
<1>2. /\ 2 * (u - v) \in Int /\ 2 * (v - u) \in Int
      /\ (2 * (u - v)) * c <= e * c /\ (2 * (v - u)) * c <= e * c
  BY <1>1 DEF Within
<1>3. (2 * (u - v)) * c = 2 * (u * c - v * c) /\ (2 * (v - u)) * c = 2 * (v * c - u * c)
  OBVIOUS
<1> QED
  BY <1>2, <1>3 DEF Within

(* A rounded product is at most half a unit off.                           *)
LEMMA RoundedWithin ==
  ASSUME NEW D \in Nat \ {0}, NEW x \in Nat, NEW y \in Nat
  PROVE  Within(Rounded(D, x, y) * D, x * y, D)
<1> DEFINE h == D \div 2
           z == Rounded(D, x, y)
<1>1. h \in Nat /\ 2 * h <= D /\ D < 2 * h + 2
  BY DivisionBounds
<1>2. x * y \in Nat
  OBVIOUS
<1> HIDE DEF h
<1>3. x * y + h \in Nat
  BY <1>1, <1>2
<1>4. z = (x * y + h) \div D
  BY DEF Rounded, h
<1>5. z \in Nat /\ z * D <= x * y + h /\ x * y + h < z * D + D
  BY <1>3, <1>4, NatQuotient, FloorQuotient
<1> HIDE DEF z
<1>6. z * D \in Nat
  BY <1>5
<1>7. \A a, b \in Nat : a <= b + h /\ b + h < a + D => Within(a, b, D)
  BY <1>1 DEF Within
<1> QED
  BY <1>2, <1>5, <1>6, <1>7 DEF z

(* The bounds of a product: |x P - A| <= i P / 2 and |y Q - B| <= j Q / 2  *)
(* give |z D P Q - A B| <= (i + j + 1) D P Q / 2 for the rounded product.  *)
LEMMA ProductWithin ==
  ASSUME NEW D \in Nat \ {0}, NEW x \in 0..D, NEW y \in 0..D,
         NEW P \in Nat, NEW Q \in Nat, NEW A \in Nat, NEW B \in Nat, A <= D * P,
         NEW i \in Nat, NEW j \in Nat,
         Within(x * P, A, i * P), Within(y * Q, B, j * Q)
  PROVE  Within(Rounded(D, x, y) * (D * (P * Q)), A * B, ((i + j) + 1) * (D * (P * Q)))
<1> DEFINE z == Rounded(D, x, y)
           R == P * Q
           U == (z * D) * R
           V == (x * y) * R
           W == A * (y * Q)
<1>1. x \in Nat /\ y \in Nat /\ D \in Nat /\ z \in Nat
  BY RoundedNat
<1>2. /\ R \in Nat /\ z * D \in Nat /\ x * y \in Nat /\ y * Q \in Nat /\ x * P \in Nat
      /\ i * P \in Nat /\ j * Q \in Nat /\ D * P \in Nat /\ D * R \in Nat
  BY <1>1, NatProduct
<1>3. Within(U, V, D * R)
  BY <1>1, <1>2, RoundedWithin, WithinTimes
<1>4. Within((x * P) * (y * Q), A * (y * Q), (i * P) * (y * Q))
  BY <1>2, WithinTimes
<1>5. Within((y * Q) * A, B * A, (j * Q) * A)
  BY <1>2, WithinTimes
<1>6. (x * P) * (y * Q) = V /\ (y * Q) * A = W /\ B * A = A * B
  BY <1>1
<1>7. (i * P) * (y * Q) <= i * (D * R)
  <2>1. (i * P) * (y * Q) = (i * R) * y /\ i * (D * R) = (i * R) * D
    BY <1>1
  <2>2. i * R \in Nat
    BY <1>2, NatProduct
  <2>3. \A c \in Nat : c * y <= c * D
    BY <1>1
  <2> QED BY <2>1, <2>2, <2>3
<1>8. (j * Q) * A <= j * (D * R)
  <2>1. j * (D * R) = (j * Q) * (D * P)
    BY <1>1
  <2>2. \A c \in Nat : c * A <= c * (D * P)
    BY <1>2
  <2> QED BY <1>2, <2>1, <2>2
<1>9. /\ U \in Nat /\ V \in Nat /\ W \in Nat /\ A * B \in Nat
      /\ i * (D * R) \in Nat /\ j * (D * R) \in Nat
      /\ (i * P) * (y * Q) \in Nat /\ (j * Q) * A \in Nat
  BY <1>1, <1>2, NatProduct
<1>10. ((i + j) + 1) * (D * R) = i * (D * R) + j * (D * R) + D * R
  BY <1>2
<1>11. z * (D * R) = U
  BY <1>1, <1>2
<1> HIDE DEF z, R, U, V, W
<1>12. Within(V, W, (i * P) * (y * Q)) /\ Within(W, A * B, (j * Q) * A)
  <2>1. A * (y * Q) = W
    BY DEF W
  <2> QED BY <1>4, <1>5, <1>6, <2>1
<1>13. \A u, v, w, c, d, e, f, g, h \in Nat :
         Within(u, v, d) /\ Within(v, w, e) /\ Within(w, c, f) /\ e <= g /\ f <= h
           => Within(u, c, g + h + d)
  BY DEF Within
<1>14. Within(U, A * B, i * (D * R) + j * (D * R) + D * R)
  BY <1>2, <1>3, <1>7, <1>8, <1>9, <1>12, <1>13
<1> QED
  BY <1>10, <1>11, <1>14 DEF z, R

(* x is the k-th power of the factor up to (k - 1)/2 units of its last     *)
(* digit.                                                                  *)
Near(D, F, x, k) ==
  /\ x \in 0..D
  /\ Within(x * ExactPower[k - 1][D], ExactPower[k][F], (k - 1) * ExactPower[k - 1][D])

(* Powers multiply, with one rounding more.                                *)
LEMMA NearTimes ==
  ASSUME NEW D \in Nat \ {0}, NEW F \in 0..D, NEW a \in Nat \ {0}, NEW b \in Nat \ {0},
         NEW x, NEW y, Near(D, F, x, a), Near(D, F, y, b)
  PROVE  Near(D, F, Rounded(D, x, y), a + b)
<1> DEFINE p(n) == ExactPower[n][D]
           q(n) == ExactPower[n][F]
<1>1. /\ \A n \in Nat : p(n) \in Nat /\ q(n) \in Nat /\ q(n) <= p(n)
      /\ \A n \in Nat : p(n + 1) = D * p(n)
      /\ \A m, n \in Nat : p(m + n) = p(m) * p(n) /\ q(m + n) = q(m) * q(n)
  <2>1. D \in Nat /\ F \in Nat /\ F <= D
    OBVIOUS
  <2>2. /\ \A n \in Nat : p(n) \in Nat /\ q(n) \in Nat
        /\ \A n \in Nat : p(n + 1) = D * p(n)
    BY <2>1, ExactPowerSteps
  <2>3. \A n \in Nat : q(n) <= p(n)
    BY <2>1, ExactPowerGrows
  <2>4. \A m, n \in Nat : p(m + n) = p(m) * p(n)
    BY <2>1, ExactPowerSum
  <2>5. \A m, n \in Nat : q(m + n) = q(m) * q(n)
    BY <2>1, ExactPowerSum
  <2> HIDE DEF p, q
  <2> QED BY <2>2, <2>3, <2>4, <2>5
<1>2. /\ x \in 0..D /\ y \in 0..D
      /\ Within(x * p(a - 1), q(a), (a - 1) * p(a - 1))
      /\ Within(y * p(b - 1), q(b), (b - 1) * p(b - 1))
  BY DEF Near
<1> HIDE DEF p, q
<1> DEFINE P == p(a - 1)
           Q == p(b - 1)
           k == (a + b) - 1
<1>3. /\ a - 1 \in Nat /\ b - 1 \in Nat /\ k \in Nat /\ a \in Nat /\ b \in Nat
      /\ (a - 1) + 1 = a /\ k = ((a - 1) + (b - 1)) + 1 /\ (a - 1) + (b - 1) \in Nat
  OBVIOUS
<1>4. P \in Nat /\ Q \in Nat /\ q(a) \in Nat /\ q(b) \in Nat
  BY <1>1, <1>3
<1>5. q(a) <= D * P
  BY <1>1, <1>3
<1>6. p(k) = D * (P * Q)
  BY <1>1, <1>3
<1>7. q(a + b) = q(a) * q(b)
  BY <1>1
<1>8. Within(Rounded(D, x, y) * (D * (P * Q)), q(a) * q(b),
             (((a - 1) + (b - 1)) + 1) * (D * (P * Q)))
  <2> HIDE DEF P, Q
  <2>1. Within(x * P, q(a), (a - 1) * P) /\ Within(y * Q, q(b), (b - 1) * Q)
    BY <1>2 DEF P, Q
  <2> QED BY <1>2, <1>3, <1>4, <1>5, <2>1, ProductWithin
<1>9. Within(Rounded(D, x, y) * p(k), q(a + b), k * p(k))
  BY <1>3, <1>6, <1>7, <1>8
<1>10. Rounded(D, x, y) \in 0..D
  <2>1. x \in Nat /\ y \in Nat /\ x <= D /\ y <= D
    BY <1>2
  <2>2. Rounded(D, x, y) \in 0..y
    BY <2>1, RoundedShrinks
  <2> QED BY <2>1, <2>2
<1> QED
  BY <1>9, <1>10 DEF Near, p, q

(* The loop, as the accumulator is one or already a power.                 *)
LEMMA SquaringIsNear ==
  ASSUME NEW D \in Nat \ {0}, NEW F \in 0..D, NEW f, IsSquaring(D, f)
  PROVE  \A n \in Nat \ {0}, a \in Nat \ {0}, x \in 0..D : Near(D, F, x, a) =>
           /\ Near(D, F, f[n][x][D], a * n)
           /\ \A b \in Nat \ {0}, y \in 0..D :
                Near(D, F, y, b) => Near(D, F, f[n][x][y], a * n + b)
<1> DEFINE Good(n, a, x) ==
             /\ Near(D, F, f[n][x][D], a * n)
             /\ \A b \in Nat \ {0}, y \in 0..D :
                  Near(D, F, y, b) => Near(D, F, f[n][x][y], a * n + b)
           T == {n \in Nat : n # 0 =>
                   \A a \in Nat \ {0}, x \in 0..D : Near(D, F, x, a) => Good(n, a, x)}
<1>1. ASSUME NEW n \in Nat, \A m \in 0..(n - 1) : m \in T
      PROVE  n \in T
  <2> SUFFICES ASSUME n # 0, NEW a \in Nat \ {0}, NEW x \in 0..D, Near(D, F, x, a)
               PROVE  Good(n, a, x)
    OBVIOUS
  <2> DEFINE xx == Rounded(D, x, x)
  <2>1. Near(D, F, xx, a + a) /\ a + a \in Nat \ {0}
    BY NearTimes
  <2>2. xx \in 0..D
    BY <2>1 DEF Near
  <2>3. x \in Nat /\ Rounded(D, x, D) = x
    BY RoundedOne
  <2>4. \A m \in 1..(n - 1) : Good(m, a + a, xx)
    <3> HIDE DEF Good, xx
    <3> TAKE m \in 1..(n - 1)
    <3>1. m \in T /\ m # 0
      BY <1>1
    <3> QED BY <2>1, <2>2, <3>1
  <2>5. \A y \in 0..D : f[n][x][y] = LoopTurn(D, f, x, y, n)
    BY <2>3, SquaringSteps
  <2>6. D \in 0..D
    OBVIOUS
  <2>7. Near(D, F, f[n][x][D], a * n)
    <3>1. f[n][x][D] = LoopTurn(D, f, x, D, n)
      BY <2>5, <2>6
    <3>2. CASE n = 1
      <4>1. f[n][x][D] = x /\ a * n = a
        BY <2>3, <3>1, <3>2 DEF LoopTurn
      <4> QED BY <4>1
    <3>3. CASE n > 1 /\ n % 2 = 0
      <4>1. n \div 2 \in 1..(n - 1) /\ n = 2 * (n \div 2)
        BY <3>3, Halves
      <4>2. f[n][x][D] = f[n \div 2][xx][D]
        BY <3>1, <3>3 DEF LoopTurn
      <4>3. Near(D, F, f[n \div 2][xx][D], (a + a) * (n \div 2))
        BY <2>4, <4>1
      <4>4. (a + a) * (n \div 2) = a * n
        <5>1. \A k \in Nat : n = 2 * k => (a + a) * k = a * n
          OBVIOUS
        <5> QED BY <4>1, <5>1
      <4> QED BY <4>2, <4>3, <4>4
    <3>4. CASE n > 1 /\ n % 2 # 0
      <4> DEFINE k == (n - 1) \div 2
      <4>1. k \in 1..(n - 1) /\ n = 2 * k + 1
        BY <3>4, Halves
      <4>2. f[n][x][D] = f[k][xx][x]
        BY <2>3, <3>1, <3>4 DEF LoopTurn
      <4> HIDE DEF k
      <4>3. Near(D, F, f[k][xx][x], (a + a) * k + a)
        BY <2>4, <4>1
      <4>4. (a + a) * k + a = a * n
        BY <4>1
      <4> QED BY <4>2, <4>3, <4>4
    <3> QED BY <3>2, <3>3, <3>4
  <2>8. ASSUME NEW b \in Nat \ {0}, NEW y \in 0..D, Near(D, F, y, b)
        PROVE  Near(D, F, f[n][x][y], a * n + b)
    <3> DEFINE xy == Rounded(D, x, y)
    <3>1. f[n][x][y] = LoopTurn(D, f, x, y, n)
      BY <2>5
    <3>2. Near(D, F, xy, a + b) /\ a + b \in Nat \ {0}
      BY <2>8, NearTimes
    <3>3. xy \in 0..D
      BY <3>2 DEF Near
    <3>4. CASE n = 1
      <4>1. f[n][x][y] = xy /\ a * n + b = a + b
        BY <3>1, <3>4 DEF LoopTurn
      <4> QED BY <3>2, <4>1
    <3>5. CASE n > 1 /\ n % 2 = 0
      <4>1. n \div 2 \in 1..(n - 1) /\ n = 2 * (n \div 2)
        BY <3>5, Halves
      <4>2. f[n][x][y] = f[n \div 2][xx][y]
        BY <3>1, <3>5 DEF LoopTurn
      <4>3. Near(D, F, f[n \div 2][xx][y], (a + a) * (n \div 2) + b)
        BY <2>4, <2>8, <4>1
      <4>4. (a + a) * (n \div 2) + b = a * n + b
        <5>1. \A k \in Nat : n = 2 * k => (a + a) * k = a * n
          OBVIOUS
        <5> QED BY <4>1, <5>1
      <4> QED BY <4>2, <4>3, <4>4
    <3>6. CASE n > 1 /\ n % 2 # 0
      <4> DEFINE k == (n - 1) \div 2
      <4>1. k \in 1..(n - 1) /\ n = 2 * k + 1
        BY <3>6, Halves
      <4>2. f[n][x][y] = f[k][xx][xy]
        BY <3>1, <3>6 DEF LoopTurn
      <4> HIDE DEF k, xy
      <4>3. Near(D, F, f[k][xx][xy], (a + a) * k + (a + b))
        BY <2>4, <3>2, <3>3, <4>1
      <4>4. (a + a) * k + (a + b) = a * n + b
        BY <4>1
      <4> QED BY <4>2, <4>3, <4>4
    <3> HIDE DEF xy
    <3>7. n = 1 \/ (n > 1 /\ n % 2 = 0) \/ (n > 1 /\ n % 2 # 0)
      OBVIOUS
    <3> QED BY <3>4, <3>5, <3>6, <3>7
  <2> QED BY <2>7, <2>8
<1>2. \A n \in Nat : n \in T
  <2> HIDE DEF T
  <2> QED BY <1>1, StrongInduction
<1> QED BY <1>2

-------------------------------------------------------------------------------
(* The decay. *)

(* The loop of _decPow is the one of the lemmas on powers.                 *)
LEMMA DecPowIsPower ==
  /\ IsSquaring(DECIMAL_PRECISION, Squaring)
  /\ \A x, n : DecPow(x, n) = CappedPower(DECIMAL_PRECISION, Squaring, MAX_MINUTES, x, n)
<1>1. Squaring = CHOOSE f : IsSquaring(DECIMAL_PRECISION, f)
  BY Zenon DEF Squaring, IsSquaring, DecMul, Rounded
<1>2. IsSquaring(DECIMAL_PRECISION, Squaring)
  BY <1>1, SquaringExists, PrecisionAssumption, Zenon
<1>3. \A x, n : DecPow(x, n) = CappedPower(DECIMAL_PRECISION, Squaring, MAX_MINUTES, x, n)
  BY Zenon DEF DecPow, CappedPower, MinOf
<1> QED
  BY <1>2, <1>3

(* The factor is one or less, and minutes are counted.                     *)
DecayTypeOK == factor \in 0..DECIMAL_PRECISION /\ minutes \in Nat

(* Up to the cap, _decPow is the power, up to half a unit a product.       *)
LEMMA DecPowIsNear ==
  ASSUME NEW F \in 0..DECIMAL_PRECISION, NEW n \in 1..MAX_MINUTES
  PROVE  Near(DECIMAL_PRECISION, F, DecPow(F, n), n)
<1> DEFINE D == DECIMAL_PRECISION
<1>1. D \in Nat \ {0} /\ MAX_MINUTES \in Nat /\ F \in Nat
  BY PrecisionAssumption
<1>2. DecPow(F, n) = Squaring[n][F][D]
  <2>1. n # 0 /\ n \in Nat /\ (n < MAX_MINUTES \/ n = MAX_MINUTES)
    BY <1>1
  <2> QED BY <2>1 DEF DecPow, MinOf
<1>3. Near(D, F, F, 1)
  <2>1. ExactPower[1 - 1][D] = 1 /\ ExactPower[1][F] = F
    BY <1>1, ExactPowerSteps
  <2>2. F * 1 = F /\ (1 - 1) * 1 = 0 /\ 2 * (F - F) <= 0
    BY <1>1
  <2> QED BY <2>1, <2>2 DEF Near, Within
<1> HIDE DEF D
<1>4. n \in Nat \ {0} /\ 1 \in Nat \ {0} /\ 1 * n = n
  BY <1>1
<1>5. F \in 0..D /\ IsSquaring(D, Squaring)
  BY DecPowIsPower DEF D
<1>6. Near(D, F, Squaring[n][F][D], 1 * n)
  BY <1>1, <1>3, <1>4, <1>5, SquaringIsNear
<1> QED
  BY <1>2, <1>4, <1>6 DEF D

(* _decPow is a decimal that never grows with the minutes.                 *)
LEMMA DecPowFacts ==
  ASSUME NEW F \in 0..DECIMAL_PRECISION, NEW n \in Nat
  PROVE  DecPow(F, n) \in 0..DECIMAL_PRECISION /\ DecPow(F, n + 1) <= DecPow(F, n)
BY PrecisionAssumption, DecPowIsPower, CappedPowerFacts

(* So the property holds whenever factor and minutes are what they say.    *)
LEMMA DecPowIsRight == DecayTypeOK => DecPowNearExact
<1> SUFFICES ASSUME DecayTypeOK PROVE DecPowNearExact
  OBVIOUS
<1> DEFINE D == DECIMAL_PRECISION
           p == DecPow(factor, minutes)
           scale == ExactPower[minutes - 1][D]
           power == ExactPower[minutes][factor]
<1>1. DecayNeverReverses /\ p \in 0..D
  BY DecPowFacts DEF DecayTypeOK, DecayNeverReverses
<1>2. ASSUME minutes \in 1..ExactMinutes
      PROVE  2 * AbsoluteDifference(p * scale, power) <= (minutes - 1) * scale
  <2>1. /\ MAX_MINUTES \in Nat /\ ExactMinutes \in 0..MAX_MINUTES
        /\ D \in Nat /\ factor \in Nat /\ minutes \in Nat /\ minutes - 1 \in Nat
    BY <1>2, PrecisionAssumption, ArithmeticAssumption DEF DecayTypeOK
  <2>2. minutes \in 1..MAX_MINUTES
    BY <1>2, <2>1
  <2>3. Near(D, factor, p, minutes)
    BY <2>2, DecPowIsNear DEF DecayTypeOK
  <2>4. scale \in Nat /\ power \in Nat
    BY <2>1, ExactPowerSteps
  <2>5. p * scale \in Nat /\ (minutes - 1) * scale \in Nat
    BY <1>1, <2>1, <2>4, NatProduct
  <2>6. Within(p * scale, power, (minutes - 1) * scale)
    BY <2>3 DEF Near
  <2> HIDE DEF p, scale, power
  <2> QED BY <2>4, <2>5, <2>6 DEF Within, AbsoluteDifference
<1> QED
  BY <1>1, <1>2 DEF DecPowNearExact

(* For every precision, factor and minute, _decPow by squaring decays, and *)
(* is off the power by half a unit a product at most.                      *)
THEOREM DecPowStaysNearExact == ArithmeticSpec => []DecPowNearExact
<1>1. ArithmeticInit => DecayTypeOK
  BY DEF ArithmeticInit, DecayTypeOK
<1>2. DecayTypeOK /\ [ArithmeticNext]_<<decayVars, troveVars>> => DecayTypeOK'
  BY DEF DecayTypeOK, ArithmeticNext, MinutePasses, ChangeTo, decayVars, troveVars
<1> QED
  BY <1>1, <1>2, DecPowIsRight, PTL DEF ArithmeticSpec

-------------------------------------------------------------------------------
(* Troves and changes. *)

AnyTrove == [collateral : Nat, debt : Nat]

(* A fee that is added is the fee of the contracts: the rounding of the    *)
(* sum is the one of the fee.                                              *)
LEMMA FeeIsAdded ==
  ASSUME NEW r \in Nat, NEW x \in Nat
  PROVE  /\ BorrowingFee(r, x) \in Nat
         /\ applyFee(r, x) = x + BorrowingFee(r, x)
<1> DEFINE D == DECIMAL_PRECISION
           q == (r * x) \div D
           s == (x * (D + r)) \div D
<1>1. D \in Nat \ {0}
  BY PrecisionAssumption
<1> HIDE DEF D
<1>2. r * x \in Nat /\ x * D \in Nat /\ x * (D + r) = x * D + r * x
  BY <1>1
<1>3. x * (D + r) \in Nat
  BY <1>2
<1>4. /\ q \in Nat /\ q * D <= r * x /\ r * x < q * D + D
      /\ s \in Nat /\ s * D <= x * (D + r) /\ x * (D + r) < s * D + D
  BY <1>1, <1>2, <1>3, NatQuotient, FloorQuotient
<1> HIDE DEF q, s
<1>5. s = x + q
  <2>1. ASSUME s <= x + q - 1 PROVE FALSE
    <3>1. s * D <= (x + q - 1) * D
      <4>1. \A u, v \in Int : u <= v => u * D <= v * D
        BY <1>1
      <4> QED BY <1>4, <2>1, <4>1
    <3>2. (x + q - 1) * D = x * D + q * D - D
      BY <1>1, <1>4
    <3>3. s * D \in Nat /\ q * D \in Nat
      BY <1>1, <1>4
    <3> QED BY <1>1, <1>2, <1>4, <3>1, <3>2, <3>3
  <2>2. ASSUME s >= x + q + 1 PROVE FALSE
    <3>1. s * D >= (x + q + 1) * D
      <4>1. \A u, v \in Int : u <= v => u * D <= v * D
        BY <1>1
      <4> QED BY <1>4, <2>2, <4>1
    <3>2. (x + q + 1) * D = x * D + q * D + D
      BY <1>1, <1>4
    <3>3. s * D \in Nat /\ q * D \in Nat
      BY <1>1, <1>4
    <3> QED BY <1>1, <1>2, <1>4, <3>1, <3>2, <3>3
  <2> QED BY <1>4, <2>1, <2>2
<1> QED
  BY <1>4, <1>5 DEF applyFee, Mul, BorrowingFee, q, s, D

(* What is to be borrowed for an increase e of the debt, and what comes of *)
(* it: e, or one more.  It is nothing for nothing, and for nothing else.   *)
LEMMA FeeIsTakenOff ==
  ASSUME NEW r \in 0..DECIMAL_PRECISION, NEW e \in Nat
  PROVE  /\ unapplyFee(r, e) \in Nat
         /\ applyFee(r, unapplyFee(r, e)) - e \in {0, 1}
         /\ unapplyFee(r, e) = 0 <=> e = 0
         /\ e = 0 => applyFee(r, unapplyFee(r, e)) = 0
<1> DEFINE D == DECIMAL_PRECISION
           M == D + r
           c == e * D + M - 1
           k == c \div M
           s == (k * M) \div D
<1>1. D \in Nat \ {0} /\ r \in Nat /\ r <= D
  BY PrecisionAssumption
<1> HIDE DEF D
<1>2. M \in Nat \ {0} /\ M <= 2 * D
  BY <1>1
<1> HIDE DEF M
<1>3. e * D \in Nat /\ c \in Nat
  BY <1>1, <1>2
<1>4. k \in Nat /\ k * M <= c /\ c < k * M + M
  <2> HIDE DEF c
  <2> QED BY <1>2, <1>3, NatQuotient, FloorQuotient
<1> HIDE DEF k
<1>5. k * M \in Nat
  BY <1>2, <1>4
<1>6. e * D <= k * M /\ k * M < e * D + 2 * D
  BY <1>1, <1>2, <1>3, <1>4, <1>5
<1>7. s \in Nat /\ s * D <= k * M /\ k * M < s * D + D /\ s * D \in Nat
  BY <1>1, <1>5, NatQuotient, FloorQuotient, NatProduct
<1> HIDE DEF s
<1>8. s - e \in {0, 1}
  <2>1. \A u, v \in Int : u <= v => u * D <= v * D
    BY <1>1
  <2>2. ASSUME s + 1 <= e PROVE FALSE
    <3>1. (s + 1) * D <= e * D /\ (s + 1) * D = s * D + D
      BY <1>1, <1>7, <2>1, <2>2
    <3>2. \A a, b, u, v \in Int : ~(a + b <= u /\ u <= v /\ v < a + b)
      OBVIOUS
    <3>3. e * D \in Int /\ s * D \in Int /\ k * M \in Int /\ D \in Int
      BY <1>1, <1>3, <1>5, <1>7
    <3>4. s * D + D <= e * D
      BY <3>1
    <3> QED BY <1>6, <1>7, <3>2, <3>3, <3>4
  <2>3. ASSUME e + 2 <= s PROVE FALSE
    <3>1. (e + 2) * D <= s * D /\ (e + 2) * D = e * D + 2 * D
      BY <1>1, <1>7, <2>1, <2>3
    <3>2. \A a, b, u, v \in Int : ~(a + b <= u /\ u <= v /\ v < a + b)
      OBVIOUS
    <3>3. e * D \in Int /\ 2 * D \in Int /\ s * D \in Int /\ k * M \in Int
      BY <1>1, <1>3, <1>5, <1>7
    <3>4. e * D + 2 * D <= s * D
      BY <3>1
    <3> QED BY <1>6, <1>7, <3>2, <3>3, <3>4
  <2> QED BY <1>7, <2>2, <2>3
<1>9. ASSUME k = 0 PROVE e = 0
  <2>1. k * M = 0
    BY <1>2, <1>9
  <2>2. e > 0 => e * D > 0
    BY <1>1
  <2> QED BY <1>3, <1>6, <2>1, <2>2
<1>10. ASSUME e = 0 PROVE k = 0 /\ s = 0
  <2>1. k * M < M
    BY <1>2, <1>4, <1>5, <1>10, <1>1
  <2>2. k >= 1 => k * M >= M
    BY <1>2, <1>4
  <2>3. k = 0
    BY <1>2, <1>4, <1>5, <2>1, <2>2
  <2>4. k * M = 0
    BY <1>2, <2>3
  <2>5. s >= 1 => s * D >= D
    BY <1>1, <1>7
  <2> QED BY <1>1, <1>7, <2>3, <2>4, <2>5
<1>11. unapplyFee(r, e) = k
  BY Zenon DEF unapplyFee, DivCeil, k, c, M, D
<1>12. applyFee(r, k) = s
  BY DEF applyFee, Mul, s, M, D
<1> QED
  BY <1>4, <1>8, <1>9, <1>10, <1>11, <1>12

(* A change, case by case.                                                 *)
LEMMA ChangesByCase ==
  ASSUME NEW t \in AnyTrove, NEW that \in AnyTrove, NEW r \in 0..DECIMAL_PRECISION
  PROVE  \/ t = that /\ ChangeAt(t, that, r) = [type |-> "none"]
         \/ /\ t = emptyTrove
            /\ ChangeAt(t, that, r) = [type |-> "invalidCreation", invalidTrove |-> that]
         \/ /\ t = emptyTrove /\ that.debt >= ARTH_LIQUIDATION_RESERVE
            /\ ChangeAt(t, that, r) =
                 [type |-> "creation", depositCollateral |-> that.collateral,
                  borrowARTH |-> unapplyFee(r, that.debt - ARTH_LIQUIDATION_RESERVE)]
         \/ /\ that = emptyTrove
            /\ ChangeAt(t, that, r) = [type |-> "throws"]
         \/ /\ t # emptyTrove /\ that = emptyTrove
            /\ ChangeAt(t, that, r) =
                 [type |-> "closure", withdrawCollateral |-> t.collateral,
                  repayARTH |-> t.debt - ARTH_LIQUIDATION_RESERVE]
         \/ /\ t # emptyTrove /\ that # emptyTrove /\ t # that
            /\ ChangeAt(t, that, r) =
                 [type |-> "adjustment", setToZero |-> SetToZero(t, that),
                  debtChange |-> DebtChange(t, that, r),
                  collateralChange |-> CollateralChange(t, that)]
<1>1. t.debt \in Nat /\ that.debt \in Nat /\ ARTH_LIQUIDATION_RESERVE \in Nat
  BY ArithmeticAssumption DEF AnyTrove
<1>2. CASE t = that
  BY <1>2 DEF ChangeAt
<1>3. CASE t # that /\ t = emptyTrove
  <2>1. ChangeAt(t, that, r) =
          IF that.debt < ARTH_LIQUIDATION_RESERVE
          THEN [type |-> "invalidCreation", invalidTrove |-> that]
          ELSE [type |-> "creation", depositCollateral |-> that.collateral,
                borrowARTH |-> unapplyFee(r, that.debt - ARTH_LIQUIDATION_RESERVE)]
    BY <1>3 DEF ChangeAt
  <2> QED BY <1>1, <1>3, <2>1
<1>4. CASE t # that /\ t # emptyTrove /\ that = emptyTrove
  BY <1>4 DEF ChangeAt
<1>5. CASE t # that /\ t # emptyTrove /\ that # emptyTrove
  BY <1>5 DEF ChangeAt
<1> QED
  BY <1>2, <1>3, <1>4, <1>5

-------------------------------------------------------------------------------
(* What an adjustment leaves: the wanted collateral, and the debt that the *)
(* contracts compute, which is the wanted one or one more.                 *)
LEMMA AdjustmentReaches ==
  ASSUME NEW t \in AnyTrove, NEW that \in AnyTrove, NEW r \in 0..DECIMAL_PRECISION,
         NEW change, change.type = "adjustment", change.setToZero = SetToZero(t, that),
         change.debtChange = DebtChange(t, that, r),
         change.collateralChange = CollateralChange(t, that),
         NEW after, after = ApplyAt(t, change, r)
  PROVE  /\ after \in AnyTrove /\ after.collateral = that.collateral
         /\ after.debt - that.debt \in {0, 1}
         /\ after.debt = DebtAfterAdjustment(t.debt, change.debtChange, r)
<1> DEFINE e == Less(that.debt, t.debt)
           b == unapplyFee(r, e)
           repay == Less(t.debt, that.debt)
<1>1. /\ t.debt \in Nat /\ that.debt \in Nat /\ t.collateral \in Nat /\ that.collateral \in Nat
      /\ r \in Nat
  BY PrecisionAssumption DEF AnyTrove
<1>2. /\ e \in Nat /\ repay \in Nat
      /\ that.debt > t.debt => e = that.debt - t.debt /\ repay = 0
      /\ that.debt <= t.debt => e = 0 /\ repay = t.debt - that.debt
  BY <1>1 DEF Less
<1>3. change.debtChange.borrowARTH = b /\ change.debtChange.repayARTH = repay
  BY DEF DebtChange
<1>4. /\ change.collateralChange.depositCollateral = Less(that.collateral, t.collateral)
      /\ change.collateralChange.withdrawCollateral = Less(t.collateral, that.collateral)
  BY DEF CollateralChange
<1> HIDE DEF e, repay
<1>5. /\ b \in Nat /\ applyFee(r, b) - e \in {0, 1} /\ (b = 0 <=> e = 0)
      /\ (e = 0 => applyFee(r, b) = 0)
  BY <1>2, FeeIsTakenOff
<1> HIDE DEF b
<1>6. BorrowingFee(r, b) \in Nat /\ applyFee(r, b) = b + BorrowingFee(r, b)
  BY <1>1, <1>5, FeeIsAdded
<1>7. after =
        [collateral |-> IF change.setToZero = "collateral" THEN 0
                        ELSE Less(t.collateral + Less(that.collateral, t.collateral),
                                  Less(t.collateral, that.collateral)),
         debt |-> IF change.setToZero = "debt" THEN 0
                  ELSE Less(t.debt + applyFee(r, b), repay)]
  BY <1>3, <1>4 DEF ApplyAt
<1>8. after.collateral = that.collateral
  <2>1. CASE change.setToZero = "collateral"
    BY <1>7, <2>1 DEF SetToZero
  <2>2. CASE change.setToZero # "collateral"
    BY <1>1, <1>7, <2>2 DEF Less
  <2> QED BY <2>1, <2>2
<1>9. DebtAfterAdjustment(t.debt, change.debtChange, r)
        = IF b > 0 THEN t.debt + b + BorrowingFee(r, b) ELSE t.debt - repay
  BY <1>3 DEF DebtAfterAdjustment
<1>10. /\ after.debt \in Nat /\ after.debt - that.debt \in {0, 1}
       /\ after.debt = DebtAfterAdjustment(t.debt, change.debtChange, r)
  <2>1. CASE change.setToZero = "debt"
    <3>1. that.debt = 0 /\ after.debt = 0
      BY <1>7, <2>1 DEF SetToZero
    <3> QED BY <1>1, <1>2, <1>5, <1>9, <3>1
  <2>2. CASE change.setToZero # "debt" /\ that.debt > t.debt
    <3>1. after.debt = t.debt + applyFee(r, b)
      BY <1>1, <1>2, <1>5, <1>6, <1>7, <2>2 DEF Less
    <3> QED BY <1>1, <1>2, <1>5, <1>6, <1>9, <2>2, <3>1
  <2>3. CASE change.setToZero # "debt" /\ that.debt <= t.debt
    <3>1. after.debt = that.debt
      BY <1>1, <1>2, <1>5, <1>7, <2>3 DEF Less
    <3> QED BY <1>1, <1>2, <1>5, <1>9, <2>3, <3>1
  <2> QED BY <1>1, <2>1, <2>2, <2>3
<1>11. after \in AnyTrove
  BY <1>1, <1>7, <1>8, <1>10 DEF AnyTrove
<1> QED
  BY <1>8, <1>10, <1>11

(* A creation: the debt is the composite debt of the contracts, and the    *)
(* wanted one or one more.                                                 *)
LEMMA CreationReaches ==
  ASSUME NEW t, t = emptyTrove, NEW that \in AnyTrove, NEW r \in 0..DECIMAL_PRECISION,
         that.debt >= ARTH_LIQUIDATION_RESERVE,
         NEW change, change.type = "creation", change.depositCollateral = that.collateral,
         change.borrowARTH = unapplyFee(r, that.debt - ARTH_LIQUIDATION_RESERVE),
         NEW after, after = ApplyAt(t, change, r)
  PROVE  /\ after \in AnyTrove /\ after.collateral = that.collateral
         /\ after.debt - that.debt \in {0, 1}
         /\ after.debt = CompositeDebt(change.borrowARTH, r)
<1> DEFINE reserve == ARTH_LIQUIDATION_RESERVE
           e == that.debt - reserve
           b == change.borrowARTH
<1>1. that.debt \in Nat /\ that.collateral \in Nat /\ reserve \in Nat /\ e \in Nat /\ r \in Nat
  BY PrecisionAssumption, ArithmeticAssumption DEF AnyTrove
<1>2. after = [collateral |-> that.collateral, debt |-> reserve + applyFee(r, b)]
  BY DEF ApplyAt
<1>3. CompositeDebt(b, r) = b + BorrowingFee(r, b) + reserve
  BY DEF CompositeDebt
<1>4. b = unapplyFee(r, e)
  OBVIOUS
<1> HIDE DEF b, reserve
<1>5. b \in Nat /\ applyFee(r, b) - e \in {0, 1}
  BY <1>1, <1>4, FeeIsTakenOff
<1>6. BorrowingFee(r, b) \in Nat /\ applyFee(r, b) = b + BorrowingFee(r, b)
  BY <1>1, <1>5, FeeIsAdded
<1>7. after.debt = reserve + applyFee(r, b) /\ after.collateral = that.collateral
  BY <1>2
<1>8. after.debt \in Nat /\ after.debt - that.debt \in {0, 1} /\ after.debt = CompositeDebt(b, r)
  BY <1>1, <1>3, <1>5, <1>6, <1>7
<1>9. after \in AnyTrove
  BY <1>1, <1>2, <1>8 DEF AnyTrove
<1> QED
  BY <1>7, <1>8, <1>9 DEF b

(* Any change that the SDK computes leads to the wanted trove, and the     *)
(* contracts compute the same debt.                                        *)
LEMMA ChangeReaches ==
  ASSUME NEW t \in AnyTrove, NEW that \in AnyTrove, NEW r \in 0..DECIMAL_PRECISION,
         ChangeAt(t, that, r).type # "throws",
         NEW after, after = ApplyAt(t, ChangeAt(t, that, r), r)
  PROVE  /\ after \in AnyTrove /\ after.collateral = that.collateral
         /\ after.debt - that.debt \in {0, 1}
         /\ ChangeAt(t, that, r).type = "creation" =>
              after.debt = CompositeDebt(ChangeAt(t, that, r).borrowARTH, r)
         /\ ChangeAt(t, that, r).type = "adjustment" =>
              after.debt = DebtAfterAdjustment(t.debt, ChangeAt(t, that, r).debtChange, r)
<1> DEFINE change == ChangeAt(t, that, r)
<1>1. that.debt \in Nat /\ that.debt - that.debt = 0
  BY DEF AnyTrove
<1> HIDE DEF change
<1>2. change.type # "throws" /\ after = ApplyAt(t, change, r)
  BY DEF change
<1>3. CASE t = that /\ change = [type |-> "none"]
  <2>1. change.type = "none"
    BY <1>3
  <2>2. after = that
    BY <1>2, <1>3, <2>1 DEF ApplyAt
  <2> QED BY <1>1, <2>1, <2>2 DEF change
<1>4. CASE t = emptyTrove /\ change = [type |-> "invalidCreation", invalidTrove |-> that]
  <2>1. change.type = "invalidCreation" /\ change.invalidTrove = that
    BY <1>4
  <2>2. after = that
    BY <1>2, <1>4, <2>1 DEF ApplyAt
  <2> QED BY <1>1, <2>1, <2>2 DEF change
<1>5. CASE /\ t = emptyTrove /\ that.debt >= ARTH_LIQUIDATION_RESERVE
           /\ change = [type |-> "creation", depositCollateral |-> that.collateral,
                        borrowARTH |-> unapplyFee(r, that.debt - ARTH_LIQUIDATION_RESERVE)]
  <2>1. /\ change.type = "creation" /\ change.depositCollateral = that.collateral
        /\ change.borrowARTH = unapplyFee(r, that.debt - ARTH_LIQUIDATION_RESERVE)
    BY <1>5
  <2>2. /\ after \in AnyTrove /\ after.collateral = that.collateral
        /\ after.debt - that.debt \in {0, 1}
        /\ after.debt = CompositeDebt(change.borrowARTH, r)
    BY <1>2, <1>5, <2>1, CreationReaches
  <2> QED BY <2>1, <2>2 DEF change
<1>6. CASE t # emptyTrove /\ that = emptyTrove /\ change.type = "closure"
  <2>1. after = that
    BY <1>2, <1>6 DEF ApplyAt
  <2> QED BY <1>1, <1>6, <2>1 DEF change
<1>7. CASE change = [type |-> "adjustment", setToZero |-> SetToZero(t, that),
                     debtChange |-> DebtChange(t, that, r),
                     collateralChange |-> CollateralChange(t, that)]
  <2>1. /\ change.type = "adjustment" /\ change.setToZero = SetToZero(t, that)
        /\ change.debtChange = DebtChange(t, that, r)
        /\ change.collateralChange = CollateralChange(t, that)
    BY <1>7
  <2>2. /\ after \in AnyTrove /\ after.collateral = that.collateral
        /\ after.debt - that.debt \in {0, 1}
        /\ after.debt = DebtAfterAdjustment(t.debt, change.debtChange, r)
    BY <1>2, <2>1, AdjustmentReaches
  <2> QED BY <2>1, <2>2 DEF change
<1>8. \/ t = that /\ change = [type |-> "none"]
      \/ t = emptyTrove /\ change = [type |-> "invalidCreation", invalidTrove |-> that]
      \/ /\ t = emptyTrove /\ that.debt >= ARTH_LIQUIDATION_RESERVE
         /\ change = [type |-> "creation", depositCollateral |-> that.collateral,
                      borrowARTH |-> unapplyFee(r, that.debt - ARTH_LIQUIDATION_RESERVE)]
      \/ t # emptyTrove /\ that = emptyTrove /\ change.type = "closure"
      \/ change = [type |-> "adjustment", setToZero |-> SetToZero(t, that),
                   debtChange |-> DebtChange(t, that, r),
                   collateralChange |-> CollateralChange(t, that)]
  <2> DEFINE throws == [type |-> "throws"]
             closure == [type |-> "closure", withdrawCollateral |-> t.collateral,
                         repayARTH |-> t.debt - ARTH_LIQUIDATION_RESERVE]
  <2>1. throws.type = "throws" /\ closure.type = "closure"
    OBVIOUS
  <2>2. \/ t = that /\ change = [type |-> "none"]
        \/ t = emptyTrove /\ change = [type |-> "invalidCreation", invalidTrove |-> that]
        \/ /\ t = emptyTrove /\ that.debt >= ARTH_LIQUIDATION_RESERVE
           /\ change = [type |-> "creation", depositCollateral |-> that.collateral,
                        borrowARTH |-> unapplyFee(r, that.debt - ARTH_LIQUIDATION_RESERVE)]
        \/ change = throws
        \/ t # emptyTrove /\ that = emptyTrove /\ change = closure
        \/ change = [type |-> "adjustment", setToZero |-> SetToZero(t, that),
                     debtChange |-> DebtChange(t, that, r),
                     collateralChange |-> CollateralChange(t, that)]
    BY ChangesByCase, Zenon DEF change
  <2> HIDE DEF throws, closure
  <2> QED BY <1>2, <2>1, <2>2, Zenon
<1> QED
  BY <1>3, <1>4, <1>5, <1>6, <1>7, <1>8

(* What a change sets to zero becomes zero, whatever it is applied to.     *)
LEMMA ZeroIsZero ==
  ASSUME NEW t \in AnyTrove, t.collateral > 0, t.debt > 0, NEW r \in 0..DECIMAL_PRECISION,
         NEW newer, NEW that \in AnyTrove,
         NEW after, after = ApplyAt(newer, ChangeAt(t, that, r), r)
  PROVE  /\ that.debt = 0 /\ that.collateral > 0 => after.debt = 0
         /\ that.collateral = 0 /\ that.debt > 0 => after.collateral = 0
<1> DEFINE change == ChangeAt(t, that, r)
<1>1. /\ emptyTrove.collateral = 0 /\ emptyTrove.debt = 0
      /\ t.collateral \in Nat /\ t.debt \in Nat /\ that.collateral \in Nat /\ that.debt \in Nat
  BY DEF emptyTrove, AnyTrove
<1>2. ASSUME that # t, that # emptyTrove
      PROVE  change.type = "adjustment" /\ change.setToZero = SetToZero(t, that)
  <2>1. t # emptyTrove
    BY <1>1
  <2> QED BY <1>2, <2>1 DEF ChangeAt
<1> HIDE DEF change
<1>3. ASSUME that.debt = 0, that.collateral > 0 PROVE after.debt = 0
  <2>1. that # t /\ that # emptyTrove
    BY <1>1, <1>3
  <2>2. change.type = "adjustment" /\ change.setToZero = "debt"
    BY <1>1, <1>2, <1>3, <2>1 DEF SetToZero
  <2> QED BY <2>2 DEF ApplyAt, change
<1>4. ASSUME that.collateral = 0, that.debt > 0 PROVE after.collateral = 0
  <2>1. that # t /\ that # emptyTrove
    BY <1>1, <1>4
  <2>2. change.type = "adjustment" /\ change.setToZero = "collateral"
    BY <1>1, <1>2, <1>4, <2>1 DEF SetToZero
  <2> QED BY <2>2 DEF ApplyAt, change
<1> QED
  BY <1>3, <1>4

(* The loop of pow halves an odd exponent as it is, where _decPow takes    *)
(* one off first: the equations are the same.                              *)
LEMMA PowIsDecPow ==
  ASSUME NEW F \in 0..DECIMAL_PRECISION, NEW n \in 0..MAX_MINUTES
  PROVE  Pow(F, n) = DecPow(F, n)
<1> DEFINE D == DECIMAL_PRECISION
           Turn(f, x, y, m) ==
             IF m <= 1 THEN Rounded(D, x, y)
             ELSE f[m \div 2][Rounded(D, x, x)][IF m % 2 = 1 THEN Rounded(D, x, y) ELSE y]
           IsPowLoop(f) == f = [m \in Nat |-> [x \in Nat |-> [y \in Nat |-> Turn(f, x, y, m)]]]
<1>1. D \in Nat \ {0} /\ MAX_MINUTES \in Nat /\ F \in Nat /\ n \in Nat
  BY PrecisionAssumption
<1>2. ASSUME NEW f, NEW x \in Nat, NEW y \in Nat, NEW m \in Nat
      PROVE  Turn(f, x, y, m) = LoopTurn(D, f, x, y, m)
  <2>1. m > 1 => (m % 2 = 0 \/ (m % 2 = 1 /\ m \div 2 = (m - 1) \div 2))
    BY SMT
  <2>2. CASE m <= 1
    BY <2>2 DEF LoopTurn
  <2>3. CASE m > 1 /\ m % 2 = 0
    BY <2>3 DEF LoopTurn
  <2>4. CASE m > 1 /\ m % 2 = 1 /\ m \div 2 = (m - 1) \div 2
    BY <2>4 DEF LoopTurn
  <2> QED BY <2>1, <2>2, <2>3, <2>4
<1>3. ASSUME NEW f PROVE IsPowLoop(f) <=> IsSquaring(D, f)
  <2> DEFINE h == [m \in Nat |-> [x \in Nat |-> [y \in Nat |-> Turn(f, x, y, m)]]]
             g == [m \in Nat |-> [x \in Nat |-> [y \in Nat |-> LoopTurn(D, f, x, y, m)]]]
  <2> HIDE DEF Turn
  <2>1. ASSUME NEW m \in Nat, NEW x \in Nat
        PROVE  [y \in Nat |-> Turn(f, x, y, m)] = [y \in Nat |-> LoopTurn(D, f, x, y, m)]
    BY <1>2
  <2>2. ASSUME NEW m \in Nat
        PROVE  [x \in Nat |-> [y \in Nat |-> Turn(f, x, y, m)]]
                 = [x \in Nat |-> [y \in Nat |-> LoopTurn(D, f, x, y, m)]]
    BY <2>1, Zenon
  <2>3. h = g
    BY <2>2, Zenon
  <2>4. IsPowLoop(f) <=> f = h
    BY Zenon
  <2>5. IsSquaring(D, f) <=> f = g
    BY Zenon DEF IsSquaring, LoopTurn
  <2> HIDE DEF g, h
  <2> QED BY <2>3, <2>4, <2>5, Zenon
<1>4. IsSquaring(D, PowLoop)
  <2>1. PowLoop = CHOOSE f : IsPowLoop(f)
    BY Zenon DEF PowLoop, DecMul, Rounded
  <2>2. \E f : IsPowLoop(f)
    <3> HIDE DEF IsPowLoop
    <3> QED BY <1>1, <1>3, SquaringExists
  <2>3. IsPowLoop(PowLoop)
    <3> HIDE DEF IsPowLoop
    <3> QED BY <2>1, <2>2, Zenon
  <2> HIDE DEF IsPowLoop
  <2> QED BY <1>3, <2>3
<1>5. IsSquaring(D, Squaring)
  BY DecPowIsPower
<1>6. ASSUME NEW f, IsSquaring(D, f) PROVE LoopUpTo(D, f, n)
  <2>1. \A x \in Nat, y \in Nat, m \in Nat : f[m][x][y] = LoopTurn(D, f, x, y, m)
    BY <1>1, <1>6, SquaringSteps
  <2> QED BY <1>1, <2>1 DEF LoopUpTo
<1>7. PowLoop[n][F][D] = Squaring[n][F][D]
  <2>1. n \in 0..n /\ D \in Nat
    BY <1>1
  <2> QED BY <1>1, <1>4, <1>5, <1>6, <2>1, LoopIsUnique
<1>8. DecPow(F, n) = IF n = 0 THEN D ELSE Squaring[n][F][D]
  <2>1. n < MAX_MINUTES \/ n = MAX_MINUTES
    BY <1>1
  <2> QED BY <2>1 DEF DecPow, MinOf
<1>9. Squaring[1][F][D] = F
  <2>1. Squaring[1][F][D] = LoopTurn(D, Squaring, F, D, 1)
    BY <1>1, <1>5, SquaringSteps
  <2> QED BY <1>1, <2>1, RoundedOne DEF LoopTurn
<1>10. Pow(F, n) = IF n = 0 THEN D ELSE IF n = 1 THEN F ELSE PowLoop[n][F][D]
  BY DEF Pow
<1> HIDE DEF D
<1> QED
  BY <1>7, <1>8, <1>9, <1>10

-------------------------------------------------------------------------------
(* The inductive invariant: the trove is the wanted one, or has one unit   *)
(* more debt, whatever changes were applied before.                        *)
ArithmeticIInv ==
  /\ DecayTypeOK
  /\ trove \in AnyTrove /\ wanted \in AnyTrove
  /\ given.rate \in 0..DECIMAL_PRECISION
  /\ trove.collateral = wanted.collateral /\ trove.debt - wanted.debt \in {0, 1}

(* What may be wanted is a trove.                                          *)
LEMMA WantedAreTroves == WantedTroves \subseteq AnyTrove
BY ArithmeticAssumption DEF WantedTroves, AnyTrove

(* The rate that is used is one, too.                                      *)
LEMMA UsedIsRate ==
  ASSUME NEW g, g.rate \in 0..DECIMAL_PRECISION
  PROVE  RateUsed(g) \in 0..DECIMAL_PRECISION
BY ArithmeticAssumption DEF RateUsed

(* It holds of the empty trove at minute zero,                            *)
LEMMA ArithmeticStart == ArithmeticInit => ArithmeticIInv
<1> SUFFICES ASSUME ArithmeticInit PROVE ArithmeticIInv
  OBVIOUS
<1>1. trove = emptyTrove /\ wanted = emptyTrove /\ given.rate = 0 /\ DecayTypeOK
  BY DEF ArithmeticInit, Untouched, DecayTypeOK
<1>2. emptyTrove \in AnyTrove /\ emptyTrove.debt - emptyTrove.debt = 0
  BY DEF emptyTrove, AnyTrove
<1> QED
  BY <1>1, <1>2, PrecisionAssumption DEF ArithmeticIInv

(* a minute keeps it, and so does a change;                               *)
LEMMA ArithmeticStep ==
  ArithmeticIInv /\ [ArithmeticNext]_<<decayVars, troveVars>> => ArithmeticIInv'
<1> SUFFICES ASSUME ArithmeticIInv, [ArithmeticNext]_<<decayVars, troveVars>>
             PROVE  ArithmeticIInv'
  OBVIOUS
<1>1. CASE UNCHANGED <<decayVars, troveVars>>
  BY <1>1 DEF ArithmeticIInv, DecayTypeOK, decayVars, troveVars
<1>2. CASE MinutePasses
  BY <1>2 DEF ArithmeticIInv, DecayTypeOK, MinutePasses, troveVars
<1>3. ASSUME NEW that \in WantedTroves, ChangeTo(that) PROVE ArithmeticIInv'
  <2>1. /\ given' \in GivenRates
        /\ WhatChanged(trove, that, given').type # "throws"
        /\ trove' = Apply(trove, WhatChanged(trove, that, given'), given')
    BY <1>3 DEF ChangeTo
  <2>2. wanted' = that /\ UNCHANGED <<factor, minutes>>
    BY <1>3 DEF ChangeTo, decayVars
  <2>3. that \in AnyTrove /\ trove \in AnyTrove /\ given'.rate \in 0..DECIMAL_PRECISION
    BY <2>1, WantedAreTroves, ArithmeticAssumption DEF ArithmeticIInv, GivenRates
  <2>4. RateUsed(given') \in 0..DECIMAL_PRECISION
    BY <2>3, UsedIsRate
  <2>5. /\ trove' \in AnyTrove /\ trove'.collateral = that.collateral
        /\ trove'.debt - that.debt \in {0, 1}
    BY <2>1, <2>3, <2>4, ChangeReaches DEF WhatChanged, Apply
  <2> QED BY <2>2, <2>3, <2>5 DEF ArithmeticIInv, DecayTypeOK
<1> QED
  BY <1>1, <1>2, <1>3 DEF ArithmeticNext

(* it says that the wanted trove was reached,                             *)
LEMMA GoalIsReached == ArithmeticIInv => ChangesReachTheirGoal
<1> SUFFICES ASSUME ArithmeticIInv PROVE ChangesReachTheirGoal
  OBVIOUS
<1>1. ZeroingsArePreserved
  <2>1. RateUsed(given) \in 0..DECIMAL_PRECISION
    BY UsedIsRate DEF ArithmeticIInv
  <2> QED BY <2>1, ZeroIsZero, WantedAreTroves DEF ZeroingsArePreserved, ArithmeticIInv,
                                                    WhatChanged, Apply
<1> QED
  BY <1>1 DEF ChangesReachTheirGoal, ArithmeticIInv

(* and the two sides agree wherever it holds.                              *)
LEMMA SidesAgree == ArithmeticIInv => SDKAgreesWithContracts
<1> SUFFICES ASSUME ArithmeticIInv PROVE SDKAgreesWithContracts
  OBVIOUS
<1>1. ASSUME minutes <= MAX_MINUTES, NEW b \in BorrowingRates, NEW second \in {0, 59}
      PROVE  BaseRate(b, factor, 60 * minutes + second)
               = DecayedBaseRate(b, factor, 60 * minutes + second)
  <2>1. minutes \in 0..MAX_MINUTES /\ factor \in 0..DECIMAL_PRECISION
        /\ b \in Nat /\ DECIMAL_PRECISION \in Nat
    BY <1>1, PrecisionAssumption, ArithmeticAssumption DEF ArithmeticIInv, DecayTypeOK
  <2>2. /\ MaxOf(60 * minutes + second, 0) = 60 * minutes + second
        /\ (60 * minutes + second) \div 60 = minutes
    BY <2>1, PrecisionAssumption DEF MaxOf
  <2>3. Pow(factor, minutes) = DecPow(factor, minutes)
    BY <2>1, PowIsDecPow
  <2>4. DecPow(factor, minutes) \in Nat
    BY <2>1, DecPowFacts, PrecisionAssumption
  <2>5. DecPow(factor, minutes) * b = b * DecPow(factor, minutes)
    BY <2>1, <2>4
  <2> QED BY <2>2, <2>3, <2>5 DEF BaseRate, DecayedBaseRate, Mul
<1>2. ASSUME NEW that \in WantedTroves,
             WhatChanged(trove, that, given).type \in {"creation", "adjustment"}
      PROVE  LET change == WhatChanged(trove, that, given)
                 after == Apply(trove, change, given)
                 rate == RateUsed(given)
             IN  /\ change.type = "creation" =>
                      after.debt = CompositeDebt(change.borrowARTH, rate)
                 /\ change.type = "adjustment" =>
                      after.debt = DebtAfterAdjustment(trove.debt, change.debtChange, rate)
  <2> DEFINE rate == RateUsed(given)
             change == ChangeAt(trove, that, rate)
  <2>1. change.type # "throws"
    BY <1>2 DEF WhatChanged
  <2>2. that \in AnyTrove /\ trove \in AnyTrove /\ rate \in 0..DECIMAL_PRECISION
    BY WantedAreTroves, UsedIsRate DEF ArithmeticIInv
  <2>3. \A after : after = ApplyAt(trove, change, rate) =>
          /\ change.type = "creation" => after.debt = CompositeDebt(change.borrowARTH, rate)
          /\ change.type = "adjustment" =>
               after.debt = DebtAfterAdjustment(trove.debt, change.debtChange, rate)
    <3> HIDE DEF rate
    <3> QED BY <2>1, <2>2, ChangeReaches
  <2> QED BY <2>3, Zenon DEF WhatChanged, Apply
<1> QED
  BY <1>1, <1>2, Zenon DEF SDKAgreesWithContracts

(* The SDK's changes lead to the wanted trove, for every precision, every  *)
(* reserve, every borrowing rate up to one and any sequence of troves.     *)
THEOREM ChangesAlwaysReachTheirGoal == ArithmeticSpec => []ChangesReachTheirGoal
<1> QED
  BY ArithmeticStart, ArithmeticStep, GoalIsReached, PTL DEF ArithmeticSpec

(* The SDK and the contracts compute the same decay and the same debts,    *)
(* for every precision, every factor, every rate and every exponent up to  *)
(* the contract's cap.                                                     *)
THEOREM SDKAlwaysAgreesWithContracts == ArithmeticSpec => []SDKAgreesWithContracts
<1> QED
  BY ArithmeticStart, ArithmeticStep, SidesAgree, PTL DEF ArithmeticSpec
==============================================================================
