--------------------------- MODULE ARTHPools_proofs ---------------------------
(***************************************************************************)
(* Theorems on the pools and on the accounts of the token: what they hold  *)
(* covers what the troves record, the rewards they have yet to apply, the  *)
(* surplus of the closed ones and the deposits, so that no liquidation is  *)
(* blocked on the way and what it redistributes is conserved.  A part is   *)
(* about the mode: which calls may bring the system into recovery.  The    *)
(* last parts are about redemptions: that they are fair, are never blocked *)
(* and take the riskiest trove first, and that the loop of the view which  *)
(* computes their hints runs in lockstep with the loop of the contract.    *)
(* At the end, the base rate: it only decays between two fees.             *)
(***************************************************************************)
EXTENDS ARTHSystem_proofs

------------------------------------------------------------------------------
(* What the pools hold of it. *)

ETHTermTotal  == SumFunction(ETHTermOf)
DebtTermTotal == SumFunction(DebtTermOf)

ActivePoolHolds == activePool.ETH = CollTotal /\ activePool.ARTHDebt = DebtTotal

ETHRewardsCovered ==
  defaultPool.ETH * DECIMAL_PRECISION >= lastError.ETH + ETHTermTotal

DebtRewardsCovered ==
  defaultPool.ARTHDebt * DECIMAL_PRECISION >= lastError.ARTHDebt + DebtTermTotal

(* The inductive invariant of the pools. *)
PoolsInv == ActivePoolHolds /\ ETHRewardsCovered /\ SurplusIsHeld

(* The debt of the Default Pool is covered as well as long as no trove's   *)
(* snapshots lie on two sides of a redistribution.                         *)
DebtInv == SnapshotsTogether /\ DebtRewardsCovered

(* The sums of the terms are natural numbers. *)
LEMMA TermTotals ==
  ASSUME LedgerInv
  PROVE  /\ ETHTermTotal = SumFunctionOnSet(ETHTermOf, Borrowers) /\ ETHTermTotal \in Nat
         /\ DebtTermTotal = SumFunctionOnSet(DebtTermOf, Borrowers) /\ DebtTermTotal \in Nat
<1>1. \A b \in Borrowers : ETHTermOf[b] \in Nat /\ DebtTermOf[b] \in Nat
  BY TermsAreAmounts
<1>2. DOMAIN ETHTermOf = Borrowers /\ DOMAIN DebtTermOf = Borrowers
  BY DEF ETHTermOf, DebtTermOf
<1>3. /\ ETHTermTotal = SumFunctionOnSet(ETHTermOf, Borrowers)
      /\ DebtTermTotal = SumFunctionOnSet(DebtTermOf, Borrowers)
  BY <1>2 DEF ETHTermTotal, DebtTermTotal, SumFunction
<1> QED
  BY <1>1, <1>3, ActiveTrovesFinite, SumNat

(* The terms after a step. *)
LEMMA TermTotalsAfter ==
  ASSUME LedgerInv'
  PROVE  /\ ETHTermTotal' = SumFunctionOnSet(ETHTermOf', Borrowers) /\ ETHTermTotal' \in Nat
         /\ DebtTermTotal' = SumFunctionOnSet(DebtTermOf', Borrowers) /\ DebtTermTotal' \in Nat
         /\ \A b \in Borrowers :
              /\ ETHTermOf'[b] = Troves'[b].stake * (L'.ETH - rewardSnapshots'[b].ETH)
              /\ DebtTermOf'[b]
                   = Troves'[b].stake * (L'.ARTHDebt - rewardSnapshots'[b].ARTHDebt)
              /\ ETHTermOf'[b] \in Nat /\ DebtTermOf'[b] \in Nat
<1> DEFINE e == ETHTermOf'
           d == DebtTermOf'
<1>1. \A b \in Borrowers :
        /\ e[b] = Troves'[b].stake * (L'.ETH - rewardSnapshots'[b].ETH)
        /\ d[b] = Troves'[b].stake * (L'.ARTHDebt - rewardSnapshots'[b].ARTHDebt)
  BY DEF ETHTermOf, DebtTermOf
<1>2. \A b \in Borrowers : e[b] \in Nat /\ d[b] \in Nat
  <2> TAKE b \in Borrowers
  <2>1. Troves'[b].stake \in Nat
    BY DEF LedgerInv, LedgerTypeOK
  <2>2. L'.ETH - rewardSnapshots'[b].ETH \in Nat
        /\ L'.ARTHDebt - rewardSnapshots'[b].ARTHDebt \in Nat
    BY DEF LedgerInv, LedgerTypeOK, SnapshotsBehindL, PoolType
  <2> HIDE DEF e, d
  <2> QED BY <1>1, <2>1, <2>2, NatProduct
<1>3. DOMAIN e = Borrowers /\ DOMAIN d = Borrowers
  BY DEF ETHTermOf, DebtTermOf
<1>4. ETHTermTotal' = SumFunctionOnSet(e, Borrowers)
      /\ DebtTermTotal' = SumFunctionOnSet(d, Borrowers)
  BY <1>3 DEF ETHTermTotal, DebtTermTotal, SumFunction
<1> HIDE DEF e, d
<1>5. SumFunctionOnSet(e, Borrowers) \in Nat /\ SumFunctionOnSet(d, Borrowers) \in Nat
  BY <1>2, ActiveTrovesFinite, SumNat
<1> QED BY <1>1, <1>2, <1>4, <1>5 DEF e, d

(* The rewards of b move from the Default Pool to the Active Pool, and the *)
(* rest of the Active Pool changes with b's trove.                         *)
OneTroveMoves(b, movedETH, movedDebt) ==
  /\ movedETH \in Nat /\ movedDebt \in Nat
  /\ movedETH * DECIMAL_PRECISION <= ETHTermOf[b]
  /\ movedDebt * DECIMAL_PRECISION <= DebtTermOf[b]
  /\ \A c \in Borrowers \ {b} :
       Troves'[c] = Troves[c] /\ rewardSnapshots'[c] = rewardSnapshots[c]
  /\ \/ Troves'[b].status # "active" /\ Troves'[b].stake = 0
     \/ /\ rewardSnapshots'[b].ETH = L.ETH
        /\ SnapshotsTogether => rewardSnapshots'[b].ARTHDebt = L.ARTHDebt
  /\ activePool'.ETH = activePool.ETH - Troves[b].coll + Troves'[b].coll
  /\ activePool'.ARTHDebt = activePool.ARTHDebt - Troves[b].debt + Troves'[b].debt
  /\ defaultPool'.ETH = defaultPool.ETH - movedETH
  /\ defaultPool'.ARTHDebt = defaultPool.ARTHDebt - movedDebt
  /\ L' = L /\ lastError' = lastError /\ collSurplusPool' = collSurplusPool

(* A step that moves the rewards of one trove keeps the pools. *)
LEMMA OneTroveKeepsPools ==
  ASSUME LedgerInv, LedgerInv', PoolsInv, NEW b \in Borrowers, NEW x, NEW y,
         OneTroveMoves(b, x, y)
  PROVE  PoolsInv' /\ (DebtInv => DebtInv')
<1>1. /\ x \in Nat /\ y \in Nat
      /\ x * DECIMAL_PRECISION <= ETHTermOf[b]
      /\ y * DECIMAL_PRECISION <= DebtTermOf[b]
      /\ \A c \in Borrowers \ {b} :
           Troves'[c] = Troves[c] /\ rewardSnapshots'[c] = rewardSnapshots[c]
      /\ (Troves'[b].stake = 0 \/ rewardSnapshots'[b].ETH = L.ETH)
      /\ activePool'.ETH = activePool.ETH - Troves[b].coll + Troves'[b].coll
      /\ activePool'.ARTHDebt = activePool.ARTHDebt - Troves[b].debt + Troves'[b].debt
      /\ defaultPool'.ETH = defaultPool.ETH - x
      /\ defaultPool'.ARTHDebt = defaultPool.ARTHDebt - y
      /\ L' = L /\ lastError' = lastError
  BY DEF OneTroveMoves
<1>2. ActivePoolHolds'
  <2>1. /\ CollTotal' = CollTotal - Troves[b].coll + Troves'[b].coll
        /\ DebtTotal' = DebtTotal - Troves[b].debt + Troves'[b].debt
    BY <1>1, TotalsOfOneChange
  <2> QED BY <1>1, <2>1 DEF PoolsInv, ActivePoolHolds
<1> DEFINE e == ETHTermOf'
           d == DebtTermOf'
<1>3. /\ ETHTermTotal' = SumFunctionOnSet(e, Borrowers) /\ ETHTermTotal' \in Nat
      /\ DebtTermTotal' = SumFunctionOnSet(d, Borrowers) /\ DebtTermTotal' \in Nat
      /\ \A c \in Borrowers :
           /\ e[c] = Troves'[c].stake * (L'.ETH - rewardSnapshots'[c].ETH)
           /\ d[c] = Troves'[c].stake * (L'.ARTHDebt - rewardSnapshots'[c].ARTHDebt)
           /\ e[c] \in Nat /\ d[c] \in Nat
  BY TermTotalsAfter
<1> HIDE DEF e, d
<1>4. /\ \A c \in Borrowers : /\ ETHTermOf[c] \in Nat /\ DebtTermOf[c] \in Nat
                              /\ ETHTermOf[c] = Troves[c].stake * (L.ETH - rewardSnapshots[c].ETH)
                              /\ DebtTermOf[c]
                                   = Troves[c].stake * (L.ARTHDebt - rewardSnapshots[c].ARTHDebt)
      /\ ETHTermTotal = SumFunctionOnSet(ETHTermOf, Borrowers) /\ ETHTermTotal \in Nat
      /\ DebtTermTotal = SumFunctionOnSet(DebtTermOf, Borrowers) /\ DebtTermTotal \in Nat
  BY TermsAreAmounts, TermTotals
<1>5. \A c \in Borrowers \ {b} : e[c] = ETHTermOf[c] /\ d[c] = DebtTermOf[c]
  BY <1>1, <1>3, <1>4
<1>6. /\ SumFunctionOnSet(e, Borrowers)
           = SumFunctionOnSet(ETHTermOf, Borrowers) - ETHTermOf[b] + e[b]
      /\ SumFunctionOnSet(d, Borrowers)
           = SumFunctionOnSet(DebtTermOf, Borrowers) - DebtTermOf[b] + d[b]
  <2>1. \A c \in Borrowers : /\ ETHTermOf[c] \in Int /\ DebtTermOf[c] \in Int
                             /\ e[c] \in Int /\ d[c] \in Int
    BY <1>3, <1>4
  <2> QED BY <1>5, <2>1, ActiveTrovesFinite, SumUpdate
<1>7. /\ L.ETH \in Nat /\ L.ARTHDebt \in Nat /\ Troves'[b].stake \in Nat
      /\ defaultPool.ETH \in Nat /\ defaultPool.ARTHDebt \in Nat
      /\ lastError.ETH \in Nat /\ lastError.ARTHDebt \in Nat
      /\ DECIMAL_PRECISION \in Nat
  BY PrecisionAssumption DEF LedgerInv, LedgerTypeOK, PoolType
<1>8. e[b] = 0
  <2>1. e[b] = Troves'[b].stake * (L.ETH - rewardSnapshots'[b].ETH)
    BY <1>1, <1>3
  <2>2. rewardSnapshots'[b].ETH \in Nat
    BY DEF LedgerInv, LedgerTypeOK, PoolType
  <2>3. Troves'[b].stake = 0 \/ rewardSnapshots'[b].ETH = L.ETH
    BY <1>1
  <2> QED BY <1>7, <2>1, <2>2, <2>3
<1>9. SnapshotsTogether => d[b] = 0
  <2>1. d[b] = Troves'[b].stake * (L.ARTHDebt - rewardSnapshots'[b].ARTHDebt)
    BY <1>1, <1>3
  <2>2. rewardSnapshots'[b].ARTHDebt \in Nat
    BY DEF LedgerInv, LedgerTypeOK, PoolType
  <2>3. SnapshotsTogether =>
          (Troves'[b].stake = 0 \/ rewardSnapshots'[b].ARTHDebt = L.ARTHDebt)
    BY DEF OneTroveMoves
  <2> QED BY <1>7, <2>1, <2>2, <2>3
<1>10. \A u, v, k \in Nat : (u - v) * k = u * k - v * k
  OBVIOUS
<1>11. /\ (defaultPool.ETH - x) * DECIMAL_PRECISION
            = defaultPool.ETH * DECIMAL_PRECISION - x * DECIMAL_PRECISION
       /\ (defaultPool.ARTHDebt - y) * DECIMAL_PRECISION
            = defaultPool.ARTHDebt * DECIMAL_PRECISION - y * DECIMAL_PRECISION
       /\ defaultPool.ETH * DECIMAL_PRECISION \in Nat /\ x * DECIMAL_PRECISION \in Nat
       /\ defaultPool.ARTHDebt * DECIMAL_PRECISION \in Nat /\ y * DECIMAL_PRECISION \in Nat
  BY <1>1, <1>7, <1>10, NatProduct
<1>12. ETHRewardsCovered'
  <2>1. ETHTermTotal' = ETHTermTotal - ETHTermOf[b]
    BY <1>3, <1>4, <1>6, <1>8
  <2>2. defaultPool.ETH * DECIMAL_PRECISION >= lastError.ETH + ETHTermTotal
    BY DEF PoolsInv, ETHRewardsCovered
  <2>3. ETHTermOf[b] \in Nat
    BY <1>4
  <2>4. (defaultPool.ETH - x) * DECIMAL_PRECISION >= lastError.ETH + ETHTermTotal'
    BY <1>1, <1>4, <1>7, <1>11, <2>1, <2>2, <2>3
  <2> QED BY <1>1, <2>4 DEF ETHRewardsCovered
<1>13. ASSUME DebtRewardsCovered, d[b] = 0 PROVE DebtRewardsCovered'
  <2>1. DebtTermTotal' = DebtTermTotal - DebtTermOf[b]
    BY <1>3, <1>4, <1>6, <1>13
  <2>2. defaultPool.ARTHDebt * DECIMAL_PRECISION >= lastError.ARTHDebt + DebtTermTotal
    BY <1>13 DEF DebtRewardsCovered
  <2>3. DebtTermOf[b] \in Nat
    BY <1>4
  <2>4. (defaultPool.ARTHDebt - y) * DECIMAL_PRECISION >= lastError.ARTHDebt + DebtTermTotal'
    BY <1>1, <1>4, <1>7, <1>11, <2>1, <2>2, <2>3
  <2> QED BY <1>1, <2>4 DEF DebtRewardsCovered
<1>14. SnapshotsTogether => SnapshotsTogether'
  <2> SUFFICES ASSUME SnapshotsTogether, NEW c \in ActiveTroves',
                      rewardSnapshots'[c].ETH = L'.ETH
               PROVE  rewardSnapshots'[c].ARTHDebt = L'.ARTHDebt
    BY DEF SnapshotsTogether
  <2>1. CASE c = b
    BY <1>1, <2>1 DEF OneTroveMoves, ActiveTroves, IsActive
  <2>2. CASE c # b
    <3>1. c \in Borrowers \ {b} /\ Troves'[c].status = "active"
      BY <2>2 DEF ActiveTroves, IsActive
    <3>2. c \in ActiveTroves /\ rewardSnapshots'[c] = rewardSnapshots[c]
      BY <1>1, <3>1 DEF ActiveTroves, IsActive
    <3> QED BY <1>1, <3>2 DEF SnapshotsTogether
  <2> QED BY <2>1, <2>2
<1>15. SurplusIsHeld'
  BY DEF OneTroveMoves, PoolsInv, SurplusIsHeld
<1> QED BY <1>2, <1>9, <1>12, <1>13, <1>14, <1>15 DEF PoolsInv, DebtInv

------------------------------------------------------------------------------
(* The calls of the borrowers. *)

(* openTrove keeps the pools. *)
LEMMA OpenKeepsPools ==
  ASSUME LedgerInv, LedgerInv', BooksInv, PoolsInv, NEW who \in Borrowers, NEW recipient,
         Open(who, recipient)
  PROVE  PoolsInv' /\ (DebtInv => DebtInv')
<1>1. PICK value \in Collaterals, amount \in OpenAmounts, maxFee \in MaxFees,
           tag \in frontEnds \cup {NoFrontEnd} :
        OpenTrove(who, recipient, value, amount, maxFee, tag)
  BY DEF Open
<1> DEFINE fee == IF InRecoveryMode(price) THEN 0 ELSE BorrowingFee(amount)
           debt == CompositeDebt(amount + fee)
           trove == [status |-> "active", debt |-> debt, coll |-> value,
                     stake |-> NewStake(value), frontEndTag |-> tag]
<1>2. /\ ~IsActive(who)
      /\ Troves' = [Troves EXCEPT ![who] = trove]
      /\ rewardSnapshots' = [rewardSnapshots EXCEPT ![who] = L]
      /\ activePool' = [ETH |-> activePool.ETH + value,
                        ARTHDebt |-> activePool.ARTHDebt + debt]
      /\ UNCHANGED <<defaultPool, collSurplusPool, L, lastError>>
  BY <1>1 DEF OpenTrove, BOUnchanged, rewardVars
<1>3. trove.coll = value /\ trove.debt = debt
  OBVIOUS
<1> HIDE DEF trove, debt, fee
<1>4. /\ Troves \in [Borrowers -> TroveType] /\ DOMAIN rewardSnapshots = Borrowers
      /\ activePool \in PoolType /\ defaultPool \in PoolType
  BY DEF LedgerInv, LedgerTypeOK, TroveType
<1>5. /\ Troves'[who] = trove /\ rewardSnapshots'[who] = L
      /\ \A c \in Borrowers \ {who} :
           Troves'[c] = Troves[c] /\ rewardSnapshots'[c] = rewardSnapshots[c]
  BY <1>2, <1>4
<1>6. Troves[who].coll = 0 /\ Troves[who].debt = 0
  BY <1>2 DEF BooksInv, ClosedTrovesAreEmpty, ActiveTroves
<1>7. ETHTermOf[who] \in Nat /\ DebtTermOf[who] \in Nat
  BY TermsAreAmounts
<1>8. OneTroveMoves(who, 0, 0)
  <2>1. /\ 0 * DECIMAL_PRECISION <= ETHTermOf[who]
        /\ 0 * DECIMAL_PRECISION <= DebtTermOf[who]
    BY <1>7, PrecisionAssumption
  <2>2. /\ rewardSnapshots'[who].ETH = L.ETH /\ rewardSnapshots'[who].ARTHDebt = L.ARTHDebt
    BY <1>5
  <2>3. /\ activePool'.ETH = activePool.ETH - Troves[who].coll + Troves'[who].coll
        /\ activePool'.ARTHDebt = activePool.ARTHDebt - Troves[who].debt + Troves'[who].debt
    BY <1>2, <1>3, <1>4, <1>5, <1>6 DEF PoolType
  <2>4. defaultPool'.ETH = defaultPool.ETH - 0 /\ defaultPool'.ARTHDebt = defaultPool.ARTHDebt - 0
    BY <1>2, <1>4 DEF PoolType
  <2> QED BY <1>2, <1>5, <2>1, <2>2, <2>3, <2>4 DEF OneTroveMoves
<1> QED BY <1>8, OneTroveKeepsPools

(* An adjustment of an active trove keeps the pools. *)
LEMMA AdjustedKeepsPools ==
  ASSUME LedgerInv, LedgerInv', PoolsInv, NEW b \in ActiveTroves,
         NEW collDelta \in Int, NEW debtDelta \in Int, Adjusted(b, collDelta, debtDelta)
  PROVE  PoolsInv' /\ (DebtInv => DebtInv')
<1> DEFINE trove == ApplyPendingRewards(b)
<1>0. b \in Borrowers
  BY ActiveTrovesFinite
<1>1. /\ trove.coll \in Nat /\ trove.debt \in Nat
      /\ trove.movedETH \in Nat /\ trove.movedDebt \in Nat
  BY <1>0, AppliedRewardsTyped
<1>2. /\ trove.coll = Troves[b].coll + trove.movedETH
      /\ trove.debt = Troves[b].debt + trove.movedDebt
      /\ trove.movedETH * DECIMAL_PRECISION <= ETHTermOf[b]
      /\ trove.movedDebt * DECIMAL_PRECISION <= DebtTermOf[b]
      /\ trove.snapshot.ETH = L.ETH
      /\ SnapshotsTogether => trove.snapshot.ARTHDebt = L.ARTHDebt
  BY AppliedFacts
<1> DEFINE coll == trove.coll + collDelta
           debt == trove.debt + debtDelta
           stake == NewStake(coll)
<1>3. /\ Troves' = [Troves EXCEPT ![b] =
           [@ EXCEPT !.debt = debt, !.coll = coll, !.stake = stake]]
      /\ rewardSnapshots' = [rewardSnapshots EXCEPT ![b] = trove.snapshot]
      /\ activePool' = [ETH |-> activePool.ETH + trove.movedETH + collDelta,
                        ARTHDebt |-> activePool.ARTHDebt + trove.movedDebt + debtDelta]
      /\ defaultPool' = [ETH |-> defaultPool.ETH - trove.movedETH,
                         ARTHDebt |-> defaultPool.ARTHDebt - trove.movedDebt]
      /\ UNCHANGED <<collSurplusPool, L, lastError>>
  BY DEF Adjusted
<1> HIDE DEF trove
<1>4. coll = Troves[b].coll + trove.movedETH + collDelta
      /\ debt = Troves[b].debt + trove.movedDebt + debtDelta
  BY <1>2
<1> HIDE DEF coll, debt, stake
<1>5. /\ Troves \in [Borrowers -> TroveType] /\ DOMAIN rewardSnapshots = Borrowers
      /\ activePool \in PoolType /\ Troves[b].coll \in Nat /\ Troves[b].debt \in Nat
  BY <1>0 DEF LedgerInv, LedgerTypeOK, TroveType
<1>6. /\ Troves'[b].coll = coll /\ Troves'[b].debt = debt
      /\ rewardSnapshots'[b] = trove.snapshot
      /\ \A c \in Borrowers \ {b} :
           Troves'[c] = Troves[c] /\ rewardSnapshots'[c] = rewardSnapshots[c]
  BY <1>0, <1>3, <1>5 DEF TroveType
<1>7. OneTroveMoves(b, trove.movedETH, trove.movedDebt)
  <2>1. /\ rewardSnapshots'[b].ETH = L.ETH
        /\ SnapshotsTogether => rewardSnapshots'[b].ARTHDebt = L.ARTHDebt
    BY <1>2, <1>6
  <2>2. /\ activePool'.ETH = activePool.ETH + trove.movedETH + collDelta
        /\ activePool'.ARTHDebt = activePool.ARTHDebt + trove.movedDebt + debtDelta
        /\ defaultPool'.ETH = defaultPool.ETH - trove.movedETH
        /\ defaultPool'.ARTHDebt = defaultPool.ARTHDebt - trove.movedDebt
        /\ L' = L /\ lastError' = lastError /\ collSurplusPool' = collSurplusPool
    BY <1>3
  <2>3. activePool.ETH \in Nat /\ activePool.ARTHDebt \in Nat
    BY <1>5 DEF PoolType
  <2>4. /\ activePool'.ETH = activePool.ETH - Troves[b].coll + Troves'[b].coll
        /\ activePool'.ARTHDebt = activePool.ARTHDebt - Troves[b].debt + Troves'[b].debt
    BY <1>1, <1>4, <1>5, <1>6, <2>2, <2>3
  <2> QED BY <1>1, <1>2, <1>6, <2>1, <2>2, <2>4 DEF OneTroveMoves
<1> QED BY <1>0, <1>7, OneTroveKeepsPools

(* closeTrove keeps the pools. *)
LEMMA CloseKeepsPools ==
  ASSUME LedgerInv, LedgerInv', PoolsInv, NEW b \in Borrowers, CloseTrove(b)
  PROVE  PoolsInv' /\ (DebtInv => DebtInv')
<1> DEFINE trove == ApplyPendingRewards(b)
           closed == ClosedTrove(b, "closedByOwner")
<1>0. b \in ActiveTroves
  BY DEF CloseTrove, ActiveTroves
<1>1. /\ trove.coll \in Nat /\ trove.debt \in Nat
      /\ trove.movedETH \in Nat /\ trove.movedDebt \in Nat
  BY AppliedRewardsTyped
<1>2. /\ trove.coll = Troves[b].coll + trove.movedETH
      /\ trove.debt = Troves[b].debt + trove.movedDebt
      /\ trove.movedETH * DECIMAL_PRECISION <= ETHTermOf[b]
      /\ trove.movedDebt * DECIMAL_PRECISION <= DebtTermOf[b]
  BY <1>0, AppliedFacts
<1>3. /\ Troves' = [Troves EXCEPT ![b] = closed]
      /\ rewardSnapshots' = [rewardSnapshots EXCEPT ![b] = ZeroSnapshot]
      /\ activePool' = [ETH |-> activePool.ETH + trove.movedETH - trove.coll,
                        ARTHDebt |-> activePool.ARTHDebt + trove.movedDebt - trove.debt]
      /\ defaultPool' = [ETH |-> defaultPool.ETH - trove.movedETH,
                         ARTHDebt |-> defaultPool.ARTHDebt - trove.movedDebt]
      /\ UNCHANGED <<collSurplusPool, L, lastError>>
  BY DEF CloseTrove, BOUnchanged, rewardVars
<1>4. closed.status # "active" /\ closed.stake = 0 /\ closed.coll = 0 /\ closed.debt = 0
  BY ClosedTroveFields
<1> HIDE DEF trove, closed
<1>5. /\ Troves \in [Borrowers -> TroveType] /\ DOMAIN rewardSnapshots = Borrowers
      /\ activePool \in PoolType /\ Troves[b].coll \in Nat /\ Troves[b].debt \in Nat
  BY DEF LedgerInv, LedgerTypeOK, TroveType
<1>6. /\ Troves'[b] = closed
      /\ \A c \in Borrowers \ {b} :
           Troves'[c] = Troves[c] /\ rewardSnapshots'[c] = rewardSnapshots[c]
  BY <1>3, <1>5
<1>7. OneTroveMoves(b, trove.movedETH, trove.movedDebt)
  <2>2. /\ activePool'.ETH = activePool.ETH + trove.movedETH - trove.coll
        /\ activePool'.ARTHDebt = activePool.ARTHDebt + trove.movedDebt - trove.debt
        /\ defaultPool'.ETH = defaultPool.ETH - trove.movedETH
        /\ defaultPool'.ARTHDebt = defaultPool.ARTHDebt - trove.movedDebt
        /\ L' = L /\ lastError' = lastError /\ collSurplusPool' = collSurplusPool
    BY <1>3
  <2>3. activePool.ETH \in Nat /\ activePool.ARTHDebt \in Nat
    BY <1>5 DEF PoolType
  <2>4. /\ activePool'.ETH = activePool.ETH - Troves[b].coll + Troves'[b].coll
        /\ activePool'.ARTHDebt = activePool.ARTHDebt - Troves[b].debt + Troves'[b].debt
    BY <1>1, <1>2, <1>4, <1>5, <1>6, <2>2, <2>3
  <2> QED BY <1>1, <1>2, <1>4, <1>6, <2>2, <2>4 DEF OneTroveMoves
<1> QED BY <1>7, OneTroveKeepsPools

(* claimCollateral pays a surplus out of the pool that holds it. *)
LEMMA ClaimKeepsSurplus ==
  ASSUME LedgerInv, SurplusIsHeld, NEW b \in Borrowers, ClaimCollateral(b)
  PROVE  SurplusIsHeld'
<1> DEFINE old == collSurplusPool.balances
           new == collSurplusPool'.balances
<1>1. collSurplusPool \in [ETH : Nat, balances : [Borrowers -> Nat]]
  BY DEF LedgerInv, LedgerTypeOK
<1>2. collSurplusPool' = [collSurplusPool EXCEPT !.ETH = @ - collSurplusPool.balances[b],
                                                 !.balances = [@ EXCEPT ![b] = 0]]
  BY DEF ClaimCollateral
<1>3. /\ collSurplusPool'.ETH = collSurplusPool.ETH - old[b] /\ new = [old EXCEPT ![b] = 0]
      /\ old \in [Borrowers -> Nat] /\ collSurplusPool.ETH \in Nat
  BY <1>1, <1>2
<1>4. DOMAIN old = Borrowers /\ DOMAIN new = Borrowers
  BY <1>3
<1> HIDE DEF old, new
<1>5. SumFunctionOnSet(new, Borrowers) = SumFunctionOnSet(old, Borrowers) - old[b] + new[b]
  <2>1. /\ \A y \in Borrowers : old[y] \in Int
        /\ new[b] \in Int /\ \A y \in Borrowers \ {b} : new[y] = old[y]
    BY <1>3
  <2> QED BY <2>1, ActiveTrovesFinite, SumUpdate
<1>6. SumFunctionOnSet(old, Borrowers) = collSurplusPool.ETH
  BY <1>4 DEF SurplusIsHeld, SumFunction, old
<1>7. SumFunctionOnSet(new, Borrowers) = collSurplusPool'.ETH
  BY <1>3, <1>5, <1>6
<1> QED BY <1>4, <1>7 DEF SurplusIsHeld, SumFunction, new

------------------------------------------------------------------------------
(* The redemptions. *)

(* What a loop has recorded as surplus is what the surplus pool receives.  *)
LEMMA SurplusAdded ==
  ASSUME LedgerInv, SurplusIsHeld, NEW surplus, DOMAIN surplus = Borrowers,
         \A b \in Borrowers : surplus[b] \in Int,
         collSurplusPool' = [ETH |-> collSurplusPool.ETH + SumFunction(surplus),
                             balances |-> [b \in Borrowers |->
                               collSurplusPool.balances[b] + surplus[b]]]
  PROVE  SurplusIsHeld'
<1> DEFINE old == collSurplusPool.balances
           new == collSurplusPool'.balances
<1>1. collSurplusPool.ETH \in Nat /\ old \in [Borrowers -> Nat]
  BY DEF LedgerInv, LedgerTypeOK
<1>2. new = [b \in Borrowers |-> old[b] + surplus[b]]
      /\ collSurplusPool'.ETH = collSurplusPool.ETH + SumFunction(surplus)
  OBVIOUS
<1>3. DOMAIN old = Borrowers /\ DOMAIN new = Borrowers
  BY <1>1, <1>2
<1> HIDE DEF old, new
<1>4. SumFunctionOnSet(new, Borrowers)
        = SumFunctionOnSet(old, Borrowers) + SumFunctionOnSet(surplus, Borrowers)
  <2>1. \A b \in Borrowers : /\ old[b] \in Int /\ surplus[b] \in Int
                             /\ new[b] = old[b] + surplus[b]
    BY <1>1, <1>2
  <2> QED BY <2>1, ActiveTrovesFinite, SumPlus
<1>5. SumFunctionOnSet(old, Borrowers) = collSurplusPool.ETH
  BY <1>3 DEF SurplusIsHeld, SumFunction, old
<1>6. SumFunctionOnSet(surplus, Borrowers) = SumFunction(surplus)
  BY DEF SumFunction
<1>7. SumFunctionOnSet(new, Borrowers) = collSurplusPool'.ETH
  BY <1>2, <1>4, <1>5, <1>6
<1> QED BY <1>3, <1>7 DEF SurplusIsHeld, SumFunction, new

(* The totals after a redemption. *)
LEMMA TotalsAfterRedemption ==
  ASSUME NEW run, NEW redeemer, Redeems(run, redeemer)
  PROVE  /\ CollTotal' = SumFunctionOnSet(CollAfter(run), Borrowers)
         /\ DebtTotal' = SumFunctionOnSet(DebtAfter(run), Borrowers)
         /\ ETHTermTotal' = SumFunctionOnSet(ETHTermAfter(run), Borrowers)
         /\ DebtTermTotal' = SumFunctionOnSet(DebtTermAfter(run), Borrowers)
<1>1. /\ Troves' = [b \in Borrowers |-> TroveAfter(run, b)]
      /\ rewardSnapshots' = [b \in Borrowers |-> SnapshotAfter(run, b)]
      /\ L' = L
  BY DEF Redeems, rewardVars
<1>2. /\ CollOnly' = CollAfter(run) /\ DebtOnly' = DebtAfter(run)
  BY <1>1 DEF CollOnly, DebtOnly, CollAfter, DebtAfter
<1>3. ETHTermOf' = ETHTermAfter(run) /\ DebtTermOf' = DebtTermAfter(run)
  BY <1>1 DEF ETHTermOf, DebtTermOf, ETHTermAfter, DebtTermAfter
<1>4. /\ DOMAIN CollAfter(run) = Borrowers /\ DOMAIN DebtAfter(run) = Borrowers
      /\ DOMAIN ETHTermAfter(run) = Borrowers /\ DOMAIN DebtTermAfter(run) = Borrowers
  BY DEF CollAfter, DebtAfter, ETHTermAfter, DebtTermAfter
<1> QED
  BY <1>2, <1>3, <1>4 DEF CollTotal, DebtTotal, ETHTermTotal, DebtTermTotal, SumFunction

(* The redemptions keep the pools. *)
LEMMA RedemptionKeepsPools ==
  ASSUME LedgerInv, LedgerInv', BooksInv, PoolsInv, RedeemStep
  PROVE  PoolsInv' /\ (DebtInv => DebtInv')
<1>1. PICK run, redeemer : RedemptionBooks(run, price) /\ Redeems(run, redeemer)
  BY RedeemStepRun
<1>2. /\ run \in RedemptionRuns /\ RedemptionTotals(run) /\ RedemptionArithmetic(run)
  BY <1>1 DEF RedemptionBooks, Redeems
<1>3. /\ activePool' = [ETH |-> activePool.ETH + run.movedETH - SurplusOf(run) - run.drawn,
                        ARTHDebt |-> activePool.ARTHDebt + run.movedDebt
                                       - ReserveOf(run) - run.redeemed]
      /\ defaultPool' = [ETH |-> defaultPool.ETH - run.movedETH,
                         ARTHDebt |-> defaultPool.ARTHDebt - run.movedDebt]
      /\ collSurplusPool' = [ETH |-> collSurplusPool.ETH + SurplusOf(run),
                             balances |-> [b \in Borrowers |->
                               collSurplusPool.balances[b] + run.surplus[b]]]
      /\ L' = L /\ lastError' = lastError
  BY <1>1 DEF Redeems, rewardVars
<1>4. /\ activePool'.ETH = activePool.ETH + run.movedETH - SurplusOf(run) - run.drawn
      /\ activePool'.ARTHDebt = activePool.ARTHDebt + run.movedDebt
                                  - ReserveOf(run) - run.redeemed
      /\ defaultPool'.ETH = defaultPool.ETH - run.movedETH
      /\ defaultPool'.ARTHDebt = defaultPool.ARTHDebt - run.movedDebt
  BY <1>3
<1>5. /\ run.redeemed \in Nat /\ run.drawn \in Nat /\ run.movedETH \in Nat
      /\ run.movedDebt \in Nat /\ ReserveOf(run) \in Nat /\ SurplusOf(run) \in Nat
      /\ \A b \in Borrowers : run.surplus[b] \in Nat
  BY <1>2 DEF RedemptionArithmetic
<1>6. /\ activePool.ETH = CollTotal /\ activePool.ARTHDebt = DebtTotal
      /\ CollTotal \in Nat /\ DebtTotal \in Nat /\ ETHTermTotal \in Nat
      /\ ETHTermTotal = SumFunctionOnSet(ETHTermOf, Borrowers)
      /\ DebtTermTotal \in Nat
      /\ DebtTermTotal = SumFunctionOnSet(DebtTermOf, Borrowers)
  BY RecordedAmounts, TermTotals DEF PoolsInv, ActivePoolHolds
<1>7. /\ CollTotal' = SumFunctionOnSet(CollAfter(run), Borrowers)
      /\ DebtTotal' = SumFunctionOnSet(DebtAfter(run), Borrowers)
      /\ ETHTermTotal' = SumFunctionOnSet(ETHTermAfter(run), Borrowers)
      /\ DebtTermTotal' = SumFunctionOnSet(DebtTermAfter(run), Borrowers)
      /\ ETHTermTotal' \in Nat /\ DebtTermTotal' \in Nat
  BY <1>1, TotalsAfterRedemption, TermTotalsAfter
<1>8. CollTotal' \in Nat /\ DebtTotal' \in Nat
  <2> DEFINE c == CollOnly'
             d == DebtOnly'
  <2>1. /\ \A b \in Borrowers : c[b] \in Nat /\ d[b] \in Nat
        /\ DOMAIN c = Borrowers /\ DOMAIN d = Borrowers
    BY DEF CollOnly, DebtOnly, LedgerInv, LedgerTypeOK
  <2>2. CollTotal' = SumFunction(c) /\ DebtTotal' = SumFunction(d)
    BY DEF CollTotal, DebtTotal
  <2> HIDE DEF c, d
  <2>3. SumFunctionOnSet(c, Borrowers) \in Nat /\ SumFunctionOnSet(d, Borrowers) \in Nat
    BY <2>1, ActiveTrovesFinite, SumNat
  <2> QED BY <2>1, <2>2, <2>3 DEF SumFunction
<1>9. /\ CollTotal' + run.drawn + SurplusOf(run) = CollTotal + run.movedETH
      /\ DebtTotal' + run.redeemed + ReserveOf(run) = DebtTotal + run.movedDebt
      /\ ETHTermTotal' + run.movedETH * DECIMAL_PRECISION <= ETHTermTotal
      /\ SnapshotsTogether =>
           DebtTermTotal' + run.movedDebt * DECIMAL_PRECISION <= DebtTermTotal
  BY <1>2, <1>6, <1>7 DEF RedemptionTotals, SurplusOf
<1>10. ActivePoolHolds'
  BY <1>4, <1>5, <1>6, <1>8, <1>9 DEF ActivePoolHolds
<1>11. /\ defaultPool.ETH \in Nat /\ defaultPool.ARTHDebt \in Nat
       /\ lastError.ETH \in Nat /\ lastError.ARTHDebt \in Nat
       /\ DECIMAL_PRECISION \in Nat
  BY PrecisionAssumption DEF LedgerInv, LedgerTypeOK, PoolType
<1>12. \A u, v, k \in Nat : (u - v) * k = u * k - v * k
  OBVIOUS
<1>13. /\ (defaultPool.ETH - run.movedETH) * DECIMAL_PRECISION
            = defaultPool.ETH * DECIMAL_PRECISION - run.movedETH * DECIMAL_PRECISION
       /\ (defaultPool.ARTHDebt - run.movedDebt) * DECIMAL_PRECISION
            = defaultPool.ARTHDebt * DECIMAL_PRECISION - run.movedDebt * DECIMAL_PRECISION
       /\ defaultPool.ETH * DECIMAL_PRECISION \in Nat
       /\ run.movedETH * DECIMAL_PRECISION \in Nat
       /\ defaultPool.ARTHDebt * DECIMAL_PRECISION \in Nat
       /\ run.movedDebt * DECIMAL_PRECISION \in Nat
  BY <1>5, <1>11, <1>12, NatProduct
<1>14. ETHRewardsCovered'
  <2>1. defaultPool.ETH * DECIMAL_PRECISION >= lastError.ETH + ETHTermTotal
    BY DEF PoolsInv, ETHRewardsCovered
  <2>2. (defaultPool.ETH - run.movedETH) * DECIMAL_PRECISION >= lastError.ETH + ETHTermTotal'
    BY <1>6, <1>7, <1>9, <1>11, <1>13, <2>1
  <2> QED BY <1>3, <1>4, <2>2 DEF ETHRewardsCovered
<1>15. ASSUME DebtInv PROVE DebtRewardsCovered'
  <2>1. defaultPool.ARTHDebt * DECIMAL_PRECISION >= lastError.ARTHDebt + DebtTermTotal
    BY <1>15 DEF DebtInv, DebtRewardsCovered
  <2>2. (defaultPool.ARTHDebt - run.movedDebt) * DECIMAL_PRECISION
          >= lastError.ARTHDebt + DebtTermTotal'
    BY <1>6, <1>7, <1>9, <1>11, <1>13, <1>15, <2>1 DEF DebtInv
  <2> QED BY <1>3, <1>4, <2>2 DEF DebtRewardsCovered
<1>16. SurplusIsHeld'
  <2>1. SurplusOf(run) = SumFunction(run.surplus) /\ DOMAIN run.surplus = Borrowers
    BY <1>2 DEF SurplusOf, RedemptionRuns
  <2>2. \A b \in Borrowers : run.surplus[b] \in Int
    BY <1>5
  <2> QED BY <1>3, <2>1, <2>2, SurplusAdded DEF PoolsInv
<1>17. ASSUME SnapshotsTogether PROVE SnapshotsTogether'
  <2> SUFFICES ASSUME NEW c \in ActiveTroves', rewardSnapshots'[c].ETH = L'.ETH
               PROVE  rewardSnapshots'[c].ARTHDebt = L'.ARTHDebt
    BY DEF SnapshotsTogether
  <2>1. c \in Borrowers /\ Troves'[c].status = "active"
    BY DEF ActiveTroves, IsActive
  <2>2. /\ Troves'[c] = TroveAfter(run, c) /\ rewardSnapshots'[c] = SnapshotAfter(run, c)
    BY <1>1, <2>1 DEF Redeems
  <2>3. MinimumDebtKept
    BY DEF BooksInv
  <2>4. c \notin ClosedBy(run) /\ Troves[c].status = "active"
    BY <1>1, <2>1, <2>2, <2>3, AfterStatus
  <2>5. c \in ActiveTroves
    BY <2>1, <2>4 DEF ActiveTroves, IsActive
  <2>6. CASE c \in run.applied
    <3>1. rewardSnapshots'[c] = ApplyPendingRewards(c).snapshot
      BY <2>2, <2>4, <2>6 DEF SnapshotAfter
    <3>2. ApplyPendingRewards(c).snapshot.ARTHDebt = L.ARTHDebt
      BY <1>17, <2>5, AppliedFacts
    <3> QED BY <1>3, <3>1, <3>2
  <2>7. CASE c \notin run.applied
    <3>1. rewardSnapshots'[c] = rewardSnapshots[c]
      BY <2>2, <2>4, <2>7 DEF SnapshotAfter
    <3> QED BY <1>3, <1>17, <2>5, <3>1 DEF SnapshotsTogether
  <2> QED BY <2>6, <2>7
<1> QED BY <1>10, <1>14, <1>15, <1>16, <1>17 DEF PoolsInv, DebtInv

------------------------------------------------------------------------------
(* The liquidations. *)

(* A redistribution to the holders of T \ S: out comes into the pool, what *)
(* the troves of S have been given leaves it, and q per unit staked is     *)
(* promised to the others, with the remainder newErr kept for later.       *)
Redistributes(T, S, stake, term, after, moved, k, q, pool, out, err, newErr) ==
  /\ IsFiniteSet(T) /\ S \in SUBSET T
  /\ k \in Nat /\ q \in Nat /\ pool \in Nat /\ out \in Nat /\ err \in Nat /\ newErr \in Nat
  /\ \A x \in T : stake[x] \in Nat /\ term[x] \in Nat /\ after[x] \in Nat
  /\ \A x \in S : moved[x] \in Nat /\ moved[x] * k <= term[x] /\ after[x] = 0
  /\ \A x \in T \ S : after[x] = term[x] + stake[x] * q
  /\ pool * k >= err + SumFunctionOnSet(term, T)
  /\ out * k + err = SumFunctionOnSet(stake, T \ S) * q + newErr

(* Redistributing to the stakes: the pool that covered the rewards of all   *)
(* the troves of T still covers them, when the rewards of the closed troves *)
(* S leave it, the redistributed amount enters it, and each of the other    *)
(* stakes gains q for its share.                                            *)
LEMMA RedistributionCovers ==
  ASSUME NEW T, NEW S, NEW stake, NEW term, NEW after, NEW moved, NEW k, NEW q,
         NEW pool, NEW out, NEW err, NEW newErr,
         Redistributes(T, S, stake, term, after, moved, k, q, pool, out, err, newErr)
  PROVE  (pool - SumFunctionOnSet(moved, S) + out) * k
           >= newErr + SumFunctionOnSet(after, T)
<1> DEFINE R == T \ S
           given == [x \in S |-> moved[x] * k]
           gained == [x \in R |-> stake[x] * q]
<1>1. /\ S \in SUBSET T /\ R \in SUBSET T /\ T \ R = S
      /\ k \in Nat /\ q \in Nat /\ pool \in Nat /\ out \in Nat /\ err \in Nat /\ newErr \in Nat
      /\ \A x \in T : stake[x] \in Nat /\ term[x] \in Nat /\ after[x] \in Nat
      /\ \A x \in S : moved[x] \in Nat /\ moved[x] * k <= term[x] /\ after[x] = 0
      /\ \A x \in R : after[x] = term[x] + stake[x] * q
      /\ pool * k >= err + SumFunctionOnSet(term, T)
      /\ out * k + err = SumFunctionOnSet(stake, R) * q + newErr
  BY DEF Redistributes
<1>2. IsFiniteSet(T) /\ IsFiniteSet(S) /\ IsFiniteSet(R)
  BY FS_Subset DEF Redistributes
<1>3. \A x \in S : given[x] = moved[x] * k
  OBVIOUS
<1>4. \A x \in R : gained[x] = stake[x] * q
  OBVIOUS
<1> HIDE DEF R, given, gained
<1>5. /\ \A x \in S : given[x] \in Nat /\ moved[x] \in Nat /\ given[x] <= term[x]
      /\ \A x \in R : gained[x] \in Nat /\ stake[x] \in Nat
      /\ \A x \in T : term[x] \in Int /\ after[x] \in Int
      /\ \A x \in S : term[x] \in Int
      /\ \A x \in R : term[x] \in Int /\ after[x] \in Int
  BY <1>1, <1>3, <1>4, NatProduct
<1> DEFINE M == SumFunctionOnSet(moved, S)
           G == SumFunctionOnSet(given, S)
           TS == SumFunctionOnSet(term, S)
           TR == SumFunctionOnSet(term, R)
           A == SumFunctionOnSet(after, T)
           AR == SumFunctionOnSet(after, R)
           W == SumFunctionOnSet(stake, R)
           Q == SumFunctionOnSet(gained, R)
<1>6. M \in Nat /\ G \in Nat /\ TS \in Int /\ TR \in Int /\ W \in Nat /\ Q \in Nat
  BY <1>2, <1>5, SumNat, SumInt
<1>7. G = M * k
  <2>1. \A x \in S : moved[x] \in Int /\ given[x] = moved[x] * k
    BY <1>3, <1>5
  <2>2. k \in Int
    BY <1>1
  <2> QED BY <1>2, <2>1, <2>2, SumScale
<1>8. G <= TS
  <2>1. \A x \in S : given[x] \in Int /\ term[x] \in Int /\ given[x] <= term[x]
    BY <1>5
  <2> QED BY <1>2, <2>1, SumMonotone
<1>9. SumFunctionOnSet(term, T) = TS + TR
  BY <1>1, <1>2, <1>5, SumSplit DEF R
<1>10. A = AR
  BY <1>1, <1>2, <1>5, SumSupport
<1>11. Q = W * q
  <2>1. \A x \in R : stake[x] \in Int /\ gained[x] = stake[x] * q
    BY <1>4, <1>5
  <2>2. q \in Int
    BY <1>1
  <2> QED BY <1>2, <2>1, <2>2, SumScale
<1>12. AR = TR + Q
  <2>1. \A x \in R : /\ term[x] \in Int /\ gained[x] \in Int
                     /\ after[x] = term[x] + gained[x]
    BY <1>1, <1>4, <1>5
  <2> QED BY <1>2, <2>1, SumPlus
<1>13. /\ pool * k >= err + TS + TR
       /\ out * k + err = W * q + newErr
  BY <1>1, <1>6, <1>9
<1>14. (pool - M + out) * k = pool * k - M * k + out * k
  <2>1. \A u, v, w, z \in Nat : (u - v + w) * z = u * z - v * z + w * z
    OBVIOUS
  <2> HIDE DEF M
  <2> QED BY <1>1, <1>6, <2>1
<1>15. pool * k \in Nat /\ M * k \in Nat /\ out * k \in Nat /\ W * q \in Nat
  BY <1>1, <1>6, NatProduct
<1> DEFINE pk == pool * k
           mk == M * k
           ok == out * k
           wq == W * q
<1>16. pk - mk + ok >= newErr + A
  <2>1. /\ pk \in Nat /\ mk \in Nat /\ ok \in Nat /\ wq \in Nat
        /\ G = mk /\ Q = wq /\ pk >= err + TS + TR /\ ok + err = wq + newErr
    BY <1>7, <1>11, <1>13, <1>15
  <2> HIDE DEF pk, mk, ok, wq, M, G, TS, TR, A, AR, W, Q
  <2> QED BY <1>1, <1>6, <1>8, <1>10, <1>12, <2>1
<1> QED BY <1>14, <1>16

(* What a loop has liquidated is what the troves recorded and the rewards  *)
(* that were pending on them.                                              *)
LEMMA LiquidatedAmounts ==
  ASSUME LedgerInv, NEW recovery, NEW p, NEW run, RunBooks(run, recovery, p)
  PROVE  /\ Closed(run) \in SUBSET ActiveTroves /\ Closed(run) \in SUBSET Borrowers
         /\ run.movedETH = SumFunctionOnSet(ETHRewardOf, Closed(run))
         /\ run.movedDebt = SumFunctionOnSet(DebtRewardOf, Closed(run))
         /\ run.stakes = SumFunctionOnSet(StakeOf, Closed(run))
         /\ run.totals.entireTroveColl
              = SumFunctionOnSet(CollOnly, Closed(run)) + run.movedETH
         /\ run.totals.entireTroveDebt
              = SumFunctionOnSet(DebtOnly, Closed(run)) + run.movedDebt
         /\ SumFunctionOnSet(CollOnly, Closed(run)) \in Nat
         /\ SumFunctionOnSet(DebtOnly, Closed(run)) \in Nat
<1> DEFINE S == Closed(run)
<1>1. S \in SUBSET ActiveTroves /\ S \in SUBSET Borrowers /\ IsFiniteSet(S)
  <2>1. run.closed \in Seq(ActiveTroves)
    BY DEF RunBooks, LiquidationRuns
  <2> QED BY <2>1, ListFacts, ActiveTrovesFinite DEF Closed
<1>2. /\ run.totals.entireTroveDebt = SumFunctionOnSet(DebtOf, S)
      /\ run.totals.entireTroveColl = SumFunctionOnSet(CollOf, S)
      /\ run.movedETH = SumFunctionOnSet(ETHRewardOf, S)
      /\ run.movedDebt = SumFunctionOnSet(DebtRewardOf, S)
      /\ run.stakes = SumFunctionOnSet(StakeOf, S)
  BY DEF RunBooks, TotalsAddUp
<1> HIDE DEF S
<1>3. ASSUME NEW b \in S
      PROVE  /\ CollOnly[b] \in Nat /\ ETHRewardOf[b] \in Nat
             /\ DebtOnly[b] \in Nat /\ DebtRewardOf[b] \in Nat
             /\ CollOf[b] = CollOnly[b] + ETHRewardOf[b]
             /\ DebtOf[b] = DebtOnly[b] + DebtRewardOf[b]
  <2>1. b \in Borrowers
    BY <1>1
  <2>2. PendingETHReward(b) \in Nat /\ PendingARTHDebtReward(b) \in Nat
    BY <2>1, PendingRewardsAreAmounts
  <2>3. CollOnly[b] \in Nat /\ DebtOnly[b] \in Nat
        /\ CollOnly[b] = Troves[b].coll /\ DebtOnly[b] = Troves[b].debt
    BY <2>1, RecordedAmounts
  <2> QED BY <2>1, <2>2, <2>3 DEF CollOf, DebtOf, ETHRewardOf, DebtRewardOf, EntireColl, EntireDebt
<1>4. SumFunctionOnSet(CollOf, S)
        = SumFunctionOnSet(CollOnly, S) + SumFunctionOnSet(ETHRewardOf, S)
  <2>1. \A b \in S : /\ CollOnly[b] \in Int /\ ETHRewardOf[b] \in Int
                     /\ CollOf[b] = CollOnly[b] + ETHRewardOf[b]
    BY <1>3
  <2> QED BY <1>1, <2>1, SumPlus
<1>5. SumFunctionOnSet(DebtOf, S)
        = SumFunctionOnSet(DebtOnly, S) + SumFunctionOnSet(DebtRewardOf, S)
  <2>1. \A b \in S : /\ DebtOnly[b] \in Int /\ DebtRewardOf[b] \in Int
                     /\ DebtOf[b] = DebtOnly[b] + DebtRewardOf[b]
    BY <1>3
  <2> QED BY <1>1, <2>1, SumPlus
<1>6. SumFunctionOnSet(CollOnly, S) \in Nat /\ SumFunctionOnSet(DebtOnly, S) \in Nat
  BY <1>1, <1>3, SumNat
<1> QED BY <1>1, <1>2, <1>4, <1>5, <1>6 DEF S

(* The active pool is rid of everything that was liquidated. *)
LEMMA LiquidationKeepsActivePool ==
  ASSUME LedgerInv, LedgerInv', PoolsInv, NEW recovery, NEW p, NEW run,
         RunBooks(run, recovery, p), NEW liquidator, ApplyLiquidation(run, liquidator)
  PROVE  ActivePoolHolds' /\ SurplusIsHeld'
<1> DEFINE t == run.totals
           S == Closed(run)
<1>1. /\ S \in SUBSET Borrowers
      /\ t.entireTroveColl = SumFunctionOnSet(CollOnly, S) + run.movedETH
      /\ t.entireTroveDebt = SumFunctionOnSet(DebtOnly, S) + run.movedDebt
      /\ SumFunctionOnSet(CollOnly, S) \in Nat /\ SumFunctionOnSet(DebtOnly, S) \in Nat
  BY LiquidatedAmounts
<1>2. /\ activePool' = ActivePoolAfter(run)
      /\ collSurplusPool' = [ETH |-> collSurplusPool.ETH + t.collSurplus,
                             balances |-> [b \in Borrowers |->
                               collSurplusPool.balances[b] + run.surplus[b]]]
  BY DEF ApplyLiquidation
<1>3. /\ t \in LiquidationTotals /\ SplitsExactly(t)
      /\ run.movedETH \in Nat /\ run.movedDebt \in Nat
      /\ run.surplus \in [Borrowers -> Nat] /\ t.collSurplus = SumFunction(run.surplus)
  BY DEF RunBooks, LiquidationRuns, TotalsAddUp
<1>4. /\ CollTotal' = CollTotal - SumFunctionOnSet(CollOnly, S)
      /\ DebtTotal' = DebtTotal - SumFunctionOnSet(DebtOnly, S)
  <2>1. Closes(run.closed) /\ S = ToSet(run.closed)
    BY LiquidationCloses DEF Closed
  <2>2. /\ \A c \in S : Troves'[c].stake = 0 /\ Troves'[c].coll = 0 /\ Troves'[c].debt = 0
        /\ \A c \in Borrowers \ S : Troves'[c] = Troves[c]
    BY <2>1 DEF Closes
  <2> HIDE DEF S
  <2> QED BY <1>1, <2>2, TotalsOfClosing
<1>5. /\ activePool'.ETH = activePool.ETH + run.movedETH - CollToSP(t)
                             - CollToRedistribute(t) - t.collSurplus - t.collGasCompensation
      /\ activePool'.ARTHDebt = activePool.ARTHDebt + run.movedDebt
                                  - t.debtToOffset - t.debtToRedistribute
  BY <1>2 DEF ActivePoolAfter
<1> HIDE DEF t, S
<1>6. /\ CollToSP(t) = t.collToSendToSP /\ CollToRedistribute(t) = t.collToRedistribute
  BY <1>3 DEF SplitsExactly, CollToSP, CollToRedistribute
<1>7. /\ t.entireTroveColl \in Nat /\ t.entireTroveDebt \in Nat /\ t.debtToOffset \in Nat
      /\ t.debtToRedistribute \in Nat /\ t.collToSendToSP \in Nat
      /\ t.collToRedistribute \in Nat /\ t.collSurplus \in Nat
      /\ t.collGasCompensation \in Nat
      /\ t.debtToOffset + t.debtToRedistribute = t.entireTroveDebt
      /\ t.collGasCompensation + t.collToSendToSP + t.collToRedistribute + t.collSurplus
           = t.entireTroveColl
  BY <1>3 DEF SplitsExactly, LiquidationTotals
<1>8. /\ activePool.ETH = CollTotal /\ activePool.ARTHDebt = DebtTotal
      /\ CollTotal \in Nat /\ DebtTotal \in Nat
  BY RecordedAmounts DEF PoolsInv, ActivePoolHolds
<1>9. activePool'.ETH = CollTotal'
  <2>1. activePool'.ETH = activePool.ETH + run.movedETH - t.collToSendToSP
                            - t.collToRedistribute - t.collSurplus - t.collGasCompensation
    BY <1>5, <1>6
  <2> DEFINE ap == activePool.ETH
             new == activePool'.ETH
             m == run.movedETH
             sp == t.collToSendToSP
             re == t.collToRedistribute
             su == t.collSurplus
             ga == t.collGasCompensation
             all == t.entireTroveColl
             cs == SumFunctionOnSet(CollOnly, S)
  <2>2. /\ new = ap + m - sp - re - su - ga /\ ga + sp + re + su = all /\ all = cs + m
        /\ CollTotal' = CollTotal - cs /\ ap = CollTotal
    BY <1>1, <1>4, <1>7, <1>8, <2>1
  <2>3. /\ m \in Nat /\ sp \in Nat /\ re \in Nat /\ su \in Nat /\ ga \in Nat
        /\ all \in Nat /\ cs \in Nat /\ CollTotal \in Nat
    BY <1>1, <1>3, <1>7, <1>8
  <2> HIDE DEF ap, new, m, sp, re, su, ga, all, cs
  <2>4. new = CollTotal'
    BY <2>2, <2>3
  <2> QED BY <2>4 DEF new
<1>10. activePool'.ARTHDebt = DebtTotal'
  BY <1>1, <1>3, <1>4, <1>5, <1>7, <1>8
<1>11. SurplusIsHeld'
  <2>1. DOMAIN run.surplus = Borrowers /\ \A b \in Borrowers : run.surplus[b] \in Int
    BY <1>3
  <2> QED BY <1>2, <1>3, <2>1, SurplusAdded DEF PoolsInv
<1> QED BY <1>9, <1>10, <1>11 DEF ActivePoolHolds

(* The rewards per unit staked that a redistribution adds. *)
AddedRewards == [ETH |-> L'.ETH - L.ETH, ARTHDebt |-> L'.ARTHDebt - L.ARTHDebt]

(* _redistributeDebtAndColl divides by the stakes that remain, with the *)
(* remainder carried to the next redistribution.                        *)
LEMMA RedistributionDivides ==
  ASSUME LedgerInv, LedgerInv', BooksInv, NEW recovery, NEW p, NEW run,
         RunBooks(run, recovery, p), NEW liquidator, ApplyLiquidation(run, liquidator)
  PROVE  LET t == run.totals
             stakes == totalStakes - run.stakes
         IN  /\ AddedRewards.ETH \in Nat /\ AddedRewards.ARTHDebt \in Nat
             /\ L'.ETH = L.ETH + AddedRewards.ETH
             /\ L'.ARTHDebt = L.ARTHDebt + AddedRewards.ARTHDebt
             /\ t.collToRedistribute * DECIMAL_PRECISION + lastError.ETH
                  = stakes * AddedRewards.ETH + lastError'.ETH
             /\ t.debtToRedistribute * DECIMAL_PRECISION + lastError.ARTHDebt
                  = stakes * AddedRewards.ARTHDebt + lastError'.ARTHDebt
<1> DEFINE t == run.totals
           stakes == totalStakes - run.stakes
           qE == AddedRewards.ETH
           qD == AddedRewards.ARTHDebt
           nE == t.collToRedistribute * DECIMAL_PRECISION + lastError.ETH
           nD == t.debtToRedistribute * DECIMAL_PRECISION + lastError.ARTHDebt
<1>1. /\ Redistribute(run) /\ run.stakes <= totalStakes
      /\ t.debtToRedistribute > 0 => run.stakes < totalStakes
  BY DEF ApplyLiquidation, LiquidationArithmetic
<1>2. /\ t.debtToRedistribute \in Nat /\ t.collToRedistribute \in Nat
      /\ t.debtToRedistribute = 0 => t.collToRedistribute = 0
      /\ run.stakes \in Nat
  BY DEF RunBooks, LiquidationRuns, LiquidationTotals, SplitsExactly
<1>3. /\ L.ETH \in Nat /\ L.ARTHDebt \in Nat /\ L'.ETH \in Nat /\ L'.ARTHDebt \in Nat
      /\ lastError.ETH \in Nat /\ lastError.ARTHDebt \in Nat
      /\ totalStakes \in Nat /\ DECIMAL_PRECISION \in Nat
  BY PrecisionAssumption DEF LedgerInv, LedgerTypeOK, PoolType
<1>4. nE \in Nat /\ nD \in Nat
  BY <1>2, <1>3, NatProduct
<1>5. qE = L'.ETH - L.ETH /\ qD = L'.ARTHDebt - L.ARTHDebt
  BY DEF AddedRewards
<1>6. CASE t.debtToRedistribute = 0
  <2>1. L' = L /\ lastError' = lastError
    BY <1>1, <1>6 DEF Redistribute
  <2>2. qE = 0 /\ qD = 0
    BY <1>3, <1>5, <2>1
  <2>3. nE = lastError.ETH /\ nD = lastError.ARTHDebt
    <3>1. t.collToRedistribute = 0 /\ t.debtToRedistribute = 0
      BY <1>2, <1>6
    <3>2. 0 * DECIMAL_PRECISION = 0
      BY <1>3
    <3> QED BY <1>3, <3>1, <3>2
  <2>4. stakes \in Nat
    BY <1>1, <1>2, <1>3
  <2>5. nE = stakes * qE + lastError'.ETH /\ nD = stakes * qD + lastError'.ARTHDebt
    <3> HIDE DEF stakes, qE, qD, nE, nD
    <3> QED BY <1>3, <2>1, <2>2, <2>3, <2>4
  <2> QED BY <1>3, <1>5, <2>2, <2>5, <2>1
<1>7. CASE t.debtToRedistribute # 0
  <2>1. stakes \in Nat \ {0}
    BY <1>1, <1>2, <1>3, <1>7
  <2>2. /\ L' = [ETH |-> L.ETH + nE \div stakes, ARTHDebt |-> L.ARTHDebt + nD \div stakes]
        /\ lastError' = [ETH |-> nE % stakes, ARTHDebt |-> nD % stakes]
    BY <1>1, <1>7 DEF Redistribute, Numerator
  <2> HIDE DEF nE, nD, stakes
  <2>3. nE \div stakes \in Nat /\ nD \div stakes \in Nat
    BY <1>4, <2>1, NatQuotient
  <2>4. qE = nE \div stakes /\ qD = nD \div stakes
    BY <1>3, <1>5, <2>2, <2>3
  <2>5. \A x \in Nat, y \in Nat \ {0} : x = y * (x \div y) + (x % y)
    OBVIOUS
  <2>6. nE = stakes * qE + lastError'.ETH /\ nD = stakes * qD + lastError'.ARTHDebt
    BY <1>4, <2>1, <2>2, <2>4, <2>5
  <2>7. L'.ETH = L.ETH + qE /\ L'.ARTHDebt = L.ARTHDebt + qD
    BY <2>2, <2>4
  <2> QED BY <2>3, <2>4, <2>6, <2>7 DEF nE, nD, stakes
<1> QED BY <1>6, <1>7

(* A pending reward is the trove's term in whole units. *)
LEMMA RewardsAreFloors ==
  ASSUME LedgerInv, NEW b \in ActiveTroves
  PROVE  /\ PendingETHReward(b) \in Nat /\ PendingARTHDebtReward(b) \in Nat
         /\ PendingETHReward(b) * DECIMAL_PRECISION <= ETHTermOf[b]
         /\ PendingARTHDebtReward(b) * DECIMAL_PRECISION <= DebtTermOf[b]
<1>1. b \in Borrowers /\ IsActive(b)
  BY DEF ActiveTroves
<1>2. /\ ETHTermOf[b] = Troves[b].stake * (L.ETH - rewardSnapshots[b].ETH)
      /\ DebtTermOf[b] = Troves[b].stake * (L.ARTHDebt - rewardSnapshots[b].ARTHDebt)
      /\ ETHTermOf[b] \in Nat /\ DebtTermOf[b] \in Nat
  BY <1>1, TermsAreAmounts
<1>3. /\ PendingETHReward(b) = ETHTermOf[b] \div DECIMAL_PRECISION
      /\ PendingARTHDebtReward(b) = DebtTermOf[b] \div DECIMAL_PRECISION
  BY <1>1, <1>2 DEF PendingETHReward, PendingARTHDebtReward
<1>4. DECIMAL_PRECISION \in Nat \ {0}
  BY PrecisionAssumption
<1> QED
  BY <1>1, <1>2, <1>3, <1>4, FloorQuotient, PendingRewardsAreAmounts

(* What a liquidation does to the terms of the troves. *)
LEMMA TermsAfterLiquidation ==
  ASSUME LedgerInv, LedgerInv', NEW run, Closed(run) \in SUBSET ActiveTroves,
         NEW liquidator, ApplyLiquidation(run, liquidator),
         NEW e \in Nat, NEW d \in Nat, L'.ETH = L.ETH + e, L'.ARTHDebt = L.ARTHDebt + d
  PROVE  /\ \A b \in Closed(run) : ETHTermOf'[b] = 0 /\ DebtTermOf'[b] = 0
         /\ \A b \in Borrowers \ Closed(run) :
              /\ ETHTermOf'[b] = ETHTermOf[b] + StakeOf[b] * e
              /\ DebtTermOf'[b] = DebtTermOf[b] + StakeOf[b] * d
<1> DEFINE x == ETHTermOf'
           y == DebtTermOf'
<1>1. \A b \in Borrowers :
        /\ x[b] = Troves'[b].stake * (L'.ETH - rewardSnapshots'[b].ETH)
        /\ y[b] = Troves'[b].stake * (L'.ARTHDebt - rewardSnapshots'[b].ARTHDebt)
  BY TermTotalsAfter
<1>2. /\ Troves' = [b \in Borrowers |->
           IF b \in Closed(run) THEN ClosedTrove(b, "closedByLiquidation") ELSE Troves[b]]
      /\ rewardSnapshots' = [b \in Borrowers |->
           IF b \in Closed(run) THEN ZeroSnapshot ELSE rewardSnapshots[b]]
  BY DEF ApplyLiquidation
<1> HIDE DEF x, y
<1>3. ASSUME NEW b \in Closed(run) PROVE x[b] = 0 /\ y[b] = 0
  <2>1. b \in Borrowers
    BY ActiveTrovesFinite
  <2>2. Troves'[b].stake = 0
    BY <1>2, <2>1, ClosedTroveFields
  <2>3. /\ L'.ETH - rewardSnapshots'[b].ETH \in Int
        /\ L'.ARTHDebt - rewardSnapshots'[b].ARTHDebt \in Int
    BY <2>1 DEF LedgerInv, LedgerTypeOK, PoolType
  <2>4. \A u \in Int : 0 * u = 0
    OBVIOUS
  <2> QED BY <1>1, <2>1, <2>2, <2>3, <2>4
<1>4. ASSUME NEW b \in Borrowers \ Closed(run)
      PROVE  x[b] = ETHTermOf[b] + StakeOf[b] * e /\ y[b] = DebtTermOf[b] + StakeOf[b] * d
  <2>1. Troves'[b] = Troves[b] /\ rewardSnapshots'[b] = rewardSnapshots[b]
    BY <1>2
  <2> DEFINE s == Troves[b].stake
             u == rewardSnapshots[b].ETH
             v == rewardSnapshots[b].ARTHDebt
  <2>2. /\ s \in Nat /\ u \in Nat /\ v \in Nat /\ L.ETH \in Nat /\ L.ARTHDebt \in Nat
    BY DEF LedgerInv, LedgerTypeOK, PoolType
  <2>3. /\ x[b] = s * (L.ETH + e - u) /\ y[b] = s * (L.ARTHDebt + d - v)
    <3>1. /\ x[b] = Troves'[b].stake * (L'.ETH - rewardSnapshots'[b].ETH)
          /\ y[b] = Troves'[b].stake * (L'.ARTHDebt - rewardSnapshots'[b].ARTHDebt)
      BY <1>1
    <3>2. /\ Troves'[b].stake = s /\ rewardSnapshots'[b].ETH = u
          /\ rewardSnapshots'[b].ARTHDebt = v
      BY <2>1
    <3>3. L'.ETH = L.ETH + e /\ L'.ARTHDebt = L.ARTHDebt + d
      OBVIOUS
    <3> DEFINE gE == L'.ETH - rewardSnapshots'[b].ETH
               gD == L'.ARTHDebt - rewardSnapshots'[b].ARTHDebt
               st == Troves'[b].stake
    <3>4. x[b] = st * gE /\ y[b] = st * gD
      BY <3>1
    <3>5. st = s
      BY <3>2
    <3> HIDE DEF s, u, v
    <3>6. gE = L.ETH + e - u
      BY <2>2, <3>2, <3>3
    <3>7. gD = L.ARTHDebt + d - v
      BY <2>2, <3>2, <3>3
    <3> HIDE DEF gE, gD, st
    <3> QED BY <3>4, <3>5, <3>6, <3>7
  <2>4. /\ ETHTermOf[b] = s * (L.ETH - u) /\ DebtTermOf[b] = s * (L.ARTHDebt - v)
        /\ StakeOf[b] = s
    BY TermsAreAmounts, RecordedAmounts
  <2> HIDE DEF s, u, v
  <2>5. \A l, g, k, n \in Nat : n * (l + g - k) = n * (l - k) + n * g
    OBVIOUS
  <2> QED BY <2>2, <2>3, <2>4, <2>5
<1> QED BY <1>3, <1>4 DEF x, y

(* A liquidation keeps the rewards covered. *)
LEMMA LiquidationKeepsRewards ==
  ASSUME LedgerInv, LedgerInv', BooksInv, PoolsInv, NEW recovery, NEW p, NEW run,
         RunBooks(run, recovery, p), NEW liquidator, ApplyLiquidation(run, liquidator)
  PROVE  ETHRewardsCovered' /\ (DebtRewardsCovered => DebtRewardsCovered')
<1> DEFINE t == run.totals
           S == Closed(run)
           R == Borrowers \ S
           e == AddedRewards.ETH
           d == AddedRewards.ARTHDebt
           x == ETHTermOf'
           y == DebtTermOf'
<1>1. /\ S \in SUBSET ActiveTroves /\ S \in SUBSET Borrowers
      /\ run.movedETH = SumFunctionOnSet(ETHRewardOf, S)
      /\ run.movedDebt = SumFunctionOnSet(DebtRewardOf, S)
      /\ run.stakes = SumFunctionOnSet(StakeOf, S)
  BY LiquidatedAmounts
<1>2. /\ e \in Nat /\ d \in Nat
      /\ L'.ETH = L.ETH + e /\ L'.ARTHDebt = L.ARTHDebt + d
      /\ t.collToRedistribute * DECIMAL_PRECISION + lastError.ETH
           = (totalStakes - run.stakes) * e + lastError'.ETH
      /\ t.debtToRedistribute * DECIMAL_PRECISION + lastError.ARTHDebt
           = (totalStakes - run.stakes) * d + lastError'.ARTHDebt
  BY RedistributionDivides
<1>3. /\ \A b \in S : x[b] = 0 /\ y[b] = 0
      /\ \A b \in R : /\ x[b] = ETHTermOf[b] + StakeOf[b] * e
                      /\ y[b] = DebtTermOf[b] + StakeOf[b] * d
  <2> HIDE DEF e, d
  <2> QED BY <1>1, <1>2, TermsAfterLiquidation
<1>4. /\ ETHTermTotal' = SumFunctionOnSet(x, Borrowers)
      /\ DebtTermTotal' = SumFunctionOnSet(y, Borrowers)
      /\ \A b \in Borrowers : x[b] \in Nat /\ y[b] \in Nat
  BY TermTotalsAfter
<1>5. /\ defaultPool'.ETH = defaultPool.ETH - run.movedETH + CollToRedistribute(t)
      /\ defaultPool'.ARTHDebt = defaultPool.ARTHDebt - run.movedDebt + t.debtToRedistribute
  BY DEF ApplyLiquidation, DefaultPoolAfter
<1>6. /\ t.collToRedistribute \in Nat /\ t.debtToRedistribute \in Nat
      /\ CollToRedistribute(t) = t.collToRedistribute
  BY DEF RunBooks, LiquidationRuns, LiquidationTotals, SplitsExactly, CollToRedistribute
<1> HIDE DEF t, S, e, d, x, y
<1>7. SumFunctionOnSet(StakeOf, R) = totalStakes - run.stakes
  <2>1. /\ totalStakes = SumFunctionOnSet(StakeOf, Borrowers) /\ totalStakes \in Nat
        /\ \A b \in Borrowers : StakeOf[b] \in Int
    BY StakesAddUpIs, RecordedAmounts DEF BooksInv
  <2>2. SumFunctionOnSet(StakeOf, Borrowers)
          = SumFunctionOnSet(StakeOf, S) + SumFunctionOnSet(StakeOf, R)
    BY <1>1, <2>1, ActiveTrovesFinite, SumSplit
  <2>3. SumFunctionOnSet(StakeOf, R) \in Int /\ SumFunctionOnSet(StakeOf, S) \in Int
    BY <1>1, <2>1, ActiveTrovesFinite, SumInt
  <2> QED BY <1>1, <2>1, <2>2, <2>3
<1>8. /\ IsFiniteSet(Borrowers) /\ DECIMAL_PRECISION \in Nat
      /\ defaultPool.ETH \in Nat /\ defaultPool.ARTHDebt \in Nat
      /\ lastError.ETH \in Nat /\ lastError.ARTHDebt \in Nat
      /\ lastError'.ETH \in Nat /\ lastError'.ARTHDebt \in Nat
  BY ActiveTrovesFinite, PrecisionAssumption DEF LedgerInv, LedgerTypeOK, PoolType
<1>9. \A b \in Borrowers : /\ StakeOf[b] \in Nat /\ ETHTermOf[b] \in Nat
                           /\ DebtTermOf[b] \in Nat
  BY RecordedAmounts, TermsAreAmounts
<1>10. \A b \in S : /\ ETHRewardOf[b] \in Nat /\ DebtRewardOf[b] \in Nat
                    /\ ETHRewardOf[b] * DECIMAL_PRECISION <= ETHTermOf[b]
                    /\ DebtRewardOf[b] * DECIMAL_PRECISION <= DebtTermOf[b]
  <2> TAKE b \in S
  <2>1. b \in ActiveTroves /\ b \in Borrowers
    BY <1>1
  <2> QED BY <2>1, RewardsAreFloors DEF ETHRewardOf, DebtRewardOf
<1>11. ETHRewardsCovered'
  <2>1. defaultPool.ETH * DECIMAL_PRECISION
          >= lastError.ETH + SumFunctionOnSet(ETHTermOf, Borrowers)
    BY TermTotals DEF PoolsInv, ETHRewardsCovered
  <2>2. Redistributes(Borrowers, S, StakeOf, ETHTermOf, x, ETHRewardOf, DECIMAL_PRECISION,
                      e, defaultPool.ETH, t.collToRedistribute, lastError.ETH, lastError'.ETH)
    BY <1>1, <1>2, <1>3, <1>4, <1>6, <1>7, <1>8, <1>9, <1>10, <2>1 DEF Redistributes
  <2>3. (defaultPool.ETH - SumFunctionOnSet(ETHRewardOf, S) + t.collToRedistribute)
          * DECIMAL_PRECISION >= lastError'.ETH + SumFunctionOnSet(x, Borrowers)
    BY <2>2, RedistributionCovers
  <2> QED BY <1>1, <1>4, <1>5, <1>6, <2>3 DEF ETHRewardsCovered
<1>12. ASSUME DebtRewardsCovered PROVE DebtRewardsCovered'
  <2>1. defaultPool.ARTHDebt * DECIMAL_PRECISION
          >= lastError.ARTHDebt + SumFunctionOnSet(DebtTermOf, Borrowers)
    BY <1>12, TermTotals DEF DebtRewardsCovered
  <2>2. Redistributes(Borrowers, S, StakeOf, DebtTermOf, y, DebtRewardOf, DECIMAL_PRECISION,
                      d, defaultPool.ARTHDebt, t.debtToRedistribute, lastError.ARTHDebt,
                      lastError'.ARTHDebt)
    BY <1>1, <1>2, <1>3, <1>4, <1>6, <1>7, <1>8, <1>9, <1>10, <2>1 DEF Redistributes
  <2>3. (defaultPool.ARTHDebt - SumFunctionOnSet(DebtRewardOf, S) + t.debtToRedistribute)
          * DECIMAL_PRECISION >= lastError'.ARTHDebt + SumFunctionOnSet(y, Borrowers)
    BY <2>2, RedistributionCovers
  <2> QED BY <1>1, <1>4, <1>5, <2>3 DEF DebtRewardsCovered
<1> QED BY <1>11, <1>12

(* A step after which the rewards in debt have grown, but not those in ETH,*)
(* leaves troves whose rewards hasPendingRewards does not see.             *)
MovesBoth == L.ARTHDebt < L'.ARTHDebt => L.ETH < L'.ETH

(* The liquidations keep the pools. *)
LEMMA LiquidationKeepsPools ==
  ASSUME LedgerInv, LedgerInv', BooksInv, PoolsInv, LiquidateStep
  PROVE  PoolsInv' /\ (DebtInv /\ MovesBoth => DebtInv')
<1>1. PICK run, liquidator : /\ RunInv(run, InRecoveryMode(price), price)
                             /\ ApplyLiquidation(run, liquidator)
  BY LiquidateStepRun
<1>2. RunBooks(run, InRecoveryMode(price), price)
  BY <1>1 DEF RunInv
<1>3. ActivePoolHolds' /\ SurplusIsHeld'
  BY <1>1, <1>2, LiquidationKeepsActivePool
<1>4. ETHRewardsCovered' /\ (DebtRewardsCovered => DebtRewardsCovered')
  BY <1>1, <1>2, LiquidationKeepsRewards
<1>5. ASSUME SnapshotsTogether, MovesBoth PROVE SnapshotsTogether'
  <2> SUFFICES ASSUME NEW c \in ActiveTroves', rewardSnapshots'[c].ETH = L'.ETH
               PROVE  rewardSnapshots'[c].ARTHDebt = L'.ARTHDebt
    BY DEF SnapshotsTogether
  <2>1. c \in Borrowers /\ Troves'[c].status = "active"
    BY DEF ActiveTroves, IsActive
  <2>2. /\ Troves' = [b \in Borrowers |->
             IF b \in Closed(run) THEN ClosedTrove(b, "closedByLiquidation") ELSE Troves[b]]
        /\ rewardSnapshots' = [b \in Borrowers |->
             IF b \in Closed(run) THEN ZeroSnapshot ELSE rewardSnapshots[b]]
    BY <1>1 DEF ApplyLiquidation
  <2>3. "closedByLiquidation" # "active"
    OBVIOUS
  <2>4. c \notin Closed(run)
    BY <2>1, <2>2, <2>3, ClosedTroveFields
  <2>5. Troves'[c] = Troves[c] /\ rewardSnapshots'[c] = rewardSnapshots[c]
    BY <2>1, <2>2, <2>4
  <2>6. c \in ActiveTroves
    BY <2>1, <2>5 DEF ActiveTroves, IsActive
  <2>7. /\ AddedRewards.ETH \in Nat /\ AddedRewards.ARTHDebt \in Nat
        /\ L'.ETH = L.ETH + AddedRewards.ETH
        /\ L'.ARTHDebt = L.ARTHDebt + AddedRewards.ARTHDebt
    BY <1>1, <1>2, RedistributionDivides
  <2>8. /\ rewardSnapshots[c].ETH <= L.ETH
        /\ rewardSnapshots[c].ETH \in Nat /\ L.ETH \in Nat /\ L.ARTHDebt \in Nat
        /\ L'.ETH \in Nat /\ L'.ARTHDebt \in Nat
    BY <2>1 DEF LedgerInv, LedgerTypeOK, SnapshotsBehindL, PoolType
  <2>9. rewardSnapshots[c].ETH = L.ETH /\ L'.ETH = L.ETH
    BY <2>5, <2>7, <2>8
  <2>10. L'.ARTHDebt = L.ARTHDebt
    BY <1>5, <2>7, <2>8, <2>9 DEF MovesBoth
  <2> QED BY <1>5, <2>5, <2>6, <2>9, <2>10 DEF SnapshotsTogether
<1> QED BY <1>3, <1>4, <1>5 DEF PoolsInv, DebtInv

------------------------------------------------------------------------------
(* Every step, and the theorems. *)

poolVars == <<Troves, rewardSnapshots, activePool, defaultPool, L, lastError, collSurplusPool>>

(* A step that leaves the pools alone keeps them. *)
LEMMA PoolsUnchanged ==
  ASSUME PoolsInv, UNCHANGED poolVars
  PROVE  PoolsInv' /\ (DebtInv => DebtInv')
<1>1. /\ Troves' = Troves /\ rewardSnapshots' = rewardSnapshots
      /\ activePool' = activePool /\ defaultPool' = defaultPool
      /\ L' = L /\ lastError' = lastError /\ collSurplusPool' = collSurplusPool
  BY DEF poolVars
<1>2. /\ CollTotal' = CollTotal /\ DebtTotal' = DebtTotal
      /\ ETHTermTotal' = ETHTermTotal /\ DebtTermTotal' = DebtTermTotal
  BY <1>1 DEF CollTotal, DebtTotal, ETHTermTotal, DebtTermTotal, CollOnly, DebtOnly,
              ETHTermOf, DebtTermOf
<1>3. ActivePoolHolds' /\ ETHRewardsCovered' /\ SurplusIsHeld'
  BY <1>1, <1>2 DEF PoolsInv, ActivePoolHolds, ETHRewardsCovered, SurplusIsHeld
<1>4. DebtInv => DebtInv'
  BY <1>1, <1>2 DEF DebtInv, DebtRewardsCovered, SnapshotsTogether, ActiveTroves, IsActive
<1> QED BY <1>3, <1>4 DEF PoolsInv

(* _adjustTrove keeps the pools, whichever function calls it. *)
LEMMA AdjustTroveKeepsPools ==
  ASSUME LedgerInv, LedgerInv', PoolsInv, NEW b \in Borrowers, NEW value \in Nat,
         NEW withdrawal \in Nat, NEW change \in Nat, NEW isDebtIncrease \in BOOLEAN,
         NEW maxFee, AdjustTrove(b, value, withdrawal, change, isDebtIncrease, maxFee)
  PROVE  PoolsInv' /\ (DebtInv => DebtInv')
<1>1. PICK collDelta, debtDelta \in Int : Adjusted(b, collDelta, debtDelta)
  BY AdjustmentOfLedgers
<1>2. b \in ActiveTroves
  BY DEF AdjustTrove, ActiveTroves
<1> QED BY <1>1, <1>2, AdjustedKeepsPools

(* The calls of the borrowers keep the pools. *)
LEMMA BorrowerStepKeepsPools ==
  ASSUME LedgerInv, LedgerInv', BooksInv, PoolsInv, BorrowerStep
  PROVE  PoolsInv' /\ (DebtInv => DebtInv')
<1>1. CASE \E b \in Borrowers : OpenForSelf(b) \/ OpenForOther(b)
  BY <1>1, OpenKeepsPools DEF OpenForSelf, OpenForOther
<1>2. CASE \E b \in Borrowers : Adjust(b)
  <2>1. PICK b \in Borrowers, value \in CollChanges \cup {0},
             withdrawal \in CollChanges \cup {0}, change \in DebtChanges \cup {0},
             isDebtIncrease \in BOOLEAN, maxFee \in MaxFees :
          AdjustTrove(b, value, withdrawal, change, isDebtIncrease, maxFee)
    BY <1>2 DEF Adjust
  <2>2. value \in Nat /\ withdrawal \in Nat /\ change \in Nat
    BY InputAssumption
  <2> QED BY <2>1, <2>2, AdjustTroveKeepsPools
<1>3. CASE \E b \in Borrowers : Close(b)
  BY <1>3, CloseKeepsPools DEF Close
<1>4. CASE \E b \in Borrowers : Claim(b)
  <2>1. PICK b \in Borrowers : ClaimCollateral(b)
    BY <1>4 DEF Claim
  <2>2. SurplusIsHeld'
    BY <2>1, ClaimKeepsSurplus DEF PoolsInv
  <2>3. /\ Troves' = Troves /\ rewardSnapshots' = rewardSnapshots
        /\ activePool' = activePool /\ defaultPool' = defaultPool
        /\ L' = L /\ lastError' = lastError
    BY <2>1 DEF ClaimCollateral, BOUnchanged, troveVars, rewardVars
  <2>4. /\ CollTotal' = CollTotal /\ DebtTotal' = DebtTotal
        /\ ETHTermTotal' = ETHTermTotal /\ DebtTermTotal' = DebtTermTotal
    BY <2>3 DEF CollTotal, DebtTotal, ETHTermTotal, DebtTermTotal, CollOnly, DebtOnly,
                ETHTermOf, DebtTermOf
  <2>5. ActivePoolHolds' /\ ETHRewardsCovered'
    BY <2>3, <2>4 DEF PoolsInv, ActivePoolHolds, ETHRewardsCovered
  <2>6. DebtInv => DebtInv'
    BY <2>3, <2>4 DEF DebtInv, DebtRewardsCovered, SnapshotsTogether, ActiveTroves, IsActive
  <2> QED BY <2>2, <2>5, <2>6 DEF PoolsInv
<1> QED
  BY <1>1, <1>2, <1>3, <1>4 DEF BorrowerStep

(* The calls on the StabilityPool keep the pools. *)
LEMMA PoolStepKeepsPools ==
  ASSUME LedgerInv, LedgerInv', PoolsInv, PoolStep
  PROVE  PoolsInv' /\ (DebtInv => DebtInv')
<1>1. CASE \E b \in Borrowers : GainToTrove(b)
  <2>1. PICK b \in Borrowers, share \in Shares :
          WithdrawETHGainToTrove(b, Part(share, stabilityPool.ETH))
    BY <1>1 DEF GainToTrove
  <2>2. /\ Part(share, stabilityPool.ETH) \in 1..stabilityPool.ETH
        /\ AdjustTrove(b, Part(share, stabilityPool.ETH), 0, 0, FALSE, 0)
    BY <2>1 DEF WithdrawETHGainToTrove
  <2>3. 0 \in Nat /\ FALSE \in BOOLEAN
    OBVIOUS
  <2>4. Part(share, stabilityPool.ETH) \in Nat
    <3>1. stabilityPool.ETH \in Nat
      BY DEF LedgerInv, LedgerTypeOK
    <3> QED BY <2>2, <3>1
  <2> QED BY <2>2, <2>3, <2>4, AdjustTroveKeepsPools
<1>2. CASE PoolCallUnchanged
  <2>1. UNCHANGED poolVars
    BY <1>2 DEF PoolCallUnchanged, troveVars, rewardVars, poolVars
  <2> QED BY <2>1, PoolsUnchanged
<1>3. CASE \E a \in Borrowers \cup {Owner} : Deposit(a)
  BY <1>2, <1>3 DEF Deposit, ProvideToSP
<1>4. CASE \E b \in Borrowers : Withdraw(b)
  BY <1>2, <1>4 DEF Withdraw, WithdrawFromSP
<1> QED
  BY <1>1, <1>3, <1>4 DEF PoolStep

(* Governance, time and the price leave the pools alone. *)
LEMMA OtherStepsKeepPools ==
  ASSUME PoolsInv, GovernanceStep \/ EnvironmentStep
  PROVE  PoolsInv' /\ (DebtInv => DebtInv')
<1>1. UNCHANGED poolVars
  <2>2. CASE \E a \in FrontEndAddresses : Register(a)
    BY <2>2 DEF Register, RegisterFrontEnd, BOUnchanged, troveVars, rewardVars, poolVars
  <2>3. CASE \E value \in MintSwitches : SetAllowMinting(value)
    BY <2>3 DEF SetAllowMinting, ledgers, troveVars, rewardVars, poolVars
  <2>4. CASE \E value \in Ceilings : SetMaxDebtCeiling(value)
    BY <2>4 DEF SetMaxDebtCeiling, ledgers, troveVars, rewardVars, poolVars
  <2>5. CASE AnyTransfer
    BY <2>5 DEF AnyTransfer, Transfer, troveVars, rewardVars, poolVars
  <2>6. CASE \E p \in Prices : SetPrice(p)
    BY <2>6 DEF SetPrice, ledgers, troveVars, rewardVars, poolVars
  <2>7. CASE \E seconds \in TimeSteps : Tick(seconds)
    BY <2>7 DEF Tick, ledgers, troveVars, rewardVars, poolVars
  <2> QED
    BY <2>2, <2>3, <2>4, <2>5, <2>6, <2>7 DEF GovernanceStep, EnvironmentStep
<1> QED BY <1>1, PoolsUnchanged

(* Every step keeps the pools, and those of the debt when it moves both *)
(* rewards.                                                             *)
LEMMA NextKeepsPools ==
  LedgerInv /\ BooksInv /\ PoolsInv /\ [Next]_vars =>
    PoolsInv' /\ (DebtInv /\ MovesBoth => DebtInv')
<1> SUFFICES ASSUME LedgerInv, BooksInv, PoolsInv, [Next]_vars
             PROVE  PoolsInv' /\ (DebtInv /\ MovesBoth => DebtInv')
  OBVIOUS
<1>0. LedgerInv'
  BY NextKeepsLedgers
<1>1. CASE BorrowerStep
  BY <1>0, <1>1, BorrowerStepKeepsPools
<1>2. CASE PoolStep
  BY <1>0, <1>2, PoolStepKeepsPools
<1>3. CASE LiquidateStep
  BY <1>0, <1>3, LiquidationKeepsPools
<1>4. CASE RedeemStep
  BY <1>0, <1>4, RedemptionKeepsPools
<1>5. CASE GovernanceStep \/ EnvironmentStep
  BY <1>5, OtherStepsKeepPools
<1>6. CASE UNCHANGED vars
  <2>1. UNCHANGED poolVars
    BY <1>6 DEF vars, troveVars, rewardVars, poolVars
  <2> QED BY <2>1, PoolsUnchanged
<1> QED
  BY <1>1, <1>2, <1>3, <1>4, <1>5, <1>6 DEF Next

(* A sum of zeros is zero. *)
LEMMA SumOfZeros ==
  ASSUME NEW f, NEW S, IsFiniteSet(S), \A x \in S : f[x] = 0
  PROVE  SumFunctionOnSet(f, S) = 0
<1>1. SumFunctionOnSet(f, S) = Cardinality(S) * 0
  BY SumConstant
<1>2. Cardinality(S) \in Nat
  BY FS_CardinalityType
<1> QED BY <1>1, <1>2

(* The pools of the initial state are empty. *)
LEMMA InitEstablishesPools ==
  ASSUME Init
  PROVE  PoolsInv /\ DebtInv
<1>1. /\ Troves = [b \in Borrowers |-> NoTrove]
      /\ rewardSnapshots = [b \in Borrowers |-> [ETH |-> 0, ARTHDebt |-> 0]]
      /\ L = [ETH |-> 0, ARTHDebt |-> 0] /\ lastError = [ETH |-> 0, ARTHDebt |-> 0]
      /\ activePool = [ETH |-> 0, ARTHDebt |-> 0]
      /\ defaultPool = [ETH |-> 0, ARTHDebt |-> 0]
      /\ collSurplusPool = [ETH |-> 0, balances |-> [b \in Borrowers |-> 0]]
  BY DEF Init, CoreInit
<1>2. NoTrove.coll = 0 /\ NoTrove.debt = 0 /\ NoTrove.stake = 0
  BY DEF NoTrove
<1> DEFINE balances == collSurplusPool.balances
<1>3. \A b \in Borrowers : /\ CollOnly[b] = 0 /\ DebtOnly[b] = 0 /\ balances[b] = 0
                           /\ ETHTermOf[b] = 0 /\ DebtTermOf[b] = 0
  BY <1>1, <1>2 DEF CollOnly, DebtOnly, ETHTermOf, DebtTermOf
<1>4. /\ DOMAIN CollOnly = Borrowers /\ DOMAIN DebtOnly = Borrowers
      /\ DOMAIN ETHTermOf = Borrowers /\ DOMAIN DebtTermOf = Borrowers
      /\ DOMAIN balances = Borrowers
  BY <1>1 DEF CollOnly, DebtOnly, ETHTermOf, DebtTermOf
<1> HIDE DEF balances
<1>5. /\ CollTotal = 0 /\ DebtTotal = 0 /\ ETHTermTotal = 0 /\ DebtTermTotal = 0
      /\ SumFunction(balances) = 0
  BY <1>3, <1>4, ActiveTrovesFinite, SumOfZeros
     DEF CollTotal, DebtTotal, ETHTermTotal, DebtTermTotal, SumFunction
<1>6. DECIMAL_PRECISION \in Nat
  BY PrecisionAssumption
<1>7. PoolsInv
  BY <1>1, <1>5, <1>6
     DEF PoolsInv, ActivePoolHolds, ETHRewardsCovered, SurplusIsHeld, balances
<1>8. DebtInv
  BY <1>1, <1>5, <1>6 DEF DebtInv, DebtRewardsCovered, SnapshotsTogether, ActiveTroves
<1> QED BY <1>7, <1>8

(* The sums over the active troves are those over all borrowers. *)
LEMMA PoolsInvImplies ==
  ASSUME LedgerInv, BooksInv, PoolsInv
  PROVE  /\ ActivePoolMatchesTroves
         /\ defaultPool.ETH * DECIMAL_PRECISION >= lastError.ETH
              + SumOver(LAMBDA b : Troves[b].stake * (L.ETH - rewardSnapshots[b].ETH))
         /\ DebtInv => DefaultPoolCoversRewards
<1>1. /\ \A b \in Borrowers : /\ CollOnly[b] \in Nat /\ CollOnly[b] = Troves[b].coll
                              /\ DebtOnly[b] \in Nat /\ DebtOnly[b] = Troves[b].debt
      /\ CollTotal = SumFunctionOnSet(CollOnly, Borrowers)
      /\ DebtTotal = SumFunctionOnSet(DebtOnly, Borrowers)
      /\ ETHTermTotal = SumFunctionOnSet(ETHTermOf, Borrowers)
      /\ DebtTermTotal = SumFunctionOnSet(DebtTermOf, Borrowers)
  BY RecordedAmounts, TermTotals
<1>2. \A b \in Borrowers : /\ ETHTermOf[b] \in Nat /\ DebtTermOf[b] \in Nat
                           /\ ETHTermOf[b] = Troves[b].stake * (L.ETH - rewardSnapshots[b].ETH)
                           /\ DebtTermOf[b]
                                = Troves[b].stake * (L.ARTHDebt - rewardSnapshots[b].ARTHDebt)
                           /\ L.ETH - rewardSnapshots[b].ETH \in Nat
                           /\ L.ARTHDebt - rewardSnapshots[b].ARTHDebt \in Nat
  BY TermsAreAmounts
<1>3. \A b \in Borrowers \ ActiveTroves :
        /\ CollOnly[b] = 0 /\ DebtOnly[b] = 0 /\ ETHTermOf[b] = 0 /\ DebtTermOf[b] = 0
  BY <1>1, <1>2 DEF BooksInv, ClosedTrovesAreEmpty
<1>4. /\ ActiveTroves \in SUBSET Borrowers /\ IsFiniteSet(Borrowers)
      /\ \A b \in ActiveTroves : /\ CollOnly[b] \in Int /\ DebtOnly[b] \in Int
                                 /\ ETHTermOf[b] \in Int /\ DebtTermOf[b] \in Int
  BY <1>1, <1>2, ActiveTrovesFinite
<1>5. /\ CollTotal = SumFunctionOnSet(CollOnly, ActiveTroves)
      /\ DebtTotal = SumFunctionOnSet(DebtOnly, ActiveTroves)
      /\ ETHTermTotal = SumFunctionOnSet(ETHTermOf, ActiveTroves)
      /\ DebtTermTotal = SumFunctionOnSet(DebtTermOf, ActiveTroves)
  BY <1>1, <1>3, <1>4, SumSupport
<1>6. ActivePoolMatchesTroves
  BY <1>5 DEF PoolsInv, ActivePoolHolds, ActivePoolMatchesTroves, SumOver, CollOnly, DebtOnly
<1>7. defaultPool.ETH * DECIMAL_PRECISION >= lastError.ETH
        + SumOver(LAMBDA b : Troves[b].stake * (L.ETH - rewardSnapshots[b].ETH))
  BY <1>5 DEF PoolsInv, ETHRewardsCovered, SumOver, ETHTermOf
<1>8. DebtInv => DefaultPoolCoversRewards
  BY <1>5, <1>7 DEF DebtInv, DebtRewardsCovered, DefaultPoolCoversRewards, SumOver, DebtTermOf
<1> QED BY <1>6, <1>7, <1>8

CollateralIsHeld ==
  /\ ActivePoolMatchesTroves
  /\ defaultPool.ETH * DECIMAL_PRECISION >= lastError.ETH
       + SumOver(LAMBDA b : Troves[b].stake * (L.ETH - rewardSnapshots[b].ETH))
  /\ SurplusIsHeld

(* The ledgers, the books and the pools of the collateral hold in every *)
(* reachable state.                                                     *)
LEMMA PoolsHold == Spec => [](LedgerInv /\ BooksInv /\ PoolsInv)
<1>1. Init => LedgerInv /\ BooksInv /\ PoolsInv
  BY InitEstablishesLedgers, InitEstablishesBooks, InitEstablishesPools
<1>2. LedgerInv /\ BooksInv /\ PoolsInv /\ [Next]_vars => (LedgerInv /\ BooksInv /\ PoolsInv)'
  BY NextKeepsLedgers, NextKeepsBooks, NextKeepsPools
<1> QED BY <1>1, <1>2, PTL DEF Spec

(* The ActivePool holds what the troves record, the DefaultPool holds every *)
(* pending reward of collateral, and the CollSurplusPool every surplus, in  *)
(* every state of every deployment: no reward is lost to the rounding of a  *)
(* redistribution beyond what the pool keeps.                               *)
THEOREM PoolsHoldTheCollateral == Spec => []CollateralIsHeld
<1>1. LedgerInv /\ BooksInv /\ PoolsInv => CollateralIsHeld
  BY PoolsInvImplies DEF CollateralIsHeld, PoolsInv
<1> QED BY <1>1, PoolsHold, PTL

(* The debt of the DefaultPool stays covered under the condition of the *)
(* next theorem.                                                        *)
LEMMA DebtHolds == Spec /\ [][MovesBoth]_vars => []DebtInv
<1>1. Init => DebtInv
  BY InitEstablishesPools
<1>2. LedgerInv /\ BooksInv /\ PoolsInv /\ DebtInv /\ [Next]_vars /\ [MovesBoth]_vars => DebtInv'
  <2> SUFFICES ASSUME LedgerInv, BooksInv, PoolsInv, DebtInv, [Next]_vars, [MovesBoth]_vars
               PROVE  DebtInv'
    OBVIOUS
  <2>1. CASE MovesBoth
    BY <2>1, NextKeepsPools
  <2>2. CASE UNCHANGED vars
    <3>1. UNCHANGED poolVars
      BY <2>2 DEF vars, troveVars, rewardVars, poolVars
    <3> QED BY <3>1, PoolsUnchanged
  <2> QED BY <2>1, <2>2
<1> QED BY <1>1, <1>2, PoolsHold, PTL DEF Spec

(* The pools reconcile with the troves, for the collateral and for the      *)
(* debt, as long as every redistribution that moves a reward of debt moves  *)
(* one of collateral too. The condition is what hasPendingRewards relies on *)
(* (TroveManager.sol:1331 compares the snapshots of ETH only): without it a *)
(* trove keeps its snapshot of the debt through an operation and is charged *)
(* twice.                                                                   *)
THEOREM PoolsAlwaysReconcile == Spec /\ [][MovesBoth]_vars => []PoolsReconcile
<1>1. LedgerInv /\ BooksInv /\ PoolsInv /\ DebtInv => PoolsReconcile
  BY PoolsInvImplies DEF PoolsReconcile, PoolsInv
<1> QED BY <1>1, PoolsHold, DebtHolds, PTL

------------------------------------------------------------------------------
(* The token.  What moves ARTH are Plus and Minus. *)

(* No account is a contract's address twice, and there are finitely many. *)
LEMMA AccountFacts ==
  /\ IsFiniteSet(Accounts)
  /\ Borrowers \subseteq Accounts /\ SPAddress \in Accounts /\ GasPool \in Accounts
  /\ Owner \in Accounts /\ Fund \in Accounts
  /\ SPAddress # GasPool /\ SPAddress # Fund /\ SPAddress # Owner
  /\ GasPool # Fund /\ GasPool # Owner
  /\ SPAddress \notin Borrowers /\ GasPool \notin Borrowers
  /\ NoFrontEnd \notin Accounts
<1>1. IsFiniteSet(Borrowers)
  BY AddressAssumption
<1>2. IsFiniteSet({Owner, Fund, GasPool, SPAddress})
  <2>1. /\ IsFiniteSet({Owner}) /\ IsFiniteSet({Fund})
        /\ IsFiniteSet({GasPool}) /\ IsFiniteSet({SPAddress})
    BY FS_Singleton
  <2>2. IsFiniteSet({Owner} \cup {Fund}) /\ IsFiniteSet({GasPool} \cup {SPAddress})
    BY <2>1, FS_Union
  <2>3. IsFiniteSet(({Owner} \cup {Fund}) \cup ({GasPool} \cup {SPAddress}))
    BY <2>2, FS_Union
  <2>4. {Owner, Fund, GasPool, SPAddress} = ({Owner} \cup {Fund}) \cup ({GasPool} \cup {SPAddress})
    OBVIOUS
  <2> QED BY <2>3, <2>4
<1>3. IsFiniteSet(Accounts)
  BY <1>1, <1>2, FS_Union DEF Accounts
<1> QED
  BY <1>3, AddressAssumption DEF Accounts

(* What an account receives. *)
LEMMA PlusFacts ==
  ASSUME NEW balance \in [Accounts -> Int], NEW a \in Accounts, NEW x \in Int
  PROVE  /\ Plus(balance, a, x) \in [Accounts -> Int]
         /\ Plus(balance, a, x)[a] = balance[a] + x
         /\ \A c \in Accounts \ {a} : Plus(balance, a, x)[c] = balance[c]
         /\ SumFunction(Plus(balance, a, x)) = SumFunction(balance) + x
         /\ SumFunction(balance) \in Int
<1> DEFINE new == Plus(balance, a, x)
<1>1. /\ new \in [Accounts -> Int] /\ new[a] = balance[a] + x
      /\ \A c \in Accounts \ {a} : new[c] = balance[c]
  <2>1. balance[a] + x \in Int
    OBVIOUS
  <2> QED BY <2>1 DEF Plus
<1> HIDE DEF new
<1>2. \A c \in Accounts : balance[c] \in Int /\ new[c] \in Int
  BY <1>1
<1>3. SumFunctionOnSet(new, Accounts) = SumFunctionOnSet(balance, Accounts) - balance[a] + new[a]
  BY <1>1, <1>2, AccountFacts, SumUpdate
<1>4. SumFunctionOnSet(balance, Accounts) \in Int /\ balance[a] \in Int
  BY <1>2, AccountFacts, SumInt
<1>5. SumFunctionOnSet(new, Accounts) = SumFunctionOnSet(balance, Accounts) + x
  BY <1>1, <1>3, <1>4
<1>6. DOMAIN new = Accounts /\ DOMAIN balance = Accounts
  BY <1>1
<1> QED
  BY <1>1, <1>4, <1>5, <1>6 DEF SumFunction, new

(* What an account pays. *)
LEMMA MinusFacts ==
  ASSUME NEW balance \in [Accounts -> Int], NEW a \in Accounts, NEW x \in Int
  PROVE  /\ Minus(balance, a, x) \in [Accounts -> Int]
         /\ Minus(balance, a, x)[a] = balance[a] - x
         /\ \A c \in Accounts \ {a} : Minus(balance, a, x)[c] = balance[c]
         /\ SumFunction(Minus(balance, a, x)) = SumFunction(balance) - x
<1>1. Minus(balance, a, x) = Plus(balance, a, -x)
  <2>1. balance[a] - x = balance[a] + (-x)
    OBVIOUS
  <2> QED BY <2>1 DEF Plus, Minus
<1>2. -x \in Int
  OBVIOUS
<1>3. /\ Plus(balance, a, -x) \in [Accounts -> Int]
      /\ Plus(balance, a, -x)[a] = balance[a] + (-x)
      /\ \A c \in Accounts \ {a} : Plus(balance, a, -x)[c] = balance[c]
      /\ SumFunction(Plus(balance, a, -x)) = SumFunction(balance) + (-x)
      /\ SumFunction(balance) \in Int
  BY <1>2, PlusFacts
<1>4. \A y \in Int : y + (-x) = y - x
  OBVIOUS
<1>5. balance[a] \in Int
  OBVIOUS
<1> QED
  BY <1>1, <1>3, <1>4, <1>5

(* The fund and a front end receive the fee between them. *)
LEMMA MintFeeFacts ==
  ASSUME NEW balance \in [Accounts -> Nat], NEW fee \in Nat,
         NEW tag \in Borrowers \cup {NoFrontEnd}
  PROVE  /\ MintFee(balance, fee, tag) \in [Accounts -> Int]
         /\ \A c \in Accounts : MintFee(balance, fee, tag)[c] >= balance[c]
         /\ MintFee(balance, fee, tag)[SPAddress] = balance[SPAddress]
         /\ MintFee(balance, fee, tag)[GasPool] = balance[GasPool]
         /\ SumFunction(MintFee(balance, fee, tag)) = SumFunction(balance) + fee
<1> DEFINE half == (fee * 50) \div 100
           part == Plus(balance, tag, fee - half)
<1>1. half \in Nat /\ half <= fee /\ fee - half \in Nat
  OBVIOUS
<1>2. balance \in [Accounts -> Int] /\ fee \in Int
  OBVIOUS
<1>3. CASE tag = NoFrontEnd
  <2>1. MintFee(balance, fee, tag) = Plus(balance, Fund, fee)
    BY <1>3 DEF MintFee
  <2> DEFINE new == Plus(balance, Fund, fee)
  <2>2. Fund \in Accounts
    BY AccountFacts
  <2>3. /\ new \in [Accounts -> Int] /\ new[Fund] = balance[Fund] + fee
        /\ \A c \in Accounts \ {Fund} : new[c] = balance[c]
        /\ SumFunction(new) = SumFunction(balance) + fee
    BY <1>2, <2>2, PlusFacts
  <2> HIDE DEF new
  <2>4. \A c \in Accounts : new[c] >= balance[c]
    <3>1. balance[Fund] + fee >= balance[Fund]
      BY <2>2
    <3>2. \A c \in Accounts : balance[c] >= balance[c]
      OBVIOUS
    <3> QED BY <2>3, <3>1, <3>2
  <2>5. new[SPAddress] = balance[SPAddress] /\ new[GasPool] = balance[GasPool]
    BY <2>3, AccountFacts
  <2> QED BY <2>1, <2>3, <2>4, <2>5 DEF new
<1>4. CASE tag # NoFrontEnd
  <2>1. tag \in Accounts /\ tag # SPAddress /\ tag # GasPool
    BY <1>4, AccountFacts
  <2>2. MintFee(balance, fee, tag) = Plus(part, Fund, half)
    BY <1>4 DEF MintFee
  <2> HIDE DEF half
  <2>3. /\ part \in [Accounts -> Int] /\ part[tag] = balance[tag] + (fee - half)
        /\ \A c \in Accounts \ {tag} : part[c] = balance[c]
        /\ SumFunction(part) = SumFunction(balance) + (fee - half)
        /\ SumFunction(balance) \in Int
    BY <1>1, <1>2, <2>1, PlusFacts
  <2> HIDE DEF part
  <2> DEFINE new == Plus(part, Fund, half)
  <2>4. /\ new \in [Accounts -> Int] /\ new[Fund] = part[Fund] + half
        /\ \A c \in Accounts \ {Fund} : new[c] = part[c]
        /\ SumFunction(new) = SumFunction(part) + half
    <3>1. Fund \in Accounts /\ half \in Int
      BY <1>1, AccountFacts
    <3> QED BY <2>3, <3>1, PlusFacts
  <2> HIDE DEF new
  <2>5. \A c \in Accounts : part[c] >= balance[c] /\ part[c] \in Int /\ balance[c] \in Int
    BY <1>1, <1>2, <2>1, <2>3
  <2>6. \A c \in Accounts : new[c] >= part[c] /\ new[c] \in Int
    BY <1>1, <2>4, <2>5
  <2>7. \A c \in Accounts : new[c] >= balance[c]
    <3>1. \A x, y, z \in Int : x >= y /\ y >= z => x >= z
      OBVIOUS
    <3> QED BY <2>5, <2>6, <3>1
  <2>8. /\ new[SPAddress] = balance[SPAddress] /\ new[GasPool] = balance[GasPool]
    BY <2>1, <2>3, <2>4, AccountFacts
  <2>9. SumFunction(new) = SumFunction(balance) + fee
    <3>1. \A x \in Int : (x + (fee - half)) + half = x + fee
      BY <1>1
    <3> QED BY <2>3, <2>4, <3>1
  <2> QED BY <2>2, <2>4, <2>7, <2>8, <2>9 DEF new
<1> QED
  BY <1>3, <1>4

TagsAreBorrowers ==
  \A b \in Borrowers : Troves[b].frontEndTag \in Borrowers \cup {NoFrontEnd}

(* The inductive invariant of the token's accounts: no account is a trove's *)
(* front end unless it is a borrower, so no fee goes to a contract.         *)
AccountsInv ==
  /\ arthBalance \in [Accounts -> Nat]
  /\ TokenAccounts
  /\ TagsAreBorrowers

ReserveOfTroves == Cardinality(ActiveTroves) * ARTH_GAS_COMPENSATION

(* The reserves are an amount, and change with the troves that are opened  *)
(* and closed.                                                             *)
LEMMA ReserveFacts ==
  /\ Cardinality(ActiveTroves) \in Nat /\ ReserveOfTroves \in Nat
  /\ \A b \in Borrowers \ ActiveTroves : Cardinality(ActiveTroves \cup {b}) * ARTH_GAS_COMPENSATION
                               = ReserveOfTroves + ARTH_GAS_COMPENSATION
  /\ \A S \in SUBSET ActiveTroves :
       /\ Cardinality(S) * ARTH_GAS_COMPENSATION \in Nat
       /\ Cardinality(ActiveTroves \ S) * ARTH_GAS_COMPENSATION
            = ReserveOfTroves - Cardinality(S) * ARTH_GAS_COMPENSATION
<1>1. IsFiniteSet(ActiveTroves) /\ Cardinality(ActiveTroves) \in Nat
  BY ActiveTrovesFinite, FS_CardinalityType
<1>2. \A x, y, z \in Nat : /\ (x + 1) * y = x * y + y /\ x * y \in Nat
                           /\ x + z \in Nat /\ (x + z) * y - z * y = x * y
  OBVIOUS
<1>3. ARTH_GAS_COMPENSATION \in Nat
  BY DebtAssumption
<1>4. ASSUME NEW b \in Borrowers \ ActiveTroves
      PROVE  Cardinality(ActiveTroves \cup {b}) = Cardinality(ActiveTroves) + 1
  BY <1>1, FS_AddElement
<1>5. ASSUME NEW S \in SUBSET ActiveTroves
      PROVE  /\ Cardinality(S) \in Nat /\ Cardinality(ActiveTroves \ S) \in Nat
             /\ Cardinality(ActiveTroves) = Cardinality(ActiveTroves \ S) + Cardinality(S)
  <2>1. IsFiniteSet(S) /\ IsFiniteSet(ActiveTroves \ S)
    BY <1>1, FS_Subset
  <2>2. /\ (ActiveTroves \ S) \cup S = ActiveTroves /\ (ActiveTroves \ S) \cap S = {}
    OBVIOUS
  <2>3. Cardinality((ActiveTroves \ S) \cup S)
          = Cardinality(ActiveTroves \ S) + Cardinality(S) - Cardinality((ActiveTroves \ S) \cap S)
    BY <2>1, FS_Union
  <2>4. Cardinality(S) \in Nat /\ Cardinality(ActiveTroves \ S) \in Nat
    BY <2>1, FS_CardinalityType
  <2>5. Cardinality({}) = 0
    BY FS_EmptySet
  <2>6. \A x, y, z \in Int : (x = y + z - 0) => (x = y + z)
    OBVIOUS
  <2>7. Cardinality(ActiveTroves) = Cardinality(ActiveTroves \ S) + Cardinality(S) - 0
    BY <2>2, <2>3, <2>5
  <2> QED BY <1>1, <2>4, <2>6, <2>7
<1>6. ASSUME NEW S \in SUBSET ActiveTroves
      PROVE  /\ Cardinality(S) * ARTH_GAS_COMPENSATION \in Nat
             /\ Cardinality(ActiveTroves \ S) * ARTH_GAS_COMPENSATION
                  = ReserveOfTroves - Cardinality(S) * ARTH_GAS_COMPENSATION
  <2> DEFINE x == Cardinality(ActiveTroves \ S)
             z == Cardinality(S)
             y == ARTH_GAS_COMPENSATION
  <2>1. x \in Nat /\ z \in Nat /\ y \in Nat /\ ReserveOfTroves = (x + z) * y
    BY <1>3, <1>5 DEF ReserveOfTroves
  <2> HIDE DEF x, y, z
  <2>2. z * y \in Nat /\ (x + z) * y - z * y = x * y
    BY <1>2, <2>1
  <2> QED BY <2>1, <2>2 DEF x, y, z
<1>7. ReserveOfTroves \in Nat
  BY <1>1, <1>2, <1>3 DEF ReserveOfTroves
<1>8. ASSUME NEW b \in Borrowers \ ActiveTroves
      PROVE  Cardinality(ActiveTroves \cup {b}) * ARTH_GAS_COMPENSATION
               = ReserveOfTroves + ARTH_GAS_COMPENSATION
  BY <1>1, <1>2, <1>3, <1>4 DEF ReserveOfTroves
<1> QED
  BY <1>1, <1>6, <1>7, <1>8

(* openTrove mints the fee, the loan and the reserve. *)
LEMMA OpenKeepsAccounts ==
  ASSUME LedgerInv, AccountsInv, NEW who \in Borrowers, NEW recipient \in Borrowers \cup {Owner},
         Open(who, recipient)
  PROVE  AccountsInv'
<1>1. PICK value \in Collaterals, amount \in OpenAmounts, maxFee \in MaxFees,
           tag \in frontEnds \cup {NoFrontEnd} :
        OpenTrove(who, recipient, value, amount, maxFee, tag)
  BY DEF Open
<1> DEFINE recovery == InRecoveryMode(price)
           fee == IF recovery THEN 0 ELSE BorrowingFee(amount)
           debt == CompositeDebt(amount + fee)
           trove == [status |-> "active", debt |-> debt, coll |-> value,
                     stake |-> NewStake(value), frontEndTag |-> tag]
           gas == ARTH_GAS_COMPENSATION
           first == MintFee(arthBalance, fee, tag)
           second == Plus(first, recipient, amount)
           new == Plus(second, GasPool, gas)
<1>2. value \in Nat /\ amount \in Nat /\ gas \in Nat
  BY InputAssumption, DebtAssumption
<1>3. recovery \/ BorrowingFeeAccepted(amount, maxFee)
  BY <1>1 DEF OpenTrove
<1>4. fee \in Nat
  <2>1. CASE recovery
    BY <2>1
  <2>2. CASE ~recovery
    BY <2>2, <1>2, <1>3, FeeIsAmount DEF BorrowingFeeAccepted
  <2> QED
    BY <2>1, <2>2
<1>5. /\ Troves' = [Troves EXCEPT ![who] = trove]
      /\ arthBalance' = new
      /\ totalSupply' = totalSupply + fee + amount + gas
      /\ stabilityPool' = stabilityPool
      /\ ~IsActive(who)
  BY <1>1 DEF OpenTrove
<1>6. tag \in Borrowers \cup {NoFrontEnd}
  BY DEF LedgerInv
<1>7. Troves \in [Borrowers -> TroveType] /\ trove.status = "active" /\ trove.frontEndTag = tag
  BY DEF LedgerInv, LedgerTypeOK, TroveType
<1> HIDE DEF fee, trove, gas
<1>8. TagsAreBorrowers'
  BY <1>5, <1>6, <1>7 DEF AccountsInv, TagsAreBorrowers
<1>9. ActiveTroves' = ActiveTroves \cup {who} /\ who \notin ActiveTroves
  BY <1>5, <1>7 DEF ActiveTroves, IsActive
<1>10. /\ arthBalance \in [Accounts -> Nat] /\ totalSupply = SumFunction(arthBalance)
       /\ arthBalance[SPAddress] = stabilityPool.totalARTHDeposits
       /\ arthBalance[GasPool] >= ReserveOfTroves
       /\ totalSupply \in Nat
  BY DEF AccountsInv, TokenAccounts, ReserveOfTroves, LedgerInv, LedgerTypeOK
<1>11. /\ first \in [Accounts -> Int] /\ \A c \in Accounts : first[c] >= arthBalance[c]
       /\ first[SPAddress] = arthBalance[SPAddress] /\ first[GasPool] = arthBalance[GasPool]
       /\ SumFunction(first) = totalSupply + fee
  BY <1>4, <1>6, <1>10, MintFeeFacts
<1> HIDE DEF first
<1>12. recipient \in Accounts /\ recipient # SPAddress /\ recipient # GasPool
       /\ amount \in Int /\ gas \in Int /\ GasPool \in Accounts /\ SPAddress \in Accounts
       /\ SPAddress # GasPool
  BY <1>2, AccountFacts
<1>13. /\ second \in [Accounts -> Int] /\ second[recipient] = first[recipient] + amount
       /\ \A c \in Accounts \ {recipient} : second[c] = first[c]
       /\ SumFunction(second) = SumFunction(first) + amount
  <2>1. first \in [Accounts -> Int] /\ recipient \in Accounts /\ amount \in Int
    BY <1>11, <1>12
  <2> QED BY <2>1, PlusFacts
<1> HIDE DEF second
<1>14. /\ new \in [Accounts -> Int] /\ new[GasPool] = second[GasPool] + gas
       /\ \A c \in Accounts \ {GasPool} : new[c] = second[c]
       /\ SumFunction(new) = SumFunction(second) + gas
  <2>1. second \in [Accounts -> Int] /\ GasPool \in Accounts /\ gas \in Int
    BY <1>12, <1>13
  <2> QED BY <2>1, PlusFacts
<1> HIDE DEF new
<1>15. new[SPAddress] = arthBalance[SPAddress] /\ new[GasPool] = arthBalance[GasPool] + gas
  BY <1>11, <1>12, <1>13, <1>14
<1>16. new \in [Accounts -> Nat]
  <2>1. \A c \in Accounts : first[c] \in Int /\ first[c] >= arthBalance[c] /\ arthBalance[c] \in Nat
    BY <1>10, <1>11
  <2>2. \A c \in Accounts : first[c] \in Nat
    BY <2>1
  <2>3. \A c \in Accounts : second[c] \in Nat
    BY <1>2, <1>13, <2>2
  <2>4. \A c \in Accounts : new[c] \in Nat
    BY <1>2, <1>14, <2>3
  <2> QED BY <1>14, <2>4
<1>17. new[GasPool] >= Cardinality(ActiveTroves') * ARTH_GAS_COMPENSATION
  <2>1. Cardinality(ActiveTroves') * ARTH_GAS_COMPENSATION = ReserveOfTroves + gas
    BY <1>9, ReserveFacts DEF gas
  <2>2. ReserveOfTroves \in Nat /\ arthBalance[GasPool] \in Nat
    BY <1>10, <1>12, ReserveFacts
  <2> QED BY <1>2, <1>10, <1>15, <2>1, <2>2
<1>18. TokenAccounts'
  <2>1. SumFunction(new) = totalSupply'
    BY <1>5, <1>11, <1>13, <1>14
  <2> QED BY <1>5, <1>10, <1>15, <1>17, <2>1 DEF TokenAccounts
<1> QED
  BY <1>5, <1>8, <1>16, <1>18 DEF AccountsInv

(* _adjustTrove mints the fee and what is drawn, or burns what is repaid.  *)
LEMMA AdjustTroveKeepsAccounts ==
  ASSUME LedgerInv, AccountsInv, NEW b \in Borrowers, NEW value, NEW withdrawal,
         NEW change \in Nat, NEW isDebtIncrease \in BOOLEAN, NEW maxFee,
         AdjustTrove(b, value, withdrawal, change, isDebtIncrease, maxFee),
         stabilityPool'.totalARTHDeposits = stabilityPool.totalARTHDeposits
  PROVE  AccountsInv'
<1> DEFINE charged == isDebtIncrease /\ ~InRecoveryMode(price)
           fee == IF charged THEN BorrowingFee(change) ELSE 0
           minted == IF isDebtIncrease THEN change ELSE -change
           tag == Troves[b].frontEndTag
           first == MintFee(arthBalance, fee, tag)
           new == Plus(first, b, minted)
<1>1. fee \in Nat
  <2>1. CASE charged
    <3>1. DecayedBaseRate \in 0..DECIMAL_PRECISION
      BY <2>1 DEF AdjustTrove, BorrowingFeeAccepted
    <3> QED BY <2>1, <3>1, FeeIsAmount
  <2>2. CASE ~charged
    BY <2>2
  <2> QED
    BY <2>1, <2>2
<1>2. tag \in Borrowers \cup {NoFrontEnd} /\ Troves \in [Borrowers -> TroveType]
  BY DEF AccountsInv, TagsAreBorrowers, LedgerInv, LedgerTypeOK, TroveType
<1>3. /\ arthBalance' = new /\ totalSupply' = totalSupply + fee + minted
      /\ DOMAIN Troves' = Borrowers
      /\ \A c \in Borrowers : /\ Troves'[c].status = Troves[c].status
                              /\ Troves'[c].frontEndTag = Troves[c].frontEndTag
  <2>1. arthBalance' = new /\ totalSupply' = totalSupply + fee + minted
    BY DEF AdjustTrove
  <2>2. \E debt, coll, stake : Troves' = [Troves EXCEPT ![b] =
           [@ EXCEPT !.debt = debt, !.coll = coll, !.stake = stake]]
    BY DEF AdjustTrove
  <2> QED BY <1>2, <2>1, <2>2 DEF TroveType
<1>4. ~isDebtIncrease /\ change > 0 => arthBalance[b] >= change
  BY DEF AdjustTrove, ValidRepayment
<1> HIDE DEF fee, tag
<1>5. TagsAreBorrowers' /\ ActiveTroves' = ActiveTroves
  BY <1>3 DEF AccountsInv, TagsAreBorrowers, ActiveTroves, IsActive
<1>6. /\ arthBalance \in [Accounts -> Nat] /\ totalSupply = SumFunction(arthBalance)
      /\ arthBalance[SPAddress] = stabilityPool.totalARTHDeposits
      /\ arthBalance[GasPool] >= Cardinality(ActiveTroves) * ARTH_GAS_COMPENSATION
      /\ totalSupply \in Nat
  BY DEF AccountsInv, TokenAccounts, LedgerInv, LedgerTypeOK
<1>7. /\ first \in [Accounts -> Int] /\ \A c \in Accounts : first[c] >= arthBalance[c]
      /\ first[SPAddress] = arthBalance[SPAddress] /\ first[GasPool] = arthBalance[GasPool]
      /\ SumFunction(first) = totalSupply + fee
  BY <1>1, <1>2, <1>6, MintFeeFacts
<1> HIDE DEF first
<1>8. b \in Accounts /\ minted \in Int
  BY AccountFacts
<1>9. /\ new \in [Accounts -> Int] /\ new[b] = first[b] + minted
      /\ \A c \in Accounts \ {b} : new[c] = first[c]
      /\ SumFunction(new) = SumFunction(first) + minted
  <2> HIDE DEF minted
  <2> QED BY <1>7, <1>8, PlusFacts
<1> HIDE DEF new
<1>10. new \in [Accounts -> Nat]
  <2>1. \A c \in Accounts : first[c] \in Int /\ first[c] >= arthBalance[c] /\ arthBalance[c] \in Nat
    BY <1>6, <1>7
  <2>2. \A c \in Accounts : first[c] \in Nat
    BY <2>1
  <2>3. new[b] \in Nat
    <3>1. CASE isDebtIncrease
      BY <1>8, <1>9, <2>2, <3>1
    <3>2. CASE ~isDebtIncrease /\ change = 0
      BY <1>8, <1>9, <2>2, <3>2
    <3>3. CASE ~isDebtIncrease /\ change > 0
      <4>1. arthBalance[b] >= change /\ minted = -change
        BY <1>4, <3>3
      <4> HIDE DEF minted
      <4> QED BY <1>8, <1>9, <2>1, <4>1
    <3> QED BY <3>1, <3>2, <3>3
  <2> QED BY <1>9, <2>2, <2>3
<1>11. new[SPAddress] = arthBalance[SPAddress] /\ new[GasPool] = arthBalance[GasPool]
  BY <1>7, <1>9, AccountFacts
<1>12. SumFunction(new) = totalSupply'
  <2> HIDE DEF minted
  <2> QED BY <1>3, <1>7, <1>9
<1>13. TokenAccounts'
  BY <1>3, <1>5, <1>6, <1>11, <1>12 DEF TokenAccounts
<1> QED
  BY <1>3, <1>5, <1>10, <1>13 DEF AccountsInv

(* closeTrove burns the net debt of the owner and the reserve. *)
LEMMA CloseKeepsAccounts ==
  ASSUME LedgerInv, BooksInv, AccountsInv, NEW b \in Borrowers, CloseTrove(b)
  PROVE  AccountsInv'
<1> DEFINE trove == ApplyPendingRewards(b)
           net == NetDebt(trove.debt)
           gas == ARTH_GAS_COMPENSATION
           first == Minus(arthBalance, b, net)
           new == Minus(first, GasPool, gas)
<1>1. /\ b \in ActiveTroves /\ arthBalance[b] >= net
      /\ Troves' = [Troves EXCEPT ![b] = ClosedTrove(b, "closedByOwner")]
      /\ arthBalance' = new /\ totalSupply' = totalSupply - trove.debt
      /\ stabilityPool' = stabilityPool
  BY DEF CloseTrove, ActiveTroves
<1>2. gas \in Nat /\ net \in Nat /\ trove.debt \in Nat /\ net = trove.debt - gas
  <2>1. ARTH_GAS_COMPENSATION \in Nat /\ MIN_NET_DEBT \in Nat
    BY DebtAssumption
  <2>2. Troves[b].debt >= ARTH_GAS_COMPENSATION + MIN_NET_DEBT /\ Troves[b].debt \in Nat
    BY <1>1 DEF BooksInv, MinimumDebtKept, LedgerInv, LedgerTypeOK
  <2>3. trove.debt = Troves[b].debt + trove.movedDebt /\ trove.movedDebt \in Nat
    BY <1>1, AppliedFacts, AppliedRewardsTyped
  <2>4. net = trove.debt - gas
    BY DEF NetDebt
  <2> HIDE DEF trove, net
  <2> QED BY <2>1, <2>2, <2>3, <2>4
<1>3. /\ Troves \in [Borrowers -> TroveType]
      /\ ClosedTrove(b, "closedByOwner").status = "closedByOwner"
      /\ ClosedTrove(b, "closedByOwner").frontEndTag = Troves[b].frontEndTag
  BY DEF ClosedTrove, LedgerInv, LedgerTypeOK, TroveType
<1>4. TagsAreBorrowers' /\ ActiveTroves' = ActiveTroves \ {b}
  BY <1>1, <1>3 DEF AccountsInv, TagsAreBorrowers, ActiveTroves, IsActive
<1>5. /\ arthBalance \in [Accounts -> Nat] /\ totalSupply = SumFunction(arthBalance)
      /\ arthBalance[SPAddress] = stabilityPool.totalARTHDeposits
      /\ arthBalance[GasPool] >= ReserveOfTroves
      /\ totalSupply \in Nat
  BY DEF AccountsInv, TokenAccounts, LedgerInv, LedgerTypeOK, ReserveOfTroves
<1> HIDE DEF trove, net, gas
<1>6. b \in Accounts /\ b # GasPool /\ b # SPAddress /\ GasPool \in Accounts
      /\ SPAddress \in Accounts /\ SPAddress # GasPool
  BY AccountFacts
<1>7. /\ first \in [Accounts -> Int] /\ first[b] = arthBalance[b] - net
      /\ \A c \in Accounts \ {b} : first[c] = arthBalance[c]
      /\ SumFunction(first) = SumFunction(arthBalance) - net
  <2>1. arthBalance \in [Accounts -> Int] /\ net \in Int
    BY <1>2, <1>5
  <2> QED BY <1>6, <2>1, MinusFacts
<1> HIDE DEF first
<1>8. /\ new \in [Accounts -> Int] /\ new[GasPool] = first[GasPool] - gas
      /\ \A c \in Accounts \ {GasPool} : new[c] = first[c]
      /\ SumFunction(new) = SumFunction(first) - gas
  <2>1. gas \in Int
    BY <1>2
  <2> QED BY <1>6, <1>7, <2>1, MinusFacts
<1> HIDE DEF new
<1>9. new[SPAddress] = arthBalance[SPAddress] /\ new[GasPool] = arthBalance[GasPool] - gas
  BY <1>6, <1>7, <1>8
<1>10. /\ Cardinality(ActiveTroves') * ARTH_GAS_COMPENSATION = ReserveOfTroves - gas
       /\ ReserveOfTroves - gas \in Nat /\ ReserveOfTroves \in Nat
  <2>1. {b} \in SUBSET ActiveTroves /\ Cardinality({b}) = 1
    BY <1>1, FS_Singleton
  <2>2. \A x \in Nat : 1 * x = x
    OBVIOUS
  <2>3. Cardinality({b}) * ARTH_GAS_COMPENSATION = gas
    BY <1>2, <2>1, <2>2 DEF gas
  <2>4. Cardinality(ActiveTroves') * ARTH_GAS_COMPENSATION = ReserveOfTroves - gas
    BY <1>4, <2>1, <2>3, ReserveFacts
  <2>5. \E n \in Nat : Cardinality(ActiveTroves') * ARTH_GAS_COMPENSATION = n
    <3>1. ActiveTroves \ {b} \in SUBSET ActiveTroves
      OBVIOUS
    <3> QED BY <1>4, <3>1, ReserveFacts
  <2> QED BY <2>4, <2>5, ReserveFacts
<1>11. new[GasPool] >= Cardinality(ActiveTroves') * ARTH_GAS_COMPENSATION /\ new[GasPool] \in Nat
  <2>1. arthBalance[GasPool] \in Nat /\ arthBalance[GasPool] >= ReserveOfTroves
    BY <1>5, <1>6
  <2> QED BY <1>2, <1>9, <1>10, <2>1
<1>12. new \in [Accounts -> Nat]
  <2>1. first[b] \in Nat
    BY <1>1, <1>2, <1>5, <1>6, <1>7
  <2>2. \A c \in Accounts \ {GasPool} : new[c] \in Nat
    BY <1>5, <1>7, <1>8, <2>1
  <2> QED BY <1>8, <1>11, <2>2
<1>13. SumFunction(new) = totalSupply'
  BY <1>1, <1>2, <1>5, <1>7, <1>8
<1>14. TokenAccounts'
  BY <1>1, <1>5, <1>9, <1>11, <1>13 DEF TokenAccounts
<1> QED
  BY <1>1, <1>4, <1>12, <1>14 DEF AccountsInv

(* A call that pays x from one account into another, in which the Stability *)
(* Pool records what it receives or pays.                                   *)
LEMMA PaymentKeepsAccounts ==
  ASSUME LedgerInv, AccountsInv, NEW from \in Accounts, NEW to \in Accounts, NEW x \in Nat,
         from # GasPool, from # to \/ from # SPAddress, x <= arthBalance[from],
         arthBalance' = Plus(Minus(arthBalance, from, x), to, x),
         UNCHANGED <<Troves, totalSupply>>,
         stabilityPool'.totalARTHDeposits = stabilityPool.totalARTHDeposits
           + (IF to = SPAddress THEN x ELSE 0) - (IF from = SPAddress THEN x ELSE 0)
  PROVE  AccountsInv'
<1> DEFINE first == Minus(arthBalance, from, x)
           new == Plus(first, to, x)
           deposits == stabilityPool.totalARTHDeposits
<1>1. /\ arthBalance \in [Accounts -> Nat] /\ totalSupply = SumFunction(arthBalance)
      /\ arthBalance[SPAddress] = deposits
      /\ arthBalance[GasPool] >= Cardinality(ActiveTroves) * ARTH_GAS_COMPENSATION
      /\ totalSupply \in Nat
  BY DEF AccountsInv, TokenAccounts, LedgerInv, LedgerTypeOK
<1>2. /\ first \in [Accounts -> Int] /\ first[from] = arthBalance[from] - x
      /\ \A c \in Accounts \ {from} : first[c] = arthBalance[c]
      /\ SumFunction(first) = SumFunction(arthBalance) - x
  <2>1. arthBalance \in [Accounts -> Int] /\ x \in Int
    BY <1>1
  <2> QED BY <2>1, MinusFacts
<1> HIDE DEF first
<1>3. /\ new \in [Accounts -> Int] /\ new[to] = first[to] + x
      /\ \A c \in Accounts \ {to} : new[c] = first[c]
      /\ SumFunction(new) = SumFunction(first) + x
  <2>1. x \in Int
    OBVIOUS
  <2> QED BY <1>2, <2>1, PlusFacts, SMTT(30)
<1>4. arthBalance' = new
  BY DEF first
<1> HIDE DEF new
<1>5. \A c \in Accounts : first[c] \in Nat
  BY <1>1, <1>2
<1>6. new \in [Accounts -> Nat]
  <2>1. \A c \in Accounts : new[c] \in Nat
    BY <1>3, <1>5
  <2> QED BY <1>3, <2>1
<1>7. SumFunction(new) = totalSupply
  BY <1>1, <1>2, <1>3
<1>8. new[GasPool] >= arthBalance[GasPool] /\ new[GasPool] \in Nat
  <2>1. first[GasPool] = arthBalance[GasPool] /\ GasPool \in Accounts
    BY <1>2, AccountFacts
  <2>2. arthBalance[GasPool] \in Nat
    BY <1>1, <2>1
  <2> QED BY <1>3, <1>6, <2>1, <2>2
<1>9. ActiveTroves' = ActiveTroves /\ TagsAreBorrowers'
  BY DEF AccountsInv, TagsAreBorrowers, ActiveTroves, IsActive
<1>10. new[GasPool] >= Cardinality(ActiveTroves') * ARTH_GAS_COMPENSATION
  <2>1. ReserveOfTroves \in Nat /\ arthBalance[GasPool] \in Nat
    BY <1>1, AccountFacts, ReserveFacts
  <2>2. \A y, z, w \in Nat : y >= z /\ z >= w => y >= w
    OBVIOUS
  <2> QED BY <1>1, <1>8, <1>9, <2>1, <2>2 DEF ReserveOfTroves
<1>11. new[SPAddress] = stabilityPool'.totalARTHDeposits
  <2>1. deposits \in Nat /\ SPAddress \in Accounts
    BY <1>1, AccountFacts
  <2>2. CASE to = SPAddress
    <3>1. from # SPAddress
      BY <2>2
    <3> QED BY <1>1, <1>2, <1>3, <2>1, <2>2, <3>1
  <2>3. CASE to # SPAddress /\ from = SPAddress
    BY <1>1, <1>2, <1>3, <2>1, <2>3
  <2>4. CASE to # SPAddress /\ from # SPAddress
    BY <1>1, <1>2, <1>3, <2>1, <2>4
  <2> QED BY <2>2, <2>3, <2>4
<1>12. TokenAccounts'
  BY <1>4, <1>7, <1>10, <1>11 DEF TokenAccounts
<1> QED
  BY <1>4, <1>6, <1>9, <1>12 DEF AccountsInv

(* A step that moves no ARTH. *)
LEMMA AccountsUnchanged ==
  ASSUME AccountsInv,
         UNCHANGED <<Troves, arthBalance, totalSupply>>,
         stabilityPool'.totalARTHDeposits = stabilityPool.totalARTHDeposits
  PROVE  AccountsInv'
<1>1. ActiveTroves' = ActiveTroves
  BY DEF ActiveTroves, IsActive
<1> QED
  BY <1>1 DEF AccountsInv, TagsAreBorrowers, TokenAccounts

(* The calls of the borrowers keep the accounts. *)
LEMMA BorrowerStepKeepsAccounts ==
  ASSUME LedgerInv, BooksInv, AccountsInv, BorrowerStep
  PROVE  AccountsInv'
<1>1. CASE \E b \in Borrowers : OpenForSelf(b) \/ OpenForOther(b)
  <2>1. CASE \E b \in Borrowers : OpenForSelf(b)
    BY <2>1, OpenKeepsAccounts DEF OpenForSelf
  <2>2. CASE \E b \in Borrowers : OpenForOther(b)
    <3>1. Owner \in Borrowers \cup {Owner}
      OBVIOUS
    <3> QED BY <2>2, <3>1, OpenKeepsAccounts DEF OpenForOther
  <2> QED BY <1>1, <2>1, <2>2
<1>2. CASE \E b \in Borrowers : Adjust(b)
  <2>1. PICK b \in Borrowers, value \in CollChanges \cup {0},
             withdrawal \in CollChanges \cup {0}, change \in DebtChanges \cup {0},
             isDebtIncrease \in BOOLEAN, maxFee \in MaxFees :
          AdjustTrove(b, value, withdrawal, change, isDebtIncrease, maxFee)
    BY <1>2 DEF Adjust
  <2>2. change \in Nat
    BY InputAssumption
  <2>3. stabilityPool' = stabilityPool
    BY <1>2 DEF Adjust
  <2> QED BY <2>1, <2>2, <2>3, AdjustTroveKeepsAccounts
<1>3. CASE \E b \in Borrowers : Close(b)
  BY <1>3, CloseKeepsAccounts DEF Close
<1>4. CASE \E b \in Borrowers : Claim(b)
  <2>1. UNCHANGED <<Troves, arthBalance, totalSupply, stabilityPool>>
    BY <1>4 DEF Claim, ClaimCollateral, BOUnchanged, troveVars, tokenVars
  <2> QED BY <2>1, AccountsUnchanged
<1> QED
  BY <1>1, <1>2, <1>3, <1>4 DEF BorrowerStep

(* The calls of depositors keep the accounts. *)
LEMMA PoolStepKeepsAccounts ==
  ASSUME LedgerInv, AccountsInv, PoolStep
  PROVE  AccountsInv'
<1>1. /\ arthBalance \in [Accounts -> Nat]
      /\ arthBalance[SPAddress] = stabilityPool.totalARTHDeposits
      /\ stabilityPool.totalARTHDeposits \in Nat
  BY DEF AccountsInv, TokenAccounts, LedgerInv, LedgerTypeOK
<1>2. CASE \E a \in Borrowers \cup {Owner} : Deposit(a)
  <2>1. PICK a \in Borrowers \cup {Owner}, amount \in DepositAmounts, share \in Shares :
          ProvideToSP(a, amount, Part(share, stabilityPool.ETH))
    BY <1>2 DEF Deposit
  <2>2. /\ arthBalance[a] >= amount
        /\ arthBalance' = Plus(Minus(arthBalance, a, amount), SPAddress, amount)
        /\ stabilityPool'.totalARTHDeposits = stabilityPool.totalARTHDeposits + amount
        /\ UNCHANGED <<Troves, totalSupply>>
    BY <2>1 DEF ProvideToSP, PoolCallUnchanged, troveVars
  <2>3. /\ amount \in Nat /\ a \in Accounts /\ SPAddress \in Accounts
        /\ a # GasPool /\ a # SPAddress
    BY InputAssumption, AccountFacts
  <2>4. arthBalance[a] \in Nat
    BY <1>1, <2>3
  <2>5. amount <= arthBalance[a]
    BY <2>2, <2>3, <2>4
  <2>6. stabilityPool'.totalARTHDeposits = stabilityPool.totalARTHDeposits
           + (IF SPAddress = SPAddress THEN amount ELSE 0) - (IF a = SPAddress THEN amount ELSE 0)
    BY <1>1, <2>2, <2>3
  <2> QED BY <2>2, <2>3, <2>5, <2>6, PaymentKeepsAccounts
<1>3. CASE \E b \in Borrowers : Withdraw(b)
  <2>1. PICK b \in Borrowers, amount \in DepositAmounts \cup {0}, share \in Shares,
             gainShare \in Shares :
          WithdrawFromSP(b, amount, Part(share, stabilityPool.totalARTHDeposits),
                         Part(gainShare, stabilityPool.ETH))
    BY <1>3 DEF Withdraw
  <2> DEFINE deposit == Part(share, stabilityPool.totalARTHDeposits)
             withdrawn == MinOf(amount, deposit)
  <2>2. /\ deposit \in 0..stabilityPool.totalARTHDeposits
        /\ arthBalance' = Plus(Minus(arthBalance, SPAddress, withdrawn), b, withdrawn)
        /\ stabilityPool'.totalARTHDeposits = stabilityPool.totalARTHDeposits - withdrawn
        /\ UNCHANGED <<Troves, totalSupply>>
    BY <2>1 DEF WithdrawFromSP, PoolCallUnchanged, troveVars
  <2>3. /\ amount \in Nat /\ b \in Accounts /\ SPAddress \in Accounts
        /\ SPAddress # GasPool /\ b # SPAddress
    BY InputAssumption, AccountFacts
  <2> HIDE DEF deposit
  <2>4. withdrawn \in Nat /\ withdrawn <= arthBalance[SPAddress]
    BY <1>1, <2>2, <2>3 DEF MinOf
  <2> HIDE DEF withdrawn
  <2>5. stabilityPool'.totalARTHDeposits = stabilityPool.totalARTHDeposits
           + (IF b = SPAddress THEN withdrawn ELSE 0)
           - (IF SPAddress = SPAddress THEN withdrawn ELSE 0)
    BY <1>1, <2>2, <2>3, <2>4
  <2> QED BY <2>2, <2>3, <2>4, <2>5, PaymentKeepsAccounts
<1>4. CASE \E b \in Borrowers : GainToTrove(b)
  <2>1. PICK b \in Borrowers, share \in Shares :
          WithdrawETHGainToTrove(b, Part(share, stabilityPool.ETH))
    BY <1>4 DEF GainToTrove
  <2> DEFINE gain == Part(share, stabilityPool.ETH)
  <2>2. /\ AdjustTrove(b, gain, 0, 0, FALSE, 0)
        /\ stabilityPool' = [stabilityPool EXCEPT !.ETH = @ - gain]
    BY <2>1 DEF WithdrawETHGainToTrove
  <2>3. stabilityPool'.totalARTHDeposits = stabilityPool.totalARTHDeposits
    BY <2>2 DEF LedgerInv, LedgerTypeOK
  <2>4. PICK no \in BOOLEAN : no = FALSE
    OBVIOUS
  <2>5. AdjustTrove(b, gain, 0, 0, no, 0) /\ 0 \in Nat
    BY <2>2, <2>4
  <2> QED BY <2>3, <2>5, AdjustTroveKeepsAccounts
<1> QED
  BY <1>2, <1>3, <1>4 DEF PoolStep

(* The accounts new after from has paid x and the gas pool the reserves of *)
(* the troves S.                                                           *)
Released(new, S, from, x) ==
  /\ new \in [Accounts -> Nat]
  /\ SumFunction(new) = totalSupply - x - Cardinality(S) * ARTH_GAS_COMPENSATION
  /\ new[from] = arthBalance[from] - x
  /\ \A c \in Accounts \ {from, GasPool} : new[c] = arthBalance[c]
  /\ new[GasPool] >= Cardinality(ActiveTroves \ S) * ARTH_GAS_COMPENSATION

(* The accounts after the reserves of the troves of S are burnt or paid out *)
(* of the gas pool, and x leaves another account.                           *)
LEMMA ReleaseFacts ==
  ASSUME LedgerInv, AccountsInv, NEW S \in SUBSET ActiveTroves, NEW from \in Accounts,
         from # GasPool, NEW x \in Nat, x <= arthBalance[from],
         NEW gas \in Nat, gas = Cardinality(S) * ARTH_GAS_COMPENSATION
  PROVE  Released(Minus(Minus(arthBalance, from, x), GasPool, gas), S, from, x)
<1> DEFINE first == Minus(arthBalance, from, x)
           new == Minus(first, GasPool, gas)
           rest == Cardinality(ActiveTroves \ S) * ARTH_GAS_COMPENSATION
<1>1. /\ arthBalance \in [Accounts -> Nat] /\ totalSupply = SumFunction(arthBalance)
      /\ arthBalance[GasPool] >= ReserveOfTroves
      /\ totalSupply \in Nat /\ GasPool \in Accounts
  BY AccountFacts DEF AccountsInv, TokenAccounts, LedgerInv, LedgerTypeOK, ReserveOfTroves
<1>2. /\ first \in [Accounts -> Int] /\ first[from] = arthBalance[from] - x
      /\ \A c \in Accounts \ {from} : first[c] = arthBalance[c]
      /\ SumFunction(first) = SumFunction(arthBalance) - x
  <2>1. arthBalance \in [Accounts -> Int] /\ x \in Int
    BY <1>1
  <2> QED BY <2>1, MinusFacts
<1> HIDE DEF first
<1>3. /\ new \in [Accounts -> Int] /\ new[GasPool] = first[GasPool] - gas
      /\ \A c \in Accounts \ {GasPool} : new[c] = first[c]
      /\ SumFunction(new) = SumFunction(first) - gas
  <2>1. gas \in Int
    OBVIOUS
  <2> QED BY <1>1, <1>2, <2>1, MinusFacts
<1> HIDE DEF new
<1>4. rest = ReserveOfTroves - gas /\ rest \in Nat /\ ReserveOfTroves \in Nat
  <2>1. rest = ReserveOfTroves - gas
    BY ReserveFacts
  <2>2. ActiveTroves \ S \in SUBSET ActiveTroves
    OBVIOUS
  <2> QED BY <2>1, <2>2, ReserveFacts
<1> HIDE DEF rest
<1>5. new[GasPool] \in Nat /\ new[GasPool] >= rest
  <2>1. first[GasPool] = arthBalance[GasPool] /\ arthBalance[GasPool] \in Nat
    BY <1>1, <1>2
  <2> QED BY <1>1, <1>3, <1>4, <2>1
<1>6. new \in [Accounts -> Nat]
  <2>1. \A c \in Accounts : first[c] \in Nat
    BY <1>1, <1>2
  <2>2. \A c \in Accounts : new[c] \in Nat
    BY <1>3, <1>5, <2>1
  <2> QED BY <1>3, <2>2
<1>7. new[from] = arthBalance[from] - x /\ \A c \in Accounts \ {from, GasPool} : new[c] = arthBalance[c]
  BY <1>2, <1>3
<1>8. SumFunction(new) = totalSupply - x - gas
  BY <1>1, <1>2, <1>3
<1> QED
  BY <1>5, <1>6, <1>7, <1>8 DEF Released, new, first, rest

(* Tags and statuses of the troves that stay. *)
LEMMA ReleasedHold ==
  ASSUME AccountsInv, NEW S \in SUBSET ActiveTroves, NEW new \in [Accounts -> Nat],
         arthBalance' = new, ActiveTroves' = ActiveTroves \ S,
         new[GasPool] >= Cardinality(ActiveTroves \ S) * ARTH_GAS_COMPENSATION,
         SumFunction(new) = totalSupply',
         new[SPAddress] = stabilityPool'.totalARTHDeposits,
         \A b \in Borrowers : Troves'[b].frontEndTag = Troves[b].frontEndTag
  PROVE  AccountsInv'
BY DEF AccountsInv, TokenAccounts, TagsAreBorrowers

(* A liquidation cancels ARTH of the Stability Pool and hands the reserves *)
(* of the closed troves to the caller.                                     *)
LEMMA LiquidationKeepsAccounts ==
  ASSUME LedgerInv, BooksInv, AccountsInv, LiquidateStep
  PROVE  AccountsInv'
<1>1. PICK run, liquidator : /\ RunInv(run, InRecoveryMode(price), price)
                             /\ liquidator \in Liquidators
                             /\ ApplyLiquidation(run, liquidator)
  BY LiquidateStepRun
<1>2. RunBooks(run, InRecoveryMode(price), price)
  BY <1>1 DEF RunInv
<1> DEFINE S == Closed(run)
           x == run.totals.debtToOffset
           gas == run.totals.ARTHGasCompensation
           released == Minus(Minus(arthBalance, SPAddress, x), GasPool, gas)
           new == Plus(released, liquidator, gas)
<1>3. /\ arthBalance' = new
      /\ totalSupply' = totalSupply - x
      /\ stabilityPool'.totalARTHDeposits = stabilityPool.totalARTHDeposits - x
      /\ x <= arthBalance[SPAddress]
      /\ Troves' = [b \in Borrowers |->
           IF b \in S THEN ClosedTrove(b, "closedByLiquidation") ELSE Troves[b]]
  BY <1>1 DEF ApplyLiquidation, LiquidationArithmetic
<1>4. /\ run.closed \in Seq(ActiveTroves) /\ IsInjective(run.closed) /\ S = ToSet(run.closed)
      /\ x \in Nat /\ gas \in Nat /\ gas = Len(run.closed) * ARTH_GAS_COMPENSATION
  BY <1>2 DEF RunBooks, LiquidationRuns, LiquidationTotals, TotalsAddUp, Closed
<1>5. S \in SUBSET ActiveTroves /\ gas = Cardinality(S) * ARTH_GAS_COMPENSATION
  BY <1>4, ListFacts, DistinctCount
<1>6. Closes(run.closed)
  BY <1>1, <1>2, LiquidationCloses
<1>7. ActiveTroves' = ActiveTroves \ S
  BY <1>4, <1>6 DEF Closes, ActiveTroves, IsActive
<1>8. \A b \in Borrowers : Troves'[b].frontEndTag = Troves[b].frontEndTag
  <2> TAKE b \in Borrowers
  <2>1. CASE b \in S
    <3>1. Troves[b] \in TroveType
      BY DEF LedgerInv, LedgerTypeOK, TroveType
    <3>2. Troves'[b] = ClosedTrove(b, "closedByLiquidation")
      BY <1>3, <2>1
    <3> QED BY <3>1, <3>2 DEF ClosedTrove, TroveType
  <2>2. CASE b \notin S
    BY <1>3, <2>2
  <2> QED BY <2>1, <2>2
<1> HIDE DEF S, x, gas
<1>9. /\ SPAddress \in Accounts /\ SPAddress # GasPool /\ liquidator \in Accounts
      /\ liquidator # SPAddress /\ liquidator # GasPool /\ GasPool \in Accounts
  BY <1>1, InputAssumption, AccountFacts
<1>10. Released(released, S, SPAddress, x)
  BY <1>3, <1>4, <1>5, <1>9, ReleaseFacts
<1> HIDE DEF released
<1>11. /\ new \in [Accounts -> Int] /\ new[liquidator] = released[liquidator] + gas
       /\ \A c \in Accounts \ {liquidator} : new[c] = released[c]
       /\ SumFunction(new) = SumFunction(released) + gas
  <2>1. released \in [Accounts -> Int] /\ gas \in Int
    BY <1>4, <1>10 DEF Released
  <2> QED BY <1>9, <2>1, PlusFacts
<1> HIDE DEF new
<1>12. new \in [Accounts -> Nat]
  <2>1. \A c \in Accounts : released[c] \in Nat
    BY <1>10 DEF Released
  <2>2. \A c \in Accounts : new[c] \in Nat
    BY <1>4, <1>11, <2>1
  <2> QED BY <1>11, <2>2
<1>13. SumFunction(new) = totalSupply'
  <2>1. SumFunction(released) = totalSupply - x - gas /\ totalSupply \in Nat
    BY <1>5, <1>10 DEF Released, LedgerInv, LedgerTypeOK
  <2> QED BY <1>3, <1>4, <1>11, <2>1
<1>14. new[SPAddress] = stabilityPool'.totalARTHDeposits
  <2>1. released[SPAddress] = arthBalance[SPAddress] - x
    BY <1>10 DEF Released
  <2>2. arthBalance[SPAddress] = stabilityPool.totalARTHDeposits
    BY DEF AccountsInv, TokenAccounts
  <2> QED BY <1>3, <1>9, <1>11, <2>1, <2>2
<1>15. new[GasPool] >= Cardinality(ActiveTroves \ S) * ARTH_GAS_COMPENSATION
  BY <1>9, <1>10, <1>11 DEF Released
<1> QED
  BY <1>3, <1>5, <1>7, <1>8, <1>12, <1>13, <1>14, <1>15, ReleasedHold

(* A redemption burns ARTH of the caller and the reserves of the troves it *)
(* closes.                                                                 *)
LEMMA RedemptionKeepsAccounts ==
  ASSUME LedgerInv, BooksInv, AccountsInv, RedeemStep
  PROVE  AccountsInv'
<1>1. PICK run, redeemer : /\ RedemptionBooks(run, price) /\ redeemer \in Redeemers
                           /\ Redeems(run, redeemer)
  BY RedeemStepRun
<1> DEFINE S == ClosedBy(run)
           x == run.redeemed
           gas == ReserveOf(run)
           new == Minus(Minus(arthBalance, redeemer, x), GasPool, gas)
<1>2. /\ redeemer \in Accounts /\ redeemer # GasPool /\ redeemer # SPAddress
      /\ SPAddress # GasPool /\ SPAddress \in Accounts
  BY <1>1, InputAssumption, AccountFacts
<1>3. /\ arthBalance \in [Accounts -> Nat]
      /\ arthBalance[SPAddress] = stabilityPool.totalARTHDeposits
  BY DEF AccountsInv, TokenAccounts
<1>4. /\ run \in RedemptionRuns /\ run.closed \in Seq(ActiveTroves) /\ IsInjective(run.closed)
      /\ S = ToSet(run.closed)
  BY <1>1 DEF RedemptionBooks, RedemptionRuns, ClosedBy
<1>5. /\ arthBalance' = new
      /\ totalSupply' = totalSupply - x - gas
      /\ stabilityPool' = stabilityPool
      /\ x \in Nat /\ gas \in Nat
      /\ Troves' = [b \in Borrowers |-> TroveAfter(run, b)]
  BY <1>1 DEF Redeems, RedemptionArithmetic
<1>6. x <= arthBalance[redeemer]
  BY <1>1, <1>2, <1>3 DEF Redeems
<1>7. S \in SUBSET ActiveTroves /\ gas = Cardinality(S) * ARTH_GAS_COMPENSATION
  BY <1>4, ListFacts, DistinctCount DEF ReserveOf
<1>8. ActiveTroves' = ActiveTroves \ S
  <2>1. MinimumDebtKept
    BY DEF BooksInv
  <2>2. \A b \in Borrowers :
          /\ b \in S => TroveAfter(run, b).status # "active"
          /\ b \notin S => TroveAfter(run, b).status = Troves[b].status
    BY <1>1, <2>1, AfterStatus
  <2> QED BY <1>5, <2>2 DEF ActiveTroves, IsActive
<1>9. \A b \in Borrowers : Troves'[b].frontEndTag = Troves[b].frontEndTag
  <2> TAKE b \in Borrowers
  <2>1. Troves[b] \in TroveType
    BY DEF LedgerInv, LedgerTypeOK, TroveType
  <2>2. Troves'[b] = TroveAfter(run, b)
    BY <1>5
  <2>3. TroveAfter(run, b).frontEndTag = Troves[b].frontEndTag
    BY <2>1 DEF TroveAfter, ClosedTrove, TroveType
  <2> QED BY <2>2, <2>3
<1> HIDE DEF S, x, gas
<1>10. Released(new, S, redeemer, x)
  BY <1>2, <1>5, <1>6, <1>7, ReleaseFacts
<1> HIDE DEF new
<1>11. /\ new \in [Accounts -> Nat]
       /\ SumFunction(new) = totalSupply'
       /\ new[GasPool] >= Cardinality(ActiveTroves \ S) * ARTH_GAS_COMPENSATION
  BY <1>5, <1>7, <1>10 DEF Released
<1>12. new[SPAddress] = stabilityPool'.totalARTHDeposits
  BY <1>2, <1>3, <1>5, <1>10 DEF Released
<1> QED
  BY <1>5, <1>7, <1>8, <1>9, <1>11, <1>12, ReleasedHold

(* Transfers, governance, time and the price keep the accounts. *)
LEMMA OtherStepsKeepAccounts ==
  ASSUME LedgerInv, AccountsInv, GovernanceStep \/ EnvironmentStep
  PROVE  AccountsInv'
<1>1. CASE GovernanceStep
  <2>1. UNCHANGED <<Troves, arthBalance, totalSupply, stabilityPool>>
    BY <1>1 DEF GovernanceStep, Register, RegisterFrontEnd, SetAllowMinting,
                SetMaxDebtCeiling, ledgers, troveVars, tokenVars
  <2> QED BY <2>1, AccountsUnchanged
<1>2. CASE AnyTransfer
  <2>1. PICK from \in Borrowers \cup {Owner, Fund}, to \in Accounts,
             amount \in TransferAmounts : Transfer(from, to, amount)
    BY <1>2 DEF AnyTransfer
  <2>2. /\ to # SPAddress /\ arthBalance[from] >= amount
        /\ arthBalance' = Plus(Minus(arthBalance, from, amount), to, amount)
        /\ UNCHANGED <<Troves, totalSupply, stabilityPool>>
    BY <2>1 DEF Transfer, troveVars
  <2>3. from \in Accounts /\ from # GasPool /\ from # SPAddress /\ amount \in Nat
    BY InputAssumption, AccountFacts
  <2>4. amount <= arthBalance[from]
    <3>1. arthBalance[from] \in Nat
      BY <2>3 DEF AccountsInv
    <3> QED BY <2>2, <2>3, <3>1
  <2>5. stabilityPool'.totalARTHDeposits = stabilityPool.totalARTHDeposits
           + (IF to = SPAddress THEN amount ELSE 0) - (IF from = SPAddress THEN amount ELSE 0)
    <3>1. stabilityPool.totalARTHDeposits \in Nat
      BY DEF LedgerInv, LedgerTypeOK
    <3> QED BY <2>2, <2>3, <3>1
  <2> QED BY <2>2, <2>3, <2>4, <2>5, PaymentKeepsAccounts
<1>3. CASE (\E p \in Prices : SetPrice(p)) \/ (\E seconds \in TimeSteps : Tick(seconds))
  <2>1. UNCHANGED <<Troves, arthBalance, totalSupply, stabilityPool>>
    BY <1>3 DEF SetPrice, Tick, ledgers, troveVars, tokenVars
  <2> QED BY <2>1, AccountsUnchanged
<1> QED
  BY <1>1, <1>2, <1>3 DEF EnvironmentStep

(* Every step keeps the accounts. *)
LEMMA NextKeepsAccounts == LedgerInv /\ BooksInv /\ AccountsInv /\ [Next]_vars => AccountsInv'
<1> SUFFICES ASSUME LedgerInv, BooksInv, AccountsInv, [Next]_vars PROVE AccountsInv'
  OBVIOUS
<1>1. CASE UNCHANGED vars
  <2>1. UNCHANGED <<Troves, arthBalance, totalSupply, stabilityPool>>
    BY <1>1 DEF vars, troveVars, tokenVars
  <2> QED BY <2>1, AccountsUnchanged
<1>2. CASE BorrowerStep
  BY <1>2, BorrowerStepKeepsAccounts
<1>3. CASE PoolStep
  BY <1>3, PoolStepKeepsAccounts
<1>4. CASE LiquidateStep
  BY <1>4, LiquidationKeepsAccounts
<1>5. CASE RedeemStep
  BY <1>5, RedemptionKeepsAccounts
<1>6. CASE GovernanceStep \/ EnvironmentStep
  BY <1>6, OtherStepsKeepAccounts
<1> QED
  BY <1>1, <1>2, <1>3, <1>4, <1>5, <1>6 DEF Next

(* Nobody holds ARTH in the initial state. *)
LEMMA InitEstablishesAccounts ==
  ASSUME Init
  PROVE  AccountsInv
<1>1. /\ Troves = [b \in Borrowers |-> NoTrove]
      /\ arthBalance = [a \in Accounts |-> 0] /\ totalSupply = 0
      /\ stabilityPool.totalARTHDeposits = 0
  BY DEF Init, CoreInit
<1>2. ActiveTroves = {}
  BY <1>1 DEF ActiveTroves, IsActive, NoTrove
<1>3. Cardinality(ActiveTroves) * ARTH_GAS_COMPENSATION = 0
  <2>1. Cardinality(ActiveTroves) = 0
    BY <1>2, FS_EmptySet
  <2>2. ARTH_GAS_COMPENSATION \in Nat
    BY DebtAssumption
  <2> QED BY <2>1, <2>2
<1>4. SumFunction(arthBalance) = 0
  <2>1. DOMAIN arthBalance = Accounts /\ \A a \in Accounts : arthBalance[a] = 0
    BY <1>1
  <2>2. SumFunctionOnSet(arthBalance, Accounts) = 0
    BY <2>1, AccountFacts, SumOfZeros
  <2> QED BY <2>1, <2>2 DEF SumFunction
<1>5. arthBalance[SPAddress] = 0 /\ arthBalance[GasPool] = 0 /\ arthBalance \in [Accounts -> Nat]
  BY <1>1, AccountFacts
<1>6. TagsAreBorrowers
  BY <1>1 DEF TagsAreBorrowers, NoTrove
<1> QED
  BY <1>1, <1>3, <1>4, <1>5, <1>6 DEF AccountsInv, TokenAccounts

------------------------------------------------------------------------------
(* The base rate, its clock and the switches of governance. *)

FeeInv ==
  /\ baseRate \in 0..DECIMAL_PRECISION
  /\ now \in Nat /\ lastFeeOperationTime \in 0..now
  /\ maxDebtCeiling \in Nat /\ allowMinting \in BOOLEAN

(* A fee operation stores the rate it has computed, and the time now or    *)
(* that of an earlier one.                                                 *)
FeeOperation ==
  /\ \/ UNCHANGED feeVars
     \/ baseRate' \in 0..DECIMAL_PRECISION /\ lastFeeOperationTime' = NextFeeOpTime
  /\ UNCHANGED <<now, governanceVars>>

(* An operation that decays the base rate and moves its clock keeps their *)
(* types.                                                                 *)
LEMMA FeeOperationKeepsFees ==
  ASSUME FeeInv, FeeOperation
  PROVE  FeeInv'
<1>1. NextFeeOpTime \in 0..now
  BY DEF NextFeeOpTime, FeeInv
<1> QED
  BY <1>1 DEF FeeInv, FeeOperation, feeVars, governanceVars

(* No call moves the clock ahead of the time, or the rate out of its range. *)
LEMMA CallsAreFeeOperations ==
  ASSUME LedgerInv, BooksInv, BorrowerStep \/ PoolStep \/ LiquidateStep \/ RedeemStep
  PROVE  FeeOperation
<1>1. ASSUME NEW who, NEW recipient, Open(who, recipient)
      PROVE  FeeOperation
  <2>1. PICK value \in Collaterals, amount \in OpenAmounts, maxFee \in MaxFees,
             tag \in frontEnds \cup {NoFrontEnd} :
          OpenTrove(who, recipient, value, amount, maxFee, tag)
    BY <1>1 DEF Open
  <2>2. /\ InRecoveryMode(price) \/ DecayedBaseRate \in 0..DECIMAL_PRECISION
        /\ DecayBaseRate(~InRecoveryMode(price))
        /\ UNCHANGED <<now, governanceVars>>
    BY <2>1 DEF OpenTrove, BorrowingFeeAccepted, BOUnchanged, envVars
  <2> QED BY <2>2 DEF DecayBaseRate, FeeOperation
<1>2. ASSUME NEW b, NEW value, NEW withdrawal, NEW change, NEW isDebtIncrease, NEW maxFee,
             AdjustTrove(b, value, withdrawal, change, isDebtIncrease, maxFee)
      PROVE  FeeOperation
  <2> DEFINE charged == isDebtIncrease /\ ~InRecoveryMode(price)
  <2>1. /\ charged => DecayedBaseRate \in 0..DECIMAL_PRECISION
        /\ DecayBaseRate(charged)
        /\ UNCHANGED <<now, governanceVars>>
    BY <1>2 DEF AdjustTrove, BorrowingFeeAccepted, BOUnchanged, envVars
  <2> QED BY <2>1 DEF DecayBaseRate, FeeOperation
<1>3. CASE BorrowerStep
  <2>1. PICK b \in Borrowers : \/ OpenForSelf(b) \/ OpenForOther(b) \/ Adjust(b)
                               \/ Close(b) \/ Claim(b)
    BY <1>3 DEF BorrowerStep
  <2>2. CASE OpenForSelf(b) \/ OpenForOther(b)
    BY <1>1, <2>2 DEF OpenForSelf, OpenForOther
  <2>3. CASE Adjust(b)
    BY <1>2, <2>3 DEF Adjust
  <2>4. CASE Close(b) \/ Claim(b)
    BY <2>4 DEF Close, CloseTrove, Claim, ClaimCollateral, BOUnchanged, envVars, FeeOperation
  <2> QED BY <2>1, <2>2, <2>3, <2>4
<1>4. CASE PoolStep
  <2>1. CASE \E b \in Borrowers : GainToTrove(b)
    BY <1>2, <2>1 DEF GainToTrove, WithdrawETHGainToTrove
  <2>2. CASE (\E a \in Borrowers \cup {Owner} : Deposit(a)) \/ (\E b \in Borrowers : Withdraw(b))
    BY <2>2 DEF Deposit, ProvideToSP, Withdraw, WithdrawFromSP, PoolCallUnchanged, coreRest,
                envVars, FeeOperation
  <2> QED BY <1>4, <2>1, <2>2 DEF PoolStep
<1>5. CASE LiquidateStep
  BY <1>5 DEF LiquidateStep, LiquidateTroves, BatchLiquidateTroves, Liquidate,
              ApplyLiquidation, coreRest, envVars, FeeOperation
<1>6. CASE RedeemStep
  <2>1. PICK run, redeemer : Redeems(run, redeemer)
    BY <1>6, RedeemStepRun
  <2> QED BY <2>1 DEF Redeems, coreRest, FeeOperation
<1> QED
  BY <1>3, <1>4, <1>5, <1>6

(* Every step keeps the types of the fees and of the governance. *)
LEMMA NextKeepsFees == LedgerInv /\ BooksInv /\ FeeInv /\ [Next]_vars => FeeInv'
<1> SUFFICES ASSUME LedgerInv, BooksInv, FeeInv, [Next]_vars PROVE FeeInv'
  OBVIOUS
<1>1. CASE UNCHANGED vars
  BY <1>1 DEF vars, feeVars, envVars, governanceVars, FeeInv
<1>2. CASE BorrowerStep \/ PoolStep \/ LiquidateStep \/ RedeemStep
  BY <1>2, CallsAreFeeOperations, FeeOperationKeepsFees
<1>3. CASE GovernanceStep
  <2>1. UNCHANGED <<feeVars, now>>
    BY <1>3 DEF GovernanceStep, Register, RegisterFrontEnd, BOUnchanged, SetAllowMinting,
                SetMaxDebtCeiling, ledgers, envVars
  <2>2. maxDebtCeiling' \in Nat /\ allowMinting' \in BOOLEAN
    BY <1>3, InputAssumption
       DEF GovernanceStep, Register, RegisterFrontEnd, BOUnchanged, SetAllowMinting,
           SetMaxDebtCeiling, governanceVars, FeeInv
  <2> QED BY <2>1, <2>2 DEF FeeInv, feeVars
<1>4. CASE EnvironmentStep
  <2>1. UNCHANGED <<feeVars, governanceVars>>
    BY <1>4 DEF EnvironmentStep, AnyTransfer, Transfer, coreRest, SetPrice, Tick, ledgers
  <2>2. now' \in Nat /\ now' >= now
    BY <1>4, InputAssumption
       DEF EnvironmentStep, AnyTransfer, Transfer, SetPrice, Tick, envVars, FeeInv
  <2> QED BY <2>1, <2>2 DEF FeeInv, feeVars, governanceVars
<1> QED
  BY <1>1, <1>2, <1>3, <1>4 DEF Next

(* Both stay true. *)
LEMMA TokenHolds == Spec => [](AccountsInv /\ FeeInv)
<1>1. Init => AccountsInv /\ FeeInv
  <2>1. Init => FeeInv
    BY InputAssumption, PrecisionAssumption DEF Init, CoreInit, FeeInv
  <2> QED BY <2>1, InitEstablishesAccounts
<1>2. LedgerInv /\ BooksInv /\ AccountsInv /\ FeeInv /\ [Next]_vars => (AccountsInv /\ FeeInv)'
  BY NextKeepsAccounts, NextKeepsFees
<1> QED
  BY <1>1, <1>2, BooksHold, PTL DEF Spec

(* The accounts of the token always add up, and cover the deposits and the *)
(* reserves; every part of the state keeps its type.                       *)
THEOREM TokenAlwaysAddsUp == Spec => []TokenInv
<1>1. LedgerInv /\ BooksInv /\ AccountsInv /\ FeeInv => TypeOK /\ TokenAccounts
  <2> SUFFICES ASSUME LedgerInv, BooksInv, AccountsInv, FeeInv
               PROVE  TypeOK /\ TokenAccounts
    OBVIOUS
  <2>1. TroveOwners \in Seq(Borrowers) /\ arrayIndex \in [Borrowers -> Nat]
    BY DEF BooksInv, ArrayOf
  <2>2. sortedTroves \in Seq(Borrowers)
    BY DEF BooksInv, ListInv
  <2>3. frontEnds \subseteq Accounts
    BY AccountFacts DEF LedgerInv
  <2> QED BY <2>1, <2>2, <2>3 DEF TypeOK, LedgerInv, AccountsInv, FeeInv
<1> QED
  BY <1>1, BooksHold, TokenHolds, FrontEndsStayOut, PTL DEF TokenInv

------------------------------------------------------------------------------
(* Liquidations that may not be blocked. *)

(* A part of a sum of amounts is no larger than the sum. *)
LEMMA PartOfSum ==
  ASSUME NEW f, NEW T, IsFiniteSet(T), NEW S \in SUBSET T, \A x \in T : f[x] \in Nat
  PROVE  /\ SumFunctionOnSet(f, S) <= SumFunctionOnSet(f, T)
         /\ SumFunctionOnSet(f, S) \in Nat /\ SumFunctionOnSet(f, T) \in Nat
         /\ SumFunctionOnSet(f, T) = SumFunctionOnSet(f, S) + SumFunctionOnSet(f, T \ S)
         /\ SumFunctionOnSet(f, T \ S) \in Nat
<1>1. IsFiniteSet(S) /\ IsFiniteSet(T \ S)
  BY FS_Subset
<1>2. /\ SumFunctionOnSet(f, S) \in Nat /\ SumFunctionOnSet(f, T \ S) \in Nat
      /\ SumFunctionOnSet(f, T) \in Nat
  BY <1>1, SumNat
<1>3. SumFunctionOnSet(f, T) = SumFunctionOnSet(f, S) + SumFunctionOnSet(f, T \ S)
  BY SumSplit
<1> QED
  BY <1>2, <1>3

(* A pool that covers the rewards of T can pay those of its part S.        *)
LEMMA RewardsFitThePool ==
  ASSUME NEW T, IsFiniteSet(T), NEW S \in SUBSET T, NEW reward, NEW term,
         NEW k \in Nat \ {0}, NEW pool \in Nat, NEW err \in Nat,
         \A x \in T : term[x] \in Nat,
         \A x \in S : reward[x] \in Nat /\ reward[x] * k <= term[x],
         pool * k >= err + SumFunctionOnSet(term, T)
  PROVE  SumFunctionOnSet(reward, S) <= pool /\ SumFunctionOnSet(reward, S) \in Nat
<1> DEFINE h == [x \in S |-> reward[x] * k]
           r == SumFunctionOnSet(reward, S)
           t == SumFunctionOnSet(term, T)
<1>1. IsFiniteSet(S)
  BY FS_Subset
<1>2. \A x \in S : reward[x] \in Int /\ h[x] = reward[x] * k
  OBVIOUS
<1>3. \A x \in S : h[x] \in Int /\ term[x] \in Int /\ h[x] <= term[x]
  <2>1. \A u \in Nat : u * k \in Int
    OBVIOUS
  <2> QED BY <2>1
<1> HIDE DEF h
<1>4. SumFunctionOnSet(h, S) = r * k
  BY <1>1, <1>2, SumScale
<1>5. SumFunctionOnSet(h, S) <= SumFunctionOnSet(term, S)
  BY <1>1, <1>3, SumMonotone
<1>6. SumFunctionOnSet(term, S) <= t /\ SumFunctionOnSet(term, S) \in Nat /\ t \in Nat
  BY PartOfSum
<1>7. r \in Nat
  BY <1>1, SumNat
<1>8. pool * k >= err + t
  OBVIOUS
<1> HIDE DEF r, t
<1>9. r * k <= pool * k
  <2>1. r * k \in Nat /\ pool * k \in Nat
    BY <1>7, NatProduct
  <2> QED BY <1>4, <1>5, <1>6, <1>8, <2>1
<1>10. r <= pool
  <2>1. SUFFICES ASSUME pool + 1 <= r PROVE FALSE
    BY <1>7
  <2>2. (pool + 1) * k <= r * k /\ (pool + 1) * k = pool * k + k
    BY <1>7, <2>1, NatProduct
  <2>3. pool * k \in Nat /\ r * k \in Nat
    BY <1>7, NatProduct
  <2> QED BY <1>9, <2>2, <2>3
<1> QED BY <1>7, <1>10 DEF r

(* Rounding has left no trove without a stake. *)
TrovesHaveStakes == \A b \in ActiveTroves : Troves[b].stake > 0

(* The owners are counted by their array. *)
LEMMA OwnersCounted ==
  ASSUME BooksInv
  PROVE  Len(TroveOwners) = Cardinality(ActiveTroves) /\ Len(TroveOwners) \in Nat
<1> DEFINE arr == [owners |-> TroveOwners, index |-> arrayIndex]
<1>1. ArrayOf(arr, ActiveTroves) /\ arr.owners = TroveOwners
  BY DEF BooksInv
<1> HIDE DEF arr
<1>2. TroveOwners \in Seq(Borrowers) /\ ToSet(TroveOwners) = ActiveTroves
      /\ IsInjective(TroveOwners)
  BY <1>1, ArrayIsDistinct DEF ArrayOf
<1> QED
  BY <1>2, DistinctCount, ListFacts

(* A liquidation that leaves a trove leaves a stake to redistribute to. *)
LEMMA StakesAreLeft ==
  ASSUME LedgerInv, BooksInv, TrovesHaveStakes, NEW recovery, NEW p, NEW run,
         RunBooks(run, recovery, p), Len(run.closed) < Len(TroveOwners)
  PROVE  run.stakes < totalStakes /\ run.stakes \in Nat
<1> DEFINE S == Closed(run)
<1>1. /\ run.closed \in Seq(ActiveTroves) /\ IsInjective(run.closed)
      /\ S = ToSet(run.closed)
  BY DEF RunBooks, LiquidationRuns, Closed
<1>2. S \in SUBSET Borrowers /\ run.stakes = SumFunctionOnSet(StakeOf, S)
  BY LiquidatedAmounts
<1>3. Cardinality(S) = Len(run.closed) /\ Cardinality(S) < Cardinality(ActiveTroves)
  BY <1>1, DistinctCount, OwnersCounted
<1> HIDE DEF S
<1>4. PICK c \in ActiveTroves : c \notin S
  <2>1. SUFFICES ASSUME ActiveTroves \subseteq S PROVE FALSE
    OBVIOUS
  <2>2. S \subseteq ActiveTroves
    BY <1>1, ListFacts
  <2>3. S = ActiveTroves /\ Cardinality(ActiveTroves) \in Nat
    BY <2>1, <2>2, ReserveFacts
  <2> QED BY <1>3, <2>3
<1>5. c \in Borrowers \ S /\ StakeOf[c] > 0
  BY <1>4, RecordedAmounts, ActiveTrovesFinite DEF TrovesHaveStakes
<1>6. \A b \in Borrowers : StakeOf[b] \in Nat
  BY RecordedAmounts
<1>7. totalStakes = SumFunctionOnSet(StakeOf, Borrowers)
  BY RecordedAmounts, StakesAddUpIs DEF BooksInv
<1>8. /\ SumFunctionOnSet(StakeOf, Borrowers)
           = SumFunctionOnSet(StakeOf, S) + SumFunctionOnSet(StakeOf, Borrowers \ S)
      /\ SumFunctionOnSet(StakeOf, S) \in Nat
  <2>1. IsFiniteSet(Borrowers) /\ S \in SUBSET Borrowers
    BY <1>2, ActiveTrovesFinite
  <2>2. SumFunctionOnSet(StakeOf, S) \in Nat
    BY <1>6, <2>1, PartOfSum
  <2>3. SumFunctionOnSet(StakeOf, Borrowers)
          = SumFunctionOnSet(StakeOf, S) + SumFunctionOnSet(StakeOf, Borrowers \ S)
    BY <1>6, <2>1, PartOfSum
  <2> QED BY <2>2, <2>3
<1>9. SumFunctionOnSet(StakeOf, Borrowers \ S) > 0
      /\ SumFunctionOnSet(StakeOf, Borrowers \ S) \in Nat
  <2> DEFINE R == Borrowers \ S
  <2>1. IsFiniteSet(R) /\ c \in R /\ \A b \in R : StakeOf[b] \in Nat
    BY <1>5, <1>6, ActiveTrovesFinite
  <2> HIDE DEF R
  <2>2. SumFunctionOnSet(StakeOf, R) = StakeOf[c] + SumFunctionOnSet(StakeOf, R \ {c})
    BY <2>1, SumRemove
  <2>3. SumFunctionOnSet(StakeOf, R \ {c}) \in Nat
    BY <2>1, FS_Subset, SumNat
  <2>4. SumFunctionOnSet(StakeOf, R) > 0 /\ SumFunctionOnSet(StakeOf, R) \in Nat
    BY <1>5, <1>6, <2>1, <2>2, <2>3
  <2> QED BY <2>4 DEF R
<1> QED
  BY <1>2, <1>7, <1>8, <1>9

(* Everything a liquidation pays is there. *)
LEMMA RunCanBeSettled ==
  ASSUME LedgerInv, BooksInv, PoolsInv, DebtRewardsCovered, AccountsInv, TrovesHaveStakes,
         NEW recovery, NEW p, NEW run, RunBooks(run, recovery, p),
         Len(run.closed) < Len(TroveOwners)
  PROVE  LiquidationArithmetic(run)
<1> DEFINE t == run.totals
           S == Closed(run)
           coll == SumFunctionOnSet(CollOnly, S)
           debt == SumFunctionOnSet(DebtOnly, S)
<1>1. /\ run \in LiquidationRuns /\ IsInjective(run.closed)
      /\ run.remaining + t.debtToOffset = stabilityPool.totalARTHDeposits
      /\ SplitsExactly(t)
      /\ t.ARTHGasCompensation = Len(run.closed) * ARTH_GAS_COMPENSATION
  BY DEF RunBooks, TotalsAddUp
<1>2. /\ t \in LiquidationTotals /\ run.movedETH \in Nat /\ run.movedDebt \in Nat
      /\ run.stakes \in Nat /\ run.remaining \in Nat
      /\ \A b \in Borrowers : run.surplus[b] \in Nat
      /\ run.closed \in Seq(ActiveTroves)
  BY <1>1 DEF LiquidationRuns
<1>3. /\ S \in SUBSET ActiveTroves /\ S \in SUBSET Borrowers
      /\ run.movedETH = SumFunctionOnSet(ETHRewardOf, S)
      /\ run.movedDebt = SumFunctionOnSet(DebtRewardOf, S)
      /\ t.entireTroveColl = coll + run.movedETH
      /\ t.entireTroveDebt = debt + run.movedDebt
      /\ coll \in Nat /\ debt \in Nat
  BY LiquidatedAmounts
<1>4. run.stakes < totalStakes
  BY StakesAreLeft
<1>5. /\ t.entireTroveDebt \in Nat /\ t.entireTroveColl \in Nat /\ t.collGasCompensation \in Nat
      /\ t.debtToOffset \in Nat /\ t.collToSendToSP \in Nat
      /\ t.debtToRedistribute \in Nat /\ t.collToRedistribute \in Nat /\ t.collSurplus \in Nat
  BY <1>2 DEF LiquidationTotals
<1>6. t.debtToOffset <= stabilityPool.totalARTHDeposits
  <2>1. stabilityPool.totalARTHDeposits \in Nat
    BY DEF LedgerInv, LedgerTypeOK
  <2> HIDE DEF t
  <2> QED BY <1>1, <1>2, <1>5, <2>1
<1>7. t.debtToOffset <= arthBalance[SPAddress]
  BY <1>6 DEF AccountsInv, TokenAccounts
<1>8. t.ARTHGasCompensation <= arthBalance[GasPool]
  <2>1. S = ToSet(run.closed) /\ Cardinality(S) = Len(run.closed)
    BY <1>1, <1>2, DistinctCount DEF Closed
  <2> DEFINE part == Cardinality(S) * ARTH_GAS_COMPENSATION
             rest == Cardinality(ActiveTroves \ S) * ARTH_GAS_COMPENSATION
  <2>2. rest = ReserveOfTroves - part /\ part \in Nat
    BY <1>3, ReserveFacts
  <2>3. ActiveTroves \ S \in SUBSET ActiveTroves
    OBVIOUS
  <2>4. rest \in Nat /\ ReserveOfTroves \in Nat
    BY <2>3, ReserveFacts
  <2>5. t.ARTHGasCompensation = part
    BY <1>1, <2>1
  <2>6. arthBalance[GasPool] >= ReserveOfTroves /\ arthBalance[GasPool] \in Nat
    BY AccountFacts DEF AccountsInv, TokenAccounts, ReserveOfTroves
  <2> HIDE DEF part, rest, t
  <2> QED BY <2>2, <2>4, <2>5, <2>6
<1>9. DECIMAL_PRECISION \in Nat \ {0} /\ IsFiniteSet(Borrowers)
  BY PrecisionAssumption, ActiveTrovesFinite
<1>10. \A b \in S : /\ ETHRewardOf[b] \in Nat /\ ETHRewardOf[b] * DECIMAL_PRECISION <= ETHTermOf[b]
                    /\ DebtRewardOf[b] \in Nat
                    /\ DebtRewardOf[b] * DECIMAL_PRECISION <= DebtTermOf[b]
  BY <1>3, RewardsAreFloors DEF ETHRewardOf, DebtRewardOf
<1>11. /\ \A b \in Borrowers : ETHTermOf[b] \in Nat /\ DebtTermOf[b] \in Nat
       /\ ETHTermTotal = SumFunctionOnSet(ETHTermOf, Borrowers)
       /\ DebtTermTotal = SumFunctionOnSet(DebtTermOf, Borrowers)
  BY TermsAreAmounts, TermTotals
<1>12. /\ defaultPool.ETH \in Nat /\ defaultPool.ARTHDebt \in Nat
       /\ lastError.ETH \in Nat /\ lastError.ARTHDebt \in Nat
       /\ activePool.ETH \in Nat /\ activePool.ARTHDebt \in Nat
  BY DEF LedgerInv, LedgerTypeOK, PoolType
<1> HIDE DEF S
<1>13. run.movedETH <= defaultPool.ETH
  <2>1. defaultPool.ETH * DECIMAL_PRECISION
          >= lastError.ETH + SumFunctionOnSet(ETHTermOf, Borrowers)
    BY <1>11 DEF PoolsInv, ETHRewardsCovered
  <2>2. SumFunctionOnSet(ETHRewardOf, S) <= defaultPool.ETH
    BY <1>3, <1>9, <1>10, <1>11, <1>12, <2>1, RewardsFitThePool
  <2> QED BY <1>3, <2>2
<1>14. run.movedDebt <= defaultPool.ARTHDebt
  <2>1. defaultPool.ARTHDebt * DECIMAL_PRECISION
          >= lastError.ARTHDebt + SumFunctionOnSet(DebtTermOf, Borrowers)
    BY <1>11 DEF DebtRewardsCovered
  <2>2. SumFunctionOnSet(DebtRewardOf, S) <= defaultPool.ARTHDebt
    BY <1>3, <1>9, <1>10, <1>11, <1>12, <2>1, RewardsFitThePool
  <2> QED BY <1>3, <2>2
<1>15. coll <= activePool.ETH /\ debt <= activePool.ARTHDebt
  <2>1. /\ \A b \in Borrowers : CollOnly[b] \in Nat /\ DebtOnly[b] \in Nat
        /\ CollTotal = SumFunctionOnSet(CollOnly, Borrowers)
        /\ DebtTotal = SumFunctionOnSet(DebtOnly, Borrowers)
    BY RecordedAmounts
  <2>2. activePool.ETH = CollTotal /\ activePool.ARTHDebt = DebtTotal
    BY DEF PoolsInv, ActivePoolHolds
  <2>3. SumFunctionOnSet(CollOnly, S) <= SumFunctionOnSet(CollOnly, Borrowers)
    BY <1>3, <1>9, <2>1, PartOfSum
  <2>4. SumFunctionOnSet(DebtOnly, S) <= SumFunctionOnSet(DebtOnly, Borrowers)
    BY <1>3, <1>9, <2>1, PartOfSum
  <2> QED BY <2>1, <2>2, <2>3, <2>4
<1>16. /\ CollToSP(t) = t.collToSendToSP /\ CollToRedistribute(t) = t.collToRedistribute
       /\ t.debtToOffset + t.debtToRedistribute = t.entireTroveDebt
       /\ t.collGasCompensation + t.collToSendToSP + t.collToRedistribute + t.collSurplus
            = t.entireTroveColl
  BY <1>1 DEF SplitsExactly, CollToSP, CollToRedistribute
<1>17. ActivePoolAfter(run).ETH = activePool.ETH + run.movedETH - t.collToSendToSP
                 - t.collToRedistribute - t.collSurplus - t.collGasCompensation
       /\ ActivePoolAfter(run).ARTHDebt = activePool.ARTHDebt + run.movedDebt
                 - t.debtToOffset - t.debtToRedistribute
  BY <1>16 DEF ActivePoolAfter
<1> HIDE DEF coll, debt
<1>18. ActivePoolAfter(run).ETH >= 0 /\ ActivePoolAfter(run).ARTHDebt >= 0
  <2> DEFINE sp == t.collToSendToSP
             red == t.collToRedistribute
             sur == t.collSurplus
             gas == t.collGasCompensation
             off == t.debtToOffset
             moved == t.debtToRedistribute
             eth == run.movedETH
             owed == run.movedDebt
             pool == activePool.ETH
             due == activePool.ARTHDebt
  <2>1. /\ sp \in Nat /\ red \in Nat /\ sur \in Nat /\ gas \in Nat /\ off \in Nat
        /\ moved \in Nat /\ eth \in Nat /\ owed \in Nat /\ pool \in Nat /\ due \in Nat
        /\ coll \in Nat /\ debt \in Nat /\ coll <= pool /\ debt <= due
    BY <1>2, <1>3, <1>5, <1>12, <1>15
  <2>2. gas + sp + red + sur = coll + eth /\ off + moved = debt + owed
    BY <1>3, <1>16
  <2>3. /\ ActivePoolAfter(run).ETH = pool + eth - sp - red - sur - gas
        /\ ActivePoolAfter(run).ARTHDebt = due + owed - off - moved
    BY <1>17
  <2> HIDE DEF sp, red, sur, gas, off, moved, eth, owed, pool, due, t
  <2>4. pool + eth - sp - red - sur - gas >= 0 /\ due + owed - off - moved >= 0
    BY <2>1, <2>2
  <2> QED BY <2>3, <2>4
<1>19. totalStakes \in Nat /\ run.stakes <= totalStakes
  BY <1>2, <1>4 DEF LedgerInv, LedgerTypeOK
<1> QED
  BY <1>2, <1>4, <1>6, <1>7, <1>8, <1>13, <1>14, <1>18, <1>19 DEF LiquidationArithmetic

(* A run that visits one trove takes one step. *)
LEMMA RunOverOne ==
  ASSUME NEW b \in Borrowers, NEW recovery \in BOOLEAN, NEW isBatch, NEW p
  PROVE  RunOver(<<b>>, isBatch, recovery, p)
           = IF recovery THEN RecoveryModeStep(NewRun, b, isBatch, p)
                         ELSE NormalModeStep(NewRun, b, isBatch, p)
<1> DEFINE c == [recovery |-> recovery, isBatch |-> isBatch, p |-> p]
           list == <<b>>
<1>1. c.recovery = recovery /\ c.isBatch = isBatch /\ c.p = p
  OBVIOUS
<1>2. list \in Seq(Borrowers)
  OBVIOUS
<1>3. Len(list) = 1 /\ list[1] = b
  OBVIOUS
<1> HIDE DEF c, list
<1>4. PICK r : Steps(r, "liquidate", c, NewRun, list)
               /\ r[Len(list)] = RunOver(list, isBatch, recovery, p)
  BY <1>1, <1>2, LiquidationSteps
<1>5. r[0] = NewRun /\ r[1] = LoopBody("liquidate", c, r[1 - 1], list[1])
  BY <1>3, <1>4 DEF Steps
<1>6. r[1] = LoopBody("liquidate", c, NewRun, b)
  BY <1>3, <1>5
<1> QED
  BY <1>1, <1>3, <1>4, <1>6 DEF LoopBody, list

(* The last trove of the list is what a sequence of length one visits. *)
LEMMA LastIsVisited ==
  ASSUME BooksInv, Len(sortedTroves) > 1, NEW p
  PROVE  /\ sortedTroves[Len(sortedTroves)] \in ActiveTroves
         /\ LiquidateTrovesRun(1, p)
              = RunOver(<<sortedTroves[Len(sortedTroves)]>>, FALSE, InRecoveryMode(p), p)
<1> DEFINE n == Len(sortedTroves)
           b == sortedTroves[n]
           reach == IF InRecoveryMode(p) /\ sortedTroves # <<>> THEN Tail(sortedTroves)
                    ELSE sortedTroves
           visited == SubSeq(Reverse(reach), 1, MinOf(1, Len(reach)))
<1>1. /\ sortedTroves \in Seq(Borrowers) /\ n \in Nat /\ n > 1
      /\ ToSet(sortedTroves) = ActiveTroves
  BY ListFacts DEF BooksInv, ListInv
<1>2. b \in ActiveTroves /\ b \in Borrowers
  <2>1. n \in DOMAIN sortedTroves
    BY <1>1
  <2> QED BY <1>1, <2>1, ActiveTrovesFinite DEF ToSet
<1>3. /\ reach \in Seq(Borrowers) /\ Len(reach) \in Nat /\ Len(reach) >= 1
      /\ reach[Len(reach)] = b
  <2>0. reach = sortedTroves \/ reach = Tail(sortedTroves)
    OBVIOUS
  <2> HIDE DEF reach
  <2>1. CASE reach = sortedTroves
    BY <1>1, <2>1
  <2>2. CASE reach = Tail(sortedTroves)
    <3>1. sortedTroves # <<>>
      BY <1>1
    <3>2. /\ reach \in Seq(Borrowers) /\ Len(reach) = n - 1
          /\ \A i \in 1..Len(reach) : reach[i] = sortedTroves[i + 1]
      BY <1>1, <2>2, <3>1, HeadTailProperties
    <3>3. Len(reach) \in 1..Len(reach) /\ Len(reach) + 1 = n /\ Len(reach) \in Nat
      BY <1>1, <3>2
    <3> QED BY <3>2, <3>3
  <2> QED BY <2>0, <2>1, <2>2
<1>4. LiquidateTrovesRun(1, p) = RunOver(visited, FALSE, InRecoveryMode(p), p)
  BY DEF LiquidateTrovesRun
<1> HIDE DEF reach, b
<1>5. MinOf(1, Len(reach)) = 1
  <2>1. \A m \in Nat : m >= 1 => MinOf(1, m) = 1
    BY DEF MinOf
  <2> QED BY <1>3, <2>1
<1>6. /\ Reverse(reach) \in Seq(Borrowers) /\ Len(Reverse(reach)) = Len(reach)
      /\ Reverse(reach)[1] = reach[Len(reach)]
  <2>1. Reverse(reach) \in Seq(Borrowers) /\ Len(Reverse(reach)) = Len(reach)
    BY <1>3, ReverseFacts
  <2>2. DOMAIN reach = 1..Len(reach)
    BY <1>3
  <2>3. Reverse(reach)[1] = reach[(Len(reach) - 1) + 1]
    BY <1>3, <2>2 DEF Reverse
  <2>4. (Len(reach) - 1) + 1 = Len(reach)
    BY <1>3
  <2> QED BY <2>1, <2>3, <2>4
<1>7. visited = <<b>>
  <2> DEFINE s == Reverse(reach)
  <2>1. s \in Seq(Borrowers) /\ Len(s) \in Nat /\ Len(s) >= 1 /\ s[1] = b /\ s[1] \in Borrowers
    BY <1>2, <1>3, <1>6
  <2> HIDE DEF s
  <2>2. \A i \in 1..1 : s[i] \in Borrowers
    BY <2>1
  <2>3. /\ SubSeq(s, 1, 1) \in Seq(Borrowers) /\ Len(SubSeq(s, 1, 1)) = 1
        /\ SubSeq(s, 1, 1)[1] = b
    BY <2>1, <2>2, SubSeqProperties
  <2>4. <<b>> \in Seq(Borrowers) /\ Len(<<b>>) = 1 /\ <<b>>[1] = b
    BY <1>2
  <2> DEFINE u == SubSeq(s, 1, 1)
             v == <<b>>
  <2>5. u = v
    <3>1. u \in Seq(Borrowers) /\ v \in Seq(Borrowers) /\ Len(u) = 1 /\ Len(v) = 1
          /\ u[1] = v[1]
      BY <2>3, <2>4
    <3> HIDE DEF u, v
    <3>2. \A i \in 1..Len(u) : u[i] = v[i]
      BY <3>1
    <3>3. Len(u) = Len(v)
      BY <3>1
    <3> QED BY <3>1, <3>2, <3>3, SeqEqual
  <2> QED BY <1>5, <2>5 DEF s
<1> QED
  BY <1>2, <1>4, <1>7 DEF b

(* What the arithmetic of a liquidation rests on. *)
SettlementInv ==
  LedgerInv /\ BooksInv /\ PoolsInv /\ DebtRewardsCovered /\ AccountsInv /\ TrovesHaveStakes

(* What LiquidationNeverBlocked says of a state follows from the *)
(* invariants.                                                   *)
LEMMA LiquidationsSettle == SettlementInv => LiquidationNeverBlocked
<1> SUFFICES ASSUME SettlementInv PROVE LiquidationNeverBlocked
  OBVIOUS
<1>1. /\ LedgerInv /\ BooksInv /\ PoolsInv /\ DebtRewardsCovered /\ AccountsInv
      /\ TrovesHaveStakes
  BY DEF SettlementInv
<1>2. ASSUME NEW run, RunInv(run, InRecoveryMode(price), price), LiquidationRequirements(run)
      PROVE  LiquidationArithmetic(run)
  <2>1. RunBooks(run, InRecoveryMode(price), price)
    BY <1>2 DEF RunInv
  <2>2. Len(run.closed) < Len(TroveOwners)
    BY <1>2 DEF LiquidationRequirements
  <2> QED BY <1>1, <2>1, <2>2, RunCanBeSettled
<1>3. ASSUME NEW n \in SequenceLengths
      PROVE  RunInv(LiquidateTrovesRun(n, price), InRecoveryMode(price), price)
  <2>1. n \in Nat
    BY InputAssumption
  <2> QED BY <1>1, <2>1, LiquidateTrovesRunHolds
<1>4. ASSUME NEW troveArray \in TroveArrays
      PROVE  RunInv(BatchRun(troveArray, price), InRecoveryMode(price), price)
  <2>1. troveArray \in Seq(Borrowers)
    BY InputAssumption
  <2> QED BY <1>1, <2>1, BatchRunHolds
<1> QED
  BY <1>2, <1>3, <1>4 DEF LiquidationNeverBlocked

(* No liquidation that meets the requirements of the code is blocked, as   *)
(* long as a redistribution of debt moves collateral as well and rounding  *)
(* has left every trove a stake.                                           *)
THEOREM LiquidationsAreNeverBlocked ==
  Spec /\ [][MovesBoth]_vars => [](TrovesHaveStakes => LiquidationNeverBlocked)
<1>1. LedgerInv /\ BooksInv /\ PoolsInv /\ DebtInv /\ AccountsInv
        => (TrovesHaveStakes => LiquidationNeverBlocked)
  BY LiquidationsSettle DEF SettlementInv, DebtInv
<1> QED
  BY <1>1, PoolsHold, DebtHolds, TokenHolds, PTL

(* Below MCR the recovery mode offsets and redistributes as well. *)
LEMMA UnsafeRecoveryValues ==
  ASSUME NEW b, NEW icr \in Int, NEW arthInSP, NEW tcr, NEW left \in Int, NEW p,
         icr < MCR, left > 1
  PROVE  \E inSP \in {0, arthInSP} :
           RecoveryModeValues(b, icr, arthInSP, tcr, left, p) = NormalModeValues(b, inSP)
<1>1. OneHundredPct \in Nat /\ MCR \in Nat /\ OneHundredPct < MCR
  BY PrecisionAssumption, RateAssumption DEF OneHundredPct
<1> DEFINE split(inSP) ==
             OffsetAndRedistribution(EntireValues(b), CollToLiquidate(EntireValues(b)), inSP)
           vals == RecoveryModeValues(b, icr, arthInSP, tcr, left, p)
<1>2. NormalModeValues(b, 0) = split(0) /\ NormalModeValues(b, arthInSP) = split(arthInSP)
  BY DEF NormalModeValues
<1>3. ~(left <= 1)
  OBVIOUS
<1>4. CASE icr <= OneHundredPct
  <2>1. vals = split(0)
    BY <1>1, <1>3, <1>4 DEF RecoveryModeValues
  <2> QED BY <1>2, <2>1
<1>5. CASE ~(icr <= OneHundredPct)
  <2>1. vals = split(arthInSP)
    <3>1. OneHundredPct < icr /\ ~(MCR <= icr)
      BY <1>1, <1>5
    <3>2. vals = NormalModeValues(b, arthInSP)
      BY <1>3, <1>5, <3>1 DEF RecoveryModeValues
    <3> QED BY <1>2, <3>2
  <2> QED BY <1>2, <2>1
<1> QED
  BY <1>4, <1>5

(* A trove below MCR is liquidated by the first step of a loop. *)
LEMMA FirstStepLiquidates ==
  ASSUME LedgerInv, BooksInv, NEW b \in ActiveTroves, NEW p \in Nat \ {0},
         NEW recovery \in BOOLEAN, recovery => InRecoveryMode(p), NEW isBatch \in BOOLEAN,
         CurrentICR(b, p) < MCR, Len(TroveOwners) > 1
  PROVE  RunOver(<<b>>, isBatch, recovery, p).closed = <<b>>
<1> DEFINE icr == ICRInRun(NewRun, b, p)
           left == Len(TroveOwners) - Len(NewRun.closed)
           tcr == ComputeCR(NewRun.systemColl, NewRun.systemDebt, p)
           inPool == stabilityPool.totalARTHDeposits
<1>1. /\ NewRun.closed = <<>> /\ NewRun.stopped = FALSE /\ NewRun.backToNormal = FALSE
      /\ NewRun.remaining = inPool
  BY DEF NewRun
<1>2. NewRun \in LiquidationRuns
  <2>1. ClosedTrovesAreEmpty /\ Len(TroveOwners) \in Nat
    BY OwnersCounted DEF BooksInv
  <2> QED BY <2>1, NewRunHolds DEF RunInv, RunBooks
<1>3. Closed(NewRun) = {}
  BY <1>1 DEF Closed, ToSet
<1>4. b \in Borrowers /\ IsActive(b)
  BY DEF ActiveTroves
<1>5. MCR \in Nat /\ MaxUint \in Nat /\ MCR < MaxUint /\ p \in Nat
  BY PrecisionAssumption, RateAssumption
<1>6. CurrentICR(b, p) \in Int
  <2>1. EntireColl(b) \in Int /\ EntireDebt(b) \in Int
    BY <1>4, EntireAmounts
  <2> QED BY <1>5, <2>1, RatioType DEF CurrentICR
<1>7. icr = CurrentICR(b, p)
  BY <1>3 DEF ICRInRun
<1>8. EntireDebt(b) > 0
  BY <1>4, <1>5, <1>6, RatioNeedsDebt
<1>9. inPool \in Nat
  BY DEF LedgerInv, LedgerTypeOK
<1>10. ASSUME NEW inSP \in Nat
       PROVE  LiquidateInRun(NewRun, b, NormalModeValues(b, inSP)).closed = <<b>>
  <2> DEFINE vals == NormalModeValues(b, inSP)
  <2>1. ValuesFit(vals, b, inSP)
    BY <1>4, <1>8, NormalModeValuesFit
  <2>2. ZeroValues.entireTroveDebt = 0 /\ vals.entireTroveDebt > 0
    BY <1>8, <2>1 DEF ValuesFit, ZeroValues
  <2> HIDE DEF vals
  <2>3. vals # ZeroValues
    BY <2>2
  <2>4. LiquidatedFrom(LiquidateInRun(NewRun, b, vals), NewRun, b, vals)
    BY <1>2, <2>3, LiquidatedFields
  <2>5. LiquidateInRun(NewRun, b, vals).closed = Append(<<>>, b)
    BY <1>1, <2>4 DEF LiquidatedFrom
  <2>6. Append(<<>>, b) = <<b>>
    OBVIOUS
  <2> QED BY <2>5, <2>6 DEF vals
<1>11. RunOver(<<b>>, isBatch, recovery, p)
         = IF recovery THEN RecoveryModeStep(NewRun, b, isBatch, p)
                       ELSE NormalModeStep(NewRun, b, isBatch, p)
  BY <1>4, RunOverOne
<1>12. CASE ~recovery
  <2>1. NormalModeStep(NewRun, b, isBatch, p)
          = LiquidateInRun(NewRun, b, NormalModeValues(b, inPool))
    BY <1>1, <1>7 DEF NormalModeStep
  <2> QED BY <1>9, <1>10, <1>11, <1>12, <2>1
<1>13. CASE recovery
  <2> DEFINE vals == RecoveryModeValues(b, icr, inPool, tcr, left, p)
  <2>1. ~(icr >= MCR)
    BY <1>5, <1>6, <1>7
  <2>2. RecoveryModeStep(NewRun, b, isBatch, p) = RecoveryLiquidateInRun(NewRun, b, vals, p)
    BY <1>1, <1>3, <1>4, <2>1 DEF RecoveryModeStep
  <2>3. left \in Int /\ left > 1
    BY <1>1, OwnersCounted
  <2>4. PICK inSP \in {0, inPool} : vals = NormalModeValues(b, inSP)
    <3> HIDE DEF left, tcr, inPool
    <3> QED BY <1>6, <1>7, <2>3, UnsafeRecoveryValues
  <2>5. LiquidateInRun(NewRun, b, vals).closed = <<b>>
    BY <1>9, <1>10, <2>4
  <2>6. RecoveryLiquidateInRun(NewRun, b, vals, p).closed
          = LiquidateInRun(NewRun, b, vals).closed
    <3> HIDE DEF vals
    <3> QED BY DEF RecoveryLiquidateInRun
  <2> QED BY <1>11, <1>13, <2>2, <2>5, <2>6
<1> QED
  BY <1>12, <1>13

(* The last trove of the list can be liquidated when it is below MCR. *)
LEMMA LastTroveSettles == SettlementInv => UnsafeTroveCanBeLiquidated
<1> SUFFICES ASSUME SettlementInv, Len(sortedTroves) > 1,
                    CurrentICR(sortedTroves[Len(sortedTroves)], price) < MCR
             PROVE  LiquidationRequirements(LiquidateTrovesRun(1, price))
                    /\ LiquidationArithmetic(LiquidateTrovesRun(1, price))
  BY DEF UnsafeTroveCanBeLiquidated
<1> DEFINE b == sortedTroves[Len(sortedTroves)]
           run == LiquidateTrovesRun(1, price)
           recovery == InRecoveryMode(price)
<1>1. /\ LedgerInv /\ BooksInv /\ PoolsInv /\ DebtRewardsCovered /\ AccountsInv
      /\ TrovesHaveStakes
  BY DEF SettlementInv
<1>2. b \in ActiveTroves /\ run = RunOver(<<b>>, FALSE, recovery, price)
  BY <1>1, LastIsVisited
<1>3. price \in Nat \ {0}
  BY <1>1 DEF BooksInv, LedgerInv, LedgerTypeOK
<1>4. Len(TroveOwners) > 1 /\ Len(TroveOwners) \in Nat
  <2>1. /\ sortedTroves \in Seq(Borrowers) /\ IsInjective(sortedTroves)
        /\ ToSet(sortedTroves) = ActiveTroves
    BY <1>1 DEF BooksInv, ListInv
  <2>2. Cardinality(ActiveTroves) = Len(sortedTroves)
    BY <2>1, DistinctCount
  <2> QED BY <1>1, <2>2, OwnersCounted
<1>5. RunInv(run, recovery, price)
  <2>1. 1 \in Nat
    OBVIOUS
  <2> QED BY <1>1, <2>1, LiquidateTrovesRunHolds
<1>6. recovery \in BOOLEAN /\ (recovery => InRecoveryMode(price))
  BY DEF InRecoveryMode
<1> HIDE DEF b, run, recovery
<1>7. run.closed = <<b>>
  <2>1. PICK isBatch \in BOOLEAN : isBatch = FALSE
    OBVIOUS
  <2>2. CurrentICR(b, price) < MCR
    BY DEF b
  <2>3. RunOver(<<b>>, isBatch, recovery, price).closed = <<b>>
    BY <1>1, <1>2, <1>3, <1>4, <1>6, <2>2, FirstStepLiquidates
  <2> QED BY <1>2, <2>1, <2>3
<1>8. RunBooks(run, recovery, price)
  BY <1>5 DEF RunInv
<1>9. Len(run.closed) < Len(TroveOwners)
  BY <1>4, <1>7
<1>10. run.totals.entireTroveDebt > 0
  <2>1. Closed(run) = {b} /\ b \in Borrowers
    <3>1. b \in Borrowers
      BY <1>2, ActiveTrovesFinite
    <3>2. ToSet(<<b>>) = {b}
      BY <3>1 DEF ToSet
    <3> QED BY <1>7, <3>1, <3>2 DEF Closed
  <2>2. run.totals.entireTroveDebt = SumFunctionOnSet(DebtOf, {b})
    BY <1>8, <2>1 DEF RunBooks, TotalsAddUp
  <2>3. EntireDebt(b) \in Nat /\ EntireDebt(b) > 0
    <3>1. Troves[b].debt >= ARTH_GAS_COMPENSATION + MIN_NET_DEBT
      BY <1>1, <1>2 DEF BooksInv, MinimumDebtKept
    <3>2. /\ Troves[b].debt \in Nat /\ PendingARTHDebtReward(b) \in Nat
      BY <1>1, <2>1, PendingRewardsAreAmounts DEF LedgerInv, LedgerTypeOK
    <3> QED BY <3>1, <3>2, DebtAssumption DEF EntireDebt
  <2>4. DebtOf[b] = EntireDebt(b)
    BY <2>1 DEF DebtOf
  <2>5. SumFunctionOnSet(DebtOf, {b}) = DebtOf[b]
    <3>1. {} \cup {b} = {b} /\ IsFiniteSet({}) /\ b \notin {} /\ DebtOf[b] \in Int
      BY <2>3, <2>4, FS_EmptySet
    <3>2. SumFunctionOnSet(DebtOf, {} \cup {b}) = DebtOf[b] + SumFunctionOnSet(DebtOf, {})
      BY <3>1, SumAdd
    <3> QED BY <3>1, <3>2, SumEmpty
  <2> QED BY <2>2, <2>3, <2>4, <2>5
<1>11. LiquidationArithmetic(run)
  BY <1>1, <1>8, <1>9, RunCanBeSettled
<1> QED
  BY <1>9, <1>10, <1>11 DEF LiquidationRequirements, run

(* The trove at the end of the list never escapes its liquidation, under   *)
(* the same conditions.                                                    *)
THEOREM LastTroveCanBeLiquidated ==
  Spec /\ [][MovesBoth]_vars => [](TrovesHaveStakes => UnsafeTroveCanBeLiquidated)
<1>1. LedgerInv /\ BooksInv /\ PoolsInv /\ DebtInv /\ AccountsInv
        => (TrovesHaveStakes => UnsafeTroveCanBeLiquidated)
  BY LastTroveSettles DEF SettlementInv, DebtInv
<1> QED
  BY <1>1, PoolsHold, DebtHolds, TokenHolds, PTL

------------------------------------------------------------------------------
(* What a redistribution conserves. *)

(* Shares that exceed what they are due by less than a unit each add up to *)
(* no more than what is distributed, a remainder and a unit each.          *)
LEMMA SharesAddUp ==
  ASSUME NEW T, IsFiniteSet(T), NEW share, NEW due, NEW k \in Nat \ {0},
         NEW moved \in Nat, NEW err \in Nat,
         \A x \in T : share[x] \in Nat /\ due[x] \in Nat /\ share[x] * k <= due[x] + k,
         SumFunctionOnSet(due, T) <= moved * k + err
  PROVE  SumFunctionOnSet(share, T) <= moved + Cardinality(T) + err \div k
<1> DEFINE scaled == [x \in T |-> share[x] * k]
           unit == [x \in T |-> k]
           most == [x \in T |-> due[x] + k]
           r == SumFunctionOnSet(share, T)
           d == SumFunctionOnSet(due, T)
           n == Cardinality(T)
<1>1. \A x \in T : scaled[x] = share[x] * k /\ unit[x] = k /\ most[x] = due[x] + unit[x]
  OBVIOUS
<1> HIDE DEF scaled, unit, most
<1>2. \A x \in T : /\ share[x] \in Int /\ due[x] \in Int /\ scaled[x] \in Int
                   /\ unit[x] \in Int /\ most[x] \in Int /\ scaled[x] <= most[x]
  <2>1. \A u \in Nat : u * k \in Int
    OBVIOUS
  <2>2. \A x \in T : unit[x] = k /\ most[x] = due[x] + k
    BY <1>1
  <2> QED BY <1>1, <2>1, <2>2
<1>3. SumFunctionOnSet(scaled, T) = r * k
  BY <1>1, <1>2, SumScale
<1>4. SumFunctionOnSet(unit, T) = n * k
  BY <1>1, SumConstant
<1>5. SumFunctionOnSet(most, T) = d + SumFunctionOnSet(unit, T)
  BY <1>1, <1>2, SumPlus
<1>6. SumFunctionOnSet(scaled, T) <= SumFunctionOnSet(most, T)
  BY <1>2, SumMonotone
<1>7. r \in Nat /\ d \in Nat /\ n \in Nat
  BY SumNat, FS_CardinalityType
<1>8. d <= moved * k + err
  OBVIOUS
<1> HIDE DEF r, d, n
<1>9. r * k <= moved * k + err + n * k
  <2>1. r * k \in Nat /\ moved * k \in Nat /\ n * k \in Nat
    BY <1>7, NatProduct
  <2> QED BY <1>3, <1>4, <1>5, <1>6, <1>7, <1>8, <2>1
<1>10. (r - moved - n) * k <= err
  <2>1. \A u, v, w \in Nat : (u - v - w) * k = u * k - v * k - w * k
    OBVIOUS
  <2>2. r * k \in Nat /\ moved * k \in Nat /\ n * k \in Nat
    BY <1>7, NatProduct
  <2> QED BY <1>7, <1>9, <2>1, <2>2
<1>11. r - moved - n <= err \div k
  <2>1. r - moved - n \in Int
    BY <1>7
  <2> QED BY <1>10, <2>1, QuotientAtLeast
<1>12. err \div k \in Nat
  BY NatQuotient
<1> QED
  BY <1>7, <1>11, <1>12 DEF r, n

(* The whole part of a term grows by what is added to the term, and by     *)
(* less than a unit of rounding.                                           *)
LEMMA RewardGrows ==
  ASSUME NEW x \in Nat, NEW y \in Nat, NEW k \in Nat \ {0}
  PROVE  /\ (x + y) \div k - x \div k \in Nat
         /\ ((x + y) \div k - x \div k) * k <= y + k
<1> DEFINE u == x \div k
           v == (x + y) \div k
<1>1. x + y \in Nat
  OBVIOUS
<1>2. /\ u \in Nat /\ u * k <= x /\ x < u * k + k
      /\ v \in Nat /\ v * k <= x + y
  BY <1>1, NatQuotient, FloorQuotient
<1>3. u <= v
  <2>1. u * k <= x + y
    <3> HIDE DEF u
    <3>1. u * k \in Nat
      BY <1>2, NatProduct
    <3> QED BY <1>2, <3>1
  <2>2. u \in Int
    BY <1>2
  <2> HIDE DEF u
  <2> QED BY <1>1, <2>1, <2>2, QuotientAtLeast
<1> HIDE DEF u, v
<1>4. (v - u) * k = v * k - u * k /\ v * k \in Nat /\ u * k \in Nat
  <2>1. \A m, n \in Nat : (m - n) * k = m * k - n * k
    OBVIOUS
  <2> QED BY <1>2, <2>1, NatProduct
<1>5. v - u \in Nat /\ (v - u) * k <= y + k
  BY <1>2, <1>3, <1>4
<1> QED BY <1>5 DEF u, v

(* A trove that stays keeps its collateral and its debt, and what its      *)
(* rewards add to them is its share of the redistribution.                 *)
LEMMA SurvivorsInherit ==
  ASSUME LedgerInv, LedgerInv', NEW run, Closed(run) \in SUBSET ActiveTroves,
         NEW liquidator, ApplyLiquidation(run, liquidator),
         NEW e \in Nat, NEW d \in Nat, L'.ETH = L.ETH + e, L'.ARTHDebt = L.ARTHDebt + d,
         NEW b \in ActiveTroves \ Closed(run)
  PROVE  /\ EntireColl(b)' >= EntireColl(b)
         /\ EntireDebt(b)' - EntireDebt(b) \in Nat
         /\ (EntireDebt(b)' - EntireDebt(b)) * DECIMAL_PRECISION
              <= StakeOf[b] * d + DECIMAL_PRECISION
<1> DEFINE x == ETHTermOf[b]
           y == DebtTermOf[b]
           s == StakeOf[b]
           k == DECIMAL_PRECISION
           u == Troves[b].coll
           v == Troves[b].debt
<1>1. b \in Borrowers \ Closed(run) /\ b \in Borrowers /\ IsActive(b)
  BY DEF ActiveTroves
<1>2. Troves'[b] = Troves[b]
  BY <1>1 DEF ApplyLiquidation
<1>3. b \in ActiveTroves' /\ IsActive(b)'
  BY <1>1, <1>2 DEF ActiveTroves, IsActive
<1>4. /\ x \in Nat /\ y \in Nat /\ s \in Nat /\ u \in Nat /\ v \in Nat /\ k \in Nat \ {0}
  BY <1>1, TermsAreAmounts, RecordedAmounts, PrecisionAssumption DEF LedgerInv, LedgerTypeOK
<1>5. ETHTermOf'[b] = x + s * e /\ DebtTermOf'[b] = y + s * d
  BY <1>1, TermsAfterLiquidation
<1>6. PendingETHReward(b) = x \div k /\ PendingARTHDebtReward(b) = y \div k
  BY <1>1 DEF PendingETHReward, PendingARTHDebtReward, ETHTermOf, DebtTermOf
<1>7. PendingETHReward(b)' = (x + s * e) \div k /\ PendingARTHDebtReward(b)' = (y + s * d) \div k
  <2>1. /\ PendingETHReward(b)' = ETHTermOf'[b] \div k
        /\ PendingARTHDebtReward(b)' = DebtTermOf'[b] \div k
    BY <1>1, <1>3 DEF PendingETHReward, PendingARTHDebtReward, ETHTermOf, DebtTermOf
  <2> QED BY <1>5, <2>1
<1>8. /\ EntireColl(b) = u + x \div k /\ EntireDebt(b) = v + y \div k
      /\ EntireColl(b)' = u + (x + s * e) \div k /\ EntireDebt(b)' = v + (y + s * d) \div k
  BY <1>2, <1>6, <1>7 DEF EntireColl, EntireDebt
<1> HIDE DEF x, y, s, k, u, v
<1>9. s * e \in Nat /\ s * d \in Nat
  BY <1>4, NatProduct
<1>10. /\ (x + s * e) \div k - x \div k \in Nat
       /\ (y + s * d) \div k - y \div k \in Nat
       /\ ((y + s * d) \div k - y \div k) * k <= s * d + k
  BY <1>4, <1>9, RewardGrows
<1>11. /\ x \div k \in Nat /\ y \div k \in Nat
       /\ (x + s * e) \div k \in Nat /\ (y + s * d) \div k \in Nat
  <2>1. x + s * e \in Nat /\ y + s * d \in Nat
    BY <1>4, <1>9
  <2> QED BY <1>4, <2>1, NatQuotient
<1>12. EntireColl(b)' >= EntireColl(b)
  <2> DEFINE m == (x + s * e) \div k
             n == x \div k
  <2>1. m \in Nat /\ n \in Nat /\ EntireColl(b)' = u + m /\ EntireColl(b) = u + n
    BY <1>8, <1>11
  <2>2. m - n \in Nat
    BY <1>10
  <2> HIDE DEF m, n
  <2> QED BY <1>4, <2>1, <2>2
<1>13. EntireDebt(b)' - EntireDebt(b) = (y + s * d) \div k - y \div k
  <2> DEFINE m == (y + s * d) \div k
             n == y \div k
  <2>1. m \in Nat /\ n \in Nat /\ EntireDebt(b)' = v + m /\ EntireDebt(b) = v + n
    BY <1>8, <1>11
  <2> HIDE DEF m, n
  <2>2. EntireDebt(b)' - EntireDebt(b) = m - n
    BY <1>4, <2>1
  <2> QED BY <2>2 DEF m, n
<1> QED
  BY <1>10, <1>12, <1>13 DEF s, k

(* What the troves that stay inherit together. *)
Inheritance == [b \in Borrowers |-> EntireDebt(b)' - EntireDebt(b)]

(* Of a redistributed debt a survivor inherits its share, with one unit of *)
(* rounding at most.                                                       *)
LEMMA RedistributedAmounts ==
  ASSUME LedgerInv, LedgerInv', BooksInv, NEW recovery, NEW p, NEW run,
         RunBooks(run, recovery, p), NEW liquidator, ApplyLiquidation(run, liquidator)
  PROVE  /\ \A b \in ActiveTroves \ Closed(run) : /\ EntireColl(b)' >= EntireColl(b)
                                                  /\ Inheritance[b] \in Nat
         /\ SumFunctionOnSet(Inheritance, ActiveTroves \ Closed(run))
              <= run.totals.debtToRedistribute + Cardinality(ActiveTroves \ Closed(run))
                   + lastError.ARTHDebt \div DECIMAL_PRECISION
<1> DEFINE S == Closed(run)
           T == ActiveTroves \ S
           R == Borrowers \ S
           d == AddedRewards.ARTHDebt
           e == AddedRewards.ETH
           due == [b \in Borrowers |-> StakeOf[b] * d]
           moved == run.totals.debtToRedistribute
           k == DECIMAL_PRECISION
           err == lastError.ARTHDebt
<1>1. /\ S \in SUBSET ActiveTroves /\ S \in SUBSET Borrowers
      /\ run.stakes = SumFunctionOnSet(StakeOf, S)
  BY LiquidatedAmounts
<1>2. /\ e \in Nat /\ d \in Nat
      /\ L'.ETH = L.ETH + e /\ L'.ARTHDebt = L.ARTHDebt + d
      /\ moved * k + err = (totalStakes - run.stakes) * d + lastError'.ARTHDebt
  BY RedistributionDivides
<1>3. /\ moved \in Nat /\ k \in Nat \ {0} /\ err \in Nat /\ lastError'.ARTHDebt \in Nat
      /\ run.stakes \in Nat /\ totalStakes \in Nat /\ run.stakes <= totalStakes
  BY PrecisionAssumption
     DEF RunBooks, LiquidationRuns, LiquidationTotals, LedgerInv, LedgerTypeOK, PoolType,
         ApplyLiquidation, LiquidationArithmetic
<1>4. \A b \in T : /\ EntireColl(b)' >= EntireColl(b)
                   /\ Inheritance[b] \in Nat
                   /\ Inheritance[b] * k <= StakeOf[b] * d + k
  <2> TAKE b \in T
  <2>1. Inheritance[b] = EntireDebt(b)' - EntireDebt(b)
    BY ActiveTrovesFinite DEF Inheritance
  <2> HIDE DEF d, e
  <2>2. /\ EntireColl(b)' >= EntireColl(b)
        /\ EntireDebt(b)' - EntireDebt(b) \in Nat
        /\ (EntireDebt(b)' - EntireDebt(b)) * DECIMAL_PRECISION
             <= StakeOf[b] * d + DECIMAL_PRECISION
    BY <1>1, <1>2, SurvivorsInherit
  <2> QED BY <2>1, <2>2
<1>5. \A b \in Borrowers : due[b] = StakeOf[b] * d /\ StakeOf[b] \in Nat /\ due[b] \in Nat
  <2>1. \A b \in Borrowers : StakeOf[b] \in Nat
    BY RecordedAmounts
  <2>2. \A b \in Borrowers : due[b] = StakeOf[b] * d
    OBVIOUS
  <2> HIDE DEF due, d
  <2> QED BY <1>2, <2>1, <2>2, NatProduct
<1>6. T \in SUBSET R /\ R \in SUBSET Borrowers /\ IsFiniteSet(T) /\ IsFiniteSet(R)
      /\ IsFiniteSet(Borrowers)
  <2>1. T \in SUBSET R /\ R \in SUBSET Borrowers /\ T \in SUBSET Borrowers
    BY ActiveTrovesFinite
  <2> QED BY <2>1, ActiveTrovesFinite
<1> HIDE DEF due, d, e, moved, k, err
<1>7. SumFunctionOnSet(StakeOf, R) = totalStakes - run.stakes
  <2>1. totalStakes = SumFunctionOnSet(StakeOf, Borrowers)
    BY RecordedAmounts, StakesAddUpIs DEF BooksInv
  <2>2. \A b \in Borrowers : StakeOf[b] \in Nat
    BY <1>5
  <2> HIDE DEF S
  <2>3. SumFunctionOnSet(StakeOf, Borrowers)
          = SumFunctionOnSet(StakeOf, S) + SumFunctionOnSet(StakeOf, R)
    BY <1>1, <1>6, <2>2, PartOfSum
  <2>4. SumFunctionOnSet(StakeOf, R) \in Nat
    BY <1>1, <1>6, <2>2, PartOfSum
  <2> HIDE DEF R
  <2> QED BY <1>1, <1>3, <2>1, <2>3, <2>4
<1>8. SumFunctionOnSet(due, R) = (totalStakes - run.stakes) * d
  <2>1. \A b \in R : StakeOf[b] \in Int /\ due[b] = StakeOf[b] * d
    BY <1>5
  <2>2. d \in Int
    BY <1>2
  <2> HIDE DEF R
  <2>3. SumFunctionOnSet(due, R) = SumFunctionOnSet(StakeOf, R) * d
    BY <1>6, <2>1, <2>2, SumScale
  <2> QED BY <1>7, <2>3
<1>9. SumFunctionOnSet(due, T) <= SumFunctionOnSet(due, R)
      /\ SumFunctionOnSet(due, T) \in Nat /\ SumFunctionOnSet(due, R) \in Nat
  <2>1. \A b \in R : due[b] \in Nat
    BY <1>5
  <2> HIDE DEF R, T
  <2> QED BY <1>6, <2>1, PartOfSum
<1>10. SumFunctionOnSet(due, T) <= moved * k + err
  <2>1. moved * k \in Nat /\ (totalStakes - run.stakes) * d \in Nat
    <3>1. totalStakes - run.stakes \in Nat
      BY <1>3
    <3> QED BY <1>2, <1>3, <3>1, NatProduct
  <2> QED BY <1>2, <1>3, <1>8, <1>9, <2>1
<1>11. \A b \in T : Inheritance[b] \in Nat /\ due[b] \in Nat /\ Inheritance[b] * k <= due[b] + k
  <2> TAKE b \in T
  <2>1. b \in Borrowers
    BY ActiveTrovesFinite
  <2> QED BY <1>4, <1>5, <2>1
<1>12. SumFunctionOnSet(Inheritance, T) <= moved + Cardinality(T) + err \div k
  <2> HIDE DEF T
  <2> QED BY <1>3, <1>6, <1>10, <1>11, SharesAddUp
<1> QED
  BY <1>4, <1>12 DEF moved, k, err

(* The troves a step liquidates are those its run has closed. *)
LEMMA DeadAreClosed ==
  ASSUME LedgerInv, NEW run, Closed(run) \in SUBSET ActiveTroves,
         NEW liquidator, ApplyLiquidation(run, liquidator)
  PROVE  { b \in Borrowers : LiquidatedNow(b) } = Closed(run)
<1>1. Troves' = [b \in Borrowers |->
        IF b \in Closed(run) THEN ClosedTrove(b, "closedByLiquidation") ELSE Troves[b]]
  BY DEF ApplyLiquidation
<1>2. ASSUME NEW b \in Borrowers, LiquidatedNow(b) PROVE b \in Closed(run)
  BY <1>1, <1>2 DEF LiquidatedNow, IsActive
<1>3. ASSUME NEW b \in Closed(run) PROVE b \in Borrowers /\ LiquidatedNow(b)
  <2>1. b \in Borrowers /\ IsActive(b)
    BY DEF ActiveTroves
  <2>2. Troves'[b].status = "closedByLiquidation"
    BY <1>1, <2>1, ClosedTroveFields
  <2> QED BY <2>1, <2>2 DEF LiquidatedNow
<1> QED
  BY <1>2, <1>3

(* One step of a liquidation conserves. *)
LEMMA LiquidationConserves ==
  ASSUME LedgerInv, LedgerInv', BooksInv, [Next]_vars,
         NEW dead, dead = { b \in Borrowers : LiquidatedNow(b) }, dead # {}
  PROVE  /\ \A b \in ActiveTroves \ dead :
              EntireColl(b)' >= EntireColl(b) /\ Inheritance[b] >= 0
         /\ SumFunctionOnSet(Inheritance, ActiveTroves \ dead)
              <= SumFunctionOnSet(DebtOf, dead) - (totalSupply - totalSupply')
                   + Cardinality(ActiveTroves \ dead)
                   + lastError.ARTHDebt \div DECIMAL_PRECISION
<1>1. LiquidateStep
  BY OnlyLiquidationsLiquidate
<1>2. PICK run, liquidator : /\ RunInv(run, InRecoveryMode(price), price)
                             /\ ApplyLiquidation(run, liquidator)
  BY <1>1, LiquidateStepRun
<1>3. RunBooks(run, InRecoveryMode(price), price)
  BY <1>2 DEF RunInv
<1>4. Closed(run) \in SUBSET ActiveTroves /\ Closed(run) \in SUBSET Borrowers
  BY <1>3, LiquidatedAmounts
<1>5. dead = Closed(run)
  BY <1>2, <1>4, DeadAreClosed
<1> DEFINE T == ActiveTroves \ dead
           owed == SumFunctionOnSet(DebtOf, dead)
           off == run.totals.debtToOffset
           moved == run.totals.debtToRedistribute
           n == Cardinality(T)
           rest == lastError.ARTHDebt \div DECIMAL_PRECISION
           sum == SumFunctionOnSet(Inheritance, T)
<1>6. /\ \A b \in T : EntireColl(b)' >= EntireColl(b) /\ Inheritance[b] \in Nat
      /\ sum <= moved + n + rest
  BY <1>2, <1>3, <1>5, RedistributedAmounts
<1>7. owed = off + moved /\ off \in Nat /\ moved \in Nat
  BY <1>3, <1>5
     DEF RunBooks, TotalsAddUp, SplitsExactly, LiquidationRuns, LiquidationTotals
<1>8. totalSupply' = totalSupply - off /\ totalSupply \in Nat
  BY <1>2 DEF ApplyLiquidation, LedgerInv, LedgerTypeOK
<1>9. n \in Nat /\ rest \in Nat
  <2>1. IsFiniteSet(T)
    BY ActiveTrovesFinite, FS_Subset
  <2>2. n \in Nat
    BY <2>1, FS_CardinalityType
  <2>3. lastError.ARTHDebt \in Nat /\ DECIMAL_PRECISION \in Nat \ {0}
    BY PrecisionAssumption DEF LedgerInv, LedgerTypeOK, PoolType
  <2> QED BY <2>2, <2>3, NatQuotient
<1>10. sum \in Int
  <2>1. IsFiniteSet(T) /\ \A b \in T : Inheritance[b] \in Int
    BY <1>6, ActiveTrovesFinite, FS_Subset
  <2> HIDE DEF T
  <2> QED BY <2>1, SumInt
<1>11. \A b \in T : EntireColl(b)' >= EntireColl(b) /\ Inheritance[b] >= 0
  BY <1>6
<1> HIDE DEF owed, off, moved, n, rest, sum
<1>12. sum <= owed - (totalSupply - totalSupply') + n + rest
  BY <1>6, <1>7, <1>8, <1>9, <1>10
<1> QED
  BY <1>11, <1>12 DEF sum, owed, n, rest

(* Survivors of a liquidation lose nothing, and inherit no more debt than  *)
(* was redistributed, for every number of troves and every precision.      *)
THEOREM RedistributionsConserve == Spec => RedistributionConserves
<1> DEFINE dead == { b \in Borrowers : LiquidatedNow(b) }
           owed == SumFunctionOnSet([b \in Borrowers |-> EntireDebt(b)], dead)
           inherited == [b \in Borrowers |-> EntireDebt(b)' - EntireDebt(b)]
           Conserves == dead # {} =>
             /\ \A b \in ActiveTroves \ dead :
                  EntireColl(b)' >= EntireColl(b) /\ inherited[b] >= 0
             /\ SumFunctionOnSet(inherited, ActiveTroves \ dead)
                  <= owed - (totalSupply - totalSupply') + Cardinality(ActiveTroves \ dead)
                       + lastError.ARTHDebt \div DECIMAL_PRECISION
<1>1. ASSUME LedgerInv, LedgerInv', BooksInv, [Next]_vars PROVE Conserves
  BY <1>1, LiquidationConserves, Zenon DEF Inheritance, DebtOf
<1>2. LedgerInv /\ LedgerInv' /\ BooksInv /\ [Next]_vars => [Conserves]_vars
  BY <1>1
<1> QED
  BY <1>2, BooksHold, PTL DEF Spec, RedistributionConserves

------------------------------------------------------------------------------
(* The mode. *)

(* The ratio that a borrower's call checks is the one it leaves behind. *)
LEMMA OpenKeepsNormalMode ==
  ASSUME LedgerInv, NEW who \in Borrowers, NEW recipient, Open(who, recipient),
         ~InRecoveryMode(price)
  PROVE  ~InRecoveryMode(price)'
<1>1. PICK value \in Collaterals, amount \in OpenAmounts, maxFee \in MaxFees,
           tag \in frontEnds \cup {NoFrontEnd} :
        OpenTrove(who, recipient, value, amount, maxFee, tag)
  BY DEF Open
<1> DEFINE debt == CompositeDebt(amount + BorrowingFee(amount))
<1>2. /\ BorrowingFeeAccepted(amount, maxFee)
      /\ ComputeCR(EntireSystemColl + value, EntireSystemDebt + debt, price) >= CCR
      /\ activePool' = [ETH |-> activePool.ETH + value,
                        ARTHDebt |-> activePool.ARTHDebt + debt]
      /\ UNCHANGED <<defaultPool, price>>
  BY <1>1 DEF OpenTrove, BOUnchanged, envVars
<1>3. /\ value \in Nat /\ amount \in Nat /\ BorrowingFee(amount) \in Nat
      /\ ARTH_GAS_COMPENSATION \in Nat /\ CCR \in Nat
  BY <1>2, InputAssumption, DebtAssumption, RateAssumption, FeeIsAmount
     DEF BorrowingFeeAccepted
<1>4. debt \in Nat
  BY <1>3 DEF CompositeDebt
<1>5. activePool \in PoolType /\ defaultPool \in PoolType
  BY DEF LedgerInv, LedgerTypeOK
<1> HIDE DEF debt
<1>6. /\ EntireSystemColl' = EntireSystemColl + value
      /\ EntireSystemDebt' = EntireSystemDebt + debt
  BY <1>2, <1>3, <1>4, <1>5 DEF EntireSystemColl, EntireSystemDebt, PoolType
<1>7. InRecoveryMode(price)'
        <=> ComputeCR(EntireSystemColl + value, EntireSystemDebt + debt, price) < CCR
  BY <1>2, <1>6 DEF InRecoveryMode, TCR, ComputeCR
<1>8. ComputeCR(EntireSystemColl + value, EntireSystemDebt + debt, price) \in Int
  <2>1. /\ EntireSystemColl + value \in Nat /\ EntireSystemDebt + debt \in Nat
        /\ price \in Nat /\ MaxUint \in Nat
    BY <1>3, <1>4, <1>5, PrecisionAssumption
       DEF EntireSystemColl, EntireSystemDebt, PoolType, LedgerInv, LedgerTypeOK
  <2> QED
    BY <2>1, NatProduct, NatQuotient DEF ComputeCR
<1> QED
  BY <1>2, <1>3, <1>7, <1>8

(* adjustTrove does not leave the normal mode.                             *)
LEMMA AdjustKeepsNormalMode ==
  ASSUME LedgerInv, NEW b \in Borrowers, NEW value \in Nat, NEW withdrawal \in Nat,
         NEW change \in Nat, NEW isDebtIncrease \in BOOLEAN, NEW maxFee,
         AdjustTrove(b, value, withdrawal, change, isDebtIncrease, maxFee),
         ~InRecoveryMode(price)
  PROVE  ~InRecoveryMode(price)'
<1> DEFINE trove == ApplyPendingRewards(b)
           fee == IF isDebtIncrease THEN BorrowingFee(change) ELSE 0
           collDelta == IF value # 0 THEN value ELSE -withdrawal
           debtDelta == IF isDebtIncrease THEN change + fee ELSE -change
           newTCR == ComputeCR(EntireSystemColl + collDelta,
                               EntireSystemDebt + debtDelta, price)
<1>1. isDebtIncrease => BorrowingFeeAccepted(change, maxFee)
  BY DEF AdjustTrove
<1>2. fee \in Nat
  <2>1. CASE isDebtIncrease
    BY <2>1, <1>1, FeeIsAmount DEF BorrowingFeeAccepted
  <2>2. CASE ~isDebtIncrease
    BY <2>2
  <2> QED
    BY <2>1, <2>2
<1>3. collDelta \in Int /\ debtDelta \in Int
  BY <1>2
<1>4. /\ newTCR >= CCR
      /\ AdjustArithmetic(b, trove, collDelta, debtDelta)
      /\ activePool' = [ETH |-> activePool.ETH + trove.movedETH + collDelta,
                        ARTHDebt |-> activePool.ARTHDebt + trove.movedDebt + debtDelta]
      /\ defaultPool' = [ETH |-> defaultPool.ETH - trove.movedETH,
                         ARTHDebt |-> defaultPool.ARTHDebt - trove.movedDebt]
      /\ price' = price
  BY DEF AdjustTrove, ValidAdjustment, BOUnchanged, envVars
<1>5. trove.movedETH \in Nat /\ trove.movedDebt \in Nat
  BY AppliedRewardsTyped
<1>6. /\ activePool \in PoolType /\ defaultPool \in PoolType /\ price \in Nat
  BY DEF LedgerInv, LedgerTypeOK
<1> HIDE DEF fee, collDelta, debtDelta, trove
<1>7. /\ EntireSystemColl' = EntireSystemColl + collDelta
      /\ EntireSystemDebt' = EntireSystemDebt + debtDelta
      /\ EntireSystemColl' \in Nat /\ EntireSystemDebt' \in Nat
  BY <1>3, <1>4, <1>5, <1>6
     DEF EntireSystemColl, EntireSystemDebt, PoolType, AdjustArithmetic
<1>8. InRecoveryMode(price)' <=> newTCR < CCR
  BY <1>4, <1>7 DEF InRecoveryMode, TCR, ComputeCR
<1>9. newTCR \in Int /\ CCR \in Int
  BY <1>6, <1>7, NatProduct, NatQuotient, PrecisionAssumption, RateAssumption
     DEF ComputeCR
<1> QED
  BY <1>4, <1>8, <1>9

(* closeTrove ends in the normal mode.                                     *)
LEMMA CloseKeepsNormalMode ==
  ASSUME LedgerInv, NEW b \in Borrowers, CloseTrove(b)
  PROVE  ~InRecoveryMode(price)'
<1> DEFINE trove == ApplyPendingRewards(b)
           newTCR == ComputeCR(EntireSystemColl - trove.coll,
                               EntireSystemDebt - trove.debt, price)
<1>1. /\ newTCR >= CCR
      /\ AdjustArithmetic(b, trove, -trove.coll, -trove.debt)
      /\ activePool' = [ETH |-> activePool.ETH + trove.movedETH - trove.coll,
                        ARTHDebt |-> activePool.ARTHDebt + trove.movedDebt - trove.debt]
      /\ defaultPool' = [ETH |-> defaultPool.ETH - trove.movedETH,
                         ARTHDebt |-> defaultPool.ARTHDebt - trove.movedDebt]
      /\ price' = price
  BY DEF CloseTrove, BOUnchanged, envVars
<1>2. /\ trove.coll \in Nat /\ trove.debt \in Nat
      /\ trove.movedETH \in Nat /\ trove.movedDebt \in Nat
  BY AppliedRewardsTyped
<1>3. activePool \in PoolType /\ defaultPool \in PoolType /\ price \in Nat
  BY DEF LedgerInv, LedgerTypeOK
<1> HIDE DEF trove
<1>4. /\ EntireSystemColl' = EntireSystemColl - trove.coll
      /\ EntireSystemDebt' = EntireSystemDebt - trove.debt
      /\ EntireSystemColl' \in Nat /\ EntireSystemDebt' \in Nat
  BY <1>1, <1>2, <1>3
     DEF EntireSystemColl, EntireSystemDebt, PoolType, AdjustArithmetic
<1>5. InRecoveryMode(price)' <=> newTCR < CCR
  BY <1>1, <1>4 DEF InRecoveryMode, TCR, ComputeCR
<1>6. newTCR \in Int /\ CCR \in Int
  BY <1>3, <1>4, NatProduct, NatQuotient, PrecisionAssumption, RateAssumption
     DEF ComputeCR
<1> QED
  BY <1>1, <1>5, <1>6

(* What a ratio of at least q says of amounts.                             *)
LEMMA RatioBounds ==
  ASSUME NEW coll \in Nat, NEW debt \in Nat, NEW p \in Nat, NEW q \in Nat,
         q <= ComputeCR(coll, debt, p)
  PROVE  q * debt <= coll * p
<1>1. coll * p \in Nat
  BY NatProduct
<1>2. CASE debt = 0
  BY <1>1, <1>2
<1>3. CASE debt > 0
  <2> DEFINE x == coll * p
             r == x \div debt
  <2>1. r \in Nat /\ r * debt <= x /\ q <= r
    BY <1>1, <1>3, NatQuotient, FloorQuotient DEF ComputeCR
  <2> HIDE DEF x, r
  <2>2. \A u, v, w \in Nat : u <= v => u * w <= v * w
    OBVIOUS
  <2>3. q * debt <= r * debt /\ q * debt \in Nat /\ r * debt \in Nat /\ x \in Nat
    BY <1>1, <2>1, <2>2, NatProduct DEF x
  <2> QED BY <2>1, <2>3 DEF x
<1> QED
  BY <1>2, <1>3

(* A ratio is at least q if the collateral is worth q times the debt.      *)
LEMMA RatioAtLeast ==
  ASSUME NEW coll \in Nat, NEW debt \in Nat, NEW p \in Nat, NEW q \in Int,
         q <= MaxUint, q * debt <= coll * p
  PROVE  q <= ComputeCR(coll, debt, p)
<1>1. coll * p \in Nat
  BY NatProduct
<1> QED
  BY <1>1, QuotientAtLeast DEF ComputeCR

(* The rounding of a ratio is less than one of its digits.                 *)
LEMMA RatioBelow ==
  ASSUME NEW coll \in Nat, NEW debt \in Nat \ {0}, NEW p \in Nat
  PROVE  /\ ComputeCR(coll, debt, p) \in Nat
         /\ coll * p < ComputeCR(coll, debt, p) * debt + debt
<1>1. coll * p \in Nat
  BY NatProduct
<1> QED
  BY <1>1, NatQuotient, FloorQuotient DEF ComputeCR

(* What the system holds and owes, and its ratio, are amounts.             *)
SystemAmounts ==
  /\ EntireSystemColl \in Nat /\ EntireSystemDebt \in Nat /\ price \in Nat
  /\ TCR(price) \in Nat

(* They are in every state of the ledgers.                                 *)
LEMMA SystemIsAmounts == ASSUME LedgerInv PROVE SystemAmounts
<1>1. /\ EntireSystemColl \in Nat /\ EntireSystemDebt \in Nat /\ price \in Nat
  BY DEF LedgerInv, LedgerTypeOK, PoolType, EntireSystemColl, EntireSystemDebt
<1>2. CASE EntireSystemDebt = 0
  BY <1>1, <1>2, PrecisionAssumption DEF SystemAmounts, TCR, ComputeCR
<1>3. CASE EntireSystemDebt # 0
  BY <1>1, <1>3, RatioBelow DEF SystemAmounts, TCR
<1> QED
  BY <1>2, <1>3

(* The ratio of the system after a step is an amount too. *)
LEMMA SystemRatioAfter == ASSUME LedgerInv' PROVE TCR(price)' \in Nat
<1> DEFINE C == EntireSystemColl'
           D == EntireSystemDebt'
           p == price'
<1>1. C \in Nat /\ D \in Nat /\ p \in Nat
  BY DEF LedgerInv, LedgerTypeOK, PoolType, EntireSystemColl, EntireSystemDebt
<1>2. TCR(price)' = ComputeCR(C, D, p)
  BY DEF TCR, ComputeCR
<1> HIDE DEF C, D, p
<1>3. CASE D = 0
  BY <1>2, <1>3, PrecisionAssumption DEF ComputeCR
<1>4. CASE D # 0
  BY <1>1, <1>2, <1>4, RatioBelow
<1> QED
  BY <1>3, <1>4

(* In recovery mode an opening brings a trove at CCR, which the system is  *)
(* not: its ratio does not fall.                                           *)
LEMMA OpenRaisesRatio ==
  ASSUME LedgerInv, NEW who \in Borrowers, NEW recipient, Open(who, recipient),
         InRecoveryMode(price)
  PROVE  TCR(price)' >= TCR(price)
<1>1. PICK value \in Collaterals, amount \in OpenAmounts, maxFee \in MaxFees,
           tag \in frontEnds \cup {NoFrontEnd} :
        OpenTrove(who, recipient, value, amount, maxFee, tag)
  BY DEF Open
<1> DEFINE debt == CompositeDebt(amount)
           t == TCR(price)
           C == EntireSystemColl
           D == EntireSystemDebt
<1>2. value \in Nat /\ amount \in Nat /\ ARTH_GAS_COMPENSATION \in Nat
  BY InputAssumption, DebtAssumption
<1>3. amount + 0 = amount
  BY <1>2
<1>4. /\ ComputeCR(value, debt, price) >= CCR
      /\ activePool' = [ETH |-> activePool.ETH + value,
                        ARTHDebt |-> activePool.ARTHDebt + debt]
      /\ UNCHANGED <<defaultPool, price>>
  BY <1>1, <1>3 DEF OpenTrove, BOUnchanged, envVars
<1>5. debt \in Nat
  BY <1>2 DEF CompositeDebt
<1>6. activePool \in PoolType /\ defaultPool \in PoolType
  BY DEF LedgerInv, LedgerTypeOK
<1>7. C \in Nat /\ D \in Nat /\ price \in Nat /\ t \in Nat
  BY SystemIsAmounts DEF SystemAmounts
<1>8. t < CCR /\ CCR \in Nat /\ CCR < MaxUint /\ MaxUint \in Nat
  BY RateAssumption, PrecisionAssumption DEF InRecoveryMode
<1> HIDE DEF debt
<1>9. EntireSystemColl' = C + value /\ EntireSystemDebt' = D + debt
  BY <1>2, <1>4, <1>5, <1>6 DEF EntireSystemColl, EntireSystemDebt, PoolType
<1>10. TCR(price)' = ComputeCR(C + value, D + debt, price)
  BY <1>4, <1>9 DEF TCR, ComputeCR
<1>11. t = ComputeCR(C, D, price)
  BY DEF TCR
<1> HIDE DEF t, C, D
<1>12. t * D <= C * price
  BY <1>7, <1>11, RatioBounds
<1>13. ComputeCR(value, debt, price) \in Int /\ t <= ComputeCR(value, debt, price)
  <2>1. ComputeCR(value, debt, price) \in Int
    <3>1. value \in Int /\ debt \in Int
      BY <1>2, <1>5
    <3> QED BY <1>7, <3>1, RatioType
  <2> QED BY <1>4, <1>7, <1>8, <2>1
<1>14. t * debt <= value * price
  BY <1>2, <1>5, <1>7, <1>13, RatioBounds
<1>15. t * (D + debt) <= (C + value) * price
  <2>1. /\ t * (D + debt) = t * D + t * debt
        /\ (C + value) * price = C * price + value * price
    BY <1>2, <1>5, <1>7
  <2>2. /\ t * D \in Nat /\ t * debt \in Nat /\ C * price \in Nat /\ value * price \in Nat
    BY <1>2, <1>5, <1>7, NatProduct
  <2> QED BY <1>12, <1>14, <2>1, <2>2
<1>16. C + value \in Nat /\ D + debt \in Nat /\ t <= MaxUint
  BY <1>2, <1>5, <1>7, <1>8
<1> QED
  BY <1>7, <1>10, <1>15, <1>16, RatioAtLeast DEF t

(* The numbers behind an increase of debt: a trove whose ratio does not    *)
(* fall and is above the system's lowers the latter by at most one digit,  *)
(* the rounding of the trove's own.                                        *)
LEMMA IncreaseKeepsRatio ==
  ASSUME NEW C \in Nat, NEW D \in Nat, NEW c \in Nat, NEW d \in Nat \ {0}, NEW p \in Nat,
         NEW v \in Nat, NEW ch \in Nat, NEW t \in Nat, d <= D, t <= MaxUint,
         t * D <= C * p, ComputeCR(c, d, p) <= ComputeCR(c + v, d + ch, p),
         t <= ComputeCR(c + v, d + ch, p)
  PROVE  t - 1 <= ComputeCR(C + v, D + ch, p)
<1> DEFINE r0 == ComputeCR(c, d, p)
           r1 == ComputeCR(c + v, d + ch, p)
<1>1. r0 \in Nat /\ c * p < r0 * d + d
  BY RatioBelow
<1>2. r1 \in Nat
  <2>1. c + v \in Nat /\ d + ch \in Nat \ {0}
    OBVIOUS
  <2> QED BY <2>1, RatioBelow
<1>3. r1 * (d + ch) <= (c + v) * p
  <2>1. c + v \in Nat /\ d + ch \in Nat /\ r1 <= ComputeCR(c + v, d + ch, p)
    BY <1>2
  <2> HIDE DEF r1
  <2> QED BY <1>2, <2>1, RatioBounds
<1>4. r0 <= r1 /\ t <= r1
  OBVIOUS
<1> HIDE DEF r0, r1
<1>5. \A x, y, z \in Nat : (x + y) * z = x * z + y * z /\ z * (x + y) = z * x + z * y
  OBVIOUS
<1>6. \A x, y, z \in Nat : x <= y => x * z <= y * z
  OBVIOUS
<1>7. /\ r1 * (d + ch) = r1 * d + r1 * ch /\ (c + v) * p = c * p + v * p
      /\ (C + v) * p = C * p + v * p /\ t * (D + ch) = t * D + t * ch
  BY <1>2, <1>5
<1>8. r0 * d <= r1 * d /\ t * ch <= r1 * ch
  BY <1>1, <1>2, <1>4, <1>6
<1>9. /\ r0 * d \in Nat /\ r1 * d \in Nat /\ t * ch \in Nat /\ r1 * ch \in Nat
      /\ c * p \in Nat /\ v * p \in Nat /\ C * p \in Nat /\ t * D \in Nat
  BY <1>1, <1>2, NatProduct
<1>10. (t - 1) * (D + ch) = t * (D + ch) - (D + ch)
  OBVIOUS
<1>11. t * ch <= v * p + d
  BY <1>1, <1>3, <1>7, <1>8, <1>9
<1>12. t * D + t * ch - (D + ch) <= C * p + v * p
  BY <1>9, <1>11
<1>13. (t - 1) * (D + ch) <= (C + v) * p
  BY <1>7, <1>10, <1>12
<1>14. C + v \in Nat /\ D + ch \in Nat /\ t - 1 \in Int /\ t - 1 <= MaxUint
  BY PrecisionAssumption
<1> QED
  BY <1>13, <1>14, RatioAtLeast

(* No trove owes more than the two pools, once its rewards are applied.    *)
LEMMA DebtOfOne ==
  ASSUME LedgerInv, PoolsInv, NEW b \in ActiveTroves,
         ApplyPendingRewards(b).movedDebt <= defaultPool.ARTHDebt
  PROVE  ApplyPendingRewards(b).debt <= EntireSystemDebt
<1> DEFINE moved == ApplyPendingRewards(b).movedDebt
<1>1. b \in Borrowers
  BY DEF ActiveTroves
<1>2. ApplyPendingRewards(b).debt = Troves[b].debt + moved
  BY AppliedFacts
<1>3. moved \in Nat
  BY <1>1, AppliedRewardsTyped
<1>4. Troves[b].debt <= activePool.ARTHDebt /\ Troves[b].debt \in Nat
  <2>1. /\ \A c \in Borrowers : DebtOnly[c] \in Nat
        /\ DebtOnly[b] = Troves[b].debt
        /\ activePool.ARTHDebt = SumFunctionOnSet(DebtOnly, Borrowers)
    BY <1>1, RecordedAmounts DEF PoolsInv, ActivePoolHolds
  <2>2. /\ IsFiniteSet({b}) /\ {b} \in SUBSET Borrowers /\ IsFiniteSet(Borrowers)
    BY <1>1, ActiveTrovesFinite, FS_Singleton
  <2>3. SumFunctionOnSet(DebtOnly, {b}) <= SumFunctionOnSet(DebtOnly, Borrowers)
    BY <2>1, <2>2, PartOfSum
  <2>4. SumFunctionOnSet(DebtOnly, {b}) = DebtOnly[b]
    <3>1. b \in {b} /\ {b} \ {b} = {}
      OBVIOUS
    <3>2. SumFunctionOnSet(DebtOnly, {b}) = DebtOnly[b] + SumFunctionOnSet(DebtOnly, {b} \ {b})
      <4>1. \A c \in {b} : DebtOnly[c] \in Int
        BY <1>1, <2>1
      <4> QED BY <2>2, <3>1, <4>1, SumRemove
    <3>3. SumFunctionOnSet(DebtOnly, {}) = 0
      BY SumEmpty
    <3>4. DebtOnly[b] \in Nat
      BY <1>1, <2>1
    <3> QED BY <3>1, <3>2, <3>3, <3>4
  <2> QED BY <1>1, <2>1, <2>3, <2>4
<1>5. activePool.ARTHDebt \in Nat /\ defaultPool.ARTHDebt \in Nat
  BY DEF LedgerInv, LedgerTypeOK, PoolType
<1> HIDE DEF moved
<1> QED
  BY <1>2, <1>3, <1>4, <1>5 DEF EntireSystemDebt, moved

(* In recovery mode an adjustment cannot take collateral out; one that     *)
(* increases the debt must not lower the trove's own ratio, and one that   *)
(* repays raises the ratio of the system.                                  *)
LEMMA AdjustKeepsRatio ==
  ASSUME LedgerInv, MinimumDebtKept, PoolsInv, NEW b \in Borrowers, NEW value \in Nat,
         NEW withdrawal \in Nat, NEW change \in Nat, NEW isDebtIncrease \in BOOLEAN,
         NEW maxFee,
         AdjustTrove(b, value, withdrawal, change, isDebtIncrease, maxFee),
         InRecoveryMode(price)
  PROVE  TCR(price)' >= TCR(price) - 1
<1> DEFINE trove == ApplyPendingRewards(b)
           delta == IF isDebtIncrease THEN change ELSE -change
           t == TCR(price)
           C == EntireSystemColl
           D == EntireSystemDebt
<1>1. value = 0 => withdrawal = 0
  BY DEF AdjustTrove, ValidAdjustment
<1>2. (IF value # 0 THEN value ELSE -withdrawal) = value
  BY <1>1
<1>3. (IF isDebtIncrease THEN change + 0 ELSE -change) = delta
  OBVIOUS
<1>4. /\ IsActive(b)
      /\ isDebtIncrease =>
           /\ ComputeCR(trove.coll + value, trove.debt + delta, price) >= CCR
           /\ ComputeCR(trove.coll + value, trove.debt + delta, price)
                >= ComputeCR(trove.coll, trove.debt, price)
      /\ AdjustArithmetic(b, trove, value, delta)
      /\ activePool' = [ETH |-> activePool.ETH + trove.movedETH + value,
                        ARTHDebt |-> activePool.ARTHDebt + trove.movedDebt + delta]
      /\ defaultPool' = [ETH |-> defaultPool.ETH - trove.movedETH,
                         ARTHDebt |-> defaultPool.ARTHDebt - trove.movedDebt]
      /\ price' = price
  BY <1>2, <1>3 DEF AdjustTrove, ValidAdjustment, BOUnchanged, envVars
<1>5. /\ trove.coll \in Nat /\ trove.debt \in Nat
      /\ trove.movedETH \in Nat /\ trove.movedDebt \in Nat
  BY AppliedRewardsTyped
<1>6. activePool \in PoolType /\ defaultPool \in PoolType
  BY DEF LedgerInv, LedgerTypeOK
<1>7. C \in Nat /\ D \in Nat /\ price \in Nat /\ t \in Nat
  BY SystemIsAmounts DEF SystemAmounts
<1>8. t < CCR /\ CCR \in Nat /\ CCR < MaxUint /\ MaxUint \in Nat
  BY RateAssumption, PrecisionAssumption DEF InRecoveryMode
<1>9. delta \in Int
  OBVIOUS
<1> HIDE DEF delta
<1>10. /\ EntireSystemColl' = C + value /\ EntireSystemDebt' = D + delta
       /\ C + value \in Nat /\ D + delta \in Nat
  <2>1. AdjustArithmetic(b, trove, value, delta)
    BY <1>4
  <2> HIDE DEF trove
  <2> QED BY <1>4, <1>5, <1>6, <1>9, <2>1
             DEF EntireSystemColl, EntireSystemDebt, PoolType, AdjustArithmetic
<1>11. TCR(price)' = ComputeCR(C + value, D + delta, price)
  BY <1>4, <1>10 DEF TCR, ComputeCR
<1>12. t * D <= C * price
  <2>1. t <= ComputeCR(C, D, price)
    BY <1>7 DEF TCR
  <2> HIDE DEF t, C, D
  <2> QED BY <1>7, <2>1, RatioBounds
<1>13. CASE isDebtIncrease
  <2>1. trove.debt > 0 /\ trove.debt <= D
    <3>1. b \in ActiveTroves
      BY <1>4 DEF ActiveTroves
    <3>2. trove.debt = Troves[b].debt + trove.movedDebt
      BY <3>1, AppliedFacts
    <3>3. Troves[b].debt \in Nat /\ Troves[b].debt >= ARTH_GAS_COMPENSATION + MIN_NET_DEBT
      BY <3>1 DEF MinimumDebtKept, LedgerInv, LedgerTypeOK
    <3>4. ARTH_GAS_COMPENSATION \in Nat /\ MIN_NET_DEBT \in Nat \ {0}
      BY DebtAssumption
    <3>5. trove.debt <= D
      BY <1>4, <3>1, DebtOfOne DEF AdjustArithmetic
    <3> HIDE DEF trove, D
    <3> QED BY <1>5, <3>2, <3>3, <3>4, <3>5
  <2>2. delta = change
    BY <1>13 DEF delta
  <2>3. ComputeCR(trove.coll + value, trove.debt + change, price) \in Int
    <3>1. trove.coll + value \in Int /\ trove.debt + change \in Int
      BY <1>5
    <3> QED BY <1>7, <3>1, RatioType
  <2>4. ComputeCR(trove.coll, trove.debt, price) \in Int
    <3>1. trove.coll \in Int /\ trove.debt \in Int
      BY <1>5
    <3> HIDE DEF trove
    <3> QED BY <1>7, <3>1, RatioType
  <2>5. /\ ComputeCR(trove.coll, trove.debt, price)
             <= ComputeCR(trove.coll + value, trove.debt + change, price)
        /\ t <= ComputeCR(trove.coll + value, trove.debt + change, price)
    <3> HIDE DEF trove, t
    <3> QED BY <1>4, <1>7, <1>8, <1>13, <2>2, <2>3, <2>4
  <2>6. trove.coll \in Nat /\ trove.debt \in Nat \ {0} /\ t <= MaxUint
    BY <1>5, <1>7, <1>8, <2>1
  <2>7. t - 1 <= ComputeCR(C + value, D + change, price)
    <3> HIDE DEF trove, t, C, D
    <3> QED BY <1>7, <1>12, <2>1, <2>5, <2>6, IncreaseKeepsRatio
  <2>8. ComputeCR(C + value, D + change, price) \in Int
    <3>1. C + value \in Int /\ D + change \in Int
      BY <1>7
    <3> QED BY <1>7, <3>1, RatioType
  <2> QED BY <1>7, <1>11, <2>2, <2>7, <2>8
<1>14. CASE ~isDebtIncrease
  <2>1. delta = -change
    BY <1>14 DEF delta
  <2>2. D + delta <= D /\ D + delta \in Nat
    BY <1>7, <1>10, <2>1
  <2> HIDE DEF t, C, D, trove
  <2>3. t * (D + delta) <= t * D
    <3>1. \A x, y, z \in Nat : z <= y => x * z <= x * y
      OBVIOUS
    <3> QED BY <1>7, <2>2, <3>1
  <2>4. C * price <= (C + value) * price
    <3>1. \A x, y, z \in Nat : x * z <= (x + y) * z
      OBVIOUS
    <3> QED BY <1>7, <3>1
  <2>5. t * (D + delta) <= (C + value) * price
    <3>1. /\ t * (D + delta) \in Nat /\ t * D \in Nat /\ C * price \in Nat
          /\ (C + value) * price \in Nat
      BY <1>7, <1>10, <2>2, NatProduct
    <3> QED BY <1>12, <2>3, <2>4, <3>1
  <2>6. t <= MaxUint /\ t \in Int
    BY <1>7, <1>8
  <2>7. t <= ComputeCR(C + value, D + delta, price)
    BY <1>7, <1>10, <2>5, <2>6, RatioAtLeast
  <2>8. ComputeCR(C + value, D + delta, price) \in Int
    <3>1. C + value \in Int /\ D + delta \in Int
      BY <1>10
    <3> QED BY <1>7, <3>1, RatioType
  <2> QED BY <1>7, <1>11, <2>7, <2>8 DEF t
<1> QED
  BY <1>13, <1>14

(* A redemption that closes no trove keeps the system at any ratio it has  *)
(* and that is not below 100%: each unit of debt takes collateral of its   *)
(* face value along.                                                       *)
LEMMA RedemptionKeepsRatio ==
  ASSUME LedgerInv, LedgerInv', BooksInv, RedeemStep,
         \A b \in Borrowers : ~RedeemedNow(b),
         NEW q \in Nat, DECIMAL_PRECISION <= q, q <= MaxUint, q <= TCR(price)
  PROVE  q <= TCR(price)'
<1>1. PICK run, redeemer : RedemptionBooks(run, price) /\ Redeems(run, redeemer)
  BY RedeemStepRun
<1> DEFINE C == EntireSystemColl
           D == EntireSystemDebt
<1>2. /\ run.closed \in Seq(ActiveTroves) /\ run.surplus \in [Borrowers -> Int]
      /\ run.drawn \in Nat /\ run.redeemed \in Nat
      /\ run.movedETH \in Nat /\ run.movedDebt \in Nat
      /\ ClosedBy(run) \subseteq ActiveTroves
      /\ \A b \in Borrowers \ ClosedBy(run) : run.surplus[b] = 0
      /\ run.drawn * price <= run.redeemed * DECIMAL_PRECISION
  BY <1>1 DEF RedemptionBooks, RedemptionRuns
<1>3. /\ Troves' = [b \in Borrowers |-> TroveAfter(run, b)]
      /\ activePool' = [ETH |-> activePool.ETH + run.movedETH - SurplusOf(run) - run.drawn,
                        ARTHDebt |-> activePool.ARTHDebt + run.movedDebt
                                       - ReserveOf(run) - run.redeemed]
      /\ defaultPool' = [ETH |-> defaultPool.ETH - run.movedETH,
                         ARTHDebt |-> defaultPool.ARTHDebt - run.movedDebt]
      /\ price' = price
  BY <1>1 DEF Redeems
<1>4. ClosedBy(run) = {}
  <2>1. SUFFICES ASSUME NEW b \in ClosedBy(run) PROVE FALSE
    OBVIOUS
  <2>2. b \in Borrowers /\ IsActive(b)
    BY <1>2 DEF ActiveTroves
  <2>3. Troves'[b].status = "closedByRedemption"
    BY <1>3, <2>1, <2>2, ClosedTroveFields DEF TroveAfter
  <2> QED BY <2>2, <2>3 DEF RedeemedNow
<1>5. ReserveOf(run) = 0
  <2>1. Len(run.closed) \in Nat /\ ToSet(run.closed) = {run.closed[i] : i \in 1..Len(run.closed)}
    BY <1>2, ListFacts
  <2>2. Len(run.closed) = 0
    <3>1. SUFFICES ASSUME Len(run.closed) # 0 PROVE FALSE
      OBVIOUS
    <3>2. 1 \in 1..Len(run.closed)
      BY <2>1, <3>1
    <3> QED BY <1>4, <2>1, <3>2 DEF ClosedBy
  <2> QED BY <2>2, DebtAssumption DEF ReserveOf
<1>6. SurplusOf(run) = 0
  <2>1. DOMAIN run.surplus = Borrowers /\ \A b \in Borrowers : run.surplus[b] = 0
    BY <1>2, <1>4
  <2>2. SumFunctionOnSet(run.surplus, Borrowers) = 0
    BY <2>1, ActiveTrovesFinite, SumOfZeros
  <2> QED BY <2>1, <2>2 DEF SurplusOf, SumFunction
<1>7. C \in Nat /\ D \in Nat /\ price \in Nat
  BY SystemIsAmounts DEF SystemAmounts
<1>8. /\ activePool \in PoolType /\ defaultPool \in PoolType
      /\ activePool' \in PoolType /\ defaultPool' \in PoolType
  BY DEF LedgerInv, LedgerTypeOK
<1>9. /\ EntireSystemColl' = C - run.drawn /\ EntireSystemDebt' = D - run.redeemed
      /\ C - run.drawn \in Nat /\ D - run.redeemed \in Nat
  <2>1. /\ activePool'.ETH = activePool.ETH + run.movedETH - 0 - run.drawn
        /\ activePool'.ARTHDebt = activePool.ARTHDebt + run.movedDebt - 0 - run.redeemed
        /\ defaultPool'.ETH = defaultPool.ETH - run.movedETH
        /\ defaultPool'.ARTHDebt = defaultPool.ARTHDebt - run.movedDebt
    BY <1>3, <1>5, <1>6
  <2>2. /\ activePool.ETH \in Nat /\ activePool.ARTHDebt \in Nat
        /\ defaultPool.ETH \in Nat /\ defaultPool.ARTHDebt \in Nat
        /\ activePool'.ETH \in Nat /\ activePool'.ARTHDebt \in Nat
        /\ defaultPool'.ETH \in Nat /\ defaultPool'.ARTHDebt \in Nat
    BY <1>8 DEF PoolType
  <2>3. /\ EntireSystemColl' = activePool'.ETH + defaultPool'.ETH
        /\ EntireSystemDebt' = activePool'.ARTHDebt + defaultPool'.ARTHDebt
        /\ C = activePool.ETH + defaultPool.ETH
        /\ D = activePool.ARTHDebt + defaultPool.ARTHDebt
    BY DEF EntireSystemColl, EntireSystemDebt
  <2> HIDE DEF C, D
  <2>4. \A u, v, w, x \in Nat : (u + v - 0 - w) + (x - v) = (u + x) - w
    OBVIOUS
  <2>5. EntireSystemColl' = C - run.drawn
    <3>1. EntireSystemColl' = (activePool.ETH + run.movedETH - 0 - run.drawn)
                                + (defaultPool.ETH - run.movedETH)
      BY <2>1, <2>3
    <3>2. C - run.drawn = (activePool.ETH + defaultPool.ETH) - run.drawn
      BY <2>3
    <3>3. (activePool.ETH + run.movedETH - 0 - run.drawn) + (defaultPool.ETH - run.movedETH)
            = (activePool.ETH + defaultPool.ETH) - run.drawn
      BY <1>2, <2>2, <2>4, SMTT(30)
    <3> QED BY <3>1, <3>2, <3>3
  <2>6. EntireSystemDebt' = D - run.redeemed
    <3>1. EntireSystemDebt' = (activePool.ARTHDebt + run.movedDebt - 0 - run.redeemed)
                                + (defaultPool.ARTHDebt - run.movedDebt)
      BY <2>1, <2>3
    <3>2. D - run.redeemed = (activePool.ARTHDebt + defaultPool.ARTHDebt) - run.redeemed
      BY <2>3
    <3>3. (activePool.ARTHDebt + run.movedDebt - 0 - run.redeemed) + (defaultPool.ARTHDebt - run.movedDebt)
            = (activePool.ARTHDebt + defaultPool.ARTHDebt) - run.redeemed
      BY <1>2, <2>2, <2>4, SMTT(30)
    <3> QED BY <3>1, <3>2, <3>3
  <2>7. EntireSystemColl' \in Nat /\ EntireSystemDebt' \in Nat
    BY <2>2, <2>3
  <2> QED BY <2>5, <2>6, <2>7
<1>10. TCR(price)' = ComputeCR(C - run.drawn, D - run.redeemed, price)
  BY <1>3, <1>9 DEF TCR, ComputeCR
<1>11. q * D <= C * price
  <2>1. q <= ComputeCR(C, D, price)
    BY DEF TCR
  <2> HIDE DEF C, D
  <2> QED BY <1>7, <2>1, RatioBounds
<1> HIDE DEF C, D
<1>12. run.drawn * price <= q * run.redeemed
  <2>1. DECIMAL_PRECISION \in Nat
    BY PrecisionAssumption
  <2>2. \A x, y, z \in Nat : x <= y => z * x <= y * z
    OBVIOUS
  <2>3. run.redeemed * DECIMAL_PRECISION <= q * run.redeemed
    BY <1>2, <2>1, <2>2
  <2>4. /\ run.redeemed * DECIMAL_PRECISION \in Nat /\ q * run.redeemed \in Nat
        /\ run.drawn * price \in Nat
    BY <1>2, <1>7, <2>1, NatProduct
  <2> QED BY <1>2, <2>3, <2>4
<1>13. q * (D - run.redeemed) <= (C - run.drawn) * price
  <2>1. \A x, y, z \in Int : (x - y) * z = x * z - y * z /\ z * (x - y) = z * x - z * y
    OBVIOUS
  <2>2. /\ q * (D - run.redeemed) = q * D - q * run.redeemed
        /\ (C - run.drawn) * price = C * price - run.drawn * price
    BY <1>2, <1>7, <2>1
  <2>3. /\ q * D \in Nat /\ q * run.redeemed \in Nat /\ C * price \in Nat
        /\ run.drawn * price \in Nat
    BY <1>2, <1>7, NatProduct
  <2> QED BY <1>11, <1>12, <2>2, <2>3
<1> QED
  BY <1>7, <1>9, <1>10, <1>13, RatioAtLeast

(* A redemption is refused below MCR; one that closes no trove neither     *)
(* leaves the normal mode nor lowers the ratio of recovery mode.           *)
LEMMA RedemptionProtectsTheMode ==
  ASSUME LedgerInv, LedgerInv', BooksInv, RedeemStep,
         \A b \in Borrowers : ~RedeemedNow(b)
  PROVE  IF InRecoveryMode(price) THEN TCR(price)' >= TCR(price) - 1
                                  ELSE ~InRecoveryMode(price)'
<1>1. PICK run, redeemer : RedemptionBooks(run, price) /\ Redeems(run, redeemer)
  BY RedeemStepRun
<1>2. TCR(price) >= MCR /\ price' = price
  BY <1>1 DEF Redeems
<1>3. /\ MCR \in Nat /\ CCR \in Nat /\ DECIMAL_PRECISION \in Nat /\ DECIMAL_PRECISION < MCR
      /\ MCR < CCR /\ CCR < MaxUint /\ MaxUint \in Nat
  BY RateAssumption, PrecisionAssumption DEF OneHundredPct
<1>4. TCR(price) \in Nat /\ TCR(price)' \in Nat
  <2>1. TCR(price) \in Nat
    BY SystemIsAmounts DEF SystemAmounts
  <2>2. TCR(price)' \in Nat
    BY SystemRatioAfter
  <2> QED BY <2>1, <2>2
<1>5. CASE InRecoveryMode(price)
  <2>1. TCR(price) < CCR
    BY <1>5 DEF InRecoveryMode
  <2>2. DECIMAL_PRECISION <= TCR(price) /\ TCR(price) <= MaxUint /\ TCR(price) <= TCR(price)
    BY <1>2, <1>3, <1>4, <2>1
  <2>3. TCR(price) <= TCR(price)'
    BY <1>4, <2>2, RedemptionKeepsRatio
  <2> QED BY <1>4, <1>5, <2>3
<1>6. CASE ~InRecoveryMode(price)
  <2>1. CCR <= TCR(price)
    BY <1>3, <1>4, <1>6 DEF InRecoveryMode
  <2>2. DECIMAL_PRECISION <= CCR /\ CCR <= MaxUint
    BY <1>3
  <2>3. CCR <= TCR(price)'
    BY <1>3, <2>1, <2>2, RedemptionKeepsRatio
  <2>4. ~(TCR(price)' < CCR)
    BY <1>3, <1>4, <2>3
  <2> QED BY <1>2, <1>6, <2>4 DEF InRecoveryMode
<1> QED
  BY <1>5, <1>6

(* Every liquidation closes a trove. *)
LEMMA LiquidationsLiquidate ==
  ASSUME LedgerInv, BooksInv, LiquidateStep
  PROVE  \E b \in Borrowers : LiquidatedNow(b)
<1>1. PICK run, liquidator : /\ RunInv(run, InRecoveryMode(price), price)
                             /\ ApplyLiquidation(run, liquidator)
  BY LiquidateStepRun
<1>2. RunBooks(run, InRecoveryMode(price), price)
  BY <1>1 DEF RunInv
<1>3. /\ run.closed \in Seq(ActiveTroves) /\ Closed(run) = ToSet(run.closed)
      /\ run.totals.entireTroveDebt = SumFunctionOnSet(DebtOf, Closed(run))
  BY <1>2 DEF RunBooks, LiquidationRuns, TotalsAddUp, Closed
<1>4. /\ run.totals.entireTroveDebt > 0
      /\ Troves' = [b \in Borrowers |->
           IF b \in Closed(run) THEN ClosedTrove(b, "closedByLiquidation") ELSE Troves[b]]
  BY <1>1 DEF ApplyLiquidation, LiquidationRequirements
<1>5. Closed(run) # {}
  <2>1. SUFFICES ASSUME Closed(run) = {} PROVE FALSE
    OBVIOUS
  <2>2. run.totals.entireTroveDebt = 0
    BY <1>3, <2>1, SumEmpty
  <2> QED BY <1>4, <2>2
<1>6. PICK b \in Closed(run) : TRUE
  BY <1>5
<1>7. b \in ActiveTroves
  BY <1>3, <1>6, ListFacts
<1>8. b \in Borrowers /\ IsActive(b)
  BY <1>7 DEF ActiveTroves
<1>9. Troves'[b].status = "closedByLiquidation"
  BY <1>4, <1>6, <1>8, ClosedTroveFields
<1> QED
  BY <1>8, <1>9 DEF LiquidatedNow

(* What a step that closes no trove at a constant price does to the mode.  *)
ProtectsTheMode ==
  IF InRecoveryMode(price) THEN TCR(price)' >= TCR(price) - 1
                           ELSE ~InRecoveryMode(price)'

(* An adjustment in either mode.                                           *)
LEMMA AdjustProtectsTheMode ==
  ASSUME LedgerInv, BooksInv, PoolsInv, NEW b \in Borrowers, NEW value \in Nat,
         NEW withdrawal \in Nat, NEW change \in Nat, NEW isDebtIncrease \in BOOLEAN,
         NEW maxFee, AdjustTrove(b, value, withdrawal, change, isDebtIncrease, maxFee)
  PROVE  ProtectsTheMode
<1>1. MinimumDebtKept
  BY DEF BooksInv
<1>2. CASE InRecoveryMode(price)
  BY <1>1, <1>2, AdjustKeepsRatio DEF ProtectsTheMode
<1>3. CASE ~InRecoveryMode(price)
  BY <1>3, AdjustKeepsNormalMode DEF ProtectsTheMode
<1> QED
  BY <1>2, <1>3

(* Every step that closes no trove, at a constant price. *)
LEMMA StepProtectsTheMode ==
  ASSUME LedgerInv, LedgerInv', BooksInv, PoolsInv, [Next]_vars, price' = price,
         \A b \in Borrowers : ~LiquidatedNow(b) /\ ~RedeemedNow(b)
  PROVE  ProtectsTheMode
<1>1. TCR(price) \in Nat /\ TCR(price)' \in Nat
  BY SystemIsAmounts, SystemRatioAfter DEF SystemAmounts
<1>2. CASE UNCHANGED <<activePool, defaultPool>>
  <2>1. TCR(price)' = TCR(price)
    BY <1>2 DEF TCR, EntireSystemColl, EntireSystemDebt, ComputeCR
  <2>2. InRecoveryMode(price)' <=> InRecoveryMode(price)
    BY <2>1 DEF InRecoveryMode
  <2> QED BY <1>1, <2>1, <2>2 DEF ProtectsTheMode
<1>3. CASE \E b \in Borrowers : OpenForSelf(b) \/ OpenForOther(b)
  <2>1. PICK b \in Borrowers : \E recipient : Open(b, recipient)
    BY <1>3 DEF OpenForSelf, OpenForOther
  <2>2. CASE InRecoveryMode(price)
    <3>1. TCR(price)' >= TCR(price)
      BY <2>1, <2>2, OpenRaisesRatio
    <3> QED BY <1>1, <2>2, <3>1 DEF ProtectsTheMode
  <2>3. CASE ~InRecoveryMode(price)
    BY <2>1, <2>3, OpenKeepsNormalMode DEF ProtectsTheMode
  <2> QED BY <2>2, <2>3
<1>4. CASE \E b \in Borrowers : Adjust(b)
  <2>1. PICK b \in Borrowers, value \in CollChanges \cup {0},
             withdrawal \in CollChanges \cup {0}, change \in DebtChanges \cup {0},
             isDebtIncrease \in BOOLEAN, maxFee \in MaxFees :
          AdjustTrove(b, value, withdrawal, change, isDebtIncrease, maxFee)
    BY <1>4 DEF Adjust
  <2>2. value \in Nat /\ withdrawal \in Nat /\ change \in Nat
    BY InputAssumption
  <2> QED BY <2>1, <2>2, AdjustProtectsTheMode
<1>5. CASE \E b \in Borrowers : GainToTrove(b)
  <2>1. PICK b \in Borrowers : GainToTrove(b)
    BY <1>5
  <2>2. PICK gain : WithdrawETHGainToTrove(b, gain)
    BY <2>1 DEF GainToTrove
  <2>3. stabilityPool.ETH \in Nat
    BY DEF LedgerInv, LedgerTypeOK
  <2>4. gain \in 1..stabilityPool.ETH /\ gain \in Nat
    BY <2>2, <2>3 DEF WithdrawETHGainToTrove
  <2>5. AdjustTrove(b, gain, 0, 0, FALSE, 0)
    BY <2>2 DEF WithdrawETHGainToTrove
  <2> QED BY <2>4, <2>5, AdjustProtectsTheMode
<1>6. CASE \E b \in Borrowers : Close(b)
  <2>1. PICK b \in Borrowers : CloseTrove(b)
    BY <1>6 DEF Close
  <2>2. ~InRecoveryMode(price)
    BY <2>1 DEF CloseTrove
  <2> QED BY <2>1, <2>2, CloseKeepsNormalMode DEF ProtectsTheMode
<1>7. CASE RedeemStep
  BY <1>7, RedemptionProtectsTheMode DEF ProtectsTheMode
<1>8. ~LiquidateStep
  BY LiquidationsLiquidate
<1>9. BorrowerStep => \/ \E b \in Borrowers : \/ OpenForSelf(b) \/ OpenForOther(b)
                                              \/ Adjust(b) \/ Close(b)
                      \/ UNCHANGED <<activePool, defaultPool>>
  BY DEF BorrowerStep, Claim, ClaimCollateral
<1>10. PoolStep => \/ \E b \in Borrowers : GainToTrove(b)
                   \/ UNCHANGED <<activePool, defaultPool>>
  BY DEF PoolStep, Deposit, Withdraw, ProvideToSP, WithdrawFromSP, PoolCallUnchanged
<1>11. GovernanceStep \/ EnvironmentStep => UNCHANGED <<activePool, defaultPool>>
  BY DEF GovernanceStep, EnvironmentStep, Register, RegisterFrontEnd, SetAllowMinting,
         SetMaxDebtCeiling, AnyTransfer, Transfer, SetPrice, Tick, ledgers
<1>12. UNCHANGED vars => UNCHANGED <<activePool, defaultPool>>
  BY DEF vars
<1> QED
  BY <1>2, <1>3, <1>4, <1>5, <1>6, <1>7, <1>8, <1>9, <1>10, <1>11, <1>12 DEF Next

(* Whatever borrowers, depositors, token holders and governance call, and  *)
(* in whatever order, only liquidations, redemptions that close a trove    *)
(* and the price bring the system into recovery mode or lower its ratio    *)
(* there by more than the last digit, for every ratio and precision that   *)
(* the code may be configured with (BorrowerOperations.sol,                *)
(* _requireValidAdjustmentInCurrentMode).                                  *)
THEOREM BorrowersAlwaysProtectTheMode == Spec => BorrowersProtectTheMode
<1>1. ASSUME LedgerInv, LedgerInv', BooksInv, PoolsInv, [Next]_vars
      PROVE  (/\ price' = price
              /\ \A b \in Borrowers : ~LiquidatedNow(b) /\ ~RedeemedNow(b)) =>
               IF InRecoveryMode(price) THEN TCR(price)' >= TCR(price) - 1
                                        ELSE ~InRecoveryMode(price)'
  BY <1>1, StepProtectsTheMode DEF ProtectsTheMode
<1>2. LedgerInv /\ LedgerInv' /\ BooksInv /\ PoolsInv /\ [Next]_vars =>
        [(/\ price' = price
          /\ \A b \in Borrowers : ~LiquidatedNow(b) /\ ~RedeemedNow(b)) =>
           IF InRecoveryMode(price) THEN TCR(price)' >= TCR(price) - 1
                                    ELSE ~InRecoveryMode(price)']_vars
  BY <1>1
<1> QED
  BY <1>2, PoolsHold, PTL DEF Spec, BorrowersProtectTheMode
------------------------------------------------------------------------------
(* What a redemption takes from each trove. *)

(* Nobody repays more than the owner of the trove.                         *)
LEMMA RepaymentIsPaid ==
  ASSUME LedgerInv, AccountsInv, NEW b \in Borrowers, NEW value, NEW withdrawal,
         NEW change \in Nat, NEW maxFee,
         AdjustTrove(b, value, withdrawal, change, FALSE, maxFee),
         change > 0, NEW other \in Borrowers
  PROVE  ~PaidByAnother(other)
<1>1. /\ arthBalance \in [Accounts -> Nat]
      /\ DOMAIN Troves = Borrowers
  BY DEF AccountsInv, LedgerInv, LedgerTypeOK
<1>2. /\ Troves' = [Troves EXCEPT ![b] = Troves'[b]]
      /\ arthBalance' = Plus(MintFee(arthBalance, 0, Troves[b].frontEndTag), b, -change)
  BY <1>1 DEF AdjustTrove
<1>3. CASE other = b
  <2>1. arthBalance[b] \in Nat /\ b \in Accounts
    BY <1>1 DEF Accounts
  <2>2. MintFee(arthBalance, 0, Troves[b].frontEndTag)[b] = arthBalance[b]
    BY <1>1, <2>1 DEF MintFee, Plus
  <2>3. DOMAIN MintFee(arthBalance, 0, Troves[b].frontEndTag) = Accounts
    BY <1>1 DEF MintFee, Plus
  <2>4. arthBalance'[b] = arthBalance[b] + -change
    BY <1>2, <2>1, <2>2, <2>3 DEF Plus
  <2> QED BY <1>3, <2>1, <2>4 DEF PaidByAnother
<1>4. CASE other # b
  BY <1>1, <1>2, <1>4 DEF PaidByAnother
<1> QED
  BY <1>3, <1>4

(* Of all steps only redeemCollateral burns ARTH and moves the base rate,  *)
(* or burns it for a trove that neither its owner changes nor a            *)
(* liquidation closes.                                                     *)
LEMMA OnlyRedemptionsRedeem ==
  ASSUME LedgerInv, BooksInv, AccountsInv, [Next]_vars, IsRedemption
  PROVE  RedeemStep
<1>1. totalSupply \in Nat
  BY DEF LedgerInv, LedgerTypeOK
<1>2. /\ totalSupply' < totalSupply
      /\ \/ ~(UNCHANGED feeVars)
         \/ /\ \A b \in Borrowers : ~LiquidatedNow(b)
            /\ \E b \in Borrowers : PaidByAnother(b)
  BY DEF IsRedemption
<1>3. ASSUME NEW who, NEW recipient, Open(who, recipient)
      PROVE  FALSE
  <2> DEFINE fee(amount) == IF InRecoveryMode(price) THEN 0 ELSE BorrowingFee(amount)
  <2>1. PICK value \in Collaterals, amount \in OpenAmounts, maxFee \in MaxFees,
             tag \in frontEnds \cup {NoFrontEnd} :
          OpenTrove(who, recipient, value, amount, maxFee, tag)
    BY <1>3 DEF Open
  <2>2. amount \in Nat /\ ARTH_GAS_COMPENSATION \in Nat
    BY InputAssumption, DebtAssumption
  <2>3. /\ InRecoveryMode(price) \/ BorrowingFeeAccepted(amount, maxFee)
        /\ totalSupply' = totalSupply + fee(amount) + amount + ARTH_GAS_COMPENSATION
    BY <2>1 DEF OpenTrove
  <2>4. fee(amount) \in Nat
    BY <2>2, <2>3, FeeIsAmount DEF BorrowingFeeAccepted
  <2> HIDE DEF fee
  <2> QED BY <1>1, <1>2, <2>2, <2>3, <2>4
<1>4. ASSUME NEW b \in Borrowers, NEW value, NEW withdrawal, NEW change \in Nat,
             NEW isDebtIncrease \in BOOLEAN, NEW maxFee,
             AdjustTrove(b, value, withdrawal, change, isDebtIncrease, maxFee)
      PROVE  FALSE
  <2> DEFINE charged == isDebtIncrease /\ ~InRecoveryMode(price)
             fee == IF charged THEN BorrowingFee(change) ELSE 0
             minted == IF isDebtIncrease THEN change ELSE -change
  <2>1. /\ DecayBaseRate(charged)
        /\ charged => BorrowingFeeAccepted(change, maxFee)
        /\ totalSupply' = totalSupply + fee + minted
    BY <1>4 DEF AdjustTrove
  <2>2. CASE isDebtIncrease
    <3>1. fee \in Nat /\ minted = change
      BY <1>4, <2>1, <2>2, FeeIsAmount DEF BorrowingFeeAccepted
    <3> HIDE DEF fee, minted
    <3> QED BY <1>1, <1>2, <1>4, <2>1, <3>1
  <2>3. CASE ~isDebtIncrease
    <3>1. isDebtIncrease = FALSE /\ fee = 0 /\ minted = -change /\ UNCHANGED feeVars
      BY <2>1, <2>3 DEF DecayBaseRate
    <3>2. totalSupply' = totalSupply + 0 + -change
      BY <2>1, <3>1
    <3>3. change > 0
      BY <1>1, <1>2, <1>4, <3>2
    <3>4. \A other \in Borrowers : ~PaidByAnother(other)
      BY <1>4, <3>1, <3>3, RepaymentIsPaid
    <3> QED BY <1>2, <3>1, <3>4
  <2> QED BY <2>2, <2>3
<1>5. ~BorrowerStep
  <2>1. SUFFICES ASSUME BorrowerStep PROVE FALSE
    OBVIOUS
  <2>2. PICK b \in Borrowers : \/ OpenForSelf(b) \/ OpenForOther(b) \/ Adjust(b)
                               \/ Close(b) \/ Claim(b)
    BY <2>1 DEF BorrowerStep
  <2>3. ~OpenForSelf(b) /\ ~OpenForOther(b)
    BY <1>3 DEF OpenForSelf, OpenForOther
  <2>4. ~Adjust(b)
    <3>1. SUFFICES ASSUME Adjust(b) PROVE FALSE
      OBVIOUS
    <3>2. PICK value \in CollChanges \cup {0}, withdrawal \in CollChanges \cup {0},
               change \in DebtChanges \cup {0}, isDebtIncrease \in BOOLEAN, maxFee \in MaxFees :
            AdjustTrove(b, value, withdrawal, change, isDebtIncrease, maxFee)
      BY <3>1 DEF Adjust
    <3>3. change \in Nat
      BY InputAssumption
    <3> QED BY <1>4, <3>2, <3>3
  <2>5. ~Close(b)
    <3>1. SUFFICES ASSUME CloseTrove(b) PROVE FALSE
      BY DEF Close
    <3>2. /\ UNCHANGED feeVars
          /\ Troves' = [Troves EXCEPT ![b] = ClosedTrove(b, "closedByOwner")]
      BY <3>1 DEF CloseTrove
    <3>3. DOMAIN Troves = Borrowers
      BY DEF LedgerInv, LedgerTypeOK
    <3>4. ClosedTrove(b, "closedByOwner").status = "closedByOwner"
      BY <3>3 DEF ClosedTrove, LedgerInv, LedgerTypeOK
    <3>5. \A other \in Borrowers : ~PaidByAnother(other)
      BY <3>2, <3>3, <3>4 DEF PaidByAnother
    <3> QED BY <1>2, <3>2, <3>5
  <2>6. ~Claim(b)
    BY <1>1, <1>2 DEF Claim, ClaimCollateral, tokenVars
  <2> QED BY <2>2, <2>3, <2>4, <2>5, <2>6
<1>6. ~PoolStep
  <2>1. ~(\E b \in Borrowers : GainToTrove(b))
    BY <1>4 DEF GainToTrove, WithdrawETHGainToTrove
  <2>2. ASSUME PoolStep PROVE UNCHANGED <<feeVars, Troves>>
    BY <2>1, <2>2 DEF PoolStep, Deposit, ProvideToSP, Withdraw, WithdrawFromSP,
                      PoolCallUnchanged, troveVars
  <2> QED BY <1>2, <2>2 DEF PaidByAnother
<1>7. ~LiquidateStep
  <2>1. LiquidateStep => UNCHANGED feeVars
    BY DEF LiquidateStep, LiquidateTroves, BatchLiquidateTroves, Liquidate, ApplyLiquidation
  <2> QED BY <1>2, <2>1, LiquidationsLiquidate
<1>8. ~GovernanceStep /\ ~EnvironmentStep
  <2>1. GovernanceStep \/ EnvironmentStep => UNCHANGED <<feeVars, Troves>>
    BY DEF GovernanceStep, Register, RegisterFrontEnd, SetAllowMinting, SetMaxDebtCeiling,
           EnvironmentStep, AnyTransfer, Transfer, SetPrice, Tick, ledgers, troveVars
  <2> QED BY <1>2, <2>1 DEF PaidByAnother
<1>9. ~UNCHANGED vars
  BY <1>1, <1>2 DEF vars, tokenVars
<1> QED
  BY <1>5, <1>6, <1>7, <1>8, <1>9 DEF Next

(* Nothing is pending for a trove whose snapshot is that of L.             *)
LEMMA NothingPends ==
  ASSUME LedgerInv, NEW b \in Borrowers
  PROVE  /\ rewardSnapshots[b].ETH = L.ETH => PendingETHReward(b) = 0
         /\ rewardSnapshots[b].ARTHDebt = L.ARTHDebt => PendingARTHDebtReward(b) = 0
<1>1. /\ Troves[b].stake \in Nat /\ DECIMAL_PRECISION \in Nat \ {0}
      /\ L.ETH \in Nat /\ L.ARTHDebt \in Nat
  BY PrecisionAssumption DEF LedgerInv, LedgerTypeOK, PoolType
<1>2. \A x \in Nat : x - x = 0
  OBVIOUS
<1>3. \A x \in Nat, y \in Nat \ {0} : (x * 0) \div y = 0
  OBVIOUS
<1>4. (Troves[b].stake * 0) \div DECIMAL_PRECISION = 0
  BY <1>1, <1>3
<1>5. /\ rewardSnapshots[b].ETH = L.ETH => L.ETH - rewardSnapshots[b].ETH = 0
      /\ rewardSnapshots[b].ARTHDebt = L.ARTHDebt => L.ARTHDebt - rewardSnapshots[b].ARTHDebt = 0
  BY <1>1, <1>2
<1> QED
  BY <1>4, <1>5, Zenon DEF PendingETHReward, PendingARTHDebtReward

(* With both snapshots renewed together, what is applied is what is owed.  *)
LEMMA AppliedIsEntire ==
  ASSUME LedgerInv, SnapshotsTogether, NEW b \in ActiveTroves
  PROVE  /\ ApplyPendingRewards(b).coll = EntireColl(b)
         /\ ApplyPendingRewards(b).debt = EntireDebt(b)
<1>1. b \in Borrowers /\ IsActive(b)
  BY DEF ActiveTroves
<1>2. CASE HasPendingRewards(b)
  BY <1>2 DEF ApplyPendingRewards
<1>3. CASE ~HasPendingRewards(b)
  <2>1. /\ ApplyPendingRewards(b).coll = Troves[b].coll
        /\ ApplyPendingRewards(b).debt = Troves[b].debt
    BY <1>3 DEF ApplyPendingRewards
  <2>2. rewardSnapshots[b].ETH = L.ETH
    <3>1. L.ETH \in Nat /\ rewardSnapshots[b].ETH \in Nat /\ rewardSnapshots[b].ETH <= L.ETH
      BY <1>1 DEF LedgerInv, LedgerTypeOK, SnapshotsBehindL, PoolType
    <3>2. ~(rewardSnapshots[b].ETH < L.ETH)
      BY <1>1, <1>3 DEF HasPendingRewards
    <3> QED BY <3>1, <3>2
  <2>3. rewardSnapshots[b].ARTHDebt = L.ARTHDebt
    BY <2>2 DEF SnapshotsTogether
  <2>4. PendingETHReward(b) = 0 /\ PendingARTHDebtReward(b) = 0
    BY <1>1, <2>2, <2>3, NothingPends
  <2>5. Troves[b].coll \in Nat /\ Troves[b].debt \in Nat
    BY <1>1 DEF LedgerInv, LedgerTypeOK
  <2>6. EntireColl(b) = Troves[b].coll /\ EntireDebt(b) = Troves[b].debt
    BY <2>4, <2>5 DEF EntireColl, EntireDebt
  <2> QED BY <2>1, <2>6
<1> QED
  BY <1>2, <1>3

(* What the redemption leaves of b's trove, rewards included.              *)
LeftOf(run, b) ==
  IF b \in run.applied THEN [coll |-> TroveAfter(run, b).coll, debt |-> TroveAfter(run, b).debt]
  ELSE [coll |-> EntireColl(b), debt |-> EntireDebt(b)]

(* A trove without new redistributions since its snapshot, after a step.   *)
LEMMA NothingPendsAfter ==
  ASSUME LedgerInv', NEW b \in Borrowers
  PROVE  /\ rewardSnapshots'[b].ETH = L'.ETH => PendingETHReward(b)' = 0
         /\ rewardSnapshots'[b].ARTHDebt = L'.ARTHDebt => PendingARTHDebtReward(b)' = 0
<1>1. /\ Troves'[b].stake \in Nat /\ DECIMAL_PRECISION \in Nat \ {0}
      /\ L'.ETH \in Nat /\ L'.ARTHDebt \in Nat
  BY PrecisionAssumption DEF LedgerInv, LedgerTypeOK, PoolType
<1>2. \A x \in Nat : x - x = 0
  OBVIOUS
<1>3. \A x \in Nat, y \in Nat \ {0} : (x * 0) \div y = 0
  OBVIOUS
<1>4. (Troves'[b].stake * 0) \div DECIMAL_PRECISION = 0
  BY <1>1, <1>3
<1>5. /\ rewardSnapshots'[b].ETH = L'.ETH => L'.ETH - rewardSnapshots'[b].ETH = 0
      /\ rewardSnapshots'[b].ARTHDebt = L'.ARTHDebt =>
           L'.ARTHDebt - rewardSnapshots'[b].ARTHDebt = 0
  BY <1>1, <1>2
<1> QED
  BY <1>4, <1>5, Zenon DEF PendingETHReward, PendingARTHDebtReward

(* The state after the call is the one its loop has computed.              *)
LEMMA RedemptionLeaves ==
  ASSUME LedgerInv, LedgerInv', BooksInv, SnapshotsTogether, NEW run, NEW redeemer,
         RedemptionBooks(run, price), Redeems(run, redeemer), NEW b \in ActiveTroves
  PROVE  /\ EntireColl(b)' = LeftOf(run, b).coll /\ EntireDebt(b)' = LeftOf(run, b).debt
         /\ RedeemedNow(b) <=> b \in ClosedBy(run)
         /\ SurplusGained(b) = run.surplus[b]
<1> DEFINE out == TroveAfter(run, b)
<1>1. b \in Borrowers /\ IsActive(b)
  BY DEF ActiveTroves
<1>2. /\ run \in RedemptionRuns /\ run.surplus \in [Borrowers -> Int]
      /\ run.partial # NoHint => run.partial \in run.applied \ ClosedBy(run)
      /\ ClosedBy(run) \subseteq run.applied /\ NoHint \notin Borrowers
  BY AddressAssumption DEF RedemptionBooks, RedemptionRuns, NoHint, Accounts
<1>3. /\ Troves'[b] = out /\ rewardSnapshots'[b] = SnapshotAfter(run, b) /\ L' = L
      /\ collSurplusPool'.balances[b] = collSurplusPool.balances[b] + run.surplus[b]
  BY <1>1 DEF Redeems, rewardVars
<1>4. out.coll \in Int /\ out.debt \in Int
  BY <1>1, <1>2, AfterTyped
<1>5. SurplusGained(b) = run.surplus[b]
  <2>1. collSurplusPool.balances[b] \in Nat /\ run.surplus[b] \in Int
    BY <1>1, <1>2 DEF LedgerInv, LedgerTypeOK
  <2>2. \A x \in Nat, y \in Int : x + y - x = y
    OBVIOUS
  <2> QED BY <1>3, <2>1, <2>2 DEF SurplusGained
<1>6. b \in ClosedBy(run) =>
        out.coll = 0 /\ out.debt = 0 /\ out.status = "closedByRedemption"
  BY <1>1, ClosedTroveFields DEF TroveAfter
<1>7. b \notin ClosedBy(run) => out.status = "active"
  BY <1>1, AfterStatus DEF BooksInv, IsActive
<1> HIDE DEF out
<1>8. RedeemedNow(b) <=> b \in ClosedBy(run)
  BY <1>1, <1>3, <1>6, <1>7 DEF RedeemedNow
<1>9. CASE b \in ClosedBy(run)
  <2>1. PendingETHReward(b)' = 0 /\ PendingARTHDebtReward(b)' = 0
    BY <1>3, <1>6, <1>9 DEF PendingETHReward, PendingARTHDebtReward, IsActive
  <2>2. EntireColl(b)' = out.coll /\ EntireDebt(b)' = out.debt
    BY <1>3, <1>4, <2>1 DEF EntireColl, EntireDebt
  <2>3. LeftOf(run, b) = [coll |-> out.coll, debt |-> out.debt]
    BY <1>2, <1>9 DEF LeftOf, out
  <2> QED BY <1>5, <1>8, <2>2, <2>3
<1>10. CASE b \in run.applied \ ClosedBy(run)
  <2>1. rewardSnapshots'[b] = ApplyPendingRewards(b).snapshot
    BY <1>3, <1>10 DEF SnapshotAfter
  <2>2. rewardSnapshots'[b].ETH = L'.ETH /\ rewardSnapshots'[b].ARTHDebt = L'.ARTHDebt
    BY <1>3, <2>1, AppliedFacts
  <2>3. PendingETHReward(b)' = 0 /\ PendingARTHDebtReward(b)' = 0
    BY <1>1, <2>2, NothingPendsAfter
  <2>4. EntireColl(b)' = out.coll /\ EntireDebt(b)' = out.debt
    BY <1>3, <1>4, <2>3 DEF EntireColl, EntireDebt
  <2>5. LeftOf(run, b) = [coll |-> out.coll, debt |-> out.debt]
    BY <1>10 DEF LeftOf, out
  <2> QED BY <1>5, <1>8, <2>4, <2>5
<1>11. CASE b \notin run.applied
  <2>1. b \notin ClosedBy(run) /\ b # run.partial
    BY <1>1, <1>2, <1>11
  <2>2. Troves'[b] = Troves[b] /\ rewardSnapshots'[b] = rewardSnapshots[b]
    BY <1>3, <1>11, <2>1 DEF TroveAfter, SnapshotAfter, out
  <2>3. EntireColl(b)' = EntireColl(b) /\ EntireDebt(b)' = EntireDebt(b)
    BY <1>3, <2>2 DEF EntireColl, EntireDebt, PendingETHReward, PendingARTHDebtReward, IsActive
  <2>4. LeftOf(run, b) = [coll |-> EntireColl(b), debt |-> EntireDebt(b)]
    BY <1>11 DEF LeftOf
  <2> QED BY <1>5, <1>8, <2>3, <2>4
<1> QED
  BY <1>9, <1>10, <1>11

(* No trove below MCR is visited, when the list is in order.               *)
LEMMA VisitedTrovesAreSafe ==
  ASSUME LedgerInv, ListInv, OrderedAtMCR, NEW hint,
         NEW b \in ToSet(VisitedTroves(hint, price))
  PROVE  CurrentICR(b, price) >= MCR
<1> DEFINE m == Len(sortedTroves)
           n == FirstRedeemed(hint, price)
           list == VisitedTroves(hint, price)
<1>2. /\ m \in Nat /\ DOMAIN sortedTroves = 1..m /\ n \in 0..m
      /\ list \in Seq(ActiveTroves) /\ Len(list) = n
      /\ \A k \in 1..n : n - k + 1 \in 1..n /\ list[k] = sortedTroves[n - k + 1]
  BY VisitedFromThere
<1> HIDE DEF m
<1>3. n # 0 => CurrentICR(sortedTroves[n], price) >= MCR
  BY <1>2, FirstIsRedeemable, Zenon
<1>4. b \in ToSet(list)
  OBVIOUS
<1> HIDE DEF n, list
<1>5. PICK k \in 1..n : b = list[k]
  BY <1>2, <1>4, ListFacts
<1> DEFINE i == n - k + 1
<1>6. i \in 1..n /\ b = sortedTroves[i]
  BY <1>2, <1>5
<1> HIDE DEF i
<1>7. n \in DOMAIN sortedTroves /\ i \in DOMAIN sortedTroves /\ n # 0 /\ (i < n \/ i = n)
  BY <1>2, <1>6
<1> QED
  BY <1>3, <1>6, <1>7 DEF OrderedAtMCR

(* So a redemption redeems from none. *)
LEMMA VisitedAreSafe ==
  ASSUME LedgerInv, ListInv, OrderedAtMCR, NEW run, Visits(run, price),
         NEW b \in run.applied
  PROVE  CurrentICR(b, price) >= MCR
<1>1. PICK hint : run.applied \subseteq ToSet(VisitedTroves(hint, price))
  BY DEF Visits
<1> QED
  BY <1>1, VisitedTrovesAreSafe

(* What a redemption takes from b is fair. *)
FairCut(b) ==
  LET reserve == IF RedeemedNow(b) THEN ARTH_GAS_COMPENSATION ELSE 0
      debtCut == EntireDebt(b) - reserve - EntireDebt(b)'
      collCut == EntireColl(b) - EntireColl(b)' - SurplusGained(b)
  IN  /\ debtCut * DECIMAL_PRECISION >= collCut * price
      /\ CurrentICR(b, price) < MCR => debtCut = 0 /\ collCut = 0

(* Whatever redeemCollateral does, its cut is fair to every trove.         *)
LEMMA RedemptionCutsFairly ==
  ASSUME LedgerInv, LedgerInv', BooksInv, SnapshotsTogether, OrderedAtMCR, RedeemStep,
         NEW b \in ActiveTroves
  PROVE  FairCut(b)
<1>1. PICK run, redeemer : /\ RedemptionBooks(run, price) /\ Redeems(run, redeemer)
                           /\ Visits(run, price)
  BY RedeemStepVisits
<1>2. /\ b \in Borrowers /\ run \in RedemptionRuns /\ FairTo(run, b, price)
      /\ ClosedBy(run) \subseteq run.applied /\ ListInv
      /\ \A c \in Borrowers \ ClosedBy(run) : run.surplus[c] = 0
  BY <1>1 DEF RedemptionBooks, ActiveTroves, BooksInv
<1> DEFINE reserve == IF b \in ClosedBy(run) THEN ARTH_GAS_COMPENSATION ELSE 0
           debtCut == EntireDebt(b) - reserve - LeftOf(run, b).debt
           collCut == EntireColl(b) - LeftOf(run, b).coll - run.surplus[b]
<1>3. /\ reserve = IF RedeemedNow(b) THEN ARTH_GAS_COMPENSATION ELSE 0
      /\ debtCut = EntireDebt(b) - reserve - EntireDebt(b)'
      /\ collCut = EntireColl(b) - EntireColl(b)' - SurplusGained(b)
  <2>1. /\ EntireColl(b)' = LeftOf(run, b).coll /\ EntireDebt(b)' = LeftOf(run, b).debt
        /\ RedeemedNow(b) <=> b \in ClosedBy(run)
        /\ SurplusGained(b) = run.surplus[b]
    BY <1>1, RedemptionLeaves
  <2> QED BY <2>1, Zenon
<1>4. EntireColl(b) \in Nat /\ EntireDebt(b) \in Nat /\ price \in Nat
  <2>1. PendingETHReward(b) \in Nat /\ PendingARTHDebtReward(b) \in Nat
    BY <1>2, PendingRewardsAreAmounts
  <2>2. Troves[b].coll \in Nat /\ Troves[b].debt \in Nat /\ price \in Nat
    BY <1>2 DEF LedgerInv, LedgerTypeOK
  <2> QED BY <2>1, <2>2 DEF EntireColl, EntireDebt
<1>5. CASE b \in run.applied
  <2>1. /\ ApplyPendingRewards(b).coll = EntireColl(b)
        /\ ApplyPendingRewards(b).debt = EntireDebt(b)
    BY AppliedIsEntire
  <2>2. LeftOf(run, b) = [coll |-> TroveAfter(run, b).coll, debt |-> TroveAfter(run, b).debt]
    BY <1>5 DEF LeftOf
  <2>3. /\ TroveAfter(run, b).coll \in Int /\ TroveAfter(run, b).debt \in Int
        /\ reserve \in Int
    BY <1>2, AfterTyped, DebtAssumption
  <2>4. /\ EntireDebt(b) - TroveAfter(run, b).debt - reserve \in Nat
        /\ (EntireColl(b) - TroveAfter(run, b).coll - run.surplus[b]) * price
             <= (EntireDebt(b) - TroveAfter(run, b).debt - reserve) * DECIMAL_PRECISION
    BY <1>2, <1>5, <2>1 DEF FairTo
  <2> HIDE DEF reserve
  <2>5. debtCut = EntireDebt(b) - TroveAfter(run, b).debt - reserve
    BY <1>4, <2>2, <2>3
  <2>6. collCut = EntireColl(b) - TroveAfter(run, b).coll - run.surplus[b]
    BY <2>2
  <2> HIDE DEF debtCut, collCut
  <2>7. collCut * price <= debtCut * DECIMAL_PRECISION
    BY <2>4, <2>5, <2>6
  <2>8. collCut * price \in Int /\ debtCut * DECIMAL_PRECISION \in Int
    <3>1. run.surplus[b] \in Int /\ DECIMAL_PRECISION \in Int
      BY <1>2, PrecisionAssumption DEF RedemptionRuns
    <3>2. collCut \in Int /\ debtCut \in Int
      BY <1>4, <2>3, <2>5, <2>6, <3>1
    <3>3. \A x, y \in Int : x * y \in Int
      OBVIOUS
    <3> QED BY <1>4, <3>1, <3>2, <3>3
  <2>9. debtCut * DECIMAL_PRECISION >= collCut * price
    BY <2>7, <2>8
  <2>10. CurrentICR(b, price) >= MCR
    BY <1>1, <1>2, <1>5, VisitedAreSafe
  <2>11. ~(CurrentICR(b, price) < MCR)
    <3>1. CurrentICR(b, price) \in Int /\ MCR \in Int
      <4>1. price \in Nat /\ MCR \in Int
        BY <1>4, RateAssumption
      <4>2. ComputeCR(EntireColl(b), EntireDebt(b), price) \in Int
        BY <1>4, RatioType
      <4> QED BY <4>1, <4>2 DEF CurrentICR
    <3> QED BY <2>10, <3>1
  <2> QED BY <1>3, <2>9, <2>11 DEF FairCut, reserve
<1>6. CASE b \notin run.applied
  <2>1. /\ LeftOf(run, b) = [coll |-> EntireColl(b), debt |-> EntireDebt(b)]
        /\ reserve = 0 /\ run.surplus[b] = 0
    BY <1>2, <1>6 DEF LeftOf
  <2>2. debtCut = 0 /\ collCut = 0
    BY <1>4, <2>1
  <2> HIDE DEF debtCut, collCut
  <2>3. debtCut * DECIMAL_PRECISION >= collCut * price
    <3>1. DECIMAL_PRECISION \in Nat
      BY PrecisionAssumption
    <3> QED BY <1>4, <2>2, <3>1
  <2> QED BY <1>3, <2>2, <2>3 DEF FairCut
<1> QED
  BY <1>5, <1>6

(* Redemption takes from a trove no more than the face value of the debt   *)
(* it cancels, and nothing from a trove below MCR, for every price, amount *)
(* and hint (TroveManager.sol, redeemCollateral): as long as the list is   *)
(* in order at MCR, on which the loop relies for where it starts, and every *)
(* redistribution moves collateral as well as debt, on which               *)
(* hasPendingRewards relies.                                               *)
THEOREM RedemptionsAreFair ==
  Spec /\ [][MovesBoth]_vars /\ []OrderedAtMCR => RedemptionIsFair
<1>1. ASSUME LedgerInv, LedgerInv', BooksInv, DebtInv, AccountsInv, OrderedAtMCR, [Next]_vars
      PROVE  IsRedemption => \A b \in ActiveTroves : FairCut(b)
  <2> SUFFICES ASSUME IsRedemption, NEW b \in ActiveTroves PROVE FairCut(b)
    OBVIOUS
  <2>1. RedeemStep
    BY <1>1, OnlyRedemptionsRedeem
  <2>2. SnapshotsTogether
    BY <1>1 DEF DebtInv
  <2> QED BY <1>1, <2>1, <2>2, RedemptionCutsFairly
<1>2. LedgerInv /\ LedgerInv' /\ BooksInv /\ DebtInv /\ AccountsInv /\ OrderedAtMCR /\ [Next]_vars =>
        [IsRedemption =>
           \A b \in ActiveTroves :
             LET reserve == IF RedeemedNow(b) THEN ARTH_GAS_COMPENSATION ELSE 0
                 debtCut == EntireDebt(b) - reserve - EntireDebt(b)'
                 collCut == EntireColl(b) - EntireColl(b)' - SurplusGained(b)
             IN  /\ debtCut * DECIMAL_PRECISION >= collCut * price
                 /\ CurrentICR(b, price) < MCR => debtCut = 0 /\ collCut = 0]_vars
  BY <1>1 DEF FairCut
<1> QED
  BY <1>2, PoolsHold, DebtHolds, TokenHolds, PTL DEF Spec, RedemptionIsFair

------------------------------------------------------------------------------
(* Redemptions that may not be blocked. *)

(* The collateral of a trove that may be redeemed from is worth its debt.  *)
LEMMA SafeTroveIsCovered ==
  ASSUME LedgerInv, NEW b \in Borrowers, CurrentICR(b, price) >= MCR
  PROVE  /\ EntireColl(b) \in Nat /\ EntireDebt(b) \in Nat
         /\ EntireDebt(b) * DECIMAL_PRECISION <= EntireColl(b) * price
<1>1. EntireColl(b) \in Nat /\ EntireDebt(b) \in Nat /\ price \in Nat
  <2>1. PendingETHReward(b) \in Nat /\ PendingARTHDebtReward(b) \in Nat
    BY PendingRewardsAreAmounts
  <2>2. Troves[b].coll \in Nat /\ Troves[b].debt \in Nat /\ price \in Nat
    BY DEF LedgerInv, LedgerTypeOK
  <2> QED BY <2>1, <2>2 DEF EntireColl, EntireDebt
<1>2. MCR \in Nat /\ DECIMAL_PRECISION \in Nat /\ DECIMAL_PRECISION <= MCR
  BY PrecisionAssumption, RateAssumption DEF OneHundredPct
<1>3. MCR <= ComputeCR(EntireColl(b), EntireDebt(b), price)
  <2>1. ComputeCR(EntireColl(b), EntireDebt(b), price) \in Int
    BY <1>1, RatioType
  <2> QED BY <1>2, <2>1 DEF CurrentICR
<1>4. MCR * EntireDebt(b) <= EntireColl(b) * price
  BY <1>1, <1>2, <1>3, RatioBounds
<1>5. \A x, y, z, u \in Nat : x <= y /\ y * z <= u => z * x <= u
  <2>1. \A x, y, z \in Nat : x <= y => z * x <= y * z
    OBVIOUS
  <2>2. \A x, y \in Nat : x * y \in Nat
    OBVIOUS
  <2> QED BY <2>1, <2>2
<1>6. EntireColl(b) * price \in Nat
  BY <1>1, NatProduct
<1> QED
  BY <1>1, <1>2, <1>4, <1>5, <1>6

(* Only a liquidation renews the snapshots of the system, and it leaves a  *)
(* trove, which has a stake.                                               *)
LEMMA NextKeepsStakeDefined ==
  ASSUME LedgerInv, BooksInv, TrovesHaveStakes, StakeIsDefined, [Next]_vars
  PROVE  StakeIsDefined'
<1>1. CASE LiquidateStep
  <2>1. PICK run, liquidator : /\ RunInv(run, InRecoveryMode(price), price)
                               /\ ApplyLiquidation(run, liquidator)
    BY <1>1, LiquidateStepRun
  <2>2. /\ RunBooks(run, InRecoveryMode(price), price)
        /\ Len(run.closed) < Len(TroveOwners)
        /\ systemSnapshots'.stakes = totalStakes - run.stakes
    BY <2>1 DEF RunInv, ApplyLiquidation, LiquidationRequirements
  <2>3. run.stakes < totalStakes /\ run.stakes \in Nat
    BY <2>2, StakesAreLeft
  <2>4. totalStakes \in Nat
    BY DEF LedgerInv, LedgerTypeOK
  <2>5. systemSnapshots'.stakes > 0
    BY <2>2, <2>3, <2>4
  <2> QED BY <2>5 DEF StakeIsDefined
<1>2. CASE ~LiquidateStep
  <2>1. systemSnapshots' = systemSnapshots
    <3>7. ASSUME NEW b, NEW value, NEW withdrawal, NEW change, NEW isDebtIncrease, NEW maxFee,
                 AdjustTrove(b, value, withdrawal, change, isDebtIncrease, maxFee)
          PROVE  systemSnapshots' = systemSnapshots
      BY <3>7, Zenon DEF AdjustTrove, BOUnchanged, rewardVars
    <3>8. ASSUME NEW who, NEW recipient, NEW value, NEW amount, NEW maxFee, NEW tag,
                 OpenTrove(who, recipient, value, amount, maxFee, tag)
          PROVE  systemSnapshots' = systemSnapshots
      BY <3>8, Zenon DEF OpenTrove, BOUnchanged, rewardVars
    <3>1. CASE BorrowerStep
      <4>1. PICK b \in Borrowers : \/ OpenForSelf(b) \/ OpenForOther(b) \/ Adjust(b)
                                   \/ Close(b) \/ Claim(b)
        BY <3>1 DEF BorrowerStep
      <4>2. CASE OpenForSelf(b) \/ OpenForOther(b)
        BY <3>8, <4>2, Zenon DEF OpenForSelf, OpenForOther, Open
      <4>3. CASE Adjust(b)
        BY <3>7, <4>3, Zenon DEF Adjust
      <4>4. CASE Close(b) \/ Claim(b)
        BY <4>4, Zenon DEF Close, CloseTrove, Claim, ClaimCollateral, BOUnchanged, rewardVars
      <4> QED BY <4>1, <4>2, <4>3, <4>4
    <3>2. CASE PoolStep
      <4>1. CASE \E a \in Borrowers \cup {Owner} : Deposit(a)
        BY <4>1, Zenon DEF Deposit, ProvideToSP, PoolCallUnchanged, rewardVars
      <4>2. CASE \E b \in Borrowers : Withdraw(b)
        BY <4>2, Zenon DEF Withdraw, WithdrawFromSP, PoolCallUnchanged, rewardVars
      <4>3. CASE \E b \in Borrowers : GainToTrove(b)
        BY <3>7, <4>3, Zenon DEF GainToTrove, WithdrawETHGainToTrove
      <4> QED BY <3>2, <4>1, <4>2, <4>3 DEF PoolStep
    <3>3. CASE RedeemStep
      BY <3>3 DEF RedeemStep, RedeemCollateral, rewardVars
    <3>4. CASE GovernanceStep
      BY <3>4 DEF GovernanceStep, Register, RegisterFrontEnd, SetAllowMinting,
                  SetMaxDebtCeiling, BOUnchanged, ledgers, rewardVars
    <3>5. CASE EnvironmentStep
      BY <3>5 DEF EnvironmentStep, AnyTransfer, Transfer, SetPrice, Tick, ledgers, rewardVars
    <3>6. CASE UNCHANGED vars
      BY <3>6 DEF vars, rewardVars
    <3> QED BY <1>2, <3>1, <3>2, <3>3, <3>4, <3>5, <3>6 DEF Next
  <2> QED BY <2>1 DEF StakeIsDefined
<1> QED
  BY <1>1, <1>2

(* What the loop leaves of every trove, and the surplus it owes, are       *)
(* amounts: it visits no trove whose collateral is worth less than its     *)
(* debt.                                                                   *)
RedemptionAmounts(run) ==
  /\ run.debtLeft \in Nat /\ run.collLeft \in Nat
  /\ \A b \in Borrowers : /\ run.surplus[b] \in Nat
                          /\ TroveAfter(run, b).coll \in Nat
                          /\ TroveAfter(run, b).debt \in Nat
                          /\ TroveAfter(run, b).stake \in Nat

(* What is left of a trove that the loop redeems from is worth its debt.   *)
LEMMA WhatIsLeftIsWorthIt ==
  ASSUME LedgerInv, SnapshotsTogether, NEW run, RedemptionBooks(run, price),
         NEW b \in run.applied, CurrentICR(b, price) >= MCR,
         NEW x \in Int, x = TroveAfter(run, b).coll + run.surplus[b],
         TroveAfter(run, b).debt \in Nat, price > 0
  PROVE  x \in Nat
<1>1. b \in ActiveTroves /\ b \in Borrowers /\ run \in RedemptionRuns /\ FairTo(run, b, price)
  BY DEF RedemptionBooks, ActiveTroves
<1> DEFINE out == TroveAfter(run, b)
           coll == EntireColl(b)
           debt == EntireDebt(b)
           reserve == IF b \in ClosedBy(run) THEN ARTH_GAS_COMPENSATION ELSE 0
<1>2. coll \in Nat /\ debt \in Nat /\ debt * DECIMAL_PRECISION <= coll * price
  BY <1>1, SafeTroveIsCovered
<1>3. out.coll \in Int /\ out.debt \in Nat /\ run.surplus[b] \in Int /\ reserve \in Nat
  BY <1>1, AfterTyped, DebtAssumption DEF RedemptionRuns
<1>4. /\ ApplyPendingRewards(b).coll = coll /\ ApplyPendingRewards(b).debt = debt
  BY <1>1, AppliedIsEntire
<1>5. (coll - out.coll - run.surplus[b]) * price <= (debt - out.debt - reserve) * DECIMAL_PRECISION
  BY <1>1, <1>4 DEF FairTo
<1>6. price \in Nat \ {0} /\ DECIMAL_PRECISION \in Nat \ {0}
  BY PrecisionAssumption DEF LedgerInv, LedgerTypeOK
<1> HIDE DEF out, coll, debt, reserve
<1>7. coll - out.coll - run.surplus[b] = coll - x
  BY <1>2, <1>3 DEF out
<1>8. debt - out.debt - reserve <= debt /\ debt - out.debt - reserve \in Int
  BY <1>2, <1>3
<1>9. (debt - out.debt - reserve) * DECIMAL_PRECISION <= debt * DECIMAL_PRECISION
  <2>1. \A u, v \in Int, w \in Nat : u <= v => u * w <= v * w
    OBVIOUS
  <2> QED BY <1>2, <1>6, <1>8, <2>1
<1>10. (coll - x) * price <= coll * price
  <2>1. (coll - x) * price <= (debt - out.debt - reserve) * DECIMAL_PRECISION
    BY <1>5, <1>7
  <2>2. /\ (coll - x) * price \in Int /\ debt * DECIMAL_PRECISION \in Int
        /\ (debt - out.debt - reserve) * DECIMAL_PRECISION \in Int /\ coll * price \in Int
    <3>1. \A u, v \in Int : u * v \in Int
      OBVIOUS
    <3>2. coll - x \in Int
      BY <1>2
    <3> QED BY <1>2, <1>6, <1>8, <3>1, <3>2
  <2> HIDE DEF coll
  <2> QED BY <1>2, <1>9, <2>1, <2>2
<1>11. SUFFICES ASSUME x < 0 PROVE FALSE
  OBVIOUS
<1>12. coll + 1 <= coll - x
  BY <1>2, <1>11
<1>13. (coll + 1) * price <= (coll - x) * price /\ (coll + 1) * price = coll * price + price
  <2>1. \A u, v \in Int, w \in Nat : u <= v => u * w <= v * w
    OBVIOUS
  <2>2. \A u \in Nat, w \in Nat : (u + 1) * w = u * w + w
    OBVIOUS
  <2>3. coll - x \in Int /\ coll + 1 \in Int
    BY <1>2
  <2> QED BY <1>2, <1>6, <1>12, <2>1, <2>2, <2>3
<1>14. coll * price \in Nat /\ (coll - x) * price \in Int
  <2>1. \A u, v \in Int : u * v \in Int
    OBVIOUS
  <2>2. coll - x \in Int
    BY <1>2
  <2> QED BY <1>2, <1>6, <2>1, <2>2, NatProduct
<1> QED
  BY <1>6, <1>10, <1>13, <1>14

(* The books of a redemption from safe troves hold amounts only.           *)
LEMMA SafeRedemptionLeavesAmounts ==
  ASSUME LedgerInv, BooksInv, SnapshotsTogether, StakeIsDefined,
         NEW run, RedemptionBooks(run, price),
         \A b \in run.applied : CurrentICR(b, price) >= MCR
  PROVE  RedemptionAmounts(run)
<1>1. /\ run \in RedemptionRuns /\ run.applied \subseteq ActiveTroves
      /\ ActiveTroves \subseteq Borrowers /\ ClosedBy(run) \subseteq run.applied
      /\ run.debtLeft \in Int /\ run.collLeft \in Int /\ run.surplus \in [Borrowers -> Int]
      /\ run.partial # NoHint => /\ run.partial \in run.applied \ ClosedBy(run)
                                 /\ run.debtLeft >= ARTH_GAS_COMPENSATION + MIN_NET_DEBT
      /\ run.partial = NoHint => run.debtLeft = 0 /\ run.collLeft = 0
      /\ \A b \in Borrowers \ ClosedBy(run) : run.surplus[b] = 0
      /\ price > 0 /\ MinimumDebtKept
  BY DEF RedemptionBooks, RedemptionRuns, ActiveTroves, BooksInv
<1>2. run.debtLeft \in Nat
  <2>1. ARTH_GAS_COMPENSATION \in Nat /\ MIN_NET_DEBT \in Nat
    BY DebtAssumption
  <2> QED BY <1>1, <2>1
<1>3. \A b \in Borrowers : TroveAfter(run, b).debt \in Nat
  <2> TAKE b \in Borrowers
  <2>1. b \notin ActiveTroves => TroveAfter(run, b) = Troves[b]
    BY <1>1, AfterStatus
  <2>2. b \in ClosedBy(run) => TroveAfter(run, b).debt = 0
    BY <1>1, AfterStatus
  <2>3. b \in ActiveTroves \ ClosedBy(run) =>
          TroveAfter(run, b).debt >= ARTH_GAS_COMPENSATION + MIN_NET_DEBT
    BY <1>1, AfterStatus
  <2>4. /\ TroveAfter(run, b).debt \in Int /\ Troves[b].debt \in Nat
        /\ ARTH_GAS_COMPENSATION \in Nat /\ MIN_NET_DEBT \in Nat
    BY <1>1, AfterTyped, DebtAssumption DEF LedgerInv, LedgerTypeOK
  <2> QED BY <2>1, <2>2, <2>3, <2>4
<1>4. ASSUME NEW b \in run.applied
      PROVE  TroveAfter(run, b).coll + run.surplus[b] \in Nat
  <2>1. b \in Borrowers /\ TroveAfter(run, b).coll \in Int /\ run.surplus[b] \in Int
    BY <1>1, AfterTyped
  <2>2. TroveAfter(run, b).coll + run.surplus[b] \in Int
    BY <2>1
  <2> QED BY <1>1, <1>3, <2>1, <2>2, WhatIsLeftIsWorthIt
<1>5. \A b \in Borrowers : run.surplus[b] \in Nat
  <2> TAKE b \in Borrowers
  <2>1. CASE b \in ClosedBy(run)
    <3>1. TroveAfter(run, b).coll = 0
      BY <1>1, <2>1, AfterStatus
    <3> QED BY <1>1, <1>4, <2>1, <3>1
  <2>2. CASE b \notin ClosedBy(run)
    BY <1>1, <2>2
  <2> QED BY <2>1, <2>2
<1>6. \A b \in Borrowers : TroveAfter(run, b).coll \in Nat
  <2> TAKE b \in Borrowers
  <2>1. CASE b \in ClosedBy(run)
    BY <1>1, <2>1, AfterStatus
  <2>2. CASE b \in run.applied \ ClosedBy(run)
    <3>1. run.surplus[b] = 0 /\ TroveAfter(run, b).coll \in Int
      BY <1>1, <2>2, AfterTyped
    <3> QED BY <1>4, <2>2, <3>1
  <2>3. CASE b \notin run.applied
    <3>1. b # run.partial /\ b \notin ClosedBy(run)
      BY <1>1, <2>3, AddressAssumption DEF NoHint, Accounts
    <3>2. TroveAfter(run, b) = Troves[b]
      BY <2>3, <3>1 DEF TroveAfter
    <3> QED BY <3>2 DEF LedgerInv, LedgerTypeOK
  <2> QED BY <2>1, <2>2, <2>3
<1>7. run.collLeft \in Nat
  <2>1. CASE run.partial = NoHint
    BY <1>1, <2>1
  <2>2. CASE run.partial # NoHint
    <3>1. run.partial \in Borrowers /\ run.partial \notin ClosedBy(run)
      BY <1>1, <2>2
    <3>2. Troves[run.partial] \in TroveType
      BY <3>1 DEF LedgerInv, LedgerTypeOK, TroveType
    <3>3. TroveAfter(run, run.partial).coll = run.collLeft
      BY <3>1, <3>2 DEF TroveAfter, TroveType
    <3> QED BY <1>6, <3>1, <3>3
  <2> QED BY <2>1, <2>2
<1>8. NewStake(run.collLeft) \in Nat
  <2>1. systemSnapshots.coll \in Nat /\ systemSnapshots.stakes \in Nat
    BY DEF LedgerInv, LedgerTypeOK
  <2>2. run.collLeft * systemSnapshots.stakes \in Nat
    BY <1>7, <2>1, NatProduct
  <2> QED BY <1>7, <2>1, <2>2, NatQuotient DEF NewStake
<1>9. \A b \in Borrowers : TroveAfter(run, b).stake \in Nat
  <2> TAKE b \in Borrowers
  <2>1. Troves[b] \in TroveType
    BY DEF LedgerInv, LedgerTypeOK, TroveType
  <2> DEFINE s == NewStake(run.collLeft)
             after == ApplyPendingRewards(b)
  <2>2. s \in Nat
    BY <1>8
  <2>3. TroveAfter(run, b)
          = IF b \in ClosedBy(run) THEN ClosedTrove(b, "closedByRedemption")
            ELSE IF b = run.partial
            THEN [Troves[b] EXCEPT !.debt = run.debtLeft, !.coll = run.collLeft, !.stake = s]
            ELSE IF b \in run.applied
            THEN [Troves[b] EXCEPT !.debt = after.debt, !.coll = after.coll]
            ELSE Troves[b]
    BY DEF TroveAfter
  <2> HIDE DEF s, after
  <2> QED BY <2>1, <2>2, <2>3, ClosedTroveFields DEF TroveType
<1> QED
  BY <1>2, <1>3, <1>5, <1>6, <1>7, <1>9 DEF RedemptionAmounts

(* Everything a redemption pays is there. *)
LEMMA RedemptionCanBeSettled ==
  ASSUME LedgerInv, BooksInv, PoolsInv, DebtInv, AccountsInv, StakeIsDefined,
         NEW run, RedemptionBooks(run, price), RedemptionAmounts(run)
  PROVE  RedemptionArithmetic(run)
<1>1. /\ run \in RedemptionRuns /\ run.redeemed \in Nat /\ run.drawn \in Nat
      /\ run.movedETH \in Nat /\ run.movedDebt \in Nat /\ run.closed \in Seq(ActiveTroves)
      /\ IsInjective(run.closed) /\ RedemptionTotals(run)
      /\ SnapshotsTogether /\ DebtRewardsCovered
  BY DEF RedemptionBooks, RedemptionRuns, DebtInv
<1>2. /\ run.debtLeft \in Nat /\ run.collLeft \in Nat
      /\ \A b \in Borrowers : /\ run.surplus[b] \in Nat
                              /\ TroveAfter(run, b).coll \in Nat
                              /\ TroveAfter(run, b).debt \in Nat
                              /\ TroveAfter(run, b).stake \in Nat
  BY DEF RedemptionAmounts
<1>3. IsFiniteSet(Borrowers) /\ DECIMAL_PRECISION \in Nat \ {0}
  BY ActiveTrovesFinite, PrecisionAssumption
<1>4. SurplusOf(run) = SumFunctionOnSet(run.surplus, Borrowers) /\ SurplusOf(run) \in Nat
  <2>1. DOMAIN run.surplus = Borrowers
    BY <1>1 DEF RedemptionRuns
  <2>2. SurplusOf(run) = SumFunctionOnSet(run.surplus, Borrowers)
    BY <2>1 DEF SurplusOf, SumFunction
  <2> QED BY <1>2, <1>3, <2>2, SumNat
<1>5. /\ ReserveOf(run) \in Nat /\ ReserveOf(run) <= arthBalance[GasPool]
  <2> DEFINE S == ToSet(run.closed)
             part == Cardinality(S) * ARTH_GAS_COMPENSATION
             rest == Cardinality(ActiveTroves \ S) * ARTH_GAS_COMPENSATION
  <2>1. S \in SUBSET ActiveTroves /\ Cardinality(S) = Len(run.closed)
    BY <1>1, DistinctCount, ListFacts
  <2>2. rest = ReserveOfTroves - part /\ part \in Nat
    BY <2>1, ReserveFacts
  <2>3. ActiveTroves \ S \in SUBSET ActiveTroves
    OBVIOUS
  <2>4. rest \in Nat /\ ReserveOfTroves \in Nat
    BY <2>3, ReserveFacts
  <2>5. ReserveOf(run) = part
    BY <2>1 DEF ReserveOf
  <2>6. arthBalance[GasPool] >= ReserveOfTroves /\ arthBalance[GasPool] \in Nat
    BY AccountFacts DEF AccountsInv, TokenAccounts, ReserveOfTroves
  <2> HIDE DEF part, rest
  <2> QED BY <2>2, <2>4, <2>5, <2>6
<1>6. StakesAfter(run) \in Nat
  <2> DEFINE change == [b \in Borrowers |-> TroveAfter(run, b).stake - Troves[b].stake]
             after == [b \in Borrowers |-> TroveAfter(run, b).stake]
  <2>1. \A b \in Borrowers : /\ StakeOf[b] \in Int /\ change[b] \in Int
                             /\ after[b] = StakeOf[b] + change[b] /\ after[b] \in Nat
    <3> TAKE b \in Borrowers
    <3>1. StakeOf[b] \in Nat /\ StakeOf[b] = Troves[b].stake
      BY RecordedAmounts
    <3>2. TroveAfter(run, b).stake \in Nat
      BY <1>2
    <3>3. change[b] = TroveAfter(run, b).stake - Troves[b].stake
          /\ after[b] = TroveAfter(run, b).stake
      OBVIOUS
    <3> HIDE DEF change, after
    <3> QED BY <3>1, <3>2, <3>3
  <2>2. DOMAIN change = Borrowers
    OBVIOUS
  <2>3. StakesAfter(run) = totalStakes + SumFunctionOnSet(change, Borrowers)
    BY <2>2 DEF StakesAfter, SumFunction
  <2> HIDE DEF change, after
  <2>4. SumFunctionOnSet(after, Borrowers)
          = SumFunctionOnSet(StakeOf, Borrowers) + SumFunctionOnSet(change, Borrowers)
    BY <1>3, <2>1, SumPlus
  <2>5. totalStakes = SumFunctionOnSet(StakeOf, Borrowers)
    BY RecordedAmounts, StakesAddUpIs DEF BooksInv
  <2>6. SumFunctionOnSet(after, Borrowers) \in Nat
    BY <1>3, <2>1, SumNat
  <2> QED BY <2>3, <2>4, <2>5, <2>6
<1>7. \A b \in Borrowers :
        /\ CollAfter(run)[b] \in Nat /\ DebtAfter(run)[b] \in Nat
        /\ ETHTermAfter(run)[b] \in Nat /\ DebtTermAfter(run)[b] \in Nat
  <2> TAKE b \in Borrowers
  <2>1. CollAfter(run)[b] \in Nat /\ DebtAfter(run)[b] \in Nat
    BY <1>2 DEF CollAfter, DebtAfter
  <2>2. /\ SnapshotAfter(run, b) \in PoolType
        /\ SnapshotAfter(run, b).ETH <= L.ETH /\ SnapshotAfter(run, b).ARTHDebt <= L.ARTHDebt
    <3>1. /\ L \in PoolType /\ rewardSnapshots[b] \in PoolType
          /\ rewardSnapshots[b].ETH <= L.ETH /\ rewardSnapshots[b].ARTHDebt <= L.ARTHDebt
      BY DEF LedgerInv, LedgerTypeOK, SnapshotsBehindL
    <3>2. /\ ApplyPendingRewards(b).snapshot \in PoolType
          /\ ApplyPendingRewards(b).snapshot.ETH <= L.ETH
          /\ ApplyPendingRewards(b).snapshot.ARTHDebt <= L.ARTHDebt
      BY AppliedRewardsTyped
    <3>3. ZeroSnapshot \in PoolType /\ ZeroSnapshot.ETH <= L.ETH
          /\ ZeroSnapshot.ARTHDebt <= L.ARTHDebt
      BY <3>1 DEF ZeroSnapshot, PoolType
    <3>4. \/ SnapshotAfter(run, b) = ZeroSnapshot
          \/ SnapshotAfter(run, b) = ApplyPendingRewards(b).snapshot
          \/ SnapshotAfter(run, b) = rewardSnapshots[b]
      BY DEF SnapshotAfter
    <3> QED BY <3>1, <3>2, <3>3, <3>4, Zenon
  <2>3. L.ETH - SnapshotAfter(run, b).ETH \in Nat
        /\ L.ARTHDebt - SnapshotAfter(run, b).ARTHDebt \in Nat
    <3>1. L \in PoolType
      BY DEF LedgerInv, LedgerTypeOK
    <3> QED BY <2>2, <3>1 DEF PoolType
  <2>4. /\ TroveAfter(run, b).stake * (L.ETH - SnapshotAfter(run, b).ETH) \in Nat
        /\ TroveAfter(run, b).stake * (L.ARTHDebt - SnapshotAfter(run, b).ARTHDebt) \in Nat
    BY <1>2, <2>3, NatProduct
  <2> QED BY <2>1, <2>4 DEF ETHTermAfter, DebtTermAfter
<1> DEFINE coll == SumFunctionOnSet(CollAfter(run), Borrowers)
           debt == SumFunctionOnSet(DebtAfter(run), Borrowers)
           ethTerm == SumFunctionOnSet(ETHTermAfter(run), Borrowers)
           debtTerm == SumFunctionOnSet(DebtTermAfter(run), Borrowers)
<1>8. coll \in Nat /\ debt \in Nat /\ ethTerm \in Nat /\ debtTerm \in Nat
  BY <1>3, <1>7, SumNat
<1>9. /\ activePool.ETH = CollTotal /\ activePool.ARTHDebt = DebtTotal
      /\ activePool.ETH \in Nat /\ activePool.ARTHDebt \in Nat
      /\ defaultPool.ETH \in Nat /\ defaultPool.ARTHDebt \in Nat
      /\ lastError.ETH \in Nat /\ lastError.ARTHDebt \in Nat
      /\ defaultPool.ETH * DECIMAL_PRECISION >= lastError.ETH + ETHTermTotal
      /\ defaultPool.ARTHDebt * DECIMAL_PRECISION >= lastError.ARTHDebt + DebtTermTotal
      /\ ETHTermTotal \in Nat /\ DebtTermTotal \in Nat
  BY <1>1, TermTotals DEF PoolsInv, ActivePoolHolds, ETHRewardsCovered, DebtRewardsCovered,
                   LedgerInv, LedgerTypeOK, PoolType
<1>10. /\ coll + run.drawn + SurplusOf(run) = activePool.ETH + run.movedETH
       /\ debt + run.redeemed + ReserveOf(run) = activePool.ARTHDebt + run.movedDebt
       /\ ethTerm + run.movedETH * DECIMAL_PRECISION <= ETHTermTotal
       /\ debtTerm + run.movedDebt * DECIMAL_PRECISION <= DebtTermTotal
  BY <1>1, <1>9, TermTotals DEF RedemptionTotals, SurplusOf
<1> HIDE DEF coll, debt, ethTerm, debtTerm
<1>11. \A x, pool, term, err, after \in Nat :
         /\ pool * DECIMAL_PRECISION >= err + term
         /\ after + x * DECIMAL_PRECISION <= term
         => x <= pool
  <2> TAKE x, pool, term, err, after \in Nat
  <2> SUFFICES ASSUME pool * DECIMAL_PRECISION >= err + term,
                      after + x * DECIMAL_PRECISION <= term, pool + 1 <= x
               PROVE  FALSE
    OBVIOUS
  <2>1. /\ x * DECIMAL_PRECISION \in Nat /\ pool * DECIMAL_PRECISION \in Nat
        /\ (pool + 1) * DECIMAL_PRECISION = pool * DECIMAL_PRECISION + DECIMAL_PRECISION
        /\ (pool + 1) * DECIMAL_PRECISION <= x * DECIMAL_PRECISION
    BY <1>3, NatProduct
  <2> QED BY <1>3, <2>1
<1>12. run.movedETH <= defaultPool.ETH
  BY <1>1, <1>8, <1>9, <1>10, <1>11
<1>13. run.movedDebt <= defaultPool.ARTHDebt
  BY <1>1, <1>8, <1>9, <1>10, <1>11
<1>14. /\ SurplusOf(run) + run.drawn <= activePool.ETH + run.movedETH
       /\ run.redeemed + ReserveOf(run) <= activePool.ARTHDebt + run.movedDebt
  <2>1. \A x, y, z, u \in Nat : x + y + z = u => z + y <= u /\ y + z <= u
    OBVIOUS
  <2>2. activePool.ETH + run.movedETH \in Nat /\ activePool.ARTHDebt + run.movedDebt \in Nat
    <3>1. \A x, y \in Nat : x + y \in Nat
      OBVIOUS
    <3> QED BY <1>1, <1>9, <3>1, Zenon
  <2> QED BY <1>1, <1>4, <1>5, <1>8, <1>10, <2>1, <2>2
<1> QED
  BY <1>1, <1>2, <1>4, <1>5, <1>6, <1>12, <1>13, <1>14 DEF RedemptionArithmetic

(* What the settlement of a redemption rests on. *)
RedemptionInv ==
  /\ LedgerInv /\ BooksInv /\ PoolsInv /\ DebtInv /\ AccountsInv
  /\ StakeIsDefined /\ OrderedAtMCR

(* What RedemptionNeverBlocked says of a state follows from them. *)
LEMMA RedemptionsSettle == RedemptionInv => RedemptionNeverBlocked
<1> SUFFICES ASSUME RedemptionInv PROVE RedemptionNeverBlocked
  OBVIOUS
<1>1. /\ LedgerInv /\ BooksInv /\ PoolsInv /\ DebtInv /\ AccountsInv
      /\ StakeIsDefined /\ OrderedAtMCR /\ SnapshotsTogether
      /\ ListInv /\ MinimumDebtKept /\ price \in Nat \ {0}
  BY DEF RedemptionInv, DebtInv, BooksInv, LedgerInv, LedgerTypeOK
<1>2. ASSUME NEW amount \in RedeemAmounts, NEW hint \in RedeemHints,
             NEW hintIsFresh \in BOOLEAN, NEW maxIterations \in RedeemIterations
      PROVE  RedemptionArithmetic(RedemptionRun(amount, hint, hintIsFresh, maxIterations, price))
  <2> DEFINE run == RedemptionRun(amount, hint, hintIsFresh, maxIterations, price)
  <2>1. amount \in Nat /\ maxIterations \in Nat
    BY InputAssumption
  <2>2. RedemptionBooks(run, price) /\ Visits(run, price)
    BY <1>1, <2>1, RedemptionRunHolds DEF Visits
  <2> HIDE DEF run
  <2>3. \A b \in run.applied : CurrentICR(b, price) >= MCR
    BY <1>1, <2>2, VisitedAreSafe
  <2>4. RedemptionAmounts(run)
    BY <1>1, <2>2, <2>3, SafeRedemptionLeavesAmounts
  <2>5. RedemptionArithmetic(run)
    BY <1>1, <2>2, <2>4, RedemptionCanBeSettled
  <2> QED BY <2>5 DEF run
<1> QED
  BY <1>2 DEF RedemptionNeverBlocked

(* No redemption that reaches its settlement is blocked there, for every   *)
(* price, amount and hint (TroveManager.sol, redeemCollateral), whenever   *)
(* the list is in order at MCR, on which the loop relies for where it      *)
(* starts: as long as every redistribution moves collateral as well as     *)
(* debt, and rounding leaves every trove a stake.                          *)
THEOREM RedemptionsAreNeverBlocked ==
  Spec /\ [][MovesBoth]_vars /\ []TrovesHaveStakes
    => [](OrderedAtMCR => RedemptionNeverBlocked)
<1>1. Init => StakeIsDefined
  BY DEF Init, CoreInit, StakeIsDefined
<1>2. LedgerInv /\ BooksInv /\ TrovesHaveStakes /\ StakeIsDefined /\ [Next]_vars
        => StakeIsDefined'
  BY NextKeepsStakeDefined
<1>3. LedgerInv /\ BooksInv /\ PoolsInv /\ DebtInv /\ AccountsInv /\ StakeIsDefined
        => (OrderedAtMCR => RedemptionNeverBlocked)
  BY RedemptionsSettle DEF RedemptionInv
<1> QED
  BY <1>1, <1>2, <1>3, PoolsHold, DebtHolds, TokenHolds, PTL DEF Spec

(* The ratio of an active trove and the bound it is compared with. *)
LEMMA RatioIsInt ==
  ASSUME LedgerInv, NEW b \in ActiveTroves
  PROVE  CurrentICR(b, price) \in Int /\ MCR \in Int
<1>1. /\ Troves[b].coll \in Nat /\ Troves[b].debt \in Nat /\ price \in Nat
      /\ PendingETHReward(b) \in Nat /\ PendingARTHDebtReward(b) \in Nat
  BY PendingRewardsAreAmounts DEF ActiveTroves, LedgerInv, LedgerTypeOK
<1>2. EntireColl(b) \in Int /\ EntireDebt(b) \in Int
  BY <1>1 DEF EntireColl, EntireDebt
<1>3. ComputeCR(EntireColl(b), EntireDebt(b), price) \in Int
  BY <1>1, <1>2, RatioType
<1> QED
  BY <1>3, RateAssumption DEF CurrentICR

(* More of a smaller divisor. *)
LEMMA QuotientsCompare ==
  ASSUME NEW x \in Int, NEW y \in Nat, x <= y, NEW d \in Nat \ {0}, NEW e \in Nat \ {0},
         e <= d
  PROVE  x \div d \in Int /\ y \div e \in Int /\ x \div d <= y \div e
<1> DEFINE q == x \div d
           r == y \div e
<1>1. q \in Int /\ r \in Nat
  BY NatQuotient
<1>2. q * d <= x
  <2>1. \A u \in Int, v \in Nat \ {0} : (u \div v) * v <= u
    OBVIOUS
  <2> QED BY <2>1
<1>3. y < r * e + e
  BY FloorQuotient
<1> HIDE DEF q, r
<1>4. CASE q <= r
  BY <1>1, <1>4 DEF q, r
<1>5. CASE ~(q <= r)
  <2>1. r + 1 \in Nat /\ r + 1 <= q
    BY <1>1, <1>5
  <2>2. (r + 1) * d <= q * d /\ (r + 1) * e <= (r + 1) * d
    <3>1. \A u, v \in Int, w \in Nat : u <= v => u * w <= v * w
      OBVIOUS
    <3>2. \A u \in Nat, v, w \in Int : v <= w => u * v <= u * w
      OBVIOUS
    <3> QED BY <1>1, <2>1, <3>1, <3>2
  <2>3. (r + 1) * e = r * e + e
    BY <1>1
  <2>4. (r + 1) * d \in Int /\ (r + 1) * e \in Int /\ q * d \in Int
    BY <1>1
  <2>5. FALSE
    BY <1>2, <1>3, <2>2, <2>3, <2>4
  <2> QED BY <2>5
<1> QED
  BY <1>4, <1>5

(* A redemption starts below every trove that it may redeem from, when the *)
(* list is in order at MCR: with a valid hint or with none.                *)
LEMMA NoneAboveFirst ==
  ASSUME LedgerInv, ListInv, OrderedAtMCR, NEW hint, NEW k \in DOMAIN sortedTroves,
         CurrentICR(sortedTroves[k], price) >= MCR
  PROVE  k <= FirstRedeemed(hint, price)
<1> DEFINE m == Len(sortedTroves)
           n == FirstRedeemed(hint, price)
           hinted == {i \in ValidFirstHints(price) : sortedTroves[i] = hint}
           above == {i \in DOMAIN sortedTroves : CurrentICR(sortedTroves[i], price) >= MCR}
           most == above \cup {0}
<1>1. n = IF hinted # {} THEN CHOOSE i \in hinted : TRUE ELSE Max(most)
  BY DEF FirstRedeemed
<1>2. /\ m \in Nat /\ DOMAIN sortedTroves = 1..m
      /\ \A i \in 1..m : sortedTroves[i] \in ActiveTroves
  BY VisitedFromThere
<1>3. IsFiniteSet(most) /\ most \subseteq Int /\ most # {} /\ k \in most
  <2>1. most \subseteq 0..m
    BY <1>2
  <2>2. IsFiniteSet(0..m)
    BY <1>2, FS_Interval
  <2> QED BY <2>1, <2>2, FS_Subset
<1>4. ASSUME NEW i \in hinted, ~(k <= i)
      PROVE  FALSE
  <2>1. i \in 1..m /\ k \in 1..m
    BY <1>2 DEF ValidFirstHints
  <2>2. i < m /\ i + 1 \in 1..m /\ (i + 1 = k \/ i + 1 < k)
    BY <1>2, <1>4, <2>1
  <2>3. CurrentICR(sortedTroves[i + 1], price) < MCR
    BY <2>2 DEF ValidFirstHints
  <2>4. CurrentICR(sortedTroves[i + 1], price) >= MCR
    BY <1>2, <2>2 DEF OrderedAtMCR
  <2>5. CurrentICR(sortedTroves[i + 1], price) \in Int /\ MCR \in Int
    <3>1. sortedTroves[i + 1] \in ActiveTroves
      BY <1>2, <2>2
    <3> QED BY <3>1, RatioIsInt
  <2> QED BY <2>3, <2>4, <2>5
<1> HIDE DEF n, hinted, above, most
<1>5. k <= Max(most)
  BY <1>3, MaxIsIn
<1>6. hinted # {} => (CHOOSE i \in hinted : TRUE) \in hinted
  OBVIOUS
<1>7. k <= n
  BY <1>1, <1>4, <1>5, <1>6
<1> QED
  BY <1>7 DEF n

(* A trove is not clearly safer than itself. *)
LEMMA NotSaferThanItself ==
  ASSUME LedgerInv, MinimumDebtKept, NEW b \in ActiveTroves
  PROVE  ~ClearlySafer(b, b)
<1> DEFINE C == EntireColl(b)
           D == EntireDebt(b)
           s == RoundingSlack
           N == NICR_PRECISION
<1>1. C \in Nat /\ D \in Nat /\ s \in Nat /\ N \in Nat /\ s < D
  <2>1. /\ Troves[b].coll \in Nat /\ Troves[b].debt \in Nat
        /\ PendingETHReward(b) \in Nat /\ PendingARTHDebtReward(b) \in Nat
    BY PendingRewardsAreAmounts DEF ActiveTroves, LedgerInv, LedgerTypeOK
  <2>2. Troves[b].debt >= ARTH_GAS_COMPENSATION + MIN_NET_DEBT
    BY DEF MinimumDebtKept
  <2>3. /\ ARTH_GAS_COMPENSATION + MIN_NET_DEBT \in Nat
        /\ RoundingSlack < ARTH_GAS_COMPENSATION + MIN_NET_DEBT /\ s \in Nat /\ N \in Nat
    BY SlackAssumption, DebtAssumption, PrecisionAssumption
  <2> QED BY <2>1, <2>2, <2>3 DEF EntireColl, EntireDebt
<1>2. ClearlySafer(b, b) <=>
        ComputeNominalCR(C - s, D + s) > ComputeNominalCR(C + s, D - s)
  BY DEF ClearlySafer
<1> HIDE DEF C, D, s, N
<1>3. /\ D + s \in Nat \ {0} /\ D - s \in Nat \ {0} /\ D - s <= D + s
      /\ C - s \in Int /\ C + s \in Nat /\ C - s <= C + s
  BY <1>1
<1>4. /\ ComputeNominalCR(C - s, D + s) = ((C - s) * N) \div (D + s)
      /\ ComputeNominalCR(C + s, D - s) = ((C + s) * N) \div (D - s)
  BY <1>3 DEF ComputeNominalCR, N
<1>5. /\ ((C - s) * N) \div (D + s) \in Int /\ ((C + s) * N) \div (D - s) \in Int
      /\ ((C - s) * N) \div (D + s) <= ((C + s) * N) \div (D - s)
  <2>1. (C + s) * N \in Nat /\ (C - s) * N \in Int /\ (C - s) * N <= (C + s) * N
    <3>1. \A x \in Int, y \in Int, z \in Nat :
            x <= y => x * z \in Int /\ y * z \in Int /\ x * z <= y * z
      OBVIOUS
    <3>2. (C + s) * N \in Nat
      BY <1>1, <1>3, NatProduct
    <3> QED BY <1>1, <1>3, <3>1, <3>2
  <2> QED BY <1>3, <2>1, QuotientsCompare
<1> QED
  BY <1>2, <1>4, <1>5

(* A trove that the run does not reach keeps its debt. *)
LEMMA UntouchedKeepsDebt ==
  ASSUME LedgerInv, NEW run, NEW redeemer, RedemptionBooks(run, price),
         Redeems(run, redeemer), NEW b \in ActiveTroves \ run.applied
  PROVE  EntireDebt(b)' = EntireDebt(b)
<1>1. /\ b \in Borrowers /\ ClosedBy(run) \subseteq run.applied /\ NoHint \notin Borrowers
      /\ run.partial # NoHint => run.partial \in run.applied \ ClosedBy(run)
  BY AddressAssumption DEF ActiveTroves, RedemptionBooks, NoHint, Accounts
<1>2. /\ Troves'[b] = TroveAfter(run, b) /\ rewardSnapshots'[b] = SnapshotAfter(run, b)
      /\ L' = L
  BY <1>1 DEF Redeems, rewardVars
<1>3. Troves'[b] = Troves[b] /\ rewardSnapshots'[b] = rewardSnapshots[b]
  BY <1>1, <1>2 DEF TroveAfter, SnapshotAfter
<1> QED
  BY <1>2, <1>3 DEF EntireDebt, PendingARTHDebtReward, IsActive

(* The troves that the run closes are those redeemed in this step. *)
LEMMA ClosedAreRedeemed ==
  ASSUME LedgerInv, NEW run, NEW redeemer, Redeems(run, redeemer),
         NEW b \in ActiveTroves, b \in ClosedBy(run)
  PROVE  RedeemedNow(b)
<1>1. b \in Borrowers /\ IsActive(b)
  BY DEF ActiveTroves
<1>2. Troves'[b] = TroveAfter(run, b)
  BY <1>1 DEF Redeems
<1>3. TroveAfter(run, b).status = "closedByRedemption"
  BY <1>1, ClosedTroveFields DEF TroveAfter
<1> QED
  BY <1>1, <1>2, <1>3 DEF RedeemedNow

(* c comes before b in a redemption that takes from b. *)
RedeemedBefore(c, b) ==
  (/\ EntireDebt(b)' < EntireDebt(b)
   /\ CurrentICR(c, price) >= MCR
   /\ ClearlySafer(b, c)) => RedeemedNow(c)

(* A redemption that takes from b has closed every riskier trove before.   *)
LEMMA RiskierAreClosed ==
  ASSUME LedgerInv, LedgerInv', BooksInv, ListStaysSorted, RedeemStep,
         NEW b \in ActiveTroves, NEW c \in ActiveTroves
  PROVE  RedeemedBefore(c, b)
<1> SUFFICES ASSUME EntireDebt(b)' < EntireDebt(b), CurrentICR(c, price) >= MCR,
                    ClearlySafer(b, c)
             PROVE  RedeemedNow(c)
  BY DEF RedeemedBefore
<1>1. PICK run, redeemer : /\ RedemptionBooks(run, price) /\ Redeems(run, redeemer)
                           /\ Visits(run, price)
  BY RedeemStepVisits
<1>2. PICK hint : /\ run.applied \subseteq ToSet(VisitedTroves(hint, price))
                  /\ InOrder(run, VisitedTroves(hint, price),
                             Len(VisitedTroves(hint, price)))
  BY <1>1 DEF Visits
<1> DEFINE m == Len(sortedTroves)
           n == FirstRedeemed(hint, price)
           list == VisitedTroves(hint, price)
<1>3. ListInv /\ MinimumDebtKept /\ OrderedAtMCR
  BY DEF BooksInv, ListStaysSorted
<1>4. /\ m \in Nat /\ DOMAIN sortedTroves = 1..m /\ n \in 0..m
      /\ list \in Seq(ActiveTroves) /\ Len(list) = n
      /\ \A k \in 1..n : n - k + 1 \in 1..n /\ list[k] = sortedTroves[n - k + 1]
  BY <1>3, VisitedFromThere
<1>5. b \in run.applied
  <2>1. EntireDebt(b) \in Nat
    <3>1. PendingARTHDebtReward(b) \in Nat /\ Troves[b].debt \in Nat
      BY PendingRewardsAreAmounts DEF ActiveTroves, LedgerInv, LedgerTypeOK
    <3> QED BY <3>1 DEF EntireDebt
  <2>2. b \notin run.applied => EntireDebt(b)' = EntireDebt(b)
    BY <1>1, UntouchedKeepsDebt
  <2> QED BY <2>1, <2>2
<1>6. PICK pc \in 1..m : c = sortedTroves[pc]
  <2>1. ToSet(sortedTroves) = ActiveTroves /\ sortedTroves \in Seq(Borrowers)
    BY <1>3 DEF ListInv
  <2> QED BY <1>4, <2>1, ListFacts
<1>7. pc <= n
  BY <1>3, <1>4, <1>6, NoneAboveFirst
<1> HIDE DEF m, n, list
<1>8. PICK k \in 1..n : b = list[k]
  <2>1. b \in ToSet(list)
    BY <1>2, <1>5 DEF list
  <2> QED BY <1>4, <2>1, ListFacts
<1> DEFINE pb == n - k + 1
           j == n - pc + 1
<1>9. /\ pb \in 1..n /\ b = sortedTroves[pb] /\ j \in 1..n /\ n - j + 1 = pc
      /\ pb \in 1..m /\ (pc > pb => j < k)
  BY <1>4, <1>6, <1>7, <1>8
<1>10. c = list[j]
  BY <1>4, <1>6, <1>9
<1>11. ~(pc < pb)
  BY <1>4, <1>6, <1>9 DEF ListStaysSorted
<1>12. pc # pb
  BY <1>3, <1>6, <1>9, NotSaferThanItself
<1>13. pc > pb
  BY <1>9, <1>11, <1>12
<1>14. j \in 1..(k - 1)
  BY <1>4, <1>9, <1>13
<1>15. list[k] \in run.applied => \A i \in 1..(k - 1) : list[i] \in ClosedBy(run)
  BY <1>2, <1>4 DEF InOrder, list
<1>16. c \in ClosedBy(run)
  BY <1>5, <1>8, <1>10, <1>14, <1>15
<1> QED
  BY <1>1, <1>16, ClosedAreRedeemed

(* A redemption takes from a trove only after it has closed every trove    *)
(* that is clearly riskier and that it may redeem from, whatever hint its  *)
(* caller gives (TroveManager.sol, redeemCollateral): as long as the list  *)
(* is in order, which the loop relies on and never checks.                 *)
THEOREM RedemptionsTakeTheRiskiestFirst ==
  Spec /\ []ListStaysSorted => RiskiestRedeemedFirst
<1>1. ASSUME LedgerInv, LedgerInv', BooksInv, AccountsInv, ListStaysSorted, [Next]_vars
      PROVE  IsRedemption => \A b, c \in ActiveTroves : RedeemedBefore(c, b)
  <2> SUFFICES ASSUME IsRedemption, NEW b \in ActiveTroves, NEW c \in ActiveTroves
               PROVE  RedeemedBefore(c, b)
    OBVIOUS
  <2>1. RedeemStep
    BY <1>1, OnlyRedemptionsRedeem
  <2> QED BY <1>1, <2>1, RiskierAreClosed
<1>2. LedgerInv /\ LedgerInv' /\ BooksInv /\ AccountsInv /\ ListStaysSorted /\ [Next]_vars =>
        [IsRedemption =>
           \A b, c \in ActiveTroves :
             (/\ EntireDebt(b)' < EntireDebt(b)
              /\ CurrentICR(c, price) >= MCR
              /\ ClearlySafer(b, c)) => RedeemedNow(c)]_vars
  BY <1>1 DEF RedeemedBefore
<1> QED
  BY <1>2, PoolsHold, TokenHolds, PTL DEF Spec, RiskiestRedeemedFirst

------------------------------------------------------------------------------
(* Hints of a redemption. *)

(* The loop of the view is over. *)
Ended(sim) == sim.broken \/ sim.remaining = 0 \/ sim.iterations = 0

FirstAbove(p) ==
  Max({ i \in DOMAIN sortedTroves : CurrentICR(sortedTroves[i], p) >= MCR } \cup {0})

FirstHint(p) == IF FirstAbove(p) = 0 THEN NoHint ELSE sortedTroves[FirstAbove(p)]

Simulated(amount, p, maxIterations) ==
  LET Step(sim, b) == SimulationStep(sim, b, p)
  IN  FoldLeft(Step, NewSimulation(amount, maxIterations),
               Reverse(SubSeq(sortedTroves, 1, FirstAbove(p))))

(* What the view returns, with its loop named. *)
LEMMA HintsAreSimulated ==
  ASSUME NEW amount, NEW p, NEW maxIterations
  PROVE  LET hints == RedemptionHints(amount, p, maxIterations)
             sim   == Simulated(amount, p, maxIterations)
         IN  /\ hints.firstRedemptionHint = FirstHint(p)
             /\ hints.partialRedemptionHintNICR = sim.partialNICR
             /\ hints.truncatedARTHamount = amount - sim.remaining
             /\ hints.reverts = sim.reverted
<1> DEFINE sim == Simulated(amount, p, maxIterations)
<1>1. RedemptionHints(amount, p, maxIterations)
        = [firstRedemptionHint |-> FirstHint(p), partialRedemptionHintNICR |-> sim.partialNICR,
           truncatedARTHamount |-> amount - sim.remaining, reverts |-> sim.reverted]
  BY Zenon DEF RedemptionHints, FirstHint, FirstAbove, Simulated
<1> HIDE DEF sim
<1>2. /\ RedemptionHints(amount, p, maxIterations).firstRedemptionHint = FirstHint(p)
      /\ RedemptionHints(amount, p, maxIterations).partialRedemptionHintNICR = sim.partialNICR
      /\ RedemptionHints(amount, p, maxIterations).truncatedARTHamount = amount - sim.remaining
      /\ RedemptionHints(amount, p, maxIterations).reverts = sim.reverted
  BY <1>1
<1> QED
  BY <1>2 DEF sim

(* redeemCollateral starts where the view did when it is given the hint. *)
LEMMA StartsAtTheHint ==
  ASSUME LedgerInv, ListInv, NEW p
  PROVE  FirstRedeemed(FirstHint(p), p) = FirstAbove(p)
<1> DEFINE m == Len(sortedTroves)
           above == {i \in DOMAIN sortedTroves : CurrentICR(sortedTroves[i], p) >= MCR}
           hinted == {i \in ValidFirstHints(p) : sortedTroves[i] = FirstHint(p)}
           f == FirstAbove(p)
<1>1. /\ m \in Nat /\ DOMAIN sortedTroves = 1..m
      /\ \A i \in 1..m : sortedTroves[i] \in ActiveTroves
      /\ \A i, j \in 1..m : sortedTroves[i] = sortedTroves[j] => i = j
  BY VisitedFromThere
<1>2. f = Max(above \cup {0})
  BY DEF FirstAbove
<1>3. f \in above \cup {0} /\ \A i \in above \cup {0} : i <= f
  <2> DEFINE most == above \cup {0}
  <2>1. most \subseteq 0..m /\ most # {}
    BY <1>1
  <2>2. IsFiniteSet(0..m)
    BY <1>1, FS_Interval
  <2>3. IsFiniteSet(most) /\ most \subseteq Int
    BY <2>1, <2>2, FS_Subset
  <2> HIDE DEF most
  <2>4. Max(most) \in most /\ \A i \in most : i <= Max(most)
    BY <2>1, <2>3, MaxIsIn
  <2> QED BY <1>2, <2>4 DEF most
<1>4. FirstRedeemed(FirstHint(p), p)
        = IF hinted # {} THEN CHOOSE i \in hinted : TRUE ELSE Max(above \cup {0})
  BY DEF FirstRedeemed
<1>5. hinted \subseteq {f}
  <2> SUFFICES ASSUME NEW i \in hinted PROVE i = f
    OBVIOUS
  <2>1. i \in 1..m /\ i \in above /\ sortedTroves[i] = FirstHint(p)
    BY <1>1 DEF ValidFirstHints
  <2>2. f # 0
    BY <1>3, <2>1
  <2>3. f \in 1..m /\ sortedTroves[f] = FirstHint(p)
    BY <1>1, <1>3, <2>2 DEF FirstHint
  <2> QED BY <1>1, <2>1, <2>3
<1> HIDE DEF above, hinted, f
<1>6. hinted # {} => (CHOOSE i \in hinted : TRUE) \in hinted
  OBVIOUS
<1>7. FirstRedeemed(FirstHint(p), p) = f
  BY <1>2, <1>4, <1>5, <1>6
<1> QED
  BY <1>7 DEF f

SimulationIs(h, c, base, list, D) ==
  h = [s \in SUBSET D |->
        IF s = {} THEN base ELSE SimulationStep(h[s \ {Max(s)}], list[Max(s)], c.p)]

(* What the view's loop starts from and runs over.                         *)
SimulationLoop(c, base, list, amount, maxIterations, p) ==
  /\ c.p = p /\ base = NewSimulation(amount, maxIterations)
  /\ list = Reverse(SubSeq(sortedTroves, 1, FirstAbove(p)))

(* The view's loop opened down to the CHOOSE of its fold. *)
LEMMA SimulationIsChosen ==
  ASSUME NEW c, NEW base, NEW list, NEW amount, NEW maxIterations, NEW p,
         SimulationLoop(c, base, list, amount, maxIterations, p)
  PROVE  Simulated(amount, p, maxIterations)
           = (CHOOSE h : SimulationIs(h, c, base, list, DOMAIN list))[DOMAIN list]
BY ZenonT(30) DEF Simulated, FoldLeft, MapThenFoldSet, SimulationIs, SimulationLoop

(* The passes of the view's loop. *)
IsSimulationOf(s, list, amount, maxIterations, p) ==
  /\ s[0] = NewSimulation(amount, maxIterations)
  /\ \A i \in 1..Len(list) : s[i] = SimulationStep(s[i - 1], list[i], p)
  /\ s[Len(list)] = Simulated(amount, p, maxIterations)

(* The result of the view's loop is the last of its passes. *)
LEMMA SimulationSteps ==
  ASSUME NEW c, NEW base, NEW E, NEW list \in Seq(E), NEW amount, NEW maxIterations, NEW p,
         SimulationLoop(c, base, list, amount, maxIterations, p)
  PROVE  \E s : IsSimulationOf(s, list, amount, maxIterations, p)
<1> DEFINE h == CHOOSE h : SimulationIs(h, c, base, list, 1..Len(list))
<1>1. Len(list) \in Nat /\ DOMAIN list = 1..Len(list)
  BY ListFacts
<1>2. \A g : LoopIs(g, "simulate", c, base, list, 1..Len(list)) <=>
              SimulationIs(g, c, base, list, 1..Len(list))
  BY DEF LoopIs, SimulationIs, LoopBody
<1>3. LoopIs(h, "simulate", c, base, list, 1..Len(list))
  BY <1>1, <1>2, LoopExists
<1>4. Simulated(amount, p, maxIterations) = h[1..Len(list)]
  <2>1. Simulated(amount, p, maxIterations)
          = (CHOOSE g : SimulationIs(g, c, base, list, DOMAIN list))[DOMAIN list]
    BY SimulationIsChosen
  <2> QED BY <1>1, <2>1, Zenon
<1> HIDE DEF h
<1>5. PICK s : Steps(s, "simulate", c, base, list) /\ s[Len(list)] = h[1..Len(list)]
  BY <1>1, <1>3, LoopSteps
<1>6. c.p = p /\ base = NewSimulation(amount, maxIterations)
  BY DEF SimulationLoop
<1>7. IsSimulationOf(s, list, amount, maxIterations, p)
  BY <1>4, <1>5, <1>6 DEF Steps, LoopBody, IsSimulationOf
<1> QED
  BY <1>7

------------------------------------------------------------------------------
(* The locals of the view; it has reverted only where the cap is used up.   *)
IsSimulation(sim) ==
  /\ DOMAIN sim = {"remaining", "iterations", "partialNICR", "broken", "reverted"}
  /\ sim.remaining \in Nat /\ sim.iterations \in Nat /\ sim.broken \in BOOLEAN
  /\ sim.reverted \in BOOLEAN
  /\ sim.reverted = TRUE =>
       sim.iterations = 0 /\ sim.remaining # 0 /\ sim.broken = FALSE

(* A pass after the end changes nothing, but that it may revert.           *)
Idle(next, sim) ==
  /\ next.remaining = sim.remaining /\ next.iterations = sim.iterations
  /\ next.broken = sim.broken /\ next.partialNICR = sim.partialNICR

(* The view's net debt is that of the trove with its rewards. *)
LEMMA NetDebtIsEntire ==
  ASSUME LedgerInv, MinimumDebtKept, NEW b \in ActiveTroves
  PROVE  /\ NetDebtOf(b) \in Nat /\ NetDebtOf(b) >= MIN_NET_DEBT
         /\ NetDebtOf(b) = EntireDebt(b) - ARTH_GAS_COMPENSATION
<1>1. /\ Troves[b].debt \in Nat /\ PendingARTHDebtReward(b) \in Nat
      /\ ARTH_GAS_COMPENSATION \in Nat /\ MIN_NET_DEBT \in Nat
      /\ Troves[b].debt >= ARTH_GAS_COMPENSATION + MIN_NET_DEBT
  BY PendingRewardsAreAmounts, DebtAssumption
     DEF MinimumDebtKept, ActiveTroves, LedgerInv, LedgerTypeOK
<1> QED
  BY <1>1 DEF NetDebtOf, NetDebt, EntireDebt

(* One pass of the view's loop that goes on: the trove is redeemed whole,  *)
(* not at all, or in part.                                                 *)
SimulatedFrom(next, sim, b, p) ==
  LET net  == NetDebtOf(b)
      part == MinOf(sim.remaining, net - MIN_NET_DEBT)
  IN  \/ /\ net <= sim.remaining /\ next.broken = FALSE
         /\ next.remaining = sim.remaining - net /\ next.iterations = sim.iterations - 1
         /\ next.partialNICR = sim.partialNICR
      \/ /\ sim.remaining < net /\ net <= MIN_NET_DEBT
         /\ next.broken = TRUE /\ next.remaining = sim.remaining
      \/ /\ sim.remaining < net /\ MIN_NET_DEBT < net
         /\ next.broken = TRUE /\ next.remaining = sim.remaining - part
         /\ next.partialNICR
              = ComputeNominalCR(EntireColl(b) - ETHLot(part, p), CompositeDebt(net - part))

(* A trove above MCR has the collateral for any part of its net debt.      *)
LEMMA LotIsCovered ==
  ASSUME LedgerInv, MinimumDebtKept, NEW b \in ActiveTroves, NEW p \in Nat \ {0},
         CurrentICR(b, p) >= MCR, NEW part \in Nat, part <= NetDebtOf(b)
  PROVE  EntireColl(b) - ETHLot(part, p) \in Nat
<1>1. /\ Troves[b].coll \in Nat /\ Troves[b].debt \in Nat
      /\ PendingETHReward(b) \in Nat /\ PendingARTHDebtReward(b) \in Nat
  BY PendingRewardsAreAmounts DEF ActiveTroves, LedgerInv, LedgerTypeOK
<1>2. EntireColl(b) \in Nat /\ EntireDebt(b) \in Nat
  BY <1>1 DEF EntireColl, EntireDebt
<1>3. /\ NetDebtOf(b) \in Nat /\ NetDebtOf(b) >= MIN_NET_DEBT
      /\ NetDebtOf(b) = EntireDebt(b) - ARTH_GAS_COMPENSATION
      /\ ARTH_GAS_COMPENSATION \in Nat /\ MIN_NET_DEBT \in Nat \ {0}
  BY NetDebtIsEntire, DebtAssumption
<1>4. /\ DECIMAL_PRECISION \in Nat \ {0} /\ MCR \in Nat /\ DECIMAL_PRECISION <= MCR
  BY PrecisionAssumption, RateAssumption DEF OneHundredPct
<1> DEFINE C == EntireColl(b)
           D == EntireDebt(b)
           r == (C * p) \div D
           lot == (part * DECIMAL_PRECISION) \div p
<1>5. D > 0 /\ part <= D
  BY <1>2, <1>3
<1>6. CurrentICR(b, p) = r
  BY <1>5 DEF CurrentICR, ComputeCR
<1>7. C \in Nat /\ D \in Nat \ {0}
  BY <1>2, <1>5
<1> HIDE DEF C, D
<1>8. C * p \in Nat /\ part * DECIMAL_PRECISION \in Nat
  BY <1>4, <1>7, NatProduct
<1>9. r \in Nat /\ lot \in Nat /\ r * D <= C * p /\ lot * p <= part * DECIMAL_PRECISION
  <2>1. \A u \in Nat, v \in Nat \ {0} : u \div v \in Nat /\ (u \div v) * v <= u
    OBVIOUS
  <2> QED BY <1>7, <1>8, <2>1
<1>10. ETHLot(part, p) = lot
  BY DEF ETHLot
<1>11. DECIMAL_PRECISION <= r
  BY <1>4, <1>6, <1>9
<1> HIDE DEF r, lot
<1>12. lot * p <= C * p
  <2>1. part * DECIMAL_PRECISION <= D * r
    <3>1. \A u, v, x, y \in Nat : u <= v /\ x <= y => u * x <= v * y
      <4>1. \A u, v, x \in Nat : u <= v => u * x <= v * x /\ u * x \in Nat /\ v * x \in Nat
        OBVIOUS
      <4>2. \A x, y, v \in Nat : x <= y => v * x <= v * y /\ v * y \in Nat
        OBVIOUS
      <4> TAKE u, v, x, y \in Nat
      <4>3. u <= v /\ x <= y => u * x <= v * x /\ v * x <= v * y
        BY <4>1, <4>2
      <4>4. u * x \in Nat /\ v * x \in Nat /\ v * y \in Nat
        OBVIOUS
      <4> QED BY <4>3, <4>4
    <3> QED BY <1>4, <1>5, <1>7, <1>9, <1>11, <3>1
  <2>2. D * r = r * D /\ D * r \in Nat /\ lot * p \in Nat
    BY <1>7, <1>9
  <2> QED BY <1>8, <1>9, <2>1, <2>2
<1>13. lot <= C
  <2>1. \A u, v \in Nat, w \in Nat \ {0} : u * w <= v * w => u <= v
    OBVIOUS
  <2> QED BY <1>7, <1>9, <1>12, <2>1
<1> QED
  BY <1>7, <1>9, <1>10, <1>13 DEF C

(* SimulationStep, outcome by outcome, for a trove that may be redeemed    *)
(* from.                                                                   *)
LEMMA SimulationPass ==
  ASSUME LedgerInv, MinimumDebtKept, NEW b \in ActiveTroves, NEW p \in Nat \ {0},
         CurrentICR(b, p) >= MCR, NEW sim,
         IsSimulation(sim), NEW next, next = SimulationStep(sim, b, p)
  PROVE  /\ IsSimulation(next) /\ next.remaining <= sim.remaining
         /\ Ended(sim) => Idle(next, sim)
         /\ ~Ended(sim) => SimulatedFrom(next, sim, b, p)
<1> DEFINE net == NetDebtOf(b)
           part == MinOf(sim.remaining, net - MIN_NET_DEBT)
           nicr == ComputeNominalCR(EntireColl(b) - ETHLot(part, p), CompositeDebt(net - part))
<1>1. net \in Nat /\ MIN_NET_DEBT \in Nat \ {0} /\ MIN_NET_DEBT <= net
  BY NetDebtIsEntire, DebtAssumption
<1>2. /\ DOMAIN sim = {"remaining", "iterations", "partialNICR", "broken", "reverted"}
      /\ sim.remaining \in Nat /\ sim.iterations \in Nat /\ sim.broken \in BOOLEAN
      /\ sim.reverted \in BOOLEAN
      /\ sim.reverted = TRUE =>
           sim.iterations = 0 /\ sim.remaining # 0 /\ sim.broken = FALSE
  BY DEF IsSimulation
<1>3. part \in Nat /\ part <= sim.remaining /\ part <= net
  BY <1>1, <1>2 DEF MinOf
<1>10. part = MaxRedeemable(sim, b)
  BY Zenon DEF MaxRedeemable
<1>13. EntireColl(b) - ETHLot(part, p) \in Nat
  BY <1>3, LotIsCovered
<1> HIDE DEF part
<1>12. EntireColl(b) - ETHLot(part, p) = CollKept(sim, b, p)
  <2> DEFINE lot == (MaxRedeemable(sim, b) * DECIMAL_PRECISION) \div p
  <2>1. MaxRedeemable(sim, b) * DECIMAL_PRECISION \in Nat
    BY <1>3, <1>10, PrecisionAssumption, NatProduct
  <2>2. lot \in Nat
    BY <2>1, NatQuotient
  <2>3. Troves[b].coll \in Nat /\ PendingETHReward(b) \in Nat
    BY PendingRewardsAreAmounts DEF ActiveTroves, LedgerInv, LedgerTypeOK
  <2>4. ETHLot(part, p) = lot
    BY <1>10 DEF ETHLot
  <2>5. CollKept(sim, b, p) = Troves[b].coll + PendingETHReward(b) - lot
    BY DEF CollKept
  <2> HIDE DEF lot
  <2> QED BY <2>2, <2>3, <2>4, <2>5 DEF EntireColl
<1>11. nicr = ComputeNominalCR(CollKept(sim, b, p),
                               CompositeDebt(NetDebtOf(b) - MaxRedeemable(sim, b)))
  BY <1>10, <1>12
<1>14. (CollKept(sim, b, p) < 0) = FALSE
  <2>1. \A x \in Nat : ~(x < 0)
    OBVIOUS
  <2> QED BY <1>12, <1>13, <2>1
<1> HIDE DEF nicr
<1>4. next = IF sim.broken \/ sim.reverted \/ sim.remaining = 0 THEN sim
             ELSE IF sim.iterations = 0 THEN [sim EXCEPT !.reverted = TRUE]
             ELSE IF net <= sim.remaining
             THEN [sim EXCEPT !.remaining = @ - net, !.iterations = @ - 1]
             ELSE IF net <= MIN_NET_DEBT THEN [sim EXCEPT !.broken = TRUE]
             ELSE [sim EXCEPT !.remaining = @ - part, !.broken = TRUE, !.partialNICR = nicr,
                              !.reverted = FALSE]
  BY <1>10, <1>11, <1>14 DEF SimulationStep
<1>5. SimulatedFrom(next, sim, b, p) <=>
      \/ /\ net <= sim.remaining /\ next.broken = FALSE
         /\ next.remaining = sim.remaining - net /\ next.iterations = sim.iterations - 1
         /\ next.partialNICR = sim.partialNICR
      \/ /\ sim.remaining < net /\ net <= MIN_NET_DEBT
         /\ next.broken = TRUE /\ next.remaining = sim.remaining
      \/ /\ sim.remaining < net /\ MIN_NET_DEBT < net
         /\ next.broken = TRUE /\ next.remaining = sim.remaining - part
         /\ next.partialNICR = nicr
  BY DEF SimulatedFrom, part, nicr
<1> HIDE DEF net
<1>6. CASE Ended(sim)
  <2>1. CASE sim.broken \/ sim.reverted \/ sim.remaining = 0
    <3>1. next = sim
      BY <1>4, <2>1
    <3> QED BY <1>2, <1>6, <3>1 DEF Idle
  <2>2. CASE ~(sim.broken \/ sim.reverted \/ sim.remaining = 0)
    <3>1. sim.iterations = 0 /\ sim.broken = FALSE
      BY <1>2, <1>6, <2>2 DEF Ended
    <3>2. next = [sim EXCEPT !.reverted = TRUE]
      BY <1>4, <2>2, <3>1
    <3>3. /\ next.remaining = sim.remaining /\ next.iterations = sim.iterations
          /\ next.broken = sim.broken /\ next.partialNICR = sim.partialNICR
          /\ next.reverted = TRUE /\ DOMAIN next = DOMAIN sim
      BY <1>2, <3>2
    <3>4. Idle(next, sim) /\ next.remaining <= sim.remaining
      BY <1>2, <3>3 DEF Idle
    <3>5. sim.remaining # 0
      BY <2>2
    <3>6. IsSimulation(next)
      BY <1>2, <3>1, <3>3, <3>5 DEF IsSimulation
    <3> QED BY <1>6, <3>4, <3>6
  <2> QED BY <2>1, <2>2
<1>15. ~Ended(sim) => ~(sim.broken \/ sim.reverted \/ sim.remaining = 0) /\ sim.iterations # 0
  BY <1>2 DEF Ended
<1>7. CASE ~Ended(sim) /\ net <= sim.remaining
  <2>1. next = [sim EXCEPT !.remaining = @ - net, !.iterations = @ - 1]
    BY <1>4, <1>7, <1>15
  <2>2. /\ next.remaining = sim.remaining - net /\ next.iterations = sim.iterations - 1
        /\ next.broken = sim.broken /\ next.partialNICR = sim.partialNICR
        /\ next.reverted = sim.reverted /\ DOMAIN next = DOMAIN sim
    BY <1>2, <2>1
  <2>3. sim.broken = FALSE /\ sim.iterations # 0 /\ sim.reverted = FALSE
    BY <1>2, <1>7, <1>15
  <2> QED BY <1>1, <1>2, <1>5, <1>7, <2>2, <2>3 DEF IsSimulation
<1>8. CASE ~Ended(sim) /\ ~(net <= sim.remaining) /\ net <= MIN_NET_DEBT
  <2>1. next = [sim EXCEPT !.broken = TRUE]
    BY <1>4, <1>8, <1>15
  <2>2. /\ next.remaining = sim.remaining /\ next.iterations = sim.iterations
        /\ next.broken = TRUE /\ next.reverted = FALSE /\ DOMAIN next = DOMAIN sim
    BY <1>2, <1>8, <1>15, <2>1
  <2>3. SimulatedFrom(next, sim, b, p)
    BY <1>1, <1>2, <1>5, <1>8, <2>2
  <2>4. next.remaining \in Nat /\ next.remaining <= sim.remaining
    BY <1>2, <2>2
  <2> QED BY <1>2, <1>8, <2>2, <2>3, <2>4 DEF IsSimulation
<1>9. CASE ~Ended(sim) /\ ~(net <= sim.remaining) /\ ~(net <= MIN_NET_DEBT)
  <2>1. next = [sim EXCEPT !.remaining = @ - part, !.broken = TRUE, !.partialNICR = nicr,
                           !.reverted = FALSE]
    BY <1>4, <1>9, <1>15
  <2>2. /\ next.remaining = sim.remaining - part /\ next.iterations = sim.iterations
        /\ next.broken = TRUE /\ next.reverted = FALSE /\ next.partialNICR = nicr
        /\ DOMAIN next = DOMAIN sim
    BY <1>2, <2>1
  <2>3. SimulatedFrom(next, sim, b, p)
    BY <1>1, <1>2, <1>5, <1>9, <2>2
  <2>4. next.remaining \in Nat /\ next.remaining <= sim.remaining
    BY <1>2, <1>3, <2>2
  <2> QED BY <1>2, <1>9, <2>2, <2>3, <2>4 DEF IsSimulation
<1> QED
  BY <1>6, <1>7, <1>8, <1>9

(* One pass of redeemCollateral's loop that goes on, with a partial hint   *)
(* that is up to date.                                                     *)
RedeemedFresh(next, run, b, p) ==
  LET net == NetDebtOf(b)
  IN  \/ /\ net <= run.remaining /\ next.remaining = run.remaining - net
         /\ next.iterations = run.iterations - 1
         /\ next.cancelled = FALSE /\ next.partial = NoHint
      \/ /\ run.remaining < net /\ MIN_NET_DEBT <= net - run.remaining
         /\ next.remaining = 0 /\ next.cancelled = FALSE /\ next.partial = b
         /\ next.debtLeft = CompositeDebt(net - run.remaining)
         /\ next.collLeft = EntireColl(b) - ETHLot(run.remaining, p)
      \/ /\ run.remaining < net /\ net - run.remaining < MIN_NET_DEBT
         /\ next.cancelled = TRUE /\ next.remaining = run.remaining

(* RedemptionStep with such a hint, outcome by outcome. *)
LEMMA FreshPass ==
  ASSUME LedgerInv, MinimumDebtKept, SnapshotsTogether, NEW b \in ActiveTroves,
         NEW p \in Nat \ {0}, NEW run, RedemptionBooks(run, p),
         NEW next, next = RedemptionStep(run, b, p, TRUE)
  PROVE  /\ Stopped(run) => next = run
         /\ ~Stopped(run) => RedeemedFresh(next, run, b, p)
<1>1. Stopped(run) => next = run
  BY DEF Stopped, RedemptionStep
<1>2. SUFFICES ASSUME ~Stopped(run) PROVE RedeemedFresh(next, run, b, p)
  BY <1>1
<1> DEFINE trove == ApplyPendingRewards(b)
           lot == LotOf(run, b)
           net == NetDebtOf(b)
<1>3. /\ run \in RedemptionRuns /\ b \in Borrowers /\ run.remaining \in Nat
      /\ run.remaining # 0 /\ run.cancelled = FALSE /\ run.partial = NoHint
      /\ run.partial # b
  BY <1>2, AddressAssumption
     DEF Stopped, RedemptionBooks, RedemptionRuns, ActiveTroves, NoHint, Accounts
<1>4. next = RedeemFromTrove(run, b, p, TRUE)
  BY <1>2 DEF Stopped, RedemptionStep
<1>5. /\ trove.coll = EntireColl(b) /\ trove.debt = net + ARTH_GAS_COMPENSATION
      /\ net \in Nat /\ ARTH_GAS_COMPENSATION \in Nat /\ MIN_NET_DEBT \in Nat
  <2>1. trove.coll = EntireColl(b) /\ trove.debt = EntireDebt(b)
    BY AppliedIsEntire
  <2>2. net \in Nat /\ net = EntireDebt(b) - ARTH_GAS_COMPENSATION /\ EntireDebt(b) \in Nat
    <3>1. Troves[b].debt \in Nat /\ PendingARTHDebtReward(b) \in Nat
      BY <1>3, PendingRewardsAreAmounts DEF LedgerInv, LedgerTypeOK
    <3> QED BY <3>1, NetDebtIsEntire DEF EntireDebt
  <2> HIDE DEF trove, net
  <2> QED BY <2>1, <2>2, DebtAssumption
<1>6. lot = MinOf(run.remaining, trove.debt - ARTH_GAS_COMPENSATION)
  BY DEF LotOf, NetDebt
<1>7. NetDebt(trove.debt - lot) \in Int
  BY <1>3, LotFits
<1>8. RedeemedFrom(next, run, b, p) /\ RefusedForDebt(next, run, b)
  BY <1>3, <1>4, <1>7, RedeemedFields
<1>9. /\ next.iterations = run.iterations - 1
      /\ \/ /\ trove.debt - lot = ARTH_GAS_COMPENSATION
            /\ next.remaining = run.remaining - lot
            /\ next.partial = run.partial /\ next.cancelled = run.cancelled
         \/ /\ next.cancelled = TRUE /\ next.remaining = run.remaining
         \/ /\ trove.debt - lot # ARTH_GAS_COMPENSATION
            /\ NetDebt(trove.debt - lot) >= MIN_NET_DEBT
            /\ next.remaining = run.remaining - lot
            /\ next.partial = b /\ next.debtLeft = trove.debt - lot
            /\ next.collLeft = trove.coll - ETHLot(lot, p) /\ next.cancelled = run.cancelled
  BY <1>8 DEF RedeemedFrom
<1>10. next.cancelled = TRUE =>
         trove.debt - lot # ARTH_GAS_COMPENSATION /\ NetDebt(trove.debt - lot) < MIN_NET_DEBT
  BY <1>3, <1>8 DEF RefusedForDebt
<1>11. RedeemedFresh(next, run, b, p) <=>
      \/ /\ net <= run.remaining /\ next.remaining = run.remaining - net
         /\ next.iterations = run.iterations - 1
         /\ next.cancelled = FALSE /\ next.partial = NoHint
      \/ /\ run.remaining < net /\ MIN_NET_DEBT <= net - run.remaining
         /\ next.remaining = 0 /\ next.cancelled = FALSE /\ next.partial = b
         /\ next.debtLeft = CompositeDebt(net - run.remaining)
         /\ next.collLeft = EntireColl(b) - ETHLot(run.remaining, p)
      \/ /\ run.remaining < net /\ net - run.remaining < MIN_NET_DEBT
         /\ next.cancelled = TRUE /\ next.remaining = run.remaining
  BY DEF RedeemedFresh
<1> HIDE DEF trove, lot, net
<1>12. lot = MinOf(run.remaining, net)
  BY <1>5, <1>6
<1>13. CASE net <= run.remaining
  <2>1. lot = net
    BY <1>3, <1>5, <1>12, <1>13 DEF MinOf
  <2>2. trove.debt - lot = ARTH_GAS_COMPENSATION
    BY <1>5, <2>1
  <2> QED BY <1>3, <1>9, <1>10, <1>11, <1>13, <2>1, <2>2
<1>14. CASE run.remaining < net
  <2>1. lot = run.remaining
    BY <1>3, <1>5, <1>12, <1>14 DEF MinOf
  <2>2. /\ trove.debt - lot = CompositeDebt(net - run.remaining)
        /\ trove.debt - lot # ARTH_GAS_COMPENSATION
        /\ NetDebt(trove.debt - lot) = net - run.remaining
        /\ run.remaining - lot = 0
    BY <1>3, <1>5, <1>14, <2>1 DEF CompositeDebt, NetDebt
  <2>3. CASE next.cancelled = TRUE
    <3>1. next.remaining = run.remaining /\ net - run.remaining < MIN_NET_DEBT
      BY <1>3, <1>9, <1>10, <2>2, <2>3
    <3> QED BY <1>11, <1>14, <2>3, <3>1
  <2>4. CASE next.cancelled # TRUE
    <3>1. /\ NetDebt(trove.debt - lot) >= MIN_NET_DEBT
          /\ next.remaining = run.remaining - lot
          /\ next.partial = b /\ next.debtLeft = trove.debt - lot
          /\ next.collLeft = trove.coll - ETHLot(lot, p) /\ next.cancelled = run.cancelled
      BY <1>9, <2>2, <2>4
    <3>2. /\ MIN_NET_DEBT <= net - run.remaining /\ next.remaining = 0
          /\ next.cancelled = FALSE /\ next.partial = b
          /\ next.debtLeft = CompositeDebt(net - run.remaining)
      BY <1>3, <1>5, <2>2, <3>1
    <3>3. next.collLeft = EntireColl(b) - ETHLot(run.remaining, p)
      BY <1>5, <2>1, <3>1
    <3> QED BY <1>11, <1>14, <3>2, <3>3
  <2> QED BY <2>3, <2>4
<1>15. net <= run.remaining \/ run.remaining < net
  BY <1>3, <1>5
<1> QED
  BY <1>13, <1>14, <1>15

(* A redemption of what the view leaves rest of follows the view: it has   *)
(* rest less to go, and ends with the ratio that the view has computed.    *)
Follows(run, sim, rest) ==
  /\ run.remaining = sim.remaining - rest /\ run.cancelled = FALSE
  /\ sim.broken = FALSE => run.iterations = sim.iterations /\ run.partial = NoHint
  /\ run.partial # NoHint =>
       ComputeNominalCR(run.collLeft, run.debtLeft) = sim.partialNICR

(* It still follows the view after one more pass of both loops.            *)
LEMMA FollowsThePass ==
  ASSUME LedgerInv, MinimumDebtKept, SnapshotsTogether, NEW b \in ActiveTroves,
         NEW p \in Nat \ {0}, CurrentICR(b, p) >= MCR,
         NEW run, RedemptionBooks(run, p), NEW sim, IsSimulation(sim),
         NEW rest \in Nat, Follows(run, sim, rest),
         NEW next, next = RedemptionStep(run, b, p, TRUE),
         NEW onward, onward = SimulationStep(sim, b, p),
         rest <= onward.remaining, Ended(sim) => rest = sim.remaining,
         Ended(onward) => rest = onward.remaining
  PROVE  Follows(next, onward, rest)
<1> DEFINE net == NetDebtOf(b)
           part == MinOf(sim.remaining, net - MIN_NET_DEBT)
<1>1. /\ IsSimulation(onward) /\ onward.remaining <= sim.remaining
      /\ Ended(sim) => Idle(onward, sim)
      /\ ~Ended(sim) => SimulatedFrom(onward, sim, b, p)
  BY SimulationPass
<1>2. /\ Stopped(run) => next = run
      /\ ~Stopped(run) => RedeemedFresh(next, run, b, p)
  BY FreshPass
<1>3. /\ net \in Nat /\ MIN_NET_DEBT \in Nat \ {0} /\ MIN_NET_DEBT <= net
      /\ sim.remaining \in Nat /\ sim.iterations \in Nat /\ sim.broken \in BOOLEAN
      /\ onward.remaining \in Nat
  BY <1>1, NetDebtIsEntire, DebtAssumption DEF IsSimulation
<1>4. /\ run.remaining = sim.remaining - rest /\ run.cancelled = FALSE
      /\ sim.broken = FALSE => run.iterations = sim.iterations /\ run.partial = NoHint
      /\ run.partial # NoHint =>
           ComputeNominalCR(run.collLeft, run.debtLeft) = sim.partialNICR
  BY DEF Follows
<1>5. CASE Ended(sim)
  <2>1. run.remaining = 0
    BY <1>3, <1>4, <1>5
  <2>2. next = run /\ Idle(onward, sim)
    BY <1>1, <1>2, <1>5, <2>1 DEF Stopped
  <2> QED BY <1>4, <2>2 DEF Follows, Idle
<1>6. CASE ~Ended(sim)
  <2>1. sim.broken = FALSE /\ sim.remaining # 0 /\ sim.iterations # 0
    BY <1>3, <1>6 DEF Ended
  <2>2. run.iterations = sim.iterations /\ run.partial = NoHint
    BY <1>4, <2>1
  <2>3. \/ /\ net <= sim.remaining /\ onward.broken = FALSE
           /\ onward.remaining = sim.remaining - net
           /\ onward.iterations = sim.iterations - 1
        \/ /\ onward.broken = TRUE /\ onward.remaining = sim.remaining
        \/ /\ sim.remaining < net /\ MIN_NET_DEBT < net
           /\ onward.broken = TRUE /\ onward.remaining = sim.remaining - part
           /\ onward.partialNICR
                = ComputeNominalCR(EntireColl(b) - ETHLot(part, p), CompositeDebt(net - part))
    BY <1>1, <1>6 DEF SimulatedFrom
  <2>4. ~Stopped(run) =>
          \/ /\ net <= run.remaining /\ next.remaining = run.remaining - net
             /\ next.iterations = run.iterations - 1
             /\ next.cancelled = FALSE /\ next.partial = NoHint
          \/ /\ run.remaining < net /\ MIN_NET_DEBT <= net - run.remaining
             /\ next.remaining = 0 /\ next.cancelled = FALSE /\ next.partial = b
             /\ next.debtLeft = CompositeDebt(net - run.remaining)
             /\ next.collLeft = EntireColl(b) - ETHLot(run.remaining, p)
          \/ /\ run.remaining < net /\ net - run.remaining < MIN_NET_DEBT
             /\ next.cancelled = TRUE /\ next.remaining = run.remaining
    BY <1>2 DEF RedeemedFresh
  <2>5. part \in Nat \/ net <= MIN_NET_DEBT
    BY <1>3 DEF MinOf
  <2>6. /\ sim.remaining < net /\ MIN_NET_DEBT < net =>
             part \in Nat \ {0} /\ part < net /\ MIN_NET_DEBT <= net - part
    BY <1>3, <2>1 DEF MinOf
  <2> HIDE DEF net, part
  <2>7. CASE /\ net <= sim.remaining /\ onward.broken = FALSE
             /\ onward.remaining = sim.remaining - net
             /\ onward.iterations = sim.iterations - 1
    <3>1. net <= run.remaining /\ run.remaining # 0 /\ ~(run.remaining < net)
      BY <1>3, <1>4, <2>7
    <3>2. ~Stopped(run)
      BY <1>4, <2>1, <2>2, <3>1 DEF Stopped
    <3>3. /\ next.remaining = run.remaining - net /\ next.iterations = run.iterations - 1
          /\ next.cancelled = FALSE /\ next.partial = NoHint
      BY <2>4, <3>1, <3>2
    <3>4. next.remaining = onward.remaining - rest
      <4>1. next.remaining = (sim.remaining - rest) - net
        BY <1>4, <3>3
      <4>2. onward.remaining - rest = (sim.remaining - net) - rest
        BY <2>7
      <4>3. \A x, y, z \in Nat : (x - z) - y = (x - y) - z
        OBVIOUS
      <4>4. (sim.remaining - rest) - net = (sim.remaining - net) - rest
        BY <1>3, <4>3
      <4> QED BY <4>1, <4>2, <4>4
    <3> QED BY <2>2, <2>7, <3>3, <3>4 DEF Follows
  <2>8. CASE onward.broken = TRUE /\ onward.remaining = sim.remaining
    <3>1. rest = sim.remaining
      BY <2>8 DEF Ended
    <3>2. run.remaining = 0
      BY <1>3, <1>4, <3>1
    <3>3. next = run
      BY <1>2, <3>2 DEF Stopped
    <3> QED BY <1>4, <2>2, <2>8, <3>3 DEF Follows
  <2>9. CASE /\ sim.remaining < net /\ MIN_NET_DEBT < net
             /\ onward.broken = TRUE /\ onward.remaining = sim.remaining - part
             /\ onward.partialNICR
                  = ComputeNominalCR(EntireColl(b) - ETHLot(part, p), CompositeDebt(net - part))
    <3>1. rest = sim.remaining - part
      BY <2>9 DEF Ended
    <3>2. run.remaining = part /\ part \in Nat \ {0} /\ part < net /\ MIN_NET_DEBT <= net - part
      BY <1>3, <1>4, <2>6, <2>9, <3>1
    <3>3. ~Stopped(run)
      BY <1>4, <2>1, <2>2, <3>2 DEF Stopped
    <3>4. ~(net <= run.remaining) /\ ~(net - run.remaining < MIN_NET_DEBT)
      BY <1>3, <3>2
    <3>5. /\ next.remaining = 0 /\ next.cancelled = FALSE /\ next.partial = b
          /\ next.debtLeft = CompositeDebt(net - part)
          /\ next.collLeft = EntireColl(b) - ETHLot(part, p)
      BY <2>4, <3>2, <3>3, <3>4
    <3>6. next.remaining = onward.remaining - rest
      <4>1. onward.remaining = rest /\ rest - rest = 0
        BY <2>9, <3>1
      <4> QED BY <3>5, <4>1
    <3> QED BY <2>9, <3>5, <3>6 DEF Follows
  <2> QED BY <2>3, <2>7, <2>8, <2>9
<1> QED
  BY <1>5, <1>6

(* The redemption of the whole amount stops where the view did when the    *)
(* view leaves a rest.                                                     *)
StopsWith(run, sim) ==
  /\ sim.broken = FALSE => /\ run.remaining = sim.remaining
                           /\ run.iterations = sim.iterations /\ run.cancelled = FALSE
  /\ sim.broken = TRUE /\ sim.remaining > 0 => Stopped(run) /\ run.remaining > 0

(* It still does after one more pass of both loops.                        *)
LEMMA StopsWithThePass ==
  ASSUME LedgerInv, MinimumDebtKept, SnapshotsTogether, NEW b \in ActiveTroves,
         NEW p \in Nat \ {0}, CurrentICR(b, p) >= MCR,
         NEW run, RedemptionBooks(run, p), NEW sim, IsSimulation(sim),
         StopsWith(run, sim),
         NEW next, next = RedemptionStep(run, b, p, TRUE),
         NEW onward, onward = SimulationStep(sim, b, p)
  PROVE  StopsWith(next, onward)
<1> DEFINE net == NetDebtOf(b)
           part == MinOf(sim.remaining, net - MIN_NET_DEBT)
<1>1. /\ Ended(sim) => Idle(onward, sim)
      /\ ~Ended(sim) => SimulatedFrom(onward, sim, b, p)
  BY SimulationPass
<1>2. /\ Stopped(run) => next = run
      /\ ~Stopped(run) => RedeemedFresh(next, run, b, p)
  BY FreshPass
<1>3. /\ net \in Nat /\ MIN_NET_DEBT \in Nat \ {0} /\ MIN_NET_DEBT <= net
      /\ sim.remaining \in Nat /\ sim.iterations \in Nat /\ sim.broken \in BOOLEAN
  BY NetDebtIsEntire, DebtAssumption DEF IsSimulation
<1>4. /\ sim.broken = FALSE => /\ run.remaining = sim.remaining
                               /\ run.iterations = sim.iterations /\ run.cancelled = FALSE
      /\ sim.broken = TRUE /\ sim.remaining > 0 => Stopped(run) /\ run.remaining > 0
  BY DEF StopsWith
<1>5. CASE Ended(sim)
  <2>1. Idle(onward, sim)
    BY <1>1, <1>5
  <2>2. CASE sim.broken = FALSE
    <3>1. Stopped(run)
      BY <1>4, <1>5, <2>2 DEF Ended, Stopped
    <3> QED BY <1>2, <1>4, <2>1, <2>2, <3>1 DEF StopsWith, Idle
  <2>3. CASE sim.broken = TRUE
    <3>1. sim.remaining > 0 => next = run
      BY <1>2, <1>4, <2>3
    <3> QED BY <1>4, <2>1, <2>3, <3>1 DEF StopsWith, Idle
  <2> QED BY <1>3, <2>2, <2>3
<1>6. CASE ~Ended(sim)
  <2>1. sim.broken = FALSE /\ sim.remaining # 0 /\ sim.iterations # 0
    BY <1>3, <1>6 DEF Ended
  <2>2. /\ run.remaining = sim.remaining /\ run.iterations = sim.iterations
        /\ run.cancelled = FALSE /\ ~Stopped(run)
    BY <1>4, <2>1 DEF Stopped
  <2>3. \/ /\ net <= sim.remaining /\ onward.broken = FALSE
           /\ onward.remaining = sim.remaining - net
           /\ onward.iterations = sim.iterations - 1
        \/ /\ sim.remaining < net /\ net <= MIN_NET_DEBT
           /\ onward.broken = TRUE /\ onward.remaining = sim.remaining
        \/ /\ sim.remaining < net /\ MIN_NET_DEBT < net
           /\ onward.broken = TRUE /\ onward.remaining = sim.remaining - part
    BY <1>1, <1>6 DEF SimulatedFrom
  <2>4. \/ /\ net <= run.remaining /\ next.remaining = run.remaining - net
           /\ next.iterations = run.iterations - 1 /\ next.cancelled = FALSE
        \/ run.remaining < net /\ MIN_NET_DEBT <= net - run.remaining
        \/ /\ run.remaining < net /\ next.cancelled = TRUE
           /\ next.remaining = run.remaining
    BY <1>2, <2>2 DEF RedeemedFresh
  <2>5. /\ part = IF sim.remaining < net - MIN_NET_DEBT THEN sim.remaining
                  ELSE net - MIN_NET_DEBT
    BY DEF MinOf
  <2> HIDE DEF net, part
  <2>6. CASE /\ net <= sim.remaining /\ onward.broken = FALSE
             /\ onward.remaining = sim.remaining - net
             /\ onward.iterations = sim.iterations - 1
    <3>1. ~(run.remaining < net)
      BY <1>3, <2>2, <2>6
    <3>2. /\ next.remaining = run.remaining - net
          /\ next.iterations = run.iterations - 1 /\ next.cancelled = FALSE
      BY <2>4, <3>1
    <3> QED BY <2>2, <2>6, <3>2 DEF StopsWith
  <2>7. CASE /\ sim.remaining < net /\ onward.broken = TRUE
             /\ net - sim.remaining < MIN_NET_DEBT
    <3>1. ~(net <= run.remaining) /\ ~(MIN_NET_DEBT <= net - run.remaining)
      BY <1>3, <2>2, <2>7
    <3>2. next.cancelled = TRUE /\ next.remaining = run.remaining
      BY <2>4, <3>1
    <3>3. next.remaining > 0
      <4>1. sim.remaining > 0
        BY <1>3, <2>1
      <4> QED BY <2>2, <3>2, <4>1
    <3> QED BY <2>7, <3>2, <3>3 DEF StopsWith, Stopped
  <2>8. CASE /\ sim.remaining < net /\ onward.broken = TRUE
             /\ ~(net - sim.remaining < MIN_NET_DEBT)
    <3>1. MIN_NET_DEBT < net /\ onward.remaining = sim.remaining - part
      BY <1>3, <2>1, <2>3, <2>8
    <3>2. part = sim.remaining
      BY <1>3, <2>5, <2>8
    <3>3. ~(onward.remaining > 0)
      BY <1>3, <3>1, <3>2
    <3> QED BY <2>8, <3>3 DEF StopsWith
  <2> QED BY <2>3, <2>6, <2>7, <2>8
<1> QED
  BY <1>5, <1>6

(* After pass j nothing has grown, and the passes after an end were idle.  *)
PassedBy(s, j) ==
  /\ IsSimulation(s[j])
  /\ \A i \in 0..j : /\ s[j].remaining <= s[i].remaining
                     /\ s[i].remaining \in Nat
                     /\ Ended(s[i]) => Idle(s[j], s[i])

(* The troves in a list that are all at MCR or above.                      *)
AllRedeemable(list, p) ==
  \A i \in 1..Len(list) : list[i] \in ActiveTroves /\ CurrentICR(list[i], p) >= MCR

(* What is left after pass n is what was left once the loop had ended.     *)
EndsWith(s, n) ==
  \A i \in 0..n : /\ IsSimulation(s[i]) /\ s[n].remaining <= s[i].remaining
                  /\ Ended(s[i]) => s[n].remaining = s[i].remaining

(* The passes of the view's loop, and what is left once it has ended.      *)
LEMMA SimulationPasses ==
  ASSUME LedgerInv, ListInv, MinimumDebtKept, NEW p \in Nat \ {0}, NEW amount \in Nat,
         NEW maxIterations \in Nat,
         NEW list, list = VisitedTroves(FirstHint(p), p),
         AllRedeemable(list, p)
  PROVE  \E s : IsSimulationOf(s, list, amount, maxIterations, p) /\ EndsWith(s, Len(list))
<1> DEFINE m == Len(list)
           base == NewSimulation(amount, maxIterations)
           c == [p |-> p]
<1>1. list \in Seq(ActiveTroves)
  BY VisitedAreActive
<1>2. m \in Nat /\ \A i \in 1..m : list[i] \in ActiveTroves
  BY <1>1, ListFacts
<1>3. SimulationLoop(c, base, list, amount, maxIterations, p)
  BY StartsAtTheHint DEF SimulationLoop, VisitedTroves
<1>4. IsSimulation(base)
  BY PrecisionAssumption DEF NewSimulation, IsSimulation
<1> HIDE DEF c, base
<1>11. PICK s : IsSimulationOf(s, list, amount, maxIterations, p)
  BY <1>1, <1>3, SimulationSteps
<1>5. /\ s[0] = base
      /\ \A i \in 1..Len(list) : s[i] = SimulationStep(s[i - 1], list[i], p)
  BY <1>11 DEF IsSimulationOf, base
<1> HIDE DEF m
<1> DEFINE T == {j \in 0..m : PassedBy(s, j)}
<1>6. 0 \in T
  <2>1. \A i \in 0..0 : i = 0
    OBVIOUS
  <2>2. s[0].remaining \in Nat
    BY <1>4, <1>5 DEF IsSimulation
  <2>3. s[0].remaining <= s[0].remaining /\ Idle(s[0], s[0])
    BY <2>2 DEF Idle
  <2> QED BY <1>2, <1>4, <1>5, <2>1, <2>2, <2>3 DEF PassedBy
<1>7. ASSUME NEW j \in 1..m, j - 1 \in T PROVE j \in T
  <2>1. /\ IsSimulation(s[j - 1]) /\ j \in 0..m /\ j \in Nat
        /\ \A i \in 0..(j - 1) : /\ s[j - 1].remaining <= s[i].remaining
                                 /\ s[i].remaining \in Nat
                                 /\ Ended(s[i]) => Idle(s[j - 1], s[i])
    BY <1>2, <1>7 DEF PassedBy
  <2>2. /\ s[j] = SimulationStep(s[j - 1], list[j], p) /\ list[j] \in ActiveTroves
        /\ CurrentICR(list[j], p) >= MCR
    BY <1>2, <1>5 DEF m, AllRedeemable
  <2>3. /\ IsSimulation(s[j]) /\ s[j].remaining <= s[j - 1].remaining
        /\ Ended(s[j - 1]) => Idle(s[j], s[j - 1])
    BY <2>1, <2>2, SimulationPass
  <2>4. s[j].remaining \in Nat /\ s[j - 1].remaining \in Nat
    BY <2>1, <2>3 DEF IsSimulation
  <2>5. ASSUME NEW i \in 0..j
        PROVE  /\ s[j].remaining <= s[i].remaining /\ s[i].remaining \in Nat
               /\ Ended(s[i]) => Idle(s[j], s[i])
    <3>1. CASE i = j
      BY <2>4, <3>1 DEF Idle
    <3>2. CASE i \in 0..(j - 1)
      <4>1. /\ s[j - 1].remaining <= s[i].remaining /\ s[i].remaining \in Nat
            /\ Ended(s[i]) => Idle(s[j - 1], s[i])
        BY <2>1, <3>2
      <4>2. Ended(s[i]) => Idle(s[j], s[i])
        BY <2>3, <4>1 DEF Ended, Idle
      <4> QED BY <2>3, <2>4, <4>1, <4>2
    <3> QED BY <2>1, <3>1, <3>2
  <2> QED BY <2>1, <2>3, <2>5 DEF PassedBy
<1>8. \A i \in 0..m : i \in T
  <2> HIDE DEF T
  <2> QED BY <1>2, <1>6, <1>7, LoopInduction
<1>9. m \in T
  BY <1>2, <1>8
<1>10. EndsWith(s, m)
  BY <1>8, <1>9 DEF Idle, PassedBy, EndsWith
<1> QED
  BY <1>10, <1>11 DEF m

(* The hints for one amount are accepted. *)
AcceptedFor(amount, maxIterations) ==
  LET hints == RedemptionHints(amount, price, maxIterations)
      run   == HintedRun(hints.truncatedARTHamount, hints, maxIterations)
      whole == HintedRun(amount, hints, maxIterations)
  IN  IF hints.reverts
      THEN whole.iterations = 0 /\ whole.remaining > 0 /\ ~whole.cancelled
      ELSE /\ ~run.cancelled
           /\ run.redeemed = hints.truncatedARTHamount
           /\ run.partial # NoHint =>
                ComputeNominalCR(run.collLeft, run.debtLeft) = hints.partialRedemptionHintNICR
           /\ hints.truncatedARTHamount < amount => whole.redeemed < amount

(* The invariants on which the hints rest. *)
HintInv ==
  /\ LedgerInv /\ ListInv /\ MinimumDebtKept /\ SnapshotsTogether /\ OrderedAtMCR
  /\ price \in Nat \ {0}

(* The troves that a redemption with the view's hint visits, in order.     *)
LEMMA HintedTroves ==
  ASSUME HintInv, NEW list, list = VisitedTroves(FirstHint(price), price)
  PROVE  /\ list \in Seq(ActiveTroves) /\ Len(list) \in Nat
         /\ AllRedeemable(list, price)
<1>1. LedgerInv /\ ListInv /\ OrderedAtMCR /\ price \in Nat \ {0}
  BY DEF HintInv
<1>2. list \in Seq(ActiveTroves)
  BY <1>1, VisitedAreActive
<1>3. /\ Len(list) \in Nat
      /\ \A i \in 1..Len(list) : list[i] \in ActiveTroves /\ list[i] \in ToSet(list)
  BY <1>2, ListFacts
<1>4. \A b \in ToSet(list) : CurrentICR(b, price) >= MCR
  BY <1>1, VisitedTrovesAreSafe
<1> QED
  BY <1>2, <1>3, <1>4 DEF AllRedeemable

(* The run redeems all that it should and leaves the ratio it should.      *)
RedeemsExactly(run, amount, nicr) ==
  /\ run.cancelled = FALSE /\ run.redeemed = amount
  /\ run.partial # NoHint => ComputeNominalCR(run.collLeft, run.debtLeft) = nicr

(* The redemption of the amount that the view returns.                     *)
LEMMA TruncatedIsRedeemed ==
  ASSUME HintInv, NEW amount \in Nat, NEW maxIterations \in Nat, NEW rest, NEW nicr,
         rest = Simulated(amount, price, maxIterations).remaining,
         nicr = Simulated(amount, price, maxIterations).partialNICR,
         NEW run,
         run = RedemptionRun(amount - rest, FirstHint(price), TRUE, maxIterations, price)
  PROVE  RedeemsExactly(run, amount - rest, nicr)
<1> DEFINE list == VisitedTroves(FirstHint(price), price)
           m == Len(list)
<1>1. LedgerInv /\ ListInv /\ MinimumDebtKept /\ SnapshotsTogether /\ price \in Nat \ {0}
  BY DEF HintInv
<1>2. list \in Seq(ActiveTroves) /\ m \in Nat /\ AllRedeemable(list, price)
  BY HintedTroves
<1>20. PICK s : IsSimulationOf(s, list, amount, maxIterations, price) /\ EndsWith(s, m)
  BY <1>1, <1>2, SimulationPasses
<1>3. /\ IsSimulationOf(s, list, amount, maxIterations, price)
      /\ \A i \in 0..m : /\ IsSimulation(s[i]) /\ s[m].remaining <= s[i].remaining
                         /\ Ended(s[i]) => s[m].remaining = s[i].remaining
  BY <1>20 DEF EndsWith
<1>4. /\ m \in Nat /\ 0 \in 0..m /\ m \in 0..m
      /\ \A i \in 1..m : list[i] \in ActiveTroves /\ CurrentICR(list[i], price) >= MCR
  BY <1>2 DEF AllRedeemable
<1>5. /\ s[0].remaining = amount /\ s[0].broken = FALSE
      /\ s[0].iterations = IF maxIterations = 0 THEN MaxUint ELSE maxIterations
  BY <1>3 DEF IsSimulationOf, NewSimulation
<1>6. s[m] = Simulated(amount, price, maxIterations)
  BY <1>3 DEF IsSimulationOf
<1>7. rest \in Nat /\ rest <= amount /\ amount - rest \in Nat
  <2>1. rest = s[m].remaining /\ s[m].remaining \in Nat /\ s[m].remaining <= amount
    BY <1>3, <1>4, <1>5, <1>6 DEF IsSimulation
  <2> QED BY <2>1
<1>8. PICK r : /\ IsRedemptionOf(r, list, amount - rest, FirstHint(price), TRUE,
                                 maxIterations, price)
               /\ \A i \in 0..m : AfterPass(r[i], i, list, amount - rest, price)
  BY <1>1, <1>7, RedemptionPasses
<1> HIDE DEF list, m
<1> DEFINE T == {i \in 0..m : Follows(r[i], s[i], rest)}
<1>9. 0 \in T
  <2>1. r[0] = NewRedemption(amount - rest, maxIterations)
    BY <1>8 DEF IsRedemptionOf
  <2>2. /\ r[0].remaining = amount - rest /\ r[0].cancelled = FALSE /\ r[0].partial = NoHint
        /\ r[0].iterations = IF maxIterations = 0 THEN MaxUint ELSE maxIterations
    BY <2>1 DEF NewRedemption
  <2> QED BY <1>4, <1>5, <2>2 DEF Follows
<1>10. ASSUME NEW i \in 1..m, i - 1 \in T PROVE i \in T
  <2>1. /\ i \in 0..m /\ i - 1 \in 0..m /\ list[i] \in ActiveTroves
        /\ CurrentICR(list[i], price) >= MCR
    BY <1>4
  <2>2. /\ r[i] = RedemptionStep(r[i - 1], list[i], price, TRUE)
        /\ s[i] = SimulationStep(s[i - 1], list[i], price)
    BY <1>3, <1>8 DEF IsRedemptionOf, IsSimulationOf, m
  <2>3. RedemptionBooks(r[i - 1], price) /\ IsSimulation(s[i - 1])
    BY <1>3, <1>8, <2>1 DEF AfterPass
  <2>4. /\ rest <= s[i].remaining
        /\ Ended(s[i]) => rest = s[i].remaining
        /\ Ended(s[i - 1]) => rest = s[i - 1].remaining
    BY <1>3, <1>6, <2>1
  <2>5. Follows(r[i - 1], s[i - 1], rest)
    BY <1>10
  <2>6. Follows(r[i], s[i], rest)
    BY <1>1, <1>7, <2>1, <2>2, <2>3, <2>4, <2>5, FollowsThePass
  <2> QED BY <2>1, <2>6
<1>11. \A i \in 0..m : i \in T
  <2> HIDE DEF T
  <2> QED BY <1>4, <1>9, <1>10, LoopInduction
<1>12. r[m] = run /\ Follows(run, s[m], rest)
  <2>1. r[m] = run
    BY <1>8 DEF IsRedemptionOf, m
  <2> QED BY <1>4, <1>11, <2>1
<1>13. /\ run.remaining = rest - rest /\ run.cancelled = FALSE
       /\ run.partial # NoHint => ComputeNominalCR(run.collLeft, run.debtLeft) = nicr
  BY <1>6, <1>12 DEF Follows
<1>14. run.remaining + run.redeemed = amount - rest /\ run.redeemed \in Nat
  BY <1>4, <1>8, <1>12 DEF AfterPass, RedemptionBooks, RedemptionRuns
<1>15. run.redeemed = amount - rest
  <2>1. \A x \in Nat : x - x = 0 /\ 0 + x = x
    OBVIOUS
  <2>2. run.remaining = 0
    BY <1>7, <1>13, <2>1
  <2>3. run.remaining + run.redeemed = run.redeemed
    BY <1>14, <2>1, <2>2
  <2> QED BY <1>14, <2>3
<1> QED
  BY <1>13, <1>15 DEF RedeemsExactly

(* When the view leaves a rest, so does the redemption; and when it has    *)
(* reverted, the cap has stopped the redemption as well.                   *)
FallsShort(run, amount, sim) ==
  /\ sim.remaining # 0 => run.redeemed < amount
  /\ sim.reverted \in BOOLEAN
  /\ sim.reverted = TRUE =>
       run.iterations = 0 /\ run.remaining > 0 /\ run.cancelled = FALSE

(* The redemption of the whole amount. *)
LEMMA RestIsNotRedeemed ==
  ASSUME HintInv, NEW amount \in Nat, NEW maxIterations \in Nat,
         NEW run, run = RedemptionRun(amount, FirstHint(price), TRUE, maxIterations, price)
  PROVE  FallsShort(run, amount, Simulated(amount, price, maxIterations))
<1> DEFINE list == VisitedTroves(FirstHint(price), price)
           m == Len(list)
<1>1. LedgerInv /\ ListInv /\ MinimumDebtKept /\ SnapshotsTogether /\ price \in Nat \ {0}
  BY DEF HintInv
<1>2. list \in Seq(ActiveTroves) /\ m \in Nat /\ AllRedeemable(list, price)
  BY HintedTroves
<1>20. PICK s : IsSimulationOf(s, list, amount, maxIterations, price) /\ EndsWith(s, m)
  BY <1>1, <1>2, SimulationPasses
<1>3. /\ IsSimulationOf(s, list, amount, maxIterations, price)
      /\ \A i \in 0..m : /\ IsSimulation(s[i]) /\ s[m].remaining <= s[i].remaining
                         /\ Ended(s[i]) => s[m].remaining = s[i].remaining
  BY <1>20 DEF EndsWith
<1>4. /\ m \in Nat /\ 0 \in 0..m /\ m \in 0..m
      /\ \A i \in 1..m : list[i] \in ActiveTroves /\ CurrentICR(list[i], price) >= MCR
  BY <1>2 DEF AllRedeemable
<1>5. PICK r : /\ IsRedemptionOf(r, list, amount, FirstHint(price), TRUE, maxIterations, price)
               /\ \A i \in 0..m : AfterPass(r[i], i, list, amount, price)
  BY <1>1, RedemptionPasses
<1> HIDE DEF list, m
<1> DEFINE T == {i \in 0..m : StopsWith(r[i], s[i])}
<1>6. 0 \in T
  <2>1. r[0] = NewRedemption(amount, maxIterations) /\ s[0] = NewSimulation(amount, maxIterations)
    BY <1>3, <1>5 DEF IsRedemptionOf, IsSimulationOf
  <2>2. /\ r[0].remaining = s[0].remaining /\ r[0].cancelled = FALSE
        /\ r[0].iterations = s[0].iterations /\ s[0].broken = FALSE
    BY <2>1 DEF NewRedemption, NewSimulation
  <2> QED BY <1>4, <2>2 DEF StopsWith
<1>7. ASSUME NEW i \in 1..m, i - 1 \in T PROVE i \in T
  <2>1. /\ i \in 0..m /\ i - 1 \in 0..m /\ list[i] \in ActiveTroves
        /\ CurrentICR(list[i], price) >= MCR
    BY <1>4
  <2>2. /\ r[i] = RedemptionStep(r[i - 1], list[i], price, TRUE)
        /\ s[i] = SimulationStep(s[i - 1], list[i], price)
    BY <1>3, <1>5 DEF IsRedemptionOf, IsSimulationOf, m
  <2>3. RedemptionBooks(r[i - 1], price) /\ IsSimulation(s[i - 1])
    BY <1>3, <1>5, <2>1 DEF AfterPass
  <2>4. StopsWith(r[i - 1], s[i - 1])
    BY <1>7
  <2>5. StopsWith(r[i], s[i])
    BY <1>1, <2>1, <2>2, <2>3, <2>4, StopsWithThePass
  <2> QED BY <2>1, <2>5
<1>8. \A i \in 0..m : i \in T
  <2> HIDE DEF T
  <2> QED BY <1>4, <1>6, <1>7, LoopInduction
<1>9. /\ r[m] = run
      /\ s[m] = Simulated(amount, price, maxIterations)
      /\ StopsWith(run, s[m]) /\ IsSimulation(s[m])
  <2>1. r[m] = run
    BY <1>5 DEF IsRedemptionOf, m
  <2>2. s[m] = Simulated(amount, price, maxIterations)
    BY <1>3 DEF IsSimulationOf, m
  <2> QED BY <1>3, <1>4, <1>8, <2>1, <2>2
<1>10. ASSUME s[m].remaining # 0 PROVE run.remaining > 0
  <2>1. s[m].remaining > 0 /\ (s[m].broken = TRUE \/ s[m].broken = FALSE)
    BY <1>9, <1>10 DEF IsSimulation
  <2> QED BY <1>9, <2>1 DEF StopsWith
<1>11. /\ run.remaining + run.redeemed = amount
       /\ run.redeemed \in Nat /\ run.remaining \in Nat
  BY <1>4, <1>5, <1>9 DEF AfterPass, RedemptionBooks, RedemptionRuns
<1>12. \A x, y \in Nat : x > 0 => y < x + y
  OBVIOUS
<1>13. FallsShort(run, amount, s[m])
  <2>1. s[m].reverted \in BOOLEAN
    BY <1>9 DEF IsSimulation
  <2>2. ASSUME s[m].reverted = TRUE
        PROVE  run.iterations = 0 /\ run.remaining > 0 /\ run.cancelled = FALSE
    <3>1. s[m].iterations = 0 /\ s[m].remaining # 0 /\ s[m].broken = FALSE
      BY <1>9, <2>2 DEF IsSimulation
    <3>2. run.iterations = 0 /\ run.cancelled = FALSE
      BY <1>9, <3>1 DEF StopsWith
    <3> QED BY <1>9, <1>10, <3>1, <3>2
  <2>3. s[m].remaining # 0 => run.redeemed < amount
    BY <1>10, <1>11, <1>12
  <2> QED BY <2>1, <2>2, <2>3 DEF FallsShort
<1> QED
  BY <1>9, <1>13

(* The two redemptions put together. *)
LEMMA HintsFit ==
  ASSUME HintInv, NEW amount \in Nat, NEW maxIterations \in Nat
  PROVE  AcceptedFor(amount, maxIterations)
<1> DEFINE hints == RedemptionHints(amount, price, maxIterations)
           sim == Simulated(amount, price, maxIterations)
           run == HintedRun(hints.truncatedARTHamount, hints, maxIterations)
           whole == HintedRun(amount, hints, maxIterations)
<1>1. /\ hints.firstRedemptionHint = FirstHint(price)
      /\ hints.partialRedemptionHintNICR = sim.partialNICR
      /\ hints.truncatedARTHamount = amount - sim.remaining
      /\ hints.reverts = sim.reverted
  BY HintsAreSimulated
<1>2. AcceptedFor(amount, maxIterations) <=>
        IF hints.reverts
        THEN whole.iterations = 0 /\ whole.remaining > 0 /\ ~whole.cancelled
        ELSE /\ ~run.cancelled
             /\ run.redeemed = hints.truncatedARTHamount
             /\ run.partial # NoHint =>
                  ComputeNominalCR(run.collLeft, run.debtLeft) = hints.partialRedemptionHintNICR
             /\ hints.truncatedARTHamount < amount => whole.redeemed < amount
  BY DEF AcceptedFor
<1> DEFINE rest == sim.remaining
           nicr == sim.partialNICR
<1>3. run = RedemptionRun(amount - rest, FirstHint(price), TRUE, maxIterations, price)
  BY <1>1 DEF HintedRun
<1>4. whole = RedemptionRun(amount, FirstHint(price), TRUE, maxIterations, price)
  BY <1>1 DEF HintedRun
<1>5. /\ rest = Simulated(amount, price, maxIterations).remaining
      /\ nicr = Simulated(amount, price, maxIterations).partialNICR
      /\ sim = Simulated(amount, price, maxIterations)
  OBVIOUS
<1>9. /\ hints.partialRedemptionHintNICR = nicr
      /\ hints.truncatedARTHamount = amount - rest
      /\ hints.reverts = sim.reverted
  BY <1>1
<1> HIDE DEF run, whole, rest, nicr, hints, sim
<1>6. RedeemsExactly(run, amount - rest, nicr)
  BY <1>3, <1>5, TruncatedIsRedeemed
<1>7. FallsShort(whole, amount, sim)
  BY <1>4, <1>5, RestIsNotRedeemed
<1>10. rest = sim.remaining
  BY DEF rest
<1>8. amount - rest < amount => rest # 0
  <2>1. \A x \in Nat : ~(x - 0 < x)
    OBVIOUS
  <2> QED BY <2>1
<1> QED
  BY <1>2, <1>6, <1>7, <1>8, <1>9, <1>10 DEF RedeemsExactly, FallsShort

(* The hints that HintHelpers.getRedemptionHints returns are accepted by   *)
(* redeemCollateral in the state that they were computed in, for every     *)
(* amount and number of iterations: exactly the truncated amount is        *)
(* redeemed, the trove redeemed in part is left with the ratio that the    *)
(* view has computed, and more could not have been redeemed.  The view     *)
(* reverts instead only when the cap that it was given stops the           *)
(* redemption of the whole amount too.  Conditions: the list is in order   *)
(* at MCR, and every redistribution moves collateral as well as debt, on   *)
(* which hasPendingRewards relies and the view does not.                   *)
THEOREM RedemptionHintsAreAccepted ==
  Spec /\ [][MovesBoth]_vars => [](OrderedAtMCR => HintsAreAccepted)
<1>1. ASSUME LedgerInv, BooksInv, DebtInv, OrderedAtMCR
      PROVE  HintsAreAccepted
  <2>1. HintInv
    BY <1>1 DEF HintInv, BooksInv, DebtInv, LedgerInv, LedgerTypeOK
  <2>2. RedeemAmounts \subseteq Nat /\ RedeemIterations \subseteq Nat
    BY InputAssumption
  <2>3. \A amount \in RedeemAmounts, maxIterations \in RedeemIterations :
          AcceptedFor(amount, maxIterations)
    BY <2>1, <2>2, HintsFit
  <2> QED BY <2>3 DEF AcceptedFor, HintsAreAccepted
<1>2. LedgerInv /\ BooksInv /\ DebtInv => (OrderedAtMCR => HintsAreAccepted)
  BY <1>1
<1> QED
  BY <1>2, PoolsHold, DebtHolds, PTL DEF Spec

------------------------------------------------------------------------------
(* The decay of the base rate. *)

(* The loop of _decPow is the one of the lemmas on powers.                 *)
LEMMA DecPowIsPower ==
  /\ IsSquaring(DECIMAL_PRECISION, Squaring)
  /\ \A x, n : DecPow(x, n) = CappedPower(DECIMAL_PRECISION, Squaring, MAX_MINUTES, x, n)
<1>1. Squaring = CHOOSE f : IsSquaring(DECIMAL_PRECISION, f)
  BY Zenon DEF Squaring, IsSquaring, DecMul, Rounded
<1>2. IsSquaring(DECIMAL_PRECISION, Squaring)
  BY <1>1, SquaringExists, PrecisionAssumption, Zenon
<1>3. \A x, n : DecPow(x, n) = CappedPower(DECIMAL_PRECISION, Squaring, MAX_MINUTES, x, n)
  BY Zenon DEF DecPow, CappedPower, MinOf
<1> QED
  BY <1>2, <1>3

(* The rate that is left of rate after some minutes.                       *)
RateAfter(rate, minutes) == (rate * DecPow(MINUTE_DECAY_FACTOR, minutes)) \div DECIMAL_PRECISION

(* A rate decays with every minute, never comes back up, and has become    *)
(* smaller after one.                                                      *)
LEMMA RateDecays ==
  ASSUME NEW rate \in Nat, NEW m \in Nat, NEW n \in Nat, m <= n
  PROVE  /\ RateAfter(rate, n) \in 0..RateAfter(rate, m)
         /\ RateAfter(rate, m) \in 0..rate
         /\ RateAfter(rate, 0) = rate
         /\ m >= 1 /\ rate > 0 => RateAfter(rate, m) < rate
<1> DEFINE D == DECIMAL_PRECISION
           F == MINUTE_DECAY_FACTOR
           p(k) == DecPow(F, k)
<1>1. D \in Nat \ {0} /\ MAX_MINUTES \in Nat /\ MAX_MINUTES >= 1 /\ F \in 0..D /\ F < D
  BY PrecisionAssumption, RateAssumption, DecayAssumption
<1>2. ASSUME NEW k \in Nat PROVE p(k) \in 0..D /\ (k >= 1 => p(k) <= F)
  BY <1>1, CappedPowerFacts, DecPowIsPower
<1>3. p(n) <= p(m)
  BY <1>1, CappedPowerFalls, DecPowIsPower
<1>4. p(0) = D
  BY <1>1 DEF DecPow, MinOf
<1> HIDE DEF p
<1>5. p(m) \in 0..D /\ p(n) \in 0..D /\ (m >= 1 => p(m) <= F)
  BY <1>2
<1>6. /\ RateAfter(rate, n) = (rate * p(n)) \div D
      /\ RateAfter(rate, m) = (rate * p(m)) \div D
      /\ RateAfter(rate, 0) = (rate * p(0)) \div D
  BY DEF RateAfter, p
<1> HIDE DEF D, F
<1>7. /\ rate * p(n) \in Nat /\ rate * p(m) \in Nat /\ rate * D \in Nat
      /\ rate * p(n) <= rate * p(m) /\ rate * p(m) <= rate * D
  <2>1. \A u, v \in Nat : u <= v => rate * u <= rate * v /\ rate * u \in Nat /\ rate * v \in Nat
    OBVIOUS
  <2> QED BY <1>1, <1>3, <1>5, <2>1
<1>8. (rate * D) \div D = rate
  BY <1>1
<1>9. /\ (rate * p(n)) \div D \in 0..((rate * p(m)) \div D)
      /\ (rate * p(m)) \div D \in 0..rate
  <2>1. /\ (rate * p(n)) \div D \in Nat /\ (rate * p(m)) \div D \in Nat
        /\ (rate * p(n)) \div D <= (rate * p(m)) \div D
        /\ (rate * p(m)) \div D <= (rate * D) \div D
    BY <1>1, <1>7, NatQuotient, QuotientGrows
  <2> QED BY <1>8, <2>1
<1>10. ASSUME m >= 1, rate > 0 PROVE (rate * p(m)) \div D < rate
  <2> DEFINE q == (rate * p(m)) \div D
  <2>1. q \in Nat /\ q * D <= rate * p(m)
    BY <1>1, <1>7, NatQuotient, FloorQuotient
  <2>2. rate * p(m) < rate * D
    <3>1. p(m) < D
      BY <1>1, <1>5, <1>10
    <3>2. \A u, v \in Nat : u < v => rate * u < rate * v
      BY <1>10
    <3> QED BY <1>1, <1>5, <3>1, <3>2
  <2> HIDE DEF q
  <2>3. q < rate
    <3> SUFFICES ASSUME rate <= q PROVE FALSE
      BY <2>1
    <3>1. rate * D <= q * D
      BY <1>1, <2>1
    <3> QED BY <1>1, <1>5, <1>7, <2>1, <2>2, <3>1
  <2> QED BY <2>3 DEF q
<1> QED
  BY <1>4, <1>6, <1>8, <1>9, <1>10

(* Time passes and the rate stays, or an operation with a fee stores the   *)
(* decayed rate, with the time now if a minute has passed.                 *)
DecayStep ==
  \/ UNCHANGED feeVars /\ now' \in Nat /\ now <= now'
  \/ baseRate' = DecayedBaseRate /\ lastFeeOperationTime' = NextFeeOpTime /\ now' = now

(* Such a step lets the rate decay.                                        *)
LEMMA DecayStepDecays ==
  ASSUME FeeInv, DecayStep
  PROVE  /\ DecayedBaseRate' <= DecayedBaseRate
         /\ lastFeeOperationTime' # lastFeeOperationTime /\ baseRate > 0 => baseRate' < baseRate
<1> DEFINE S == SECONDS_IN_ONE_MINUTE
           m == (now - lastFeeOperationTime) \div S
<1>1. /\ baseRate \in Nat /\ now \in Nat /\ lastFeeOperationTime \in Nat
      /\ lastFeeOperationTime <= now /\ S \in Nat \ {0}
  BY RateAssumption, PrecisionAssumption DEF FeeInv
<1>2. m \in Nat
  BY <1>1, NatQuotient
<1>3. /\ DecayedBaseRate = RateAfter(baseRate, m)
      /\ DecayedBaseRate' = RateAfter(baseRate', (now' - lastFeeOperationTime') \div S)
  BY DEF DecayedBaseRate, MinutesPassedSinceLastFeeOp, RateAfter
<1>4. CASE UNCHANGED feeVars /\ now' \in Nat /\ now <= now'
  <2>1. baseRate' = baseRate /\ lastFeeOperationTime' = lastFeeOperationTime
    BY <1>4 DEF feeVars
  <2>2. /\ (now' - lastFeeOperationTime) \div S \in Nat
        /\ m <= (now' - lastFeeOperationTime) \div S
    <3> HIDE DEF S
    <3>1. now' \in Nat /\ now <= now'
      BY <1>4
    <3>2. /\ now - lastFeeOperationTime \in Nat /\ now' - lastFeeOperationTime \in Nat
          /\ now - lastFeeOperationTime <= now' - lastFeeOperationTime
      <4>1. \A t, u, v \in Nat :
              t <= u /\ u <= v => u - t \in Nat /\ v - t \in Nat /\ u - t <= v - t
        OBVIOUS
      <4> QED BY <1>1, <3>1, <4>1
    <3> QED BY <1>1, <3>2, NatQuotient, QuotientGrows
  <2>3. RateAfter(baseRate, (now' - lastFeeOperationTime) \div S) <= RateAfter(baseRate, m)
    <3> HIDE DEF m, S
    <3>1. /\ RateAfter(baseRate, (now' - lastFeeOperationTime) \div S)
               \in 0..RateAfter(baseRate, m)
          /\ RateAfter(baseRate, m) \in 0..baseRate
      BY <1>1, <1>2, <2>2, RateDecays
    <3> QED BY <3>1
  <2> QED BY <1>3, <2>1, <2>3
<1>5. CASE baseRate' = DecayedBaseRate /\ lastFeeOperationTime' = NextFeeOpTime /\ now' = now
  <2>1. RateAfter(baseRate, m) \in 0..baseRate /\ RateAfter(baseRate, 0) = baseRate
    BY <1>1, <1>2, RateDecays
  <2>2. CASE now - lastFeeOperationTime >= S
    <3>1. lastFeeOperationTime' = now
      BY <1>5, <2>2 DEF NextFeeOpTime
    <3>2. 1 <= m
      BY <1>1, <2>2, QuotientAtLeast
    <3>3. (now' - lastFeeOperationTime') \div S = 0
      BY <1>1, <1>5, <3>1
    <3>4. baseRate' \in Nat
      BY <1>1, <1>3, <1>5, <2>1
    <3>5. RateAfter(baseRate', 0) = baseRate'
      BY <3>4, RateDecays
    <3>6. baseRate > 0 => RateAfter(baseRate, m) < baseRate
      BY <1>1, <1>2, <3>2, RateDecays
    <3> HIDE DEF m, S
    <3> QED BY <1>1, <1>3, <1>5, <2>1, <3>3, <3>4, <3>5, <3>6
  <2>3. CASE ~(now - lastFeeOperationTime >= S)
    <3>1. lastFeeOperationTime' = lastFeeOperationTime
      BY <1>5, <2>3 DEF NextFeeOpTime
    <3>2. m = 0
      BY <1>1, <2>3
    <3>3. baseRate' = baseRate
      BY <1>3, <1>5, <2>1, <3>2
    <3>4. DecayedBaseRate' = DecayedBaseRate
      BY <1>3, <1>5, <3>1, <3>3
    <3> QED BY <1>1, <1>3, <2>1, <3>1, <3>4
  <2> QED BY <2>2, <2>3
<1> QED
  BY <1>4, <1>5 DEF DecayStep
(* A redemption burns ARTH: it draws collateral, at the face value of the  *)
(* debt it redeems, and moves the clock or raises the rate.                *)
LEMMA RedemptionsAreRedemptions ==
  ASSUME LedgerInv, BooksInv, RedeemStep
  PROVE  totalSupply' < totalSupply /\ now' = now
<1>1. PICK redeemer \in Redeemers, amount \in RedeemAmounts, hint \in RedeemHints,
           hintIsFresh \in BOOLEAN, maxIterations \in RedeemIterations, maxFee \in MaxFees :
        RedeemCollateral(redeemer, amount, hint, hintIsFresh, maxIterations, maxFee)
  BY DEF RedeemStep
<1> DEFINE run == RedemptionRun(amount, hint, hintIsFresh, maxIterations, price)
<1>2. amount \in Nat /\ maxIterations \in Nat
  BY InputAssumption
<1>3. price \in Nat \ {0} /\ ListInv /\ MinimumDebtKept /\ totalSupply \in Nat
  BY DEF BooksInv, LedgerInv, LedgerTypeOK
<1>4. RedemptionBooks(run, price)
  BY <1>2, <1>3, RedemptionRunHolds
<1>5. /\ run.drawn > 0 /\ RedemptionArithmetic(run) /\ UNCHANGED envVars
      /\ totalSupply' = totalSupply - run.redeemed - ReserveOf(run)
  BY <1>1 DEF RedeemCollateral
<1> HIDE DEF run
<1>6. /\ run.redeemed \in Nat /\ run.drawn \in Nat /\ ReserveOf(run) \in Nat
      /\ run.drawn * price <= run.redeemed * DECIMAL_PRECISION
  BY <1>4, <1>5 DEF RedemptionBooks, RedemptionRuns, RedemptionArithmetic
<1>7. run.redeemed > 0
  <2> SUFFICES ASSUME run.redeemed = 0 PROVE FALSE
    BY <1>6
  <2>1. run.drawn * price > 0
    <3>1. \A u, v \in Nat : u > 0 /\ v > 0 => u * v > 0
      OBVIOUS
    <3> QED BY <1>3, <1>5, <1>6, <3>1
  <2>2. run.redeemed * DECIMAL_PRECISION = 0
    BY PrecisionAssumption
  <2> QED BY <1>3, <1>6, <2>1, <2>2
<1> QED
  BY <1>3, <1>5, <1>6, <1>7 DEF envVars

(* Of all other steps, those that charge a fee let the rate decay, and the *)
(* rest leave rate and clock alone.                                        *)
LEMMA NextDecays ==
  ASSUME LedgerInv, BooksInv, FeeInv, [Next]_vars, ~IsRedemption
  PROVE  DecayStep
<1>1. now \in Nat
  BY DEF FeeInv
<1>2. ASSUME UNCHANGED <<feeVars, now>>
      PROVE  DecayStep
  BY <1>1, <1>2 DEF DecayStep
<1>3. ASSUME NEW charged, DecayBaseRate(charged), now' = now
      PROVE  DecayStep
  BY <1>1, <1>3 DEF DecayStep, DecayBaseRate
<1>4. ASSUME NEW who, NEW recipient, Open(who, recipient)
      PROVE  DecayStep
  <2>1. PICK value \in Collaterals, amount \in OpenAmounts, maxFee \in MaxFees,
             tag \in frontEnds \cup {NoFrontEnd} :
          OpenTrove(who, recipient, value, amount, maxFee, tag)
    BY <1>4 DEF Open
  <2>2. DecayBaseRate(~InRecoveryMode(price)) /\ now' = now
    BY <2>1 DEF OpenTrove, BOUnchanged, envVars
  <2> QED BY <1>3, <2>2
<1>5. ASSUME NEW b, NEW value, NEW withdrawal, NEW change, NEW isDebtIncrease, NEW maxFee,
             AdjustTrove(b, value, withdrawal, change, isDebtIncrease, maxFee)
      PROVE  DecayStep
  <2>1. DecayBaseRate(isDebtIncrease /\ ~InRecoveryMode(price)) /\ now' = now
    BY <1>5 DEF AdjustTrove, BOUnchanged, envVars
  <2> QED BY <1>3, <2>1
<1>6. CASE BorrowerStep
  <2>1. PICK b \in Borrowers : \/ OpenForSelf(b) \/ OpenForOther(b) \/ Adjust(b)
                               \/ Close(b) \/ Claim(b)
    BY <1>6 DEF BorrowerStep
  <2>2. CASE OpenForSelf(b) \/ OpenForOther(b)
    BY <1>4, <2>2 DEF OpenForSelf, OpenForOther
  <2>3. CASE Adjust(b)
    BY <1>5, <2>3 DEF Adjust
  <2>4. CASE Close(b) \/ Claim(b)
    <3>1. UNCHANGED <<feeVars, now>>
      BY <2>4 DEF Close, CloseTrove, Claim, ClaimCollateral, BOUnchanged, envVars
    <3> QED BY <1>2, <3>1
  <2> QED BY <2>1, <2>2, <2>3, <2>4
<1>7. CASE PoolStep
  <2>1. CASE \E b \in Borrowers : GainToTrove(b)
    BY <1>5, <2>1 DEF GainToTrove, WithdrawETHGainToTrove
  <2>2. CASE (\E a \in Borrowers \cup {Owner} : Deposit(a)) \/ (\E b \in Borrowers : Withdraw(b))
    <3>1. UNCHANGED <<feeVars, now>>
      BY <2>2 DEF Deposit, ProvideToSP, Withdraw, WithdrawFromSP, PoolCallUnchanged, coreRest,
                  envVars
    <3> QED BY <1>2, <3>1
  <2> QED BY <1>7, <2>1, <2>2 DEF PoolStep
<1>8. CASE LiquidateStep
  <2>1. UNCHANGED <<feeVars, now>>
    BY <1>8 DEF LiquidateStep, LiquidateTroves, BatchLiquidateTroves, Liquidate,
                ApplyLiquidation, coreRest, envVars
  <2> QED BY <1>2, <2>1
<1>9. CASE RedeemStep
  <2>1. totalSupply' < totalSupply /\ now' = now
    BY <1>9, RedemptionsAreRedemptions
  <2>2. UNCHANGED feeVars
    BY <2>1 DEF IsRedemption
  <2> QED BY <1>2, <2>1, <2>2
<1>10. CASE GovernanceStep
  <2>1. UNCHANGED <<feeVars, now>>
    BY <1>10 DEF GovernanceStep, Register, RegisterFrontEnd, BOUnchanged, SetAllowMinting,
                 SetMaxDebtCeiling, ledgers, envVars
  <2> QED BY <1>2, <2>1
<1>11. CASE EnvironmentStep
  <2>1. UNCHANGED feeVars
    BY <1>11 DEF EnvironmentStep, AnyTransfer, Transfer, coreRest, SetPrice, Tick, ledgers
  <2>2. now' \in Nat /\ now' >= now
    BY <1>11, InputAssumption
       DEF EnvironmentStep, AnyTransfer, Transfer, SetPrice, Tick, envVars, FeeInv
  <2> QED BY <1>1, <2>1, <2>2 DEF DecayStep
<1>12. CASE UNCHANGED vars
  BY <1>2, <1>12 DEF vars, envVars
<1> QED
  BY <1>6, <1>7, <1>8, <1>9, <1>10, <1>11, <1>12 DEF Next

(* Only a redemption raises the base rate that borrowers pay, and whoever  *)
(* restarts the clock of its decay has first applied at least one minute   *)
(* of it: for every decay factor below one, however the squarings of       *)
(* _decPow are rounded (TroveManager.sol, decayBaseRateFromBorrowing and   *)
(* _updateLastFeeOpTime).                                                  *)
THEOREM BaseRateAlwaysDecays == Spec => BaseRateOnlyDecays
<1>1. ASSUME LedgerInv, BooksInv, FeeInv, [Next]_vars, ~IsRedemption
      PROVE  /\ DecayedBaseRate' <= DecayedBaseRate
             /\ lastFeeOperationTime' # lastFeeOperationTime /\ baseRate > 0
                  => baseRate' < baseRate
  BY <1>1, NextDecays, DecayStepDecays
<1>2. LedgerInv /\ BooksInv /\ FeeInv /\ [Next]_vars =>
        [~IsRedemption =>
           /\ DecayedBaseRate' <= DecayedBaseRate
           /\ lastFeeOperationTime' # lastFeeOperationTime /\ baseRate > 0
                => baseRate' < baseRate]_vars
  BY <1>1
<1> QED
  BY <1>2, BooksHold, TokenHolds, PTL DEF Spec, BaseRateOnlyDecays
==============================================================================
