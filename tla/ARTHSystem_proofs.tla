-------------------------- MODULE ARTHSystem_proofs --------------------------
(***************************************************************************)
(* Theorems on one deployment of the protocol, for every set of borrowers, *)
(* every parameter that meets the assumptions of the modules and calls     *)
(* with any of the amounts the constants allow.                            *)
(*                                                                         *)
(* The first part is about the ledgers: amounts are never negative, and    *)
(* the issued tokens are owed.  What it uses of a loop's result is what    *)
(* the contracts check themselves when they settle it: no unsigned         *)
(* subtraction is negative (LiquidationArithmetic, RedemptionArithmetic).  *)
(* The second part is about the books - the owners' array, the sorted      *)
(* list, the statuses and the stakes agree, whatever mixture of calls went *)
(* before - and follows the loops of liquidations and redemptions: what a  *)
(* loop leaves behind is proved by induction over the troves it visited.   *)
(***************************************************************************)
EXTENDS ARTHProperties, HintHelpers, DataLemmas

ledgerVars == <<Troves, rewardSnapshots, L, lastError, totalStakes, systemSnapshots,
                activePool, defaultPool, stabilityPool, collSurplusPool, totalSupply,
                price, frontEnds>>

TroveType == [status : Statuses, debt : Nat, coll : Nat, stake : Nat,
              frontEndTag : Accounts \cup {NoFrontEnd}]

------------------------------------------------------------------------------
(* What the views return in a state of the invariant. *)

(* Pending rewards are amounts: the snapshots stay behind L. *)
LEMMA PendingRewardsAreAmounts ==
  ASSUME LedgerInv, NEW b \in Borrowers
  PROVE  PendingETHReward(b) \in Nat /\ PendingARTHDebtReward(b) \in Nat
<1>1. Troves[b].stake \in Nat
  BY DEF LedgerInv, LedgerTypeOK
<1>2. /\ L.ETH - rewardSnapshots[b].ETH \in Nat
      /\ L.ARTHDebt - rewardSnapshots[b].ARTHDebt \in Nat
  BY DEF LedgerInv, LedgerTypeOK, SnapshotsBehindL, PoolType
<1>3. /\ Troves[b].stake * (L.ETH - rewardSnapshots[b].ETH) \in Nat
      /\ Troves[b].stake * (L.ARTHDebt - rewardSnapshots[b].ARTHDebt) \in Nat
  BY <1>1, <1>2, NatProduct
<1> QED
  BY <1>3, NatQuotient, PrecisionAssumption DEF PendingETHReward, PendingARTHDebtReward

(* What _applyPendingRewards makes of a trove. *)
LEMMA AppliedRewardsTyped ==
  ASSUME LedgerInv, NEW b \in Borrowers
  PROVE  LET trove == ApplyPendingRewards(b)
         IN  /\ trove.coll \in Nat /\ trove.debt \in Nat
             /\ trove.movedETH \in Nat /\ trove.movedDebt \in Nat
             /\ trove.snapshot \in PoolType
             /\ trove.snapshot.ETH <= L.ETH /\ trove.snapshot.ARTHDebt <= L.ARTHDebt
<1>1. PendingETHReward(b) \in Nat /\ PendingARTHDebtReward(b) \in Nat
  BY PendingRewardsAreAmounts
<1>2. Troves[b].coll \in Nat /\ Troves[b].debt \in Nat
  BY DEF LedgerInv, LedgerTypeOK
<1>3. EntireColl(b) \in Nat /\ EntireDebt(b) \in Nat
  BY <1>1, <1>2 DEF EntireColl, EntireDebt
<1>4. /\ L \in PoolType /\ L.ETH <= L.ETH /\ L.ARTHDebt <= L.ARTHDebt
      /\ rewardSnapshots[b] \in PoolType
      /\ rewardSnapshots[b].ETH <= L.ETH /\ rewardSnapshots[b].ARTHDebt <= L.ARTHDebt
  BY DEF LedgerInv, LedgerTypeOK, SnapshotsBehindL, PoolType
<1> QED
  BY <1>1, <1>2, <1>3, <1>4 DEF ApplyPendingRewards

(* The stake of a trove is an amount. *)
LEMMA StakeIsAmount ==
  ASSUME LedgerInv, NEW coll \in Nat
  PROVE  NewStake(coll) \in Nat
<1>1. systemSnapshots.coll \in Nat /\ systemSnapshots.stakes \in Nat
  BY DEF LedgerInv, LedgerTypeOK
<1> QED
  BY <1>1, NatProduct, NatQuotient DEF NewStake

(* A fee that the borrower has accepted is an amount. *)
LEMMA FeeIsAmount ==
  ASSUME NEW amount \in Nat, DecayedBaseRate \in 0..DECIMAL_PRECISION
  PROVE  BorrowingFee(amount) \in Nat
<1>1. DecayedBaseRate \in Nat /\ BORROWING_FEE_FLOOR \in Nat /\ MAX_BORROWING_FEE \in Nat
  BY PrecisionAssumption, RateAssumption
<1>2. BorrowingRate(DecayedBaseRate) \in Nat
  BY <1>1 DEF BorrowingRate, MinOf
<1> QED
  BY <1>2, NatProduct, NatQuotient, PrecisionAssumption DEF BorrowingFee

(* What leaves the ledgers alone keeps the invariant. *)
LEMMA LedgersUnchanged ==
  ASSUME LedgerInv, UNCHANGED ledgerVars
  PROVE  LedgerInv'
  BY DEF LedgerInv, LedgerTypeOK, SnapshotsBehindL, SupplyEqualsDebt, EntireSystemDebt,
         ledgerVars, PoolType

------------------------------------------------------------------------------
(* Every action keeps the invariant of the ledgers. *)

(* openTrove and openTroveFor. *)
LEMMA OpenKeepsLedgers ==
  ASSUME LedgerInv, NEW who \in Borrowers, NEW recipient, Open(who, recipient)
  PROVE  LedgerInv'
<1>1. PICK value \in Collaterals, amount \in OpenAmounts, maxFee \in MaxFees,
           tag \in frontEnds \cup {NoFrontEnd} :
        OpenTrove(who, recipient, value, amount, maxFee, tag)
  BY DEF Open
<1> DEFINE recovery == InRecoveryMode(price)
           fee == IF recovery THEN 0 ELSE BorrowingFee(amount)
           debt == CompositeDebt(amount + fee)
           trove == [status |-> "active", debt |-> debt, coll |-> value,
                     stake |-> NewStake(value), frontEndTag |-> tag]
<1>2. value \in Nat /\ amount \in Nat /\ ARTH_GAS_COMPENSATION \in Nat
  BY InputAssumption, DebtAssumption
<1>3. recovery \/ BorrowingFeeAccepted(amount, maxFee)
  BY <1>1 DEF OpenTrove
<1>4. fee \in Nat
  <2>1. CASE recovery
    BY <2>1
  <2>2. CASE ~recovery
    BY <2>2, <1>2, <1>3, FeeIsAmount DEF BorrowingFeeAccepted
  <2> QED
    BY <2>1, <2>2
<1>5. debt \in Nat /\ debt = fee + amount + ARTH_GAS_COMPENSATION
  BY <1>2, <1>4 DEF CompositeDebt
<1>6. NewStake(value) \in Nat
  BY <1>2, StakeIsAmount
<1>7. tag \in Accounts \cup {NoFrontEnd}
  BY DEF LedgerInv, Accounts
<1>8. /\ Troves' = [Troves EXCEPT ![who] = trove]
      /\ rewardSnapshots' = [rewardSnapshots EXCEPT ![who] = L]
      /\ totalStakes' = totalStakes + NewStake(value)
      /\ activePool' = [ETH |-> activePool.ETH + value,
                        ARTHDebt |-> activePool.ARTHDebt + debt]
      /\ totalSupply' = totalSupply + fee + amount + ARTH_GAS_COMPENSATION
      /\ UNCHANGED <<frontEnds, defaultPool, stabilityPool, collSurplusPool, L,
                     lastError, systemSnapshots, price>>
  BY <1>1 DEF OpenTrove, BOUnchanged, rewardVars, envVars
<1>9. trove \in TroveType
  BY <1>2, <1>5, <1>6, <1>7 DEF TroveType, Statuses
<1> HIDE DEF fee, debt, trove, recovery
<1>10. LedgerTypeOK'
  BY <1>2, <1>4, <1>5, <1>6, <1>8, <1>9
     DEF LedgerInv, LedgerTypeOK, TroveType, PoolType
<1>11. SnapshotsBehindL'
  BY <1>8 DEF LedgerInv, LedgerTypeOK, SnapshotsBehindL, PoolType
<1>12. SupplyEqualsDebt'
  BY <1>2, <1>4, <1>5, <1>8
     DEF LedgerInv, LedgerTypeOK, SupplyEqualsDebt, EntireSystemDebt, PoolType
<1> QED
  BY <1>8, <1>10, <1>11, <1>12 DEF LedgerInv

(* What an adjustment does to the ledgers; the collateral changes by       *)
(* collDelta and the debt by debtDelta.                                    *)
Adjusted(b, collDelta, debtDelta) ==
  LET trove == ApplyPendingRewards(b)
  IN  /\ collDelta \in Int /\ debtDelta \in Int
      /\ trove.coll + collDelta \in Nat /\ trove.debt + debtDelta \in Nat
      /\ AdjustArithmetic(b, trove, collDelta, debtDelta)
      /\ Troves' = [Troves EXCEPT ![b] =
           [@ EXCEPT !.debt = trove.debt + debtDelta, !.coll = trove.coll + collDelta,
                     !.stake = NewStake(trove.coll + collDelta)]]
      /\ rewardSnapshots' = [rewardSnapshots EXCEPT ![b] = trove.snapshot]
      /\ totalStakes' = totalStakes - Troves[b].stake
                          + NewStake(trove.coll + collDelta)
      /\ activePool' = [ETH |-> activePool.ETH + trove.movedETH + collDelta,
                        ARTHDebt |-> activePool.ARTHDebt + trove.movedDebt + debtDelta]
      /\ defaultPool' = [ETH |-> defaultPool.ETH - trove.movedETH,
                         ARTHDebt |-> defaultPool.ARTHDebt - trove.movedDebt]
      /\ totalSupply' = totalSupply + debtDelta
      /\ UNCHANGED <<frontEnds, collSurplusPool, L, lastError, systemSnapshots, price>>

(* The debt that _adjustTrove records is the ARTH it mints or burns.       *)
LEMMA AdjustmentOfLedgers ==
  ASSUME LedgerInv, NEW b \in Borrowers, NEW value \in Nat, NEW withdrawal \in Nat,
         NEW change \in Nat, NEW isDebtIncrease \in BOOLEAN, NEW maxFee,
         AdjustTrove(b, value, withdrawal, change, isDebtIncrease, maxFee)
  PROVE  \E collDelta, debtDelta \in Int : Adjusted(b, collDelta, debtDelta)
<1> DEFINE recovery == InRecoveryMode(price)
           charged == isDebtIncrease /\ ~recovery
           trove == ApplyPendingRewards(b)
           fee == IF charged THEN BorrowingFee(change) ELSE 0
           collDelta == IF value # 0 THEN value ELSE -withdrawal
           debtDelta == IF isDebtIncrease THEN change + fee ELSE -change
           minted == IF isDebtIncrease THEN change ELSE -change
<1>1. charged => BorrowingFeeAccepted(change, maxFee)
  BY DEF AdjustTrove
<1>2. fee \in Nat
  <2>1. CASE charged
    BY <2>1, <1>1, FeeIsAmount DEF BorrowingFeeAccepted
  <2>2. CASE ~charged
    BY <2>2
  <2> QED
    BY <2>1, <2>2
<1>3. collDelta \in Int /\ debtDelta \in Int /\ minted \in Int
  BY <1>2
<1>4. fee + minted = debtDelta
  <2>1. CASE isDebtIncrease
    BY <2>1, <1>2
  <2>2. CASE ~isDebtIncrease
    BY <2>2
  <2> QED
    BY <2>1, <2>2
<1>5. /\ trove.coll + collDelta >= 0 /\ trove.debt + debtDelta >= 0
      /\ AdjustArithmetic(b, trove, collDelta, debtDelta)
      /\ Troves' = [Troves EXCEPT ![b] =
           [@ EXCEPT !.debt = trove.debt + debtDelta, !.coll = trove.coll + collDelta,
                     !.stake = NewStake(trove.coll + collDelta)]]
      /\ rewardSnapshots' = [rewardSnapshots EXCEPT ![b] = trove.snapshot]
      /\ totalStakes' = totalStakes - Troves[b].stake
                          + NewStake(trove.coll + collDelta)
      /\ activePool' = [ETH |-> activePool.ETH + trove.movedETH + collDelta,
                        ARTHDebt |-> activePool.ARTHDebt + trove.movedDebt + debtDelta]
      /\ defaultPool' = [ETH |-> defaultPool.ETH - trove.movedETH,
                         ARTHDebt |-> defaultPool.ARTHDebt - trove.movedDebt]
      /\ totalSupply' = totalSupply + fee + minted
      /\ UNCHANGED <<frontEnds, collSurplusPool, L, lastError, systemSnapshots, price>>
  BY DEF AdjustTrove, BOUnchanged, rewardVars, envVars
<1>6. trove.coll \in Nat /\ trove.debt \in Nat
  BY AppliedRewardsTyped
<1>7. totalSupply \in Nat
  BY DEF LedgerInv, LedgerTypeOK
<1> HIDE DEF fee, debtDelta, collDelta, minted, charged, recovery, trove
<1>8. /\ trove.coll + collDelta \in Nat /\ trove.debt + debtDelta \in Nat
      /\ totalSupply' = totalSupply + debtDelta
  BY <1>2, <1>3, <1>4, <1>5, <1>6, <1>7
<1>9. Adjusted(b, collDelta, debtDelta)
  BY <1>3, <1>5, <1>8 DEF Adjusted, trove
<1> QED
  BY <1>3, <1>9

(* An adjustment keeps the invariant. *)
LEMMA AdjustedKeepsLedgers ==
  ASSUME LedgerInv, NEW b \in Borrowers, NEW collDelta \in Int, NEW debtDelta \in Int,
         Adjusted(b, collDelta, debtDelta),
         stabilityPool' \in [ETH : Nat, totalARTHDeposits : Nat]
  PROVE  LedgerInv'
<1> DEFINE trove == ApplyPendingRewards(b)
           stake == NewStake(trove.coll + collDelta)
<1>1. /\ trove.coll \in Nat /\ trove.debt \in Nat
      /\ trove.movedETH \in Nat /\ trove.movedDebt \in Nat
      /\ trove.snapshot \in PoolType
      /\ trove.snapshot.ETH <= L.ETH /\ trove.snapshot.ARTHDebt <= L.ARTHDebt
  BY AppliedRewardsTyped
<1>2. trove.coll + collDelta \in Nat /\ trove.debt + debtDelta \in Nat
  BY DEF Adjusted
<1>3. stake \in Nat
  BY <1>2, StakeIsAmount
<1>4. /\ Troves[b].stake <= totalStakes
      /\ trove.movedETH <= defaultPool.ETH /\ trove.movedDebt <= defaultPool.ARTHDebt
      /\ activePool.ETH + trove.movedETH + collDelta >= 0
      /\ activePool.ARTHDebt + trove.movedDebt + debtDelta >= 0
      /\ Troves' = [Troves EXCEPT ![b] =
           [@ EXCEPT !.debt = trove.debt + debtDelta, !.coll = trove.coll + collDelta,
                     !.stake = stake]]
      /\ rewardSnapshots' = [rewardSnapshots EXCEPT ![b] = trove.snapshot]
      /\ totalStakes' = totalStakes - Troves[b].stake + stake
      /\ activePool' = [ETH |-> activePool.ETH + trove.movedETH + collDelta,
                        ARTHDebt |-> activePool.ARTHDebt + trove.movedDebt + debtDelta]
      /\ defaultPool' = [ETH |-> defaultPool.ETH - trove.movedETH,
                         ARTHDebt |-> defaultPool.ARTHDebt - trove.movedDebt]
      /\ totalSupply' = totalSupply + debtDelta
      /\ UNCHANGED <<frontEnds, collSurplusPool, L, lastError, systemSnapshots, price>>
  BY DEF Adjusted, AdjustArithmetic
<1> HIDE DEF trove, stake
<1>5. /\ Troves \in [Borrowers -> TroveType] /\ Troves[b].stake \in Nat
      /\ totalStakes \in Nat /\ activePool \in PoolType /\ defaultPool \in PoolType
      /\ totalSupply \in Nat /\ totalSupply = activePool.ARTHDebt + defaultPool.ARTHDebt
  BY DEF LedgerInv, LedgerTypeOK, TroveType, SupplyEqualsDebt, EntireSystemDebt
<1>6. activePool' \in PoolType /\ defaultPool' \in PoolType
  BY <1>1, <1>4, <1>5 DEF PoolType
<1>7. SupplyEqualsDebt'
  BY <1>1, <1>4, <1>5 DEF SupplyEqualsDebt, EntireSystemDebt, PoolType
<1>8. totalSupply' \in Nat
  BY <1>6, <1>7 DEF SupplyEqualsDebt, EntireSystemDebt, PoolType
<1>9. Troves' \in [Borrowers -> TroveType]
  BY <1>2, <1>3, <1>4, <1>5 DEF TroveType
<1>10. totalStakes' \in Nat
  BY <1>3, <1>4, <1>5
<1>11. LedgerTypeOK'
  BY <1>1, <1>4, <1>6, <1>8, <1>9, <1>10 DEF LedgerInv, LedgerTypeOK, TroveType
<1>12. SnapshotsBehindL'
  BY <1>1, <1>4 DEF LedgerInv, LedgerTypeOK, SnapshotsBehindL, PoolType
<1> QED
  BY <1>4, <1>7, <1>11, <1>12 DEF LedgerInv

(* addColl, withdrawColl, withdrawARTH, repayARTH, adjustTrove. *)
LEMMA AdjustKeepsLedgers ==
  ASSUME LedgerInv, NEW b \in Borrowers, Adjust(b)
  PROVE  LedgerInv'
<1>1. PICK value \in CollChanges \cup {0}, withdrawal \in CollChanges \cup {0},
           change \in DebtChanges \cup {0}, isDebtIncrease \in BOOLEAN, maxFee \in MaxFees :
        AdjustTrove(b, value, withdrawal, change, isDebtIncrease, maxFee)
  BY DEF Adjust
<1>2. value \in Nat /\ withdrawal \in Nat /\ change \in Nat
  BY InputAssumption
<1>3. stabilityPool' \in [ETH : Nat, totalARTHDeposits : Nat]
  BY DEF Adjust, LedgerInv, LedgerTypeOK
<1> QED
  BY <1>1, <1>2, <1>3, AdjustmentOfLedgers, AdjustedKeepsLedgers

(* withdrawETHGainToTrove: the gain leaves the Stability Pool. *)
LEMMA GainToTroveKeepsLedgers ==
  ASSUME LedgerInv, NEW b \in Borrowers, GainToTrove(b)
  PROVE  LedgerInv'
<1>1. PICK gain : WithdrawETHGainToTrove(b, gain)
  BY DEF GainToTrove
<1>2. stabilityPool \in [ETH : Nat, totalARTHDeposits : Nat]
  BY DEF LedgerInv, LedgerTypeOK
<1>3. gain \in 1..stabilityPool.ETH /\ gain \in Nat
  BY <1>1, <1>2 DEF WithdrawETHGainToTrove
<1>4. stabilityPool' \in [ETH : Nat, totalARTHDeposits : Nat]
  BY <1>1, <1>2, <1>3 DEF WithdrawETHGainToTrove
<1>5. AdjustTrove(b, gain, 0, 0, FALSE, 0)
  BY <1>1 DEF WithdrawETHGainToTrove
<1> QED
  BY <1>3, <1>4, <1>5, AdjustmentOfLedgers, AdjustedKeepsLedgers

(* closeTrove: the reserve is burnt with the rest of the debt. *)
LEMMA CloseKeepsLedgers ==
  ASSUME LedgerInv, NEW b \in Borrowers, CloseTrove(b)
  PROVE  LedgerInv'
<1> DEFINE trove == ApplyPendingRewards(b)
           closed == ClosedTrove(b, "closedByOwner")
<1>1. /\ trove.coll \in Nat /\ trove.debt \in Nat
      /\ trove.movedETH \in Nat /\ trove.movedDebt \in Nat
  BY AppliedRewardsTyped
<1>2. /\ Troves[b].stake <= totalStakes
      /\ trove.movedETH <= defaultPool.ETH /\ trove.movedDebt <= defaultPool.ARTHDebt
      /\ activePool.ETH + trove.movedETH + -trove.coll >= 0
      /\ activePool.ARTHDebt + trove.movedDebt + -trove.debt >= 0
      /\ Troves' = [Troves EXCEPT ![b] = closed]
      /\ rewardSnapshots' = [rewardSnapshots EXCEPT ![b] = ZeroSnapshot]
      /\ totalStakes' = totalStakes - Troves[b].stake
      /\ activePool' = [ETH |-> activePool.ETH + trove.movedETH - trove.coll,
                        ARTHDebt |-> activePool.ARTHDebt + trove.movedDebt - trove.debt]
      /\ defaultPool' = [ETH |-> defaultPool.ETH - trove.movedETH,
                         ARTHDebt |-> defaultPool.ARTHDebt - trove.movedDebt]
      /\ totalSupply' = totalSupply - trove.debt
      /\ UNCHANGED <<frontEnds, collSurplusPool, stabilityPool, L, lastError,
                     systemSnapshots, price>>
  BY DEF CloseTrove, AdjustArithmetic, BOUnchanged, rewardVars, envVars
<1>3. closed \in TroveType
  BY ZenonT(30) DEF LedgerInv, LedgerTypeOK, TroveType, ClosedTrove, Statuses
<1> HIDE DEF trove, closed
<1>4. /\ Troves \in [Borrowers -> TroveType] /\ Troves[b].stake \in Nat
      /\ totalStakes \in Nat /\ activePool \in PoolType /\ defaultPool \in PoolType
      /\ totalSupply = activePool.ARTHDebt + defaultPool.ARTHDebt
  BY DEF LedgerInv, LedgerTypeOK, TroveType, SupplyEqualsDebt, EntireSystemDebt
<1>5. activePool' \in PoolType /\ defaultPool' \in PoolType
  BY <1>1, <1>2, <1>4 DEF PoolType
<1>6. SupplyEqualsDebt'
  BY <1>1, <1>2, <1>4 DEF SupplyEqualsDebt, EntireSystemDebt, PoolType
<1>7. totalSupply' \in Nat
  BY <1>5, <1>6 DEF SupplyEqualsDebt, EntireSystemDebt, PoolType
<1>8. Troves' \in [Borrowers -> TroveType] /\ totalStakes' \in Nat
  BY <1>2, <1>3, <1>4
<1>9. LedgerTypeOK'
  BY <1>2, <1>5, <1>7, <1>8
     DEF LedgerInv, LedgerTypeOK, TroveType, ZeroSnapshot, PoolType
<1>10. SnapshotsBehindL'
  BY <1>2 DEF LedgerInv, LedgerTypeOK, SnapshotsBehindL, ZeroSnapshot, PoolType
<1> QED
  BY <1>2, <1>6, <1>9, <1>10 DEF LedgerInv

(* What liquidates settles: the ledgers before and after its loop. *)
LEMMA LiquidationKeepsLedgers ==
  ASSUME LedgerInv, NEW run, NEW liquidator, ApplyLiquidation(run, liquidator),
         UNCHANGED frontEnds
  PROVE  LedgerInv'
<1> DEFINE t == run.totals
           closed == Closed(run)
<1>1. LiquidationArithmetic(run)
  BY DEF ApplyLiquidation
<1>2. /\ t.debtToOffset \in Nat /\ t.collToSendToSP \in Nat
      /\ t.debtToRedistribute \in Nat /\ t.collToRedistribute \in Nat
      /\ t.collSurplus \in Nat /\ t.collGasCompensation \in Nat
      /\ run.movedETH \in Nat /\ run.movedDebt \in Nat /\ run.stakes \in Nat
      /\ \A b \in Borrowers : run.surplus[b] \in Nat
  BY <1>1 DEF LiquidationArithmetic, LiquidationTotals
<1>3. /\ run.stakes <= totalStakes
      /\ t.debtToRedistribute > 0 => run.stakes < totalStakes
      /\ t.debtToOffset <= stabilityPool.totalARTHDeposits
      /\ run.movedETH <= defaultPool.ETH /\ run.movedDebt <= defaultPool.ARTHDebt
      /\ ActivePoolAfter(run).ETH >= 0 /\ ActivePoolAfter(run).ARTHDebt >= 0
  BY <1>1 DEF LiquidationArithmetic
<1>4. /\ Troves' = [b \in Borrowers |->
           IF b \in closed THEN ClosedTrove(b, "closedByLiquidation") ELSE Troves[b]]
      /\ rewardSnapshots' = [b \in Borrowers |->
           IF b \in closed THEN ZeroSnapshot ELSE rewardSnapshots[b]]
      /\ totalStakes' = totalStakes - run.stakes
      /\ Redistribute(run)
      /\ activePool' = ActivePoolAfter(run)
      /\ defaultPool' = DefaultPoolAfter(run)
      /\ stabilityPool' = [ETH |-> stabilityPool.ETH + CollToSP(t),
                           totalARTHDeposits |->
                             stabilityPool.totalARTHDeposits - t.debtToOffset]
      /\ collSurplusPool' = [ETH |-> collSurplusPool.ETH + t.collSurplus,
                             balances |-> [b \in Borrowers |->
                               collSurplusPool.balances[b] + run.surplus[b]]]
      /\ systemSnapshots' =
           [stakes |-> totalStakes - run.stakes,
            coll   |-> ActivePoolAfter(run).ETH + DefaultPoolAfter(run).ETH]
      /\ totalSupply' = totalSupply - t.debtToOffset
      /\ price' = price
  BY DEF ApplyLiquidation, envVars
<1>5. /\ Troves \in [Borrowers -> TroveType]
      /\ totalStakes \in Nat /\ activePool \in PoolType /\ defaultPool \in PoolType
      /\ stabilityPool \in [ETH : Nat, totalARTHDeposits : Nat]
      /\ collSurplusPool \in [ETH : Nat, balances : [Borrowers -> Nat]]
      /\ totalSupply = activePool.ARTHDebt + defaultPool.ARTHDebt
      /\ L \in PoolType /\ lastError \in PoolType
  BY DEF LedgerInv, LedgerTypeOK, TroveType, SupplyEqualsDebt, EntireSystemDebt
<1>6. CollToSP(t) \in Nat /\ CollToRedistribute(t) \in Nat
  BY <1>2 DEF CollToSP, CollToRedistribute
<1>7. activePool' = [ETH |-> activePool.ETH + run.movedETH - CollToSP(t)
                               - CollToRedistribute(t) - t.collSurplus
                               - t.collGasCompensation,
                     ARTHDebt |-> activePool.ARTHDebt + run.movedDebt
                                    - t.debtToOffset - t.debtToRedistribute]
      /\ activePool'.ETH >= 0 /\ activePool'.ARTHDebt >= 0
  BY <1>3, <1>4 DEF ActivePoolAfter
<1>8. defaultPool' = [ETH |-> defaultPool.ETH - run.movedETH + CollToRedistribute(t),
                      ARTHDebt |-> defaultPool.ARTHDebt - run.movedDebt
                                     + t.debtToRedistribute]
  BY <1>4 DEF DefaultPoolAfter
<1>9. activePool' \in PoolType /\ defaultPool' \in PoolType
  BY <1>2, <1>3, <1>5, <1>6, <1>7, <1>8 DEF PoolType
<1>10. SupplyEqualsDebt'
  BY <1>2, <1>4, <1>5, <1>7, <1>8 DEF SupplyEqualsDebt, EntireSystemDebt, PoolType
<1>11. totalSupply' \in Nat
  BY <1>9, <1>10 DEF SupplyEqualsDebt, EntireSystemDebt, PoolType
<1>12. \A b \in Borrowers : ClosedTrove(b, "closedByLiquidation") \in TroveType
  BY <1>5 DEF TroveType, ClosedTrove, Statuses
<1>13. Troves' \in [Borrowers -> TroveType]
  BY <1>4, <1>5, <1>12
<1>14. /\ L' \in PoolType /\ lastError' \in PoolType
       /\ L.ETH <= L'.ETH /\ L.ARTHDebt <= L'.ARTHDebt
  <2>1. CASE t.debtToRedistribute = 0
    BY <2>1, <1>4, <1>5 DEF Redistribute, PoolType
  <2>2. CASE t.debtToRedistribute # 0
    <3> DEFINE stakes == totalStakes - run.stakes
               num == Numerator(run)
    <3>1. stakes \in Nat \ {0}
      BY <2>2, <1>2, <1>3, <1>5
    <3>2. num.ETH \in Nat /\ num.ARTHDebt \in Nat
      BY <1>2, <1>5, NatProduct, PrecisionAssumption DEF Numerator, PoolType
    <3>3. /\ L' = [ETH      |-> L.ETH + num.ETH \div stakes,
                   ARTHDebt |-> L.ARTHDebt + num.ARTHDebt \div stakes]
          /\ lastError' = [ETH      |-> num.ETH % stakes,
                           ARTHDebt |-> num.ARTHDebt % stakes]
      BY <2>2, <1>4 DEF Redistribute
    <3> HIDE DEF stakes, num
    <3>4. /\ num.ETH \div stakes \in Nat /\ num.ARTHDebt \div stakes \in Nat
          /\ num.ETH % stakes \in Nat /\ num.ARTHDebt % stakes \in Nat
      BY <3>1, <3>2, NatQuotient
    <3> QED
      BY <3>3, <3>4, <1>5 DEF PoolType
  <2> QED
    BY <2>1, <2>2
<1>15. /\ rewardSnapshots' \in [Borrowers -> PoolType]
       /\ SnapshotsBehindL'
  BY <1>4, <1>14 DEF LedgerInv, LedgerTypeOK, SnapshotsBehindL, ZeroSnapshot, PoolType
<1>16. systemSnapshots' \in [stakes : Nat, coll : Nat]
  BY <1>2, <1>3, <1>4, <1>5, <1>9 DEF PoolType
<1>17. /\ stabilityPool' \in [ETH : Nat, totalARTHDeposits : Nat]
       /\ collSurplusPool' \in [ETH : Nat, balances : [Borrowers -> Nat]]
  BY <1>2, <1>3, <1>4, <1>5, <1>6
<1>18. totalStakes' \in Nat /\ price' \in Nat
  BY <1>2, <1>3, <1>4, <1>5 DEF LedgerInv, LedgerTypeOK
<1>19. LedgerTypeOK'
  BY <1>9, <1>11, <1>13, <1>14, <1>15, <1>16, <1>17, <1>18 DEF LedgerTypeOK, TroveType
<1> QED
  BY <1>10, <1>15, <1>19 DEF LedgerInv

(* liquidate, liquidateTroves and batchLiquidateTroves. *)
LEMMA LiquidateStepKeepsLedgers ==
  ASSUME LedgerInv, LiquidateStep
  PROVE  LedgerInv'
<1>1. \E run, liquidator : ApplyLiquidation(run, liquidator)
  BY DEF LiquidateStep, LiquidateTroves, BatchLiquidateTroves, Liquidate
<1>2. UNCHANGED frontEnds
  BY DEF LiquidateStep, coreRest
<1> QED
  BY <1>1, <1>2, LiquidationKeepsLedgers

(* redeemCollateral: what is burnt, the reserves of the closed troves      *)
(* included, leaves the debt of the Active Pool.                           *)
LEMMA RedemptionKeepsLedgers ==
  ASSUME LedgerInv, RedeemStep
  PROVE  LedgerInv'
<1>1. PICK redeemer \in Redeemers, amount \in RedeemAmounts,
           hint \in RedeemHints, hintIsFresh \in BOOLEAN,
           maxIterations \in RedeemIterations, maxFee \in MaxFees :
        RedeemCollateral(redeemer, amount, hint, hintIsFresh, maxIterations, maxFee)
  BY DEF RedeemStep
<1>2. PICK run : /\ run = RedemptionRun(amount, hint, hintIsFresh, maxIterations, price)
                 /\ RedemptionArithmetic(run)
                 /\ Troves' = [b \in Borrowers |-> TroveAfter(run, b)]
                 /\ rewardSnapshots' = [b \in Borrowers |-> SnapshotAfter(run, b)]
                 /\ totalStakes' = StakesAfter(run)
                 /\ activePool' = [ETH |-> activePool.ETH + run.movedETH
                                             - SurplusOf(run) - run.drawn,
                                   ARTHDebt |-> activePool.ARTHDebt + run.movedDebt
                                                  - ReserveOf(run) - run.redeemed]
                 /\ defaultPool' = [ETH |-> defaultPool.ETH - run.movedETH,
                                    ARTHDebt |-> defaultPool.ARTHDebt - run.movedDebt]
                 /\ collSurplusPool' = [ETH |-> collSurplusPool.ETH + SurplusOf(run),
                                        balances |-> [b \in Borrowers |->
                                          collSurplusPool.balances[b] + run.surplus[b]]]
                 /\ totalSupply' = totalSupply - run.redeemed - ReserveOf(run)
                 /\ UNCHANGED <<rewardVars, stabilityPool, price>>
  BY <1>1 DEF RedeemCollateral, envVars
<1>3. UNCHANGED <<L, lastError, systemSnapshots, stabilityPool, price, frontEnds>>
  BY <1>2 DEF rewardVars, RedeemStep, coreRest
<1>4. /\ run.redeemed \in Nat /\ run.drawn \in Nat
      /\ run.movedETH \in Nat /\ run.movedDebt \in Nat
      /\ run.debtLeft \in Nat /\ run.collLeft \in Nat
      /\ ReserveOf(run) \in Nat /\ SurplusOf(run) \in Nat
      /\ \A b \in Borrowers : run.surplus[b] \in Nat
      /\ StakesAfter(run) \in Nat
      /\ run.movedETH <= defaultPool.ETH /\ run.movedDebt <= defaultPool.ARTHDebt
      /\ SurplusOf(run) + run.drawn <= activePool.ETH + run.movedETH
      /\ run.redeemed + ReserveOf(run) <= activePool.ARTHDebt + run.movedDebt
  BY <1>2 DEF RedemptionArithmetic
<1>5. /\ Troves \in [Borrowers -> TroveType]
      /\ activePool \in PoolType /\ defaultPool \in PoolType
      /\ collSurplusPool \in [ETH : Nat, balances : [Borrowers -> Nat]]
      /\ totalSupply = activePool.ARTHDebt + defaultPool.ARTHDebt
  BY DEF LedgerInv, LedgerTypeOK, TroveType, SupplyEqualsDebt, EntireSystemDebt
<1>6. activePool' \in PoolType /\ defaultPool' \in PoolType
  BY <1>2, <1>4, <1>5 DEF PoolType
<1>7. SupplyEqualsDebt'
  BY <1>2, <1>4, <1>5 DEF SupplyEqualsDebt, EntireSystemDebt, PoolType
<1>8. totalSupply' \in Nat
  BY <1>6, <1>7 DEF SupplyEqualsDebt, EntireSystemDebt, PoolType
<1>9. \A b \in Borrowers : TroveAfter(run, b) \in TroveType
  <2> SUFFICES ASSUME NEW b \in Borrowers
               PROVE  TroveAfter(run, b) \in TroveType
    OBVIOUS
  <2>1. Troves[b] \in TroveType
    BY <1>5
  <2>2. ApplyPendingRewards(b).debt \in Nat /\ ApplyPendingRewards(b).coll \in Nat
    BY AppliedRewardsTyped
  <2>3. NewStake(run.collLeft) \in Nat
    BY <1>4, StakeIsAmount
  <2> QED
    BY <1>4, <2>1, <2>2, <2>3 DEF TroveAfter, ClosedTrove, TroveType, Statuses
<1>10. \A b \in Borrowers : /\ SnapshotAfter(run, b) \in PoolType
                            /\ SnapshotAfter(run, b).ETH <= L.ETH
                            /\ SnapshotAfter(run, b).ARTHDebt <= L.ARTHDebt
  BY AppliedRewardsTyped
     DEF SnapshotAfter, ZeroSnapshot, LedgerInv, LedgerTypeOK, SnapshotsBehindL, PoolType
<1>11. Troves' \in [Borrowers -> TroveType]
  BY <1>2, <1>9
<1>12. rewardSnapshots' \in [Borrowers -> PoolType] /\ SnapshotsBehindL'
  BY <1>2, <1>3, <1>10 DEF SnapshotsBehindL
<1>13. collSurplusPool' \in [ETH : Nat, balances : [Borrowers -> Nat]]
  BY <1>2, <1>4, <1>5
<1>14. LedgerTypeOK'
  BY <1>2, <1>3, <1>4, <1>6, <1>8, <1>11, <1>12, <1>13
     DEF LedgerInv, LedgerTypeOK, TroveType
<1> QED
  BY <1>3, <1>7, <1>12, <1>14 DEF LedgerInv

(* provideToSP and withdrawFromSP move only the Stability Pool's totals.   *)
LEMMA PoolStepKeepsLedgers ==
  ASSUME LedgerInv, PoolStep
  PROVE  LedgerInv'
<1> DEFINE PoolTotals == [ETH : Nat, totalARTHDeposits : Nat]
<1>1. stabilityPool \in PoolTotals
  BY DEF LedgerInv, LedgerTypeOK
<1>2. CASE \E a \in Borrowers \cup {Owner} : Deposit(a)
  <2>1. PICK a \in Borrowers \cup {Owner}, amount \in DepositAmounts, share \in Shares :
          ProvideToSP(a, amount, Part(share, stabilityPool.ETH))
    BY <1>2 DEF Deposit
  <2>2. /\ stabilityPool' \in PoolTotals
        /\ PoolCallUnchanged
    BY <1>1, <2>1, InputAssumption DEF ProvideToSP
  <2> QED
    BY <2>2 DEF PoolCallUnchanged, troveVars, rewardVars, envVars, coreRest, LedgerInv,
                LedgerTypeOK, SnapshotsBehindL, SupplyEqualsDebt, EntireSystemDebt
<1>3. CASE \E b \in Borrowers : Withdraw(b)
  <2>1. PICK b \in Borrowers, amount \in DepositAmounts \cup {0}, share \in Shares,
             gainShare \in Shares :
          WithdrawFromSP(b, amount, Part(share, stabilityPool.totalARTHDeposits),
                         Part(gainShare, stabilityPool.ETH))
    BY <1>3 DEF Withdraw
  <2>2. /\ stabilityPool' \in PoolTotals
        /\ PoolCallUnchanged
    BY <1>1, <2>1, InputAssumption DEF WithdrawFromSP, MinOf
  <2> QED
    BY <2>2 DEF PoolCallUnchanged, troveVars, rewardVars, envVars, coreRest, LedgerInv,
                LedgerTypeOK, SnapshotsBehindL, SupplyEqualsDebt, EntireSystemDebt
<1>4. CASE \E b \in Borrowers : GainToTrove(b)
  BY <1>4, GainToTroveKeepsLedgers
<1> QED
  BY <1>2, <1>3, <1>4 DEF PoolStep

(* claimCollateral pays one owner's surplus out. *)
LEMMA ClaimKeepsLedgers ==
  ASSUME LedgerInv, NEW b \in Borrowers, Claim(b)
  PROVE  LedgerInv'
<1>1. /\ collSurplusPool.ETH >= collSurplusPool.balances[b]
      /\ collSurplusPool' =
           [collSurplusPool EXCEPT !.ETH = @ - collSurplusPool.balances[b],
                                   !.balances = [@ EXCEPT ![b] = 0]]
      /\ UNCHANGED <<Troves, rewardSnapshots, L, lastError, totalStakes, systemSnapshots,
                     activePool, defaultPool, stabilityPool, totalSupply, price, frontEnds>>
  BY DEF Claim, ClaimCollateral, BOUnchanged, troveVars, rewardVars, envVars, tokenVars
<1>2. /\ collSurplusPool \in [ETH : Nat, balances : [Borrowers -> Nat]]
      /\ collSurplusPool.balances[b] \in Nat
  BY DEF LedgerInv, LedgerTypeOK
<1>3. /\ collSurplusPool.ETH - collSurplusPool.balances[b] \in Nat
      /\ [collSurplusPool.balances EXCEPT ![b] = 0] \in [Borrowers -> Nat]
  BY <1>1, <1>2
<1>4. collSurplusPool' = [ETH |-> collSurplusPool.ETH - collSurplusPool.balances[b],
                          balances |-> [collSurplusPool.balances EXCEPT ![b] = 0]]
  BY <1>1, <1>2
<1>5. collSurplusPool' \in [ETH : Nat, balances : [Borrowers -> Nat]]
  BY <1>3, <1>4
<1> QED
  BY <1>1, <1>5 DEF LedgerInv, LedgerTypeOK, SnapshotsBehindL, SupplyEqualsDebt,
                    EntireSystemDebt

(* The calls of borrowers keep the ledgers.                                *)
LEMMA BorrowerStepKeepsLedgers ==
  ASSUME LedgerInv, BorrowerStep
  PROVE  LedgerInv'
<1>1. CASE \E b \in Borrowers : OpenForSelf(b) \/ OpenForOther(b)
  BY <1>1, OpenKeepsLedgers DEF OpenForSelf, OpenForOther
<1>2. CASE \E b \in Borrowers : Adjust(b)
  BY <1>2, AdjustKeepsLedgers
<1>3. CASE \E b \in Borrowers : Close(b)
  BY <1>3, CloseKeepsLedgers DEF Close
<1>4. CASE \E b \in Borrowers : Claim(b)
  BY <1>4, ClaimKeepsLedgers
<1> QED
  BY <1>1, <1>2, <1>3, <1>4 DEF BorrowerStep

(* Registrations, the governance switches, transfers, prices and time. *)
LEMMA OtherStepsKeepLedgers ==
  ASSUME LedgerInv, GovernanceStep \/ EnvironmentStep
  PROVE  LedgerInv'
<1> DEFINE rest == <<Troves, rewardSnapshots, L, lastError, totalStakes, systemSnapshots,
                     activePool, defaultPool, stabilityPool, collSurplusPool, totalSupply>>
<1>1. /\ UNCHANGED rest
      /\ frontEnds' \subseteq Borrowers
      /\ price' \in Nat
  <2>1. frontEnds \subseteq Borrowers /\ price \in Nat
    BY DEF LedgerInv, LedgerTypeOK
  <2>2. CASE \E a \in FrontEndAddresses : Register(a)
    BY <2>1, <2>2, InputAssumption
       DEF Register, RegisterFrontEnd, BOUnchanged, troveVars, rewardVars, envVars, tokenVars
  <2>3. CASE \E value \in MintSwitches : SetAllowMinting(value)
    BY <2>1, <2>3 DEF SetAllowMinting, ledgers, troveVars, rewardVars, envVars, tokenVars
  <2>4. CASE \E value \in Ceilings : SetMaxDebtCeiling(value)
    BY <2>1, <2>4 DEF SetMaxDebtCeiling, ledgers, troveVars, rewardVars, envVars, tokenVars
  <2>5. CASE AnyTransfer
    BY <2>1, <2>5 DEF AnyTransfer, Transfer, coreRest, troveVars, rewardVars, envVars
  <2>6. CASE \E p \in Prices : SetPrice(p)
    BY <2>1, <2>6, InputAssumption DEF SetPrice, ledgers, troveVars, rewardVars, tokenVars
  <2>7. CASE \E seconds \in TimeSteps : Tick(seconds)
    BY <2>1, <2>7 DEF Tick, ledgers, troveVars, rewardVars, tokenVars
  <2> QED
    BY <2>2, <2>3, <2>4, <2>5, <2>6, <2>7 DEF GovernanceStep, EnvironmentStep
<1> QED
  BY <1>1 DEF LedgerInv, LedgerTypeOK, SnapshotsBehindL, SupplyEqualsDebt, EntireSystemDebt

------------------------------------------------------------------------------
(* The invariant and what follows from it. *)

(* A new deployment has empty ledgers.                                     *)
LEMMA InitEstablishesLedgers == Init => LedgerInv
<1> SUFFICES ASSUME Init PROVE LedgerInv
  OBVIOUS
<1>1. NoTrove \in TroveType
  BY DEF NoTrove, TroveType, Statuses
<1> QED
  BY <1>1, InputAssumption
     DEF Init, CoreInit, LedgerInv, LedgerTypeOK, SnapshotsBehindL, SupplyEqualsDebt,
         EntireSystemDebt, PoolType, TroveType

(* Every step keeps the ledgers.                                           *)
LEMMA NextKeepsLedgers == LedgerInv /\ [Next]_vars => LedgerInv'
<1> SUFFICES ASSUME LedgerInv, [Next]_vars PROVE LedgerInv'
  OBVIOUS
<1>1. CASE BorrowerStep
  BY <1>1, BorrowerStepKeepsLedgers
<1>2. CASE PoolStep
  BY <1>2, PoolStepKeepsLedgers
<1>3. CASE LiquidateStep
  BY <1>3, LiquidateStepKeepsLedgers
<1>4. CASE RedeemStep
  BY <1>4, RedemptionKeepsLedgers
<1>5. CASE GovernanceStep \/ EnvironmentStep
  BY <1>5, OtherStepsKeepLedgers
<1>6. CASE UNCHANGED vars
  BY <1>6, LedgersUnchanged DEF vars, ledgerVars, troveVars, rewardVars, tokenVars, envVars
<1> QED
  BY <1>1, <1>2, <1>3, <1>4, <1>5, <1>6 DEF Next

(* The ledgers keep their types, pending rewards are never negative, and   *)
(* supply and debt agree, in every reachable state.                        *)
THEOREM LedgersHold == Spec => []LedgerInv
  BY InitEstablishesLedgers, NextKeepsLedgers, PTL DEF Spec

(* Every ARTH in circulation is owed by a trove, whichever contract mints  *)
(* or burns it and whichever pool records the debt.                        *)
THEOREM SupplyIsOwed == Spec => []SupplyEqualsDebt
<1>1. LedgerInv => SupplyEqualsDebt
  BY DEF LedgerInv
<1> QED
  BY <1>1, LedgersHold, PTL

------------------------------------------------------------------------------
(* Front ends. *)

(* No step gives a trove to a front end, or registers an owner as one.     *)
LEMMA FrontEndStep ==
  ASSUME LedgerInv, FrontEndsOwnNoTrove, [Next]_vars
  PROVE  FrontEndsOwnNoTrove'
<1>1. Troves \in [Borrowers -> TroveType]
  BY DEF LedgerInv, LedgerTypeOK, TroveType
<1>2. SUFFICES \A b \in Borrowers : Troves'[b].status = "active" => b \notin frontEnds'
  BY DEF FrontEndsOwnNoTrove, ActiveTroves, IsActive
<1>3. \A b \in Borrowers : Troves[b].status = "active" => b \notin frontEnds
  BY DEF FrontEndsOwnNoTrove, ActiveTroves, IsActive
<1>4. ASSUME NEW who \in Borrowers, NEW recipient, Open(who, recipient)
      PROVE  \A b \in Borrowers : Troves'[b].status = "active" => b \notin frontEnds'
  BY <1>1, <1>3, <1>4 DEF Open, OpenTrove, TroveType
<1>5. ASSUME NEW who \in Borrowers, NEW value, NEW withdrawal, NEW change,
             NEW isDebtIncrease, NEW maxFee,
             AdjustTrove(who, value, withdrawal, change, isDebtIncrease, maxFee)
      PROVE  \A b \in Borrowers : Troves'[b].status = "active" => b \notin frontEnds'
  BY <1>1, <1>3, <1>5 DEF AdjustTrove, TroveType
<1>6. ASSUME NEW who \in Borrowers, Close(who)
      PROVE  \A b \in Borrowers : Troves'[b].status = "active" => b \notin frontEnds'
  BY <1>1, <1>3, <1>6 DEF Close, CloseTrove, ClosedTrove, TroveType
<1>7. CASE LiquidateStep
  <2>1. PICK run, liquidator : ApplyLiquidation(run, liquidator)
    BY <1>7 DEF LiquidateStep, LiquidateTroves, BatchLiquidateTroves, Liquidate
  <2>2. /\ Troves' = [b \in Borrowers |->
             IF b \in Closed(run) THEN ClosedTrove(b, "closedByLiquidation")
             ELSE Troves[b]]
        /\ frontEnds' = frontEnds
    BY <1>7, <2>1 DEF ApplyLiquidation, LiquidateStep, coreRest
  <2> QED
    BY <1>1, <1>3, <2>2 DEF ClosedTrove, TroveType
<1>8. CASE RedeemStep
  <2>1. PICK run : Troves' = [b \in Borrowers |-> TroveAfter(run, b)]
    BY <1>8 DEF RedeemStep, RedeemCollateral
  <2>2. frontEnds' = frontEnds
    BY <1>8 DEF RedeemStep, coreRest
  <2> QED
    BY <1>1, <1>3, <2>1, <2>2 DEF TroveAfter, ClosedTrove, TroveType
<1>9. CASE \E a \in FrontEndAddresses : Register(a)
  BY <1>3, <1>9, InputAssumption DEF Register, RegisterFrontEnd, IsActive, troveVars
<1>10. CASE UNCHANGED <<Troves, frontEnds>>
  BY <1>3, <1>10
<1>11. BorrowerStep => \/ \E who \in Borrowers : \/ \E recipient : Open(who, recipient)
                                                 \/ Adjust(who) \/ Close(who)
                       \/ UNCHANGED <<Troves, frontEnds>>
  BY DEF BorrowerStep, OpenForSelf, OpenForOther, Claim, ClaimCollateral, troveVars
<1>12. PoolStep => \/ \E who \in Borrowers : GainToTrove(who)
                   \/ UNCHANGED <<Troves, frontEnds>>
  BY DEF PoolStep, Deposit, Withdraw, ProvideToSP, WithdrawFromSP, PoolCallUnchanged,
         troveVars, coreRest
<1>13. ASSUME NEW who \in Borrowers, Adjust(who) \/ GainToTrove(who)
       PROVE  \A b \in Borrowers : Troves'[b].status = "active" => b \notin frontEnds'
  <2>1. PICK value, withdrawal, change, isDebtIncrease, maxFee :
          AdjustTrove(who, value, withdrawal, change, isDebtIncrease, maxFee)
    <3>1. CASE Adjust(who)
      BY <3>1 DEF Adjust
    <3>2. CASE GainToTrove(who)
      <4>1. PICK gain : WithdrawETHGainToTrove(who, gain)
        BY <3>2 DEF GainToTrove
      <4> QED
        BY <4>1 DEF WithdrawETHGainToTrove
    <3> QED
      BY <1>13, <3>1, <3>2
  <2> QED
    BY <1>5, <2>1
<1>14. GovernanceStep \/ EnvironmentStep =>
         (\E a \in FrontEndAddresses : Register(a)) \/ UNCHANGED <<Troves, frontEnds>>
  BY DEF GovernanceStep, EnvironmentStep, SetAllowMinting, SetMaxDebtCeiling, AnyTransfer,
         Transfer, SetPrice, Tick, ledgers, troveVars, coreRest
<1>15. UNCHANGED vars => UNCHANGED <<Troves, frontEnds>>
  BY DEF vars, troveVars
<1> QED
  BY <1>4, <1>6, <1>7, <1>8, <1>9, <1>10, <1>11, <1>12, <1>13, <1>14, <1>15 DEF Next

(* A registered front end never owns a trove, in whatever order openings   *)
(* and registrations come.                                                 *)
THEOREM FrontEndsStayOut == Spec => []FrontEndsOwnNoTrove
<1>1. Init => FrontEndsOwnNoTrove
  BY DEF Init, FrontEndsOwnNoTrove
<1>2. LedgerInv /\ FrontEndsOwnNoTrove /\ [Next]_vars => FrontEndsOwnNoTrove'
  BY FrontEndStep
<1> QED
  BY <1>1, <1>2, LedgersHold, PTL DEF Spec

------------------------------------------------------------------------------
(* One step of the loops. *)

(* An active trove's entire collateral and debt are amounts. *)
LEMMA EntireAmounts ==
  ASSUME LedgerInv, NEW b \in Borrowers
  PROVE  EntireColl(b) \in Nat /\ EntireDebt(b) \in Nat
<1>1. Troves[b].coll \in Nat /\ Troves[b].debt \in Nat
  BY DEF LedgerInv, LedgerTypeOK
<1> QED
  BY <1>1, PendingRewardsAreAmounts DEF EntireColl, EntireDebt

(* The compensation taken from an amount is at most that amount. *)
LEMMA CompensationFits ==
  ASSUME NEW coll \in Nat
  PROVE  CollGasCompensation(coll) \in Nat /\ CollGasCompensation(coll) <= coll
<1>1. PERCENT_DIVISOR \in Nat \ {0}
  BY RateAssumption
<1>2. /\ CollGasCompensation(coll) \in Nat
      /\ CollGasCompensation(coll) * PERCENT_DIVISOR <= coll
  BY <1>1, NatQuotient, FloorQuotient DEF CollGasCompensation
<1>3. \A x \in Nat, y \in Nat \ {0} : x <= x * y
  OBVIOUS
<1> QED
  BY <1>1, <1>2, <1>3

(* A liquidation at 110% splits a trove exactly: the Stability Pool takes  *)
(* no more debt than it holds deposits, the other troves take the rest of  *)
(* it, and the caller's compensation, the pool's share and the other       *)
(* troves' share are the whole collateral, none of them negative.          *)
THEOREM LiquidationSplitsExactly ==
  ASSUME LedgerInv, NEW b \in Borrowers, NEW arthInSP \in Nat, EntireDebt(b) > 0
  PROVE  LET vals == NormalModeValues(b, arthInSP)
         IN  /\ vals.debtToOffset \in Nat /\ vals.debtToRedistribute \in Nat
             /\ vals.collToSendToSP \in Nat /\ vals.collToRedistribute \in Nat
             /\ vals.debtToOffset <= arthInSP
             /\ vals.debtToOffset + vals.debtToRedistribute = EntireDebt(b)
             /\ vals.collGasCompensation + vals.collToSendToSP
                  + vals.collToRedistribute = EntireColl(b)
<1> DEFINE D == EntireDebt(b)
           C == EntireColl(b)
           gas == CollGasCompensation(C)
           coll == C - gas
           offset == MinOf(D, arthInSP)
           toSP == IF arthInSP > 0 THEN (coll * offset) \div D ELSE 0
           vals == NormalModeValues(b, arthInSP)
<1>1. D \in Nat \ {0} /\ C \in Nat
  BY EntireAmounts
<1>2. gas \in Nat /\ gas <= C
  BY <1>1, CompensationFits
<1>3. coll \in Nat /\ offset \in Nat /\ offset <= D /\ offset <= arthInSP
  BY <1>1, <1>2 DEF MinOf
<1>4. /\ vals.debtToOffset = offset /\ vals.debtToRedistribute = D - offset
      /\ vals.collToSendToSP = toSP /\ vals.collToRedistribute = coll - toSP
      /\ vals.collGasCompensation = gas
  BY DEF NormalModeValues, OffsetAndRedistribution, EntireValues, ZeroValues, CollToLiquidate
<1> HIDE DEF D, C, gas, coll, offset, toSP
<1>5. (coll * offset) \div D \in Nat /\ (coll * offset) \div D <= coll
  <2>1. coll * offset \in Nat /\ coll * D \in Nat
    BY <1>1, <1>3, NatProduct
  <2>2. coll * offset <= coll * D
    BY <1>1, <1>3
  <2>3. (coll * offset) \div D \in Nat /\ ((coll * offset) \div D) * D <= coll * offset
    BY <1>1, <2>1, NatQuotient, FloorQuotient
  <2>4. \A q, x \in Nat, y \in Nat \ {0} : q * y <= x * y => q <= x
    OBVIOUS
  <2>5. ((coll * offset) \div D) * D <= coll * D
    BY <1>1, <2>1, <2>2, <2>3
  <2> QED
    BY <1>1, <1>3, <2>3, <2>4, <2>5
<1>6. toSP \in Nat /\ toSP <= coll
  BY <1>3, <1>5 DEF toSP
<1>7. gas + coll = C
  BY <1>1, <1>2 DEF coll
<1>8. /\ offset \in Nat /\ D - offset \in Nat /\ toSP \in Nat /\ coll - toSP \in Nat
      /\ offset <= arthInSP /\ offset + (D - offset) = D
      /\ gas + toSP + (coll - toSP) = C
  BY <1>1, <1>2, <1>3, <1>6, <1>7
<1> QED
  BY <1>4, <1>8 DEF D, C

(* In recovery mode the Stability Pool takes MCR worth of collateral from  *)
(* a trove above MCR: the collateral covers it, so the surplus left to the *)
(* owner is never negative, whatever the two divisions round off.          *)
THEOREM CappedLiquidationSplitsExactly ==
  ASSUME LedgerInv, NEW b \in Borrowers, NEW p \in Nat \ {0},
         EntireDebt(b) > 0, CurrentICR(b, p) >= MCR
  PROVE  LET vals == CappedOffsetValues(b, p)
         IN  /\ vals.collGasCompensation \in Nat /\ vals.collToSendToSP \in Nat
             /\ vals.collSurplus \in Nat
             /\ vals.collGasCompensation + vals.collToSendToSP + vals.collSurplus
                  = EntireColl(b)
<1> DEFINE D == EntireDebt(b)
           C == EntireColl(b)
           capped == (D * MCR) \div p
           gas == CollGasCompensation(capped)
           vals == CappedOffsetValues(b, p)
<1>1. D \in Nat \ {0} /\ C \in Nat /\ MCR \in Nat
  BY EntireAmounts, RateAssumption
<1>2. vals.collGasCompensation = gas /\ vals.collToSendToSP = capped - gas
        /\ vals.collSurplus = C - capped
  BY DEF CappedOffsetValues, EntireValues, ZeroValues
<1>3. (C * p) \div D >= MCR
  BY <1>1 DEF CurrentICR, ComputeCR
<1> HIDE DEF D, C
<1>4. D * MCR \in Nat /\ C * p \in Nat
  BY <1>1, NatProduct
<1>5. D * MCR <= C * p
  <2>1. (C * p) \div D \in Nat /\ ((C * p) \div D) * D <= C * p
    BY <1>1, <1>4, NatQuotient, FloorQuotient
  <2>2. \A x, y, z \in Nat : x >= y => z * y <= x * z
    OBVIOUS
  <2>3. D * MCR <= ((C * p) \div D) * D
    BY <1>1, <1>3, <2>1, <2>2
  <2> QED
    BY <1>1, <1>4, <2>1, <2>3
<1>6. capped \in Nat /\ capped <= C
  <2>1. capped \in Nat /\ capped * p <= D * MCR
    BY <1>4, NatQuotient, FloorQuotient
  <2>2. \A q, x \in Nat, y \in Nat \ {0} : q * y <= x * y => q <= x
    OBVIOUS
  <2>3. capped * p <= C * p
    BY <1>4, <1>5, <2>1
  <2> QED
    BY <1>1, <2>1, <2>2, <2>3
<1>7. gas \in Nat /\ gas <= capped
  BY <1>6, CompensationFits
<1> HIDE DEF capped, gas
<1>8. /\ gas \in Nat /\ capped - gas \in Nat /\ C - capped \in Nat
      /\ gas + (capped - gas) + (C - capped) = C
  BY <1>1, <1>6, <1>7
<1> QED
  BY <1>2, <1>8 DEF C

(* The loop of a redemption of `amount' so far: what it has taken is worth *)
(* no more than what it has redeemed, redeemed and remaining ARTH add up,  *)
(* and a trove redeemed in part keeps the minimum debt.                    *)
FairSoFar(run, amount, p) ==
  /\ run.remaining \in Nat /\ run.redeemed \in Nat /\ run.drawn \in Nat
  /\ run.remaining + run.redeemed = amount
  /\ run.drawn * p <= run.redeemed * DECIMAL_PRECISION
  /\ run.partial # NoHint => run.debtLeft >= ARTH_GAS_COMPENSATION + MIN_NET_DEBT

RunFields == {"remaining", "iterations", "redeemed", "drawn", "closed", "surplus",
              "applied", "partial", "debtLeft", "collLeft", "movedETH", "movedDebt",
              "cancelled"}

(* Every trove the loop of a redemption visits leaves it fair so far.      *)
THEOREM RedemptionStepIsFair ==
  ASSUME LedgerInv, MinimumDebtKept, NEW b \in Borrowers, IsActive(b),
         NEW p \in Nat \ {0}, NEW amount \in Nat, NEW run, NEW hintIsFresh \in BOOLEAN,
         DOMAIN run = RunFields, run = [f \in RunFields |-> run[f]],
         FairSoFar(run, amount, p)
  PROVE  FairSoFar(RedemptionStep(run, b, p, hintIsFresh), amount, p)
<1> DEFINE trove == ApplyPendingRewards(b)
           lot == LotOf(run, b)
           ethLot == ETHLot(lot, p)
           newDebt == trove.debt - lot
           newColl == trove.coll - ethLot
           next == RedeemFromTrove(run, b, p, hintIsFresh)
<1>1. /\ run.remaining \in Nat /\ run.redeemed \in Nat /\ run.drawn \in Nat
      /\ run.remaining + run.redeemed = amount
      /\ run.drawn * p <= run.redeemed * DECIMAL_PRECISION
      /\ run.partial # NoHint => run.debtLeft >= ARTH_GAS_COMPENSATION + MIN_NET_DEBT
  BY DEF FairSoFar
<1>2. DECIMAL_PRECISION \in Nat /\ ARTH_GAS_COMPENSATION \in Nat /\ MIN_NET_DEBT \in Nat
  BY PrecisionAssumption, DebtAssumption
<1>3. trove.debt \in Nat /\ trove.debt >= ARTH_GAS_COMPENSATION
  <2>1. Troves[b].debt \in Nat /\ Troves[b].debt >= ARTH_GAS_COMPENSATION
    BY <1>2 DEF MinimumDebtKept, ActiveTroves, LedgerInv, LedgerTypeOK
  <2>2. trove.debt = Troves[b].debt \/ trove.debt = Troves[b].debt + PendingARTHDebtReward(b)
    BY DEF ApplyPendingRewards, EntireDebt
  <2>3. PendingARTHDebtReward(b) \in Nat
    BY PendingRewardsAreAmounts
  <2> QED
    BY <1>2, <2>1, <2>2, <2>3
<1>4. lot \in Nat /\ lot <= run.remaining
  BY <1>1, <1>2, <1>3 DEF LotOf, NetDebt, MinOf
<1>5. ethLot \in Nat /\ ethLot * p <= lot * DECIMAL_PRECISION
  <2>1. lot * DECIMAL_PRECISION \in Nat
    BY <1>2, <1>4, NatProduct
  <2> QED
    BY <2>1, NatQuotient, FloorQuotient DEF ETHLot
<1>6. /\ run.remaining - lot \in Nat /\ run.redeemed + lot \in Nat
      /\ run.drawn + ethLot \in Nat
      /\ (run.remaining - lot) + (run.redeemed + lot) = amount
  BY <1>1, <1>4, <1>5
<1>7. (run.drawn + ethLot) * p <= (run.redeemed + lot) * DECIMAL_PRECISION
  <2>1. \A x, y, z \in Nat : (x + y) * z = x * z + y * z
    OBVIOUS
  <2>2. /\ (run.drawn + ethLot) * p = run.drawn * p + ethLot * p
        /\ (run.redeemed + lot) * DECIMAL_PRECISION
             = run.redeemed * DECIMAL_PRECISION + lot * DECIMAL_PRECISION
    BY <1>1, <1>2, <1>4, <1>5, <2>1
  <2>3. /\ run.drawn * p \in Nat /\ ethLot * p \in Nat
        /\ run.redeemed * DECIMAL_PRECISION \in Nat /\ lot * DECIMAL_PRECISION \in Nat
    BY <1>1, <1>2, <1>4, <1>5, NatProduct
  <2> QED
    BY <1>1, <1>5, <2>2, <2>3
<1>8. CASE newDebt = ARTH_GAS_COMPENSATION
  <2>1. /\ next.remaining = run.remaining - lot /\ next.redeemed = run.redeemed + lot
        /\ next.drawn = run.drawn + ethLot
        /\ next.partial = run.partial /\ next.debtLeft = run.debtLeft
    BY <1>8 DEF RedeemFromTrove, RunFields
  <2> QED
    BY <1>1, <1>6, <1>7, <2>1 DEF FairSoFar, RedemptionStep
<1>9. CASE newDebt # ARTH_GAS_COMPENSATION /\ PartialIsRefused(hintIsFresh, newDebt)
  <2>1. /\ next.remaining = run.remaining /\ next.redeemed = run.redeemed
        /\ next.drawn = run.drawn
        /\ next.partial = run.partial /\ next.debtLeft = run.debtLeft
    BY <1>9 DEF RedeemFromTrove, RunFields
  <2> QED
    BY <1>1, <2>1 DEF FairSoFar, RedemptionStep
<1>10. CASE newDebt # ARTH_GAS_COMPENSATION /\ ~PartialIsRefused(hintIsFresh, newDebt)
  <2>1. /\ next.remaining = run.remaining - lot /\ next.redeemed = run.redeemed + lot
        /\ next.drawn = run.drawn + ethLot /\ next.debtLeft = newDebt
    BY <1>10 DEF RedeemFromTrove, RunFields
  <2>2. newDebt >= ARTH_GAS_COMPENSATION + MIN_NET_DEBT
    BY <1>2, <1>3, <1>4, <1>10 DEF PartialIsRefused, NetDebt
  <2> QED
    BY <1>1, <1>6, <1>7, <2>1, <2>2 DEF FairSoFar, RedemptionStep
<1> QED
  BY <1>8, <1>9, <1>10

------------------------------------------------------------------------------
(* The loops.  FoldLeft yields the value, at all the positions of a list,  *)
(* of a function on sets of positions: the loop's body, applied to the     *)
(* value for the set without its last position and to the element there.   *)

(* The bodies: removal from a list and from the array of owners, and the   *)
(* loops of the liquidations, of the redemptions and of their simulation.  *)
LoopBody(kind, c, x, e) ==
  CASE kind = "without"   -> IF e \in c THEN x ELSE Append(x, e)
    [] kind = "swap"      -> SwapRemove(x, e)
    [] kind = "liquidate" -> IF c.recovery THEN RecoveryModeStep(x, e, c.isBatch, c.p)
                             ELSE NormalModeStep(x, e, c.isBatch, c.p)
    [] kind = "redeem"    -> RedemptionStep(x, e, c.p, c.hintIsFresh)
    [] kind = "simulate"  -> SimulationStep(x, e, c.p)

LoopIs(h, kind, c, base, list, D) ==
  h = [s \in SUBSET D |->
        IF s = {} THEN base ELSE LoopBody(kind, c, h[s \ {Max(s)}], list[Max(s)])]

(* The states of a loop: r[i] is what its first i iterations make of base. *)
Steps(r, kind, c, base, list) ==
  /\ r[0] = base
  /\ \A i \in 1..Len(list) : r[i] = LoopBody(kind, c, r[i - 1], list[i])

(* A loop has a value at every prefix of its list, by induction on the *)
(* length.                                                             *)
LEMMA LoopExists ==
  ASSUME NEW kind, NEW c, NEW base, NEW list
  PROVE  \A n \in Nat : \E h : LoopIs(h, kind, c, base, list, 1..n)
<1> DEFINE T == {n \in Nat : \E h : LoopIs(h, kind, c, base, list, 1..n)}
<1>1. 0 \in T
  <2>1. LoopIs([s \in SUBSET (1..0) |-> base], kind, c, base, list, 1..0)
    <3>1. \A s \in SUBSET (1..0) : s = {}
      OBVIOUS
    <3> QED BY <3>1 DEF LoopIs
  <2> QED BY <2>1
<1>2. ASSUME NEW n \in Nat, n \in T PROVE n + 1 \in T
  <2>1. PICK h : LoopIs(h, kind, c, base, list, 1..n)
    BY <1>2
  <2> DEFINE g == [s \in SUBSET (1..(n + 1)) |->
                     IF n + 1 \in s THEN LoopBody(kind, c, h[s \ {n + 1}], list[n + 1])
                     ELSE h[s]]
  <2>2. ASSUME NEW s \in SUBSET (1..(n + 1))
        PROVE  g[s] = IF s = {} THEN base
                      ELSE LoopBody(kind, c, g[s \ {Max(s)}], list[Max(s)])
    <3>1. CASE n + 1 \in s
      <4>1. Max(s) = n + 1
        BY <3>1, MaxOfInterval
      <4>2. g[s \ {n + 1}] = h[s \ {n + 1}]
            /\ g[s] = LoopBody(kind, c, h[s \ {n + 1}], list[n + 1])
        BY <3>1
      <4> HIDE DEF g
      <4> QED BY <3>1, <4>1, <4>2
    <3>2. CASE n + 1 \notin s
      <4>1. s \in SUBSET (1..n)
        BY <3>2
      <4>2. h[s] = IF s = {} THEN base
                   ELSE LoopBody(kind, c, h[s \ {Max(s)}], list[Max(s)])
        BY <2>1, <4>1 DEF LoopIs
      <4>3. g[s] = h[s] /\ g[s \ {Max(s)}] = h[s \ {Max(s)}]
        BY <3>2, <4>1
      <4> HIDE DEF g
      <4> QED BY <4>2, <4>3
    <3> QED BY <3>1, <3>2
  <2>3. LoopIs(g, kind, c, base, list, 1..(n + 1))
    <3>1. g = [s \in SUBSET (1..(n + 1)) |-> g[s]]
      OBVIOUS
    <3> HIDE DEF g
    <3> QED BY <2>2, <3>1 DEF LoopIs
  <2> QED BY <2>3
<1>3. \A n \in Nat : n \in T
  <2> HIDE DEF T
  <2> QED BY <1>1, <1>2, SetInduction
<1> QED
  BY <1>3

(* The value of a loop is reached by its steps, one element of the list *)
(* after another.                                                       *)
LEMMA LoopSteps ==
  ASSUME NEW kind, NEW c, NEW base, NEW list, Len(list) \in Nat,
         NEW h, LoopIs(h, kind, c, base, list, 1..Len(list))
  PROVE  \E r : Steps(r, kind, c, base, list) /\ r[Len(list)] = h[1..Len(list)]
<1> DEFINE m == Len(list)
           r == [i \in 0..m |-> h[1..i]]
<1>1. h[1..0] = base
  <2>1. 1..0 = {} /\ 1..0 \in SUBSET (1..m)
    BY FirstPositions
  <2> QED BY <2>1 DEF LoopIs
<1>2. ASSUME NEW i \in 1..m PROVE h[1..i] = LoopBody(kind, c, h[1..(i - 1)], list[i])
  <2>1. /\ 1..i \in SUBSET (1..m) /\ 1..i # {} /\ (1..i) \ {i} = 1..(i - 1)
        /\ Max(1..i) = i
    BY FirstPositions
  <2>2. h[1..i] = LoopBody(kind, c, h[(1..i) \ {Max(1..i)}], list[Max(1..i)])
    BY <2>1 DEF LoopIs
  <2> QED BY <2>1, <2>2
<1>3. \A i \in 0..m : r[i] = h[1..i]
  OBVIOUS
<1>4. \A i \in 1..m : i \in 0..m /\ i - 1 \in 0..m
  OBVIOUS
<1>5. 0 \in 0..m /\ m \in 0..m
  OBVIOUS
<1> HIDE DEF r
<1>6. r[0] = base /\ \A i \in 1..m : r[i] = LoopBody(kind, c, r[i - 1], list[i])
  BY <1>1, <1>2, <1>3, <1>4, <1>5
<1> QED
  BY <1>3, <1>5, <1>6 DEF Steps

------------------------------------------------------------------------------
(* Removal from the sorted list. *)

WithoutIs(h, list, S, D) ==
  h = [s \in SUBSET D |->
        IF s = {} THEN <<>>
        ELSE IF list[Max(s)] \in S THEN h[s \ {Max(s)}]
             ELSE Append(h[s \ {Max(s)}], list[Max(s)])]

(* Without opened down to the CHOOSE of its fold. *)
LEMMA WithoutIsChosen ==
  ASSUME NEW list, NEW S
  PROVE  Without(list, S) = (CHOOSE h : WithoutIs(h, list, S, DOMAIN list))[DOMAIN list]
BY Zenon DEF Without, FoldLeft, MapThenFoldSet, WithoutIs

(* Without is the last of the steps that pass over the list. *)
LEMMA WithoutSteps ==
  ASSUME NEW E, NEW list \in Seq(E), NEW S
  PROVE  \E r : Steps(r, "without", S, <<>>, list) /\ r[Len(list)] = Without(list, S)
<1> DEFINE h == CHOOSE h : WithoutIs(h, list, S, 1..Len(list))
<1>1. Len(list) \in Nat /\ DOMAIN list = 1..Len(list)
  BY ListFacts
<1>2. \A g : LoopIs(g, "without", S, <<>>, list, 1..Len(list)) <=>
              WithoutIs(g, list, S, 1..Len(list))
  BY DEF LoopIs, WithoutIs, LoopBody
<1>3. LoopIs(h, "without", S, <<>>, list, 1..Len(list))
  BY <1>1, <1>2, LoopExists
<1>4. Without(list, S) = h[1..Len(list)]
  BY <1>1, WithoutIsChosen
<1> HIDE DEF h
<1> QED
  BY <1>1, <1>3, <1>4, LoopSteps

(* Removal keeps exactly the other elements, without duplicating any.      *)
LEMMA WithoutFacts ==
  ASSUME NEW E, NEW list \in Seq(E), NEW S
  PROVE  /\ Without(list, S) \in Seq(E)
         /\ ToSet(Without(list, S)) = ToSet(list) \ S
         /\ IsInjective(list) => IsInjective(Without(list, S))
<1> DEFINE m == Len(list)
<1>1. m \in Nat /\ list \in [1..m -> E] /\ ToSet(list) = {list[i] : i \in 1..m}
      /\ DOMAIN list = 1..m
  BY ListFacts
<1>0. PICK r : Steps(r, "without", S, <<>>, list) /\ r[m] = Without(list, S)
  BY WithoutSteps
<1>2. /\ r[0] = <<>> /\ r[m] = Without(list, S)
      /\ \A i \in 1..m : r[i] = IF list[i] \in S THEN r[i - 1] ELSE Append(r[i - 1], list[i])
  BY <1>0 DEF Steps, LoopBody
<1> DEFINE Kept(i) == /\ r[i] \in Seq(E) /\ ToSet(r[i]) = {list[k] : k \in 1..i} \ S
                      /\ IsInjective(list) => IsInjective(r[i])
           T == {i \in 0..m : Kept(i)}
<1>3. Kept(0)
  <2>1. {list[k] : k \in 1..0} = {}
    BY FirstPositions
  <2>2. ToSet(<<>>) = {} /\ IsInjective(<<>>) /\ <<>> \in Seq(E)
    BY DEF ToSet, IsInjective
  <2> QED BY <1>2, <2>1, <2>2
<1>4. ASSUME NEW i \in 1..m, Kept(i - 1) PROVE Kept(i)
  <2> HIDE DEF m
  <2>1. /\ list[i] \in E /\ r[i - 1] \in Seq(E)
        /\ ToSet(r[i - 1]) = {list[k] : k \in 1..(i - 1)} \ S
        /\ IsInjective(list) => IsInjective(r[i - 1])
    BY <1>1, <1>4
  <2>2. {list[k] : k \in 1..i} = {list[k] : k \in 1..(i - 1)} \cup {list[i]}
    <3>1. 1..i = (1..(i - 1)) \cup {i}
      BY <1>1, FirstPositions
    <3> QED BY <3>1
  <2>3. CASE list[i] \in S
    BY <1>2, <2>1, <2>2, <2>3
  <2>4. CASE list[i] \notin S
    <3>1. r[i] = Append(r[i - 1], list[i])
      BY <1>2, <2>4
    <3>2. IsInjective(list) => list[i] \notin ToSet(r[i - 1])
      <4>1. \A k \in 1..(i - 1) : k \in 1..m /\ k # i
        BY <1>1
      <4>2. IsInjective(list) => \A k \in 1..(i - 1) : list[k] # list[i]
        BY <1>1, <4>1 DEF IsInjective
      <4> QED BY <2>1, <4>2
    <3>3. /\ r[i] \in Seq(E) /\ ToSet(r[i]) = ToSet(r[i - 1]) \cup {list[i]}
          /\ IsInjective(r[i - 1]) /\ list[i] \notin ToSet(r[i - 1]) => IsInjective(r[i])
      BY <2>1, <3>1, AppendFacts
    <3> QED BY <2>1, <2>2, <2>4, <3>2, <3>3
  <2> QED BY <2>3, <2>4
<1>5. \A i \in 0..m : Kept(i)
  <2> HIDE DEF Kept
  <2>1. 0 \in T
    BY <1>1, <1>3
  <2>2. \A i \in 1..m : i - 1 \in T => i \in T
    BY <1>4
  <2>3. \A i \in 0..m : i \in T
    <3> HIDE DEF T, m
    <3> QED BY <1>1, <2>1, <2>2, LoopInduction
  <2> QED BY <2>3
<1>6. Kept(m)
  <2> HIDE DEF Kept, m
  <2> QED BY <1>1, <1>5
<1> QED
  BY <1>1, <1>2, <1>6

------------------------------------------------------------------------------
(* Removal from the array of owners. *)

(* arr is an array of the owners in S, each with its index. *)
ArrayOf(arr, S) ==
  /\ arr.owners \in Seq(Borrowers) /\ arr.index \in [Borrowers -> Nat]
  /\ ToSet(arr.owners) = S
  /\ \A k \in 1..Len(arr.owners) : arr.index[arr.owners[k]] = k - 1

(* No owner appears twice in it. *)
LEMMA ArrayIsDistinct ==
  ASSUME NEW arr, NEW S, ArrayOf(arr, S)
  PROVE  IsInjective(arr.owners)
<1>1. DOMAIN arr.owners = 1..Len(arr.owners)
  BY ListFacts DEF ArrayOf
<1>2. \A k, l \in 1..Len(arr.owners) : arr.owners[k] = arr.owners[l] => k = l
  BY DEF ArrayOf
<1> QED
  BY <1>1, <1>2 DEF IsInjective

(* _removeTroveOwner keeps the array of the other owners: the last owner *)
(* takes the place of the removed one, and the indices follow.           *)
LEMMA SwapRemoveFacts ==
  ASSUME NEW arr, NEW S, ArrayOf(arr, S), NEW b \in S
  PROVE  ArrayOf(SwapRemove(arr, b), S \ {b})
<1> DEFINE o == arr.owners
           n == Len(arr.owners)
           x == arr.index
           slot == x[b]
           last == o[n]
           moved == [o EXCEPT ![slot + 1] = last]
           new == SwapRemove(arr, b)
<1>1. /\ o \in Seq(Borrowers) /\ n \in Nat /\ o \in [1..n -> Borrowers]
      /\ S = {o[k] : k \in 1..n} /\ x \in [Borrowers -> Nat]
      /\ \A k \in 1..n : x[o[k]] = k - 1
  BY ListFacts DEF ArrayOf
<1>2. slot + 1 \in 1..n /\ o[slot + 1] = b /\ slot \in Nat /\ n \in 1..n
  <2>1. PICK k \in 1..n : o[k] = b
    BY <1>1
  <2>2. x[b] = k - 1
    BY <1>1, <2>1
  <2>3. k \in Int /\ n \in Nat /\ 1 <= k /\ k <= n
    BY <1>1
  <2>4. slot + 1 = k
    BY <2>2, <2>3
  <2> QED BY <2>1, <2>2, <2>3, <2>4
<1>3. last \in Borrowers
  BY <1>1, <1>2
<1>4. new.owners = Front(moved) /\ new.index = [x EXCEPT ![last] = slot]
  BY DEF SwapRemove
<1> HIDE DEF new, last, slot
<1>5. /\ moved \in Seq(Borrowers) /\ Len(moved) = n
      /\ \A k \in 1..n : moved[k] = IF k = slot + 1 THEN last ELSE o[k]
  BY <1>1, <1>2, <1>3, ExceptSeq
<1> HIDE DEF moved, o, x, n
<1>6. /\ Front(moved) \in Seq(Borrowers) /\ Len(Front(moved)) = n - 1
      /\ \A k \in 1..(n - 1) : Front(moved)[k] = moved[k]
  <2>1. Front(moved) = SubSeq(moved, 1, n - 1)
    BY <1>5 DEF Front
  <2>2. \A k \in 1..(n - 1) : moved[k] \in Borrowers
    BY <1>1, <1>5, ElementOfSeq
  <2>3. 1 \in Int /\ n - 1 \in Int /\ (n - 1) - 1 + 1 = n - 1 /\ (1 <= n - 1 \/ n - 1 = 0)
    BY <1>1, <1>2
  <2>4. /\ SubSeq(moved, 1, n - 1) \in Seq(Borrowers)
        /\ Len(SubSeq(moved, 1, n - 1)) = IF 1 <= n - 1 THEN (n - 1) - 1 + 1 ELSE 0
        /\ \A k \in 1..((n - 1) - 1 + 1) : SubSeq(moved, 1, n - 1)[k] = moved[1 + k - 1]
    BY <2>2, <2>3, SubSeqProperties
  <2>5. \A k \in 1..(n - 1) : 1 + k - 1 = k
    BY <1>1
  <2> QED BY <2>1, <2>3, <2>4, <2>5
<1>7. \A k \in 1..(n - 1) : /\ k \in 1..n /\ k # n
                            /\ new.owners[k] = IF k = slot + 1 THEN last ELSE o[k]
  <2> TAKE k \in 1..(n - 1)
  <2>1. k \in 1..n /\ k # n
    BY <1>1
  <2>2. new.owners[k] = moved[k]
    BY <1>4, <1>6
  <2> QED BY <2>1, <2>2, <1>5
<1>8. new.owners \in Seq(Borrowers) /\ Len(new.owners) = n - 1
      /\ new.index \in [Borrowers -> Nat]
  BY <1>1, <1>2, <1>3, <1>4, <1>6
<1>9. \A k, l \in 1..n : o[k] = o[l] => k = l
  BY <1>1
<1>10. last = o[n]
  BY DEF last, o, n
<1>11. ASSUME NEW k \in 1..(n - 1) PROVE new.index[new.owners[k]] = k - 1
  <2>1. CASE k = slot + 1
    BY <1>1, <1>2, <1>3, <1>4, <1>7, <2>1
  <2>2. CASE k # slot + 1
    <3>1. new.owners[k] = o[k] /\ o[k] # last
      BY <1>2, <1>7, <1>9, <1>10, <2>2
    <3>2. o[k] \in Borrowers
      BY <1>1, <1>7
    <3> QED BY <1>1, <1>3, <1>4, <1>7, <3>1, <3>2
  <2> QED BY <2>1, <2>2
<1>12. ToSet(new.owners) = S \ {b}
  <2>1. ToSet(new.owners) = {new.owners[k] : k \in 1..(n - 1)}
    BY <1>8, ListFacts
  <2>2. ASSUME NEW k \in 1..(n - 1) PROVE new.owners[k] \in S \ {b}
    <3>1. CASE k = slot + 1
      <4>1. new.owners[k] = o[n] /\ n # slot + 1
        BY <1>7, <1>10, <3>1
      <4> QED BY <1>1, <1>2, <1>9, <4>1
    <3>2. CASE k # slot + 1
      BY <1>1, <1>2, <1>7, <1>9, <3>2
    <3> QED BY <3>1, <3>2
  <2>3. ASSUME NEW k \in 1..n, o[k] # b PROVE \E l \in 1..(n - 1) : new.owners[l] = o[k]
    <3>1. CASE k = n
      <4>1. slot + 1 \in 1..(n - 1)
        BY <1>1, <1>2, <2>3, <3>1
      <4> QED BY <1>7, <1>10, <3>1, <4>1
    <3>2. CASE k # n
      <4>1. k \in 1..(n - 1)
        BY <1>1, <3>2
      <4> QED BY <1>2, <1>7, <2>3, <4>1
    <3> QED BY <3>1, <3>2
  <2>4. \A y \in ToSet(new.owners) : y \in S \ {b}
    BY <2>1, <2>2
  <2>5. \A y \in S \ {b} : y \in ToSet(new.owners)
    BY <1>1, <2>1, <2>3
  <2> QED BY <2>4, <2>5
<1> QED
  BY <1>8, <1>11, <1>12 DEF ArrayOf, new

OwnersIs(h, bs, D) ==
  h = [s \in SUBSET D |->
        IF s = {} THEN [owners |-> TroveOwners, index |-> arrayIndex]
        ELSE SwapRemove(h[s \ {Max(s)}], bs[Max(s)])]

(* RemoveTroveOwners opened down to the CHOOSE of its fold. *)
LEMMA OwnersIsChosen ==
  ASSUME NEW bs
  PROVE  RemoveTroveOwners(bs) = (CHOOSE h : OwnersIs(h, bs, DOMAIN bs))[DOMAIN bs]
BY Zenon DEF RemoveTroveOwners, FoldLeft, MapThenFoldSet, OwnersIs

(* RemoveTroveOwners is the last of the steps that remove one owner each. *)
LEMMA OwnersSteps ==
  ASSUME NEW E, NEW bs \in Seq(E)
  PROVE  \E r : /\ Steps(r, "swap", 0, [owners |-> TroveOwners, index |-> arrayIndex], bs)
               /\ r[Len(bs)] = RemoveTroveOwners(bs)
<1> DEFINE base == [owners |-> TroveOwners, index |-> arrayIndex]
           h == CHOOSE h : OwnersIs(h, bs, 1..Len(bs))
<1>1. Len(bs) \in Nat /\ DOMAIN bs = 1..Len(bs)
  BY ListFacts
<1>2. \A g : LoopIs(g, "swap", 0, base, bs, 1..Len(bs)) <=> OwnersIs(g, bs, 1..Len(bs))
  BY DEF LoopIs, OwnersIs, LoopBody
<1>3. LoopIs(h, "swap", 0, base, bs, 1..Len(bs))
  BY <1>1, <1>2, LoopExists
<1>4. RemoveTroveOwners(bs) = h[1..Len(bs)]
  BY <1>1, OwnersIsChosen
<1> HIDE DEF h, base
<1>5. \E r : Steps(r, "swap", 0, base, bs) /\ r[Len(bs)] = h[1..Len(bs)]
  BY <1>1, <1>3, LoopSteps
<1> QED
  BY <1>4, <1>5 DEF base

(* Closing several troves, in any order, leaves the array of the others.   *)
LEMMA OwnersRemoved ==
  ASSUME NEW S, ArrayOf([owners |-> TroveOwners, index |-> arrayIndex], S),
         NEW bs \in Seq(S), IsInjective(bs)
  PROVE  ArrayOf(RemoveTroveOwners(bs), S \ ToSet(bs))
<1> DEFINE m == Len(bs)
<1>1. m \in Nat /\ bs \in [1..m -> S] /\ ToSet(bs) = {bs[i] : i \in 1..m} /\ DOMAIN bs = 1..m
  BY ListFacts
<1>2. PICK r : /\ Steps(r, "swap", 0, [owners |-> TroveOwners, index |-> arrayIndex], bs)
               /\ r[m] = RemoveTroveOwners(bs)
  BY OwnersSteps
<1>3. /\ r[0] = [owners |-> TroveOwners, index |-> arrayIndex]
      /\ \A i \in 1..m : r[i] = SwapRemove(r[i - 1], bs[i])
  BY <1>2 DEF Steps, LoopBody
<1> DEFINE Rest(i) == S \ {bs[k] : k \in 1..i}
           T == {i \in 0..m : ArrayOf(r[i], Rest(i))}
<1> HIDE DEF m
<1>4. 0 \in T
  <2>1. Rest(0) = S
    BY FirstPositions
  <2> HIDE DEF Rest
  <2> QED BY <1>1, <1>3, <2>1
<1>5. ASSUME NEW i \in 1..m, i - 1 \in T PROVE i \in T
  <2>1. 1..i = (1..(i - 1)) \cup {i} /\ i - 1 \in 0..m /\ i \in 0..m
    BY <1>1, FirstPositions
  <2>2. Rest(i) = Rest(i - 1) \ {bs[i]}
    BY <2>1
  <2>3. bs[i] \in Rest(i - 1)
    <3>1. \A k \in 1..(i - 1) : k \in 1..m /\ k # i
      BY <1>1
    <3>2. \A k \in 1..(i - 1) : bs[k] # bs[i]
      BY <1>1, <3>1 DEF IsInjective
    <3> QED BY <1>1, <3>2
  <2>4. ArrayOf(r[i - 1], Rest(i - 1))
    BY <1>5
  <2> HIDE DEF Rest
  <2>5. ArrayOf(SwapRemove(r[i - 1], bs[i]), Rest(i - 1) \ {bs[i]})
    BY <2>3, <2>4, SwapRemoveFacts
  <2> QED BY <1>3, <2>1, <2>2, <2>5
<1>6. \A i \in 0..m : i \in T
  <2> HIDE DEF T
  <2> QED BY <1>1, <1>4, <1>5, LoopInduction
<1>7. Rest(m) = S \ ToSet(bs)
  BY <1>1
<1>8. ArrayOf(r[m], Rest(m))
  <2> HIDE DEF Rest
  <2> QED BY <1>1, <1>6
<1> HIDE DEF Rest
<1> QED
  BY <1>2, <1>7, <1>8

(* The list is the active troves, each once. *)
ListInv ==
  /\ sortedTroves \in Seq(Borrowers) /\ IsInjective(sortedTroves)
  /\ ToSet(sortedTroves) = ActiveTroves

(* A trove that is not active has no collateral, debt or stake. *)
ClosedTrovesAreEmpty ==
  \A b \in Borrowers \ ActiveTroves :
    Troves[b].coll = 0 /\ Troves[b].debt = 0 /\ Troves[b].stake = 0

(* The inductive invariant of the books. *)
BooksInv ==
  /\ StakesAddUp
  /\ ListInv
  /\ ArrayOf([owners |-> TroveOwners, index |-> arrayIndex], ActiveTroves)
  /\ ClosedTrovesAreEmpty
  /\ MinimumDebtKept
  /\ price > 0

------------------------------------------------------------------------------
(* The loop of the liquidations. *)

LiquidationRuns ==
  [totals : LiquidationTotals, remaining : Nat, systemColl : Int, systemDebt : Int,
   backToNormal : BOOLEAN, stopped : BOOLEAN, closed : Seq(ActiveTroves),
   surplus : [Borrowers -> Nat], movedETH : Nat, movedDebt : Nat, stakes : Nat]

(* The debt and the collateral of the totals are split without remainder,  *)
(* and neither part of the collateral goes where no debt goes.             *)
SplitsExactly(t) ==
  /\ t.debtToOffset + t.debtToRedistribute = t.entireTroveDebt
  /\ t.collGasCompensation + t.collToSendToSP + t.collToRedistribute + t.collSurplus
       = t.entireTroveColl
  /\ t.debtToOffset = 0 => t.collToSendToSP = 0
  /\ t.debtToRedistribute = 0 => t.collToRedistribute = 0

(* The values of one liquidated trove. *)
ValuesFit(vals, b, arthInSP) ==
  /\ vals \in LiquidationTotals
  /\ vals.entireTroveDebt = EntireDebt(b) /\ EntireDebt(b) > 0
  /\ vals.entireTroveColl = EntireColl(b)
  /\ vals.ARTHGasCompensation = ARTH_GAS_COMPENSATION
  /\ vals.debtToOffset <= arthInSP
  /\ SplitsExactly(vals)

DebtOf      == [b \in Borrowers |-> EntireDebt(b)]
CollOf      == [b \in Borrowers |-> EntireColl(b)]
ETHRewardOf == [b \in Borrowers |-> PendingETHReward(b)]
DebtRewardOf == [b \in Borrowers |-> PendingARTHDebtReward(b)]
StakeOf     == [b \in Borrowers |-> Troves[b].stake]

(* The totals of a run are the sums over the troves it has closed.         *)
TotalsAddUp(run) ==
  /\ run.totals.entireTroveDebt = SumFunctionOnSet(DebtOf, Closed(run))
  /\ run.totals.entireTroveColl = SumFunctionOnSet(CollOf, Closed(run))
  /\ run.movedETH = SumFunctionOnSet(ETHRewardOf, Closed(run))
  /\ run.movedDebt = SumFunctionOnSet(DebtRewardOf, Closed(run))
  /\ run.stakes = SumFunctionOnSet(StakeOf, Closed(run))
  /\ run.totals.collSurplus = SumFunction(run.surplus)
  /\ run.totals.ARTHGasCompensation = Len(run.closed) * ARTH_GAS_COMPENSATION

(* Why b may be liquidated, and the surplus its owner keeps. *)
MayBeLiquidated(b, surplus, recovery, p) ==
  \/ CurrentICR(b, p) < MCR /\ surplus = 0
  \/ /\ recovery /\ CurrentICR(b, p) < CCR
     /\ EntireDebt(b) <= stabilityPool.totalARTHDeposits
     /\ surplus = EntireColl(b) - (EntireDebt(b) * MCR) \div p

ClosedRightly(run, recovery, p) ==
  \A b \in Borrowers :
    IF b \in Closed(run) THEN MayBeLiquidated(b, run.surplus[b], recovery, p)
                         ELSE run.surplus[b] = 0

RunBooks(run, recovery, p) ==
  /\ run \in LiquidationRuns
  /\ IsInjective(run.closed)
  /\ run.remaining + run.totals.debtToOffset = stabilityPool.totalARTHDeposits
  /\ SplitsExactly(run.totals)
  /\ TotalsAddUp(run)
  /\ ClosedRightly(run, recovery, p)

RunInv(run, recovery, p) ==
  /\ RunBooks(run, recovery, p)
  /\ recovery /\ ~run.backToNormal => ComputeCR(run.systemColl, run.systemDebt, p) < CCR

(* A run starts with totals of zero, which split exactly. *)
LEMMA ZeroValuesAreTotals ==
  ZeroValues \in LiquidationTotals /\ SplitsExactly(ZeroValues)
BY DEF ZeroValues, LiquidationTotals, SplitsExactly

(* _addLiquidationValuesToTotals adds field by field, and what splits *)
(* exactly splits exactly together.                                   *)
LEMMA AddedValues ==
  ASSUME NEW t \in LiquidationTotals, NEW vals \in LiquidationTotals
  PROVE  /\ AddValues(t, vals) \in LiquidationTotals
         /\ SplitsExactly(t) /\ SplitsExactly(vals) => SplitsExactly(AddValues(t, vals))
         /\ AddValues(t, vals).entireTroveDebt = t.entireTroveDebt + vals.entireTroveDebt
         /\ AddValues(t, vals).entireTroveColl = t.entireTroveColl + vals.entireTroveColl
         /\ AddValues(t, vals).ARTHGasCompensation
              = t.ARTHGasCompensation + vals.ARTHGasCompensation
         /\ AddValues(t, vals).debtToOffset = t.debtToOffset + vals.debtToOffset
         /\ AddValues(t, vals).collSurplus = t.collSurplus + vals.collSurplus
<1> DEFINE s == AddValues(t, vals)
<1>1. DOMAIN t = {"entireTroveDebt", "entireTroveColl", "collGasCompensation",
                  "ARTHGasCompensation", "debtToOffset", "collToSendToSP",
                  "debtToRedistribute", "collToRedistribute", "collSurplus"}
  BY DEF LiquidationTotals
<1>2. s = [f \in {"entireTroveDebt", "entireTroveColl", "collGasCompensation",
                  "ARTHGasCompensation", "debtToOffset", "collToSendToSP",
                  "debtToRedistribute", "collToRedistribute", "collSurplus"} |-> t[f] + vals[f]]
  BY <1>1 DEF AddValues
<1> HIDE DEF s
<1>3. s = [entireTroveDebt |-> t.entireTroveDebt + vals.entireTroveDebt,
           entireTroveColl |-> t.entireTroveColl + vals.entireTroveColl,
           collGasCompensation |-> t.collGasCompensation + vals.collGasCompensation,
           ARTHGasCompensation |-> t.ARTHGasCompensation + vals.ARTHGasCompensation,
           debtToOffset |-> t.debtToOffset + vals.debtToOffset,
           collToSendToSP |-> t.collToSendToSP + vals.collToSendToSP,
           debtToRedistribute |-> t.debtToRedistribute + vals.debtToRedistribute,
           collToRedistribute |-> t.collToRedistribute + vals.collToRedistribute,
           collSurplus |-> t.collSurplus + vals.collSurplus]
  BY <1>2
<1>4. s \in LiquidationTotals
  BY <1>3 DEF LiquidationTotals
<1>5. SplitsExactly(t) /\ SplitsExactly(vals) => SplitsExactly(s)
  BY <1>3 DEF LiquidationTotals, SplitsExactly
<1> QED
  BY <1>3, <1>4, <1>5 DEF s

(* The active troves, and every set of borrowers, are finite. *)
LEMMA ActiveTrovesFinite ==
  /\ ActiveTroves \subseteq Borrowers /\ IsFiniteSet(ActiveTroves)
  /\ IsFiniteSet(Borrowers)
  /\ \A S \in SUBSET Borrowers : IsFiniteSet(S)
<1>1. ActiveTroves \subseteq Borrowers /\ IsFiniteSet(Borrowers)
  BY AddressAssumption DEF ActiveTroves
<1> QED
  BY <1>1, FS_Subset

(* The fields of a run after one more liquidation. *)
LiquidatedFrom(next, run, b, vals) ==
  /\ next.totals = AddValues(run.totals, vals)
  /\ next.remaining = run.remaining - vals.debtToOffset
  /\ next.closed = Append(run.closed, b)
  /\ next.surplus = [run.surplus EXCEPT ![b] = @ + vals.collSurplus]
  /\ next.movedETH = run.movedETH + PendingETHReward(b)
  /\ next.movedDebt = run.movedDebt + PendingARTHDebtReward(b)
  /\ next.stakes = run.stakes + Troves[b].stake
  /\ next.systemColl = run.systemColl /\ next.systemDebt = run.systemDebt
  /\ next.backToNormal = run.backToNormal /\ next.stopped = run.stopped
  /\ next = [totals |-> next.totals, remaining |-> next.remaining,
             systemColl |-> next.systemColl, systemDebt |-> next.systemDebt,
             backToNormal |-> next.backToNormal, stopped |-> next.stopped,
             closed |-> next.closed, surplus |-> next.surplus,
             movedETH |-> next.movedETH, movedDebt |-> next.movedDebt,
             stakes |-> next.stakes]

(* LiquidateInRun, field by field. *)
LEMMA LiquidatedFields ==
  ASSUME NEW run \in LiquidationRuns, NEW vals, vals # ZeroValues, NEW b
  PROVE  LiquidatedFrom(LiquidateInRun(run, b, vals), run, b, vals)
<1> DEFINE next == LiquidateInRun(run, b, vals)
<1>1. next = [run EXCEPT !.totals = AddValues(@, vals),
                         !.remaining = @ - vals.debtToOffset,
                         !.closed = Append(@, b),
                         !.surplus[b] = @ + vals.collSurplus,
                         !.movedETH = @ + PendingETHReward(b),
                         !.movedDebt = @ + PendingARTHDebtReward(b),
                         !.stakes = @ + Troves[b].stake]
  BY Zenon DEF LiquidateInRun
<1>2. DOMAIN run = {"totals", "remaining", "systemColl", "systemDebt", "backToNormal",
                    "stopped", "closed", "surplus", "movedETH", "movedDebt", "stakes"}
  BY DEF LiquidationRuns
<1> HIDE DEF next
<1>3. next.totals = AddValues(run.totals, vals)
  BY <1>1, <1>2
<1>4. next.remaining = run.remaining - vals.debtToOffset
  BY <1>1, <1>2
<1>5. next.closed = Append(run.closed, b)
  BY <1>1, <1>2
<1>6. next.surplus = [run.surplus EXCEPT ![b] = @ + vals.collSurplus]
  BY <1>1, <1>2
<1>7. /\ next.movedETH = run.movedETH + PendingETHReward(b)
      /\ next.movedDebt = run.movedDebt + PendingARTHDebtReward(b)
      /\ next.stakes = run.stakes + Troves[b].stake
  BY <1>1, <1>2
<1>8. /\ next.systemColl = run.systemColl /\ next.systemDebt = run.systemDebt
      /\ next.backToNormal = run.backToNormal /\ next.stopped = run.stopped
  BY <1>1, <1>2
<1>9. DOMAIN next = DOMAIN run /\ next = [f \in DOMAIN next |-> next[f]]
  BY <1>1, Zenon
<1>10. next = [totals |-> next.totals, remaining |-> next.remaining,
               systemColl |-> next.systemColl, systemDebt |-> next.systemDebt,
               backToNormal |-> next.backToNormal, stopped |-> next.stopped,
               closed |-> next.closed, surplus |-> next.surplus,
               movedETH |-> next.movedETH, movedDebt |-> next.movedDebt,
               stakes |-> next.stakes]
  BY <1>2, <1>9
<1> QED
  BY <1>3, <1>4, <1>5, <1>6, <1>7, <1>8, <1>10 DEF next, LiquidatedFrom

(* What one liquidation adds to the run keeps its books. *)
LEMMA LiquidateKeepsRunBooks ==
  ASSUME LedgerInv, NEW p \in Nat \ {0}, NEW recovery \in BOOLEAN,
         NEW run, RunBooks(run, recovery, p),
         NEW b \in ActiveTroves, b \notin Closed(run),
         NEW vals, ValuesFit(vals, b, run.remaining),
         MayBeLiquidated(b, vals.collSurplus, recovery, p)
  PROVE  RunBooks(LiquidateInRun(run, b, vals), recovery, p)
<1> DEFINE next == LiquidateInRun(run, b, vals)
           t == AddValues(run.totals, vals)
<1>1. /\ run \in LiquidationRuns /\ IsInjective(run.closed)
      /\ run.totals \in LiquidationTotals /\ run.remaining \in Nat
      /\ run.closed \in Seq(ActiveTroves) /\ run.surplus \in [Borrowers -> Nat]
      /\ run.movedETH \in Nat /\ run.movedDebt \in Nat /\ run.stakes \in Nat
      /\ run.remaining + run.totals.debtToOffset = stabilityPool.totalARTHDeposits
      /\ SplitsExactly(run.totals)
  BY DEF RunBooks, LiquidationRuns
<1>2. /\ vals \in LiquidationTotals /\ SplitsExactly(vals)
      /\ vals.entireTroveDebt = EntireDebt(b) /\ EntireDebt(b) > 0
      /\ vals.entireTroveColl = EntireColl(b)
      /\ vals.ARTHGasCompensation = ARTH_GAS_COMPENSATION
      /\ vals.debtToOffset <= run.remaining
  BY DEF ValuesFit
<1>3. b \in Borrowers
  BY ActiveTrovesFinite
<1>4. vals # ZeroValues
  BY <1>2 DEF ZeroValues
<1>5. /\ vals.debtToOffset \in Nat /\ vals.collSurplus \in Nat
      /\ PendingETHReward(b) \in Nat /\ PendingARTHDebtReward(b) \in Nat
      /\ Troves[b].stake \in Nat
  BY <1>2, <1>3, PendingRewardsAreAmounts
     DEF LiquidationTotals, LedgerInv, LedgerTypeOK
<1>6. run.surplus[b] = 0
  BY <1>3 DEF RunBooks, ClosedRightly
<1>7. /\ t \in LiquidationTotals /\ SplitsExactly(t)
      /\ t.entireTroveDebt = run.totals.entireTroveDebt + EntireDebt(b)
      /\ t.entireTroveColl = run.totals.entireTroveColl + EntireColl(b)
      /\ t.ARTHGasCompensation = run.totals.ARTHGasCompensation + ARTH_GAS_COMPENSATION
      /\ t.debtToOffset = run.totals.debtToOffset + vals.debtToOffset
      /\ t.collSurplus = run.totals.collSurplus + vals.collSurplus
  BY <1>1, <1>2, AddedValues
<1> HIDE DEF t
<1>17. LiquidatedFrom(next, run, b, vals)
  BY <1>1, <1>4, LiquidatedFields
<1> HIDE DEF next
<1>8. /\ next.totals = t
      /\ next.remaining = run.remaining - vals.debtToOffset
      /\ next.closed = Append(run.closed, b)
      /\ next.movedETH = run.movedETH + PendingETHReward(b)
      /\ next.movedDebt = run.movedDebt + PendingARTHDebtReward(b)
      /\ next.stakes = run.stakes + Troves[b].stake
      /\ next.systemColl = run.systemColl /\ next.systemDebt = run.systemDebt
      /\ next.backToNormal = run.backToNormal /\ next.stopped = run.stopped
  BY <1>17 DEF t, LiquidatedFrom
<1>15. next.surplus = [run.surplus EXCEPT ![b] = @ + vals.collSurplus]
  BY <1>17 DEF LiquidatedFrom
<1>16. next = [totals |-> next.totals, remaining |-> next.remaining,
               systemColl |-> next.systemColl, systemDebt |-> next.systemDebt,
               backToNormal |-> next.backToNormal, stopped |-> next.stopped,
               closed |-> next.closed, surplus |-> next.surplus,
               movedETH |-> next.movedETH, movedDebt |-> next.movedDebt,
               stakes |-> next.stakes]
  BY <1>17 DEF LiquidatedFrom
<1>9. /\ next.closed \in Seq(ActiveTroves) /\ IsInjective(next.closed)
      /\ ToSet(next.closed) = ToSet(run.closed) \cup {b}
      /\ Len(next.closed) = Len(run.closed) + 1 /\ Len(run.closed) \in Nat
  BY <1>1, <1>8, AppendFacts, ListFacts DEF Closed
<1>10. next.surplus \in [Borrowers -> Nat] /\ next.surplus[b] = vals.collSurplus
       /\ \A c \in Borrowers \ {b} : next.surplus[c] = run.surplus[c]
  <2>1. run.surplus[b] + vals.collSurplus = vals.collSurplus
    BY <1>5, <1>6
  <2> QED BY <1>1, <1>3, <1>5, <1>15, <2>1
<1>11. next \in LiquidationRuns
  <2>1. next.remaining \in Nat
    BY <1>1, <1>2, <1>5, <1>8, SMTT(30)
  <2>2. next.movedETH \in Nat /\ next.movedDebt \in Nat /\ next.stakes \in Nat
    <3>1. \A x, y \in Nat : x + y \in Nat
      OBVIOUS
    <3>2. /\ run.movedETH + PendingETHReward(b) \in Nat
          /\ run.movedDebt + PendingARTHDebtReward(b) \in Nat
          /\ run.stakes + Troves[b].stake \in Nat
      BY <1>1, <1>5, <3>1
    <3> QED BY <1>8, <3>2
  <2>3. /\ next.systemColl \in Int /\ next.systemDebt \in Int
        /\ next.backToNormal \in BOOLEAN /\ next.stopped \in BOOLEAN
    BY <1>1, <1>8 DEF LiquidationRuns
  <2>4. next.totals \in LiquidationTotals
    BY <1>7, <1>8
  <2> QED BY <1>9, <1>10, <1>16, <2>1, <2>2, <2>3, <2>4 DEF LiquidationRuns
<1>12. next.remaining + next.totals.debtToOffset = stabilityPool.totalARTHDeposits
  <2>1. run.totals.debtToOffset \in Nat /\ vals.debtToOffset \in Nat /\ run.remaining \in Nat
    BY <1>1, <1>5 DEF LiquidationTotals
  <2>2. run.remaining + run.totals.debtToOffset = stabilityPool.totalARTHDeposits
    BY DEF RunBooks
  <2>3. /\ next.remaining = run.remaining - vals.debtToOffset
        /\ next.totals.debtToOffset = run.totals.debtToOffset + vals.debtToOffset
    BY <1>7, <1>8
  <2>4. \A x, y, z \in Nat : (x - z) + (y + z) = x + y
    OBVIOUS
  <2> QED BY <2>1, <2>2, <2>3, <2>4
<1>13. TotalsAddUp(next)
  <2> DEFINE C == Closed(run)
  <2>1. Closed(next) = C \cup {b} /\ b \notin C /\ C \subseteq Borrowers /\ IsFiniteSet(C)
    BY <1>1, <1>9, ListFacts, ActiveTrovesFinite DEF Closed
  <2>2. \A c \in Borrowers : /\ DebtOf[c] \in Nat /\ CollOf[c] \in Nat /\ ETHRewardOf[c] \in Nat
                             /\ DebtRewardOf[c] \in Nat /\ StakeOf[c] \in Nat
    BY EntireAmounts, PendingRewardsAreAmounts
       DEF DebtOf, CollOf, ETHRewardOf, DebtRewardOf, StakeOf, LedgerInv, LedgerTypeOK
  <2>3. /\ DebtOf[b] = EntireDebt(b) /\ CollOf[b] = EntireColl(b)
        /\ ETHRewardOf[b] = PendingETHReward(b) /\ DebtRewardOf[b] = PendingARTHDebtReward(b)
        /\ StakeOf[b] = Troves[b].stake
    BY <1>3 DEF DebtOf, CollOf, ETHRewardOf, DebtRewardOf, StakeOf
  <2> HIDE DEF C
  <2>4. /\ SumFunctionOnSet(DebtOf, C \cup {b}) = DebtOf[b] + SumFunctionOnSet(DebtOf, C)
        /\ SumFunctionOnSet(CollOf, C \cup {b}) = CollOf[b] + SumFunctionOnSet(CollOf, C)
        /\ SumFunctionOnSet(ETHRewardOf, C \cup {b}) = ETHRewardOf[b] + SumFunctionOnSet(ETHRewardOf, C)
        /\ SumFunctionOnSet(DebtRewardOf, C \cup {b}) = DebtRewardOf[b] + SumFunctionOnSet(DebtRewardOf, C)
        /\ SumFunctionOnSet(StakeOf, C \cup {b}) = StakeOf[b] + SumFunctionOnSet(StakeOf, C)
    <3>1. \A c \in C : /\ DebtOf[c] \in Int /\ CollOf[c] \in Int /\ ETHRewardOf[c] \in Int
                       /\ DebtRewardOf[c] \in Int /\ StakeOf[c] \in Int
      BY <2>1, <2>2
    <3>2. /\ DebtOf[b] \in Int /\ CollOf[b] \in Int /\ ETHRewardOf[b] \in Int
          /\ DebtRewardOf[b] \in Int /\ StakeOf[b] \in Int
      BY <1>3, <2>2
    <3> QED BY <2>1, <3>1, <3>2, SumAdd
  <2>5. SumFunction(next.surplus) = SumFunction(run.surplus) + vals.collSurplus
    <3>1. DOMAIN next.surplus = Borrowers /\ DOMAIN run.surplus = Borrowers
      BY <1>1, <1>10
    <3>2. \A c \in Borrowers : run.surplus[c] \in Int
      BY <1>1
    <3>3. SumFunctionOnSet(next.surplus, Borrowers)
            = SumFunctionOnSet(run.surplus, Borrowers) - run.surplus[b] + next.surplus[b]
      BY <1>3, <1>5, <1>10, <3>2, ActiveTrovesFinite, SumUpdate
    <3>4. SumFunctionOnSet(run.surplus, Borrowers) \in Int
      BY <3>2, ActiveTrovesFinite, SumInt
    <3> QED BY <1>5, <1>6, <1>10, <3>1, <3>3, <3>4 DEF SumFunction
  <2>6. /\ run.totals.entireTroveDebt = SumFunctionOnSet(DebtOf, C)
        /\ run.totals.entireTroveColl = SumFunctionOnSet(CollOf, C)
        /\ run.movedETH = SumFunctionOnSet(ETHRewardOf, C)
        /\ run.movedDebt = SumFunctionOnSet(DebtRewardOf, C)
        /\ run.stakes = SumFunctionOnSet(StakeOf, C)
        /\ run.totals.collSurplus = SumFunction(run.surplus)
        /\ run.totals.ARTHGasCompensation = Len(run.closed) * ARTH_GAS_COMPENSATION
    BY DEF RunBooks, TotalsAddUp, C
  <2>7. Len(next.closed) * ARTH_GAS_COMPENSATION
          = Len(run.closed) * ARTH_GAS_COMPENSATION + ARTH_GAS_COMPENSATION
    <3>1. \A x, y \in Nat : (x + 1) * y = x * y + y
      OBVIOUS
    <3> QED BY <1>9, <3>1, DebtAssumption
  <2>8. /\ t.entireTroveDebt = DebtOf[b] + SumFunctionOnSet(DebtOf, C)
        /\ t.entireTroveColl = CollOf[b] + SumFunctionOnSet(CollOf, C)
        /\ t.collSurplus = SumFunction(next.surplus)
        /\ t.ARTHGasCompensation = Len(next.closed) * ARTH_GAS_COMPENSATION
    <3>1. run.totals.entireTroveDebt \in Nat /\ run.totals.entireTroveColl \in Nat
      BY <1>1 DEF LiquidationTotals
    <3>2. DebtOf[b] \in Nat /\ CollOf[b] \in Nat
      BY <1>3, <2>2
    <3>3. \A x, y \in Nat : x + y = y + x
      OBVIOUS
    <3>4. /\ t.entireTroveDebt = DebtOf[b] + run.totals.entireTroveDebt
          /\ t.entireTroveColl = CollOf[b] + run.totals.entireTroveColl
      BY <1>7, <2>3, <3>1, <3>2, <3>3
    <3>5. t.collSurplus = SumFunction(next.surplus)
      BY <1>7, <2>5, <2>6
    <3>6. t.ARTHGasCompensation = Len(next.closed) * ARTH_GAS_COMPENSATION
      BY <1>7, <2>6, <2>7
    <3> QED BY <2>6, <3>4, <3>5, <3>6
  <2>9. /\ next.movedETH = ETHRewardOf[b] + SumFunctionOnSet(ETHRewardOf, C)
        /\ next.movedDebt = DebtRewardOf[b] + SumFunctionOnSet(DebtRewardOf, C)
        /\ next.stakes = StakeOf[b] + SumFunctionOnSet(StakeOf, C)
    <3>1. \A x, y \in Nat : x + y = y + x
      OBVIOUS
    <3>2. /\ next.movedETH = run.movedETH + ETHRewardOf[b]
          /\ next.movedDebt = run.movedDebt + DebtRewardOf[b]
          /\ next.stakes = run.stakes + StakeOf[b]
      BY <1>8, <2>3
    <3>3. /\ run.movedETH \in Nat /\ run.movedDebt \in Nat /\ run.stakes \in Nat
          /\ ETHRewardOf[b] \in Nat /\ DebtRewardOf[b] \in Nat /\ StakeOf[b] \in Nat
      BY <1>1, <1>3, <2>2
    <3>4. /\ run.movedETH + ETHRewardOf[b] = ETHRewardOf[b] + run.movedETH
          /\ run.movedDebt + DebtRewardOf[b] = DebtRewardOf[b] + run.movedDebt
          /\ run.stakes + StakeOf[b] = StakeOf[b] + run.stakes
      BY <3>1, <3>3
    <3> QED BY <2>6, <3>2, <3>4
  <2> QED BY <1>8, <2>1, <2>4, <2>8, <2>9 DEF TotalsAddUp
<1>14. ClosedRightly(next, recovery, p)
  <2> SUFFICES ASSUME NEW c \in Borrowers
               PROVE  IF c \in Closed(next)
                      THEN MayBeLiquidated(c, next.surplus[c], recovery, p)
                      ELSE next.surplus[c] = 0
    BY DEF ClosedRightly
  <2>1. c \in Closed(next) <=> c \in Closed(run) \/ c = b
    BY <1>9 DEF Closed
  <2>2. IF c \in Closed(run) THEN MayBeLiquidated(c, run.surplus[c], recovery, p)
                             ELSE run.surplus[c] = 0
    BY DEF RunBooks, ClosedRightly
  <2>3. CASE c = b
    BY <1>10, <2>1, <2>3
  <2>4. CASE c # b
    BY <1>10, <2>1, <2>2, <2>4
  <2> QED BY <2>3, <2>4
<1> QED
  BY <1>7, <1>8, <1>9, <1>11, <1>12, <1>13, <1>14 DEF RunBooks, next

(* What every liquidation starts from. *)
LEMMA EntireValuesFields ==
  ASSUME NEW b
  PROVE  EntireValues(b)
           = [entireTroveDebt |-> EntireDebt(b), entireTroveColl |-> EntireColl(b),
              collGasCompensation |-> CollGasCompensation(EntireColl(b)),
              ARTHGasCompensation |-> ARTH_GAS_COMPENSATION,
              debtToOffset |-> 0, collToSendToSP |-> 0,
              debtToRedistribute |-> 0, collToRedistribute |-> 0, collSurplus |-> 0]
<1> DEFINE d == EntireDebt(b)
           c == EntireColl(b)
           g == CollGasCompensation(c)
           z == ZeroValues
           e == EntireValues(b)
<1>1. e = [z EXCEPT !.entireTroveDebt = d, !.entireTroveColl = c,
                    !.collGasCompensation = g, !.ARTHGasCompensation = ARTH_GAS_COMPENSATION]
  BY DEF EntireValues
<1>2. z = [entireTroveDebt |-> 0, entireTroveColl |-> 0, collGasCompensation |-> 0,
           ARTHGasCompensation |-> 0, debtToOffset |-> 0, collToSendToSP |-> 0,
           debtToRedistribute |-> 0, collToRedistribute |-> 0, collSurplus |-> 0]
  BY DEF ZeroValues
<1> HIDE DEF d, c, g, z, e
<1>3. e = [entireTroveDebt |-> d, entireTroveColl |-> c, collGasCompensation |-> g,
           ARTHGasCompensation |-> ARTH_GAS_COMPENSATION,
           debtToOffset |-> 0, collToSendToSP |-> 0,
           debtToRedistribute |-> 0, collToRedistribute |-> 0, collSurplus |-> 0]
  BY <1>1, <1>2
<1> QED
  BY <1>3 DEF d, c, g, e

(* The values of a liquidation at 110% and below fit. *)
LEMMA NormalModeValuesFit ==
  ASSUME LedgerInv, NEW b \in Borrowers, NEW arthInSP \in Nat, EntireDebt(b) > 0
  PROVE  /\ ValuesFit(NormalModeValues(b, arthInSP), b, arthInSP)
         /\ NormalModeValues(b, arthInSP).collSurplus = 0
<1> DEFINE vals == NormalModeValues(b, arthInSP)
           D == EntireDebt(b)
           C == EntireColl(b)
           coll == C - CollGasCompensation(C)
           offset == MinOf(D, arthInSP)
           toSP == IF arthInSP > 0 THEN (coll * offset) \div D ELSE 0
<1>1. D \in Nat \ {0} /\ C \in Nat
  BY EntireAmounts
<1>2. CollGasCompensation(C) \in Nat /\ coll \in Nat
  BY <1>1, CompensationFits
<1>3. vals = [entireTroveDebt |-> D, entireTroveColl |-> C,
              collGasCompensation |-> CollGasCompensation(C),
              ARTHGasCompensation |-> ARTH_GAS_COMPENSATION, debtToOffset |-> offset,
              collToSendToSP |-> toSP, debtToRedistribute |-> D - offset,
              collToRedistribute |-> coll - toSP, collSurplus |-> 0]
  <2> DEFINE E == EntireValues(b)
             x == D - offset
             y == coll - toSP
  <2>1. E = [entireTroveDebt |-> D, entireTroveColl |-> C,
             collGasCompensation |-> CollGasCompensation(C),
             ARTHGasCompensation |-> ARTH_GAS_COMPENSATION,
             debtToOffset |-> 0, collToSendToSP |-> 0,
             debtToRedistribute |-> 0, collToRedistribute |-> 0, collSurplus |-> 0]
    BY EntireValuesFields
  <2> HIDE DEF E, D, C
  <2>2. E.entireTroveDebt = D /\ CollToLiquidate(E) = coll
    BY <2>1 DEF CollToLiquidate
  <2>3. vals = [E EXCEPT !.debtToOffset = offset, !.collToSendToSP = toSP,
                         !.debtToRedistribute = x, !.collToRedistribute = y]
    BY <2>2 DEF NormalModeValues, OffsetAndRedistribution, E
  <2> HIDE DEF vals, offset, toSP, coll, x, y
  <2>4. vals = [entireTroveDebt |-> D, entireTroveColl |-> C,
                collGasCompensation |-> CollGasCompensation(C),
                ARTHGasCompensation |-> ARTH_GAS_COMPENSATION, debtToOffset |-> offset,
                collToSendToSP |-> toSP, debtToRedistribute |-> x,
                collToRedistribute |-> y, collSurplus |-> 0]
    BY <2>1, <2>3
  <2> QED BY <2>4 DEF x, y
<1>4. /\ vals.debtToOffset \in Nat /\ vals.debtToRedistribute \in Nat
      /\ vals.collToSendToSP \in Nat /\ vals.collToRedistribute \in Nat
      /\ vals.debtToOffset <= arthInSP
      /\ vals.debtToOffset + vals.debtToRedistribute = D
      /\ vals.collGasCompensation + vals.collToSendToSP + vals.collToRedistribute = C
  BY LiquidationSplitsExactly
<1> HIDE DEF vals, D, C, coll, offset
<1>5. offset = 0 => toSP = 0
  <2>1. \A x \in Nat, y \in Nat \ {0} : (x * 0) \div y = 0
    OBVIOUS
  <2> QED BY <1>1, <1>2, <2>1
<1>6. D - offset = 0 => coll - toSP = 0
  <2>1. \A x \in Nat, y \in Nat \ {0} : (x * y) \div y = x
    OBVIOUS
  <2>2. offset \in Nat /\ (offset = D => arthInSP > 0)
    BY <1>1 DEF offset, MinOf
  <2>3. offset = D => toSP = coll
    BY <1>1, <1>2, <2>1, <2>2
  <2> QED BY <1>1, <1>2, <2>2, <2>3
<1> HIDE DEF toSP
<1>7. vals \in LiquidationTotals
  BY <1>1, <1>2, <1>3, <1>4, DebtAssumption DEF LiquidationTotals
<1>8. SplitsExactly(vals)
  <2>1. vals.collSurplus = 0 /\ vals.collGasCompensation \in Nat
        /\ vals.entireTroveDebt = D /\ vals.entireTroveColl = C
    BY <1>2, <1>3
  <2>2. /\ vals.debtToOffset = 0 => vals.collToSendToSP = 0
        /\ vals.debtToRedistribute = 0 => vals.collToRedistribute = 0
    BY <1>3, <1>5, <1>6
  <2> QED BY <1>4, <2>1, <2>2 DEF SplitsExactly
<1>9. /\ vals.entireTroveDebt = D /\ vals.entireTroveColl = C /\ vals.collSurplus = 0
      /\ vals.ARTHGasCompensation = ARTH_GAS_COMPENSATION
  BY <1>3
<1> QED
  BY <1>4, <1>7, <1>8, <1>9 DEF ValuesFit, vals, D, C

(* The values of a capped liquidation fit. *)
LEMMA CappedValuesFit ==
  ASSUME LedgerInv, NEW b \in Borrowers, NEW p \in Nat \ {0}, NEW arthInSP \in Nat,
         EntireDebt(b) > 0, CurrentICR(b, p) >= MCR, EntireDebt(b) <= arthInSP
  PROVE  /\ ValuesFit(CappedOffsetValues(b, p), b, arthInSP)
         /\ CappedOffsetValues(b, p).collSurplus
              = EntireColl(b) - (EntireDebt(b) * MCR) \div p
<1> DEFINE vals == CappedOffsetValues(b, p)
           D == EntireDebt(b)
           C == EntireColl(b)
           capped == (D * MCR) \div p
           gas == CollGasCompensation(capped)
<1>1. D \in Nat \ {0} /\ C \in Nat
  BY EntireAmounts
<1>2. vals = [entireTroveDebt |-> D, entireTroveColl |-> C, collGasCompensation |-> gas,
              ARTHGasCompensation |-> ARTH_GAS_COMPENSATION, debtToOffset |-> D,
              collToSendToSP |-> capped - gas, debtToRedistribute |-> 0,
              collToRedistribute |-> 0, collSurplus |-> C - capped]
  <2> DEFINE E == EntireValues(b)
             x == capped - gas
             y == C - capped
  <2>1. E = [entireTroveDebt |-> D, entireTroveColl |-> C,
             collGasCompensation |-> CollGasCompensation(C),
             ARTHGasCompensation |-> ARTH_GAS_COMPENSATION,
             debtToOffset |-> 0, collToSendToSP |-> 0,
             debtToRedistribute |-> 0, collToRedistribute |-> 0, collSurplus |-> 0]
    BY EntireValuesFields
  <2> HIDE DEF E, D, C
  <2>2. E.entireTroveDebt = D /\ E.entireTroveColl = C
    BY <2>1
  <2>3. vals = [E EXCEPT !.collGasCompensation = gas, !.debtToOffset = D,
                         !.collToSendToSP = x, !.collSurplus = y]
    BY <2>2 DEF CappedOffsetValues, E
  <2> HIDE DEF vals, gas, capped, x, y
  <2>4. vals = [entireTroveDebt |-> D, entireTroveColl |-> C, collGasCompensation |-> gas,
                ARTHGasCompensation |-> ARTH_GAS_COMPENSATION, debtToOffset |-> D,
                collToSendToSP |-> x, debtToRedistribute |-> 0,
                collToRedistribute |-> 0, collSurplus |-> y]
    BY <2>1, <2>3
  <2> QED BY <2>4 DEF x, y
<1>3. /\ vals.collGasCompensation \in Nat /\ vals.collToSendToSP \in Nat
      /\ vals.collSurplus \in Nat
      /\ vals.collGasCompensation + vals.collToSendToSP + vals.collSurplus = C
  BY CappedLiquidationSplitsExactly
<1> HIDE DEF vals, gas, capped, D, C
<1>4. vals \in LiquidationTotals
  BY <1>1, <1>2, <1>3, DebtAssumption DEF LiquidationTotals
<1>5. /\ vals.entireTroveDebt = D /\ vals.entireTroveColl = C /\ vals.debtToOffset = D
      /\ vals.ARTHGasCompensation = ARTH_GAS_COMPENSATION /\ vals.collSurplus = C - capped
      /\ vals.debtToRedistribute = 0 /\ vals.collToRedistribute = 0
  BY <1>2
<1>6. SplitsExactly(vals)
  BY <1>1, <1>3, <1>5 DEF SplitsExactly
<1> QED
  BY <1>1, <1>4, <1>5, <1>6 DEF ValuesFit, vals, D, C, capped

(* A trove without debt has the largest ratio, and so has a closed one. *)
LEMMA RatioNeedsDebt ==
  ASSUME LedgerInv, NEW b \in Borrowers, NEW p \in Nat, CurrentICR(b, p) < MaxUint
  PROVE  EntireDebt(b) > 0
BY EntireAmounts, PrecisionAssumption DEF CurrentICR, ComputeCR

(* The ratio of a trove that is not active is the largest number: it has no *)
(* debt.                                                                    *)
LEMMA InactiveRatio ==
  ASSUME LedgerInv, ClosedTrovesAreEmpty, NEW b \in Borrowers \ ActiveTroves, NEW p
  PROVE  CurrentICR(b, p) = MaxUint
<1>1. EntireDebt(b) = 0
  BY DEF ClosedTrovesAreEmpty, ActiveTroves, EntireDebt, PendingARTHDebtReward
<1> QED
  BY <1>1 DEF CurrentICR, ComputeCR

(* Ratios are integers. *)
LEMMA RatioType ==
  ASSUME NEW coll \in Int, NEW debt \in Int, NEW p \in Nat
  PROVE  ComputeCR(coll, debt, p) \in Int
BY PrecisionAssumption DEF ComputeCR

(* The books of a run do not depend on what else the loop keeps. *)
LEMMA SameRunBooks ==
  ASSUME NEW recovery, NEW p, NEW run, RunBooks(run, recovery, p), NEW next,
         next \in LiquidationRuns,
         next.totals = run.totals, next.remaining = run.remaining,
         next.closed = run.closed, next.surplus = run.surplus,
         next.movedETH = run.movedETH, next.movedDebt = run.movedDebt,
         next.stakes = run.stakes
  PROVE  RunBooks(next, recovery, p)
BY DEF RunBooks, TotalsAddUp, ClosedRightly, Closed

(* A trove that is passed over, where a sequence stops and a batch goes on, *)
(* changes nothing of the run.                                              *)
LEMMA PassOverKeepsRunBooks ==
  ASSUME NEW recovery, NEW p, NEW run, RunBooks(run, recovery, p), NEW isBatch \in BOOLEAN
  PROVE  /\ RunBooks(PassOver(run, isBatch), recovery, p)
         /\ PassOver(run, isBatch).backToNormal = run.backToNormal
         /\ PassOver(run, isBatch).systemColl = run.systemColl
         /\ PassOver(run, isBatch).systemDebt = run.systemDebt
<1> DEFINE next == PassOver(run, isBatch)
<1>1. run \in LiquidationRuns
  BY DEF RunBooks
<1>2. /\ next \in LiquidationRuns
      /\ next.totals = run.totals /\ next.remaining = run.remaining
      /\ next.closed = run.closed /\ next.surplus = run.surplus
      /\ next.movedETH = run.movedETH /\ next.movedDebt = run.movedDebt
      /\ next.stakes = run.stakes
      /\ next.backToNormal = run.backToNormal
      /\ next.systemColl = run.systemColl /\ next.systemDebt = run.systemDebt
  BY <1>1 DEF PassOver, LiquidationRuns
<1> HIDE DEF next
<1>3. RunBooks(next, recovery, p)
  BY <1>2, SameRunBooks
<1> QED
  BY <1>2, <1>3 DEF next

(* Liquidation of one more trove, or of none, as far as the books go.      *)
LEMMA LiquidateInRunKeepsBooks ==
  ASSUME LedgerInv, NEW p \in Nat \ {0}, NEW recovery \in BOOLEAN,
         NEW run, RunBooks(run, recovery, p), NEW b, NEW vals,
         \/ vals = ZeroValues
         \/ /\ b \in ActiveTroves /\ b \notin Closed(run)
            /\ ValuesFit(vals, b, run.remaining)
            /\ MayBeLiquidated(b, vals.collSurplus, recovery, p)
  PROVE  LET next == LiquidateInRun(run, b, vals)
         IN  /\ RunBooks(next, recovery, p)
             /\ next.backToNormal = run.backToNormal
             /\ next.systemColl = run.systemColl /\ next.systemDebt = run.systemDebt
<1>1. CASE vals = ZeroValues
  BY <1>1 DEF LiquidateInRun
<1>2. CASE vals # ZeroValues
  <2>1. LiquidatedFrom(LiquidateInRun(run, b, vals), run, b, vals)
    BY <1>2, LiquidatedFields DEF RunBooks
  <2>2. RunBooks(LiquidateInRun(run, b, vals), recovery, p)
    BY <1>2, LiquidateKeepsRunBooks
  <2> QED BY <2>1, <2>2 DEF LiquidatedFrom
<1> QED
  BY <1>1, <1>2

(* One pass of the loop in normal mode. *)
LEMMA NormalModeStepKeepsBooks ==
  ASSUME LedgerInv, ClosedTrovesAreEmpty, NEW p \in Nat \ {0}, NEW recovery \in BOOLEAN,
         NEW run, RunBooks(run, recovery, p), NEW b \in Borrowers, NEW isBatch \in BOOLEAN
  PROVE  /\ RunBooks(NormalModeStep(run, b, isBatch, p), recovery, p)
         /\ NormalModeStep(run, b, isBatch, p).backToNormal = run.backToNormal
<1>1. CASE run.stopped
  BY <1>1 DEF NormalModeStep
<1>2. CASE ~run.stopped /\ ICRInRun(run, b, p) < MCR
  <2> DEFINE vals == NormalModeValues(b, run.remaining)
  <2>1. MCR \in Nat /\ MaxUint \in Nat /\ MCR < MaxUint
    BY PrecisionAssumption, RateAssumption
  <2>2. b \notin Closed(run) /\ CurrentICR(b, p) < MCR
    BY <1>2, <2>1 DEF ICRInRun
  <2>3. b \in ActiveTroves
    BY <2>1, <2>2, InactiveRatio
  <2>4. CurrentICR(b, p) \in Int
    BY EntireAmounts, RatioType DEF CurrentICR
  <2>5. EntireDebt(b) > 0
    BY <2>1, <2>2, <2>4, RatioNeedsDebt
  <2>6. run.remaining \in Nat
    BY DEF RunBooks, LiquidationRuns
  <2>7. ValuesFit(vals, b, run.remaining) /\ vals.collSurplus = 0
    BY <2>5, <2>6, NormalModeValuesFit
  <2>8. MayBeLiquidated(b, vals.collSurplus, recovery, p)
    BY <2>2, <2>7 DEF MayBeLiquidated
  <2>9. NormalModeStep(run, b, isBatch, p) = LiquidateInRun(run, b, vals)
    BY <1>2 DEF NormalModeStep
  <2> HIDE DEF vals
  <2> QED BY <2>2, <2>3, <2>7, <2>8, <2>9, LiquidateInRunKeepsBooks
<1>3. CASE ~run.stopped /\ ~(ICRInRun(run, b, p) < MCR)
  <2>1. NormalModeStep(run, b, isBatch, p) = PassOver(run, isBatch)
    BY <1>3 DEF NormalModeStep
  <2> QED BY <2>1, PassOverKeepsRunBooks
<1> QED
  BY <1>1, <1>2, <1>3

(* The normal mode's loop does not change the mode. *)
LEMMA NormalModeStepKeepsMode ==
  ASSUME NEW run \in LiquidationRuns, NEW b, NEW isBatch, NEW p
  PROVE  NormalModeStep(run, b, isBatch, p).backToNormal = run.backToNormal
<1> DEFINE vals == NormalModeValues(b, run.remaining)
<1>1. LiquidateInRun(run, b, vals).backToNormal = run.backToNormal
  <2> HIDE DEF vals
  <2>1. CASE vals = ZeroValues
    BY <2>1 DEF LiquidateInRun
  <2>2. CASE vals # ZeroValues
    <3>1. LiquidatedFrom(LiquidateInRun(run, b, vals), run, b, vals)
      BY <2>2, LiquidatedFields
    <3> DEFINE next == LiquidateInRun(run, b, vals)
    <3> HIDE DEF next
    <3>2. next.backToNormal = run.backToNormal
      BY <3>1, Zenon DEF LiquidatedFrom, next
    <3> QED BY <3>2 DEF next
  <2> QED BY <2>1, <2>2
<1>2. PassOver(run, isBatch).backToNormal = run.backToNormal
  BY DEF PassOver
<1> QED
  BY <1>1, <1>2 DEF NormalModeStep

(* What a liquidation in recovery mode may make of a trove. *)
LEMMA RecoveryValuesCases ==
  ASSUME NEW b, NEW icr \in Int, NEW arthInSP, NEW tcr \in Int, NEW left \in Int, NEW p
  PROVE  LET vals == RecoveryModeValues(b, icr, arthInSP, tcr, left, p)
         IN  \/ vals = ZeroValues
             \/ icr < MCR /\ vals = NormalModeValues(b, 0)
             \/ icr < MCR /\ vals = NormalModeValues(b, arthInSP)
             \/ /\ MCR <= icr /\ icr < tcr /\ EntireDebt(b) <= arthInSP
                /\ vals = CappedOffsetValues(b, p)
<1>1. OneHundredPct \in Nat /\ MCR \in Nat /\ OneHundredPct < MCR
  BY PrecisionAssumption, RateAssumption DEF OneHundredPct
<1>2. EntireValues(b).entireTroveDebt = EntireDebt(b)
  BY EntireValuesFields
<1>3. NormalModeValues(b, 0)
        = OffsetAndRedistribution(EntireValues(b), CollToLiquidate(EntireValues(b)), 0)
  BY DEF NormalModeValues
<1> QED
  BY <1>1, <1>2, <1>3 DEF RecoveryModeValues

(* One pass of the loop in recovery mode. *)
LEMMA RecoveryModeStepKeepsRun ==
  ASSUME LedgerInv, ClosedTrovesAreEmpty, NEW p \in Nat \ {0}, NEW recovery \in BOOLEAN, recovery,
         NEW run, RunInv(run, recovery, p), NEW b \in Borrowers, NEW isBatch \in BOOLEAN,
         Len(TroveOwners) \in Nat
  PROVE  RunInv(RecoveryModeStep(run, b, isBatch, p), recovery, p)
<1> DEFINE icr == ICRInRun(run, b, p)
           tcr == ComputeCR(run.systemColl, run.systemDebt, p)
           left == Len(TroveOwners) - Len(run.closed)
           vals == RecoveryModeValues(b, icr, run.remaining, tcr, left, p)
           next == RecoveryModeStep(run, b, isBatch, p)
<1>0. RunBooks(run, recovery, p)
  BY DEF RunInv
<1>1. RunBooks(run, recovery, p) /\ (~run.backToNormal => tcr < CCR)
  BY DEF RunInv
<1>2. /\ run.systemColl \in Int /\ run.systemDebt \in Int /\ run.remaining \in Nat
      /\ run.closed \in Seq(ActiveTroves) /\ run.backToNormal \in BOOLEAN
  BY <1>1 DEF RunBooks, LiquidationRuns
<1>3. MCR \in Nat /\ CCR \in Nat /\ MaxUint \in Nat /\ MCR < CCR /\ CCR < MaxUint
      /\ p \in Nat
  BY PrecisionAssumption, RateAssumption
<1>4. tcr \in Int /\ CurrentICR(b, p) \in Int
  <2>1. EntireColl(b) \in Int /\ EntireDebt(b) \in Int
    BY EntireAmounts
  <2> QED BY <1>2, <1>3, <2>1, RatioType DEF CurrentICR
<1>5. icr \in Int /\ left \in Int
  BY <1>2, <1>3, <1>4, ListFacts DEF ICRInRun
<1>6. CASE run.stopped \/ (isBatch /\ (b \in Closed(run) \/ ~IsActive(b)))
  <2>1. next = run
    BY <1>6 DEF RecoveryModeStep
  <2> QED BY <2>1
<1>7. CASE ~(run.stopped \/ (isBatch /\ (b \in Closed(run) \/ ~IsActive(b))))
           /\ run.backToNormal
  <2>1. next = NormalModeStep(run, b, isBatch, p)
    BY <1>7 DEF RecoveryModeStep
  <2>2. RunBooks(NormalModeStep(run, b, isBatch, p), recovery, p)
    <3> HIDE DEF icr, tcr, left, vals, next
    <3> QED BY <1>0, NormalModeStepKeepsBooks
  <2>5. NormalModeStep(run, b, isBatch, p).backToNormal = run.backToNormal
    <3> HIDE DEF icr, tcr, left, vals, next
    <3> QED BY <1>0, NormalModeStepKeepsMode DEF RunBooks
  <2> HIDE DEF next
  <2>3. RunBooks(next, recovery, p) /\ next.backToNormal = run.backToNormal
    BY <2>1, <2>2, <2>5
  <2>4. RunInv(next, recovery, p)
    BY <1>7, <2>3 DEF RunInv
  <2> QED BY <2>4 DEF next
<1>8. CASE ~(run.stopped \/ (isBatch /\ (b \in Closed(run) \/ ~IsActive(b))))
           /\ ~run.backToNormal /\ icr >= MCR /\ run.remaining = 0
  <2>1. next = PassOver(run, isBatch)
    BY <1>8 DEF RecoveryModeStep
  <2>2. RunBooks(PassOver(run, isBatch), recovery, p)
    <3> HIDE DEF icr, tcr, left, vals, next
    <3> QED BY <1>0, PassOverKeepsRunBooks
  <2>5. /\ PassOver(run, isBatch).systemColl = run.systemColl
        /\ PassOver(run, isBatch).systemDebt = run.systemDebt
    BY DEF PassOver
  <2> HIDE DEF next
  <2>3. /\ RunBooks(next, recovery, p)
        /\ next.systemColl = run.systemColl /\ next.systemDebt = run.systemDebt
    BY <2>1, <2>2, <2>5
  <2>4. RunInv(next, recovery, p)
    BY <1>1, <1>8, <2>3 DEF RunInv
  <2> QED BY <2>4 DEF next
<1>9. CASE ~(run.stopped \/ (isBatch /\ (b \in Closed(run) \/ ~IsActive(b))))
           /\ ~run.backToNormal /\ ~(icr >= MCR /\ run.remaining = 0)
  <2> DEFINE after == LiquidateInRun(run, b, vals)
             coll == run.systemColl - vals.collToSendToSP
                       - vals.collGasCompensation - vals.collSurplus
             debt == run.systemDebt - vals.debtToOffset
             normal == ComputeCR(coll, debt, p) >= CCR
  <2>1. next = [after EXCEPT !.systemColl = coll, !.systemDebt = debt,
                             !.backToNormal = normal]
    BY <1>9 DEF RecoveryModeStep, RecoveryLiquidateInRun
  <2>2. \/ vals = ZeroValues
        \/ icr < MCR /\ vals = NormalModeValues(b, 0)
        \/ icr < MCR /\ vals = NormalModeValues(b, run.remaining)
        \/ /\ MCR <= icr /\ icr < tcr /\ EntireDebt(b) <= run.remaining
           /\ vals = CappedOffsetValues(b, p)
    BY <1>4, <1>5, RecoveryValuesCases
  <2> HIDE DEF vals
  <2>3. icr < CCR => b \in ActiveTroves /\ b \notin Closed(run) /\ icr = CurrentICR(b, p)
                     /\ EntireDebt(b) > 0
    <3> SUFFICES ASSUME icr < CCR PROVE b \in ActiveTroves /\ b \notin Closed(run)
                                        /\ icr = CurrentICR(b, p) /\ EntireDebt(b) > 0
      OBVIOUS
    <3>1. b \notin Closed(run) /\ icr = CurrentICR(b, p)
      BY <1>3 DEF ICRInRun
    <3>2. CurrentICR(b, p) < MaxUint /\ CurrentICR(b, p) # MaxUint
      BY <1>3, <1>4, <3>1
    <3> HIDE DEF icr
    <3> QED BY <3>1, <3>2, InactiveRatio, RatioNeedsDebt
  <2>4. \/ vals = ZeroValues
        \/ /\ b \in ActiveTroves /\ b \notin Closed(run)
           /\ ValuesFit(vals, b, run.remaining)
           /\ MayBeLiquidated(b, vals.collSurplus, recovery, p)
    <3>1. CASE icr < MCR /\ vals = NormalModeValues(b, 0)
      <4>1. icr < CCR
        BY <1>3, <1>5, <3>1
      <4>2. ValuesFit(vals, b, 0) /\ vals.collSurplus = 0
        BY <2>3, <3>1, <4>1, NormalModeValuesFit
      <4>3. ValuesFit(vals, b, run.remaining)
        BY <1>2, <4>2 DEF ValuesFit, LiquidationTotals
      <4> QED BY <2>3, <3>1, <4>1, <4>2, <4>3 DEF MayBeLiquidated
    <3>2. CASE icr < MCR /\ vals = NormalModeValues(b, run.remaining)
      <4>1. icr < CCR
        BY <1>3, <1>5, <3>2
      <4>2. ValuesFit(vals, b, run.remaining) /\ vals.collSurplus = 0
        BY <1>2, <2>3, <3>2, <4>1, NormalModeValuesFit
      <4> QED BY <2>3, <3>2, <4>1, <4>2 DEF MayBeLiquidated
    <3>3. CASE /\ MCR <= icr /\ icr < tcr /\ EntireDebt(b) <= run.remaining
               /\ vals = CappedOffsetValues(b, p)
      <4>1. icr < CCR
        BY <1>1, <1>3, <1>4, <1>5, <1>9, <3>3
      <4>2. /\ ValuesFit(vals, b, run.remaining)
            /\ vals.collSurplus = EntireColl(b) - (EntireDebt(b) * MCR) \div p
        <5>1. CurrentICR(b, p) >= MCR
          BY <1>3, <1>5, <2>3, <3>3, <4>1
        <5> QED BY <1>2, <2>3, <3>3, <4>1, <5>1, CappedValuesFit
      <4>3. EntireDebt(b) <= stabilityPool.totalARTHDeposits
        <5>1. run.totals.debtToOffset \in Nat
              /\ run.remaining + run.totals.debtToOffset = stabilityPool.totalARTHDeposits
          BY <1>1 DEF RunBooks, LiquidationRuns, LiquidationTotals
        <5>2. EntireDebt(b) \in Nat
          BY EntireAmounts
        <5> QED BY <1>2, <3>3, <5>1, <5>2
      <4> QED BY <2>3, <4>1, <4>2, <4>3 DEF MayBeLiquidated
    <3> QED BY <2>2, <3>1, <3>2, <3>3
  <2>5. RunBooks(after, recovery, p)
    BY <1>1, <2>4, LiquidateInRunKeepsBooks
  <2>6. coll \in Int /\ debt \in Int
    <3>1. vals \in LiquidationTotals
      BY <2>4, ZeroValuesAreTotals DEF ValuesFit
    <3>2. /\ vals.collToSendToSP \in Nat /\ vals.collGasCompensation \in Nat
          /\ vals.collSurplus \in Nat /\ vals.debtToOffset \in Nat
      BY <3>1 DEF LiquidationTotals
    <3>3. \A w \in Int, x, y, z \in Nat : w - x - y - z \in Int /\ w - x \in Int
      OBVIOUS
    <3>4. run.systemColl - vals.collToSendToSP - vals.collGasCompensation
            - vals.collSurplus \in Int
      BY <1>2, <3>2, <3>3
    <3>5. run.systemDebt - vals.debtToOffset \in Int
      BY <1>2, <3>2, <3>3
    <3> QED BY <3>4, <3>5
  <2> HIDE DEF after, coll, debt
  <2>7. normal \in BOOLEAN
    OBVIOUS
  <2> HIDE DEF normal, next
  <2>8. after \in LiquidationRuns
    BY <2>5 DEF RunBooks
  <2>9. /\ next \in LiquidationRuns
        /\ next.totals = after.totals /\ next.remaining = after.remaining
        /\ next.closed = after.closed /\ next.surplus = after.surplus
        /\ next.movedETH = after.movedETH /\ next.movedDebt = after.movedDebt
        /\ next.stakes = after.stakes
        /\ next.systemColl = coll /\ next.systemDebt = debt /\ next.backToNormal = normal
    BY <2>1, <2>6, <2>7, <2>8 DEF LiquidationRuns
  <2>10. RunBooks(next, recovery, p)
    BY <2>5, <2>9, SameRunBooks
  <2>11. ~next.backToNormal => ComputeCR(next.systemColl, next.systemDebt, p) < CCR
    <3>1. ComputeCR(coll, debt, p) \in Int
      BY <2>6, RatioType
    <3> SUFFICES ASSUME ~next.backToNormal
                 PROVE  ComputeCR(next.systemColl, next.systemDebt, p) < CCR
      OBVIOUS
    <3>2. ~normal
      BY <2>9, Zenon
    <3>3. ComputeCR(coll, debt, p) < CCR
      BY <1>3, <3>1, <3>2 DEF normal
    <3> QED BY <2>9, <3>3
  <2> QED BY <2>10, <2>11 DEF RunInv, next
<1> QED
  BY <1>6, <1>7, <1>8, <1>9

------------------------------------------------------------------------------
(* The whole loop. *)

LiquidationStep(run, b, c) ==
  IF c.recovery THEN RecoveryModeStep(run, b, c.isBatch, c.p)
  ELSE NormalModeStep(run, b, c.isBatch, c.p)

LiquidationIs(h, c, list, D) ==
  h = [s \in SUBSET D |->
        IF s = {} THEN NewRun
        ELSE IF c.recovery
             THEN RecoveryModeStep(h[s \ {Max(s)}], list[Max(s)], c.isBatch, c.p)
             ELSE NormalModeStep(h[s \ {Max(s)}], list[Max(s)], c.isBatch, c.p)]

(* The run over a list of troves opened down to the CHOOSE of its fold. *)
LEMMA LiquidationIsChosen ==
  ASSUME NEW list, NEW isBatch, NEW recovery, NEW p, NEW c,
         c.recovery = recovery, c.isBatch = isBatch, c.p = p
  PROVE  RunOver(list, isBatch, recovery, p)
           = (CHOOSE h : LiquidationIs(h, c, list, DOMAIN list))[DOMAIN list]
BY Zenon DEF RunOver, FoldLeft, MapThenFoldSet, LiquidationIs

(* Before the loop, nothing is liquidated. *)
LEMMA NewRunHolds ==
  ASSUME LedgerInv, NEW p \in Nat \ {0}, NEW recovery \in BOOLEAN,
         recovery => InRecoveryMode(p)
  PROVE  RunInv(NewRun, recovery, p)
<1> DEFINE zero == [b \in Borrowers |-> 0]
<1>1. /\ NewRun.totals = ZeroValues /\ NewRun.closed = <<>> /\ NewRun.surplus = zero
      /\ NewRun.remaining = stabilityPool.totalARTHDeposits
      /\ NewRun.movedETH = 0 /\ NewRun.movedDebt = 0 /\ NewRun.stakes = 0
      /\ NewRun.systemColl = EntireSystemColl /\ NewRun.systemDebt = EntireSystemDebt
  BY DEF NewRun
<1>2. /\ stabilityPool.totalARTHDeposits \in Nat
      /\ EntireSystemColl \in Int /\ EntireSystemDebt \in Int
  <2>1. /\ activePool.ETH \in Nat /\ activePool.ARTHDebt \in Nat
        /\ defaultPool.ETH \in Nat /\ defaultPool.ARTHDebt \in Nat
    BY DEF LedgerInv, LedgerTypeOK, PoolType
  <2>2. \A x, y \in Nat : x + y \in Int
    OBVIOUS
  <2>3. EntireSystemColl \in Int /\ EntireSystemDebt \in Int
    BY <2>1, <2>2 DEF EntireSystemColl, EntireSystemDebt
  <2> QED BY <2>3 DEF LedgerInv, LedgerTypeOK
<1>3. <<>> \in Seq(ActiveTroves) /\ IsInjective(<<>>) /\ ToSet(<<>>) = {}
  BY DEF IsInjective, ToSet
<1>4. NewRun \in LiquidationRuns
  <2> DEFINE coll == EntireSystemColl
             debt == EntireSystemDebt
             z == ZeroValues
  <2>1. z \in LiquidationTotals /\ zero \in [Borrowers -> Nat]
    BY ZeroValuesAreTotals
  <2>2. NewRun = [totals |-> z, remaining |-> stabilityPool.totalARTHDeposits,
                  systemColl |-> coll, systemDebt |-> debt,
                  backToNormal |-> FALSE, stopped |-> FALSE, closed |-> <<>>,
                  surplus |-> zero, movedETH |-> 0, movedDebt |-> 0, stakes |-> 0]
    BY DEF NewRun
  <2> HIDE DEF zero, coll, debt, z
  <2>3. coll \in Int /\ debt \in Int
    BY <1>2 DEF coll, debt
  <2> QED BY <1>2, <1>3, <2>1, <2>2, <2>3 DEF LiquidationRuns
<1>5. Closed(NewRun) = {}
  BY <1>1, <1>3 DEF Closed
<1>6. /\ ZeroValues.entireTroveDebt = 0 /\ ZeroValues.entireTroveColl = 0
      /\ ZeroValues.collSurplus = 0 /\ ZeroValues.ARTHGasCompensation = 0
      /\ ZeroValues.debtToOffset = 0
  BY DEF ZeroValues
<1>7. TotalsAddUp(NewRun)
  <2>1. SumFunction(zero) = 0
    <3>1. SumFunctionOnSet(zero, Borrowers) = Cardinality(Borrowers) * 0
      BY ActiveTrovesFinite, SumConstant
    <3>2. Cardinality(Borrowers) \in Nat
      BY ActiveTrovesFinite, FS_CardinalityType
    <3> QED BY <3>1, <3>2 DEF SumFunction
  <2>2. Len(<<>>) * ARTH_GAS_COMPENSATION = 0
    BY DebtAssumption
  <2> HIDE DEF zero
  <2>3. /\ NewRun.totals.entireTroveDebt = 0 /\ NewRun.totals.entireTroveColl = 0
        /\ NewRun.totals.collSurplus = 0 /\ NewRun.totals.ARTHGasCompensation = 0
    BY <1>1, <1>6
  <2> QED BY <1>1, <1>5, <2>1, <2>2, <2>3, SumEmpty DEF TotalsAddUp
<1>8. ClosedRightly(NewRun, recovery, p)
  <2>1. \A b \in Borrowers : b \notin Closed(NewRun) /\ NewRun.surplus[b] = 0
    BY <1>1, <1>5
  <2> QED BY <2>1 DEF ClosedRightly
<1>9. NewRun.remaining + NewRun.totals.debtToOffset = stabilityPool.totalARTHDeposits
  BY <1>1, <1>2, <1>6
<1>10. SplitsExactly(NewRun.totals) /\ IsInjective(NewRun.closed)
  BY <1>1, <1>3, ZeroValuesAreTotals
<1>11. RunBooks(NewRun, recovery, p)
  BY <1>4, <1>7, <1>8, <1>9, <1>10 DEF RunBooks
<1>12. recovery => ComputeCR(NewRun.systemColl, NewRun.systemDebt, p) < CCR
  BY <1>1 DEF InRecoveryMode, TCR
<1> QED
  BY <1>11, <1>12 DEF RunInv

(* The run over a list of troves is the last of its passes. *)
LEMMA LiquidationSteps ==
  ASSUME NEW E, NEW troves \in Seq(E), NEW isBatch, NEW recovery, NEW p, NEW c,
         c.recovery = recovery, c.isBatch = isBatch, c.p = p
  PROVE  \E r : Steps(r, "liquidate", c, NewRun, troves)
               /\ r[Len(troves)] = RunOver(troves, isBatch, recovery, p)
<1> DEFINE h == CHOOSE h : LiquidationIs(h, c, troves, 1..Len(troves))
<1>1. Len(troves) \in Nat /\ DOMAIN troves = 1..Len(troves)
  BY ListFacts
<1>2. \A g : LoopIs(g, "liquidate", c, NewRun, troves, 1..Len(troves)) <=>
              LiquidationIs(g, c, troves, 1..Len(troves))
  BY DEF LoopIs, LiquidationIs, LoopBody
<1>3. LoopIs(h, "liquidate", c, NewRun, troves, 1..Len(troves))
  BY <1>1, <1>2, LoopExists
<1>4. RunOver(troves, isBatch, recovery, p) = h[1..Len(troves)]
  BY <1>1, LiquidationIsChosen, ZenonT(30)
<1> HIDE DEF h
<1> QED
  BY <1>1, <1>3, <1>4, LoopSteps

(* Whatever troves a liquidation is given, its totals are the sums over    *)
(* the troves it closes, each of which may be liquidated.                  *)
LEMMA RunHolds ==
  ASSUME LedgerInv, ClosedTrovesAreEmpty, Len(TroveOwners) \in Nat,
         NEW p \in Nat \ {0}, NEW recovery \in BOOLEAN, recovery => InRecoveryMode(p),
         NEW isBatch \in BOOLEAN, NEW troves \in Seq(Borrowers)
  PROVE  RunInv(RunOver(troves, isBatch, recovery, p), recovery, p)
<1> DEFINE c == [recovery |-> recovery, isBatch |-> isBatch, p |-> p]
           m == Len(troves)
<1>1. m \in Nat /\ troves \in [1..m -> Borrowers]
  BY ListFacts
<1>2. c.recovery = recovery /\ c.isBatch = isBatch /\ c.p = p
  OBVIOUS
<1> HIDE DEF c
<1>3. PICK r : Steps(r, "liquidate", c, NewRun, troves)
               /\ r[m] = RunOver(troves, isBatch, recovery, p)
  BY <1>2, LiquidationSteps
<1>4. /\ r[0] = NewRun
      /\ \A i \in 1..m : r[i] = IF recovery
                                THEN RecoveryModeStep(r[i - 1], troves[i], isBatch, p)
                                ELSE NormalModeStep(r[i - 1], troves[i], isBatch, p)
  BY <1>2, <1>3 DEF Steps, LoopBody
<1> DEFINE T == {i \in 0..m : RunInv(r[i], recovery, p)}
<1> HIDE DEF m
<1>5. 0 \in T
  BY <1>1, <1>4, NewRunHolds
<1>6. ASSUME NEW i \in 1..m, i - 1 \in T PROVE i \in T
  <2>1. RunInv(r[i - 1], recovery, p) /\ troves[i] \in Borrowers /\ i \in 0..m
    BY <1>1, <1>6
  <2>2. CASE recovery
    <3>1. RunInv(RecoveryModeStep(r[i - 1], troves[i], isBatch, p), recovery, p)
      BY <2>1, <2>2, RecoveryModeStepKeepsRun
    <3>2. r[i] = RecoveryModeStep(r[i - 1], troves[i], isBatch, p)
      BY <1>4, <2>2
    <3> QED BY <2>1, <3>1, <3>2
  <2>3. CASE ~recovery
    <3>1. RunBooks(r[i - 1], recovery, p)
      BY <2>1 DEF RunInv
    <3>2. RunBooks(NormalModeStep(r[i - 1], troves[i], isBatch, p), recovery, p)
      BY <2>1, <3>1, NormalModeStepKeepsBooks
    <3>3. r[i] = NormalModeStep(r[i - 1], troves[i], isBatch, p)
      BY <1>4, <2>3
    <3>4. RunInv(r[i], recovery, p)
      BY <2>3, <3>2, <3>3 DEF RunInv
    <3> QED BY <2>1, <3>4
  <2> QED BY <2>2, <2>3
<1>7. \A i \in 0..m : i \in T
  <2> HIDE DEF T
  <2> QED BY <1>1, <1>5, <1>6, LoopInduction
<1>8. RunInv(r[m], recovery, p)
  BY <1>1, <1>7
<1> QED
  BY <1>3, <1>8

------------------------------------------------------------------------------
(* What the troves record together. *)

CollOnly  == [b \in Borrowers |-> Troves[b].coll]
DebtOnly  == [b \in Borrowers |-> Troves[b].debt]

StakeTotal == SumFunction(StakeOf)
CollTotal  == SumFunction(CollOnly)
DebtTotal  == SumFunction(DebtOnly)

(* What the troves record, and its totals, are natural numbers. *)
LEMMA RecordedAmounts ==
  ASSUME LedgerInv
  PROVE  /\ \A b \in Borrowers : /\ StakeOf[b] \in Nat /\ StakeOf[b] = Troves[b].stake
                                 /\ CollOnly[b] \in Nat /\ CollOnly[b] = Troves[b].coll
                                 /\ DebtOnly[b] \in Nat /\ DebtOnly[b] = Troves[b].debt
         /\ StakeTotal = SumFunctionOnSet(StakeOf, Borrowers) /\ StakeTotal \in Nat
         /\ CollTotal = SumFunctionOnSet(CollOnly, Borrowers) /\ CollTotal \in Nat
         /\ DebtTotal = SumFunctionOnSet(DebtOnly, Borrowers) /\ DebtTotal \in Nat
<1>1. \A b \in Borrowers : /\ StakeOf[b] \in Nat /\ StakeOf[b] = Troves[b].stake
                           /\ CollOnly[b] \in Nat /\ CollOnly[b] = Troves[b].coll
                           /\ DebtOnly[b] \in Nat /\ DebtOnly[b] = Troves[b].debt
  BY DEF StakeOf, CollOnly, DebtOnly, LedgerInv, LedgerTypeOK
<1>2. /\ StakeTotal = SumFunctionOnSet(StakeOf, Borrowers)
      /\ CollTotal = SumFunctionOnSet(CollOnly, Borrowers)
      /\ DebtTotal = SumFunctionOnSet(DebtOnly, Borrowers)
  <2>1. DOMAIN StakeOf = Borrowers /\ DOMAIN CollOnly = Borrowers /\ DOMAIN DebtOnly = Borrowers
    BY DEF StakeOf, CollOnly, DebtOnly
  <2> QED BY <2>1 DEF StakeTotal, CollTotal, DebtTotal, SumFunction
<1>3. /\ SumFunctionOnSet(StakeOf, Borrowers) \in Nat
      /\ SumFunctionOnSet(CollOnly, Borrowers) \in Nat
      /\ SumFunctionOnSet(DebtOnly, Borrowers) \in Nat
  BY <1>1, ActiveTrovesFinite, SumNat
<1> QED
  BY <1>1, <1>2, <1>3

(* A step that changes one trove changes the totals by that trove. *)
LEMMA TotalsOfOneChange ==
  ASSUME LedgerInv, LedgerInv', NEW b \in Borrowers,
         \A c \in Borrowers \ {b} : Troves'[c] = Troves[c]
  PROVE  /\ StakeTotal' = StakeTotal - Troves[b].stake + Troves'[b].stake
         /\ CollTotal' = CollTotal - Troves[b].coll + Troves'[b].coll
         /\ DebtTotal' = DebtTotal - Troves[b].debt + Troves'[b].debt
<1>1. /\ \A c \in Borrowers : /\ StakeOf[c] \in Int /\ CollOnly[c] \in Int /\ DebtOnly[c] \in Int
                              /\ StakeOf'[c] \in Int /\ CollOnly'[c] \in Int /\ DebtOnly'[c] \in Int
      /\ StakeOf[b] = Troves[b].stake /\ StakeOf'[b] = Troves'[b].stake
      /\ CollOnly[b] = Troves[b].coll /\ CollOnly'[b] = Troves'[b].coll
      /\ DebtOnly[b] = Troves[b].debt /\ DebtOnly'[b] = Troves'[b].debt
      /\ \A c \in Borrowers \ {b} : /\ StakeOf'[c] = StakeOf[c] /\ CollOnly'[c] = CollOnly[c]
                                    /\ DebtOnly'[c] = DebtOnly[c]
  BY DEF StakeOf, CollOnly, DebtOnly, LedgerInv, LedgerTypeOK
<1>2. /\ StakeTotal = SumFunctionOnSet(StakeOf, Borrowers)
      /\ CollTotal = SumFunctionOnSet(CollOnly, Borrowers)
      /\ DebtTotal = SumFunctionOnSet(DebtOnly, Borrowers)
  BY RecordedAmounts
<1>3. /\ StakeTotal' = SumFunctionOnSet(StakeOf', Borrowers)
      /\ CollTotal' = SumFunctionOnSet(CollOnly', Borrowers)
      /\ DebtTotal' = SumFunctionOnSet(DebtOnly', Borrowers)
  <2>1. DOMAIN StakeOf' = Borrowers /\ DOMAIN CollOnly' = Borrowers /\ DOMAIN DebtOnly' = Borrowers
    BY DEF StakeOf, CollOnly, DebtOnly
  <2> QED BY <2>1 DEF StakeTotal, CollTotal, DebtTotal, SumFunction
<1> DEFINE s == StakeOf'
           c == CollOnly'
           d == DebtOnly'
<1> HIDE DEF s, c, d
<1>4. /\ SumFunctionOnSet(s, Borrowers)
           = SumFunctionOnSet(StakeOf, Borrowers) - StakeOf[b] + s[b]
      /\ SumFunctionOnSet(c, Borrowers)
           = SumFunctionOnSet(CollOnly, Borrowers) - CollOnly[b] + c[b]
      /\ SumFunctionOnSet(d, Borrowers)
           = SumFunctionOnSet(DebtOnly, Borrowers) - DebtOnly[b] + d[b]
  <2>1. /\ \A x \in Borrowers : s[x] \in Int /\ c[x] \in Int /\ d[x] \in Int
        /\ \A x \in Borrowers \ {b} : s[x] = StakeOf[x] /\ c[x] = CollOnly[x] /\ d[x] = DebtOnly[x]
    BY <1>1 DEF s, c, d
  <2> QED BY <1>1, <2>1, ActiveTrovesFinite, SumUpdate
<1> QED
  BY <1>1, <1>2, <1>3, <1>4 DEF s, c, d

(* Troves that are closed leave the totals. *)
LEMMA TotalsOfClosing ==
  ASSUME LedgerInv, LedgerInv', NEW S \in SUBSET Borrowers,
         \A c \in S : Troves'[c].stake = 0 /\ Troves'[c].coll = 0 /\ Troves'[c].debt = 0,
         \A c \in Borrowers \ S : Troves'[c] = Troves[c]
  PROVE  /\ StakeTotal' = StakeTotal - SumFunctionOnSet(StakeOf, S)
         /\ CollTotal' = CollTotal - SumFunctionOnSet(CollOnly, S)
         /\ DebtTotal' = DebtTotal - SumFunctionOnSet(DebtOnly, S)
<1> DEFINE R == Borrowers \ S
           s == StakeOf'
           c == CollOnly'
           d == DebtOnly'
<1>1. /\ \A x \in S : s[x] = 0 /\ c[x] = 0 /\ d[x] = 0
      /\ \A x \in R : s[x] = StakeOf[x] /\ c[x] = CollOnly[x] /\ d[x] = DebtOnly[x]
  BY DEF StakeOf, CollOnly, DebtOnly
<1>2. /\ \A x \in Borrowers : StakeOf[x] \in Int /\ CollOnly[x] \in Int /\ DebtOnly[x] \in Int
      /\ StakeTotal = SumFunctionOnSet(StakeOf, Borrowers)
      /\ CollTotal = SumFunctionOnSet(CollOnly, Borrowers)
      /\ DebtTotal = SumFunctionOnSet(DebtOnly, Borrowers)
  BY RecordedAmounts
<1>3. /\ StakeTotal' = SumFunctionOnSet(s, Borrowers)
      /\ CollTotal' = SumFunctionOnSet(c, Borrowers)
      /\ DebtTotal' = SumFunctionOnSet(d, Borrowers)
  <2>1. DOMAIN StakeOf' = Borrowers /\ DOMAIN CollOnly' = Borrowers /\ DOMAIN DebtOnly' = Borrowers
    BY DEF StakeOf, CollOnly, DebtOnly
  <2> QED BY <2>1 DEF StakeTotal, CollTotal, DebtTotal, SumFunction
<1> HIDE DEF s, c, d
<1>4. R \in SUBSET Borrowers /\ IsFiniteSet(Borrowers) /\ IsFiniteSet(R) /\ IsFiniteSet(S)
      /\ Borrowers \ R = S /\ Borrowers \ S = R
  BY ActiveTrovesFinite
<1> HIDE DEF R
<1>5. /\ \A x \in R : s[x] \in Int /\ c[x] \in Int /\ d[x] \in Int
      /\ \A x \in R : StakeOf[x] \in Int /\ CollOnly[x] \in Int /\ DebtOnly[x] \in Int
  BY <1>1, <1>2, <1>4
<1>6. /\ SumFunctionOnSet(s, Borrowers) = SumFunctionOnSet(s, R)
      /\ SumFunctionOnSet(c, Borrowers) = SumFunctionOnSet(c, R)
      /\ SumFunctionOnSet(d, Borrowers) = SumFunctionOnSet(d, R)
  BY <1>1, <1>4, <1>5, SumSupport
<1>7. /\ SumFunctionOnSet(s, R) = SumFunctionOnSet(StakeOf, R)
      /\ SumFunctionOnSet(c, R) = SumFunctionOnSet(CollOnly, R)
      /\ SumFunctionOnSet(d, R) = SumFunctionOnSet(DebtOnly, R)
  BY <1>1, <1>4, <1>5, SumEqual
<1>8. /\ SumFunctionOnSet(StakeOf, Borrowers)
           = SumFunctionOnSet(StakeOf, S) + SumFunctionOnSet(StakeOf, R)
      /\ SumFunctionOnSet(CollOnly, Borrowers)
           = SumFunctionOnSet(CollOnly, S) + SumFunctionOnSet(CollOnly, R)
      /\ SumFunctionOnSet(DebtOnly, Borrowers)
           = SumFunctionOnSet(DebtOnly, S) + SumFunctionOnSet(DebtOnly, R)
  BY <1>2, <1>4, SumSplit
<1>9. /\ SumFunctionOnSet(StakeOf, S) \in Int /\ SumFunctionOnSet(StakeOf, R) \in Int
      /\ SumFunctionOnSet(CollOnly, S) \in Int /\ SumFunctionOnSet(CollOnly, R) \in Int
      /\ SumFunctionOnSet(DebtOnly, S) \in Int /\ SumFunctionOnSet(DebtOnly, R) \in Int
  BY <1>2, <1>4, <1>5, SumInt
<1> QED
  BY <1>2, <1>3, <1>6, <1>7, <1>8, <1>9

------------------------------------------------------------------------------
(* The calls of the borrowers. *)

(* The total stakes are the sum of the stakes. *)
LEMMA StakesAddUpIs == StakesAddUp <=> totalStakes = StakeTotal
BY DEF StakesAddUp, StakeTotal, StakeOf

(* openTrove puts the new trove at the end of the array and somewhere in   *)
(* the list, where it was not before.                                      *)
LEMMA OpenKeepsBooks ==
  ASSUME LedgerInv, LedgerInv', BooksInv, NEW who \in Borrowers, NEW recipient,
         Open(who, recipient)
  PROVE  BooksInv'
<1>1. PICK value \in Collaterals, amount \in OpenAmounts, maxFee \in MaxFees,
           tag \in frontEnds \cup {NoFrontEnd} :
        OpenTrove(who, recipient, value, amount, maxFee, tag)
  BY DEF Open
<1> DEFINE fee == IF InRecoveryMode(price) THEN 0 ELSE BorrowingFee(amount)
           debt == CompositeDebt(amount + fee)
           stake == NewStake(value)
           nicr == ComputeNominalCR(value, debt)
           trove == [status |-> "active", debt |-> debt, coll |-> value,
                     stake |-> stake, frontEndTag |-> tag]
<1>2. /\ ~IsActive(who)
      /\ amount + fee >= MIN_NET_DEBT
      /\ Troves' = [Troves EXCEPT ![who] = trove]
      /\ totalStakes' = totalStakes + stake
      /\ \E i \in ValidPositions(sortedTroves, nicr) :
           sortedTroves' = InsertAt(sortedTroves, i + 1, who)
      /\ TroveOwners' = Append(TroveOwners, who)
      /\ arrayIndex' = [arrayIndex EXCEPT ![who] = Len(TroveOwners)]
      /\ price' = price
  BY <1>1 DEF OpenTrove, BOUnchanged, envVars
<1>3. debt >= ARTH_GAS_COMPENSATION + MIN_NET_DEBT
  <2>1. amount \in Nat
    BY InputAssumption
  <2>2. fee \in Nat
    <3>1. CASE InRecoveryMode(price)
      BY <3>1
    <3>2. CASE ~InRecoveryMode(price)
      BY <1>1, <2>1, <3>2, FeeIsAmount DEF OpenTrove, BorrowingFeeAccepted
    <3> QED BY <3>1, <3>2
  <2> QED BY <1>2, <2>1, <2>2, DebtAssumption DEF CompositeDebt
<1>4. /\ Troves \in [Borrowers -> TroveType] /\ Troves' \in [Borrowers -> TroveType]
      /\ DOMAIN Troves = Borrowers
  BY DEF LedgerInv, LedgerTypeOK, TroveType
<1> HIDE DEF trove
<1>5. Troves'[who] = trove /\ \A b \in Borrowers \ {who} : Troves'[b] = Troves[b]
  BY <1>2, <1>4
<1>13. trove.status = "active" /\ trove.debt = debt /\ trove.stake = stake
  BY DEF trove
<1> HIDE DEF debt, stake, fee, nicr
<1>6. ActiveTroves' = ActiveTroves \cup {who} /\ who \notin ActiveTroves
  BY <1>2, <1>5, <1>13 DEF ActiveTroves, IsActive
<1>7. StakesAddUp'
  <2>1. StakeTotal' = StakeTotal - Troves[who].stake + Troves'[who].stake
    BY <1>5, TotalsOfOneChange
  <2>2. Troves[who].stake = 0
    BY <1>6 DEF BooksInv, ClosedTrovesAreEmpty
  <2>3. totalStakes = StakeTotal /\ StakeTotal \in Nat
    BY StakesAddUpIs, RecordedAmounts DEF BooksInv
  <2>4. totalStakes' = StakeTotal'
    BY <1>2, <1>5, <1>13, <2>1, <2>2, <2>3
  <2> QED BY <2>4 DEF StakesAddUp, StakeTotal, StakeOf
<1>8. ListInv'
  <2>1. PICK i \in ValidPositions(sortedTroves, nicr) :
          sortedTroves' = InsertAt(sortedTroves, i + 1, who)
    BY <1>2
  <2>2. i \in 0..Len(sortedTroves)
    BY DEF ValidPositions
  <2>3. /\ sortedTroves \in Seq(Borrowers) /\ IsInjective(sortedTroves)
        /\ ToSet(sortedTroves) = ActiveTroves
    BY DEF BooksInv, ListInv
  <2>4. /\ sortedTroves' \in Seq(Borrowers)
        /\ IsInjective(sortedTroves') /\ ToSet(sortedTroves') = ToSet(sortedTroves) \cup {who}
    BY <1>6, <2>1, <2>2, <2>3, InsertAtFacts, InsertAtKeepsDistinct
  <2> QED BY <1>6, <2>3, <2>4 DEF ListInv
<1>9. ArrayOf([owners |-> TroveOwners', index |-> arrayIndex'], ActiveTroves')
  <2>1. /\ TroveOwners \in Seq(Borrowers) /\ arrayIndex \in [Borrowers -> Nat]
        /\ ToSet(TroveOwners) = ActiveTroves
        /\ \A k \in 1..Len(TroveOwners) : arrayIndex[TroveOwners[k]] = k - 1
    BY DEF BooksInv, ArrayOf
  <2>2. /\ Len(TroveOwners) \in Nat
        /\ ToSet(TroveOwners) = {TroveOwners[k] : k \in 1..Len(TroveOwners)}
    BY <2>1, ListFacts
  <2>3. /\ TroveOwners' \in Seq(Borrowers) /\ Len(TroveOwners') = Len(TroveOwners) + 1
        /\ \A k \in 1..Len(TroveOwners) : TroveOwners'[k] = TroveOwners[k]
        /\ TroveOwners'[Len(TroveOwners) + 1] = who
        /\ ToSet(TroveOwners') = ActiveTroves'
    BY <1>2, <1>6, <2>1, AppendFacts
  <2>4. arrayIndex' \in [Borrowers -> Nat]
    BY <1>2, <2>1, <2>2
  <2>5. ASSUME NEW k \in 1..Len(TroveOwners')
        PROVE  arrayIndex'[TroveOwners'[k]] = k - 1
    <3>1. CASE k \in 1..Len(TroveOwners)
      <4>1. TroveOwners[k] \in ActiveTroves /\ TroveOwners[k] # who
        BY <1>6, <2>1, <2>2, <3>1
      <4> QED BY <1>2, <2>1, <2>3, <3>1, <4>1, ActiveTrovesFinite
    <3>2. CASE k = Len(TroveOwners) + 1
      BY <1>2, <2>1, <2>2, <2>3, <3>2
    <3> QED BY <2>2, <2>3, <3>1, <3>2
  <2> QED BY <2>3, <2>4, <2>5 DEF ArrayOf
<1>10. ClosedTrovesAreEmpty'
  BY <1>5, <1>6 DEF BooksInv, ClosedTrovesAreEmpty
<1>11. MinimumDebtKept'
  BY <1>3, <1>5, <1>6, <1>13, ActiveTrovesFinite DEF BooksInv, MinimumDebtKept
<1>12. price' > 0
  BY <1>2 DEF BooksInv
<1> QED
  BY <1>7, <1>8, <1>9, <1>10, <1>11, <1>12 DEF BooksInv

(* What an adjustment does to the lists and to the debt of the trove.      *)
LEMMA AdjustmentOfLists ==
  ASSUME LedgerInv, MinimumDebtKept, NEW b \in Borrowers, NEW value, NEW withdrawal,
         NEW change \in Nat, NEW isDebtIncrease \in BOOLEAN, NEW maxFee,
         AdjustTrove(b, value, withdrawal, change, isDebtIncrease, maxFee)
  PROVE  /\ IsActive(b)
         /\ UNCHANGED <<TroveOwners, arrayIndex>>
         /\ \E i \in 0..Len(Without(sortedTroves, {b})) :
              sortedTroves' = InsertAt(Without(sortedTroves, {b}), i + 1, b)
         /\ Troves'[b].status = Troves[b].status
         /\ Troves'[b].debt >= ARTH_GAS_COMPENSATION + MIN_NET_DEBT
         /\ \A c \in Borrowers \ {b} : Troves'[c] = Troves[c]
         /\ totalStakes' = totalStakes - Troves[b].stake + Troves'[b].stake
         /\ price' = price
<1> DEFINE recovery == InRecoveryMode(price)
           trove == ApplyPendingRewards(b)
           charged == isDebtIncrease /\ ~recovery
           fee == IF charged THEN BorrowingFee(change) ELSE 0
           collDelta == IF value # 0 THEN value ELSE -withdrawal
           debtDelta == IF isDebtIncrease THEN change + fee ELSE -change
           newColl == trove.coll + collDelta
           newDebt == trove.debt + debtDelta
           stake == NewStake(newColl)
           nicr == ComputeNominalCR(newColl, newDebt)
           others == Without(sortedTroves, {b})
<1>1. /\ IsActive(b)
      /\ charged => BorrowingFeeAccepted(change, maxFee)
      /\ ~isDebtIncrease /\ change > 0 => ValidRepayment(b, trove.debt, change)
      /\ Troves' = [Troves EXCEPT ![b] =
           [@ EXCEPT !.debt = newDebt, !.coll = newColl, !.stake = stake]]
      /\ totalStakes' = totalStakes - Troves[b].stake + stake
      /\ \E i \in ValidPositions(others, nicr) :
           sortedTroves' = InsertAt(others, i + 1, b)
      /\ UNCHANGED <<TroveOwners, arrayIndex>>
      /\ price' = price
  BY DEF AdjustTrove, BOUnchanged, envVars
<1>2. trove.debt \in Nat /\ trove.debt >= Troves[b].debt
  <2>1. PendingARTHDebtReward(b) \in Nat /\ Troves[b].debt \in Nat
    BY PendingRewardsAreAmounts DEF LedgerInv, LedgerTypeOK
  <2>2. EntireDebt(b) \in Nat /\ EntireDebt(b) >= Troves[b].debt
    BY <2>1 DEF EntireDebt
  <2>3. trove.debt = EntireDebt(b) \/ trove.debt = Troves[b].debt
    BY DEF ApplyPendingRewards
  <2> HIDE DEF trove
  <2> QED BY <2>1, <2>2, <2>3
<1>3. fee \in Nat
  <2>1. CASE charged
    BY <1>1, <2>1, FeeIsAmount DEF BorrowingFeeAccepted
  <2>2. CASE ~charged
    BY <2>2
  <2> QED BY <2>1, <2>2
<1>4. Troves[b].debt \in Nat /\ Troves[b].debt >= ARTH_GAS_COMPENSATION + MIN_NET_DEBT
      /\ ARTH_GAS_COMPENSATION \in Nat /\ MIN_NET_DEBT \in Nat
  BY <1>1, DebtAssumption DEF MinimumDebtKept, ActiveTroves, LedgerInv, LedgerTypeOK
<1> HIDE DEF trove, fee, charged
<1>5. newDebt >= ARTH_GAS_COMPENSATION + MIN_NET_DEBT
  <2>1. CASE isDebtIncrease
    BY <1>2, <1>3, <1>4, <2>1
  <2>2. CASE ~isDebtIncrease /\ change > 0
    BY <1>1, <1>2, <1>4, <2>2 DEF ValidRepayment, NetDebt
  <2>3. CASE ~isDebtIncrease /\ change = 0
    BY <1>2, <1>4, <2>3
  <2> QED BY <2>1, <2>2, <2>3
<1> HIDE DEF collDelta, debtDelta, newColl, newDebt, stake, nicr, others
<1>6. Troves \in [Borrowers -> TroveType]
  BY DEF LedgerInv, LedgerTypeOK, TroveType
<1>7. /\ Troves'[b].status = Troves[b].status /\ Troves'[b].debt = newDebt
      /\ Troves'[b].stake = stake
      /\ \A c \in Borrowers \ {b} : Troves'[c] = Troves[c]
  BY <1>1, <1>6 DEF TroveType
<1>8. \E i \in 0..Len(others) : sortedTroves' = InsertAt(others, i + 1, b)
  BY <1>1 DEF ValidPositions
<1> QED
  BY <1>1, <1>5, <1>7, <1>8 DEF others

(* _adjustTrove keeps the books, whichever function calls it. *)
LEMMA AdjustTroveKeepsBooks ==
  ASSUME LedgerInv, LedgerInv', BooksInv, NEW b \in Borrowers, NEW value, NEW withdrawal,
         NEW change \in Nat, NEW isDebtIncrease \in BOOLEAN, NEW maxFee,
         AdjustTrove(b, value, withdrawal, change, isDebtIncrease, maxFee)
  PROVE  BooksInv'
<1> DEFINE others == Without(sortedTroves, {b})
<1>1. /\ IsActive(b)
      /\ UNCHANGED <<TroveOwners, arrayIndex>>
      /\ \E i \in 0..Len(others) : sortedTroves' = InsertAt(others, i + 1, b)
      /\ Troves'[b].status = Troves[b].status
      /\ Troves'[b].debt >= ARTH_GAS_COMPENSATION + MIN_NET_DEBT
      /\ \A c \in Borrowers \ {b} : Troves'[c] = Troves[c]
      /\ totalStakes' = totalStakes - Troves[b].stake + Troves'[b].stake
      /\ price' = price
  BY AdjustmentOfLists DEF BooksInv
<1>2. ActiveTroves' = ActiveTroves /\ b \in ActiveTroves
  BY <1>1 DEF ActiveTroves, IsActive
<1>3. StakesAddUp'
  <2>1. StakeTotal' = StakeTotal - Troves[b].stake + Troves'[b].stake
    BY <1>1, TotalsOfOneChange
  <2>2. totalStakes' = StakeTotal'
    BY <1>1, <2>1, StakesAddUpIs DEF BooksInv
  <2> QED BY <2>2 DEF StakesAddUp, StakeTotal, StakeOf
<1>4. ListInv'
  <2>1. /\ sortedTroves \in Seq(Borrowers) /\ IsInjective(sortedTroves)
        /\ ToSet(sortedTroves) = ActiveTroves
    BY DEF BooksInv, ListInv
  <2>2. others \in Seq(Borrowers) /\ ToSet(others) = ActiveTroves \ {b} /\ IsInjective(others)
    BY <2>1, WithoutFacts
  <2> HIDE DEF others
  <2>3. PICK i \in 0..Len(others) : sortedTroves' = InsertAt(others, i + 1, b)
    BY <1>1
  <2>4. /\ sortedTroves' \in Seq(Borrowers)
        /\ IsInjective(sortedTroves') /\ ToSet(sortedTroves') = ToSet(others) \cup {b}
    BY <2>2, <2>3, InsertAtFacts, InsertAtKeepsDistinct, ZenonT(30)
  <2> QED BY <1>2, <2>2, <2>4 DEF ListInv
<1>5. ArrayOf([owners |-> TroveOwners', index |-> arrayIndex'], ActiveTroves')
  BY <1>1, <1>2 DEF BooksInv
<1>6. ClosedTrovesAreEmpty'
  BY <1>1, <1>2 DEF BooksInv, ClosedTrovesAreEmpty
<1>7. MinimumDebtKept'
  BY <1>1, <1>2, ActiveTrovesFinite DEF BooksInv, MinimumDebtKept
<1> QED
  BY <1>1, <1>3, <1>4, <1>5, <1>6, <1>7 DEF BooksInv

------------------------------------------------------------------------------
(* Closing troves. *)

(* Closing the troves of bs, in that order. *)
Closes(bs) ==
  /\ bs \in Seq(ActiveTroves) /\ IsInjective(bs)
  /\ \A c \in ToSet(bs) : /\ Troves'[c].status # "active" /\ Troves'[c].stake = 0
                          /\ Troves'[c].coll = 0 /\ Troves'[c].debt = 0
  /\ \A c \in Borrowers \ ToSet(bs) : Troves'[c] = Troves[c]
  /\ TroveOwners' = RemoveTroveOwners(bs).owners
  /\ arrayIndex' = RemoveTroveOwners(bs).index
  /\ sortedTroves' = Without(sortedTroves, ToSet(bs))
  /\ price' = price

(* Closing troves, and taking their stakes from the total, keeps the books. *)
LEMMA ClosingKeepsBooks ==
  ASSUME LedgerInv, LedgerInv', BooksInv, NEW bs, Closes(bs),
         totalStakes' = totalStakes - SumFunctionOnSet(StakeOf, ToSet(bs))
  PROVE  BooksInv'
<1> DEFINE S == ToSet(bs)
<1>1. /\ bs \in Seq(ActiveTroves) /\ IsInjective(bs)
      /\ \A c \in S : /\ Troves'[c].status # "active" /\ Troves'[c].stake = 0
                      /\ Troves'[c].coll = 0 /\ Troves'[c].debt = 0
      /\ \A c \in Borrowers \ S : Troves'[c] = Troves[c]
      /\ sortedTroves' = Without(sortedTroves, S)
      /\ price' = price
  BY DEF Closes
<1>2. S \subseteq ActiveTroves /\ S \in SUBSET Borrowers
  BY <1>1, ListFacts, ActiveTrovesFinite
<1>3. ArrayOf(RemoveTroveOwners(bs), ActiveTroves \ S)
  BY <1>1, OwnersRemoved DEF BooksInv
<1>4. TroveOwners' = RemoveTroveOwners(bs).owners /\ arrayIndex' = RemoveTroveOwners(bs).index
  BY DEF Closes
<1>5. totalStakes' = totalStakes - SumFunctionOnSet(StakeOf, S)
  OBVIOUS
<1> HIDE DEF S
<1>6. ActiveTroves' = ActiveTroves \ S
  BY <1>1, <1>2 DEF ActiveTroves, IsActive
<1>7. StakesAddUp'
  <2>1. StakeTotal' = StakeTotal - SumFunctionOnSet(StakeOf, S)
    BY <1>1, <1>2, TotalsOfClosing
  <2>2. totalStakes' = StakeTotal'
    BY <1>5, <2>1, StakesAddUpIs DEF BooksInv
  <2> QED BY <2>2 DEF StakesAddUp, StakeTotal, StakeOf
<1>8. ListInv'
  <2>1. /\ sortedTroves \in Seq(Borrowers) /\ IsInjective(sortedTroves)
        /\ ToSet(sortedTroves) = ActiveTroves
    BY DEF BooksInv, ListInv
  <2>2. /\ sortedTroves' \in Seq(Borrowers) /\ IsInjective(sortedTroves')
        /\ ToSet(sortedTroves') = ActiveTroves \ S
    BY <1>1, <2>1, WithoutFacts
  <2> QED BY <1>6, <2>2 DEF ListInv
<1>9. ArrayOf([owners |-> TroveOwners', index |-> arrayIndex'], ActiveTroves')
  BY <1>3, <1>4, <1>6 DEF ArrayOf
<1>10. ClosedTrovesAreEmpty'
  BY <1>1, <1>2, <1>6 DEF BooksInv, ClosedTrovesAreEmpty
<1>11. MinimumDebtKept'
  BY <1>1, <1>2, <1>6, ActiveTrovesFinite DEF BooksInv, MinimumDebtKept
<1> QED
  BY <1>1, <1>7, <1>8, <1>9, <1>10, <1>11 DEF BooksInv

(* _closeTrove leaves no collateral, debt or stake. *)
LEMMA ClosedTroveFields ==
  ASSUME LedgerInv, NEW b \in Borrowers, NEW status
  PROVE  /\ ClosedTrove(b, status).status = status /\ ClosedTrove(b, status).stake = 0
         /\ ClosedTrove(b, status).coll = 0 /\ ClosedTrove(b, status).debt = 0
<1>1. Troves[b] \in TroveType
  BY DEF LedgerInv, LedgerTypeOK, TroveType
<1>2. ClosedTrove(b, status) = [Troves[b] EXCEPT !.status = status, !.debt = 0, !.coll = 0,
                                                 !.stake = 0]
  BY DEF ClosedTrove
<1> QED
  BY <1>1, <1>2 DEF TroveType

(* closeTrove closes the one trove of its caller. *)
LEMMA CloseTroveCloses ==
  ASSUME LedgerInv, NEW b \in Borrowers, CloseTrove(b)
  PROVE  /\ Closes(<<b>>)
         /\ totalStakes' = totalStakes - SumFunctionOnSet(StakeOf, {b})
<1> DEFINE closed == ClosedTrove(b, "closedByOwner")
<1>1. /\ IsActive(b)
      /\ Troves' = [Troves EXCEPT ![b] = closed]
      /\ totalStakes' = totalStakes - Troves[b].stake
      /\ TroveOwners' = RemoveTroveOwners(<<b>>).owners
      /\ arrayIndex' = RemoveTroveOwners(<<b>>).index
      /\ sortedTroves' = Without(sortedTroves, {b})
      /\ price' = price
  BY DEF CloseTrove, BOUnchanged, envVars
<1>2. closed.status # "active" /\ closed.stake = 0 /\ closed.coll = 0 /\ closed.debt = 0
  BY ClosedTroveFields
<1> HIDE DEF closed
<1>3. Troves'[b] = closed /\ \A c \in Borrowers \ {b} : Troves'[c] = Troves[c]
  BY <1>1 DEF LedgerInv, LedgerTypeOK
<1>4. b \in ActiveTroves
  BY <1>1 DEF ActiveTroves
<1>5. <<b>> \in Seq(ActiveTroves) /\ ToSet(<<b>>) = {b} /\ IsInjective(<<b>>)
  BY <1>4 DEF ToSet, IsInjective
<1>6. SumFunctionOnSet(StakeOf, {b}) = Troves[b].stake
  <2>1. StakeOf[b] \in Int /\ StakeOf[b] = Troves[b].stake
    BY RecordedAmounts
  <2>2. {} \cup {b} = {b} /\ IsFiniteSet({}) /\ b \notin {}
    BY FS_EmptySet
  <2>3. SumFunctionOnSet(StakeOf, {} \cup {b}) = StakeOf[b] + SumFunctionOnSet(StakeOf, {})
    BY <2>1, <2>2, SumAdd
  <2> QED BY <2>1, <2>2, <2>3, SumEmpty
<1>7. Closes(<<b>>)
  BY <1>1, <1>2, <1>3, <1>5 DEF Closes
<1> QED
  BY <1>1, <1>6, <1>7

(* closeTrove keeps the books. *)
LEMMA CloseKeepsBooks ==
  ASSUME LedgerInv, LedgerInv', BooksInv, NEW b \in Borrowers, CloseTrove(b)
  PROVE  BooksInv'
<1>1. /\ Closes(<<b>>)
      /\ totalStakes' = totalStakes - SumFunctionOnSet(StakeOf, {b})
  BY CloseTroveCloses
<1>2. ToSet(<<b>>) = {b}
  BY DEF ToSet
<1> QED
  BY <1>1, <1>2, ClosingKeepsBooks

------------------------------------------------------------------------------
(* A liquidation settles what its loop has added up. *)

(* The runs of the calls are runs of the loop over borrowers. *)
LEMMA RunOverHolds ==
  ASSUME LedgerInv, BooksInv, NEW isBatch \in BOOLEAN, NEW troves \in Seq(Borrowers)
  PROVE  RunInv(RunOver(troves, isBatch, InRecoveryMode(price), price),
                InRecoveryMode(price), price)
<1> DEFINE recovery == InRecoveryMode(price)
<1>1. recovery \in BOOLEAN /\ (recovery => InRecoveryMode(price))
  BY DEF InRecoveryMode
<1>2. price \in Nat \ {0} /\ Len(TroveOwners) \in Nat /\ ClosedTrovesAreEmpty
  <2>1. price \in Nat /\ price > 0 /\ TroveOwners \in Seq(Borrowers)
    BY DEF BooksInv, ArrayOf, LedgerInv, LedgerTypeOK
  <2> QED BY <2>1, ListFacts DEF BooksInv
<1>3. RunInv(RunOver(troves, isBatch, recovery, price), recovery, price)
  <2> HIDE DEF recovery
  <2> QED BY <1>1, <1>2, RunHolds
<1> QED BY <1>3

(* What liquidateTroves visits is a run of the loop, from the end of the *)
(* list.                                                                 *)
LEMMA LiquidateTrovesRunHolds ==
  ASSUME LedgerInv, BooksInv, NEW n \in Nat
  PROVE  RunInv(LiquidateTrovesRun(n, price), InRecoveryMode(price), price)
<1> DEFINE reach == IF InRecoveryMode(price) /\ sortedTroves # <<>> THEN Tail(sortedTroves)
                    ELSE sortedTroves
           visited == SubSeq(Reverse(reach), 1, MinOf(n, Len(reach)))
<1>1. LiquidateTrovesRun(n, price) = RunOver(visited, FALSE, InRecoveryMode(price), price)
  BY DEF LiquidateTrovesRun
<1>2. reach \in Seq(Borrowers)
  <2>1. sortedTroves \in Seq(Borrowers)
    BY DEF BooksInv, ListInv
  <2> QED BY <2>1, HeadTailProperties
<1> HIDE DEF reach
<1>3. visited \in Seq(Borrowers)
  <2>1. /\ Reverse(reach) \in Seq(Borrowers) /\ Len(Reverse(reach)) = Len(reach)
        /\ Len(reach) \in Nat
    BY <1>2, ReverseFacts, ListFacts
  <2>2. MinOf(n, Len(reach)) \in 0..Len(reach)
    BY <2>1 DEF MinOf
  <2>3. \A k \in 1..MinOf(n, Len(reach)) : Reverse(reach)[k] \in Borrowers
    BY <2>1, <2>2, ElementOfSeq
  <2> QED BY <2>1, <2>2, <2>3, SubSeqProperties
<1> HIDE DEF visited
<1>4. PICK isBatch \in BOOLEAN : isBatch = FALSE
  OBVIOUS
<1>5. RunInv(RunOver(visited, isBatch, InRecoveryMode(price), price), InRecoveryMode(price), price)
  BY <1>3, RunOverHolds
<1> QED
  BY <1>1, <1>4, <1>5

(* What batchLiquidateTroves visits is a run of the loop, in the order of *)
(* its argument.                                                          *)
LEMMA BatchRunHolds ==
  ASSUME LedgerInv, BooksInv, NEW troveArray \in Seq(Borrowers)
  PROVE  RunInv(BatchRun(troveArray, price), InRecoveryMode(price), price)
<1>1. BatchRun(troveArray, price) = RunOver(troveArray, TRUE, InRecoveryMode(price), price)
  BY DEF BatchRun
<1>2. PICK isBatch \in BOOLEAN : isBatch = TRUE
  OBVIOUS
<1>3. RunInv(RunOver(troveArray, isBatch, InRecoveryMode(price), price),
             InRecoveryMode(price), price)
  BY RunOverHolds
<1> QED
  BY <1>1, <1>2, <1>3

(* Every call that liquidates applies one run of the loop. *)
LEMMA LiquidateStepRun ==
  ASSUME LedgerInv, BooksInv, LiquidateStep
  PROVE  \E run, liquidator : /\ RunInv(run, InRecoveryMode(price), price)
                              /\ liquidator \in Liquidators
                              /\ ApplyLiquidation(run, liquidator)
<1>1. PICK liquidator \in Liquidators :
        \/ \E n \in SequenceLengths : LiquidateTroves(n, liquidator)
        \/ \E troveArray \in TroveArrays : BatchLiquidateTroves(troveArray, liquidator)
        \/ \E b \in SingleLiquidations : Liquidate(b, liquidator)
  BY DEF LiquidateStep
<1>2. CASE \E n \in SequenceLengths : LiquidateTroves(n, liquidator)
  <2>1. PICK n \in SequenceLengths : LiquidateTroves(n, liquidator)
    BY <1>2
  <2>2. n \in Nat
    BY InputAssumption
  <2> QED BY <2>1, <2>2, LiquidateTrovesRunHolds DEF LiquidateTroves
<1>3. ASSUME NEW troveArray \in Seq(Borrowers), BatchLiquidateTroves(troveArray, liquidator)
      PROVE  \E run : /\ RunInv(run, InRecoveryMode(price), price)
                      /\ ApplyLiquidation(run, liquidator)
  BY <1>3, BatchRunHolds DEF BatchLiquidateTroves
<1>4. CASE \E troveArray \in TroveArrays : BatchLiquidateTroves(troveArray, liquidator)
  <2>1. PICK troveArray \in TroveArrays : BatchLiquidateTroves(troveArray, liquidator)
    BY <1>4
  <2>2. troveArray \in Seq(Borrowers)
    BY InputAssumption
  <2> QED BY <1>3, <2>1, <2>2
<1>5. CASE \E b \in SingleLiquidations : Liquidate(b, liquidator)
  <2>1. PICK b \in SingleLiquidations : Liquidate(b, liquidator)
    BY <1>5
  <2>2. b \in Borrowers
    BY InputAssumption
  <2>3. <<b>> \in Seq(Borrowers) /\ BatchLiquidateTroves(<<b>>, liquidator)
    BY <2>1, <2>2 DEF Liquidate
  <2> QED BY <1>3, <2>3
<1> QED
  BY <1>1, <1>2, <1>4, <1>5

(* The end of a liquidation closes the troves of its run. *)
LEMMA LiquidationCloses ==
  ASSUME LedgerInv, NEW recovery, NEW p, NEW run, RunBooks(run, recovery, p),
         NEW liquidator, ApplyLiquidation(run, liquidator)
  PROVE  /\ Closes(run.closed)
         /\ totalStakes' = totalStakes - SumFunctionOnSet(StakeOf, ToSet(run.closed))
<1>1. /\ Troves' = [b \in Borrowers |->
           IF b \in Closed(run) THEN ClosedTrove(b, "closedByLiquidation") ELSE Troves[b]]
      /\ TroveOwners' = RemoveTroveOwners(run.closed).owners
      /\ arrayIndex' = RemoveTroveOwners(run.closed).index
      /\ sortedTroves' = Without(sortedTroves, Closed(run))
      /\ totalStakes' = totalStakes - run.stakes
      /\ price' = price
  BY DEF ApplyLiquidation, envVars
<1>2. /\ run.closed \in Seq(ActiveTroves) /\ IsInjective(run.closed)
      /\ run.stakes = SumFunctionOnSet(StakeOf, Closed(run))
      /\ Closed(run) = ToSet(run.closed)
  BY DEF RunBooks, LiquidationRuns, TotalsAddUp, Closed
<1>3. Closed(run) \subseteq Borrowers
  BY <1>2, ListFacts, ActiveTrovesFinite
<1>4. \A c \in Closed(run) : /\ Troves'[c].status # "active" /\ Troves'[c].stake = 0
                             /\ Troves'[c].coll = 0 /\ Troves'[c].debt = 0
  <2> TAKE c \in Closed(run)
  <2>1. Troves'[c] = ClosedTrove(c, "closedByLiquidation") /\ c \in Borrowers
    BY <1>1, <1>3
  <2>2. "closedByLiquidation" # "active"
    OBVIOUS
  <2> QED BY <2>1, <2>2, ClosedTroveFields
<1>5. \A c \in Borrowers \ Closed(run) : Troves'[c] = Troves[c]
  BY <1>1
<1> QED
  BY <1>1, <1>2, <1>4, <1>5 DEF Closes

(* The liquidations keep the books. *)
LEMMA LiquidationKeepsBooks ==
  ASSUME LedgerInv, LedgerInv', BooksInv, LiquidateStep
  PROVE  BooksInv'
<1>1. PICK run, liquidator : /\ RunInv(run, InRecoveryMode(price), price)
                             /\ ApplyLiquidation(run, liquidator)
  BY LiquidateStepRun
<1>2. RunBooks(run, InRecoveryMode(price), price)
  BY <1>1 DEF RunInv
<1>3. /\ Closes(run.closed)
      /\ totalStakes' = totalStakes - SumFunctionOnSet(StakeOf, ToSet(run.closed))
  BY <1>1, <1>2, LiquidationCloses
<1> QED
  BY <1>3, ClosingKeepsBooks

------------------------------------------------------------------------------
(* Which troves a liquidation closes. *)

(* No other call gives a trove the status of a liquidated one. *)
LEMMA OnlyLiquidationsLiquidate ==
  ASSUME LedgerInv, [Next]_vars, ~LiquidateStep, NEW b \in Borrowers
  PROVE  ~LiquidatedNow(b)
<1>1. /\ Troves \in [Borrowers -> TroveType] /\ \A c \in Borrowers : Troves[c].status \in Statuses
  BY DEF LedgerInv, LedgerTypeOK, TroveType
<1> SUFFICES ASSUME IsActive(b) PROVE Troves'[b].status # "closedByLiquidation"
  BY DEF LiquidatedNow
<1>2. Troves[b].status = "active"
  BY DEF IsActive
<1>3. CASE UNCHANGED Troves
  BY <1>2, <1>3
<1>4. ASSUME NEW who \in Borrowers, NEW recipient, Open(who, recipient)
      PROVE  Troves'[b].status # "closedByLiquidation"
  <2>1. PICK value \in Collaterals, amount \in OpenAmounts, maxFee \in MaxFees,
             tag \in frontEnds \cup {NoFrontEnd} :
          OpenTrove(who, recipient, value, amount, maxFee, tag)
    BY <1>4 DEF Open
  <2>2. ~IsActive(who) /\ \E trove : Troves' = [Troves EXCEPT ![who] = trove]
    BY <2>1 DEF OpenTrove
  <2> QED BY <1>1, <1>2, <2>2
<1>5. ASSUME NEW c \in Borrowers, NEW value, NEW withdrawal, NEW change,
             NEW isDebtIncrease, NEW maxFee,
             AdjustTrove(c, value, withdrawal, change, isDebtIncrease, maxFee)
      PROVE  Troves'[b].status # "closedByLiquidation"
  <2>1. \E coll, debt, stake : Troves' = [Troves EXCEPT ![c] =
                                 [@ EXCEPT !.debt = debt, !.coll = coll, !.stake = stake]]
    BY <1>5 DEF AdjustTrove
  <2>2. Troves'[b].status = Troves[b].status
    BY <1>1, <2>1 DEF TroveType
  <2> QED BY <1>2, <2>2
<1>6. ASSUME NEW c \in Borrowers, CloseTrove(c)
      PROVE  Troves'[b].status # "closedByLiquidation"
  <2>1. Troves' = [Troves EXCEPT ![c] = ClosedTrove(c, "closedByOwner")]
    BY <1>6 DEF CloseTrove
  <2>2. ClosedTrove(c, "closedByOwner").status = "closedByOwner"
    BY ClosedTroveFields
  <2> QED BY <1>1, <1>2, <2>1, <2>2
<1>7. CASE RedeemStep
  <2>1. \E run : Troves' = [c \in Borrowers |-> TroveAfter(run, c)]
    BY <1>7 DEF RedeemStep, RedeemCollateral
  <2>2. PICK run : Troves'[b] = TroveAfter(run, b)
    BY <2>1
  <2>3. TroveAfter(run, b).status = "closedByRedemption"
        \/ TroveAfter(run, b).status = Troves[b].status
    <3>1. Troves[b] \in TroveType
      BY <1>1
    <3>2. ClosedTrove(b, "closedByRedemption").status = "closedByRedemption"
      BY ClosedTroveFields
    <3> QED BY <3>1, <3>2 DEF TroveAfter, TroveType
  <2> QED BY <1>2, <2>2, <2>3
<1>8. CASE BorrowerStep
  <2>1. PICK c \in Borrowers : \/ OpenForSelf(c) \/ OpenForOther(c) \/ Adjust(c)
                               \/ Close(c) \/ Claim(c)
    BY <1>8 DEF BorrowerStep
  <2>2. CASE Adjust(c)
    BY <1>5, <2>2 DEF Adjust
  <2>3. CASE Claim(c)
    BY <1>3, <2>3 DEF Claim, ClaimCollateral, troveVars
  <2> QED
    BY <1>4, <1>6, <2>1, <2>2, <2>3 DEF OpenForSelf, OpenForOther, Close
<1>9. CASE PoolStep
  <2>1. CASE \E c \in Borrowers : GainToTrove(c)
    <3>1. PICK c \in Borrowers : GainToTrove(c)
      BY <2>1
    <3>2. \E gain : AdjustTrove(c, gain, 0, 0, FALSE, 0)
      BY <3>1 DEF GainToTrove, WithdrawETHGainToTrove
    <3> QED BY <1>5, <3>2
  <2>2. CASE ~\E c \in Borrowers : GainToTrove(c)
    <3>1. UNCHANGED Troves
      BY <1>9, <2>2 DEF PoolStep, Deposit, Withdraw, ProvideToSP, WithdrawFromSP,
         PoolCallUnchanged, troveVars
    <3> QED BY <1>3, <3>1
  <2> QED BY <2>1, <2>2
<1>10. CASE GovernanceStep \/ EnvironmentStep \/ UNCHANGED vars
  <2>1. UNCHANGED Troves
    BY <1>10 DEF GovernanceStep, EnvironmentStep, Register, RegisterFrontEnd,
       SetAllowMinting, SetMaxDebtCeiling, AnyTransfer, Transfer, SetPrice, Tick, ledgers,
       troveVars, vars
  <2> QED BY <1>3, <2>1
<1> QED
  BY <1>7, <1>8, <1>9, <1>10 DEF Next

(* A trove that a step liquidates was below the minimum ratio, or in      *)
(* recovery mode below the critical one and covered by the StabilityPool; *)
(* then its owner keeps the surplus.                                      *)
LEMMA LiquidatedTrovesWereUnsafe ==
  ASSUME LedgerInv, BooksInv, [Next]_vars, NEW b \in Borrowers, LiquidatedNow(b)
  PROVE  \/ CurrentICR(b, price) < MCR /\ SurplusGained(b) = 0
         \/ /\ InRecoveryMode(price) /\ CurrentICR(b, price) < CCR
            /\ EntireDebt(b) <= stabilityPool.totalARTHDeposits
            /\ SurplusGained(b) = EntireColl(b) - (EntireDebt(b) * MCR) \div price
<1>1. LiquidateStep
  BY OnlyLiquidationsLiquidate
<1>2. PICK run, liquidator : /\ RunInv(run, InRecoveryMode(price), price)
                             /\ ApplyLiquidation(run, liquidator)
  BY <1>1, LiquidateStepRun
<1>3. RunBooks(run, InRecoveryMode(price), price)
  BY <1>2 DEF RunInv
<1>4. /\ Troves' = [c \in Borrowers |->
           IF c \in Closed(run) THEN ClosedTrove(c, "closedByLiquidation") ELSE Troves[c]]
      /\ collSurplusPool'.balances = [c \in Borrowers |->
                                        collSurplusPool.balances[c] + run.surplus[c]]
  BY <1>2 DEF ApplyLiquidation
<1>5. b \in Closed(run)
  BY <1>4 DEF LiquidatedNow, IsActive
<1>6. MayBeLiquidated(b, run.surplus[b], InRecoveryMode(price), price)
  BY <1>3, <1>5 DEF RunBooks, ClosedRightly
<1>7. SurplusGained(b) = run.surplus[b]
  <2>1. run.surplus[b] \in Nat /\ collSurplusPool.balances[b] \in Nat
    BY <1>3 DEF RunBooks, LiquidationRuns, LedgerInv, LedgerTypeOK
  <2> QED BY <1>4, <2>1 DEF SurplusGained
<1> QED
  BY <1>6, <1>7 DEF MayBeLiquidated

------------------------------------------------------------------------------
(* The loop of the redemptions. *)

RedemptionRuns ==
  [remaining : Nat, iterations : Nat, redeemed : Nat, drawn : Nat,
   closed : Seq(ActiveTroves), surplus : [Borrowers -> Int],
   applied : SUBSET Borrowers, partial : Borrowers \cup {NoHint},
   debtLeft : Int, collLeft : Int, movedETH : Nat, movedDebt : Nat,
   cancelled : BOOLEAN]

(* The record's fields determine it. *)
IsRedemptionRun(run) ==
  run = [remaining |-> run.remaining, iterations |-> run.iterations,
         redeemed |-> run.redeemed, drawn |-> run.drawn, closed |-> run.closed,
         surplus |-> run.surplus, applied |-> run.applied, partial |-> run.partial,
         debtLeft |-> run.debtLeft, collLeft |-> run.collLeft,
         movedETH |-> run.movedETH, movedDebt |-> run.movedDebt,
         cancelled |-> run.cancelled]

(* What the redemption from b, whose rewards are applied, makes of the run. *)
RedeemedFrom(next, run, b, p) ==
  LET trove == ApplyPendingRewards(b)
      lot   == LotOf(run, b)
      drawn == ETHLot(lot, p)
  IN  /\ IsRedemptionRun(next)
      /\ next.applied = run.applied \cup {b} /\ next.iterations = run.iterations - 1
      /\ next.movedETH = run.movedETH + trove.movedETH
      /\ next.movedDebt = run.movedDebt + trove.movedDebt
      /\ \/ /\ trove.debt - lot = ARTH_GAS_COMPENSATION
            /\ next.closed = Append(run.closed, b)
            /\ next.surplus = [run.surplus EXCEPT ![b] = @ + (trove.coll - drawn)]
            /\ next.remaining = run.remaining - lot /\ next.redeemed = run.redeemed + lot
            /\ next.drawn = run.drawn + drawn
            /\ next.partial = run.partial /\ next.debtLeft = run.debtLeft
            /\ next.collLeft = run.collLeft /\ next.cancelled = run.cancelled
         \/ /\ next.cancelled = TRUE
            /\ next.closed = run.closed /\ next.surplus = run.surplus
            /\ next.remaining = run.remaining /\ next.redeemed = run.redeemed
            /\ next.drawn = run.drawn
            /\ next.partial = run.partial /\ next.debtLeft = run.debtLeft
            /\ next.collLeft = run.collLeft
         \/ /\ trove.debt - lot # ARTH_GAS_COMPENSATION
            /\ NetDebt(trove.debt - lot) >= MIN_NET_DEBT
            /\ next.closed = run.closed /\ next.surplus = run.surplus
            /\ next.remaining = run.remaining - lot /\ next.redeemed = run.redeemed + lot
            /\ next.drawn = run.drawn + drawn
            /\ next.partial = b /\ next.debtLeft = trove.debt - lot
            /\ next.collLeft = trove.coll - drawn /\ next.cancelled = run.cancelled

(* A redemption whose hint is up to date is refused for the debt it leaves. *)
RefusedForDebt(next, run, b) ==
  LET left == ApplyPendingRewards(b).debt - LotOf(run, b)
  IN  run.cancelled = FALSE /\ next.cancelled = TRUE =>
        left # ARTH_GAS_COMPENSATION /\ NetDebt(left) < MIN_NET_DEBT

(* RedeemFromTrove, field by field. *)
LEMMA RedeemedFields ==
  ASSUME NEW run \in RedemptionRuns, NEW b \in Borrowers, NEW p, NEW hintIsFresh,
         NetDebt(ApplyPendingRewards(b).debt - LotOf(run, b)) \in Int
  PROVE  /\ RedeemedFrom(RedeemFromTrove(run, b, p, hintIsFresh), run, b, p)
         /\ hintIsFresh = TRUE =>
              RefusedForDebt(RedeemFromTrove(run, b, p, hintIsFresh), run, b)
<1> DEFINE trove == ApplyPendingRewards(b)
           lot == LotOf(run, b)
           drawn == ETHLot(lot, p)
           newDebt == trove.debt - lot
           newColl == trove.coll - drawn
           applied == [run EXCEPT !.applied = @ \cup {b}, !.iterations = @ - 1,
                                  !.movedETH = @ + trove.movedETH,
                                  !.movedDebt = @ + trove.movedDebt]
           taken == [applied EXCEPT !.remaining = @ - lot, !.redeemed = @ + lot,
                                    !.drawn = @ + drawn]
           ended == [taken EXCEPT !.closed = Append(@, b), !.surplus[b] = @ + newColl]
           refused == [applied EXCEPT !.cancelled = TRUE]
           reduced == [taken EXCEPT !.partial = b, !.debtLeft = newDebt, !.collLeft = newColl]
           next == RedeemFromTrove(run, b, p, hintIsFresh)
<1>1. next = IF newDebt = ARTH_GAS_COMPENSATION THEN ended
             ELSE IF PartialIsRefused(hintIsFresh, newDebt) THEN refused ELSE reduced
  BY Zenon DEF RedeemFromTrove
<1>2. DOMAIN run = RunFields
  BY DEF RedemptionRuns, RunFields
<1>3. newDebt = trove.debt - lot /\ newColl = trove.coll - drawn
  OBVIOUS
<1> DEFINE mE == trove.movedETH
           mD == trove.movedDebt
<1> HIDE DEF newDebt, newColl
<1>4. /\ applied.applied = run.applied \cup {b} /\ applied.iterations = run.iterations - 1
      /\ applied.movedETH = run.movedETH + trove.movedETH
      /\ applied.movedDebt = run.movedDebt + trove.movedDebt
      /\ applied.closed = run.closed /\ applied.surplus = run.surplus
      /\ applied.remaining = run.remaining /\ applied.redeemed = run.redeemed
      /\ applied.drawn = run.drawn /\ applied.partial = run.partial
      /\ applied.debtLeft = run.debtLeft /\ applied.collLeft = run.collLeft
      /\ applied.cancelled = run.cancelled /\ DOMAIN applied = RunFields
  <2> HIDE DEF trove, lot, drawn
  <2> QED BY <1>2 DEF RunFields
<1> HIDE DEF applied
<1>5. /\ taken.applied = applied.applied /\ taken.iterations = applied.iterations
      /\ taken.movedETH = applied.movedETH /\ taken.movedDebt = applied.movedDebt
      /\ taken.closed = run.closed /\ taken.surplus = run.surplus
      /\ taken.remaining = run.remaining - lot /\ taken.redeemed = run.redeemed + lot
      /\ taken.drawn = run.drawn + drawn /\ taken.partial = run.partial
      /\ taken.debtLeft = run.debtLeft /\ taken.collLeft = run.collLeft
      /\ taken.cancelled = run.cancelled /\ DOMAIN taken = RunFields
  <2> HIDE DEF trove, lot, drawn
  <2> QED BY <1>4 DEF RunFields
<1> HIDE DEF taken, trove, lot, drawn
<1>6. /\ ended.closed = Append(run.closed, b)
      /\ ended.surplus = [run.surplus EXCEPT ![b] = @ + newColl]
      /\ ended.remaining = taken.remaining /\ ended.redeemed = taken.redeemed
      /\ ended.drawn = taken.drawn /\ ended.partial = taken.partial
      /\ ended.debtLeft = taken.debtLeft /\ ended.collLeft = taken.collLeft
      /\ ended.cancelled = taken.cancelled
      /\ ended.applied = taken.applied /\ ended.iterations = taken.iterations
      /\ ended.movedETH = taken.movedETH /\ ended.movedDebt = taken.movedDebt
      /\ DOMAIN ended = RunFields
  BY <1>5 DEF RunFields
<1>7. /\ refused.cancelled = TRUE /\ refused.closed = applied.closed
      /\ refused.surplus = applied.surplus
      /\ refused.remaining = applied.remaining /\ refused.redeemed = applied.redeemed
      /\ refused.drawn = applied.drawn /\ refused.partial = applied.partial
      /\ refused.debtLeft = applied.debtLeft /\ refused.collLeft = applied.collLeft
      /\ refused.applied = applied.applied /\ refused.iterations = applied.iterations
      /\ refused.movedETH = applied.movedETH /\ refused.movedDebt = applied.movedDebt
      /\ DOMAIN refused = RunFields
  BY <1>4 DEF RunFields
<1>8. /\ reduced.partial = b /\ reduced.debtLeft = newDebt /\ reduced.collLeft = newColl
      /\ reduced.closed = taken.closed /\ reduced.surplus = taken.surplus
      /\ reduced.remaining = taken.remaining /\ reduced.redeemed = taken.redeemed
      /\ reduced.drawn = taken.drawn /\ reduced.cancelled = taken.cancelled
      /\ reduced.applied = taken.applied /\ reduced.iterations = taken.iterations
      /\ reduced.movedETH = taken.movedETH /\ reduced.movedDebt = taken.movedDebt
      /\ DOMAIN reduced = RunFields
  BY <1>5 DEF RunFields
<1>9. /\ ended = [f \in DOMAIN ended |-> ended[f]]
      /\ refused = [f \in DOMAIN refused |-> refused[f]]
      /\ reduced = [f \in DOMAIN reduced |-> reduced[f]]
  BY Zenon
<1> HIDE DEF ended, refused, reduced
<1>10. \A x : DOMAIN x = RunFields /\ x = [f \in DOMAIN x |-> x[f]] => IsRedemptionRun(x)
  BY DEF RunFields, IsRedemptionRun
<1>11. IsRedemptionRun(ended) /\ IsRedemptionRun(refused) /\ IsRedemptionRun(reduced)
  BY <1>6, <1>7, <1>8, <1>9, <1>10
<1> HIDE DEF next
<1>12. CASE newDebt = ARTH_GAS_COMPENSATION
  <2>1. next = ended
    BY <1>1, <1>12
  <2>2. RedeemedFrom(next, run, b, p)
    BY <1>3, <1>4, <1>5, <1>6, <1>11, <1>12, <2>1 DEF RedeemedFrom, trove, lot, drawn
  <2>3. next.cancelled = run.cancelled
    BY <1>5, <1>6, <2>1
  <2> QED BY <2>2, <2>3 DEF next, RefusedForDebt
<1>13. CASE newDebt # ARTH_GAS_COMPENSATION /\ PartialIsRefused(hintIsFresh, newDebt)
  <2>1. next = refused
    BY <1>1, <1>13
  <2>2. RedeemedFrom(next, run, b, p)
    BY <1>4, <1>7, <1>11, <2>1 DEF RedeemedFrom, trove, lot, drawn
  <2>3. hintIsFresh = TRUE => NetDebt(newDebt) < MIN_NET_DEBT
    BY <1>13 DEF PartialIsRefused
  <2>4. hintIsFresh = TRUE => RefusedForDebt(next, run, b)
    BY <1>3, <1>13, <2>3 DEF RefusedForDebt, trove, lot
  <2> QED BY <2>2, <2>4 DEF next
<1>14. CASE newDebt # ARTH_GAS_COMPENSATION /\ ~PartialIsRefused(hintIsFresh, newDebt)
  <2>1. next = reduced
    BY <1>1, <1>14
  <2>3. NetDebt(newDebt) >= MIN_NET_DEBT
    BY <1>3, <1>14, DebtAssumption DEF PartialIsRefused, trove, lot
  <2>2. RedeemedFrom(next, run, b, p)
    BY <1>3, <1>4, <1>5, <1>8, <1>11, <1>14, <2>1, <2>3 DEF RedeemedFrom, trove, lot, drawn
  <2>4. next.cancelled = run.cancelled
    BY <1>5, <1>8, <2>1
  <2> QED BY <2>2, <2>4 DEF next, RefusedForDebt
<1> QED
  BY <1>12, <1>13, <1>14

------------------------------------------------------------------------------
(* What the loop of a redemption leaves. *)

(* Twice the same redistribution: of ETH and of debt. *)
SnapshotsTogether ==
  \A b \in ActiveTroves :
    rewardSnapshots[b].ETH = L.ETH => rewardSnapshots[b].ARTHDebt = L.ARTHDebt

ETHTermOf  == [b \in Borrowers |-> Troves[b].stake * (L.ETH - rewardSnapshots[b].ETH)]
DebtTermOf == [b \in Borrowers |-> Troves[b].stake * (L.ARTHDebt - rewardSnapshots[b].ARTHDebt)]

(* The terms of the rewards of a borrower are natural numbers. *)
LEMMA TermsAreAmounts ==
  ASSUME LedgerInv, NEW b \in Borrowers
  PROVE  /\ L.ETH - rewardSnapshots[b].ETH \in Nat
         /\ L.ARTHDebt - rewardSnapshots[b].ARTHDebt \in Nat
         /\ ETHTermOf[b] = Troves[b].stake * (L.ETH - rewardSnapshots[b].ETH)
         /\ DebtTermOf[b] = Troves[b].stake * (L.ARTHDebt - rewardSnapshots[b].ARTHDebt)
         /\ ETHTermOf[b] \in Nat /\ DebtTermOf[b] \in Nat
<1>1. Troves[b].stake \in Nat
  BY DEF LedgerInv, LedgerTypeOK
<1>2. /\ L.ETH - rewardSnapshots[b].ETH \in Nat
      /\ L.ARTHDebt - rewardSnapshots[b].ARTHDebt \in Nat
  BY DEF LedgerInv, LedgerTypeOK, SnapshotsBehindL, PoolType
<1>3. /\ Troves[b].stake * (L.ETH - rewardSnapshots[b].ETH) \in Nat
      /\ Troves[b].stake * (L.ARTHDebt - rewardSnapshots[b].ARTHDebt) \in Nat
  BY <1>1, <1>2, NatProduct
<1> QED
  BY <1>2, <1>3 DEF ETHTermOf, DebtTermOf

(* What applying the rewards of a trove moves. *)
LEMMA AppliedFacts ==
  ASSUME LedgerInv, NEW b \in ActiveTroves
  PROVE  LET trove == ApplyPendingRewards(b)
         IN  /\ trove.coll = Troves[b].coll + trove.movedETH
             /\ trove.debt = Troves[b].debt + trove.movedDebt
             /\ trove.movedETH * DECIMAL_PRECISION <= ETHTermOf[b]
             /\ trove.movedDebt * DECIMAL_PRECISION <= DebtTermOf[b]
             /\ trove.snapshot.ETH = L.ETH
             /\ SnapshotsTogether => trove.snapshot.ARTHDebt = L.ARTHDebt
<1> DEFINE trove == ApplyPendingRewards(b)
<1>1. b \in Borrowers /\ IsActive(b)
  BY DEF ActiveTroves
<1>2. /\ ETHTermOf[b] = Troves[b].stake * (L.ETH - rewardSnapshots[b].ETH)
      /\ DebtTermOf[b] = Troves[b].stake * (L.ARTHDebt - rewardSnapshots[b].ARTHDebt)
      /\ ETHTermOf[b] \in Nat /\ DebtTermOf[b] \in Nat
  BY <1>1, TermsAreAmounts
<1>3. /\ PendingETHReward(b) = ETHTermOf[b] \div DECIMAL_PRECISION
      /\ PendingARTHDebtReward(b) = DebtTermOf[b] \div DECIMAL_PRECISION
  BY <1>1, <1>2 DEF PendingETHReward, PendingARTHDebtReward
<1>4. DECIMAL_PRECISION \in Nat \ {0}
  BY PrecisionAssumption
<1>5. /\ PendingETHReward(b) * DECIMAL_PRECISION <= ETHTermOf[b]
      /\ PendingARTHDebtReward(b) * DECIMAL_PRECISION <= DebtTermOf[b]
  BY <1>2, <1>3, <1>4, FloorQuotient
<1>6. CASE HasPendingRewards(b)
  <2>1. /\ trove.coll = Troves[b].coll + PendingETHReward(b)
        /\ trove.debt = Troves[b].debt + PendingARTHDebtReward(b)
        /\ trove.movedETH = PendingETHReward(b) /\ trove.movedDebt = PendingARTHDebtReward(b)
        /\ trove.snapshot = L
    BY <1>6 DEF ApplyPendingRewards, EntireColl, EntireDebt
  <2> HIDE DEF trove
  <2>2. /\ trove.coll = Troves[b].coll + trove.movedETH
        /\ trove.debt = Troves[b].debt + trove.movedDebt
        /\ trove.movedETH * DECIMAL_PRECISION <= ETHTermOf[b]
        /\ trove.movedDebt * DECIMAL_PRECISION <= DebtTermOf[b]
        /\ trove.snapshot.ETH = L.ETH
        /\ SnapshotsTogether => trove.snapshot.ARTHDebt = L.ARTHDebt
    BY <1>5, <2>1
  <2> QED BY <2>2 DEF trove
<1>7. CASE ~HasPendingRewards(b)
  <2>1. /\ trove.coll = Troves[b].coll /\ trove.debt = Troves[b].debt
        /\ trove.movedETH = 0 /\ trove.movedDebt = 0
        /\ trove.snapshot = rewardSnapshots[b]
    BY <1>7 DEF ApplyPendingRewards
  <2>2. rewardSnapshots[b].ETH = L.ETH
    <3>1. L.ETH \in Nat /\ rewardSnapshots[b].ETH \in Nat /\ rewardSnapshots[b].ETH <= L.ETH
      BY <1>1 DEF LedgerInv, LedgerTypeOK, SnapshotsBehindL, PoolType
    <3>2. ~(rewardSnapshots[b].ETH < L.ETH)
      BY <1>1, <1>7 DEF HasPendingRewards
    <3> QED BY <3>1, <3>2
  <2>3. Troves[b].coll \in Nat /\ Troves[b].debt \in Nat
    BY <1>1 DEF LedgerInv, LedgerTypeOK
  <2> HIDE DEF trove
  <2>5. /\ trove.coll = Troves[b].coll + trove.movedETH
        /\ trove.debt = Troves[b].debt + trove.movedDebt
        /\ trove.movedETH * DECIMAL_PRECISION <= ETHTermOf[b]
        /\ trove.movedDebt * DECIMAL_PRECISION <= DebtTermOf[b]
    BY <1>2, <1>4, <2>1, <2>3
  <2>4. /\ trove.snapshot.ETH = L.ETH
        /\ SnapshotsTogether => trove.snapshot.ARTHDebt = L.ARTHDebt
    BY <2>1, <2>2 DEF SnapshotsTogether
  <2> QED BY <2>4, <2>5 DEF trove
<1> QED
  BY <1>6, <1>7

------------------------------------------------------------------------------
(* What a redemption leaves of the troves. *)

CollAfter(run)     == [b \in Borrowers |-> TroveAfter(run, b).coll]
DebtAfter(run)     == [b \in Borrowers |-> TroveAfter(run, b).debt]
ETHTermAfter(run)  == [b \in Borrowers |->
                         TroveAfter(run, b).stake * (L.ETH - SnapshotAfter(run, b).ETH)]
DebtTermAfter(run) == [b \in Borrowers |->
                         TroveAfter(run, b).stake * (L.ARTHDebt - SnapshotAfter(run, b).ARTHDebt)]

(* What a redemption leaves of a trove has integer amounts. *)
LEMMA AfterTyped ==
  ASSUME LedgerInv, NEW run \in RedemptionRuns, NEW b \in Borrowers
  PROVE  /\ TroveAfter(run, b).coll \in Int /\ TroveAfter(run, b).debt \in Int
         /\ TroveAfter(run, b).stake \in Int /\ SnapshotAfter(run, b) \in PoolType
         /\ CollAfter(run)[b] = TroveAfter(run, b).coll
         /\ DebtAfter(run)[b] = TroveAfter(run, b).debt
         /\ ETHTermAfter(run)[b]
              = TroveAfter(run, b).stake * (L.ETH - SnapshotAfter(run, b).ETH)
         /\ DebtTermAfter(run)[b]
              = TroveAfter(run, b).stake * (L.ARTHDebt - SnapshotAfter(run, b).ARTHDebt)
         /\ CollAfter(run)[b] \in Int /\ DebtAfter(run)[b] \in Int
         /\ ETHTermAfter(run)[b] \in Int /\ DebtTermAfter(run)[b] \in Int
<1> DEFINE after == ApplyPendingRewards(b)
           t == Troves[b]
           s == NewStake(run.collLeft)
           out == TroveAfter(run, b)
<1>1. after.coll \in Nat /\ after.debt \in Nat /\ after.snapshot \in PoolType
  BY AppliedRewardsTyped
<1>2. run.collLeft \in Int /\ run.debtLeft \in Int
  BY DEF RedemptionRuns
<1>3. s \in Int
  <2>1. systemSnapshots.coll \in Nat /\ systemSnapshots.stakes \in Nat
    BY DEF LedgerInv, LedgerTypeOK
  <2>2. \A x \in Int, y \in Nat : x * y \in Int
    OBVIOUS
  <2>3. \A x \in Int, y \in Nat \ {0} : x \div y \in Int
    OBVIOUS
  <2> QED BY <1>2, <2>1, <2>2, <2>3 DEF NewStake
<1>4. t \in TroveType /\ rewardSnapshots[b] \in PoolType
  BY DEF LedgerInv, LedgerTypeOK, TroveType
<1> HIDE DEF after, s
<1>5. out.coll \in Int /\ out.debt \in Int /\ out.stake \in Int
  <2>1. out = IF b \in ClosedBy(run) THEN ClosedTrove(b, "closedByRedemption")
              ELSE IF b = run.partial
              THEN [t EXCEPT !.debt = run.debtLeft, !.coll = run.collLeft, !.stake = s]
              ELSE IF b \in run.applied THEN [t EXCEPT !.debt = after.debt, !.coll = after.coll]
              ELSE t
    BY DEF TroveAfter, s, after
  <2> HIDE DEF out, t
  <2> QED BY <1>1, <1>2, <1>3, <1>4, <2>1, ClosedTroveFields DEF TroveType
<1>6. SnapshotAfter(run, b) \in PoolType
  BY <1>1, <1>4 DEF SnapshotAfter, after, ZeroSnapshot, PoolType
<1>7. L \in PoolType
  BY DEF LedgerInv, LedgerTypeOK
<1>8. /\ out.stake * (L.ETH - SnapshotAfter(run, b).ETH) \in Int
      /\ out.stake * (L.ARTHDebt - SnapshotAfter(run, b).ARTHDebt) \in Int
  <2>1. /\ L.ETH - SnapshotAfter(run, b).ETH \in Int
        /\ L.ARTHDebt - SnapshotAfter(run, b).ARTHDebt \in Int
    BY <1>6, <1>7 DEF PoolType
  <2>2. \A x, y \in Int : x * y \in Int
    OBVIOUS
  <2> HIDE DEF out
  <2> QED BY <1>5, <2>1, <2>2
<1> QED
  BY <1>5, <1>6, <1>8 DEF CollAfter, DebtAfter, ETHTermAfter, DebtTermAfter

(* The books of a redemption: what it has drawn, redeemed and moved from   *)
(* pool to pool adds up to what the troves have lost.                      *)
RedemptionTotals(run) ==
  /\ SumFunctionOnSet(CollAfter(run), Borrowers) + run.drawn + SumFunction(run.surplus)
       = CollTotal + run.movedETH
  /\ SumFunctionOnSet(DebtAfter(run), Borrowers) + run.redeemed + ReserveOf(run)
       = DebtTotal + run.movedDebt
  /\ SumFunctionOnSet(ETHTermAfter(run), Borrowers) + run.movedETH * DECIMAL_PRECISION
       <= SumFunctionOnSet(ETHTermOf, Borrowers)
  /\ SnapshotsTogether =>
       SumFunctionOnSet(DebtTermAfter(run), Borrowers) + run.movedDebt * DECIMAL_PRECISION
         <= SumFunctionOnSet(DebtTermOf, Borrowers)

(* The value that b gives is no more than the debt it is rid of. *)
FairTo(run, b, p) ==
  LET trove   == IF b \in run.applied THEN ApplyPendingRewards(b) ELSE Troves[b]
      reserve == IF b \in ClosedBy(run) THEN ARTH_GAS_COMPENSATION ELSE 0
      debtCut == trove.debt - TroveAfter(run, b).debt - reserve
      collCut == trove.coll - TroveAfter(run, b).coll - run.surplus[b]
  IN  debtCut \in Nat /\ collCut * p <= debtCut * DECIMAL_PRECISION

RedemptionBooks(run, p) ==
  /\ run \in RedemptionRuns
  /\ run.applied \subseteq ActiveTroves
  /\ IsInjective(run.closed) /\ ClosedBy(run) \subseteq run.applied
  /\ run.partial # NoHint => /\ run.partial \in run.applied \ ClosedBy(run)
                             /\ run.remaining = 0
                             /\ run.debtLeft >= ARTH_GAS_COMPENSATION + MIN_NET_DEBT
  /\ run.partial = NoHint => run.debtLeft = 0 /\ run.collLeft = 0
  /\ \A b \in Borrowers \ ClosedBy(run) : run.surplus[b] = 0
  /\ RedemptionTotals(run)
  /\ run.drawn * p <= run.redeemed * DECIMAL_PRECISION
  /\ \A b \in Borrowers : FairTo(run, b, p)

(* One iteration leaves every trove but the one it visits alone.           *)
LEMMA OthersAfter ==
  ASSUME NEW b \in ActiveTroves, NEW p, NEW run, RedemptionBooks(run, p),
         b \notin run.applied, run.remaining # 0, NEW next, RedeemedFrom(next, run, b, p)
  PROVE  /\ ClosedBy(next) = ClosedBy(run) \/ ClosedBy(next) = ClosedBy(run) \cup {b}
         /\ TroveAfter(run, b) = Troves[b] /\ SnapshotAfter(run, b) = rewardSnapshots[b]
         /\ \A c \in Borrowers \ {b} : /\ TroveAfter(next, c) = TroveAfter(run, c)
                                       /\ SnapshotAfter(next, c) = SnapshotAfter(run, c)
                                       /\ c \in ClosedBy(next) <=> c \in ClosedBy(run)
                                       /\ c \in next.applied <=> c \in run.applied
<1>7. /\ run.closed \in Seq(ActiveTroves) /\ run.partial = NoHint
      /\ ClosedBy(run) \subseteq run.applied /\ b \in Borrowers
  BY DEF RedemptionBooks, RedemptionRuns, ActiveTroves
<1>1. /\ next.applied = run.applied \cup {b}
      /\ next.closed = run.closed \/ next.closed = Append(run.closed, b)
      /\ next.partial \in {NoHint, b}
  BY <1>7 DEF RedeemedFrom
<1>2. NoHint \notin Borrowers
  BY AddressAssumption DEF NoHint, Accounts
<1>3. ClosedBy(next) = ClosedBy(run) \/ ClosedBy(next) = ClosedBy(run) \cup {b}
  <2>1. CASE next.closed = run.closed
    BY <2>1 DEF ClosedBy
  <2>2. CASE next.closed = Append(run.closed, b)
    <3>1. run.closed \in Seq(ActiveTroves \cup {b})
      <4>1. Seq(ActiveTroves) \subseteq Seq(ActiveTroves \cup {b})
        OBVIOUS
      <4> QED BY <1>7, <4>1
    <3>2. ToSet(Append(run.closed, b)) = ToSet(run.closed) \cup {b}
      <4>1. b \in ActiveTroves \cup {b}
        OBVIOUS
      <4> QED BY <3>1, <4>1, AppendFacts
    <3> QED BY <2>2, <3>2 DEF ClosedBy
  <2> QED BY <1>1, <2>1, <2>2
<1>4. b \notin ClosedBy(run) /\ b # run.partial
  BY <1>2, <1>7
<1>5. TroveAfter(run, b) = Troves[b] /\ SnapshotAfter(run, b) = rewardSnapshots[b]
  BY <1>4, <1>7 DEF TroveAfter, SnapshotAfter
<1>6. ASSUME NEW c \in Borrowers \ {b}
      PROVE  /\ TroveAfter(next, c) = TroveAfter(run, c)
             /\ SnapshotAfter(next, c) = SnapshotAfter(run, c)
             /\ c \in ClosedBy(next) <=> c \in ClosedBy(run)
             /\ c \in next.applied <=> c \in run.applied
  <2>1. /\ c \in ClosedBy(next) <=> c \in ClosedBy(run)
        /\ c \in next.applied <=> c \in run.applied
        /\ c # next.partial /\ c # run.partial
    BY <1>1, <1>2, <1>3, <1>7
  <2> QED BY <2>1 DEF TroveAfter, SnapshotAfter
<1> QED
  BY <1>3, <1>5, <1>6

(* The lot is an amount that leaves the reserve in the trove.              *)
LEMMA LotFits ==
  ASSUME LedgerInv, MinimumDebtKept, NEW b \in ActiveTroves, NEW run, run.remaining \in Nat,
         NEW p \in Nat \ {0}
  PROVE  LET trove == ApplyPendingRewards(b)
             lot   == LotOf(run, b)
         IN  /\ lot \in Nat /\ lot <= run.remaining
             /\ trove.debt - lot \in Nat /\ trove.debt - lot >= ARTH_GAS_COMPENSATION
             /\ NetDebt(trove.debt - lot) \in Int
             /\ trove.debt - lot # ARTH_GAS_COMPENSATION => lot = run.remaining
             /\ ETHLot(lot, p) \in Nat /\ ETHLot(lot, p) * p <= lot * DECIMAL_PRECISION
<1> DEFINE trove == ApplyPendingRewards(b)
           lot == LotOf(run, b)
<1>1. /\ DECIMAL_PRECISION \in Nat /\ ARTH_GAS_COMPENSATION \in Nat /\ MIN_NET_DEBT \in Nat
      /\ b \in Borrowers
  BY PrecisionAssumption, DebtAssumption DEF ActiveTroves
<1>2. /\ trove.debt \in Nat /\ trove.debt >= ARTH_GAS_COMPENSATION
  <2>1. /\ Troves[b].debt \in Nat /\ Troves[b].debt >= ARTH_GAS_COMPENSATION
    BY <1>1 DEF MinimumDebtKept, LedgerInv, LedgerTypeOK
  <2>2. trove.movedDebt \in Nat
    BY <1>1, AppliedRewardsTyped
  <2>3. trove.debt = Troves[b].debt + trove.movedDebt
    BY AppliedFacts
  <2> HIDE DEF trove
  <2> QED BY <1>1, <2>1, <2>2, <2>3
<1>3. lot = MinOf(run.remaining, trove.debt - ARTH_GAS_COMPENSATION)
  BY DEF LotOf, NetDebt
<1> HIDE DEF trove, lot
<1>4. /\ lot \in Nat /\ lot <= run.remaining
      /\ trove.debt - lot \in Nat /\ trove.debt - lot >= ARTH_GAS_COMPENSATION
      /\ trove.debt - lot # ARTH_GAS_COMPENSATION => lot = run.remaining
  BY <1>1, <1>2, <1>3 DEF MinOf
<1>5. NetDebt(trove.debt - lot) \in Int
  BY <1>1, <1>4 DEF NetDebt
<1>6. ETHLot(lot, p) \in Nat /\ ETHLot(lot, p) * p <= lot * DECIMAL_PRECISION
  <2>1. lot * DECIMAL_PRECISION \in Nat
    BY <1>1, <1>4, NatProduct
  <2> QED BY <2>1, NatQuotient, FloorQuotient DEF ETHLot
<1> QED
  BY <1>4, <1>5, <1>6 DEF trove, lot

(* What the iteration makes of the trove it visits, and what it takes.     *)
LEMMA VisitedAfter ==
  ASSUME LedgerInv, MinimumDebtKept, NEW b \in ActiveTroves, NEW p \in Nat \ {0},
         NEW run, RedemptionBooks(run, p), b \notin run.applied, run.remaining # 0,
         NEW next, RedeemedFrom(next, run, b, p)
  PROVE  LET trove   == ApplyPendingRewards(b)
             after   == TroveAfter(next, b)
             reserve == IF b \in ClosedBy(next) THEN ARTH_GAS_COMPENSATION ELSE 0
         IN  /\ trove.coll - after.coll - next.surplus[b] = next.drawn - run.drawn
             /\ trove.debt - after.debt - reserve = next.redeemed - run.redeemed
             /\ next.redeemed - run.redeemed \in Nat
             /\ (next.drawn - run.drawn) * p
                  <= (next.redeemed - run.redeemed) * DECIMAL_PRECISION
             /\ after.stake = 0 \/ SnapshotAfter(next, b) = trove.snapshot
<1> DEFINE trove == ApplyPendingRewards(b)
           lot == LotOf(run, b)
           drawn == ETHLot(lot, p)
           after == TroveAfter(next, b)
<1>1. /\ run \in RedemptionRuns /\ b \in Borrowers
      /\ ClosedBy(run) \subseteq run.applied /\ b \notin ClosedBy(run)
      /\ run.surplus[b] = 0 /\ run.surplus \in [Borrowers -> Int]
      /\ run.closed \in Seq(ActiveTroves)
      /\ run.drawn \in Nat /\ run.redeemed \in Nat /\ run.remaining \in Nat
      /\ NoHint \notin Borrowers /\ run.partial = NoHint
  BY AddressAssumption DEF RedemptionBooks, RedemptionRuns, ActiveTroves, NoHint, Accounts
<1>2. /\ lot \in Nat /\ lot <= run.remaining
      /\ drawn \in Nat /\ drawn * p <= lot * DECIMAL_PRECISION
  BY <1>1, LotFits
<1>3. trove.coll \in Nat /\ trove.debt \in Nat
  BY <1>1, AppliedRewardsTyped
<1>4. Troves[b] \in TroveType /\ ARTH_GAS_COMPENSATION \in Nat /\ DECIMAL_PRECISION \in Nat
  BY <1>1, DebtAssumption, PrecisionAssumption DEF LedgerInv, LedgerTypeOK, TroveType
<1>5. b \in next.applied
  BY DEF RedeemedFrom
<1>6. /\ 0 * p = 0 /\ 0 * DECIMAL_PRECISION = 0
  BY <1>4
<1>7. CASE /\ trove.debt - lot = ARTH_GAS_COMPENSATION
           /\ next.closed = Append(run.closed, b)
           /\ next.surplus = [run.surplus EXCEPT ![b] = @ + (trove.coll - drawn)]
           /\ next.drawn = run.drawn + drawn /\ next.redeemed = run.redeemed + lot
  <2> HIDE DEF trove, lot, drawn
  <2>1. b \in ClosedBy(next)
    BY <1>1, <1>7, AppendFacts DEF ClosedBy
  <2>2. after.coll = 0 /\ after.debt = 0 /\ after.stake = 0
    BY <1>1, <2>1, ClosedTroveFields DEF TroveAfter
  <2>3. next.surplus[b] = trove.coll - drawn
    BY <1>1, <1>2, <1>3, <1>7
  <2> HIDE DEF after
  <2>4. /\ trove.coll - after.coll - next.surplus[b] = drawn
        /\ trove.debt - after.debt - ARTH_GAS_COMPENSATION = lot
        /\ next.drawn - run.drawn = drawn /\ next.redeemed - run.redeemed = lot
    <3>1. \A x, y \in Nat : x - 0 - (x - y) = y /\ (x + y) - x = y
      OBVIOUS
    <3>2. trove.coll - after.coll - next.surplus[b] = drawn
      BY <1>2, <1>3, <2>2, <2>3, <3>1
    <3>3. trove.debt - after.debt - ARTH_GAS_COMPENSATION = lot
      BY <1>2, <1>3, <1>4, <1>7, <2>2
    <3>4. next.drawn - run.drawn = drawn
      BY <1>1, <1>2, <1>7, <3>1
    <3>5. next.redeemed - run.redeemed = lot
      BY <1>1, <1>2, <1>7, <3>1
    <3> QED BY <3>2, <3>3, <3>4, <3>5
  <2> QED BY <1>2, <2>1, <2>2, <2>4 DEF trove, after
<1>8. CASE /\ next.closed = run.closed /\ next.surplus = run.surplus
           /\ next.drawn = run.drawn /\ next.redeemed = run.redeemed
           /\ next.partial = run.partial
  <2> HIDE DEF trove, lot, drawn
  <2>1. b \notin ClosedBy(next) /\ b # next.partial
    BY <1>1, <1>8 DEF ClosedBy
  <2>2. after = [Troves[b] EXCEPT !.debt = trove.debt, !.coll = trove.coll]
    BY <1>5, <2>1 DEF TroveAfter, trove
  <2>3. after.coll = trove.coll /\ after.debt = trove.debt
    <3> HIDE DEF after
    <3> QED BY <1>4, <2>2 DEF TroveType
  <2>5. SnapshotAfter(next, b) = trove.snapshot
    BY <1>5, <2>1 DEF SnapshotAfter, trove
  <2> HIDE DEF after
  <2>4. /\ trove.coll - after.coll - next.surplus[b] = 0
        /\ trove.debt - after.debt - 0 = 0
        /\ next.drawn - run.drawn = 0 /\ next.redeemed - run.redeemed = 0
    BY <1>1, <1>3, <1>8, <2>3
  <2> QED BY <1>6, <2>1, <2>4, <2>5 DEF trove, after
<1>9. CASE /\ next.closed = run.closed /\ next.surplus = run.surplus
           /\ next.drawn = run.drawn + drawn /\ next.redeemed = run.redeemed + lot
           /\ next.partial = b /\ next.debtLeft = trove.debt - lot
           /\ next.collLeft = trove.coll - drawn
  <2> HIDE DEF trove, lot, drawn
  <2>1. b \notin ClosedBy(next) /\ b = next.partial
    BY <1>1, <1>9 DEF ClosedBy
  <2>2. after = [Troves[b] EXCEPT !.debt = next.debtLeft, !.coll = next.collLeft,
                                  !.stake = NewStake(next.collLeft)]
    BY <2>1 DEF TroveAfter
  <2>3. after.coll = trove.coll - drawn /\ after.debt = trove.debt - lot
    <3> HIDE DEF after
    <3> QED BY <1>4, <1>9, <2>2 DEF TroveType
  <2>5. SnapshotAfter(next, b) = trove.snapshot
    BY <1>5, <2>1 DEF SnapshotAfter, trove
  <2> HIDE DEF after
  <2>4. /\ trove.coll - after.coll - next.surplus[b] = drawn
        /\ trove.debt - after.debt - 0 = lot
        /\ next.drawn - run.drawn = drawn /\ next.redeemed - run.redeemed = lot
    <3>1. \A x, y \in Nat : x - (x - y) - 0 = y /\ (x + y) - x = y
      OBVIOUS
    <3>2. next.surplus[b] = 0
      BY <1>1, <1>9
    <3>3. trove.coll - after.coll - next.surplus[b] = drawn
      BY <1>2, <1>3, <2>3, <3>1, <3>2
    <3>4. trove.debt - after.debt - 0 = lot
      BY <1>2, <1>3, <2>3, <3>1
    <3>5. next.drawn - run.drawn = drawn
      BY <1>1, <1>2, <1>9, <3>1
    <3>6. next.redeemed - run.redeemed = lot
      BY <1>1, <1>2, <1>9, <3>1
    <3> QED BY <3>3, <3>4, <3>5, <3>6
  <2> QED BY <1>2, <2>1, <2>4, <2>5 DEF trove, after
<1> QED
  BY <1>7, <1>8, <1>9 DEF RedeemedFrom

(* The iteration keeps the run's fields within their types.                *)
LEMMA RedeemedTyped ==
  ASSUME LedgerInv, MinimumDebtKept, NEW b \in ActiveTroves, NEW p \in Nat \ {0},
         NEW run, RedemptionBooks(run, p), b \notin run.applied,
         run.remaining # 0, run.iterations # 0,
         NEW next, RedeemedFrom(next, run, b, p)
  PROVE  /\ next \in RedemptionRuns
         /\ next.applied \subseteq ActiveTroves
         /\ IsInjective(next.closed) /\ ClosedBy(next) \subseteq next.applied
         /\ next.partial # NoHint => /\ next.partial \in next.applied \ ClosedBy(next)
                                     /\ next.remaining = 0
                                     /\ next.debtLeft >= ARTH_GAS_COMPENSATION + MIN_NET_DEBT
         /\ next.partial = NoHint => next.debtLeft = 0 /\ next.collLeft = 0
         /\ \A c \in Borrowers \ ClosedBy(next) : next.surplus[c] = 0
<1> DEFINE trove == ApplyPendingRewards(b)
           lot == LotOf(run, b)
           drawn == ETHLot(lot, p)
<1>1. /\ b \in Borrowers /\ ActiveTroves \subseteq Borrowers
      /\ run.remaining \in Nat /\ run.iterations \in Nat /\ run.redeemed \in Nat
      /\ run.drawn \in Nat /\ run.closed \in Seq(ActiveTroves)
      /\ run.surplus \in [Borrowers -> Int] /\ run.applied \subseteq ActiveTroves
      /\ run.debtLeft \in Int /\ run.collLeft \in Int
      /\ run.movedETH \in Nat /\ run.movedDebt \in Nat /\ run.cancelled \in BOOLEAN
      /\ run.partial = NoHint /\ IsInjective(run.closed)
      /\ run.debtLeft = 0 /\ run.collLeft = 0
      /\ ClosedBy(run) \subseteq run.applied
      /\ \A c \in Borrowers \ ClosedBy(run) : run.surplus[c] = 0
  BY DEF RedemptionBooks, RedemptionRuns, ActiveTroves
<1>2. /\ lot \in Nat /\ lot <= run.remaining
      /\ trove.debt - lot \in Nat
      /\ trove.debt - lot # ARTH_GAS_COMPENSATION => lot = run.remaining
      /\ drawn \in Nat /\ NetDebt(trove.debt - lot) \in Int
  BY <1>1, LotFits
<1>3. /\ trove.coll \in Nat /\ trove.debt \in Nat
      /\ trove.movedETH \in Nat /\ trove.movedDebt \in Nat
  BY <1>1, AppliedRewardsTyped
<1>4. ARTH_GAS_COMPENSATION \in Nat /\ MIN_NET_DEBT \in Nat
  BY DebtAssumption
<1>5. /\ next.applied = run.applied \cup {b} /\ next.iterations = run.iterations - 1
      /\ next.movedETH = run.movedETH + trove.movedETH
      /\ next.movedDebt = run.movedDebt + trove.movedDebt
      /\ IsRedemptionRun(next)
  BY DEF RedeemedFrom
<1> HIDE DEF trove, lot, drawn
<1>14. next.applied \subseteq ActiveTroves /\ next.applied \subseteq Borrowers
  BY <1>1, <1>5
<1>15. next.iterations \in Nat
  BY <1>1, <1>5
<1>16. next.movedETH \in Nat /\ next.movedDebt \in Nat
  <2>1. \A x, y \in Nat : x + y \in Nat
    OBVIOUS
  <2> QED BY <1>1, <1>3, <1>5, <2>1
<1>6. /\ next.applied \subseteq ActiveTroves /\ next.applied \subseteq Borrowers
      /\ next.iterations \in Nat /\ next.movedETH \in Nat /\ next.movedDebt \in Nat
  BY <1>14, <1>15, <1>16
<1>7. b \notin ClosedBy(run)
  BY <1>1
<1>8. /\ Append(run.closed, b) \in Seq(ActiveTroves)
      /\ ToSet(Append(run.closed, b)) = ClosedBy(run) \cup {b}
      /\ IsInjective(Append(run.closed, b))
  BY <1>1, <1>7, AppendFacts DEF ClosedBy
<1>9. /\ trove.coll - drawn \in Int /\ run.remaining - lot \in Nat
      /\ run.redeemed + lot \in Nat /\ run.drawn + drawn \in Nat
  <2>1. trove.coll - drawn \in Int
    BY <1>2, <1>3
  <2>2. run.remaining - lot \in Nat
    BY <1>1, <1>2
  <2>4. \A x, y \in Nat : x + y \in Nat
    OBVIOUS
  <2>3. run.redeemed + lot \in Nat /\ run.drawn + drawn \in Nat
    BY <1>1, <1>2, <2>4
  <2> QED BY <2>1, <2>2, <2>3
<1>10. ASSUME next.closed \in Seq(ActiveTroves), next.surplus \in [Borrowers -> Int],
              next.remaining \in Nat, next.redeemed \in Nat, next.drawn \in Nat,
              next.partial \in Borrowers \cup {NoHint}, next.debtLeft \in Int,
              next.collLeft \in Int, next.cancelled \in BOOLEAN
       PROVE  next \in RedemptionRuns
  <2>1. next = [remaining |-> next.remaining, iterations |-> next.iterations,
                redeemed |-> next.redeemed, drawn |-> next.drawn, closed |-> next.closed,
                surplus |-> next.surplus, applied |-> next.applied,
                partial |-> next.partial, debtLeft |-> next.debtLeft,
                collLeft |-> next.collLeft, movedETH |-> next.movedETH,
                movedDebt |-> next.movedDebt, cancelled |-> next.cancelled]
    BY <1>5 DEF IsRedemptionRun
  <2> QED BY <1>6, <1>10, <2>1 DEF RedemptionRuns
<1>11. CASE /\ next.closed = Append(run.closed, b)
            /\ next.surplus = [run.surplus EXCEPT ![b] = @ + (trove.coll - drawn)]
            /\ next.remaining = run.remaining - lot /\ next.redeemed = run.redeemed + lot
            /\ next.drawn = run.drawn + drawn
            /\ next.partial = run.partial /\ next.debtLeft = run.debtLeft
            /\ next.collLeft = run.collLeft /\ next.cancelled = run.cancelled
  <2>1. [run.surplus EXCEPT ![b] = @ + (trove.coll - drawn)] \in [Borrowers -> Int]
    <3>1. run.surplus[b] + (trove.coll - drawn) \in Int
      BY <1>1, <1>9, SMTT(30)
    <3> QED BY <1>1, <3>1
  <2>5. next.closed \in Seq(ActiveTroves) /\ next.surplus \in [Borrowers -> Int]
    BY <1>8, <1>11, <2>1
  <2>6. next.remaining \in Nat /\ next.redeemed \in Nat /\ next.drawn \in Nat
    BY <1>9, <1>11
  <2>7. /\ next.partial \in Borrowers \cup {NoHint} /\ next.debtLeft \in Int
        /\ next.collLeft \in Int /\ next.cancelled \in BOOLEAN
    BY <1>1, <1>11
  <2>2. next \in RedemptionRuns
    BY <1>10, <2>5, <2>6, <2>7
  <2>3. ClosedBy(next) = ClosedBy(run) \cup {b}
    BY <1>8, <1>11 DEF ClosedBy
  <2>4. \A c \in Borrowers \ ClosedBy(next) : next.surplus[c] = 0
    BY <1>1, <1>11, <2>3
  <2> QED BY <1>1, <1>5, <1>6, <1>8, <1>11, <2>2, <2>3, <2>4
<1>12. CASE /\ next.cancelled = TRUE
            /\ next.closed = run.closed /\ next.surplus = run.surplus
            /\ next.remaining = run.remaining /\ next.redeemed = run.redeemed
            /\ next.drawn = run.drawn
            /\ next.partial = run.partial /\ next.debtLeft = run.debtLeft
            /\ next.collLeft = run.collLeft
  <2>1. next.cancelled \in BOOLEAN
    BY <1>12
  <2>5. next.closed \in Seq(ActiveTroves) /\ next.surplus \in [Borrowers -> Int]
    BY <1>1, <1>12
  <2>6. next.remaining \in Nat /\ next.redeemed \in Nat /\ next.drawn \in Nat
    BY <1>1, <1>12
  <2>7. /\ next.partial \in Borrowers \cup {NoHint} /\ next.debtLeft \in Int
        /\ next.collLeft \in Int
    BY <1>1, <1>12
  <2>2. next \in RedemptionRuns
    BY <1>10, <2>1, <2>5, <2>6, <2>7
  <2>3. ClosedBy(next) = ClosedBy(run)
    BY <1>12 DEF ClosedBy
  <2> QED BY <1>1, <1>5, <1>6, <1>12, <2>2, <2>3
<1>13. CASE /\ trove.debt - lot # ARTH_GAS_COMPENSATION
            /\ NetDebt(trove.debt - lot) >= MIN_NET_DEBT
            /\ next.closed = run.closed /\ next.surplus = run.surplus
            /\ next.remaining = run.remaining - lot /\ next.redeemed = run.redeemed + lot
            /\ next.drawn = run.drawn + drawn
            /\ next.partial = b /\ next.debtLeft = trove.debt - lot
            /\ next.collLeft = trove.coll - drawn /\ next.cancelled = run.cancelled
  <2>5. next.closed \in Seq(ActiveTroves) /\ next.surplus \in [Borrowers -> Int]
    BY <1>1, <1>13
  <2>6. next.remaining \in Nat /\ next.redeemed \in Nat /\ next.drawn \in Nat
    BY <1>9, <1>13
  <2>7. /\ next.partial \in Borrowers \cup {NoHint} /\ next.debtLeft \in Int
        /\ next.collLeft \in Int /\ next.cancelled \in BOOLEAN
    BY <1>1, <1>2, <1>9, <1>13
  <2>1. next \in RedemptionRuns
    BY <1>10, <2>5, <2>6, <2>7
  <2>2. ClosedBy(next) = ClosedBy(run)
    BY <1>13 DEF ClosedBy
  <2>3. next.remaining = 0
    BY <1>1, <1>2, <1>13
  <2>4. next.debtLeft >= ARTH_GAS_COMPENSATION + MIN_NET_DEBT
    BY <1>2, <1>4, <1>13 DEF NetDebt
  <2>8. next.partial # NoHint
    BY <1>1, <1>13, AddressAssumption DEF NoHint, Accounts
  <2> QED BY <1>1, <1>5, <1>6, <1>7, <1>13, <2>1, <2>2, <2>3, <2>4, <2>8
<1> QED
  BY <1>11, <1>12, <1>13 DEF RedeemedFrom, trove, lot, drawn

(* Every trove visited gives value for the debt it is rid of, no more.     *)
LEMMA RedeemedFairly ==
  ASSUME LedgerInv, MinimumDebtKept, NEW b \in ActiveTroves, NEW p \in Nat \ {0},
         NEW run, RedemptionBooks(run, p), b \notin run.applied, run.remaining # 0,
         NEW next, RedeemedFrom(next, run, b, p)
  PROVE  \A c \in Borrowers : FairTo(next, c, p)
<1>1. /\ b \in Borrowers /\ run.closed \in Seq(ActiveTroves) /\ run.partial = NoHint
      /\ ClosedBy(run) \subseteq run.applied
  BY DEF RedemptionBooks, RedemptionRuns, ActiveTroves
<1>4. \A c \in Borrowers \ {b} :
        /\ TroveAfter(next, c) = TroveAfter(run, c)
        /\ c \in ClosedBy(next) <=> c \in ClosedBy(run)
        /\ c \in next.applied <=> c \in run.applied
  BY OthersAfter
<1>5. \A c \in Borrowers : FairTo(run, c, p)
  BY DEF RedemptionBooks
<1>2. FairTo(next, b, p)
  <2>1. b \in next.applied
    BY DEF RedeemedFrom
  <2>2. LET trove   == ApplyPendingRewards(b)
            after   == TroveAfter(next, b)
            reserve == IF b \in ClosedBy(next) THEN ARTH_GAS_COMPENSATION ELSE 0
        IN  /\ trove.coll - after.coll - next.surplus[b] = next.drawn - run.drawn
            /\ trove.debt - after.debt - reserve = next.redeemed - run.redeemed
            /\ next.redeemed - run.redeemed \in Nat
            /\ (next.drawn - run.drawn) * p
                 <= (next.redeemed - run.redeemed) * DECIMAL_PRECISION
    BY VisitedAfter
  <2> QED BY <2>1, <2>2 DEF FairTo
<1>3. ASSUME NEW c \in Borrowers \ {b} PROVE FairTo(next, c, p)
  <2>1. /\ TroveAfter(next, c) = TroveAfter(run, c)
        /\ c \in ClosedBy(next) <=> c \in ClosedBy(run)
        /\ c \in next.applied <=> c \in run.applied
    BY <1>4
  <2>2. next.surplus[c] = run.surplus[c]
    <3>1. run.surplus \in [Borrowers -> Int]
      BY DEF RedemptionBooks, RedemptionRuns
    <3> QED BY <1>1, <3>1 DEF RedeemedFrom
  <2>3. FairTo(run, c, p)
    BY <1>5
  <2> QED BY <2>1, <2>2, <2>3 DEF FairTo
<1> QED
  BY <1>2, <1>3

(* Altogether a run draws no more collateral than the face value of what   *)
(* it redeems.                                                             *)
LEMMA RedeemedAtFaceValue ==
  ASSUME LedgerInv, MinimumDebtKept, NEW b \in ActiveTroves, NEW p \in Nat \ {0},
         NEW run, RedemptionBooks(run, p), b \notin run.applied, run.remaining # 0,
         NEW next, RedeemedFrom(next, run, b, p)
  PROVE  next.drawn * p <= next.redeemed * DECIMAL_PRECISION
<1>1. /\ run.drawn \in Nat /\ run.redeemed \in Nat /\ run.remaining \in Nat
      /\ run.drawn * p <= run.redeemed * DECIMAL_PRECISION
      /\ DECIMAL_PRECISION \in Nat
  BY PrecisionAssumption DEF RedemptionBooks, RedemptionRuns
<1> DEFINE lot == LotOf(run, b)
           drawn == ETHLot(lot, p)
<1>2. lot \in Nat /\ drawn \in Nat /\ drawn * p <= lot * DECIMAL_PRECISION
  BY <1>1, LotFits
<1>3. \/ next.drawn = run.drawn /\ next.redeemed = run.redeemed
      \/ next.drawn = run.drawn + drawn /\ next.redeemed = run.redeemed + lot
  BY DEF RedeemedFrom
<1> HIDE DEF lot, drawn
<1>4. \A x, y, z \in Nat : (x + y) * z = x * z + y * z
  OBVIOUS
<1>5. /\ run.drawn * p \in Nat /\ drawn * p \in Nat
      /\ run.redeemed * DECIMAL_PRECISION \in Nat /\ lot * DECIMAL_PRECISION \in Nat
  BY <1>1, <1>2, NatProduct
<1>6. CASE next.drawn = run.drawn /\ next.redeemed = run.redeemed
  BY <1>1, <1>6
<1>7. CASE next.drawn = run.drawn + drawn /\ next.redeemed = run.redeemed + lot
  <2>1. /\ next.drawn * p = run.drawn * p + drawn * p
        /\ next.redeemed * DECIMAL_PRECISION
             = run.redeemed * DECIMAL_PRECISION + lot * DECIMAL_PRECISION
    BY <1>1, <1>2, <1>4, <1>7
  <2> QED BY <1>1, <1>2, <1>5, <2>1
<1> QED
  BY <1>3, <1>6, <1>7

(* The totals of the run grow by what the trove loses and by the rewards   *)
(* applied to it, whose terms in the reward sums it gives up.              *)
LEMMA RedeemedTotals ==
  ASSUME LedgerInv, MinimumDebtKept, NEW b \in ActiveTroves, NEW p \in Nat \ {0},
         NEW run, RedemptionBooks(run, p), b \notin run.applied,
         run.remaining # 0, run.iterations # 0,
         NEW next, RedeemedFrom(next, run, b, p)
  PROVE  RedemptionTotals(next)
<1> DEFINE trove == ApplyPendingRewards(b)
           after == TroveAfter(next, b)
           reserve == IF b \in ClosedBy(next) THEN ARTH_GAS_COMPENSATION ELSE 0
           dp == DECIMAL_PRECISION
<1>1. /\ b \in Borrowers /\ run.closed \in Seq(ActiveTroves) /\ run.partial = NoHint
      /\ ClosedBy(run) \subseteq run.applied /\ run \in RedemptionRuns
      /\ b \notin ClosedBy(run) /\ run.surplus[b] = 0
      /\ run.drawn \in Nat /\ run.redeemed \in Nat
      /\ run.movedETH \in Nat /\ run.movedDebt \in Nat
      /\ run.surplus \in [Borrowers -> Int]
      /\ RedemptionTotals(run)
  BY DEF RedemptionBooks, RedemptionRuns, ActiveTroves
<1>2. next \in RedemptionRuns
  BY RedeemedTyped
<1>3. /\ next.drawn \in Nat /\ next.redeemed \in Nat
      /\ next.surplus \in [Borrowers -> Int]
  BY <1>2 DEF RedemptionRuns
<1>4. IsFiniteSet(Borrowers)
  BY AddressAssumption
<1>5. /\ trove.coll - after.coll - next.surplus[b] = next.drawn - run.drawn
      /\ trove.debt - after.debt - reserve = next.redeemed - run.redeemed
      /\ after.stake = 0 \/ SnapshotAfter(next, b) = trove.snapshot
  BY VisitedAfter
<1>6. /\ trove.coll = Troves[b].coll + trove.movedETH
      /\ trove.debt = Troves[b].debt + trove.movedDebt
      /\ trove.movedETH * dp <= ETHTermOf[b]
      /\ trove.movedDebt * dp <= DebtTermOf[b]
      /\ trove.snapshot.ETH = L.ETH
      /\ SnapshotsTogether => trove.snapshot.ARTHDebt = L.ARTHDebt
  BY AppliedFacts
<1>7. trove.movedETH \in Nat /\ trove.movedDebt \in Nat
  BY <1>1, AppliedRewardsTyped
<1>8. /\ TroveAfter(run, b) = Troves[b] /\ SnapshotAfter(run, b) = rewardSnapshots[b]
      /\ \A c \in Borrowers \ {b} : /\ TroveAfter(next, c) = TroveAfter(run, c)
                                    /\ SnapshotAfter(next, c) = SnapshotAfter(run, c)
  <2>1. /\ b \in Borrowers /\ run.closed \in Seq(ActiveTroves) /\ run.partial = NoHint
        /\ ClosedBy(run) \subseteq run.applied
    BY <1>1
  <2> QED BY OthersAfter
<1>9. Troves[b].coll \in Nat /\ Troves[b].debt \in Nat
  BY <1>1 DEF LedgerInv, LedgerTypeOK
<1>10. \A c \in Borrowers :
         /\ CollAfter(run)[c] = TroveAfter(run, c).coll /\ CollAfter(run)[c] \in Int
         /\ CollAfter(next)[c] = TroveAfter(next, c).coll /\ CollAfter(next)[c] \in Int
         /\ DebtAfter(run)[c] = TroveAfter(run, c).debt /\ DebtAfter(run)[c] \in Int
         /\ DebtAfter(next)[c] = TroveAfter(next, c).debt /\ DebtAfter(next)[c] \in Int
  BY <1>1, <1>2, AfterTyped
<1>11. \A c \in Borrowers :
         /\ ETHTermAfter(run)[c] \in Int /\ ETHTermAfter(next)[c] \in Int
         /\ DebtTermAfter(run)[c] \in Int /\ DebtTermAfter(next)[c] \in Int
  BY <1>1, <1>2, AfterTyped
<1>12. /\ ETHTermAfter(run)[b] = ETHTermOf[b] /\ DebtTermAfter(run)[b] = DebtTermOf[b]
       /\ \A c \in Borrowers \ {b} : /\ ETHTermAfter(next)[c] = ETHTermAfter(run)[c]
                                     /\ DebtTermAfter(next)[c] = DebtTermAfter(run)[c]
  BY <1>1, <1>8 DEF ETHTermAfter, DebtTermAfter, ETHTermOf, DebtTermOf
<1>13. ETHTermAfter(next)[b] = 0 /\ (SnapshotsTogether => DebtTermAfter(next)[b] = 0)
  <2>1. L.ETH \in Nat /\ L.ARTHDebt \in Nat
    BY DEF LedgerInv, LedgerTypeOK, PoolType
  <2>2. /\ ETHTermAfter(next)[b] = after.stake * (L.ETH - SnapshotAfter(next, b).ETH)
        /\ DebtTermAfter(next)[b]
             = after.stake * (L.ARTHDebt - SnapshotAfter(next, b).ARTHDebt)
        /\ after.stake \in Int /\ SnapshotAfter(next, b) \in PoolType
    BY <1>1, <1>2, AfterTyped
  <2>3. /\ \A x \in Int : 0 * x = 0 /\ x * 0 = 0
        /\ \A x, y \in Nat : x - y \in Int /\ x - x = 0
    OBVIOUS
  <2>4. /\ SnapshotAfter(next, b).ETH \in Nat /\ SnapshotAfter(next, b).ARTHDebt \in Nat
    BY <2>2 DEF PoolType
  <2> HIDE DEF after, trove
  <2>5. CASE after.stake = 0
    BY <2>1, <2>2, <2>3, <2>4, <2>5
  <2>6. CASE SnapshotAfter(next, b) = trove.snapshot
    BY <1>6, <2>1, <2>2, <2>3, <2>6
  <2> QED BY <1>5, <2>5, <2>6
<1>14. /\ next.movedETH = run.movedETH + trove.movedETH
       /\ next.movedDebt = run.movedDebt + trove.movedDebt
       /\ \A c \in Borrowers \ {b} : next.surplus[c] = run.surplus[c]
  BY <1>1 DEF RedeemedFrom
<1>15. ReserveOf(next) = ReserveOf(run) + reserve /\ ReserveOf(run) \in Nat
  <2>1. Len(run.closed) \in Nat /\ ARTH_GAS_COMPENSATION \in Nat
    BY <1>1, ListFacts, DebtAssumption
  <2>2. CASE next.closed = run.closed
    <3>1. b \notin ClosedBy(next)
      BY <1>1, <2>2 DEF ClosedBy
    <3>2. ReserveOf(run) \in Nat
      BY <2>1, NatProduct DEF ReserveOf
    <3> QED BY <2>2, <3>1, <3>2 DEF ReserveOf
  <2>3. CASE next.closed = Append(run.closed, b)
    <3>1. b \in ClosedBy(next) /\ Len(next.closed) = Len(run.closed) + 1
      BY <1>1, <2>3, AppendFacts DEF ClosedBy
    <3>2. \A x, y \in Nat : (x + 1) * y = x * y + y
      OBVIOUS
    <3>3. ReserveOf(run) \in Nat
      BY <2>1, NatProduct DEF ReserveOf
    <3> QED BY <2>1, <3>1, <3>2, <3>3 DEF ReserveOf
  <2> QED BY <2>2, <2>3 DEF RedeemedFrom
<1>16. reserve \in Nat
  BY DebtAssumption
<1> DEFINE cr == SumFunctionOnSet(CollAfter(run), Borrowers)
           dr == SumFunctionOnSet(DebtAfter(run), Borrowers)
           sr == SumFunctionOnSet(run.surplus, Borrowers)
           er == SumFunctionOnSet(ETHTermAfter(run), Borrowers)
           tr == SumFunctionOnSet(DebtTermAfter(run), Borrowers)
<1>17. cr \in Int /\ dr \in Int /\ sr \in Int /\ er \in Int /\ tr \in Int
  <2>1. \A c \in Borrowers : run.surplus[c] \in Int
    BY <1>1
  <2> QED BY <1>4, <1>10, <1>11, <2>1, SumInt
<1>18. SumFunctionOnSet(CollAfter(next), Borrowers) = cr - Troves[b].coll + after.coll
  <2>1. \A c \in Borrowers \ {b} : CollAfter(next)[c] = CollAfter(run)[c]
    BY <1>8, <1>10
  <2>2. CollAfter(run)[b] = Troves[b].coll /\ CollAfter(next)[b] = after.coll
    BY <1>1, <1>8, <1>10
  <2>3. SumFunctionOnSet(CollAfter(next), Borrowers)
          = cr - CollAfter(run)[b] + CollAfter(next)[b]
    BY <1>1, <1>4, <1>10, <2>1, SumUpdate
  <2> QED BY <2>2, <2>3
<1>19. SumFunctionOnSet(DebtAfter(next), Borrowers) = dr - Troves[b].debt + after.debt
  <2>1. \A c \in Borrowers \ {b} : DebtAfter(next)[c] = DebtAfter(run)[c]
    BY <1>8, <1>10
  <2>2. DebtAfter(run)[b] = Troves[b].debt /\ DebtAfter(next)[b] = after.debt
    BY <1>1, <1>8, <1>10
  <2>3. SumFunctionOnSet(DebtAfter(next), Borrowers)
          = dr - DebtAfter(run)[b] + DebtAfter(next)[b]
    BY <1>1, <1>4, <1>10, <2>1, SumUpdate
  <2> QED BY <2>2, <2>3
<1>20. SumFunctionOnSet(next.surplus, Borrowers) = sr - 0 + next.surplus[b]
  <2>1. \A c \in Borrowers : run.surplus[c] \in Int /\ next.surplus[c] \in Int
    BY <1>1, <1>3
  <2>2. SumFunctionOnSet(next.surplus, Borrowers) = sr - run.surplus[b] + next.surplus[b]
    <3>1. \A c \in Borrowers \ {b} : next.surplus[c] = run.surplus[c]
      BY <1>14
    <3>2. b \in Borrowers
      BY <1>1
    <3> QED BY <1>4, <2>1, <3>1, <3>2, SumUpdate
  <2> QED BY <1>1, <2>2
<1>21. SumFunctionOnSet(ETHTermAfter(next), Borrowers) = er - ETHTermOf[b] + 0
  <2>1. SumFunctionOnSet(ETHTermAfter(next), Borrowers)
          = er - ETHTermAfter(run)[b] + ETHTermAfter(next)[b]
    BY <1>1, <1>4, <1>11, <1>12, SumUpdate, SMTT(30)
  <2> QED BY <1>12, <1>13, <2>1
<1>22. SnapshotsTogether =>
         SumFunctionOnSet(DebtTermAfter(next), Borrowers) = tr - DebtTermOf[b] + 0
  <2>1. SumFunctionOnSet(DebtTermAfter(next), Borrowers)
          = tr - DebtTermAfter(run)[b] + DebtTermAfter(next)[b]
    BY <1>1, <1>4, <1>11, <1>12, SumUpdate, SMTT(30)
  <2> QED BY <1>12, <1>13, <2>1
<1>23. /\ cr + run.drawn + sr = CollTotal + run.movedETH
       /\ dr + run.redeemed + ReserveOf(run) = DebtTotal + run.movedDebt
       /\ er + run.movedETH * dp <= SumFunctionOnSet(ETHTermOf, Borrowers)
       /\ SnapshotsTogether =>
            tr + run.movedDebt * dp <= SumFunctionOnSet(DebtTermOf, Borrowers)
  BY <1>1 DEF RedemptionTotals, SumFunction
<1>24. DOMAIN run.surplus = Borrowers /\ DOMAIN next.surplus = Borrowers
  BY <1>1, <1>3
<1>25. /\ after.coll \in Int /\ after.debt \in Int /\ next.surplus[b] \in Int
       /\ ETHTermOf[b] \in Nat /\ DebtTermOf[b] \in Nat
  <2>1. after.coll \in Int /\ after.debt \in Int
    BY <1>1, <1>2, AfterTyped
  <2>2. next.surplus[b] \in Int
    BY <1>1, <1>3
  <2> QED BY <1>1, <2>1, <2>2, TermsAreAmounts
<1>26. CollTotal \in Int /\ DebtTotal \in Int
       /\ SumFunctionOnSet(ETHTermOf, Borrowers) \in Int
       /\ SumFunctionOnSet(DebtTermOf, Borrowers) \in Int
  <2>1. \A c \in Borrowers : /\ CollOnly[c] \in Int /\ DebtOnly[c] \in Int
                             /\ ETHTermOf[c] \in Int /\ DebtTermOf[c] \in Int
    <3>1. \A c \in Borrowers : Troves[c].coll \in Nat /\ Troves[c].debt \in Nat
      BY DEF LedgerInv, LedgerTypeOK
    <3>2. \A c \in Borrowers : ETHTermOf[c] \in Nat /\ DebtTermOf[c] \in Nat
      BY TermsAreAmounts
    <3> QED BY <3>1, <3>2 DEF CollOnly, DebtOnly
  <2>2. /\ CollTotal = SumFunctionOnSet(CollOnly, Borrowers)
        /\ DebtTotal = SumFunctionOnSet(DebtOnly, Borrowers)
    <3>1. DOMAIN CollOnly = Borrowers /\ DOMAIN DebtOnly = Borrowers
      BY DEF CollOnly, DebtOnly
    <3> QED BY <3>1 DEF CollTotal, DebtTotal, SumFunction
  <2> QED BY <1>4, <2>1, <2>2, SumInt
<1> DEFINE ct == CollTotal
           dt == DebtTotal
           et == SumFunctionOnSet(ETHTermOf, Borrowers)
           ut == SumFunctionOnSet(DebtTermOf, Borrowers)
           cn == SumFunctionOnSet(CollAfter(next), Borrowers)
           dn == SumFunctionOnSet(DebtAfter(next), Borrowers)
           sn == SumFunctionOnSet(next.surplus, Borrowers)
           en == SumFunctionOnSet(ETHTermAfter(next), Borrowers)
           tn == SumFunctionOnSet(DebtTermAfter(next), Borrowers)
           tc == Troves[b].coll
           td == Troves[b].debt
           ms == next.surplus[b]
<1> HIDE DEF cr, dr, sr, er, tr, cn, dn, sn, en, tn, ct, dt, et, ut, reserve, after, trove,
             dp, tc, td, ms
<1>27. cn + next.drawn + sn = ct + next.movedETH
  <2> DEFINE a == after.coll
             rd == run.drawn
             nd == next.drawn
             rm == run.movedETH
             tm == trove.movedETH
             tv == trove.coll
  <2>1. /\ cn = cr - tc + a /\ sn = sr - 0 + ms
        /\ cr + rd + sr = ct + rm /\ next.movedETH = rm + tm
    BY <1>14, <1>18, <1>20, <1>23 DEF cn, tc, sn, ms, ct
  <2>2. tv = tc + tm /\ tv - a - ms = nd - rd
    BY <1>5, <1>6 DEF tc, ms
  <2>3. /\ cr \in Int /\ sr \in Int /\ ct \in Int /\ tc \in Int /\ ms \in Int
    BY <1>9, <1>17, <1>25, <1>26 DEF ct, tc, ms
  <2>4. a \in Int /\ rd \in Int /\ nd \in Int /\ rm \in Int /\ tm \in Int
    <3>1. a \in Int
      BY <1>25
    <3>2. rd \in Int /\ rm \in Int
      BY <1>1
    <3>3. nd \in Int
      BY <1>3
    <3>4. tm \in Int
      BY <1>7
    <3> QED BY <3>1, <3>2, <3>3, <3>4
  <2> HIDE DEF a, rd, nd, rm, tm, tv
  <2>5. (cr - tc + a) + nd + (sr - 0 + ms) = ct + (rm + tm)
    BY <2>1, <2>2, <2>3, <2>4
  <2> QED BY <2>1, <2>5 DEF nd
<1>28. dn + next.redeemed + ReserveOf(next) = dt + next.movedDebt
  <2> DEFINE a == after.debt
             rd == run.redeemed
             nd == next.redeemed
             rm == run.movedDebt
             tm == trove.movedDebt
             tv == trove.debt
             rr == ReserveOf(run)
  <2>1. /\ dn = dr - td + a /\ ReserveOf(next) = rr + reserve
        /\ dr + rd + rr = dt + rm /\ next.movedDebt = rm + tm
    BY <1>14, <1>15, <1>19, <1>23 DEF dn, td, dt
  <2>2. tv = td + tm /\ tv - a - reserve = nd - rd
    BY <1>5, <1>6 DEF td
  <2>3. dr \in Int /\ rr \in Int /\ reserve \in Int /\ dt \in Int /\ td \in Int
    BY <1>9, <1>15, <1>16, <1>17, <1>26 DEF dt, td
  <2>4. a \in Int /\ rd \in Int /\ nd \in Int /\ rm \in Int /\ tm \in Int
    <3>1. a \in Int
      BY <1>25
    <3>2. rd \in Int /\ rm \in Int
      BY <1>1
    <3>3. nd \in Int
      BY <1>3
    <3>4. tm \in Int
      BY <1>7
    <3> QED BY <3>1, <3>2, <3>3, <3>4
  <2> HIDE DEF a, rd, nd, rm, tm, tv, rr
  <2>5. (dr - td + a) + nd + (rr + reserve) = dt + (rm + tm)
    BY <2>1, <2>2, <2>3, <2>4
  <2> QED BY <2>1, <2>5 DEF nd
<1>29. \A x, y, t, u, e, m \in Int :
         /\ (u + e * t <= x) /\ (m * t <= y) /\ e * t \in Int /\ m * t \in Int
         => (u - y + 0) + (e + m) * t <= x
  OBVIOUS
<1>30. /\ dp \in Int /\ run.movedETH * dp \in Int /\ trove.movedETH * dp \in Int
       /\ run.movedDebt * dp \in Int /\ trove.movedDebt * dp \in Int
  <2>1. dp \in Nat
    BY PrecisionAssumption DEF dp
  <2>2. run.movedETH * dp \in Nat /\ trove.movedETH * dp \in Nat
    BY <1>1, <1>7, <2>1, NatProduct
  <2>3. run.movedDebt * dp \in Nat /\ trove.movedDebt * dp \in Nat
    BY <1>1, <1>7, <2>1, NatProduct
  <2> QED BY <2>1, <2>2, <2>3
<1>31. en + next.movedETH * dp <= et
  <2>1. /\ en = er - ETHTermOf[b] + 0 /\ er + run.movedETH * dp <= et
        /\ trove.movedETH * dp <= ETHTermOf[b]
        /\ next.movedETH = run.movedETH + trove.movedETH
    BY <1>6, <1>14, <1>21, <1>23 DEF en, er, et
  <2>2. /\ er \in Int /\ et \in Int /\ ETHTermOf[b] \in Int /\ run.movedETH \in Int
        /\ trove.movedETH \in Int
    BY <1>1, <1>7, <1>17, <1>25, <1>26, SMTT(30) DEF et
  <2> QED BY <1>29, <1>30, <2>1, <2>2
<1>32. SnapshotsTogether => tn + next.movedDebt * dp <= ut
  <2>1. SnapshotsTogether =>
        /\ tn = tr - DebtTermOf[b] + 0 /\ tr + run.movedDebt * dp <= ut
        /\ trove.movedDebt * dp <= DebtTermOf[b]
        /\ next.movedDebt = run.movedDebt + trove.movedDebt
    BY <1>6, <1>14, <1>22, <1>23 DEF tn, tr, ut
  <2>2. /\ tr \in Int /\ ut \in Int /\ DebtTermOf[b] \in Int /\ run.movedDebt \in Int
        /\ trove.movedDebt \in Int
    BY <1>1, <1>7, <1>17, <1>25, <1>26 DEF ut
  <2> QED BY <1>29, <1>30, <2>1, <2>2
<1> QED
  BY <1>24, <1>27, <1>28, <1>31, <1>32
  DEF RedemptionTotals, SumFunction, cn, dn, sn, en, tn, ct, dt, et, ut, dp

(* Before the loop, nothing is redeemed.                                   *)
LEMMA NewRedemptionHolds ==
  ASSUME LedgerInv, NEW p \in Nat \ {0}, NEW amount \in Nat, NEW maxIterations \in Nat
  PROVE  /\ RedemptionBooks(NewRedemption(amount, maxIterations), p)
         /\ NewRedemption(amount, maxIterations).applied = {}
         /\ NewRedemption(amount, maxIterations).remaining = amount
         /\ NewRedemption(amount, maxIterations).redeemed = 0
<1> DEFINE run == NewRedemption(amount, maxIterations)
           zero == [b \in Borrowers |-> 0]
           most == IF maxIterations = 0 THEN MaxUint ELSE maxIterations
<1>1. run = [remaining |-> amount, iterations |-> most, redeemed |-> 0, drawn |-> 0,
             closed |-> <<>>, surplus |-> zero, applied |-> {}, partial |-> NoHint,
             debtLeft |-> 0, collLeft |-> 0, movedETH |-> 0, movedDebt |-> 0,
             cancelled |-> FALSE]
  BY DEF NewRedemption
<1>2. most \in Nat
  BY PrecisionAssumption
<1> HIDE DEF run, most
<1>3. /\ run.remaining = amount /\ run.redeemed = 0 /\ run.drawn = 0 /\ run.closed = <<>> /\ run.surplus = zero
      /\ run.debtLeft = 0 /\ run.collLeft = 0
      /\ run.applied = {} /\ run.partial = NoHint /\ run.movedETH = 0 /\ run.movedDebt = 0
  BY <1>1
<1>4. <<>> \in Seq(ActiveTroves) /\ IsInjective(<<>>) /\ ToSet(<<>>) = {} /\ Len(<<>>) = 0
  BY DEF IsInjective, ToSet
<1>5. run \in RedemptionRuns
  <2>1. zero \in [Borrowers -> Int]
    OBVIOUS
  <2> HIDE DEF zero
  <2> QED BY <1>1, <1>2, <1>4, <2>1 DEF RedemptionRuns
<1>6. ClosedBy(run) = {}
  BY <1>3, <1>4 DEF ClosedBy
<1>7. \A b \in Borrowers : run.surplus[b] = 0
  BY <1>3
<1>8. NoHint \notin Borrowers
  BY AddressAssumption DEF NoHint, Accounts
<1>9. \A b \in Borrowers :
        TroveAfter(run, b) = Troves[b] /\ SnapshotAfter(run, b) = rewardSnapshots[b]
  BY <1>3, <1>6, <1>8 DEF TroveAfter, SnapshotAfter
<1>10. RedemptionTotals(run)
  <2>1. /\ CollAfter(run) = CollOnly /\ DebtAfter(run) = DebtOnly
        /\ ETHTermAfter(run) = ETHTermOf /\ DebtTermAfter(run) = DebtTermOf
    BY <1>9 DEF CollAfter, DebtAfter, ETHTermAfter, DebtTermAfter,
                CollOnly, DebtOnly, ETHTermOf, DebtTermOf
  <2>2. /\ CollTotal = SumFunctionOnSet(CollOnly, Borrowers)
        /\ DebtTotal = SumFunctionOnSet(DebtOnly, Borrowers)
    <3>1. DOMAIN CollOnly = Borrowers /\ DOMAIN DebtOnly = Borrowers
      BY DEF CollOnly, DebtOnly
    <3> QED BY <3>1 DEF CollTotal, DebtTotal, SumFunction
  <2>3. SumFunction(run.surplus) = 0
    <3>1. SumFunctionOnSet(zero, Borrowers) = Cardinality(Borrowers) * 0
      BY ActiveTrovesFinite, SumConstant
    <3>2. Cardinality(Borrowers) \in Nat
      BY ActiveTrovesFinite, FS_CardinalityType
    <3>3. \A x \in Nat : x * 0 = 0
      OBVIOUS
    <3> QED BY <1>3, <3>1, <3>2, <3>3 DEF SumFunction
  <2>4. ReserveOf(run) = 0
    BY <1>3, <1>4, DebtAssumption DEF ReserveOf
  <2>5. /\ SumFunctionOnSet(CollOnly, Borrowers) \in Int
        /\ SumFunctionOnSet(DebtOnly, Borrowers) \in Int
        /\ SumFunctionOnSet(ETHTermOf, Borrowers) \in Int
        /\ SumFunctionOnSet(DebtTermOf, Borrowers) \in Int
    <3>1. \A c \in Borrowers : /\ CollOnly[c] \in Int /\ DebtOnly[c] \in Int
                               /\ ETHTermOf[c] \in Int /\ DebtTermOf[c] \in Int
      <4>1. \A c \in Borrowers : Troves[c].coll \in Nat /\ Troves[c].debt \in Nat
        BY DEF LedgerInv, LedgerTypeOK
      <4>2. \A c \in Borrowers : ETHTermOf[c] \in Nat /\ DebtTermOf[c] \in Nat
        BY TermsAreAmounts
      <4> QED BY <4>1, <4>2 DEF CollOnly, DebtOnly
    <3> QED BY <3>1, ActiveTrovesFinite, SumInt
  <2>6. 0 * DECIMAL_PRECISION = 0
    BY PrecisionAssumption
  <2>7. \A x \in Int : x + 0 + 0 = x /\ x + 0 = x /\ x <= x
    OBVIOUS
  <2> QED BY <1>3, <2>1, <2>2, <2>3, <2>4, <2>5, <2>6, <2>7 DEF RedemptionTotals
<1>11. \A b \in Borrowers : FairTo(run, b, p)
  <2> TAKE b \in Borrowers
  <2>1. Troves[b].coll \in Nat /\ Troves[b].debt \in Nat
    BY DEF LedgerInv, LedgerTypeOK
  <2>2. b \notin run.applied /\ b \notin ClosedBy(run) /\ run.surplus[b] = 0
    BY <1>3, <1>6, <1>7
  <2>3. \A x \in Nat : x - x - 0 = 0
    OBVIOUS
  <2>4. 0 * p = 0 /\ 0 * DECIMAL_PRECISION = 0
    BY PrecisionAssumption
  <2> QED BY <1>9, <2>1, <2>2, <2>3, <2>4 DEF FairTo
<1>12. RedemptionBooks(run, p)
  <2>1. run.applied \subseteq ActiveTroves /\ ClosedBy(run) \subseteq run.applied
    BY <1>3, <1>6
  <2>2. run.drawn * p <= run.redeemed * DECIMAL_PRECISION
    BY <1>3, PrecisionAssumption
  <2> QED BY <1>3, <1>4, <1>5, <1>7, <1>10, <1>11, <2>1, <2>2 DEF RedemptionBooks
<1> QED
  BY <1>3, <1>12 DEF run

(* The loop takes no more troves. *)
Stopped(run) == run.cancelled \/ run.remaining = 0 \/ run.iterations = 0

(* The run closes the troves in the order in which it visits them, and     *)
(* stops at the first one that it does not close.                          *)
InOrder(run, list, n) ==
  /\ ~Stopped(run) => \A j \in 1..n : list[j] \in ClosedBy(run)
  /\ \A k \in 1..n : list[k] \in run.applied =>
       \A j \in 1..(k - 1) : list[j] \in ClosedBy(run)

(* One more trove keeps the books of a run, applies the rewards of no      *)
(* other trove, and redeems what it takes from the remaining amount; the   *)
(* run goes on only if the trove is closed.                                *)
KeepsRun(next, run, b, p) ==
  /\ RedemptionBooks(next, p)
  /\ next.applied \subseteq run.applied \cup {b}
  /\ next.remaining + next.redeemed = run.remaining + run.redeemed
  /\ ClosedBy(run) \subseteq ClosedBy(next)
  /\ Stopped(run) => next = run
  /\ ~Stopped(next) => b \in ClosedBy(next)

(* One pass of the loop of redeemCollateral. *)
LEMMA RedemptionStepKeepsBooks ==
  ASSUME LedgerInv, MinimumDebtKept, NEW p \in Nat \ {0}, NEW hintIsFresh,
         NEW run, RedemptionBooks(run, p), NEW b \in ActiveTroves \ run.applied
  PROVE  KeepsRun(RedemptionStep(run, b, p, hintIsFresh), run, b, p)
<1> DEFINE next == RedeemFromTrove(run, b, p, hintIsFresh)
<1>1. CASE run.cancelled \/ run.remaining = 0 \/ run.iterations = 0
  BY <1>1 DEF RedemptionStep, KeepsRun, Stopped
<1>2. CASE ~(run.cancelled \/ run.remaining = 0 \/ run.iterations = 0)
  <2>1. run \in RedemptionRuns /\ b \in Borrowers /\ run.remaining \in Nat
    BY DEF RedemptionBooks, RedemptionRuns, ActiveTroves
  <2>2. NetDebt(ApplyPendingRewards(b).debt - LotOf(run, b)) \in Int
    BY <2>1, LotFits
  <2>3. RedeemedFrom(next, run, b, p)
    BY <2>1, <2>2, RedeemedFields
  <2>4. RedemptionStep(run, b, p, hintIsFresh) = next
    BY <1>2 DEF RedemptionStep
  <2> HIDE DEF next
  <2>5. run.remaining # 0 /\ run.iterations # 0 /\ b \notin run.applied
    BY <1>2
  <2>6. /\ next \in RedemptionRuns
        /\ next.applied \subseteq ActiveTroves
        /\ IsInjective(next.closed) /\ ClosedBy(next) \subseteq next.applied
        /\ next.partial # NoHint => /\ next.partial \in next.applied \ ClosedBy(next)
                                    /\ next.remaining = 0
                                    /\ next.debtLeft >= ARTH_GAS_COMPENSATION + MIN_NET_DEBT
        /\ next.partial = NoHint => next.debtLeft = 0 /\ next.collLeft = 0
        /\ \A c \in Borrowers \ ClosedBy(next) : next.surplus[c] = 0
    BY <2>3, <2>5, RedeemedTyped
  <2>7. RedemptionTotals(next)
    BY <2>3, <2>5, RedeemedTotals
  <2>8. \A c \in Borrowers : FairTo(next, c, p)
    BY <2>3, <2>5, RedeemedFairly
  <2>12. next.drawn * p <= next.redeemed * DECIMAL_PRECISION
    BY <2>3, <2>5, RedeemedAtFaceValue
  <2>9. RedemptionBooks(next, p)
    BY <2>6, <2>7, <2>8, <2>12 DEF RedemptionBooks
  <2>10. next.applied = run.applied \cup {b}
    BY <2>3 DEF RedeemedFrom
  <2>11. next.remaining + next.redeemed = run.remaining + run.redeemed
    <3>1. run.remaining \in Nat /\ run.redeemed \in Nat
      BY <2>1 DEF RedemptionRuns
    <3>2. LotOf(run, b) \in Int
      BY <2>1, LotFits
    <3>3. \/ next.remaining = run.remaining /\ next.redeemed = run.redeemed
          \/ /\ next.remaining = run.remaining - LotOf(run, b)
             /\ next.redeemed = run.redeemed + LotOf(run, b)
      BY <2>3 DEF RedeemedFrom
    <3>4. \A x, y \in Nat, z \in Int : (x - z) + (y + z) = x + y
      OBVIOUS
    <3> QED BY <3>1, <3>2, <3>3, <3>4
  <2>13. ASSUME next.closed = Append(run.closed, b)
         PROVE  ClosedBy(run) \subseteq ClosedBy(next) /\ b \in ClosedBy(next)
    <3>1. run.closed \in Seq(ActiveTroves) /\ IsInjective(run.closed)
          /\ ClosedBy(run) \subseteq run.applied
      BY <2>1 DEF RedemptionBooks, RedemptionRuns
    <3>2. ToSet(Append(run.closed, b)) = ToSet(run.closed) \cup {b}
      BY <2>5, <3>1, AppendFacts DEF ClosedBy
    <3> QED BY <2>13, <3>2 DEF ClosedBy
  <2>14. ASSUME next.closed = run.closed, next.cancelled = TRUE \/ next.partial = b
         PROVE  ClosedBy(run) \subseteq ClosedBy(next) /\ Stopped(next)
    <3>1. b # NoHint
      BY <2>1, AddressAssumption DEF NoHint, Accounts
    <3>2. Stopped(next)
      BY <2>6, <2>14, <3>1 DEF Stopped
    <3> QED BY <2>14, <3>2 DEF ClosedBy
  <2>15. ClosedBy(run) \subseteq ClosedBy(next) /\ (~Stopped(next) => b \in ClosedBy(next))
    <3>1. \/ next.closed = Append(run.closed, b)
          \/ next.closed = run.closed /\ next.cancelled = TRUE
          \/ next.closed = run.closed /\ next.partial = b
      BY <2>3 DEF RedeemedFrom
    <3> QED BY <2>13, <2>14, <3>1
  <2>16. ~Stopped(run)
    BY <1>2 DEF Stopped
  <2> QED BY <2>4, <2>9, <2>10, <2>11, <2>15, <2>16 DEF KeepsRun
<1> QED
  BY <1>1, <1>2

RedemptionIs(h, c, base, list, D) ==
  h = [s \in SUBSET D |->
        IF s = {} THEN base
        ELSE RedemptionStep(h[s \ {Max(s)}], list[Max(s)], c.p, c.hintIsFresh)]

VisitedTroves(hint, p) == Reverse(SubSeq(sortedTroves, 1, FirstRedeemed(hint, p)))

(* What a redemption's loop starts from and runs over.                     *)
RedemptionLoop(c, base, list, amount, hint, hintIsFresh, maxIterations, p) ==
  /\ c.p = p /\ c.hintIsFresh = hintIsFresh
  /\ base = NewRedemption(amount, maxIterations)
  /\ list = VisitedTroves(hint, p)

(* The run of a redemption opened down to the CHOOSE of its fold. *)
LEMMA RedemptionIsChosen ==
  ASSUME NEW c, NEW base, NEW list, NEW amount, NEW hint, NEW hintIsFresh,
         NEW maxIterations, NEW p,
         RedemptionLoop(c, base, list, amount, hint, hintIsFresh, maxIterations, p)
  PROVE  RedemptionRun(amount, hint, hintIsFresh, maxIterations, p)
           = (CHOOSE h : RedemptionIs(h, c, base, list, DOMAIN list))[DOMAIN list]
BY ZenonT(30) DEF RedemptionRun, FoldLeft, MapThenFoldSet, RedemptionIs, VisitedTroves,
             RedemptionLoop

(* The run of a redemption is the last of its passes. *)
LEMMA RedemptionSteps ==
  ASSUME NEW c, NEW base, NEW E, NEW list \in Seq(E), NEW amount, NEW hint, NEW hintIsFresh,
         NEW maxIterations, NEW p,
         RedemptionLoop(c, base, list, amount, hint, hintIsFresh, maxIterations, p)
  PROVE  \E r : Steps(r, "redeem", c, base, list)
               /\ r[Len(list)]
                    = RedemptionRun(amount, hint, hintIsFresh, maxIterations, p)
<1> DEFINE h == CHOOSE h : RedemptionIs(h, c, base, list, 1..Len(list))
<1>1. Len(list) \in Nat /\ DOMAIN list = 1..Len(list)
  BY ListFacts
<1>2. \A g : LoopIs(g, "redeem", c, base, list, 1..Len(list)) <=>
              RedemptionIs(g, c, base, list, 1..Len(list))
  BY DEF LoopIs, RedemptionIs, LoopBody
<1>3. LoopIs(h, "redeem", c, base, list, 1..Len(list))
  BY <1>1, <1>2, LoopExists
<1>4. RedemptionRun(amount, hint, hintIsFresh, maxIterations, p) = h[1..Len(list)]
  <2>1. RedemptionRun(amount, hint, hintIsFresh, maxIterations, p)
          = (CHOOSE g : RedemptionIs(g, c, base, list, DOMAIN list))[DOMAIN list]
    BY RedemptionIsChosen
  <2> QED BY <1>1, <2>1, Zenon
<1> HIDE DEF h
<1> QED
  BY <1>1, <1>3, <1>4, LoopSteps

(* Where the loop starts: at a trove that may be redeemed from, or nowhere. *)
LEMMA FirstIsRedeemable ==
  ASSUME NEW m \in Nat, DOMAIN sortedTroves = 1..m, NEW hint, NEW p
  PROVE  /\ FirstRedeemed(hint, p) \in 0..m
         /\ FirstRedeemed(hint, p) # 0 =>
              CurrentICR(sortedTroves[FirstRedeemed(hint, p)], p) >= MCR
<1> DEFINE n == FirstRedeemed(hint, p)
           hinted == {i \in ValidFirstHints(p) : sortedTroves[i] = hint}
           above == {i \in DOMAIN sortedTroves : CurrentICR(sortedTroves[i], p) >= MCR}
           most == above \cup {0}
<1>1. n = IF hinted # {} THEN CHOOSE i \in hinted : TRUE ELSE Max(most)
  BY DEF FirstRedeemed
<1>2. hinted \subseteq above
  BY DEF ValidFirstHints
<1>3. most \subseteq 0..m /\ most # {}
  OBVIOUS
<1>4. IsFiniteSet(most) /\ most \subseteq Int
  <2>1. IsFiniteSet(0..m)
    BY FS_Interval
  <2> QED BY <1>3, <2>1, FS_Subset
<1> HIDE DEF hinted, most, n
<1>5. Max(most) \in most
  BY <1>3, <1>4, MaxIsIn
<1>6. hinted # {} => (CHOOSE i \in hinted : TRUE) \in hinted
  OBVIOUS
<1>7. n \in most
  BY <1>1, <1>2, <1>5, <1>6 DEF most
<1> QED
  BY <1>3, <1>7 DEF most, n

(* The loop visits the troves up to the first one it may redeem from, in   *)
(* the list's order from there to its head.                                *)
LEMMA VisitedFromThere ==
  ASSUME LedgerInv, ListInv, NEW hint, NEW p
  PROVE  LET n == FirstRedeemed(hint, p)
             m == Len(sortedTroves)
             list == VisitedTroves(hint, p)
         IN  /\ m \in Nat /\ DOMAIN sortedTroves = 1..m /\ n \in 0..m
             /\ \A i \in 1..m : sortedTroves[i] \in ActiveTroves
             /\ \A i, j \in 1..m : sortedTroves[i] = sortedTroves[j] => i = j
             /\ list \in Seq(ActiveTroves) /\ Len(list) = n
             /\ \A k \in 1..n : n - k + 1 \in 1..n /\ list[k] = sortedTroves[n - k + 1]
<1> DEFINE m == Len(sortedTroves)
           n == FirstRedeemed(hint, p)
           part == SubSeq(sortedTroves, 1, n)
<1>1. /\ m \in Nat /\ DOMAIN sortedTroves = 1..m
      /\ \A i \in 1..m : sortedTroves[i] \in ActiveTroves
      /\ \A i, j \in 1..m : sortedTroves[i] = sortedTroves[j] => i = j
  <2>1. /\ sortedTroves \in Seq(Borrowers) /\ IsInjective(sortedTroves)
        /\ ToSet(sortedTroves) = ActiveTroves
    BY DEF ListInv
  <2> QED BY <2>1, ListFacts DEF IsInjective
<1> HIDE DEF m
<1>2. n \in 0..m
  BY <1>1, FirstIsRedeemable, Zenon
<1> HIDE DEF n
<1>3. /\ part \in Seq(ActiveTroves) /\ Len(part) = n
      /\ \A i \in 1..n : part[i] = sortedTroves[i]
  <2>1. n \in Int /\ 1 \in Int /\ \A i \in 1..n : sortedTroves[i] \in ActiveTroves
    BY <1>1, <1>2
  <2>2. /\ SubSeq(sortedTroves, 1, n) \in Seq(ActiveTroves)
        /\ Len(SubSeq(sortedTroves, 1, n)) = IF 1 <= n THEN n - 1 + 1 ELSE 0
        /\ \A i \in 1..(n - 1 + 1) : SubSeq(sortedTroves, 1, n)[i] = sortedTroves[1 + i - 1]
    BY <2>1, SubSeqProperties
  <2>3. /\ n - 1 + 1 = n /\ (IF 1 <= n THEN n - 1 + 1 ELSE 0) = n
        /\ \A i \in 1..n : 1 + i - 1 = i
    BY <1>2
  <2> QED BY <2>2, <2>3
<1> HIDE DEF part
<1> DEFINE list == Reverse(part)
<1>4. /\ list \in Seq(ActiveTroves) /\ Len(list) = n
      /\ \A k \in 1..n : list[k] = part[n - k + 1]
  BY <1>3, ReverseFacts
<1>5. list = VisitedTroves(hint, p)
  BY DEF VisitedTroves, n, part
<1> HIDE DEF list
<1>6. \A k \in 1..n : n - k + 1 \in 1..n
  BY <1>2
<1>7. \A k \in 1..n : list[k] = sortedTroves[n - k + 1]
  BY <1>3, <1>4, <1>6
<1>8. \A k \in 1..n : n - k + 1 \in 1..n /\ list[k] = sortedTroves[n - k + 1]
  BY <1>6, <1>7
<1> QED
  BY <1>1, <1>2, <1>4, <1>5, <1>8, Zenon DEF n, m

(* They are active, and none is visited twice. *)
LEMMA VisitedAreActive ==
  ASSUME LedgerInv, ListInv, NEW hint, NEW p
  PROVE  /\ VisitedTroves(hint, p) \in Seq(ActiveTroves)
         /\ \A i, j \in 1..Len(VisitedTroves(hint, p)) :
              VisitedTroves(hint, p)[i] = VisitedTroves(hint, p)[j] => i = j
<1> DEFINE m == Len(sortedTroves)
           n == FirstRedeemed(hint, p)
           list == VisitedTroves(hint, p)
<1>1. /\ m \in Nat /\ n \in 0..m
      /\ \A i, j \in 1..m : sortedTroves[i] = sortedTroves[j] => i = j
      /\ list \in Seq(ActiveTroves) /\ Len(list) = n
      /\ \A k \in 1..n : n - k + 1 \in 1..n /\ list[k] = sortedTroves[n - k + 1]
  BY VisitedFromThere
<1> HIDE DEF m, n, list
<1>2. ASSUME NEW i \in 1..n, NEW j \in 1..n, list[i] = list[j]
      PROVE  i = j
  <2>1. n \in Nat /\ n <= m
    BY <1>1
  <2>2. n - i + 1 \in 1..m /\ n - j + 1 \in 1..m
    BY <1>1, <2>1
  <2>3. n - i + 1 = n - j + 1
    BY <1>1, <1>2, <2>2
  <2> QED BY <2>1, <2>3
<1> QED
  BY <1>1, <1>2 DEF list

(* What holds of a redemption of amount after i passes of its loop.        *)
AfterPass(x, i, list, amount, p) ==
  /\ RedemptionBooks(x, p)
  /\ x.applied \subseteq {list[k] : k \in 1..i}
  /\ x.remaining + x.redeemed = amount
  /\ InOrder(x, list, i)

(* The passes of a redemption's loop. *)
IsRedemptionOf(r, list, amount, hint, hintIsFresh, maxIterations, p) ==
  /\ r[0] = NewRedemption(amount, maxIterations)
  /\ \A i \in 1..Len(list) : r[i] = RedemptionStep(r[i - 1], list[i], p, hintIsFresh)
  /\ r[Len(list)] = RedemptionRun(amount, hint, hintIsFresh, maxIterations, p)

(* The books of a redemption are in order after every pass of its loop.    *)
LEMMA RedemptionPasses ==
  ASSUME LedgerInv, ListInv, MinimumDebtKept, NEW p \in Nat \ {0}, NEW amount \in Nat,
         NEW hint, NEW hintIsFresh, NEW maxIterations \in Nat
  PROVE  LET list == VisitedTroves(hint, p)
         IN  \E r : /\ IsRedemptionOf(r, list, amount, hint, hintIsFresh, maxIterations, p)
                    /\ \A i \in 0..Len(list) : AfterPass(r[i], i, list, amount, p)
<1> DEFINE c == [p |-> p, hintIsFresh |-> hintIsFresh]
           list == VisitedTroves(hint, p)
           m == Len(list)
           base == NewRedemption(amount, maxIterations)
<1>1. /\ list \in Seq(ActiveTroves)
      /\ \A i, j \in 1..m : list[i] = list[j] => i = j
  BY VisitedAreActive
<1>2. m \in Nat /\ \A i \in 1..m : list[i] \in ActiveTroves
  BY <1>1, ListFacts
<1>3. c.p = p /\ c.hintIsFresh = hintIsFresh
  OBVIOUS
<1> HIDE DEF c
<1>9. /\ base = NewRedemption(amount, maxIterations)
      /\ RedemptionLoop(c, base, list, amount, hint, hintIsFresh, maxIterations, p)
  BY <1>3 DEF RedemptionLoop
<1> HIDE DEF list, base
<1>4. PICK r : Steps(r, "redeem", c, base, list)
               /\ r[m] = RedemptionRun(amount, hint, hintIsFresh, maxIterations, p)
  BY <1>1, <1>9, RedemptionSteps
<1>5. /\ r[0] = base
      /\ \A i \in 1..m : r[i] = RedemptionStep(r[i - 1], list[i], p, hintIsFresh)
  BY <1>3, <1>4 DEF Steps, LoopBody
<1>6. /\ RedemptionBooks(base, p) /\ base.applied = {}
      /\ base.remaining + base.redeemed = amount
  BY <1>9, NewRedemptionHolds
<1> HIDE DEF m
<1> DEFINE T == {i \in 0..m : AfterPass(r[i], i, list, amount, p)}
<1>7. 0 \in T
  <2>1. InOrder(base, list, 0)
    BY <1>6 DEF InOrder
  <2> QED BY <1>2, <1>5, <1>6, <2>1 DEF AfterPass
<1>8. ASSUME NEW i \in 1..m, i - 1 \in T PROVE i \in T
  <2>1. /\ RedemptionBooks(r[i - 1], p) /\ i \in 0..m /\ i \in Nat
        /\ r[i - 1].applied \subseteq {list[k] : k \in 1..(i - 1)}
        /\ r[i - 1].remaining + r[i - 1].redeemed = amount
        /\ InOrder(r[i - 1], list, i - 1)
    BY <1>2, <1>8 DEF AfterPass
  <2>2. list[i] \notin {list[k] : k \in 1..(i - 1)}
    <3>1. \A k \in 1..(i - 1) : k \in 1..m /\ k # i
      BY <1>2, <2>1
    <3>2. \A k \in 1..m : list[i] = list[k] => i = k
      BY <1>1 DEF m
    <3> QED BY <3>1, <3>2
  <2>3. list[i] \in ActiveTroves \ r[i - 1].applied
    BY <1>2, <2>1, <2>2
  <2>4. KeepsRun(RedemptionStep(r[i - 1], list[i], p, hintIsFresh), r[i - 1], list[i], p)
    BY <2>1, <2>3, RedemptionStepKeepsBooks
  <2>5. {list[k] : k \in 1..(i - 1)} \cup {list[i]} \subseteq {list[k] : k \in 1..i}
    <3>1. \A k \in 1..(i - 1) : k \in 1..i
      BY <2>1
    <3>2. i \in 1..i
      BY <2>1
    <3> QED BY <3>1, <3>2
  <2>6. r[i] = RedemptionStep(r[i - 1], list[i], p, hintIsFresh)
    BY <1>5
  <2>7. /\ RedemptionBooks(r[i], p)
        /\ r[i].applied \subseteq r[i - 1].applied \cup {list[i]}
        /\ r[i].remaining + r[i].redeemed = r[i - 1].remaining + r[i - 1].redeemed
        /\ ClosedBy(r[i - 1]) \subseteq ClosedBy(r[i])
        /\ Stopped(r[i - 1]) => r[i] = r[i - 1]
        /\ ~Stopped(r[i]) => list[i] \in ClosedBy(r[i])
    BY <2>4, <2>6 DEF KeepsRun
  <2>8. r[i].applied \subseteq {list[k] : k \in 1..i}
    BY <2>1, <2>5, <2>7
  <2>9. InOrder(r[i], list, i)
    <3>1. \A j \in 1..i : j \in 1..(i - 1) \/ j = i
      BY <2>1
    <3>2. CASE Stopped(r[i - 1])
      <4>1. r[i] = r[i - 1]
        BY <2>7, <3>2
      <4>2. list[i] \notin r[i].applied
        BY <2>3, <4>1
      <4> QED BY <2>1, <3>1, <3>2, <4>1, <4>2 DEF InOrder
    <3>3. CASE ~Stopped(r[i - 1])
      <4>1. \A j \in 1..(i - 1) : list[j] \in ClosedBy(r[i])
        BY <2>1, <2>7, <3>3 DEF InOrder
      <4>2. ~Stopped(r[i]) => \A j \in 1..i : list[j] \in ClosedBy(r[i])
        BY <2>7, <3>1, <4>1
      <4>3. \A k \in 1..i : \A j \in 1..(k - 1) : j \in 1..(i - 1)
        BY <2>1
      <4> QED BY <4>1, <4>2, <4>3 DEF InOrder
    <3> QED BY <3>2, <3>3
  <2> QED BY <2>1, <2>7, <2>8, <2>9 DEF AfterPass
<1>11. \A i \in 0..m : i \in T
  <2> HIDE DEF T
  <2> QED BY <1>2, <1>7, <1>8, LoopInduction
<1>10. IsRedemptionOf(r, list, amount, hint, hintIsFresh, maxIterations, p)
  BY <1>4, <1>5, <1>9 DEF IsRedemptionOf, m
<1> QED
  BY <1>10, <1>11 DEF m, list

(* The books of a redemption are in order at the end of its loop.          *)
LEMMA RedemptionRunHolds ==
  ASSUME LedgerInv, ListInv, MinimumDebtKept, NEW p \in Nat \ {0}, NEW amount \in Nat,
         NEW hint, NEW hintIsFresh, NEW maxIterations \in Nat
  PROVE  LET run == RedemptionRun(amount, hint, hintIsFresh, maxIterations, p)
         IN  /\ RedemptionBooks(run, p)
             /\ run.redeemed <= amount
             /\ run.applied \subseteq ToSet(VisitedTroves(hint, p))
             /\ InOrder(run, VisitedTroves(hint, p), Len(VisitedTroves(hint, p)))
<1> DEFINE list == VisitedTroves(hint, p)
           m == Len(list)
           run == RedemptionRun(amount, hint, hintIsFresh, maxIterations, p)
<1>1. list \in Seq(ActiveTroves)
  BY VisitedAreActive
<1>2. PICK r : /\ IsRedemptionOf(r, list, amount, hint, hintIsFresh, maxIterations, p)
               /\ \A i \in 0..Len(list) : AfterPass(r[i], i, list, amount, p)
  BY RedemptionPasses
<1> HIDE DEF list
<1>3. m \in Nat /\ m \in 0..m /\ {list[k] : k \in 1..m} = ToSet(list)
  BY <1>1, ListFacts
<1>4. r[m] = run
  BY <1>2 DEF IsRedemptionOf
<1>5. AfterPass(run, m, list, amount, p)
  BY <1>2, <1>3, <1>4
<1> HIDE DEF m, run
<1>6. /\ RedemptionBooks(run, p) /\ run.remaining + run.redeemed = amount
      /\ run.applied \subseteq {list[k] : k \in 1..m} /\ InOrder(run, list, m)
  BY <1>5 DEF AfterPass
<1>7. run.redeemed <= amount
  <2>1. run.remaining \in Nat /\ run.redeemed \in Nat
    BY <1>6 DEF RedemptionBooks, RedemptionRuns
  <2>2. \A x, y \in Nat : y <= x + y
    OBVIOUS
  <2> QED BY <1>6, <2>1, <2>2
<1> QED
  BY <1>3, <1>6, <1>7 DEF run, m, list

------------------------------------------------------------------------------
(* The redemptions. *)

(* What redeemCollateral makes of the state, with the run of its loop.     *)
Redeems(run, redeemer) ==
  /\ TCR(price) >= MCR
  /\ RedemptionArithmetic(run)
  /\ Troves' = [b \in Borrowers |-> TroveAfter(run, b)]
  /\ rewardSnapshots' = [b \in Borrowers |-> SnapshotAfter(run, b)]
  /\ TroveOwners' = RemoveTroveOwners(run.closed).owners
  /\ arrayIndex' = RemoveTroveOwners(run.closed).index
  /\ sortedTroves' \in ListsAfter(run)
  /\ totalStakes' = StakesAfter(run)
  /\ activePool' = [ETH |-> activePool.ETH + run.movedETH - SurplusOf(run) - run.drawn,
                    ARTHDebt |-> activePool.ARTHDebt + run.movedDebt
                                   - ReserveOf(run) - run.redeemed]
  /\ defaultPool' = [ETH |-> defaultPool.ETH - run.movedETH,
                     ARTHDebt |-> defaultPool.ARTHDebt - run.movedDebt]
  /\ collSurplusPool' = [ETH |-> collSurplusPool.ETH + SurplusOf(run),
                         balances |-> [b \in Borrowers |->
                           collSurplusPool.balances[b] + run.surplus[b]]]
  /\ arthBalance' = Minus(Minus(arthBalance, redeemer, run.redeemed),
                          GasPool, ReserveOf(run))
  /\ arthBalance[redeemer] \in Nat => run.redeemed <= arthBalance[redeemer]
  /\ totalSupply' = totalSupply - run.redeemed - ReserveOf(run)
  /\ baseRate' \in 0..DECIMAL_PRECISION /\ lastFeeOperationTime' = NextFeeOpTime
  /\ UNCHANGED <<rewardVars, stabilityPool, price, now, coreRest>>

(* The troves whose rewards a run has applied are troves of its loop, one  *)
(* after the other.                                                        *)
Visits(run, p) ==
  \E hint : /\ run.applied \subseteq ToSet(VisitedTroves(hint, p))
            /\ InOrder(run, VisitedTroves(hint, p), Len(VisitedTroves(hint, p)))

(* Every redemption applies one run of the loop, to the troves it visits. *)
LEMMA RedeemStepVisits ==
  ASSUME LedgerInv, BooksInv, RedeemStep
  PROVE  \E run, redeemer : /\ RedemptionBooks(run, price) /\ redeemer \in Redeemers
                            /\ Redeems(run, redeemer) /\ Visits(run, price)
<1>1. PICK redeemer \in Redeemers, amount \in RedeemAmounts, hint \in RedeemHints,
           hintIsFresh \in BOOLEAN, maxIterations \in RedeemIterations, maxFee \in MaxFees :
        RedeemCollateral(redeemer, amount, hint, hintIsFresh, maxIterations, maxFee)
  BY DEF RedeemStep
<1> DEFINE run == RedemptionRun(amount, hint, hintIsFresh, maxIterations, price)
<1>2. amount \in Nat /\ maxIterations \in Nat
  BY InputAssumption
<1>3. price \in Nat \ {0} /\ ListInv /\ MinimumDebtKept
  BY DEF BooksInv, LedgerInv, LedgerTypeOK
<1>4. /\ RedemptionBooks(run, price) /\ run.redeemed <= amount
      /\ run.applied \subseteq ToSet(VisitedTroves(hint, price))
      /\ InOrder(run, VisitedTroves(hint, price), Len(VisitedTroves(hint, price)))
  BY <1>2, <1>3, RedemptionRunHolds
<1>5. UNCHANGED coreRest
  BY DEF RedeemStep
<1>6. Redeems(run, redeemer)
  <2>1. /\ amount <= arthBalance[redeemer]
        /\ BaseRateAfterRedemption(run.drawn, price) \in 1..DECIMAL_PRECISION
        /\ baseRate' = BaseRateAfterRedemption(run.drawn, price)
    BY <1>1 DEF RedeemCollateral
  <2>2. arthBalance[redeemer] \in Nat => run.redeemed <= arthBalance[redeemer]
    <3>1. run.redeemed \in Nat
      BY <1>4 DEF RedemptionBooks, RedemptionRuns
    <3> HIDE DEF run
    <3> QED BY <1>2, <1>4, <2>1, <3>1
  <2>3. baseRate' \in 0..DECIMAL_PRECISION
    <3>1. 1..DECIMAL_PRECISION \subseteq 0..DECIMAL_PRECISION
      BY PrecisionAssumption
    <3> QED BY <2>1, <3>1
  <2> QED BY <1>1, <1>5, <2>2, <2>3 DEF RedeemCollateral, Redeems, ReserveOf, SurplusOf, envVars
<1>7. Visits(run, price)
  BY <1>4 DEF Visits
<1> HIDE DEF run
<1> QED
  BY <1>1, <1>4, <1>6, <1>7

(* Every redemption applies one run of the loop. *)
LEMMA RedeemStepRun ==
  ASSUME LedgerInv, BooksInv, RedeemStep
  PROVE  \E run, redeemer : /\ RedemptionBooks(run, price) /\ redeemer \in Redeemers
                            /\ Redeems(run, redeemer)
BY RedeemStepVisits

(* The status and the debt of a trove after a redemption.                  *)
LEMMA AfterStatus ==
  ASSUME LedgerInv, MinimumDebtKept, NEW p, NEW run, RedemptionBooks(run, p),
         NEW b \in Borrowers
  PROVE  /\ b \in ClosedBy(run) =>
              /\ TroveAfter(run, b).status # "active" /\ TroveAfter(run, b).stake = 0
              /\ TroveAfter(run, b).coll = 0 /\ TroveAfter(run, b).debt = 0
         /\ b \notin ClosedBy(run) => TroveAfter(run, b).status = Troves[b].status
         /\ b \notin ActiveTroves => TroveAfter(run, b) = Troves[b]
         /\ b \in ActiveTroves \ ClosedBy(run) =>
              TroveAfter(run, b).debt >= ARTH_GAS_COMPENSATION + MIN_NET_DEBT
<1> DEFINE after == ApplyPendingRewards(b)
           t == Troves[b]
           s == NewStake(run.collLeft)
           out == TroveAfter(run, b)
<1>1. out = IF b \in ClosedBy(run) THEN ClosedTrove(b, "closedByRedemption")
            ELSE IF b = run.partial
            THEN [t EXCEPT !.debt = run.debtLeft, !.coll = run.collLeft, !.stake = s]
            ELSE IF b \in run.applied THEN [t EXCEPT !.debt = after.debt, !.coll = after.coll]
            ELSE t
  BY DEF TroveAfter
<1>2. /\ run.applied \subseteq ActiveTroves /\ ClosedBy(run) \subseteq run.applied
      /\ run.partial # NoHint =>
           /\ run.partial \in run.applied
           /\ run.debtLeft >= ARTH_GAS_COMPENSATION + MIN_NET_DEBT
      /\ NoHint \notin Borrowers
  BY AddressAssumption DEF RedemptionBooks, NoHint, Accounts
<1>3. t \in TroveType
  BY DEF LedgerInv, LedgerTypeOK, TroveType
<1>4. b \in ActiveTroves =>
        /\ t.debt >= ARTH_GAS_COMPENSATION + MIN_NET_DEBT
        /\ after.debt >= ARTH_GAS_COMPENSATION + MIN_NET_DEBT
  <2> SUFFICES ASSUME b \in ActiveTroves
               PROVE  /\ t.debt >= ARTH_GAS_COMPENSATION + MIN_NET_DEBT
                      /\ after.debt >= ARTH_GAS_COMPENSATION + MIN_NET_DEBT
    OBVIOUS
  <2>1. t.debt >= ARTH_GAS_COMPENSATION + MIN_NET_DEBT /\ t.debt \in Nat
    BY <1>3 DEF MinimumDebtKept, TroveType
  <2>2. after.debt = t.debt + after.movedDebt
    BY AppliedFacts
  <2>3. after.movedDebt \in Nat
    BY AppliedRewardsTyped
  <2> HIDE DEF after, t
  <2>4. ARTH_GAS_COMPENSATION \in Nat /\ MIN_NET_DEBT \in Nat
    BY DebtAssumption
  <2> QED BY <2>1, <2>2, <2>3, <2>4
<1>5. /\ ClosedTrove(b, "closedByRedemption").status = "closedByRedemption"
      /\ ClosedTrove(b, "closedByRedemption").stake = 0
      /\ ClosedTrove(b, "closedByRedemption").coll = 0
      /\ ClosedTrove(b, "closedByRedemption").debt = 0
      /\ "closedByRedemption" # "active"
  BY ClosedTroveFields
<1> HIDE DEF after, t, s, out
<1>6. b \in ClosedBy(run) => out.status # "active" /\ out.stake = 0
                             /\ out.coll = 0 /\ out.debt = 0
  BY <1>1, <1>5
<1>7. b \notin ClosedBy(run) => out.status = t.status
  BY <1>1, <1>3 DEF TroveType
<1>8. b \notin ActiveTroves => out = t
  BY <1>1, <1>2
<1>9. b \in ActiveTroves \ ClosedBy(run) => out.debt >= ARTH_GAS_COMPENSATION + MIN_NET_DEBT
  <2>1. CASE b = run.partial
    BY <1>1, <1>2, <1>3, <2>1 DEF TroveType
  <2>2. CASE b # run.partial
    BY <1>1, <1>3, <1>4, <2>2 DEF TroveType
  <2> QED BY <2>1, <2>2
<1> QED
  BY <1>6, <1>7, <1>8, <1>9 DEF out, t

(* The redemptions keep the books. *)
LEMMA RedemptionKeepsBooks ==
  ASSUME LedgerInv, LedgerInv', BooksInv, RedeemStep
  PROVE  BooksInv'
<1>1. PICK run, redeemer : RedemptionBooks(run, price) /\ Redeems(run, redeemer)
  BY RedeemStepRun
<1> DEFINE S == ClosedBy(run)
<1>2. /\ Troves' = [b \in Borrowers |-> TroveAfter(run, b)]
      /\ TroveOwners' = RemoveTroveOwners(run.closed).owners
      /\ arrayIndex' = RemoveTroveOwners(run.closed).index
      /\ sortedTroves' \in ListsAfter(run)
      /\ totalStakes' = StakesAfter(run)
      /\ price' = price
  BY <1>1 DEF Redeems
<1>3. /\ run \in RedemptionRuns /\ run.closed \in Seq(ActiveTroves) /\ IsInjective(run.closed)
      /\ run.applied \subseteq ActiveTroves /\ S \subseteq ActiveTroves
      /\ run.partial # NoHint => run.partial \in ActiveTroves \ S
  BY <1>1 DEF RedemptionBooks, RedemptionRuns
<1>4. MinimumDebtKept
  BY DEF BooksInv
<1>5. \A b \in Borrowers :
        /\ Troves'[b] = TroveAfter(run, b)
        /\ b \in S => /\ TroveAfter(run, b).status # "active" /\ TroveAfter(run, b).stake = 0
                      /\ TroveAfter(run, b).coll = 0 /\ TroveAfter(run, b).debt = 0
        /\ b \notin S => TroveAfter(run, b).status = Troves[b].status
        /\ b \notin ActiveTroves => TroveAfter(run, b) = Troves[b]
        /\ b \in ActiveTroves \ S =>
             TroveAfter(run, b).debt >= ARTH_GAS_COMPENSATION + MIN_NET_DEBT
  BY <1>1, <1>2, <1>4, AfterStatus
<1>6. ArrayOf(RemoveTroveOwners(run.closed), ActiveTroves \ S)
  BY <1>3, OwnersRemoved DEF BooksInv, ClosedBy
<1> HIDE DEF S
<1>7. ActiveTroves' = ActiveTroves \ S
  BY <1>5 DEF ActiveTroves, IsActive
<1>8. StakesAddUp'
  <2> DEFINE change == [b \in Borrowers |-> TroveAfter(run, b).stake - Troves[b].stake]
  <2>1. \A b \in Borrowers : /\ StakeOf[b] \in Int /\ change[b] \in Int
                             /\ StakeOf'[b] = StakeOf[b] + change[b]
    <3> TAKE b \in Borrowers
    <3>1. StakeOf[b] \in Nat /\ StakeOf[b] = Troves[b].stake
      BY RecordedAmounts
    <3>2. TroveAfter(run, b).stake \in Int /\ StakeOf'[b] = TroveAfter(run, b).stake
      BY <1>3, <1>5, AfterTyped DEF StakeOf
    <3>3. change[b] = TroveAfter(run, b).stake - Troves[b].stake
      OBVIOUS
    <3> HIDE DEF change
    <3> QED BY <3>1, <3>2, <3>3
  <2>2. DOMAIN change = Borrowers
    OBVIOUS
  <2>3. StakesAfter(run) = totalStakes + SumFunctionOnSet(change, Borrowers)
    BY <2>2 DEF StakesAfter, SumFunction
  <2> HIDE DEF change
  <2>4. SumFunctionOnSet(StakeOf', Borrowers)
          = SumFunctionOnSet(StakeOf, Borrowers) + SumFunctionOnSet(change, Borrowers)
    BY <2>1, ActiveTrovesFinite, SumPlus
  <2>5. StakeTotal = SumFunctionOnSet(StakeOf, Borrowers)
    BY RecordedAmounts
  <2>6. StakeTotal' = SumFunctionOnSet(StakeOf', Borrowers)
    <3>1. DOMAIN StakeOf' = Borrowers
      BY DEF StakeOf
    <3> QED BY <3>1 DEF StakeTotal, SumFunction
  <2>7. totalStakes = StakeTotal
    BY StakesAddUpIs DEF BooksInv
  <2>8. totalStakes' = StakeTotal'
    BY <1>2, <2>3, <2>4, <2>5, <2>6, <2>7
  <2> QED BY <2>8 DEF StakesAddUp, StakeTotal, StakeOf
<1>9. ListInv'
  <2> DEFINE left == Without(sortedTroves, S)
             others == Without(left, {run.partial})
             nicr == ComputeNominalCR(run.collLeft, run.debtLeft)
  <2>1. /\ sortedTroves \in Seq(Borrowers) /\ IsInjective(sortedTroves)
        /\ ToSet(sortedTroves) = ActiveTroves
    BY DEF BooksInv, ListInv
  <2>2. left \in Seq(Borrowers) /\ ToSet(left) = ActiveTroves \ S /\ IsInjective(left)
    BY <2>1, WithoutFacts
  <2>3. CASE run.partial = NoHint
    <3>1. sortedTroves' = left
      BY <1>2, <2>3 DEF ListsAfter, S
    <3> QED BY <1>7, <2>2, <3>1 DEF ListInv
  <2>4. CASE run.partial # NoHint
    <3>1. \E i \in 0..Len(others) : sortedTroves' = InsertAt(others, i + 1, run.partial)
      BY <1>2, <2>4 DEF ListsAfter, S, ValidPositions
    <3> HIDE DEF left
    <3>2. /\ others \in Seq(Borrowers) /\ ToSet(others) = (ActiveTroves \ S) \ {run.partial}
          /\ IsInjective(others)
      BY <2>2, WithoutFacts
    <3> HIDE DEF others
    <3>3. PICK i \in 0..Len(others) : sortedTroves' = InsertAt(others, i + 1, run.partial)
      BY <3>1
    <3>4. run.partial \in ActiveTroves \ S /\ run.partial \in Borrowers
      BY <1>3, <2>4, ActiveTrovesFinite
    <3>5. /\ sortedTroves' \in Seq(Borrowers) /\ IsInjective(sortedTroves')
          /\ ToSet(sortedTroves') = ToSet(others) \cup {run.partial}
      BY <3>2, <3>3, <3>4, InsertAtFacts, InsertAtKeepsDistinct, SMTT(30)
    <3> QED BY <1>7, <3>2, <3>4, <3>5 DEF ListInv
  <2> QED BY <2>3, <2>4
<1>10. ArrayOf([owners |-> TroveOwners', index |-> arrayIndex'], ActiveTroves')
  BY <1>2, <1>6, <1>7 DEF ArrayOf
<1>11. ClosedTrovesAreEmpty'
  BY <1>5, <1>7 DEF BooksInv, ClosedTrovesAreEmpty
<1>12. MinimumDebtKept'
  BY <1>5, <1>7, ActiveTrovesFinite DEF MinimumDebtKept
<1> QED
  BY <1>2, <1>8, <1>9, <1>10, <1>11, <1>12 DEF BooksInv

------------------------------------------------------------------------------
(* Every step, and the theorems. *)

booksVars == <<Troves, TroveOwners, arrayIndex, sortedTroves, totalStakes>>

(* A step that leaves the troves and the lists alone keeps the books. *)
LEMMA BooksUnchanged ==
  ASSUME BooksInv, UNCHANGED booksVars, price' > 0
  PROVE  BooksInv'
<1>1. /\ Troves' = Troves /\ TroveOwners' = TroveOwners /\ arrayIndex' = arrayIndex
      /\ sortedTroves' = sortedTroves /\ totalStakes' = totalStakes
  BY DEF booksVars
<1>2. ActiveTroves' = ActiveTroves
  BY <1>1 DEF ActiveTroves, IsActive
<1>3. StakesAddUp'
  BY <1>1 DEF BooksInv, StakesAddUp
<1>4. ListInv'
  BY <1>1, <1>2 DEF BooksInv, ListInv
<1>5. ArrayOf([owners |-> TroveOwners', index |-> arrayIndex'], ActiveTroves')
  BY <1>1, <1>2 DEF BooksInv
<1>6. ClosedTrovesAreEmpty' /\ MinimumDebtKept'
  BY <1>1, <1>2 DEF BooksInv, ClosedTrovesAreEmpty, MinimumDebtKept
<1> QED
  BY <1>3, <1>4, <1>5, <1>6 DEF BooksInv

(* The calls of the borrowers keep the books. *)
LEMMA BorrowerStepKeepsBooks ==
  ASSUME LedgerInv, LedgerInv', BooksInv, BorrowerStep
  PROVE  BooksInv'
<1>1. CASE \E b \in Borrowers : OpenForSelf(b) \/ OpenForOther(b)
  BY <1>1, OpenKeepsBooks DEF OpenForSelf, OpenForOther
<1>2. CASE \E b \in Borrowers : Adjust(b)
  <2>1. PICK b \in Borrowers, value \in CollChanges \cup {0},
             withdrawal \in CollChanges \cup {0}, change \in DebtChanges \cup {0},
             isDebtIncrease \in BOOLEAN, maxFee \in MaxFees :
          AdjustTrove(b, value, withdrawal, change, isDebtIncrease, maxFee)
    BY <1>2 DEF Adjust
  <2>2. change \in Nat
    BY InputAssumption
  <2> QED BY <2>1, <2>2, AdjustTroveKeepsBooks
<1>3. CASE \E b \in Borrowers : Close(b)
  BY <1>3, CloseKeepsBooks DEF Close
<1>4. CASE \E b \in Borrowers : Claim(b)
  <2>1. UNCHANGED booksVars /\ price' = price
    BY <1>4 DEF Claim, ClaimCollateral, BOUnchanged, troveVars, envVars, booksVars
  <2> QED BY <2>1, BooksUnchanged DEF BooksInv
<1> QED
  BY <1>1, <1>2, <1>3, <1>4 DEF BorrowerStep

(* The calls on the StabilityPool keep the books. *)
LEMMA PoolStepKeepsBooks ==
  ASSUME LedgerInv, LedgerInv', BooksInv, PoolStep
  PROVE  BooksInv'
<1>1. CASE \E b \in Borrowers : GainToTrove(b)
  <2>1. PICK b \in Borrowers, share \in Shares :
          WithdrawETHGainToTrove(b, Part(share, stabilityPool.ETH))
    BY <1>1 DEF GainToTrove
  <2>2. AdjustTrove(b, Part(share, stabilityPool.ETH), 0, 0, FALSE, 0)
    BY <2>1 DEF WithdrawETHGainToTrove
  <2>3. 0 \in Nat /\ FALSE \in BOOLEAN
    OBVIOUS
  <2> QED BY <2>2, <2>3, AdjustTroveKeepsBooks
<1>2. CASE PoolCallUnchanged
  <2>1. UNCHANGED booksVars /\ price' = price
    BY <1>2 DEF PoolCallUnchanged, troveVars, envVars, booksVars
  <2> QED BY <2>1, BooksUnchanged DEF BooksInv
<1>3. CASE \E a \in Borrowers \cup {Owner} : Deposit(a)
  BY <1>2, <1>3 DEF Deposit, ProvideToSP
<1>4. CASE \E b \in Borrowers : Withdraw(b)
  BY <1>2, <1>4 DEF Withdraw, WithdrawFromSP
<1> QED
  BY <1>1, <1>3, <1>4 DEF PoolStep

(* Governance, time and the price leave the books alone. *)
LEMMA OtherStepsKeepBooks ==
  ASSUME LedgerInv, BooksInv, GovernanceStep \/ EnvironmentStep
  PROVE  BooksInv'
<1>1. UNCHANGED booksVars /\ (price' = price \/ price' \in Prices)
  <2>2. CASE \E a \in FrontEndAddresses : Register(a)
    BY <2>2 DEF Register, RegisterFrontEnd, BOUnchanged, troveVars, envVars, booksVars
  <2>3. CASE \E value \in MintSwitches : SetAllowMinting(value)
    BY <2>3 DEF SetAllowMinting, ledgers, troveVars, envVars, booksVars
  <2>4. CASE \E value \in Ceilings : SetMaxDebtCeiling(value)
    BY <2>4 DEF SetMaxDebtCeiling, ledgers, troveVars, envVars, booksVars
  <2>5. CASE AnyTransfer
    BY <2>5 DEF AnyTransfer, Transfer, troveVars, envVars, booksVars
  <2>6. CASE \E p \in Prices : SetPrice(p)
    BY <2>6 DEF SetPrice, ledgers, troveVars, booksVars
  <2>7. CASE \E seconds \in TimeSteps : Tick(seconds)
    BY <2>7 DEF Tick, ledgers, troveVars, booksVars
  <2> QED
    BY <2>2, <2>3, <2>4, <2>5, <2>6, <2>7 DEF GovernanceStep, EnvironmentStep
<1>2. price' > 0
  <2>1. \A p \in Nat \ {0} : p > 0
    OBVIOUS
  <2> QED BY <1>1, <2>1, InputAssumption DEF BooksInv
<1> QED
  BY <1>1, <1>2, BooksUnchanged

(* The books of the initial state: nobody has a trove. *)
LEMMA InitEstablishesBooks ==
  ASSUME Init
  PROVE  BooksInv
<1>1. /\ Troves = [b \in Borrowers |-> NoTrove]
      /\ TroveOwners = <<>> /\ sortedTroves = <<>>
      /\ arrayIndex = [b \in Borrowers |-> 0] /\ totalStakes = 0 /\ price \in Prices
  BY DEF Init, CoreInit
<1>2. /\ NoTrove.status # "active" /\ NoTrove.stake = 0
      /\ NoTrove.coll = 0 /\ NoTrove.debt = 0
  BY DEF NoTrove
<1>3. ActiveTroves = {}
  BY <1>1, <1>2 DEF ActiveTroves, IsActive
<1>4. <<>> \in Seq(Borrowers) /\ IsInjective(<<>>) /\ ToSet(<<>>) = {} /\ Len(<<>>) = 0
  BY DEF IsInjective, ToSet
<1>5. StakesAddUp
  <2>1. StakeOf = [b \in Borrowers |-> 0]
    BY <1>1, <1>2 DEF StakeOf
  <2> DEFINE zero == [b \in Borrowers |-> 0]
  <2>2. SumFunctionOnSet(zero, Borrowers) = Cardinality(Borrowers) * 0
    BY ActiveTrovesFinite, SumConstant
  <2>3. Cardinality(Borrowers) \in Nat
    BY ActiveTrovesFinite, FS_CardinalityType
  <2>4. \A x \in Nat : x * 0 = 0
    OBVIOUS
  <2>5. SumFunctionOnSet(zero, Borrowers) = 0
    BY <2>2, <2>3, <2>4
  <2>6. DOMAIN zero = Borrowers
    OBVIOUS
  <2> HIDE DEF zero
  <2>7. SumFunction(zero) = 0
    BY <2>5, <2>6 DEF SumFunction
  <2> QED BY <1>1, <2>1, <2>7 DEF StakesAddUp, StakeOf, zero
<1>6. ListInv
  BY <1>1, <1>3, <1>4 DEF ListInv
<1>7. ArrayOf([owners |-> TroveOwners, index |-> arrayIndex], ActiveTroves)
  BY <1>1, <1>3, <1>4 DEF ArrayOf
<1>8. ClosedTrovesAreEmpty /\ MinimumDebtKept
  BY <1>1, <1>2, <1>3 DEF ClosedTrovesAreEmpty, MinimumDebtKept
<1>9. price > 0
  <2>1. \A p \in Nat \ {0} : p > 0
    OBVIOUS
  <2> QED BY <1>1, <2>1, InputAssumption
<1> QED
  BY <1>5, <1>6, <1>7, <1>8, <1>9 DEF BooksInv

(* Every step keeps the books. *)
LEMMA NextKeepsBooks == LedgerInv /\ BooksInv /\ [Next]_vars => BooksInv'
<1> SUFFICES ASSUME LedgerInv, BooksInv, [Next]_vars PROVE BooksInv'
  OBVIOUS
<1>0. LedgerInv'
  BY NextKeepsLedgers
<1>1. CASE BorrowerStep
  BY <1>0, <1>1, BorrowerStepKeepsBooks
<1>2. CASE PoolStep
  BY <1>0, <1>2, PoolStepKeepsBooks
<1>3. CASE LiquidateStep
  BY <1>0, <1>3, LiquidationKeepsBooks
<1>4. CASE RedeemStep
  BY <1>0, <1>4, RedemptionKeepsBooks
<1>5. CASE GovernanceStep \/ EnvironmentStep
  BY <1>5, OtherStepsKeepBooks
<1>6. CASE UNCHANGED vars
  <2>1. UNCHANGED booksVars /\ price' = price
    BY <1>6 DEF vars, troveVars, envVars, booksVars
  <2> QED BY <2>1, BooksUnchanged DEF BooksInv
<1> QED
  BY <1>1, <1>2, <1>3, <1>4, <1>5, <1>6 DEF Next

(* The ledgers and the books hold in every reachable state. *)
LEMMA BooksHold == Spec => [](LedgerInv /\ BooksInv)
  BY InitEstablishesLedgers, InitEstablishesBooks, NextKeepsLedgers, NextKeepsBooks, PTL
     DEF Spec

(* The array of owners, the index kept in each trove, the sorted list, the *)
(* statuses and the total of the stakes agree in every state of every      *)
(* deployment: whatever troves a batch, a sequence or a redemption closes  *)
(* in one call, in whatever order, each removal by swapping with the last  *)
(* owner leaves every index right (TroveManager.sol, _removeTroveOwner).   *)
THEOREM BooksAlwaysAgree == Spec => []BooksAgree
<1>1. LedgerInv /\ BooksInv => BooksAgree
  <2> SUFFICES ASSUME LedgerInv, BooksInv PROVE BooksAgree
    OBVIOUS
  <2>1. /\ sortedTroves \in Seq(Borrowers) /\ IsInjective(sortedTroves)
        /\ ToSet(sortedTroves) = ActiveTroves
    BY DEF BooksInv, ListInv
  <2>2. Len(sortedTroves) = Cardinality(ActiveTroves)
    BY <2>1, DistinctCount
  <2> DEFINE arr == [owners |-> TroveOwners, index |-> arrayIndex]
  <2>3. ArrayOf(arr, ActiveTroves) /\ arr.owners = TroveOwners /\ arr.index = arrayIndex
    BY DEF BooksInv
  <2> HIDE DEF arr
  <2>4. /\ TroveOwners \in Seq(Borrowers) /\ IsInjective(TroveOwners)
        /\ ToSet(TroveOwners) = ActiveTroves
    BY <2>3, ArrayIsDistinct DEF ArrayOf
  <2>5. Len(TroveOwners) = Cardinality(ActiveTroves)
    BY <2>4, DistinctCount
  <2>6. \A b \in ActiveTroves : /\ arrayIndex[b] < Len(TroveOwners)
                                /\ TroveOwners[arrayIndex[b] + 1] = b
    <3> TAKE b \in ActiveTroves
    <3>1. /\ Len(TroveOwners) \in Nat
          /\ ToSet(TroveOwners) = {TroveOwners[k] : k \in 1..Len(TroveOwners)}
      BY <2>4, ListFacts
    <3>2. PICK k \in 1..Len(TroveOwners) : TroveOwners[k] = b
      BY <2>4, <3>1
    <3>3. arrayIndex[b] = k - 1
      BY <2>3, <3>2 DEF ArrayOf
    <3> QED BY <3>1, <3>2, <3>3
  <2>7. ListsAgree
    BY <2>1, <2>2, <2>5, <2>6 DEF ListsAgree
  <2> QED BY <2>7 DEF BooksAgree, BooksInv
<1> QED
  BY <1>1, BooksHold, PTL

(* No operation leaves an active trove below the minimum net debt: neither  *)
(* an adjustment, nor a redemption, which cancels a partial redemption that *)
(* would (_redeemCollateralFromTrove), nor the rewards of a redistribution. *)
THEOREM MinimumDebtAlwaysKept == Spec => []MinimumDebtKept
<1>1. BooksInv => MinimumDebtKept
  BY DEF BooksInv
<1> QED
  BY <1>1, BooksHold, PTL

(* A liquidation, alone, in a batch or in a sequence that changes from     *)
(* recovery mode to normal mode on the way, closes no trove that the price *)
(* and the mode at the start of the call do not make liquidatable, and     *)
(* gives the owner of a capped one the surplus above the minimum ratio.    *)
THEOREM OnlyUnsafeTrovesAreLiquidated == Spec => SafeTrovesAreNotLiquidated
<1>1. LedgerInv /\ BooksInv /\ [Next]_vars =>
        [\A b \in Borrowers : LiquidatedNow(b) =>
           LET capped == (EntireDebt(b) * MCR) \div price
           IN  \/ CurrentICR(b, price) < MCR /\ SurplusGained(b) = 0
               \/ /\ InRecoveryMode(price) /\ CurrentICR(b, price) < CCR
                  /\ EntireDebt(b) <= stabilityPool.totalARTHDeposits
                  /\ SurplusGained(b) = EntireColl(b) - capped]_vars
  BY LiquidatedTrovesWereUnsafe
<1> QED
  BY <1>1, BooksHold, PTL DEF Spec, SafeTrovesAreNotLiquidated
==============================================================================
