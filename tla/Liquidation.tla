----------------------------- MODULE Liquidation -----------------------------
(***************************************************************************)
(* Liquidations of TroveManager.sol: liquidate, liquidateTroves and        *)
(* batchLiquidateTroves, with StabilityPool.offset, the redistribution of  *)
(* what the Stability Pool cannot absorb, the surplus of recovery-mode     *)
(* liquidations and the compensation of the caller.                        *)
(*                                                                         *)
(* A call visits troves one after the other and keeps running totals; the  *)
(* fold over the visited troves returns the record `run' below.  Ratios    *)
(* and pending rewards are those of the state before the call throughout,  *)
(* because L and the pools' balances they depend on change after the loop. *)
(***************************************************************************)
EXTENDS TroveState

(* struct LiquidationValues, and with it the running LiquidationTotals.    *)
ZeroValues ==
  [entireTroveDebt |-> 0, entireTroveColl |-> 0, collGasCompensation |-> 0,
   ARTHGasCompensation |-> 0, debtToOffset |-> 0, collToSendToSP |-> 0,
   debtToRedistribute |-> 0, collToRedistribute |-> 0, collSurplus |-> 0]

AddValues(totals, vals) == [f \in DOMAIN totals |-> totals[f] + vals[f]]

LiquidationTotals ==
  [entireTroveDebt : Nat, entireTroveColl : Nat, collGasCompensation : Nat,
   ARTHGasCompensation : Nat, debtToOffset : Nat, collToSendToSP : Nat,
   debtToRedistribute : Nat, collToRedistribute : Nat, collSurplus : Nat]

(* Seeded fault: the pool offsets more than it holds. *)
UnboundedOffset(vals, coll, arthInSP) ==
  LET offset == IF arthInSP > 0 THEN vals.entireTroveDebt ELSE 0
  IN  [vals EXCEPT !.debtToOffset = offset,
                   !.collToSendToSP = IF arthInSP > 0 THEN coll ELSE 0,
                   !.debtToRedistribute = vals.entireTroveDebt - offset,
                   !.collToRedistribute = IF arthInSP > 0 THEN 0 ELSE coll]

(* How a debt and its collateral split between the Stability Pool, which   *)
(* holds arthInSP, and the other troves.                                   *)
OffsetAndRedistribution(vals, coll, arthInSP) ==
  LET offset   == MinOf(vals.entireTroveDebt, arthInSP)
      collToSP == IF arthInSP > 0
                  THEN (coll * offset) \div vals.entireTroveDebt ELSE 0
  IN  [vals EXCEPT !.debtToOffset = offset, !.collToSendToSP = collToSP,
                   !.debtToRedistribute = vals.entireTroveDebt - offset,
                   !.collToRedistribute = coll - collToSP]

(* What every liquidation of b starts from. *)
EntireValues(b) ==
  [ZeroValues EXCEPT !.entireTroveDebt = EntireDebt(b),
                     !.entireTroveColl = EntireColl(b),
                     !.collGasCompensation = CollGasCompensation(EntireColl(b)),
                     !.ARTHGasCompensation = ARTH_GAS_COMPENSATION]

CollToLiquidate(vals) == vals.entireTroveColl - vals.collGasCompensation

(* _liquidateNormalMode *)
NormalModeValues(b, arthInSP) ==
  LET vals == EntireValues(b)
  IN  OffsetAndRedistribution(vals, CollToLiquidate(vals), arthInSP)

(* _getCappedOffsetVals: the pool takes MCR worth of collateral, the owner *)
(* may claim the rest.                                                     *)
CappedOffsetValues(b, p) ==
  LET vals   == EntireValues(b)
      capped == (vals.entireTroveDebt * MCR) \div p
      gas    == CollGasCompensation(capped)
  IN  [vals EXCEPT !.collGasCompensation = gas,
                   !.debtToOffset = vals.entireTroveDebt,
                   !.collToSendToSP = capped - gas,
                   !.collSurplus = vals.entireTroveColl - capped]

(* Seeded fault: in recovery mode any trove may be liquidated. *)
RecoveryModeValuesOfAny(b, icr, arthInSP, tcr, ownersLeft, p) ==
  IF ownersLeft > 1 /\ icr >= MCR /\ EntireDebt(b) <= arthInSP
  THEN CappedOffsetValues(b, p)
  ELSE IF ownersLeft > 1 /\ icr < MCR THEN NormalModeValues(b, arthInSP)
  ELSE ZeroValues

(* _liquidateRecoveryMode; ZeroValues means that b is left alone. *)
RecoveryModeValues(b, icr, arthInSP, tcr, ownersLeft, p) ==
  LET vals == EntireValues(b)
  IN  CASE ownersLeft <= 1 -> ZeroValues
        [] ownersLeft > 1 /\ icr <= OneHundredPct ->
             OffsetAndRedistribution(vals, CollToLiquidate(vals), 0)
        [] ownersLeft > 1 /\ OneHundredPct < icr /\ icr < MCR ->
             NormalModeValues(b, arthInSP)
        [] ownersLeft > 1 /\ MCR <= icr /\ icr < tcr
             /\ vals.entireTroveDebt <= arthInSP -> CappedOffsetValues(b, p)
        [] OTHER -> ZeroValues

------------------------------------------------------------------------------
(* The state of the loop over the troves of one call.                      *)
NewRun ==
  [totals |-> ZeroValues,
   remaining |-> stabilityPool.totalARTHDeposits,
   systemColl |-> EntireSystemColl, systemDebt |-> EntireSystemDebt,
   backToNormal |-> FALSE, stopped |-> FALSE,
   closed |-> <<>>,                            \* in the order of closing
   surplus |-> [b \in Borrowers |-> 0],        \* accountSurplus calls
   movedETH |-> 0, movedDebt |-> 0,            \* DefaultPool to ActivePool
   stakes |-> 0]                               \* removed from totalStakes

Closed(run) == ToSet(run.closed)

(* Ratio of b as the loop reads it: b has no debt once it is closed. *)
ICRInRun(run, b, p) ==
  IF b \in Closed(run) THEN MaxUint ELSE CurrentICR(b, p)

LiquidateInRun(run, b, vals) ==
  IF vals = ZeroValues THEN run
  ELSE [run EXCEPT !.totals = AddValues(@, vals),
                   !.remaining = @ - vals.debtToOffset,
                   !.closed = Append(@, b),
                   !.surplus[b] = @ + vals.collSurplus,
                   !.movedETH = @ + PendingETHReward(b),
                   !.movedDebt = @ + PendingARTHDebtReward(b),
                   !.stakes = @ + Troves[b].stake]

(* The same in recovery mode, which also tracks the system's ratio. *)
RecoveryLiquidateInRun(run, b, vals, p) ==
  LET coll == run.systemColl - vals.collToSendToSP
                - vals.collGasCompensation - vals.collSurplus
      debt == run.systemDebt - vals.debtToOffset
  IN  [LiquidateInRun(run, b, vals) EXCEPT
         !.systemColl = coll, !.systemDebt = debt,
         !.backToNormal = ComputeCR(coll, debt, p) >= CCR]

(* A trove that is not liquidated: a batch skips it, a sequence from the   *)
(* end of the list breaks the loop.                                        *)
PassOver(run, isBatch) == [run EXCEPT !.stopped = ~isBatch]

NormalModeStep(run, b, isBatch, p) ==
  IF run.stopped THEN run
  ELSE IF ICRInRun(run, b, p) < MCR
  THEN LiquidateInRun(run, b, NormalModeValues(b, run.remaining))
  ELSE PassOver(run, isBatch)

RecoveryModeStep(run, b, isBatch, p) ==
  LET icr == ICRInRun(run, b, p)
      tcr == ComputeCR(run.systemColl, run.systemDebt, p)
      ownersLeft == Len(TroveOwners) - Len(run.closed)
  IN  IF \/ run.stopped
         \/ isBatch /\ (b \in Closed(run) \/ ~IsActive(b)) THEN run
      ELSE IF run.backToNormal THEN NormalModeStep(run, b, isBatch, p)
      ELSE IF icr >= MCR /\ run.remaining = 0 THEN PassOver(run, isBatch)
      ELSE RecoveryLiquidateInRun(run, b,
             RecoveryModeValues(b, icr, run.remaining, tcr, ownersLeft, p), p)

RunOver(troves, isBatch, recovery, p) ==
  LET Step(run, b) == IF recovery THEN RecoveryModeStep(run, b, isBatch, p)
                      ELSE NormalModeStep(run, b, isBatch, p)
  IN  FoldLeft(Step, NewRun, troves)

(* Seeded fault: the sequence starts at the safest trove. *)
LiquidateFromHead(n, p) ==
  RunOver(SubSeq(sortedTroves, 1, MinOf(n, Len(sortedTroves))), FALSE,
          InRecoveryMode(p), p)

(* liquidateTroves(n) visits the list from its end; in recovery mode it    *)
(* never reaches the first trove of the list.                              *)
LiquidateTrovesRun(n, p) ==
  LET recovery == InRecoveryMode(p)
      reach    == IF recovery /\ sortedTroves # <<>> THEN Tail(sortedTroves)
                  ELSE sortedTroves
      visited  == SubSeq(Reverse(reach), 1, MinOf(n, Len(reach)))
  IN  RunOver(visited, FALSE, recovery, p)

BatchRun(troveArray, p) == RunOver(troveArray, TRUE, InRecoveryMode(p), p)
------------------------------------------------------------------------------
(* After the loop: what moves between the pools. *)

(* StabilityPool.offset returns early when there is no debt to offset, and *)
(* _redistributeDebtAndColl when there is none to redistribute.            *)
CollToSP(t) == IF t.debtToOffset = 0 THEN 0 ELSE t.collToSendToSP

CollToRedistribute(t) ==
  IF t.debtToRedistribute = 0 THEN 0 ELSE t.collToRedistribute

ActivePoolAfter(run) ==
  LET t == run.totals
  IN  [ETH |-> activePool.ETH + run.movedETH - CollToSP(t)
                 - CollToRedistribute(t) - t.collSurplus - t.collGasCompensation,
       ARTHDebt |-> activePool.ARTHDebt + run.movedDebt
                      - t.debtToOffset - t.debtToRedistribute]

(* Seeded fault: the redistributed debt is not recorded. *)
DefaultPoolWithoutDebt(run) ==
  [ETH |-> defaultPool.ETH - run.movedETH + CollToRedistribute(run.totals),
   ARTHDebt |-> defaultPool.ARTHDebt - run.movedDebt]

DefaultPoolAfter(run) ==
  LET t == run.totals
  IN  [ETH |-> defaultPool.ETH - run.movedETH + CollToRedistribute(t),
       ARTHDebt |-> defaultPool.ARTHDebt - run.movedDebt + t.debtToRedistribute]

(* Seeded fault: what the pool has offset is redistributed as well. *)
NumeratorOfEntireDebt(run) ==
  LET t == run.totals
  IN  [ETH |-> t.collToRedistribute * DECIMAL_PRECISION + lastError.ETH,
       ARTHDebt |-> t.entireTroveDebt * DECIMAL_PRECISION + lastError.ARTHDebt]

(* _redistributeDebtAndColl: rewards per unit staked, with the error of    *)
(* the previous division fed back.                                         *)
Numerator(run) ==
  LET t == run.totals
  IN  [ETH |-> t.collToRedistribute * DECIMAL_PRECISION + lastError.ETH,
       ARTHDebt |-> t.debtToRedistribute * DECIMAL_PRECISION + lastError.ARTHDebt]

(* Seeded fault: L is overwritten instead of accumulated. *)
RedistributeAnew(run) ==
  LET stakes == totalStakes - run.stakes
      num    == Numerator(run)
  IN  IF run.totals.debtToRedistribute = 0 THEN UNCHANGED <<L, lastError>>
      ELSE /\ L' = [ETH |-> num.ETH \div stakes, ARTHDebt |-> num.ARTHDebt \div stakes]
           /\ lastError' = [ETH |-> num.ETH % stakes, ARTHDebt |-> num.ARTHDebt % stakes]

Redistribute(run) ==
  LET stakes == totalStakes - run.stakes
      num    == Numerator(run)
  IN  IF run.totals.debtToRedistribute = 0 THEN UNCHANGED <<L, lastError>>
      ELSE /\ L' = [ETH      |-> L.ETH + num.ETH \div stakes,
                    ARTHDebt |-> L.ARTHDebt + num.ARTHDebt \div stakes]
           /\ lastError' = [ETH      |-> num.ETH % stakes,
                            ARTHDebt |-> num.ARTHDebt % stakes]

(* The explicit requirements: something is liquidated, and every closing   *)
(* finds more than one trove in the system.                                *)
LiquidationRequirements(run) ==
  /\ run.totals.entireTroveDebt > 0
  /\ Len(run.closed) < Len(TroveOwners)

(* What SafeMath and the assertions check on the way: no unsigned          *)
(* subtraction is negative, no division is by zero.                        *)
LiquidationArithmetic(run) ==
  LET t == run.totals
  IN  /\ t \in LiquidationTotals
      /\ {run.movedETH, run.movedDebt, run.stakes} \subseteq Nat
      /\ \A b \in Borrowers : run.surplus[b] \in Nat
      /\ run.stakes <= totalStakes
      /\ t.debtToRedistribute > 0 => run.stakes < totalStakes
      /\ t.debtToOffset <= stabilityPool.totalARTHDeposits
      /\ t.debtToOffset <= arthBalance[SPAddress]
      /\ t.ARTHGasCompensation <= arthBalance[GasPool]
      /\ run.movedETH <= defaultPool.ETH
      /\ run.movedDebt <= defaultPool.ARTHDebt
      /\ ActivePoolAfter(run).ETH >= 0
      /\ ActivePoolAfter(run).ARTHDebt >= 0

ApplyLiquidation(run, liquidator) ==
  LET t      == run.totals
      closed == Closed(run)
      arr    == RemoveTroveOwners(run.closed)
  IN  /\ LiquidationRequirements(run)
      /\ LiquidationArithmetic(run)
      /\ Troves' = [b \in Borrowers |->
           IF b \in closed THEN ClosedTrove(b, "closedByLiquidation")
           ELSE Troves[b]]
      /\ rewardSnapshots' = [b \in Borrowers |->
           IF b \in closed THEN ZeroSnapshot ELSE rewardSnapshots[b]]
      /\ TroveOwners' = arr.owners /\ arrayIndex' = arr.index
      /\ sortedTroves' = Without(sortedTroves, closed)
      /\ totalStakes' = totalStakes - run.stakes
      /\ Redistribute(run)
      /\ activePool' = ActivePoolAfter(run)
      /\ defaultPool' = DefaultPoolAfter(run)
      /\ stabilityPool' = [ETH |-> stabilityPool.ETH + CollToSP(t),
                           totalARTHDeposits |->
                             stabilityPool.totalARTHDeposits - t.debtToOffset]
      /\ collSurplusPool' = [ETH |-> collSurplusPool.ETH + t.collSurplus,
                             balances |-> [b \in Borrowers |->
                               collSurplusPool.balances[b] + run.surplus[b]]]
      /\ systemSnapshots' =
           [stakes |-> totalStakes - run.stakes,
            coll   |-> ActivePoolAfter(run).ETH + DefaultPoolAfter(run).ETH]
      /\ arthBalance' = Plus(Minus(Minus(arthBalance, SPAddress, t.debtToOffset),
                                   GasPool, t.ARTHGasCompensation),
                             liquidator, t.ARTHGasCompensation)
      /\ totalSupply' = totalSupply - t.debtToOffset
      /\ UNCHANGED <<feeVars, envVars>>

------------------------------------------------------------------------------
(* The external calls. *)

LiquidateTroves(n, liquidator) ==
  ApplyLiquidation(LiquidateTrovesRun(n, price), liquidator)

BatchLiquidateTroves(troveArray, liquidator) ==
  /\ troveArray # <<>>
  /\ ApplyLiquidation(BatchRun(troveArray, price), liquidator)

Liquidate(b, liquidator) ==
  /\ IsActive(b)
  /\ BatchLiquidateTroves(<<b>>, liquidator)
==============================================================================
