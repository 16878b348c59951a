------------------------------ MODULE Redemption ------------------------------
(***************************************************************************)
(* TroveManager.redeemCollateral: ARTH is burned against the debt of the   *)
(* troves with the lowest ratio that is at least MCR, each giving          *)
(* collateral of the same face value.  A trove left without net debt is    *)
(* closed and its owner may claim the remaining collateral; only the last  *)
(* trove visited can be redeemed in part, and only if the caller's hint of *)
(* its new nominal ratio is up to date.                                    *)
(***************************************************************************)
EXTENDS TroveState

NoHint == NoFrontEnd    \* address(0)

(* The loop's state: struct RedemptionTotals and the effects so far. *)
NewRedemption(amount, maxIterations) ==
  [remaining |-> amount,
   iterations |-> IF maxIterations = 0 THEN MaxUint ELSE maxIterations,
   redeemed |-> 0, drawn |-> 0,           \* totalARTHToRedeem, totalETHDrawn
   closed |-> <<>>, surplus |-> [b \in Borrowers |-> 0],
   applied |-> {},                        \* whose rewards were applied
   partial |-> NoHint,                    \* the trove redeemed in part,
   debtLeft |-> 0, collLeft |-> 0,        \* and what it is left with
   movedETH |-> 0, movedDebt |-> 0, cancelled |-> FALSE]

(* Seeded fault: the hint's successor in the list is not looked at. *)
HintsAboveMCR(p) == { i \in DOMAIN sortedTroves : CurrentICR(sortedTroves[i], p) >= MCR }

(* _isValidFirstRedemptionHint, as the index of the hint in the list. *)
ValidFirstHints(p) ==
  { i \in DOMAIN sortedTroves :
      /\ CurrentICR(sortedTroves[i], p) >= MCR
      /\ i < Len(sortedTroves) => CurrentICR(sortedTroves[i + 1], p) < MCR }

(* Where the loop starts: at a valid hint, else at the first trove from    *)
(* the end of the list whose ratio is at least MCR (0: there is none).     *)
FirstRedeemed(hint, p) ==
  LET hinted == { i \in ValidFirstHints(p) : sortedTroves[i] = hint }
      above  == { i \in DOMAIN sortedTroves : CurrentICR(sortedTroves[i], p) >= MCR }
  IN  IF hinted # {} THEN CHOOSE i \in hinted : TRUE ELSE Max(above \cup {0})

LotOf(run, b) ==
  MinOf(run.remaining, NetDebt(ApplyPendingRewards(b).debt))

(* Seeded fault: the drawn collateral is rounded up. *)
ETHLotRoundedUp(lot, p) == (lot * DECIMAL_PRECISION) \div p + 1

(* Collateral of the face value of the redeemed ARTH. *)
ETHLot(lot, p) == (lot * DECIMAL_PRECISION) \div p

(* Seeded fault: the rest of the trove may be too small. *)
StaleHint(hintIsFresh, newDebt) == ~hintIsFresh

(* A partial redemption is refused if the caller's hint is out of date or  *)
(* the trove would fall below the minimum debt.                            *)
PartialIsRefused(hintIsFresh, newDebt) ==
  ~hintIsFresh \/ NetDebt(newDebt) < MIN_NET_DEBT

(* _redeemCollateralFromTrove, after _applyPendingRewards. *)
RedeemFromTrove(run, b, p, hintIsFresh) ==
  LET trove   == ApplyPendingRewards(b)
      lot     == LotOf(run, b)
      ethLot  == ETHLot(lot, p)
      newDebt == trove.debt - lot
      newColl == trove.coll - ethLot
      applied == [run EXCEPT !.applied = @ \cup {b},
                             !.iterations = @ - 1,
                             !.movedETH = @ + trove.movedETH,
                             !.movedDebt = @ + trove.movedDebt]
      taken   == [applied EXCEPT !.remaining = @ - lot,
                                 !.redeemed = @ + lot, !.drawn = @ + ethLot]
  IN  IF newDebt = ARTH_GAS_COMPENSATION
      THEN [taken EXCEPT !.closed = Append(@, b),
                         !.surplus[b] = @ + newColl]
      ELSE IF PartialIsRefused(hintIsFresh, newDebt)
      THEN [applied EXCEPT !.cancelled = TRUE]
      ELSE [taken EXCEPT !.partial = b, !.debtLeft = newDebt, !.collLeft = newColl]

RedemptionStep(run, b, p, hintIsFresh) ==
  IF run.cancelled \/ run.remaining = 0 \/ run.iterations = 0 THEN run
  ELSE RedeemFromTrove(run, b, p, hintIsFresh)

RedemptionRun(amount, hint, hintIsFresh, maxIterations, p) ==
  LET Step(run, b) == RedemptionStep(run, b, p, hintIsFresh)
      visited == Reverse(SubSeq(sortedTroves, 1, FirstRedeemed(hint, p)))
  IN  FoldLeft(Step, NewRedemption(amount, maxIterations), visited)

------------------------------------------------------------------------------
(* _updateBaseRateFromRedemption *)
BaseRateAfterRedemption(drawn, p) ==
  LET fraction == (drawn * p) \div EntireSystemDebt
  IN  MinOf(DecayedBaseRate + fraction \div BETA, DECIMAL_PRECISION)

RedemptionFee(drawn, p) ==
  (RedemptionRate(BaseRateAfterRedemption(drawn, p)) * drawn) \div DECIMAL_PRECISION

ClosedBy(run) == ToSet(run.closed)

(* The trove of b after the call. *)
TroveAfter(run, b) ==
  LET after == ApplyPendingRewards(b)
  IN  IF b \in ClosedBy(run) THEN ClosedTrove(b, "closedByRedemption")
      ELSE IF b = run.partial
      THEN [Troves[b] EXCEPT !.debt = run.debtLeft, !.coll = run.collLeft,
                             !.stake = NewStake(run.collLeft)]
      ELSE IF b \in run.applied
      THEN [Troves[b] EXCEPT !.debt = after.debt, !.coll = after.coll]
      ELSE Troves[b]

SnapshotAfter(run, b) ==
  IF b \in ClosedBy(run) THEN ZeroSnapshot
  ELSE IF b \in run.applied THEN ApplyPendingRewards(b).snapshot
  ELSE rewardSnapshots[b]

(* A partially redeemed trove is taken out and inserted where its new      *)
(* nominal ratio fits; reInsert refuses a ratio of zero.                   *)
ListsAfter(run) ==
  LET left   == Without(sortedTroves, ClosedBy(run))
      others == Without(left, {run.partial})
      nicr   == ComputeNominalCR(run.collLeft, run.debtLeft)
  IN  IF run.partial = NoHint THEN {left}
      ELSE { InsertAt(others, i + 1, run.partial) :
               i \in {j \in ValidPositions(others, nicr) : nicr > 0} }

StakesAfter(run) ==
  totalStakes + SumFunction([b \in Borrowers |-> TroveAfter(run, b).stake - Troves[b].stake])

(* The reserves burnt and the surplus moved by the calls of                *)
(* _redeemCloseTrove.                                                      *)
ReserveOf(run) == Len(run.closed) * ARTH_GAS_COMPENSATION
SurplusOf(run) == SumFunction(run.surplus)

(* What SafeMath and the assertions check on the way. *)
RedemptionArithmetic(run) ==
  /\ {run.redeemed, run.drawn, run.movedETH, run.movedDebt,
      run.debtLeft, run.collLeft, ReserveOf(run), SurplusOf(run)} \subseteq Nat
  /\ \A b \in Borrowers : run.surplus[b] \in Nat
  /\ run.partial # NoHint => StakeIsDefined
  /\ StakesAfter(run) \in Nat
  /\ ReserveOf(run) <= arthBalance[GasPool]
  /\ run.movedETH <= defaultPool.ETH
  /\ run.movedDebt <= defaultPool.ARTHDebt
  /\ SurplusOf(run) + run.drawn <= activePool.ETH + run.movedETH
  /\ run.redeemed + ReserveOf(run) <= activePool.ARTHDebt + run.movedDebt

RedeemCollateral(redeemer, amount, hint, hintIsFresh, maxIterations, maxFee) ==
  LET run     == RedemptionRun(amount, hint, hintIsFresh, maxIterations, price)
      fee     == RedemptionFee(run.drawn, price)
      arr     == RemoveTroveOwners(run.closed)
      reserve == ReserveOf(run)
      surplus == SurplusOf(run)
  IN  /\ REDEMPTION_FEE_FLOOR <= maxFee /\ maxFee <= DECIMAL_PRECISION
      /\ now >= BOOTSTRAP_PERIOD
      /\ TCR(price) >= MCR
      /\ amount > 0
      /\ arthBalance[redeemer] >= amount
      /\ arthBalance[redeemer] <= EntireSystemDebt
      /\ Len(run.closed) < Len(TroveOwners)     \* at every _closeTrove
      /\ run.drawn > 0
      /\ BaseRateAfterRedemption(run.drawn, price) \in 1..DECIMAL_PRECISION
      /\ fee < run.drawn
      /\ UserAcceptsFee(fee, run.drawn, maxFee)
      /\ RedemptionArithmetic(run)
      /\ Troves' = [b \in Borrowers |-> TroveAfter(run, b)]
      /\ rewardSnapshots' = [b \in Borrowers |-> SnapshotAfter(run, b)]
      /\ TroveOwners' = arr.owners /\ arrayIndex' = arr.index
      /\ sortedTroves' \in ListsAfter(run)
      /\ totalStakes' = StakesAfter(run)
      /\ activePool' = [ETH |-> activePool.ETH + run.movedETH - surplus - run.drawn,
                        ARTHDebt |-> activePool.ARTHDebt + run.movedDebt
                                       - reserve - run.redeemed]
      /\ defaultPool' = [ETH |-> defaultPool.ETH - run.movedETH,
                         ARTHDebt |-> defaultPool.ARTHDebt - run.movedDebt]
      /\ collSurplusPool' = [ETH |-> collSurplusPool.ETH + surplus,
                             balances |-> [b \in Borrowers |->
                               collSurplusPool.balances[b] + run.surplus[b]]]
      /\ arthBalance' = Minus(Minus(arthBalance, redeemer, run.redeemed),
                              GasPool, reserve)
      /\ totalSupply' = totalSupply - run.redeemed - reserve
      /\ baseRate' = BaseRateAfterRedemption(run.drawn, price)
      /\ lastFeeOperationTime' = NextFeeOpTime
      /\ UNCHANGED <<rewardVars, stabilityPool, envVars>>
==============================================================================
