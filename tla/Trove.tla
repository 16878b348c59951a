--------------------------------- MODULE Trove ---------------------------------
(***************************************************************************)
(* lib-base's Decimal, Trove and Fees: what the SDK predicts a transaction *)
(* will do, and the parameters it computes for a wanted result.            *)
(*                                                                         *)
(* A parameter that is undefined in the code is 0 here: `apply` takes      *)
(* either for no change.                                                   *)
(***************************************************************************)
EXTENDS LiquityMath

CONSTANTS
  ARTH_LIQUIDATION_RESERVE,
  MinBorrowingRate     (* BorrowingRate.minBorrowingRate: the floor that   *)
                       (* Governance sets, read through Trove.governance   *)

-------------------------------------------------------------------------------
(* Decimal. *)

Mul(x, y) == (x * y) \div DECIMAL_PRECISION

(* Seeded fault: the quotient is rounded down. *)
DivDown(x, y) == (x * DECIMAL_PRECISION) \div y

DivCeil(x, y) == (x * DECIMAL_PRECISION + y - 1) \div y

(* The loop of pow, with the factor x and the result y so far.             *)
PowLoop[exponent \in Nat] ==
  [x \in Nat |-> [y \in Nat |->
     IF exponent <= 1 THEN DecMul(x, y)
     ELSE PowLoop[exponent \div 2][DecMul(x, x)]
                 [IF exponent % 2 = 1 THEN DecMul(x, y) ELSE y]]]

Pow(x, exponent) ==
  IF exponent = 0 THEN DECIMAL_PRECISION
  ELSE IF exponent = 1 THEN x
  ELSE PowLoop[exponent][x][DECIMAL_PRECISION]

(* Fees.baseRate: a clock that is behind counts as no time passed.         *)
BaseRate(baseRateWithoutDecay, minuteDecayFactor, seconds) ==
  Mul(Pow(minuteDecayFactor, MaxOf(seconds, 0) \div 60), baseRateWithoutDecay)

-------------------------------------------------------------------------------
(* Troves and changes. *)

emptyTrove == [collateral |-> 0, debt |-> 0]

(* Seeded fault: the fee is rounded up. *)
applyFeeRoundedUp(borrowingRate, debtIncrease) ==
  debtIncrease + DivCeil(debtIncrease * borrowingRate, DECIMAL_PRECISION * DECIMAL_PRECISION)

applyFee(borrowingRate, debtIncrease) ==
  Mul(debtIncrease, DECIMAL_PRECISION + borrowingRate)

unapplyFee(borrowingRate, debtIncrease) ==
  DivCeil(debtIncrease, DECIMAL_PRECISION + borrowingRate)

(* sub of Decimals, where the code guards it.                              *)
Less(x, y) == IF x > y THEN x - y ELSE 0

DebtChange(trove, that, borrowingRate) ==
  [borrowARTH |-> unapplyFee(borrowingRate, Less(that.debt, trove.debt)),
   repayARTH  |-> Less(trove.debt, that.debt)]

CollateralChange(trove, that) ==
  [depositCollateral  |-> Less(that.collateral, trove.collateral),
   withdrawCollateral |-> Less(trove.collateral, that.collateral)]

(* What an adjustment sets to zero, whatever the trove it is applied to.   *)
SetToZero(trove, that) ==
  IF trove.debt # that.debt /\ that.debt = 0 THEN "debt"
  ELSE IF trove.collateral # that.collateral /\ that.collateral = 0 THEN "collateral"
  ELSE "none"

(* The change, at the rate that is used.                                   *)
ChangeAt(trove, that, borrowingRate) ==
  CASE trove = that -> [type |-> "none"]
    [] trove # that /\ trove = emptyTrove ->
         IF that.debt < ARTH_LIQUIDATION_RESERVE
         THEN [type |-> "invalidCreation", invalidTrove |-> that]
         ELSE [type |-> "creation", depositCollateral |-> that.collateral,
               borrowARTH |-> unapplyFee(borrowingRate, that.debt - ARTH_LIQUIDATION_RESERVE)]
    [] trove # that /\ that = emptyTrove ->
         IF trove.debt < ARTH_LIQUIDATION_RESERVE THEN [type |-> "throws"]
         ELSE [type |-> "closure", withdrawCollateral |-> trove.collateral,
               repayARTH |-> trove.debt - ARTH_LIQUIDATION_RESERVE]
    [] OTHER ->
         [type |-> "adjustment", setToZero |-> SetToZero(trove, that),
          debtChange |-> DebtChange(trove, that, borrowingRate),
          collateralChange |-> CollateralChange(trove, that)]

(* _normalizeTroveAdjustment and adjust come down to this with the given   *)
(* changes, and create to the creation.  Nothing is created onto a trove,  *)
(* and no empty trove is closed.                                           *)
ApplyAt(trove, change, borrowingRate) ==
  CASE change.type = "none" -> trove
    [] change.type \in {"invalidCreation", "creation"} /\ trove # emptyTrove ->
         [type |-> "throws"]
    [] change.type = "closure" /\ trove = emptyTrove -> [type |-> "throws"]
    [] change.type = "invalidCreation" /\ trove = emptyTrove -> change.invalidTrove
    [] change.type = "creation" /\ trove = emptyTrove ->
         [collateral |-> change.depositCollateral,
          debt |-> ARTH_LIQUIDATION_RESERVE + applyFee(borrowingRate, change.borrowARTH)]
    [] change.type = "closure" /\ trove # emptyTrove -> emptyTrove
    [] change.type = "adjustment" ->
         LET increasedDebt == trove.debt + applyFee(borrowingRate, change.debtChange.borrowARTH)
             increasedCollateral == trove.collateral + change.collateralChange.depositCollateral
         IN  [collateral |-> IF change.setToZero = "collateral" THEN 0
                             ELSE Less(increasedCollateral,
                                       change.collateralChange.withdrawCollateral),
              debt |-> IF change.setToZero = "debt" THEN 0
                       ELSE Less(increasedDebt, change.debtChange.repayARTH)]

(* What a caller gives as borrowingRate.  The number 0 is falsy, like no   *)
(* rate at all, and both are replaced by the floor; a Decimal or a string  *)
(* is not, whatever its value.                                             *)
RateUsed(given) ==
  IF given.isNumber /\ given.rate = 0 THEN MinBorrowingRate ELSE given.rate

WhatChanged(trove, that, given) == ChangeAt(trove, that, RateUsed(given))

Apply(trove, change, given) == ApplyAt(trove, change, RateUsed(given))

-------------------------------------------------------------------------------
(* What the contracts make of the same parameters. *)

BorrowingFee(borrowingRate, ARTHDebt) == (borrowingRate * ARTHDebt) \div DECIMAL_PRECISION

CompositeDebt(ARTHAmount, borrowingRate) ==
  ARTHAmount + BorrowingFee(borrowingRate, ARTHAmount) + ARTH_LIQUIDATION_RESERVE

DebtAfterAdjustment(debt, debtChange, borrowingRate) ==
  IF debtChange.borrowARTH > 0
  THEN debt + debtChange.borrowARTH + BorrowingFee(borrowingRate, debtChange.borrowARTH)
  ELSE debt - debtChange.repayARTH

DecayedBaseRate(baseRate, minuteDecayFactor, seconds) ==
  (baseRate * DecPow(minuteDecayFactor, seconds \div 60)) \div DECIMAL_PRECISION
===============================================================================
