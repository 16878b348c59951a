------------------------------ MODULE MCArithmetic ------------------------------
(***************************************************************************)
(* Arithmetic by exhaustion: every decay factor of two digits, minute      *)
(* after minute; and the user of the SDK who wants one trove after the     *)
(* other, lets it compute the changes, and applies them at rates that      *)
(* differ each time.                                                       *)
(***************************************************************************)
EXTENDS Trove

CONSTANTS
  MaxMinutes,     (* bound of the clock; beyond MAX_MINUTES                *)
  ExactMinutes,   (* bound up to which the exact power fits TLC's integers *)
  Collaterals, Debts,   (* of the troves that are wanted                   *)
  BorrowingRates

ASSUME ArithmeticAssumption ==
  /\ MaxMinutes \in Nat /\ ExactMinutes \in 0..MAX_MINUTES
  /\ Collaterals \subseteq Nat /\ Debts \subseteq Nat
  /\ ARTH_LIQUIDATION_RESERVE \in Nat
  /\ BorrowingRates \subseteq 0..DECIMAL_PRECISION
  /\ MinBorrowingRate \in 0..DECIMAL_PRECISION

VARIABLES
  factor, minutes,      (* the decay                                       *)
  trove,                (* what the SDK says the user has                  *)
  wanted,               (* what the user last wanted                       *)
  given                 (* the borrowing rate the user last gave           *)

decayVars == <<factor, minutes>>
troveVars == <<trove, wanted, given>>

WantedTroves == [collateral : Collaterals, debt : Debts]
GivenRates == [rate : BorrowingRates, isNumber : BOOLEAN]

Untouched ==
  /\ trove = emptyTrove /\ wanted = emptyTrove
  /\ given = [rate |-> 0, isNumber |-> FALSE]

ArithmeticInit ==
  /\ factor \in 0..DECIMAL_PRECISION /\ minutes = 0
  /\ Untouched

(* The two are independent, and explored one at a time.                    *)
MinutePasses ==
  /\ minutes < MaxMinutes /\ Untouched
  /\ minutes' = minutes + 1
  /\ UNCHANGED <<factor, troveVars>>

(* whatChanged, and what apply makes of it.                                *)
ChangeTo(that) ==
  /\ minutes = 0 /\ factor = 0
  /\ given' \in GivenRates
  /\ WhatChanged(trove, that, given').type # "throws"
  /\ trove' = Apply(trove, WhatChanged(trove, that, given'), given')
  /\ wanted' = that
  /\ UNCHANGED decayVars

ArithmeticNext == MinutePasses \/ \E that \in WantedTroves : ChangeTo(that)

ArithmeticSpec == ArithmeticInit /\ [][ArithmeticNext]_<<decayVars, troveVars>>

-------------------------------------------------------------------------------
(* Properties. *)

(* The longer a rate decays, the smaller it gets: no rounding of squares   *)
(* ever makes the factor of a later minute larger, and at the cap of the   *)
(* exponent it stays.                                                      *)
DecayNeverReverses ==
  DecPow(factor, minutes + 1) <= DecPow(factor, minutes)

(* The powers of the naturals.                                             *)
ExactPower[n \in Nat] ==
  [x \in Nat |-> IF n = 0 THEN 1 ELSE x * ExactPower[n - 1][x]]

(* _decPow by squaring computes the power: each of the n - 1 products of   *)
(* the definition costs at most half a unit of the last digit, however the *)
(* squarings arrange them, and the result is a decimal up to one that      *)
(* later minutes never make larger.                                        *)
DecPowNearExact ==
  /\ DecayNeverReverses
  /\ DecPow(factor, minutes) \in 0..DECIMAL_PRECISION
  /\ minutes \in 1..ExactMinutes =>
       LET scale == ExactPower[minutes - 1][DECIMAL_PRECISION]
       IN  2 * AbsoluteDifference(DecPow(factor, minutes) * scale, ExactPower[minutes][factor])
             <= (minutes - 1) * scale

(* A change computed from one state of a trove may be applied to a newer   *)
(* one: what it was to set to zero becomes zero all the same.              *)
ZeroingsArePreserved ==
  trove.collateral > 0 /\ trove.debt > 0 =>
    \A newer, that \in WantedTroves :
      LET after == Apply(newer, WhatChanged(trove, that, given), given)
      IN  /\ that.debt = 0 /\ that.collateral > 0 => after.debt = 0
          /\ that.collateral = 0 /\ that.debt > 0 => after.collateral = 0

(* The change the SDK computes for a wanted trove leads to it: to its      *)
(* collateral exactly, and to its debt or one unit more where the fee had  *)
(* to be rounded - so that a trove with the minimum debt can be opened at  *)
(* any rate - and not even a sequence of changes drifts; and a zero that   *)
(* was wanted is reached from every other trove as well.                   *)
ChangesReachTheirGoal ==
  /\ ZeroingsArePreserved
  /\ trove.collateral = wanted.collateral
  /\ trove.debt - wanted.debt \in {0, 1}

(* The SDK and the contracts compute the same from the same parameters, in *)
(* their different ways: the decay of the base rate up to the contract's   *)
(* cap, and the debts after openings and adjustments, at the rate the SDK  *)
(* uses.                                                                   *)
SDKAgreesWithContracts ==
  /\ minutes <= MAX_MINUTES =>
       \A baseRate \in BorrowingRates, second \in {0, 59} :
         BaseRate(baseRate, factor, 60 * minutes + second)
           = DecayedBaseRate(baseRate, factor, 60 * minutes + second)
  /\ \A that \in WantedTroves :
       LET change == WhatChanged(trove, that, given)
           after == Apply(trove, change, given)
           rate == RateUsed(given)
       IN  /\ change.type = "creation" => after.debt = CompositeDebt(change.borrowARTH, rate)
           /\ change.type = "adjustment" =>
                after.debt = DebtAfterAdjustment(trove.debt, change.debtChange, rate)
===============================================================================
