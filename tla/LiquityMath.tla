----------------------------- MODULE LiquityMath -----------------------------
(***************************************************************************)
(* Fixed-point arithmetic of the protocol: Dependencies/LiquityMath.sol    *)
(* and the fee and ratio helpers of Dependencies/LiquityBase.sol.          *)
(*                                                                         *)
(* The contracts compute with 18-digit decimals in uint256.  Every         *)
(* precision is a CONSTANT here, so that TLC runs the same formulas with   *)
(* two or three digits; Solidity's division is the floor division \div.    *)
(***************************************************************************)
EXTENDS Integers

CONSTANTS
  DECIMAL_PRECISION,   (* one, in fixed point (1e18 in the code)           *)
  NICR_PRECISION,      (* precision of the nominal ratio (1e20)            *)
  MaxUint,             (* 2**256 - 1: the ratio of a trove without debt    *)
  MAX_MINUTES          (* cap of the exponent of _decPow (525600000)       *)

ASSUME PrecisionAssumption ==
  /\ DECIMAL_PRECISION \in Nat \ {0}
  /\ NICR_PRECISION \in Nat \ {0}
  /\ MaxUint \in Nat
  /\ MAX_MINUTES \in Nat

MinOf(a, b) == IF a < b THEN a ELSE b

MaxOf(a, b) == IF a >= b THEN a ELSE b

AbsoluteDifference(a, b) == IF a >= b THEN a - b ELSE b - a

(* Seeded fault: the product is rounded down. *)
DecMulDown(x, y) == (x * y) \div DECIMAL_PRECISION

(* Product of two decimals, rounded half up. *)
DecMul(x, y) == (x * y + DECIMAL_PRECISION \div 2) \div DECIMAL_PRECISION

(* The loop of _decPow: exponentiation by squaring of x, n times, with the *)
(* accumulator y.                                                          *)
Squaring[n \in Nat] ==
  [x \in Nat |-> [y \in Nat |->
     IF n <= 1 THEN DecMul(x, y)
     ELSE IF n % 2 = 0 THEN Squaring[n \div 2][DecMul(x, x)][y]
     ELSE Squaring[(n - 1) \div 2][DecMul(x, x)][DecMul(x, y)]]]

DecPow(base, minutes) ==
  LET n == MinOf(minutes, MAX_MINUTES)
  IN  IF n = 0 THEN DECIMAL_PRECISION
      ELSE Squaring[n][base][DECIMAL_PRECISION]

ComputeNominalCR(coll, debt) ==
  IF debt > 0 THEN (coll * NICR_PRECISION) \div debt ELSE MaxUint

ComputeCR(coll, debt, p) ==
  IF debt > 0 THEN (coll * p) \div debt ELSE MaxUint
==============================================================================
