----------------------------- MODULE MCARTHSystem -----------------------------
(* Values for TLC: three decimals of precision, so that 1000 is one; debts  *)
(* and collaterals of a few units.                                          *)
EXTENDS ARTHProperties

CONSTANTS b1, b2, b3

(* Every batch of at most two troves, duplicates included. *)
MCTroveArrays == {<<x, y>> : x, y \in Borrowers}

MCSymmetry == Permutations(Borrowers)
==============================================================================
