--------------------------- MODULE MCSortedTroves ---------------------------
(* Values for TLC: one address more than the list may hold.                *)
EXTENDS SortedTroves

CONSTANTS id1, id2, id3, id4, id5

MCSymmetry == Permutations(Ids)
==============================================================================
