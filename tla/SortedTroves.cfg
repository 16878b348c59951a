\* Every sequence of insertions, removals and moves with every hint, while the
\* ratios of the troves in the list change arbitrarily.
CONSTANTS
  id1 = id1
  id2 = id2
  id3 = id3
  id4 = id4
  id5 = id5
  Ids = {id1, id2, id3, id4, id5}
  Null = zero
  Ratios = {0, 1, 2, 3}
  MaxUint = 9
  MaxSize = 4
SYMMETRY MCSymmetry
SPECIFICATION SortedTrovesSpec

INVARIANTS
  WellFormed
  SearchAlwaysLands
PROPERTIES
  ListSpec
