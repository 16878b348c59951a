\* The store: two blocks, a restart, and any overlap of three derivations.  The
\* arithmetic: two digits; every factor and minute of the decay, and troves on
\* both sides of the liquidation reserve.
CONSTANTS
  MaxBlock = 2
  MaxStarts = 2
  MaxPending = 3
  DECIMAL_PRECISION = 100
  NICR_PRECISION = 100
  MaxUint = 100000000
  MAX_MINUTES = 40
  ARTH_LIQUIDATION_RESERVE = 5
  MinBorrowingRate = 5
  MaxMinutes = 45
  ExactMinutes = 4
  Collaterals = {0, 1, 3}
  Debts = {0, 1, 5, 6, 7, 12, 30, 31, 47}
  BorrowingRates = {0, 1, 5, 37}
SPECIFICATION MCSpec
CHECK_DEADLOCK FALSE
INVARIANTS
  StoreInv
  ConsistentWithoutOverlap
  DecPowNearExact
  ChangesReachTheirGoal
  SDKAgreesWithContracts
PROPERTIES
  DerivedCatchesUp
