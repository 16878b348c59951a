\* Two depositors, one front end, liquidations of a small and a large trove,
\* rewards announced and funded in any order.
CONSTANTS
  d1 = d1
  d2 = d2
  Depositors = {d1, d2}
  FrontEnds = {f1}
  f1 = f1
  NoFrontEnd = zero
  DECIMAL_PRECISION = 100
  SCALE_FACTOR = 10
  NICR_PRECISION = 100
  MaxUint = 100000000
  MAX_MINUTES = 10
  RewardsDuration = 2
  Rewards = {60}
  Transfers = {40, 60}
  MaxTime = 4
  MaxMAHA = 180
  KickbackRates = {30}
  Amounts = {500}
  Troves <- MCTroves
  Supply = 1000
  MaxScale = 1
  MaxEpoch = 1
  MaxSum = 100000
SYMMETRY MCSymmetry
SPECIFICATION MCSpec
CHECK_DEADLOCK FALSE
INVARIANTS
  PoolInv
  DepositsNearlyCovered
  ETHGainsNearlyCovered
  MAHAGainsAreCovered
