\* Three liquidations that each leave the pool next to nothing.
CONSTANTS
  d1 = d1
  Depositors = {d1}
  FrontEnds = {}
  NoFrontEnd = zero
  DECIMAL_PRECISION = 100
  SCALE_FACTOR = 10
  NICR_PRECISION = 100
  MaxUint = 100000000
  MAX_MINUTES = 10
  RewardsDuration = 2
  Rewards = {}
  Transfers = {}
  MaxTime = 0
  MaxMAHA = 120
  KickbackRates = {30}
  Amounts = {1000}
  Troves <- LargeTroves
  Supply = 3000
  MaxScale = 2
  MaxEpoch = 1
  MaxSum = 1000000
SPECIFICATION Spec
CHECK_DEADLOCK FALSE
INVARIANT ProductStaysPositive
