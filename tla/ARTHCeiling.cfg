\* The debt ceiling, when a redistribution has moved debt to the Default Pool.
CONSTANTS
  b1 = b1
  b2 = b2
  b3 = b3
  Borrowers = {b1, b2, b3}
  Owner = owner
  Fund = fund
  GasPool = gasPool
  SPAddress = stabilityPool
  NoFrontEnd = zero
  DECIMAL_PRECISION = 1000
  NICR_PRECISION = 1000
  MaxUint = 100000000
  MAX_MINUTES = 100
  MCR = 1100
  CCR = 1500
  PERCENT_DIVISOR = 10
  ARTH_GAS_COMPENSATION = 10
  MIN_NET_DEBT = 40
  BETA = 2
  MINUTE_DECAY_FACTOR = 900
  SECONDS_IN_ONE_MINUTE = 60
  BOOTSTRAP_PERIOD = 60
  BORROWING_FEE_FLOOR = 0
  MAX_BORROWING_FEE = 50
  REDEMPTION_FEE_FLOOR = 5
  Prices = {1000, 600}
  TimeSteps = {}
  Collaterals = {170, 400}
  OpenAmounts = {90}
  OpensItself = {b1, b2, b3}
  OwnerOpensFor = {}
  CollChanges = {}
  DebtChanges = {}
  MaxFees = {1000}
  Closers = {}
  FrontEndAddresses = {}
  SequenceLengths = {1}
  TroveArrays = {}
  SingleLiquidations = {}
  Liquidators = {fund}
  Redeemers = {owner}
  RedeemAmounts = {}
  RedeemHints = {zero}
  RedeemIterations = {0}
  DepositAmounts = {}
  Shares = {100}
  TransferAmounts = {}
  MintSwitches = {}
  Ceilings = {}
  InitialCeiling = 200
  MaxOpenings = 3
  MaxSystemColl = 1200
  MaxSystemDebt = 360
  RoundingSlack = 2
  MaxTime = 0
SYMMETRY MCSymmetry
SPECIFICATION Spec
CHECK_DEADLOCK FALSE
INVARIANT DebtWithinCeiling
