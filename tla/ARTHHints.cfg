\* Redemption hints with a cap on the troves to look at.
CONSTANTS
  b1 = b1
  b2 = b2
  b3 = b3
  Borrowers = {b1, b2, b3}
  Slices = {"redeeming"}
  Owner = owner
  Fund = fund
  GasPool = gasPool
  SPAddress = stabilityPool
  NoFrontEnd = zero
  DECIMAL_PRECISION = 1000
  NICR_PRECISION = 1000
  MaxUint = 100000000
  MAX_MINUTES = 100
  MCR = 1100
  CCR = 1500
  PERCENT_DIVISOR = 10
  ARTH_GAS_COMPENSATION = 10
  MIN_NET_DEBT = 40
  BETA = 2
  MINUTE_DECAY_FACTOR = 900
  SECONDS_IN_ONE_MINUTE = 60
  BOOTSTRAP_PERIOD = 60
  BORROWING_FEE_FLOOR = 11
  MAX_BORROWING_FEE = 200
  REDEMPTION_FEE_FLOOR = 5
  Prices = {1000, 600}
  TimeSteps = {20, 30, 60}
  Collaterals = {170, 300, 340}
  OpenAmounts = {90, 190}
  OpensItself = {b1, b2, b3}
  OwnerOpensFor = {b1, b2, b3}
  CollChanges = {130}
  DebtChanges = {60}
  MaxFees = {500}
  Closers = {b1, b2, b3}
  FrontEndAddresses = {b1, b2, b3}
  SequenceLengths = {1}
  TroveArrays = {}
  SingleLiquidations = {}
  Liquidators = {fund}
  Redeemers = {owner}
  RedeemAmounts = {90, 150}
  RedeemHints = {zero, b1, b2, b3}
  RedeemIterations = {0, 1}
  DepositAmounts = {95, 190}
  Shares = {100}
  TransferAmounts = {190}
  MintSwitches = {TRUE, FALSE}
  Ceilings = {250}
  InitialCeiling = 1000
  MaxOpenings = 4
  MaxSystemColl = 900
  MaxSystemDebt = 700
  RoundingSlack = 2
  MaxTime = 150
SYMMETRY MCSymmetry
SPECIFICATION MCSpec
CHECK_DEADLOCK FALSE
INVARIANT HintsAreReturned
