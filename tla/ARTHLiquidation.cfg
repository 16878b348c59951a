\* Liquidations: three troves, a price that falls and recovers, a Stability
\* Pool that covers none, some or all of a debt.
CONSTANTS
  b1 = b1
  b2 = b2
  b3 = b3
  Borrowers = {b1, b2, b3}
  Slices = {"liquidating"}
  Owner = owner
  Fund = fund
  GasPool = gasPool
  SPAddress = stabilityPool
  NoFrontEnd = zero
  DECIMAL_PRECISION = 1000
  NICR_PRECISION = 1000
  MaxUint = 100000000
  MAX_MINUTES = 100
  MCR = 1100
  CCR = 1500
  PERCENT_DIVISOR = 10
  ARTH_GAS_COMPENSATION = 10
  MIN_NET_DEBT = 40
  BETA = 2
  MINUTE_DECAY_FACTOR = 900
  SECONDS_IN_ONE_MINUTE = 60
  BOOTSTRAP_PERIOD = 60
  BORROWING_FEE_FLOOR = 5
  MAX_BORROWING_FEE = 50
  REDEMPTION_FEE_FLOOR = 5
  Prices = {1000, 550}
  TimeSteps = {}
  Collaterals = {150, 230, 400}
  OpenAmounts = {90}
  OpensItself = {b1, b2, b3}
  OwnerOpensFor = {}
  CollChanges = {}
  DebtChanges = {}
  MaxFees = {1000}
  Closers = {}
  FrontEndAddresses = {}
  SequenceLengths = {1, 3}
  TroveArrays <- MCTroveArrays
  SingleLiquidations = {}
  Liquidators = {fund}
  Redeemers = {owner}
  RedeemAmounts = {}
  RedeemHints = {zero}
  RedeemIterations = {0}
  DepositAmounts = {90}
  Shares = {100}
  TransferAmounts = {}
  MintSwitches = {}
  Ceilings = {}
  InitialCeiling = 1000
  MaxOpenings = 4
  MaxSystemColl = 800
  MaxSystemDebt = 1000
  RoundingSlack = 2
  MaxTime = 0
SYMMETRY MCSymmetry
SPECIFICATION MCSpec
CHECK_DEADLOCK FALSE
INVARIANTS
  LedgerInv
  PoolsReconcile
  BooksAgree
  LiquidationNeverBlocked
  UnsafeTroveCanBeLiquidated
PROPERTIES
  SafeTrovesAreNotLiquidated
  RedistributionConserves
