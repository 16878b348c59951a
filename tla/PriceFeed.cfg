\* Every sequence of good, bad, frozen and jumping answers of both oracles, and
\* the return to normal operation as long as somebody asks for the price.
CONSTANTS
  DECIMAL_PRECISION = 1000
  NICR_PRECISION = 1000
  MaxUint = 100000000
  MAX_MINUTES = 100
  TARGET_DIGITS = 3
  TELLOR_DIGITS = 1
  TIMEOUT = 2
  MAX_PRICE_DEVIATION_FROM_PREVIOUS_ROUND = 500
  MAX_PRICE_DIFFERENCE_BETWEEN_ORACLES = 50
  StartTime = 1
  MaxTime = 6
  ChainlinkResponses <- MCChainlinkResponses
  PrevResponses <- MCPrevResponses
  TellorResponses <- MCTellorResponses
SPECIFICATION LivePriceFeedSpec
INVARIANTS
  PriceFeedTypeOK
PROPERTIES
  NewPricesAreLive
  TrustNeedsAgreement
  JumpsAreConfirmed
  AgreementRestoresChainlink
