-------------------------- MODULE PriceFeed_proofs --------------------------
(***************************************************************************)
(* Theorems on the price feed, for every set of answers the two oracles    *)
(* may give and every tolerance.                                           *)
(***************************************************************************)
EXTENDS PriceFeed, TLAPS

(* A floor quotient within a bound bounds what it divides.                 *)
LEMMA QuotientWithin ==
  \A x \in Nat, y \in Nat \ {0}, q \in Nat : x \div y <= q => x < (q + 1) * y
<1> SUFFICES ASSUME NEW x \in Nat, NEW y \in Nat \ {0}, NEW q \in Nat, x \div y <= q
             PROVE  x < (q + 1) * y
  OBVIOUS
<1>1. x < (x \div y) * y + y
  OBVIOUS
<1>2. (x \div y) * y <= q * y
  OBVIOUS
<1> QED
  BY <1>1, <1>2

(* What is not broken has a positive price and a time that has come.       *)
LEMMA UnbrokenChainlink ==
  ASSUME PriceFeedTypeOK, ~ChainlinkIsBroken
  PROVE  /\ ChainlinkPrice \in Nat \ {0} /\ PrevPrice \in Nat \ {0}
         /\ chainlink.success /\ prevChainlink.success
         /\ chainlink.timestamp \in Nat \ {0} /\ chainlink.timestamp <= time
<1>1. /\ chainlink.answer > 0 /\ prevChainlink.answer > 0
      /\ chainlink.success /\ prevChainlink.success
      /\ chainlink.timestamp \in Nat \ {0} /\ chainlink.timestamp <= time
  BY PriceFeedAssumption
  DEF PriceFeedTypeOK, ChainlinkIsBroken, BadChainlinkResponse, BadTimestamp
<1>2. chainlink \in ChainlinkResponses /\ prevChainlink \in PrevResponses
  BY DEF PriceFeedTypeOK
<1> QED
  BY <1>1, <1>2, PositivePriceAssumption DEF ChainlinkPrice, PrevPrice

(* A Tellor response that is not broken has a price and a past timestamp.  *)
LEMMA UnbrokenTellor ==
  ASSUME PriceFeedTypeOK, ~TellorIsBroken
  PROVE  /\ TellorPrice \in Nat \ {0} /\ tellor.success
         /\ tellor.timestamp \in Nat \ {0} /\ tellor.timestamp <= time
<1>1. /\ tellor.value > 0 /\ tellor.success
      /\ tellor.timestamp \in Nat \ {0} /\ tellor.timestamp <= time
  BY PriceFeedAssumption DEF PriceFeedTypeOK, TellorIsBroken, BadTimestamp
<1>2. tellor \in TellorResponses
  BY DEF PriceFeedTypeOK
<1> QED
  BY <1>1, <1>2, PositivePriceAssumption DEF TellorPrice

(* What is neither broken nor frozen is good in the reader's terms.        *)
LEMMA LiveOraclesAreGood ==
  ASSUME PriceFeedTypeOK
  PROVE  /\ ~ChainlinkIsBroken /\ ~ChainlinkIsFrozen => ChainlinkIsGood
         /\ ~TellorIsBroken /\ ~TellorIsFrozen => TellorIsGood
<1>1. time \in Nat /\ TIMEOUT \in Nat
  BY PriceFeedAssumption DEF PriceFeedTypeOK
<1>2. ASSUME ~ChainlinkIsBroken, ~ChainlinkIsFrozen PROVE ChainlinkIsGood
  BY <1>1, <1>2, UnbrokenChainlink DEF ChainlinkIsGood, ChainlinkIsFrozen, Current
<1>3. ASSUME ~TellorIsBroken, ~TellorIsFrozen PROVE TellorIsGood
  BY <1>1, <1>3, UnbrokenTellor DEF TellorIsGood, TellorIsFrozen, Current
<1> QED
  BY <1>2, <1>3

(* The comparison of the oracles, without its division.                    *)
LEMMA SimilarPricesAgree ==
  ASSUME PriceFeedTypeOK, ~ChainlinkIsBroken, ~TellorIsBroken, BothOraclesSimilarPrice
  PROVE  PricesAgree
<1> DEFINE low  == MinOf(ChainlinkPrice, TellorPrice)
           high == MaxOf(ChainlinkPrice, TellorPrice)
           max  == MAX_PRICE_DIFFERENCE_BETWEEN_ORACLES
<1>1. ChainlinkPrice \in Nat \ {0} /\ TellorPrice \in Nat \ {0}
  BY UnbrokenChainlink, UnbrokenTellor
<1>2. /\ low \in Nat \ {0} /\ high - low \in Nat
      /\ AbsoluteDifference(ChainlinkPrice, TellorPrice) = high - low
  BY <1>1 DEF MinOf, MaxOf, AbsoluteDifference
<1>3. ((high - low) * DECIMAL_PRECISION) \div low <= max
  BY DEF BothOraclesSimilarPrice
<1> HIDE DEF low, high, max
<1>4. (high - low) * DECIMAL_PRECISION \in Nat /\ max \in Nat
  BY <1>2, PrecisionAssumption, PriceFeedAssumption DEF max
<1>5. (high - low) * DECIMAL_PRECISION < (max + 1) * low
  BY <1>2, <1>3, <1>4, QuotientWithin
<1> QED
  BY <1>2, <1>5 DEF PricesAgree, low, high, max

(* Two live, unbroken and similar oracles are good and agree.              *)
LEMMA AgreementIsGood ==
  ASSUME PriceFeedTypeOK, BothOraclesLiveAndUnbrokenAndSimilarPrice
  PROVE  ChainlinkIsGood /\ TellorIsGood /\ PricesAgree
  BY LiveOraclesAreGood, SimilarPricesAgree DEF BothOraclesLiveAndUnbrokenAndSimilarPrice

------------------------------------------------------------------------------
(* A call of fetchPrice keeps the price, or stores that of a live oracle   *)
(* and names that oracle in the status.                                    *)
LEMMA FetchOutcome ==
  ASSUME PriceFeedTypeOK, FetchPrice
  PROVE  \/ lastGoodPrice' = lastGoodPrice /\ status' \in FeedStatus
         \/ /\ lastGoodPrice' = ChainlinkPrice /\ ~ChainlinkIsBroken /\ ~ChainlinkIsFrozen
            /\ status' \in {"chainlinkWorking", "usingChainlinkTellorUntrusted"}
         \/ /\ lastGoodPrice' = TellorPrice /\ ~TellorIsBroken /\ ~TellorIsFrozen
            /\ status' \in {"usingTellorChainlinkUntrusted", "usingTellorChainlinkFrozen"}
<1> USE DEF Keep, StoreChainlink, StoreTellor, UseTellor, FeedStatus
<1>1. CASE FetchFromChainlink
  BY <1>1 DEF FetchFromChainlink
<1>2. CASE FetchFromTellor
  BY <1>2 DEF FetchFromTellor, BothOraclesLiveAndUnbrokenAndSimilarPrice
<1>3. CASE FetchFromNeither
  BY <1>3 DEF FetchFromNeither, BothOraclesLiveAndUnbrokenAndSimilarPrice
<1>4. CASE FetchWhileChainlinkFrozen
  BY <1>4 DEF FetchWhileChainlinkFrozen
<1>5. CASE FetchWithoutTellor
  BY <1>5 DEF FetchWithoutTellor, BothOraclesLiveAndUnbrokenAndSimilarPrice
<1> QED
  BY <1>1, <1>2, <1>3, <1>4, <1>5 DEF FetchPrice

(* What the oracles and the clock do leaves the contract alone.            *)
LEMMA EnvironmentStep ==
  ASSUME ChainlinkAnswers \/ TellorAnswers \/ Elapse \/ UNCHANGED pfVars
  PROVE  UNCHANGED feedVars
  BY DEF ChainlinkAnswers, TellorAnswers, Elapse, pfVars

(* The price of the feed is positive and its status is one of five, forever. *)
THEOREM PriceFeedTyped == PriceFeedSpec => []PriceFeedTypeOK
<1>1. PriceFeedInit => PriceFeedTypeOK
  <2> SUFFICES ASSUME PriceFeedInit PROVE PriceFeedTypeOK
    OBVIOUS
  <2>1. chainlink.answer > 0
    BY PriceFeedAssumption DEF PriceFeedInit, ChainlinkIsBroken, BadChainlinkResponse
  <2>2. lastGoodPrice \in Nat \ {0}
    BY <2>1, PositivePriceAssumption DEF PriceFeedInit, ChainlinkPrice
  <2> QED
    BY <2>2, PriceFeedAssumption DEF PriceFeedInit, PriceFeedTypeOK, FeedStatus
<1>2. PriceFeedTypeOK /\ [PriceFeedNext]_pfVars => PriceFeedTypeOK'
  <2> SUFFICES ASSUME PriceFeedTypeOK, [PriceFeedNext]_pfVars PROVE PriceFeedTypeOK'
    OBVIOUS
  <2>1. CASE FetchPrice
    <3>1. status' \in FeedStatus
      BY <2>1, FetchOutcome DEF FeedStatus
    <3>2. lastGoodPrice' \in Nat \ {0}
      BY <2>1, FetchOutcome, UnbrokenChainlink, UnbrokenTellor DEF PriceFeedTypeOK
    <3> QED
      BY <2>1, <3>1, <3>2 DEF FetchPrice, PriceFeedTypeOK, oracleVars
  <2>2. CASE ChainlinkAnswers
    BY <2>2 DEF ChainlinkAnswers, PriceFeedTypeOK, feedVars
  <2>3. CASE TellorAnswers
    BY <2>3 DEF TellorAnswers, PriceFeedTypeOK, feedVars
  <2>4. CASE Elapse
    BY <2>4 DEF Elapse, PriceFeedTypeOK, feedVars, oracleVars
  <2>5. CASE UNCHANGED pfVars
    BY <2>5 DEF pfVars, PriceFeedTypeOK, feedVars, oracleVars
  <2> QED
    BY <2>1, <2>2, <2>3, <2>4, <2>5 DEF PriceFeedNext
<1> QED
  BY <1>1, <1>2, PTL DEF PriceFeedSpec

(* Every price that is stored is that of an oracle that is good in that    *)
(* very call, and the status names it.                                     *)
THEOREM FreshPrices == PriceFeedSpec => NewPricesAreLive
<1> DEFINE Live ==
      \/ /\ lastGoodPrice' = ChainlinkPrice /\ ChainlinkIsGood
         /\ status' \in {"chainlinkWorking", "usingChainlinkTellorUntrusted"}
      \/ /\ lastGoodPrice' = TellorPrice /\ TellorIsGood
         /\ status' \in {"usingTellorChainlinkUntrusted", "usingTellorChainlinkFrozen"}
<1>1. PriceFeedTypeOK /\ [PriceFeedNext]_pfVars
        => [lastGoodPrice' # lastGoodPrice => Live]_pfVars
  <2> SUFFICES ASSUME PriceFeedTypeOK, [PriceFeedNext]_pfVars, lastGoodPrice' # lastGoodPrice
               PROVE  Live
    OBVIOUS
  <2>1. FetchPrice
    BY EnvironmentStep DEF PriceFeedNext, feedVars
  <2> QED
    BY <2>1, FetchOutcome, LiveOraclesAreGood
<1> QED
  BY <1>1, PriceFeedTyped, PTL DEF PriceFeedSpec, NewPricesAreLive

(* Whatever happened before, trust in Chainlink returns only when both     *)
(* oracles are good and agree.                                             *)
THEOREM TrustIsEarned == PriceFeedSpec => TrustNeedsAgreement
<1>1. PriceFeedTypeOK /\ [PriceFeedNext]_pfVars
        => [status # "chainlinkWorking" /\ status' = "chainlinkWorking" =>
              ChainlinkIsGood /\ TellorIsGood /\ PricesAgree]_pfVars
  <2> SUFFICES ASSUME PriceFeedTypeOK, [PriceFeedNext]_pfVars,
                      status # "chainlinkWorking", status' = "chainlinkWorking"
               PROVE  ChainlinkIsGood /\ TellorIsGood /\ PricesAgree
    OBVIOUS
  <2>1. FetchPrice
    BY EnvironmentStep DEF PriceFeedNext, feedVars
  <2> USE DEF Keep, StoreChainlink, StoreTellor, UseTellor
  <2>2. CASE status = "usingTellorChainlinkFrozen" /\ FetchWhileChainlinkFrozen
    <3>1. /\ ~ChainlinkIsBroken /\ ~ChainlinkIsFrozen
          /\ ~TellorIsBroken /\ ~TellorIsFrozen /\ BothOraclesSimilarPrice
      BY <2>2 DEF FetchWhileChainlinkFrozen
    <3> QED
      BY <3>1, AgreementIsGood DEF BothOraclesLiveAndUnbrokenAndSimilarPrice
  <2>3. CASE status # "usingTellorChainlinkFrozen"
    <3>1. BothOraclesLiveAndUnbrokenAndSimilarPrice
      BY <2>1, <2>3 DEF FetchPrice, FetchFromTellor, FetchFromNeither, FetchWithoutTellor
    <3> QED
      BY <3>1, AgreementIsGood
  <2> QED
    BY <2>1, <2>2, <2>3 DEF FetchPrice
<1> QED
  BY <1>1, PriceFeedTyped, PTL DEF PriceFeedSpec, TrustNeedsAgreement

(* A jump of Chainlink enters the system only with Tellor's agreement, or  *)
(* when Chainlink thaws while Tellor is broken.                            *)
THEOREM JumpsNeedConfirmation == PriceFeedSpec => JumpsAreConfirmed
<1> DEFINE Jump == /\ lastGoodPrice' # lastGoodPrice /\ ~ChainlinkIsBroken
                   /\ lastGoodPrice' = ChainlinkPrice /\ ChainlinkPrice # TellorPrice
                   /\ ChainlinkPriceChangeAboveMax
           Confirmed == \/ TellorIsGood /\ PricesAgree
                        \/ status = "usingTellorChainlinkFrozen" /\ TellorIsBroken
<1>1. PriceFeedTypeOK /\ [PriceFeedNext]_pfVars => [Jump => Confirmed]_pfVars
  <2> SUFFICES ASSUME PriceFeedTypeOK, [PriceFeedNext]_pfVars, Jump
               PROVE  Confirmed
    OBVIOUS
  <2>1. FetchPrice
    BY EnvironmentStep DEF PriceFeedNext, feedVars
  <2> USE DEF Keep, StoreChainlink, StoreTellor, UseTellor
  <2>2. CASE BothOraclesLiveAndUnbrokenAndSimilarPrice
    BY <2>2, AgreementIsGood
  <2>3. CASE /\ ~TellorIsBroken /\ ~TellorIsFrozen /\ BothOraclesSimilarPrice
    BY <2>3, LiveOraclesAreGood, SimilarPricesAgree
  <2>4. CASE /\ ~BothOraclesLiveAndUnbrokenAndSimilarPrice
             /\ ~(~TellorIsBroken /\ ~TellorIsFrozen /\ BothOraclesSimilarPrice)
    <3>1. ~FetchFromChainlink
      BY <2>4 DEF FetchFromChainlink
    <3>2. ~FetchFromTellor
      BY <2>4 DEF FetchFromTellor
    <3>3. ~FetchFromNeither
      BY <2>4 DEF FetchFromNeither
    <3>4. ~FetchWithoutTellor
      BY <2>4 DEF FetchWithoutTellor
    <3>5. status = "usingTellorChainlinkFrozen" /\ FetchWhileChainlinkFrozen
      BY <2>1, <3>1, <3>2, <3>3, <3>4 DEF FetchPrice
    <3> QED
      BY <2>4, <3>5 DEF FetchWhileChainlinkFrozen
  <2> QED
    BY <2>2, <2>3, <2>4
<1> QED
  BY <1>1, PriceFeedTyped, PTL DEF PriceFeedSpec, JumpsAreConfirmed
==============================================================================
