------------------------------ MODULE PriceFeed ------------------------------
(***************************************************************************)
(* PriceFeeds/LinkTellorPriceFeed.sol: the price every core contract asks  *)
(* for.  fetchPrice reads the two latest rounds of Chainlink and the       *)
(* latest value of Tellor, decides which of them to trust, remembers that  *)
(* in `status' and the price in `lastGoodPrice'.                           *)
(*                                                                         *)
(* The oracles are the environment: between two calls they may answer      *)
(* anything, fail, or stop answering while time goes on.                   *)
(***************************************************************************)
EXTENDS LiquityMath

CONSTANTS
  TARGET_DIGITS, TELLOR_DIGITS,            (* digits of a price            *)
  TIMEOUT,                                 (* older answers are frozen     *)
  MAX_PRICE_DEVIATION_FROM_PREVIOUS_ROUND, (* one half                     *)
  MAX_PRICE_DIFFERENCE_BETWEEN_ORACLES,    (* one twentieth                *)
  ChainlinkResponses,   (* answers to latestRoundData and decimals         *)
  PrevResponses,        (* answers to getRoundData of the previous round   *)
  TellorResponses,      (* answers to getTellorCurrentValue                *)
  StartTime, MaxTime    (* block.timestamp of setAddresses, and its bound  *)

ASSUME PriceFeedAssumption ==
  /\ TARGET_DIGITS \in Nat /\ TELLOR_DIGITS \in Nat /\ TELLOR_DIGITS <= TARGET_DIGITS
  /\ TIMEOUT \in Nat /\ StartTime \in Nat
  /\ MAX_PRICE_DEVIATION_FROM_PREVIOUS_ROUND \in Nat
  /\ MAX_PRICE_DIFFERENCE_BETWEEN_ORACLES \in Nat
  /\ ChainlinkResponses \subseteq
       [success : BOOLEAN, roundId : Nat, answer : Int, timestamp : Nat, decimals : Nat]
  /\ PrevResponses \subseteq
       [success : BOOLEAN, roundId : Nat, answer : Int, timestamp : Nat]
  /\ TellorResponses \subseteq [success : BOOLEAN, value : Nat, timestamp : Nat]

(* _scaleChainlinkPriceByDigits and _scaleTellorPriceByDigits.             *)
ScaleChainlink(answer, digits) ==
  IF digits >= TARGET_DIGITS THEN answer \div 10^(digits - TARGET_DIGITS)
  ELSE answer * 10^(TARGET_DIGITS - digits)

ScaleTellor(value) == value * 10^(TARGET_DIGITS - TELLOR_DIGITS)

(* No positive answer is scaled down to zero, as holds of every feed with  *)
(* at most TARGET_DIGITS decimals: the comparisons divide by prices, and   *)
(* would revert.                                                           *)
ASSUME PositivePriceAssumption ==
  /\ \A c \in ChainlinkResponses, r \in ChainlinkResponses \cup PrevResponses :
        r.answer > 0 => ScaleChainlink(r.answer, c.decimals) \in Nat \ {0}
  /\ \A t \in TellorResponses : t.value > 0 => ScaleTellor(t.value) \in Nat \ {0}

FeedStatus == {"chainlinkWorking", "usingTellorChainlinkUntrusted",
               "bothOraclesUntrusted", "usingTellorChainlinkFrozen",
               "usingChainlinkTellorUntrusted"}

VARIABLES
  status, lastGoodPrice,   (* storage of the contract                      *)
  chainlink, prevChainlink, tellor,   (* what the oracles answer now       *)
  time                                (* block.timestamp                   *)

feedVars   == <<status, lastGoodPrice>>
oracleVars == <<chainlink, prevChainlink, tellor>>
pfVars     == <<feedVars, oracleVars, time>>

------------------------------------------------------------------------------
(* Judging the answers. *)

(* The previous round is taken to have the digits of the current one.      *)
ChainlinkPrice == ScaleChainlink(chainlink.answer, chainlink.decimals)
PrevPrice      == ScaleChainlink(prevChainlink.answer, chainlink.decimals)
TellorPrice    == ScaleTellor(tellor.value)

BadTimestamp(t) == t = 0 \/ t > time

BadChainlinkResponse(r) ==
  ~r.success \/ r.roundId = 0 \/ BadTimestamp(r.timestamp) \/ r.answer <= 0

ChainlinkIsBroken ==
  BadChainlinkResponse(chainlink) \/ BadChainlinkResponse(prevChainlink)

ChainlinkIsFrozen == time - chainlink.timestamp > TIMEOUT

TellorIsBroken == ~tellor.success \/ BadTimestamp(tellor.timestamp) \/ tellor.value = 0

TellorIsFrozen == time - tellor.timestamp > TIMEOUT

(* Relative to the larger price: more than halved or doubled. *)
ChainlinkPriceChangeAboveMax ==
  LET high == MaxOf(ChainlinkPrice, PrevPrice)
      low  == MinOf(ChainlinkPrice, PrevPrice)
  IN  ((high - low) * DECIMAL_PRECISION) \div high
        > MAX_PRICE_DEVIATION_FROM_PREVIOUS_ROUND

(* Relative to the smaller price. *)
BothOraclesSimilarPrice ==
  LET high == MaxOf(ChainlinkPrice, TellorPrice)
      low  == MinOf(ChainlinkPrice, TellorPrice)
  IN  ((high - low) * DECIMAL_PRECISION) \div low
        <= MAX_PRICE_DIFFERENCE_BETWEEN_ORACLES

(* Seeded fault: a frozen Tellor counts as a confirmation. *)
UnbrokenAndSimilarPrice ==
  /\ ~TellorIsBroken /\ ~ChainlinkIsBroken /\ ~ChainlinkIsFrozen
  /\ BothOraclesSimilarPrice

BothOraclesLiveAndUnbrokenAndSimilarPrice ==
  /\ ~TellorIsBroken /\ ~TellorIsFrozen
  /\ ~ChainlinkIsBroken /\ ~ChainlinkIsFrozen
  /\ BothOraclesSimilarPrice

------------------------------------------------------------------------------
(* fetchPrice: one action per value of the status, one disjunct per way to *)
(* return; it returns lastGoodPrice'.                                      *)

Keep(newStatus) == status' = newStatus /\ lastGoodPrice' = lastGoodPrice
StoreTellor(newStatus) == status' = newStatus /\ lastGoodPrice' = TellorPrice
StoreChainlink(newStatus) == status' = newStatus /\ lastGoodPrice' = ChainlinkPrice

(* Seeded fault: only the age of the value is looked at. *)
UseAnyTellor(newStatus) ==
  \/ TellorIsFrozen /\ Keep(newStatus)
  \/ ~TellorIsFrozen /\ StoreTellor(newStatus)

(* Tellor in its two usable states: its price if it is live, else the last *)
(* good price.                                                             *)
UseTellor(newStatus) ==
  /\ ~TellorIsBroken
  /\ \/ TellorIsFrozen /\ Keep(newStatus)
     \/ ~TellorIsFrozen /\ StoreTellor(newStatus)

(* Seeded fault: a jump of Chainlink is not compared with Tellor. *)
FetchWithoutJumpCheck ==
  \/ /\ ChainlinkIsBroken
     /\ \/ TellorIsBroken /\ Keep("bothOraclesUntrusted")
        \/ UseTellor("usingTellorChainlinkUntrusted")
  \/ /\ ~ChainlinkIsBroken /\ ChainlinkIsFrozen
     /\ \/ TellorIsBroken /\ Keep("usingChainlinkTellorUntrusted")
        \/ UseTellor("usingTellorChainlinkFrozen")
  \/ /\ ~ChainlinkIsBroken /\ ~ChainlinkIsFrozen
     /\ StoreChainlink(IF TellorIsBroken THEN "usingChainlinkTellorUntrusted"
                       ELSE "chainlinkWorking")

FetchFromChainlink ==
  \/ /\ ChainlinkIsBroken
     /\ \/ TellorIsBroken /\ Keep("bothOraclesUntrusted")
        \/ UseTellor("usingTellorChainlinkUntrusted")
  \/ /\ ~ChainlinkIsBroken /\ ChainlinkIsFrozen
     /\ \/ TellorIsBroken /\ Keep("usingChainlinkTellorUntrusted")
        \/ UseTellor("usingTellorChainlinkFrozen")
  \/ /\ ~ChainlinkIsBroken /\ ~ChainlinkIsFrozen /\ ChainlinkPriceChangeAboveMax
     /\ \/ TellorIsBroken /\ Keep("bothOraclesUntrusted")
        \/ ~TellorIsBroken /\ TellorIsFrozen /\ Keep("usingTellorChainlinkUntrusted")
        \/ /\ ~TellorIsBroken /\ ~TellorIsFrozen
           /\ IF BothOraclesSimilarPrice THEN StoreChainlink("chainlinkWorking")
              ELSE StoreTellor("usingTellorChainlinkUntrusted")
  \/ /\ ~ChainlinkIsBroken /\ ~ChainlinkIsFrozen /\ ~ChainlinkPriceChangeAboveMax
     /\ StoreChainlink(IF TellorIsBroken THEN "usingChainlinkTellorUntrusted"
                       ELSE "chainlinkWorking")

FetchFromTellor ==
  \/ BothOraclesLiveAndUnbrokenAndSimilarPrice /\ StoreChainlink("chainlinkWorking")
  \/ /\ ~BothOraclesLiveAndUnbrokenAndSimilarPrice
     /\ \/ TellorIsBroken /\ Keep("bothOraclesUntrusted")
        \/ UseTellor("usingTellorChainlinkUntrusted")

(* Seeded fault: Tellor alone ends the distrust. *)
FetchFromNeitherOrTellor ==
  \/ BothOraclesLiveAndUnbrokenAndSimilarPrice /\ StoreChainlink("chainlinkWorking")
  \/ ~BothOraclesLiveAndUnbrokenAndSimilarPrice /\ ~TellorIsBroken
       /\ StoreTellor("bothOraclesUntrusted")

FetchFromNeither ==
  \/ BothOraclesLiveAndUnbrokenAndSimilarPrice /\ StoreChainlink("chainlinkWorking")
  \/ ~BothOraclesLiveAndUnbrokenAndSimilarPrice /\ Keep("bothOraclesUntrusted")

FetchWhileChainlinkFrozen ==
  \/ /\ ChainlinkIsBroken
     /\ \/ TellorIsBroken /\ Keep("bothOraclesUntrusted")
        \/ UseTellor("usingTellorChainlinkUntrusted")
  \/ /\ ~ChainlinkIsBroken /\ ChainlinkIsFrozen
     /\ \/ TellorIsBroken /\ Keep("usingChainlinkTellorUntrusted")
        \/ UseTellor("usingTellorChainlinkFrozen")
  \/ /\ ~ChainlinkIsBroken /\ ~ChainlinkIsFrozen
     /\ \/ TellorIsBroken /\ StoreChainlink("usingChainlinkTellorUntrusted")
        \/ ~TellorIsBroken /\ TellorIsFrozen /\ Keep("usingTellorChainlinkFrozen")
        \/ /\ ~TellorIsBroken /\ ~TellorIsFrozen
           /\ IF BothOraclesSimilarPrice THEN StoreChainlink("chainlinkWorking")
              ELSE StoreTellor("usingTellorChainlinkUntrusted")

(* Seeded fault: a working Tellor is never trusted again. *)
FetchNeverTrustingTellor ==
  \/ ChainlinkIsBroken /\ Keep("bothOraclesUntrusted")
  \/ ~ChainlinkIsBroken /\ ChainlinkIsFrozen /\ Keep("usingChainlinkTellorUntrusted")
  \/ /\ ~ChainlinkIsBroken /\ ~ChainlinkIsFrozen
     /\ StoreChainlink("usingChainlinkTellorUntrusted")

FetchWithoutTellor ==
  \/ ChainlinkIsBroken /\ Keep("bothOraclesUntrusted")
  \/ ~ChainlinkIsBroken /\ ChainlinkIsFrozen /\ Keep("usingChainlinkTellorUntrusted")
  \/ BothOraclesLiveAndUnbrokenAndSimilarPrice /\ StoreChainlink("chainlinkWorking")
  \/ /\ ~ChainlinkIsBroken /\ ~ChainlinkIsFrozen
     /\ ~BothOraclesLiveAndUnbrokenAndSimilarPrice
     /\ IF ChainlinkPriceChangeAboveMax THEN Keep("bothOraclesUntrusted")
        ELSE StoreChainlink("usingChainlinkTellorUntrusted")

FetchPrice ==
  /\ \/ status = "chainlinkWorking" /\ FetchFromChainlink
     \/ status = "usingTellorChainlinkUntrusted" /\ FetchFromTellor
     \/ status = "bothOraclesUntrusted" /\ FetchFromNeither
     \/ status = "usingTellorChainlinkFrozen" /\ FetchWhileChainlinkFrozen
     \/ status = "usingChainlinkTellorUntrusted" /\ FetchWithoutTellor
  /\ UNCHANGED <<oracleVars, time>>

------------------------------------------------------------------------------
(* The oracles and the clock. *)

(* setAddresses: Chainlink is working and current, and gives the first     *)
(* price.                                                                  *)
PriceFeedInit ==
  /\ time = StartTime
  /\ chainlink \in ChainlinkResponses
  /\ prevChainlink \in PrevResponses
  /\ tellor \in TellorResponses
  /\ ~ChainlinkIsBroken /\ ~ChainlinkIsFrozen
  /\ status = "chainlinkWorking" /\ lastGoodPrice = ChainlinkPrice

ChainlinkAnswers ==
  /\ chainlink' \in ChainlinkResponses
  /\ prevChainlink' \in PrevResponses
  /\ UNCHANGED <<feedVars, tellor, time>>

TellorAnswers ==
  /\ tellor' \in TellorResponses
  /\ UNCHANGED <<feedVars, chainlink, prevChainlink, time>>

Elapse ==
  /\ time < MaxTime
  /\ time' = time + 1
  /\ UNCHANGED <<feedVars, oracleVars>>

PriceFeedNext == FetchPrice \/ ChainlinkAnswers \/ TellorAnswers \/ Elapse

PriceFeedSpec == PriceFeedInit /\ [][PriceFeedNext]_pfVars

(* Every call of a user that needs a price fetches it, so fetchPrice keeps *)
(* being called; nothing forces the oracles to answer.                     *)
LivePriceFeedSpec == PriceFeedSpec /\ WF_pfVars(FetchPrice)

------------------------------------------------------------------------------
(* Properties. *)

(* Types; in particular the price is never zero, by which every ratio of   *)
(* the core would be.                                                      *)
PriceFeedTypeOK ==
  /\ status \in FeedStatus
  /\ lastGoodPrice \in Nat \ {0}
  /\ chainlink \in ChainlinkResponses
  /\ prevChainlink \in PrevResponses
  /\ tellor \in TellorResponses
  /\ time \in Nat

(* What a reader of the prices relies on, in terms of the answers alone.   *)
Current(t) == t # 0 /\ t <= time /\ time <= t + TIMEOUT

ChainlinkIsGood == chainlink.success /\ prevChainlink.success /\ Current(chainlink.timestamp)

TellorIsGood == tellor.success /\ Current(tellor.timestamp)

PricesAgree ==
  AbsoluteDifference(ChainlinkPrice, TellorPrice) * DECIMAL_PRECISION
    < (MAX_PRICE_DIFFERENCE_BETWEEN_ORACLES + 1) * MinOf(ChainlinkPrice, TellorPrice)

(* A new price is the price of an oracle that, in the very call that       *)
(* stores it, answers with a value no older than the timeout, and the      *)
(* status names that oracle: no answer of an earlier call and no outdated  *)
(* one gets through, and while both are untrusted the price stands.        *)
NewPricesAreLive ==
  [][lastGoodPrice' # lastGoodPrice =>
       \/ /\ lastGoodPrice' = ChainlinkPrice /\ ChainlinkIsGood
          /\ status' \in {"chainlinkWorking", "usingChainlinkTellorUntrusted"}
       \/ /\ lastGoodPrice' = TellorPrice /\ TellorIsGood
          /\ status' \in {"usingTellorChainlinkUntrusted",
                          "usingTellorChainlinkFrozen"}]_pfVars

(* From any of the four states of distrust, the feed returns to normal     *)
(* operation only when both oracles answer with current values that are    *)
(* within the allowed difference of each other.                            *)
TrustNeedsAgreement ==
  [][status # "chainlinkWorking" /\ status' = "chainlinkWorking" =>
       ChainlinkIsGood /\ TellorIsGood /\ PricesAgree]_pfVars

(* A price of Chainlink that more than doubled or halved within one round  *)
(* is only used when a current value of Tellor agrees with it - except on  *)
(* the return of a frozen Chainlink while Tellor is broken, where the code *)
(* does not look at the previous round.                                    *)
JumpsAreConfirmed ==
  [][(/\ lastGoodPrice' # lastGoodPrice /\ ~ChainlinkIsBroken
      /\ lastGoodPrice' = ChainlinkPrice /\ ChainlinkPrice # TellorPrice
      /\ ChainlinkPriceChangeAboveMax) =>
       \/ TellorIsGood /\ PricesAgree
       \/ status = "usingTellorChainlinkFrozen" /\ TellorIsBroken]_pfVars

(* Once both oracles stay live and agree, with no jump of Chainlink, the   *)
(* feed ends in normal operation whatever happened before, and there its   *)
(* price is Chainlink's.                                                   *)
HealthyOracles ==
  BothOraclesLiveAndUnbrokenAndSimilarPrice /\ ~ChainlinkPriceChangeAboveMax

AgreementRestoresChainlink ==
  <>[]HealthyOracles => <>[](status = "chainlinkWorking")
==============================================================================
