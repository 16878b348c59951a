---------------------------- MODULE MCPriceFeed ----------------------------
(* Answers for TLC: prices of three digits from a two-digit Chainlink and a *)
(* one-digit Tellor, at one dollar, four percent off, and more than         *)
(* doubled; and each kind of answer the feed calls bad.                     *)
EXTENDS PriceFeed

Round(id, answer, t) ==
  [success |-> TRUE, roundId |-> id, answer |-> answer, timestamp |-> t]

WithDecimals(r, n) ==
  [success |-> r.success, roundId |-> r.roundId, answer |-> r.answer,
   timestamp |-> r.timestamp, decimals |-> n]

NoRound == [success |-> FALSE, roundId |-> 0, answer |-> 0, timestamp |-> 0]

GoodRounds == {Round(2, 100, 1), Round(2, 104, 3), Round(2, 210, 3)}

(* One answer that fails each check, and one from after the last block.     *)
BadRounds == {NoRound, Round(0, 100, 3), Round(2, 0, 3), Round(2, -100, 3),
              Round(2, 100, 0), Round(2, 100, 9)}

MCChainlinkResponses ==
  {WithDecimals(r, 2) : r \in GoodRounds \cup BadRounds}
    \cup {WithDecimals(Round(2, 10400, 3), 4)}

MCPrevResponses == {Round(1, 100, 1), Round(1, 210, 1), Round(1, 0, 1)}

Value(v, t) == [success |-> TRUE, value |-> v, timestamp |-> t]

MCTellorResponses ==
  {Value(10, 1), Value(10, 3), Value(21, 3), Value(0, 3), Value(10, 9),
   [success |-> FALSE, value |-> 0, timestamp |-> 0]}

(* Fewer answers for the temporal property.                                 *)
FewChainlinkResponses ==
  {WithDecimals(r, 2) : r \in {Round(2, 100, 1), Round(2, 210, 3), NoRound}}

FewPrevResponses == {Round(1, 100, 1), Round(1, 0, 1)}

FewTellorResponses == {Value(10, 1), Value(10, 3), Value(0, 3)}
==============================================================================
