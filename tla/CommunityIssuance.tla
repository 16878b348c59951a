--------------------------- MODULE CommunityIssuance ---------------------------
(***************************************************************************)
(* CommunityIssuance.sol: the MAHA rewards of the Stability Pool.  The     *)
(* owner announces a reward, which is then issued at a constant rate; the  *)
(* pool asks for what has accrued whenever it changes, and pays the gains  *)
(* of its depositors from the tokens this contract holds.  Whoever wants   *)
(* to fund a reward sends these tokens separately, before or after.        *)
(***************************************************************************)
EXTENDS LiquityMath

CONSTANTS
  RewardsDuration,   (* rewardsDuration, in units of time                  *)
  Rewards,           (* rewards the owner may announce                     *)
  Transfers,         (* amounts of MAHA sent to the contract               *)
  MaxTime,           (* bound: the last instant modelled                   *)
  MaxMAHA            (* bound: the tokens received, and those announced    *)

ASSUME IssuanceAssumption ==
  /\ RewardsDuration \in Nat \ {0}
  /\ Rewards \subseteq Nat
  /\ Transfers \subseteq Nat
  /\ MaxTime \in Nat

VARIABLES
  now,               (* block.timestamp                                    *)
  lastUpdateTime,
  rewardRate,
  periodFinish,
  totalMAHAIssued,
  mahaBalance,       (* governance.getMAHA().balanceOf(this)               *)
  received,          (* history: all tokens ever sent to the contract      *)
  announced          (* history: the sum of all rewards announced          *)

rewardVars == <<lastUpdateTime, rewardRate, periodFinish>>
historyVars == <<received, announced>>
issuanceVars == <<now, rewardVars, totalMAHAIssued, mahaBalance, historyVars>>

IssuanceTypeOK ==
  /\ now \in Nat
  /\ lastUpdateTime \in Nat
  /\ rewardRate \in Nat
  /\ periodFinish \in Nat
  /\ totalMAHAIssued \in Nat
  /\ mahaBalance \in Nat
  /\ received \in Nat
  /\ announced \in Nat

IssuanceInit ==
  /\ now = 0
  /\ lastUpdateTime = 0
  /\ rewardRate = 0
  /\ periodFinish = RewardsDuration
  /\ totalMAHAIssued = 0
  /\ mahaBalance = 0
  /\ received = 0
  /\ announced = 0

LastTimeRewardApplicable == MinOf(now, periodFinish)

(* _getCumulativeIssuance: what accrued since lastUpdateTime, at most what *)
(* the contract holds.                                                     *)
CumulativeIssuance ==
  MinOf(rewardRate * (LastTimeRewardApplicable - lastUpdateTime), mahaBalance)

(* Seeded fault: the time of the last issuance is not recorded. *)
IssueMAHATwice(paid) ==
  /\ LastTimeRewardApplicable >= lastUpdateTime
  /\ totalMAHAIssued' = totalMAHAIssued + CumulativeIssuance
  /\ mahaBalance >= paid
  /\ mahaBalance' = mahaBalance - paid
  /\ UNCHANGED <<now, rewardVars, historyVars>>

(* issueMAHA, followed by the calls of sendMAHA the same transaction makes *)
(* for the total amount paid; a transfer that exceeds the balance reverts. *)
IssueMAHA(paid) ==
  /\ LastTimeRewardApplicable >= lastUpdateTime
  /\ totalMAHAIssued' = totalMAHAIssued + CumulativeIssuance
  /\ lastUpdateTime' = LastTimeRewardApplicable
  /\ mahaBalance >= paid
  /\ mahaBalance' = mahaBalance - paid
  /\ UNCHANGED <<now, rewardRate, periodFinish, historyVars>>

NewRate(reward) ==
  IF now >= periodFinish THEN reward \div RewardsDuration
  ELSE (reward + (periodFinish - now) * rewardRate) \div RewardsDuration

(* notifyRewardAmount: it moves no tokens, and compares the new rate with  *)
(* all that the contract holds, tokens issued and not yet claimed included. *)
NotifyRewardAmount(reward) ==
  /\ NewRate(reward) <= mahaBalance \div RewardsDuration
  /\ rewardRate' = NewRate(reward)
  /\ lastUpdateTime' = now
  /\ periodFinish' = now + RewardsDuration
  /\ announced' = announced + reward
  /\ announced' <= MaxMAHA
  /\ UNCHANGED <<now, totalMAHAIssued, mahaBalance, received>>

(* A transfer or a mint of MAHA to this contract, by anybody.              *)
ReceiveMAHA(amount) ==
  /\ mahaBalance' = mahaBalance + amount
  /\ received' = received + amount
  /\ received' <= MaxMAHA
  /\ UNCHANGED <<now, rewardVars, totalMAHAIssued, announced>>

Tick ==
  /\ now < MaxTime
  /\ now' = now + 1
  /\ UNCHANGED <<rewardVars, totalMAHAIssued, mahaBalance, historyVars>>
===============================================================================
