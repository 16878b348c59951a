---------------------------- MODULE ARTHProperties ----------------------------
(***************************************************************************)
(* What makes one deployment of the protocol correct: invariants on its    *)
(* ledgers, on its lists and on what may block it, and action properties   *)
(* on what liquidations, redemptions and borrower operations may do.       *)
(***************************************************************************)
EXTENDS ARTHSystem

CONSTANT RoundingSlack   (* units of ETH or ARTH that the rounding of a     *)
                         (* trove's stake and rewards may give or take      *)

(* Rounding is small next to the debt that every trove has.                *)
ASSUME SlackAssumption ==
  RoundingSlack \in Nat /\ RoundingSlack < ARTH_GAS_COMPENSATION + MIN_NET_DEBT

ActiveTroves == { b \in Borrowers : IsActive(b) }

(* Sum of F(b) over the active troves. *)
SumOver(F(_)) == SumFunctionOnSet([b \in Borrowers |-> F(b)], ActiveTroves)

PoolType == [ETH : Nat, ARTHDebt : Nat]

(* Types of the ledgers: every amount is a natural number, which in        *)
(* Solidity means that no unsigned subtraction has wrapped.                *)
LedgerTypeOK ==
  /\ Troves \in [Borrowers -> [status : Statuses, debt : Nat, coll : Nat,
                               stake : Nat, frontEndTag : Accounts \cup {NoFrontEnd}]]
  /\ rewardSnapshots \in [Borrowers -> PoolType]
  /\ L \in PoolType /\ lastError \in PoolType
  /\ totalStakes \in Nat
  /\ systemSnapshots \in [stakes : Nat, coll : Nat]
  /\ activePool \in PoolType /\ defaultPool \in PoolType
  /\ collSurplusPool \in [ETH : Nat, balances : [Borrowers -> Nat]]
  /\ stabilityPool \in [ETH : Nat, totalARTHDeposits : Nat]
  /\ totalSupply \in Nat /\ price \in Nat

(* Types of the rest of the state. *)
TypeOK ==
  /\ LedgerTypeOK
  /\ TroveOwners \in Seq(Borrowers) /\ sortedTroves \in Seq(Borrowers)
  /\ arrayIndex \in [Borrowers -> Nat]
  /\ baseRate \in 0..DECIMAL_PRECISION
  /\ now \in Nat /\ lastFeeOperationTime \in 0..now
  /\ arthBalance \in [Accounts -> Nat]
  /\ frontEnds \subseteq Accounts
  /\ maxDebtCeiling \in Nat
  /\ allowMinting \in BOOLEAN

------------------------------------------------------------------------------
(* Ledgers. *)

(* Every ARTH in circulation is owed by a trove: mints and burns of the    *)
(* token, in three contracts, keep step with the debt of the two pools.    *)
SupplyEqualsDebt == totalSupply = EntireSystemDebt

(* The token's accounts add up to its supply, the Stability Pool holds     *)
(* exactly the deposits it records, and the gas pool holds the liquidation *)
(* reserve of every active trove, whoever else sends it ARTH.              *)
TokenAccounts ==
  /\ totalSupply = SumFunction(arthBalance)
  /\ arthBalance[SPAddress] = stabilityPool.totalARTHDeposits
  /\ arthBalance[GasPool] >= Cardinality(ActiveTroves) * ARTH_GAS_COMPENSATION

(* The Active Pool holds exactly the collateral and the debt that the      *)
(* active troves record, after any mixture of adjustments, closings,       *)
(* redemptions and liquidations.                                           *)
ActivePoolMatchesTroves ==
  /\ activePool.ETH = SumOver(LAMBDA b : Troves[b].coll)
  /\ activePool.ARTHDebt = SumOver(LAMBDA b : Troves[b].debt)

(* The Default Pool holds what the active troves may still collect as      *)
(* pending rewards and the remainder kept for the next redistribution, so  *)
(* no sequence of _applyPendingRewards can overdraw it.                    *)
DefaultPoolCoversRewards ==
  /\ defaultPool.ETH * DECIMAL_PRECISION >= lastError.ETH
       + SumOver(LAMBDA b : Troves[b].stake * (L.ETH - rewardSnapshots[b].ETH))
  /\ defaultPool.ARTHDebt * DECIMAL_PRECISION >= lastError.ARTHDebt
       + SumOver(LAMBDA b : Troves[b].stake * (L.ARTHDebt - rewardSnapshots[b].ARTHDebt))

(* Every surplus recorded for an owner is held by the surplus pool, and    *)
(* nothing else is, even when a trove is closed again before the claim.    *)
SurplusIsHeld == collSurplusPool.ETH = SumFunction(collSurplusPool.balances)

(* The three pools between them can always pay what the troves and their   *)
(* owners may claim, whatever mixture of calls went before.                *)
PoolsReconcile ==
  /\ ActivePoolMatchesTroves
  /\ DefaultPoolCoversRewards
  /\ SurplusIsHeld

(* totalStakes, the divisor of every redistribution, is the sum of the     *)
(* stakes of the active troves, and closed troves keep none.               *)
StakesAddUp == totalStakes = SumFunction([b \in Borrowers |-> Troves[b].stake])

(* "Maximum amount of debt that this deployment can have" (Governance.sol, *)
(* maxDebtCeiling): the debt of the deployment, as LiquityBase computes    *)
(* it, stays within the ceiling.  _withdrawARTH looks at the Active Pool   *)
(* alone, so debt that a redistribution has moved to the Default Pool does *)
(* not count when more is minted.                                          *)
DebtWithinCeiling == EntireSystemDebt <= maxDebtCeiling

------------------------------------------------------------------------------
(* Lists and statuses. *)

(* The owners' array, the sorted list and the statuses describe the same   *)
(* set of troves, and each owner is found at its arrayIndex, after any     *)
(* order of closings (each of which moves the last owner of the array).    *)
ListsAgree ==
  /\ ToSet(sortedTroves) = ActiveTroves
  /\ Len(sortedTroves) = Cardinality(ActiveTroves)
  /\ Len(TroveOwners) = Cardinality(ActiveTroves)
  /\ \A b \in ActiveTroves : /\ arrayIndex[b] < Len(TroveOwners)
                             /\ TroveOwners[arrayIndex[b] + 1] = b

(* What TroveManager keeps twice agrees: the stakes with their total, and  *)
(* the statuses with the array and the sorted list.                        *)
BooksAgree == StakesAddUp /\ ListsAgree

(* No sequence of repayments, redemptions and reward applications leaves   *)
(* an active trove with less than the minimum net debt.                    *)
MinimumDebtKept ==
  \A b \in ActiveTroves : Troves[b].debt >= ARTH_GAS_COMPENSATION + MIN_NET_DEBT

(* b's nominal ratio exceeds c's by more than rounding explains. *)
ClearlySafer(b, c) ==
  ComputeNominalCR(EntireColl(b) - RoundingSlack, EntireDebt(b) + RoundingSlack)
    > ComputeNominalCR(EntireColl(c) + RoundingSlack, EntireDebt(c) - RoundingSlack)

(* At the present price the troves that may be redeemed from come before   *)
(* all others: a redemption looks at one trove and its successor to know   *)
(* that it starts above every trove below MCR.                             *)
OrderedAtMCR ==
  \A i, j \in DOMAIN sortedTroves :
    i < j /\ CurrentICR(sortedTroves[j], price) >= MCR
      => CurrentICR(sortedTroves[i], price) >= MCR

(* The list stays in order of the nominal ratios, and in order at MCR,     *)
(* although no trove moves when a redistribution changes all of them and   *)
(* redemption applies the rewards of troves it leaves in place.            *)
ListStaysSorted ==
  /\ \A i, j \in DOMAIN sortedTroves :
       i < j => ~ClearlySafer(sortedTroves[j], sortedTroves[i])
  /\ OrderedAtMCR

(* A registered front end never owns a trove: openTrove refuses front ends *)
(* and registerFrontEnd refuses owners of troves.                          *)
FrontEndsOwnNoTrove == frontEnds \cap ActiveTroves = {}

(* The token: the types of the state, accounts that add up and cover the   *)
(* deposits and the reserves, and front ends that own no trove.            *)
TokenInv ==
  /\ TypeOK
  /\ TokenAccounts
  /\ FrontEndsOwnNoTrove

(* A trove's reward snapshots never run ahead of L, from which its pending *)
(* rewards are subtracted.                                                 *)
SnapshotsBehindL ==
  \A b \in Borrowers : /\ rewardSnapshots[b].ETH <= L.ETH
                       /\ rewardSnapshots[b].ARTHDebt <= L.ARTHDebt

(* The inductive invariant of the ledgers: types, the snapshots that keep  *)
(* every pending reward non-negative, and the total supply, which is the   *)
(* system's debt whichever pool records it.                                *)
LedgerInv ==
  /\ LedgerTypeOK
  /\ SnapshotsBehindL
  /\ SupplyEqualsDebt
  /\ frontEnds \subseteq Borrowers

------------------------------------------------------------------------------
(* Calls that must not be blocked. *)

(* A liquidation that meets the explicit requirements of the code never    *)
(* reverts in SafeMath, in a division or in an assertion on the way: the   *)
(* pools can pay whatever the loop has added up.                           *)
LiquidationNeverBlocked ==
  \A run \in { LiquidateTrovesRun(n, price) : n \in SequenceLengths }
              \cup { BatchRun(troveArray, price) : troveArray \in TroveArrays } :
    LiquidationRequirements(run) => LiquidationArithmetic(run)

(* A redemption that reaches its settlement never reverts there: the       *)
(* Active Pool and the gas pool can pay what the loop has drawn.           *)
RedemptionNeverBlocked ==
  \A amount \in RedeemAmounts, hint \in RedeemHints, hintIsFresh \in BOOLEAN,
     maxIterations \in RedeemIterations :
    LET run == RedemptionRun(amount, hint, hintIsFresh, maxIterations, price)
    IN  TCR(price) >= MCR /\ amount <= totalSupply => RedemptionArithmetic(run)

(* Some trove below MCR can be liquidated whenever there is one and it is  *)
(* not the only trove: the last trove of the list goes first.              *)
UnsafeTroveCanBeLiquidated ==
  (/\ Len(sortedTroves) > 1
   /\ CurrentICR(sortedTroves[Len(sortedTroves)], price) < MCR) =>
    LET run == LiquidateTrovesRun(1, price)
    IN  LiquidationRequirements(run) /\ LiquidationArithmetic(run)

------------------------------------------------------------------------------
(* Action properties. *)

LiquidatedNow(b) ==
  IsActive(b) /\ Troves'[b].status = "closedByLiquidation"

RedeemedNow(b) ==
  IsActive(b) /\ Troves'[b].status = "closedByRedemption"

SurplusGained(b) == collSurplusPool'.balances[b] - collSurplusPool.balances[b]

(* A trove changes that its owner neither pays for nor closes.             *)
PaidByAnother(b) ==
  /\ Troves'[b] # Troves[b]
  /\ Troves'[b].status # "closedByOwner"
  /\ arthBalance'[b] >= arthBalance[b]

(* Redemptions are the transactions that burn ARTH and move the base rate  *)
(* or its clock or, when both stay, take from the trove of somebody else.  *)
IsRedemption ==
  /\ totalSupply' < totalSupply
  /\ \/ feeVars' # feeVars
     \/ /\ \A b \in Borrowers : ~LiquidatedNow(b)
        /\ \E b \in Borrowers : PaidByAnother(b)

(* No trove is liquidated that is safe: its ratio, with its pending        *)
(* rewards, was below MCR, or the system was in recovery mode and its      *)
(* ratio below CCR; in the latter case the Stability Pool takes MCR worth  *)
(* of its collateral and its owner keeps the rest as a surplus.            *)
SafeTrovesAreNotLiquidated ==
  [][\A b \in Borrowers : LiquidatedNow(b) =>
       LET capped == (EntireDebt(b) * MCR) \div price
       IN  \/ CurrentICR(b, price) < MCR /\ SurplusGained(b) = 0
           \/ /\ InRecoveryMode(price) /\ CurrentICR(b, price) < CCR
              /\ EntireDebt(b) <= stabilityPool.totalARTHDeposits
              /\ SurplusGained(b) = EntireColl(b) - capped]_vars

(* At a constant price no call of a borrower, a depositor, a token holder  *)
(* or governance moves the system from normal into recovery mode, and none *)
(* lowers the ratio of a system in recovery mode by more than the rounding *)
(* of its last digit.  Only liquidations and redemptions that close troves *)
(* may do either.                                                          *)
BorrowersProtectTheMode ==
  [][(/\ price' = price
      /\ \A b \in Borrowers : ~LiquidatedNow(b) /\ ~RedeemedNow(b)) =>
       IF InRecoveryMode(price) THEN TCR(price)' >= TCR(price) - 1
                                ELSE ~InRecoveryMode(price)']_vars

(* A liquidation takes nothing from the troves that survive it, and the    *)
(* debt they inherit together is at most what the liquidated troves owed   *)
(* and the Stability Pool did not cancel, with the remainder that the last *)
(* redistribution left to this one and one unit of rounding each.          *)
RedistributionConserves ==
  [][LET dead      == { b \in Borrowers : LiquidatedNow(b) }
         survivors == ActiveTroves \ dead
         owed      == SumFunctionOnSet([b \in Borrowers |-> EntireDebt(b)], dead)
         inherited == [b \in Borrowers |-> EntireDebt(b)' - EntireDebt(b)]
     IN  dead # {} =>
           /\ \A b \in survivors : EntireColl(b)' >= EntireColl(b) /\ inherited[b] >= 0
           /\ SumFunctionOnSet(inherited, survivors)
                <= owed - (totalSupply - totalSupply') + Cardinality(survivors)
                     + lastError.ARTHDebt \div DECIMAL_PRECISION]_vars

(* The base rate that borrowers pay only decays between redemptions: no    *)
(* call raises it, and whoever restarts the decay's clock, by any fee      *)
(* operation at any second, has first applied at least one minute of it.   *)
BaseRateOnlyDecays ==
  [][~IsRedemption =>
       /\ DecayedBaseRate' <= DecayedBaseRate
       /\ lastFeeOperationTime' # lastFeeOperationTime /\ baseRate > 0
            => baseRate' < baseRate]_vars

(* Redemption takes from a trove no more value than it cancels debt, the   *)
(* claimable surplus and the released reserve included, and it never       *)
(* touches a trove whose ratio is below MCR.                               *)
RedemptionIsFair ==
  [][IsRedemption =>
       \A b \in ActiveTroves :
         LET reserve == IF RedeemedNow(b) THEN ARTH_GAS_COMPENSATION ELSE 0
             debtCut == EntireDebt(b) - reserve - EntireDebt(b)'
             collCut == EntireColl(b) - EntireColl(b)' - SurplusGained(b)
         IN  /\ debtCut * DECIMAL_PRECISION >= collCut * price
             /\ CurrentICR(b, price) < MCR => debtCut = 0 /\ collCut = 0]_vars

(* Redemption reaches a trove only after every riskier trove that it may   *)
(* redeem from has been closed: the list's order, in which troves are      *)
(* never moved when a redistribution changes all ratios, still stands.     *)
RiskiestRedeemedFirst ==
  [][IsRedemption =>
       \A b, c \in ActiveTroves :
         (/\ EntireDebt(b)' < EntireDebt(b)
          /\ CurrentICR(c, price) >= MCR
          /\ ClearlySafer(b, c)) => RedeemedNow(c)]_vars
==============================================================================
