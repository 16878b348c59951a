-------------------------- MODULE BorrowerOperations --------------------------
(***************************************************************************)
(* BorrowerOperations.sol: opening, adjusting and closing a trove, the     *)
(* claim of a collateral surplus and the registration of front ends, with  *)
(* the two switches of Governance.sol it consults before it mints.         *)
(*                                                                         *)
(* addColl, withdrawColl, withdrawARTH, repayARTH and adjustTrove are one  *)
(* internal function with different arguments; so is moveETHGainToTrove,   *)
(* which only the Stability Pool may call.                                 *)
(***************************************************************************)
EXTENDS TroveState

VARIABLES
  frontEnds,         (* addresses registered as front ends                 *)
  allowMinting,      (* Governance.allowMinting                            *)
  maxDebtCeiling     (* Governance.maxDebtCeiling                          *)

governanceVars == <<allowMinting, maxDebtCeiling>>

(* A transaction of this contract leaves alone what only liquidations and  *)
(* the environment change.                                                 *)
BOUnchanged == UNCHANGED <<rewardVars, envVars, governanceVars>>

ValidMaxFee(maxFee, recovery) ==
  /\ maxFee <= DECIMAL_PRECISION
  /\ recovery \/ BORROWING_FEE_FLOOR <= maxFee

(* _withdrawARTH compares the ceiling with the debt of the Active Pool and *)
(* the ARTH it mints, not with the debt it records.                        *)
MintAllowed(activeDebt, amount) ==
  /\ activeDebt + amount <= maxDebtCeiling
  /\ allowMinting

(* _triggerBorrowingFee: the fee, at the decayed base rate. *)
BorrowingFee(amount) ==
  (BorrowingRate(DecayedBaseRate) * amount) \div DECIMAL_PRECISION

BorrowingFeeAccepted(amount, maxFee) ==
  /\ DecayedBaseRate \in 0..DECIMAL_PRECISION
  /\ UserAcceptsFee(BorrowingFee(amount), amount, maxFee)

(* Seeded fault: the front end receives the whole fee, the fund its half. *)
MintFeeAndAHalf(balance, fee, tag) ==
  IF tag = NoFrontEnd THEN Plus(balance, Fund, fee)
  ELSE Plus(Plus(balance, tag, fee), Fund, fee \div 2)

(* A front end receives half of the fee, the fund the rest. *)
MintFee(balance, fee, tag) ==
  IF tag = NoFrontEnd THEN Plus(balance, Fund, fee)
  ELSE LET toFund == (fee * 50) \div 100
       IN  Plus(Plus(balance, tag, fee - toFund), Fund, toFund)

(* The base rate decays when a fee is triggered, and only then. *)
DecayBaseRate(charged) ==
  IF charged THEN /\ baseRate' = DecayedBaseRate
                  /\ lastFeeOperationTime' = NextFeeOpTime
  ELSE UNCHANGED feeVars

------------------------------------------------------------------------------

RegisterFrontEnd(a) ==
  /\ a \notin frontEnds
  /\ ~IsActive(a)
  /\ frontEnds' = frontEnds \cup {a}
  /\ UNCHANGED <<troveVars, feeVars, activePool, defaultPool, collSurplusPool,
                 stabilityPool, tokenVars>>
  /\ BOUnchanged

(* No unsigned subtraction is negative when the pending rewards of b's     *)
(* trove move to the Active Pool, its collateral and debt then change and  *)
(* its old stake is removed.                                               *)
AdjustArithmetic(b, trove, collDelta, debtDelta) ==
  /\ Troves[b].stake <= totalStakes
  /\ trove.movedETH <= defaultPool.ETH
  /\ trove.movedDebt <= defaultPool.ARTHDebt
  /\ activePool.ETH + trove.movedETH + collDelta >= 0
  /\ activePool.ARTHDebt + trove.movedDebt + debtDelta >= 0

(* _openTrove; recipient is who for openTrove, the owner for openTroveFor. *)
OpenTrove(who, recipient, value, amount, maxFee, tag) ==
  LET recovery  == InRecoveryMode(price)
      fee       == IF recovery THEN 0 ELSE BorrowingFee(amount)
      netDebt   == amount + fee
      debt      == CompositeDebt(netDebt)
      icr       == ComputeCR(value, debt, price)
      nicr      == ComputeNominalCR(value, debt)
      newTCR    == ComputeCR(EntireSystemColl + value, EntireSystemDebt + debt, price)
      stake     == NewStake(value)
  IN  /\ tag \in frontEnds \cup {NoFrontEnd}
      /\ who \notin frontEnds
      /\ ValidMaxFee(maxFee, recovery)
      /\ ~IsActive(who)
      /\ recovery \/ BorrowingFeeAccepted(amount, maxFee)
      /\ netDebt >= MIN_NET_DEBT
      /\ IF recovery THEN icr >= CCR ELSE icr >= MCR /\ newTCR >= CCR
      /\ StakeIsDefined
      /\ nicr > 0
      /\ MintAllowed(activePool.ARTHDebt, amount)
      /\ MintAllowed(activePool.ARTHDebt + netDebt, ARTH_GAS_COMPENSATION)
      /\ Troves' = [Troves EXCEPT ![who] =
           [status |-> "active", debt |-> debt, coll |-> value, stake |-> stake,
            frontEndTag |-> tag]]
      /\ rewardSnapshots' = [rewardSnapshots EXCEPT ![who] = L]
      /\ totalStakes' = totalStakes + stake
      /\ \E i \in ValidPositions(sortedTroves, nicr) :
           sortedTroves' = InsertAt(sortedTroves, i + 1, who)
      /\ TroveOwners' = Append(TroveOwners, who)
      /\ arrayIndex' = [arrayIndex EXCEPT ![who] = Len(TroveOwners)]
      /\ activePool' = [ETH |-> activePool.ETH + value,
                        ARTHDebt |-> activePool.ARTHDebt + debt]
      /\ arthBalance' = Plus(Plus(MintFee(arthBalance, fee, tag), recipient, amount),
                             GasPool, ARTH_GAS_COMPENSATION)
      /\ totalSupply' = totalSupply + fee + amount + ARTH_GAS_COMPENSATION
      /\ DecayBaseRate(~recovery)
      /\ UNCHANGED <<frontEnds, defaultPool, collSurplusPool, stabilityPool>>
      /\ BOUnchanged

(* Seeded fault: only the trove's own ratio is checked. *)
ValidForTheTrove(recovery, collWithdrawal, isDebtIncrease, oldICR, newICR, newTCR) ==
  IF recovery
  THEN isDebtIncrease => newICR >= CCR /\ newICR >= oldICR
  ELSE newICR >= MCR

(* _requireValidAdjustmentInCurrentMode *)
ValidAdjustment(recovery, collWithdrawal, isDebtIncrease, oldICR, newICR, newTCR) ==
  IF recovery
  THEN /\ collWithdrawal = 0
       /\ isDebtIncrease => newICR >= CCR /\ newICR >= oldICR
  ELSE newICR >= MCR /\ newTCR >= CCR

(* What is required of a repayment. *)
ValidRepayment(b, debt, change) ==
  /\ NetDebt(debt) - change >= MIN_NET_DEBT
  /\ change <= NetDebt(debt)
  /\ arthBalance[b] >= change

(* _adjustTrove: value is the ETH sent, to add to the collateral. *)
AdjustTrove(b, value, collWithdrawal, change, isDebtIncrease, maxFee) ==
  LET recovery  == InRecoveryMode(price)
      trove     == ApplyPendingRewards(b)
      charged   == isDebtIncrease /\ ~recovery
      fee       == IF charged THEN BorrowingFee(change) ELSE 0
      collDelta == IF value # 0 THEN value ELSE -collWithdrawal
      debtDelta == IF isDebtIncrease THEN change + fee ELSE -change
      newColl   == trove.coll + collDelta
      newDebt   == trove.debt + debtDelta
      oldICR    == ComputeCR(trove.coll, trove.debt, price)
      newICR    == ComputeCR(newColl, newDebt, price)
      newTCR    == ComputeCR(EntireSystemColl + collDelta,
                             EntireSystemDebt + debtDelta, price)
      nicr      == ComputeNominalCR(newColl, newDebt)
      stake     == NewStake(newColl)
      others    == Without(sortedTroves, {b})
      minted    == IF isDebtIncrease THEN change ELSE -change
  IN  /\ isDebtIncrease => ValidMaxFee(maxFee, recovery) /\ change > 0
      /\ value = 0 \/ collWithdrawal = 0
      /\ value # 0 \/ collWithdrawal # 0 \/ change # 0
      /\ IsActive(b)
      /\ charged => BorrowingFeeAccepted(change, maxFee)
      /\ newColl >= 0 /\ newDebt >= 0
      /\ ValidAdjustment(recovery, collWithdrawal, isDebtIncrease, oldICR, newICR, newTCR)
      /\ ~isDebtIncrease /\ change > 0 => ValidRepayment(b, trove.debt, change)
      /\ StakeIsDefined
      /\ nicr > 0
      /\ isDebtIncrease =>
           MintAllowed(activePool.ARTHDebt + trove.movedDebt, change)
      /\ AdjustArithmetic(b, trove, collDelta, debtDelta)
      /\ Troves' = [Troves EXCEPT ![b] =
           [@ EXCEPT !.debt = newDebt, !.coll = newColl, !.stake = stake]]
      /\ rewardSnapshots' = [rewardSnapshots EXCEPT ![b] = trove.snapshot]
      /\ totalStakes' = totalStakes - Troves[b].stake + stake
      /\ \E i \in ValidPositions(others, nicr) :
           sortedTroves' = InsertAt(others, i + 1, b)
      /\ activePool' = [ETH |-> activePool.ETH + trove.movedETH + collDelta,
                        ARTHDebt |-> activePool.ARTHDebt + trove.movedDebt + debtDelta]
      /\ defaultPool' = [ETH |-> defaultPool.ETH - trove.movedETH,
                         ARTHDebt |-> defaultPool.ARTHDebt - trove.movedDebt]
      /\ arthBalance' = Plus(MintFee(arthBalance, fee, Troves[b].frontEndTag), b, minted)
      /\ totalSupply' = totalSupply + fee + minted
      /\ DecayBaseRate(charged)
      /\ UNCHANGED <<TroveOwners, arrayIndex, frontEnds, collSurplusPool>>
      /\ BOUnchanged

(* _requireMoreThanOneTroveInSystem *)
MoreThanOneTroveInSystem == Len(TroveOwners) > 1 /\ Len(sortedTroves) > 1

CloseTrove(b) ==
  LET trove   == ApplyPendingRewards(b)
      newTCR  == ComputeCR(EntireSystemColl - trove.coll,
                           EntireSystemDebt - trove.debt, price)
      arr     == RemoveTroveOwners(<<b>>)
  IN  /\ IsActive(b)
      /\ ~InRecoveryMode(price)
      /\ arthBalance[b] >= NetDebt(trove.debt)
      /\ newTCR >= CCR
      /\ MoreThanOneTroveInSystem
      /\ AdjustArithmetic(b, trove, -trove.coll, -trove.debt)
      /\ arthBalance[GasPool] >= ARTH_GAS_COMPENSATION
      /\ Troves' = [Troves EXCEPT ![b] = ClosedTrove(b, "closedByOwner")]
      /\ rewardSnapshots' = [rewardSnapshots EXCEPT ![b] = ZeroSnapshot]
      /\ totalStakes' = totalStakes - Troves[b].stake
      /\ TroveOwners' = arr.owners /\ arrayIndex' = arr.index
      /\ sortedTroves' = Without(sortedTroves, {b})
      /\ activePool' = [ETH |-> activePool.ETH + trove.movedETH - trove.coll,
                        ARTHDebt |-> activePool.ARTHDebt + trove.movedDebt - trove.debt]
      /\ defaultPool' = [ETH |-> defaultPool.ETH - trove.movedETH,
                         ARTHDebt |-> defaultPool.ARTHDebt - trove.movedDebt]
      /\ arthBalance' = Minus(Minus(arthBalance, b, NetDebt(trove.debt)),
                              GasPool, ARTH_GAS_COMPENSATION)
      /\ totalSupply' = totalSupply - trove.debt
      /\ UNCHANGED <<feeVars, frontEnds, collSurplusPool, stabilityPool>>
      /\ BOUnchanged

(* Seeded fault: the balance of the owner survives the claim. *)
ClaimAgain(b) ==
  /\ collSurplusPool.balances[b] > 0
  /\ collSurplusPool.ETH >= collSurplusPool.balances[b]
  /\ collSurplusPool' = [collSurplusPool EXCEPT !.ETH = @ - collSurplusPool.balances[b]]
  /\ UNCHANGED <<troveVars, feeVars, activePool, defaultPool, stabilityPool,
                 tokenVars, frontEnds>>
  /\ BOUnchanged

ClaimCollateral(b) ==
  /\ collSurplusPool.balances[b] > 0
  /\ collSurplusPool.ETH >= collSurplusPool.balances[b]
  /\ collSurplusPool' =
       [collSurplusPool EXCEPT !.ETH = @ - collSurplusPool.balances[b],
                               !.balances = [@ EXCEPT ![b] = 0]]
  /\ UNCHANGED <<troveVars, feeVars, activePool, defaultPool, stabilityPool,
                 tokenVars, frontEnds>>
  /\ BOUnchanged
==============================================================================
