------------------------------ MODULE TroveState ------------------------------
(***************************************************************************)
(* The state the core contracts share, and the views they compute on it:   *)
(* TroveManager.sol with ActivePool, DefaultPool, CollSurplusPool, GasPool,*)
(* the totals of StabilityPool.sol and the ARTH token.                     *)
(*                                                                         *)
(* Every external call of the contracts is one EVM transaction: it runs    *)
(* alone and either completes or reverts as a whole.  So each handler is   *)
(* one action, and a handler that would revert is an action that is not    *)
(* enabled.                                                                *)
(*                                                                         *)
(* The sorted list is kept here as a sequence, from the trove with the     *)
(* highest nominal ratio (getFirst) to the lowest (getLast).  The linked   *)
(* list with position hints that implements it is module SortedTroves.     *)
(***************************************************************************)
EXTENDS LiquityMath, FiniteSets, SequencesExt

CONSTANTS
  Borrowers,             (* addresses that open troves, deposit, redeem    *)
  Owner,                 (* owner of BorrowerOperations (openTroveFor)     *)
  Fund,                  (* the ecosystem fund that receives the fees      *)
  GasPool,               (* address of GasPool.sol                         *)
  SPAddress,             (* address of StabilityPool.sol                   *)
  NoFrontEnd,            (* address(0) as a front end tag                  *)
  MCR, CCR,              (* minimum and critical collateral ratios         *)
  PERCENT_DIVISOR,       (* gas compensation is coll / PERCENT_DIVISOR     *)
  ARTH_GAS_COMPENSATION, (* liquidation reserve, locked in the gas pool    *)
  MIN_NET_DEBT,          (* least debt of a trove, without the reserve     *)
  BETA,                  (* redeemed fraction / BETA is added to baseRate  *)
  MINUTE_DECAY_FACTOR,   (* decay of baseRate per minute                   *)
  SECONDS_IN_ONE_MINUTE,
  BOOTSTRAP_PERIOD,      (* no redemption this long after the deployment   *)
  BORROWING_FEE_FLOOR, MAX_BORROWING_FEE, REDEMPTION_FEE_FLOOR

OneHundredPct == DECIMAL_PRECISION

Accounts == Borrowers \cup {Owner, Fund, GasPool, SPAddress}

ASSUME AddressAssumption ==
  /\ IsFiniteSet(Borrowers)
  /\ Borrowers \cap {Owner, Fund, GasPool, SPAddress} = {}
  /\ Owner # Fund /\ Owner # GasPool /\ Owner # SPAddress
  /\ Fund # GasPool /\ Fund # SPAddress /\ GasPool # SPAddress
  /\ NoFrontEnd \notin Accounts

ASSUME RateAssumption ==
  /\ MCR \in Nat /\ CCR \in Nat
  /\ OneHundredPct < MCR /\ MCR < CCR /\ CCR < MaxUint
  /\ PERCENT_DIVISOR \in Nat \ {0}
  /\ BETA \in Nat \ {0}
  /\ SECONDS_IN_ONE_MINUTE \in Nat \ {0}
  /\ BOOTSTRAP_PERIOD \in Nat
  /\ MINUTE_DECAY_FACTOR \in 0..DECIMAL_PRECISION
  /\ BORROWING_FEE_FLOOR \in 0..DECIMAL_PRECISION
  /\ MAX_BORROWING_FEE \in 0..DECIMAL_PRECISION
  /\ REDEMPTION_FEE_FLOOR \in 0..DECIMAL_PRECISION

(* The base rate decays: by a factor below one (0.999 in the code), over   *)
(* exponents that are not all cut to zero.                                 *)
ASSUME DecayAssumption == MINUTE_DECAY_FACTOR < DECIMAL_PRECISION /\ MAX_MINUTES > 0

ASSUME DebtAssumption ==
  /\ ARTH_GAS_COMPENSATION \in Nat
  /\ MIN_NET_DEBT \in Nat \ {0}

VARIABLES
  Troves,              (* borrower -> status, debt, coll, stake, front end *)
  TroveOwners,         (* array of the owners of active troves             *)
  arrayIndex,          (* Troves[b].arrayIndex, counted from 0             *)
  sortedTroves,        (* the list, highest nominal ratio first            *)
  rewardSnapshots,     (* borrower -> L when its rewards were last applied *)
  L,                   (* L_ETH and L_ARTHDebt                             *)
  lastError,           (* last{ETH,ARTHDebt}Error_Redistribution           *)
  totalStakes,
  systemSnapshots,     (* totalStakesSnapshot, totalCollateralSnapshot     *)
  baseRate,
  lastFeeOperationTime,
  activePool,          (* ETH, ARTHDebt of ActivePool                      *)
  defaultPool,         (* ETH, ARTHDebt of DefaultPool                     *)
  collSurplusPool,     (* ETH and balances of CollSurplusPool              *)
  stabilityPool,       (* ETH and totalARTHDeposits of StabilityPool       *)
  arthBalance,         (* ARTH token: account -> balance                   *)
  totalSupply,         (* ARTH token: _totalSupply                         *)
  price,               (* what fetchPrice() returns                        *)
  now                  (* block.timestamp, counted from the deployment     *)

troveVars  == <<Troves, TroveOwners, arrayIndex, sortedTroves,
                rewardSnapshots, totalStakes>>
rewardVars == <<L, lastError, systemSnapshots>>
feeVars    == <<baseRate, lastFeeOperationTime>>
tokenVars  == <<arthBalance, totalSupply>>
envVars    == <<price, now>>

Statuses == {"nonExistent", "active", "closedByOwner", "closedByLiquidation",
             "closedByRedemption"}

NoTrove == [status |-> "nonExistent", debt |-> 0, coll |-> 0, stake |-> 0,
            frontEndTag |-> NoFrontEnd]

(* The contracts as setAddresses leaves them, with a first price. *)
CoreInit(prices) ==
  /\ Troves = [b \in Borrowers |-> NoTrove]
  /\ TroveOwners = <<>> /\ sortedTroves = <<>>
  /\ arrayIndex = [b \in Borrowers |-> 0]
  /\ rewardSnapshots = [b \in Borrowers |-> [ETH |-> 0, ARTHDebt |-> 0]]
  /\ L = [ETH |-> 0, ARTHDebt |-> 0]
  /\ lastError = [ETH |-> 0, ARTHDebt |-> 0]
  /\ totalStakes = 0
  /\ systemSnapshots = [stakes |-> 0, coll |-> 0]
  /\ baseRate = 0 /\ lastFeeOperationTime = 0
  /\ activePool = [ETH |-> 0, ARTHDebt |-> 0]
  /\ defaultPool = [ETH |-> 0, ARTHDebt |-> 0]
  /\ collSurplusPool = [ETH |-> 0, balances |-> [b \in Borrowers |-> 0]]
  /\ stabilityPool = [ETH |-> 0, totalARTHDeposits |-> 0]
  /\ arthBalance = [a \in Accounts |-> 0]
  /\ totalSupply = 0
  /\ price \in prices /\ now = 0

------------------------------------------------------------------------------
(* Views on one trove. *)

IsActive(b) == Troves[b].status = "active"

PendingETHReward(b) ==
  IF IsActive(b)
  THEN (Troves[b].stake * (L.ETH - rewardSnapshots[b].ETH)) \div DECIMAL_PRECISION
  ELSE 0

PendingARTHDebtReward(b) ==
  IF IsActive(b)
  THEN (Troves[b].stake * (L.ARTHDebt - rewardSnapshots[b].ARTHDebt))
         \div DECIMAL_PRECISION
  ELSE 0

(* Only the ETH snapshot is compared, as in the code. *)
HasPendingRewards(b) == IsActive(b) /\ rewardSnapshots[b].ETH < L.ETH

EntireColl(b) == Troves[b].coll + PendingETHReward(b)
EntireDebt(b) == Troves[b].debt + PendingARTHDebtReward(b)

NominalICR(b)    == ComputeNominalCR(EntireColl(b), EntireDebt(b))
CurrentICR(b, p) == ComputeCR(EntireColl(b), EntireDebt(b), p)

(* Seeded fault: the snapshot is not renewed. *)
ApplyWithOldSnapshot(b) ==
  [coll |-> EntireColl(b), debt |-> EntireDebt(b), snapshot |-> rewardSnapshots[b],
   movedETH |-> PendingETHReward(b), movedDebt |-> PendingARTHDebtReward(b)]

(* What _applyPendingRewards makes of b's trove, and what it moves from    *)
(* DefaultPool to ActivePool.                                              *)
ApplyPendingRewards(b) ==
  IF HasPendingRewards(b)
  THEN [coll |-> EntireColl(b), debt |-> EntireDebt(b), snapshot |-> L,
        movedETH |-> PendingETHReward(b),
        movedDebt |-> PendingARTHDebtReward(b)]
  ELSE [coll |-> Troves[b].coll, debt |-> Troves[b].debt,
        snapshot |-> rewardSnapshots[b], movedETH |-> 0, movedDebt |-> 0]

(* The assertion of _computeNewStake, and the stake it computes. *)
StakeIsDefined == systemSnapshots.coll > 0 => systemSnapshots.stakes > 0

NewStake(coll) ==
  IF systemSnapshots.coll = 0 THEN coll
  ELSE (coll * systemSnapshots.stakes) \div systemSnapshots.coll

------------------------------------------------------------------------------
(* Views on the whole system. *)

EntireSystemColl == activePool.ETH + defaultPool.ETH
EntireSystemDebt == activePool.ARTHDebt + defaultPool.ARTHDebt

TCR(p) == ComputeCR(EntireSystemColl, EntireSystemDebt, p)
InRecoveryMode(p) == TCR(p) < CCR

CompositeDebt(debt) == debt + ARTH_GAS_COMPENSATION
NetDebt(debt) == debt - ARTH_GAS_COMPENSATION
CollGasCompensation(coll) == coll \div PERCENT_DIVISOR

(* _requireUserAcceptsFee *)
UserAcceptsFee(fee, amount, maxFee) ==
  (fee * DECIMAL_PRECISION) \div amount <= maxFee

------------------------------------------------------------------------------
(* The base rate. *)

MinutesPassedSinceLastFeeOp ==
  (now - lastFeeOperationTime) \div SECONDS_IN_ONE_MINUTE

DecayedBaseRate ==
  (baseRate * DecPow(MINUTE_DECAY_FACTOR, MinutesPassedSinceLastFeeOp))
    \div DECIMAL_PRECISION

(* Seeded fault: every fee operation restarts the clock. *)
AlwaysNow == now

(* _updateLastFeeOpTime: only whole intervals restart the clock. *)
NextFeeOpTime ==
  IF now - lastFeeOperationTime >= SECONDS_IN_ONE_MINUTE
  THEN now ELSE lastFeeOperationTime

BorrowingRate(rate)  == MinOf(BORROWING_FEE_FLOOR + rate, MAX_BORROWING_FEE)
RedemptionRate(rate) == MinOf(REDEMPTION_FEE_FLOOR + rate, DECIMAL_PRECISION)

------------------------------------------------------------------------------
(* The array of owners and the sorted list. *)

(* Seeded fault: the moved owner keeps its old index. *)
SwapRemoveKeepingIndex(arr, b) ==
  [owners |-> Front([arr.owners EXCEPT ![arr.index[b] + 1] = arr.owners[Len(arr.owners)]]),
   index  |-> arr.index]

(* _removeTroveOwner: the last owner moves into b's slot. *)
SwapRemove(arr, b) ==
  LET slot == arr.index[b]
      last == arr.owners[Len(arr.owners)]
  IN  [owners |-> Front([arr.owners EXCEPT ![slot + 1] = last]),
       index  |-> [arr.index EXCEPT ![last] = slot]]

(* The array after the troves of the sequence bs are closed in that order. *)
RemoveTroveOwners(bs) ==
  FoldLeft(SwapRemove, [owners |-> TroveOwners, index |-> arrayIndex], bs)

(* The list after the removal of the troves in S. *)
Without(list, S) ==
  FoldLeft(LAMBDA rest, b : IF b \in S THEN rest ELSE Append(rest, b), <<>>, list)

(* Seeded fault: a hinted position is taken unchecked. *)
AnyPosition(list, nicr) == 0..Len(list)

(* Slots i (after the i-th trove) where a nominal ratio fits the list.     *)
(* Which one a call uses depends on its hints.                             *)
ValidPositions(list, nicr) ==
  { i \in 0..Len(list) :
      /\ i > 0 => NominalICR(list[i]) >= nicr
      /\ i < Len(list) => nicr >= NominalICR(list[i + 1]) }

ClosedTrove(b, status) ==
  [Troves[b] EXCEPT !.status = status, !.debt = 0, !.coll = 0, !.stake = 0]

ZeroSnapshot == [ETH |-> 0, ARTHDebt |-> 0]

------------------------------------------------------------------------------
(* Token movements. *)

Plus(balance, a, x)  == [balance EXCEPT ![a] = @ + x]
Minus(balance, a, x) == [balance EXCEPT ![a] = @ - x]
==============================================================================
