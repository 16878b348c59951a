------------------------------ MODULE ARTHSystem ------------------------------
(***************************************************************************)
(* One deployment of the protocol: the borrower operations, liquidations   *)
(* and redemptions of the core contracts, the movements of the Stability   *)
(* Pool's totals, transfers of the ARTH token, the governance switches and *)
(* the environment (price and time), in any order and by any caller.       *)
(*                                                                         *)
(* The Stability Pool appears with the two totals the other contracts see, *)
(* its ETH and totalARTHDeposits.  Which depositor owns what part of them  *)
(* is the business of its product P and sum S; here a depositor may own    *)
(* any of the Shares of the pool, so every behaviour of the real pool's    *)
(* totals is among those below.                                            *)
(***************************************************************************)
EXTENDS Liquidation, Redemption, BorrowerOperations

(* The values that calls pass and the environment takes, and the bounds.   *)
(* An empty set switches the calls off.                                    *)
CONSTANTS
  Prices,            (* prices of one ETH in ARTH                          *)
  TimeSteps,         (* seconds between two blocks                         *)
  Collaterals,       (* ETH sent to openTrove                              *)
  OpenAmounts,       (* ARTH drawn by openTrove                            *)
  OpensItself,       (* who may call openTrove                             *)
  OwnerOpensFor,     (* for whom the owner may call openTroveFor           *)
  CollChanges,       (* ETH added or withdrawn by an adjustment            *)
  DebtChanges,       (* ARTH drawn or repaid by an adjustment              *)
  MaxFees,           (* _maxFeePercentage                                  *)
  Closers,           (* who may call closeTrove                            *)
  FrontEndAddresses, (* who may register as a front end                    *)
  SequenceLengths,   (* _n of liquidateTroves                              *)
  TroveArrays,       (* _troveArray of batchLiquidateTroves                *)
  SingleLiquidations,(* argument of liquidate                              *)
  Liquidators,       (* callers of the liquidations                        *)
  Redeemers, RedeemAmounts, RedeemIterations, RedeemHints,
  DepositAmounts,    (* ARTH provided to or withdrawn from the pool        *)
  Shares,            (* percentage of the pool one depositor may own       *)
  TransferAmounts,   (* ARTH moved by a token transfer                     *)
  MintSwitches,      (* values of setAllowMinting                          *)
  Ceilings,          (* values of setMaxDebtCeiling                        *)
  InitialCeiling,    (* _maxDebtCeiling of Governance's constructor        *)
  MaxOpenings,       (* bound: calls of openTrove in a behaviour           *)
  MaxSystemColl, MaxSystemDebt,  (* bounds: size of the system             *)
  MaxTime            (* bound: block.timestamp                             *)

(* The values that calls pass are amounts, troves and accounts.  The       *)
(* protocol's own contracts call none of these functions, and no account   *)
(* that is not a borrower registers as a front end.                        *)
ASSUME InputAssumption ==
  /\ Prices \subseteq Nat \ {0}
  /\ Collaterals \subseteq Nat /\ OpenAmounts \subseteq Nat
  /\ CollChanges \subseteq Nat /\ DebtChanges \subseteq Nat
  /\ DepositAmounts \subseteq Nat /\ TransferAmounts \subseteq Nat
  /\ Shares \subseteq 0..100
  /\ FrontEndAddresses \subseteq Borrowers
  /\ SequenceLengths \subseteq Nat /\ TroveArrays \subseteq Seq(Borrowers)
  /\ SingleLiquidations \subseteq Borrowers
  /\ RedeemAmounts \subseteq Nat /\ RedeemIterations \subseteq Nat
  /\ Liquidators \cup Redeemers \subseteq Borrowers \cup {Owner, Fund}
  /\ TimeSteps \subseteq Nat
  /\ MintSwitches \subseteq BOOLEAN
  /\ Ceilings \subseteq Nat /\ InitialCeiling \in Nat

VARIABLE openings    (* openTrove calls so far; only the bound reads it    *)

vars == <<troveVars, rewardVars, feeVars, tokenVars, envVars, activePool,
          defaultPool, collSurplusPool, stabilityPool, frontEnds,
          governanceVars, openings>>

coreRest == <<frontEnds, governanceVars, openings>>

Init ==
  /\ CoreInit(Prices)
  /\ frontEnds = {} /\ allowMinting = TRUE /\ maxDebtCeiling = InitialCeiling
  /\ openings = 0

WithinBounds ==
  /\ activePool'.ETH + defaultPool'.ETH <= MaxSystemColl
  /\ activePool'.ARTHDebt + defaultPool'.ARTHDebt <= MaxSystemDebt

------------------------------------------------------------------------------
(* Borrower operations. *)

Open(who, recipient) ==
  /\ openings < MaxOpenings
  /\ \E value \in Collaterals, amount \in OpenAmounts, maxFee \in MaxFees,
        tag \in frontEnds \cup {NoFrontEnd} :
       OpenTrove(who, recipient, value, amount, maxFee, tag)
  /\ WithinBounds
  /\ openings' = openings + 1

OpenForSelf(b) == b \in OpensItself /\ Open(b, b)

(* openTroveFor is onlyOwner, and the owner receives the ARTH. *)
OpenForOther(b) == b \in OwnerOpensFor /\ Open(b, Owner)

(* addColl, withdrawColl, withdrawARTH, repayARTH and adjustTrove. *)
Adjust(b) ==
  /\ \E value \in CollChanges \cup {0}, withdrawal \in CollChanges \cup {0},
        change \in DebtChanges \cup {0}, isDebtIncrease \in BOOLEAN,
        maxFee \in MaxFees :
       AdjustTrove(b, value, withdrawal, change, isDebtIncrease, maxFee)
  /\ WithinBounds
  /\ UNCHANGED <<stabilityPool, openings>>

Close(b) == b \in Closers /\ CloseTrove(b) /\ UNCHANGED openings

Claim(b) == ClaimCollateral(b) /\ UNCHANGED openings

Register(a) == RegisterFrontEnd(a) /\ UNCHANGED openings

------------------------------------------------------------------------------
(* The Stability Pool's totals. *)

Part(share, total) == (total * share) \div 100

(* What a caller of the pool leaves alone. *)
PoolCallUnchanged ==
  UNCHANGED <<troveVars, rewardVars, feeVars, envVars, activePool, defaultPool,
              collSurplusPool, totalSupply, coreRest>>

(* _provideToSP: the gain of an earlier deposit is paid out as well. *)
ProvideToSP(a, amount, gain) ==
  /\ amount > 0
  /\ arthBalance[a] >= amount
  /\ gain \in 0..stabilityPool.ETH
  /\ arthBalance' = Plus(Minus(arthBalance, a, amount), SPAddress, amount)
  /\ stabilityPool' = [ETH |-> stabilityPool.ETH - gain,
                       totalARTHDeposits |-> stabilityPool.totalARTHDeposits + amount]
  /\ PoolCallUnchanged

(* _requireNoUnderCollateralizedTroves *)
NoUnderCollateralizedTroves ==
  sortedTroves # <<>> => CurrentICR(sortedTroves[Len(sortedTroves)], price) >= MCR

WithdrawFromSP(a, amount, deposit, gain) ==
  LET withdrawn == MinOf(amount, deposit)
  IN  /\ amount # 0 => NoUnderCollateralizedTroves
      /\ deposit \in 0..stabilityPool.totalARTHDeposits
      /\ gain \in 0..stabilityPool.ETH
      /\ arthBalance' = Plus(Minus(arthBalance, SPAddress, withdrawn), a, withdrawn)
      /\ stabilityPool' = [ETH |-> stabilityPool.ETH - gain,
                           totalARTHDeposits |->
                             stabilityPool.totalARTHDeposits - withdrawn]
      /\ PoolCallUnchanged

(* withdrawETHGainToTrove, which calls moveETHGainToTrove. *)
WithdrawETHGainToTrove(b, gain) ==
  /\ gain \in 1..stabilityPool.ETH
  /\ AdjustTrove(b, gain, 0, 0, FALSE, 0)
  /\ WithinBounds
  /\ stabilityPool' = [stabilityPool EXCEPT !.ETH = @ - gain]
  /\ UNCHANGED openings

Deposit(a) ==
  \E amount \in DepositAmounts, share \in Shares :
    ProvideToSP(a, amount, Part(share, stabilityPool.ETH))

Withdraw(a) ==
  \E amount \in DepositAmounts \cup {0}, share \in Shares, gainShare \in Shares :
    WithdrawFromSP(a, amount, Part(share, stabilityPool.totalARTHDeposits),
                   Part(gainShare, stabilityPool.ETH))

GainToTrove(b) ==
  \E share \in Shares : WithdrawETHGainToTrove(b, Part(share, stabilityPool.ETH))

------------------------------------------------------------------------------
(* The ARTH token, governance and the environment. *)

(* transfer: _requireValidRecipient refuses the Stability Pool, the trove  *)
(* manager and the borrower operations, but not the gas pool.              *)
Transfer(from, to, amount) ==
  /\ to # SPAddress
  /\ arthBalance[from] >= amount
  /\ arthBalance' = Plus(Minus(arthBalance, from, amount), to, amount)
  /\ UNCHANGED <<troveVars, rewardVars, feeVars, envVars, activePool, defaultPool,
                 collSurplusPool, stabilityPool, totalSupply, coreRest>>

AnyTransfer ==
  \E from \in Borrowers \cup {Owner, Fund}, to \in Accounts, amount \in TransferAmounts :
    Transfer(from, to, amount)

ledgers == <<troveVars, rewardVars, feeVars, tokenVars, activePool, defaultPool,
             collSurplusPool, stabilityPool, frontEnds, openings>>

SetAllowMinting(value) ==
  /\ allowMinting' = value
  /\ UNCHANGED <<ledgers, maxDebtCeiling, envVars>>

SetMaxDebtCeiling(value) ==
  /\ maxDebtCeiling' = value
  /\ UNCHANGED <<ledgers, allowMinting, envVars>>

SetPrice(p) ==
  /\ price' = p
  /\ UNCHANGED <<ledgers, governanceVars, now>>

Tick(seconds) ==
  /\ now + seconds <= MaxTime
  /\ now' = now + seconds
  /\ UNCHANGED <<ledgers, governanceVars, price>>

------------------------------------------------------------------------------

LiquidateStep ==
  /\ \E liquidator \in Liquidators :
       \/ \E n \in SequenceLengths : LiquidateTroves(n, liquidator)
       \/ \E troveArray \in TroveArrays : BatchLiquidateTroves(troveArray, liquidator)
       \/ \E b \in SingleLiquidations : Liquidate(b, liquidator)
  /\ UNCHANGED coreRest

RedeemStep ==
  /\ \E redeemer \in Redeemers, amount \in RedeemAmounts,
        hint \in RedeemHints, hintIsFresh \in BOOLEAN,
        maxIterations \in RedeemIterations, maxFee \in MaxFees :
       RedeemCollateral(redeemer, amount, hint, hintIsFresh, maxIterations, maxFee)
  /\ UNCHANGED coreRest

BorrowerStep ==
  \E b \in Borrowers : \/ OpenForSelf(b) \/ OpenForOther(b) \/ Adjust(b)
                       \/ Close(b) \/ Claim(b)

PoolStep ==
  \/ \E a \in Borrowers \cup {Owner} : Deposit(a)
  \/ \E b \in Borrowers : Withdraw(b) \/ GainToTrove(b)

GovernanceStep ==
  \/ \E a \in FrontEndAddresses : Register(a)
  \/ \E value \in MintSwitches : SetAllowMinting(value)
  \/ \E value \in Ceilings : SetMaxDebtCeiling(value)

EnvironmentStep ==
  \/ AnyTransfer
  \/ \E p \in Prices : SetPrice(p)
  \/ \E seconds \in TimeSteps : Tick(seconds)

Next ==
  \/ BorrowerStep
  \/ PoolStep
  \/ LiquidateStep
  \/ RedeemStep
  \/ GovernanceStep
  \/ EnvironmentStep

Spec == Init /\ [][Next]_vars
==============================================================================
