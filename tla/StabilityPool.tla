----------------------------- MODULE StabilityPool -----------------------------
(***************************************************************************)
(* StabilityPool.sol: deposits that absorb liquidated debt.                *)
(*                                                                         *)
(* A deposit is never touched by a liquidation.  The contract keeps a      *)
(* running product P of the losses and running sums S and G of the gains   *)
(* in ether and MAHA, and a deposit's present value and gains follow from  *)
(* the values these had when the deposit was last written.  P lives on a   *)
(* scale that moves when P gets small, and in an epoch that ends when the  *)
(* pool is emptied.  The deposits tagged with a front end are also added   *)
(* up in that front end's stake, which is kept by the same arithmetic;     *)
(* deposits without a front end are added up under the zero address.       *)
(*                                                                         *)
(* SafeMath's reverts and the assertions are guards.  The two conditions   *)
(* on other contracts (no undercollateralised trove to withdraw, an active *)
(* trove to move a gain to) may hold or not at any time, so they restrict  *)
(* nothing here; ARTHSystem models them.                                   *)
(***************************************************************************)
EXTENDS CommunityIssuance, FiniteSetsExt

CONSTANTS
  Depositors,
  FrontEnds,          (* addresses that may register as a front end        *)
  NoFrontEnd,         (* address(0)                                        *)
  SCALE_FACTOR,       (* 1e9 in the code                                   *)
  KickbackRates,
  Amounts,            (* amounts of ARTH provided and withdrawn            *)
  Troves,             (* troves that may be liquidated, [debt, coll]       *)
  Supply,             (* ARTH the depositors hold at the start             *)
  MaxScale, MaxEpoch, (* bounds of uint128 counters                        *)
  MaxSum              (* bound of the sums S and G                         *)

ASSUME PoolAssumption ==
  /\ SCALE_FACTOR \in Nat \ {0}
  /\ KickbackRates \subseteq 0..DECIMAL_PRECISION
  /\ Amounts \subseteq Nat
  /\ Troves \subseteq [debt : Nat \ {0}, coll : Nat]
  /\ Supply \in Nat
  /\ MaxScale \in Nat
  /\ MaxEpoch \in Nat
  /\ NoFrontEnd \notin Depositors \cup FrontEnds

(* 1e9 and 1e18 in the code: a product that has moved to the next scale is *)
(* smaller than the first one.                                             *)
ASSUME ScaleAssumption == SCALE_FACTOR * SCALE_FACTOR <= DECIMAL_PRECISION

(* Only finitely many addresses have a deposit or are a front end.         *)
ASSUME FiniteAssumption == IsFiniteSet(Depositors) /\ IsFiniteSet(FrontEnds)

VARIABLES
  deposits, depositSnapshots, frontEnds, frontEndStakes, frontEndSnapshots,
  P, currentScale, currentEpoch, epochToScaleToSum, epochToScaleToG,
  lastMAHAError, lastETHError, lastARTHLossError, totalARTHDeposits, ETH,
  arthOutside         (* ARTH the depositors hold outside the pool         *)

accountVars ==
  <<deposits, depositSnapshots, frontEnds, frontEndStakes, frontEndSnapshots>>
productVars == <<P, currentScale, currentEpoch, epochToScaleToSum>>
errorVars == <<lastETHError, lastARTHLossError>>
vars == <<accountVars, productVars, errorVars, epochToScaleToG, lastMAHAError,
          totalARTHDeposits, ETH, arthOutside, issuanceVars>>

Accounts == Depositors \cup FrontEnds
Tags == FrontEnds \cup {NoFrontEnd}
Epochs == 0..MaxEpoch
Scales == 0..(MaxScale + 1)    (* the views read the sum one scale further *)

Snapshot == [S : Nat, P : Nat, G : Nat, scale : 0..MaxScale, epoch : Epochs]
NoSnapshot == [S |-> 0, P |-> 0, G |-> 0, scale |-> 0, epoch |-> 0]
NoDeposit == [initialValue |-> 0, frontEndTag |-> NoFrontEnd]

PoolTypeOK ==
  /\ IssuanceTypeOK
  /\ deposits \in [Accounts -> [initialValue : Nat, frontEndTag : Tags]]
  /\ depositSnapshots \in [Accounts -> Snapshot]
  /\ frontEnds \in [FrontEnds -> [kickbackRate : 0..DECIMAL_PRECISION,
                                  registered : BOOLEAN]]
  /\ frontEndStakes \in [Tags -> Nat]
  /\ frontEndSnapshots \in [Tags -> Snapshot]
  /\ P \in Nat \ {0}
  /\ currentScale \in 0..MaxScale
  /\ currentEpoch \in Epochs
  /\ epochToScaleToSum \in [Epochs -> [Scales -> Nat]]
  /\ epochToScaleToG \in [Epochs -> [Scales -> Nat]]
  /\ lastMAHAError \in Nat
  /\ lastETHError \in Nat
  /\ lastARTHLossError \in Nat
  /\ totalARTHDeposits \in Nat
  /\ ETH \in Nat
  /\ arthOutside \in Nat

Init ==
  /\ IssuanceInit
  /\ deposits = [a \in Accounts |-> NoDeposit]
  /\ depositSnapshots = [a \in Accounts |-> NoSnapshot]
  /\ frontEnds = [f \in FrontEnds |-> [kickbackRate |-> 0, registered |-> FALSE]]
  /\ frontEndStakes = [t \in Tags |-> 0]
  /\ frontEndSnapshots = [t \in Tags |-> NoSnapshot]
  /\ P = DECIMAL_PRECISION
  /\ currentScale = 0
  /\ currentEpoch = 0
  /\ epochToScaleToSum = [e \in Epochs |-> [s \in Scales |-> 0]]
  /\ epochToScaleToG = [e \in Epochs |-> [s \in Scales |-> 0]]
  /\ lastMAHAError = 0
  /\ lastETHError = 0
  /\ lastARTHLossError = 0
  /\ totalARTHDeposits = 0
  /\ ETH = 0
  /\ arthOutside = Supply

-------------------------------------------------------------------------------
(* The views. *)

(* Seeded fault: a change of scale since the deposit is not corrected for. *)
CompoundedIgnoringScale(stake, snap) ==
  IF stake = 0 \/ snap.epoch < currentEpoch THEN 0
  ELSE LET compounded == (stake * P) \div snap.P
       IN  IF compounded < stake \div SCALE_FACTOR THEN 0 ELSE compounded

(* Seeded fault: the epoch of the snapshot is not looked at. *)
CompoundedAcrossEpochs(stake, snap) ==
  IF stake = 0 \/ currentScale - snap.scale > 1 THEN 0
  ELSE LET unscaled == (stake * P) \div snap.P
           compounded == IF currentScale = snap.scale THEN unscaled
                         ELSE unscaled \div SCALE_FACTOR
       IN  IF compounded < stake \div SCALE_FACTOR THEN 0 ELSE compounded

(* _getCompoundedStakeFromSnapshots, and 0 for no stake.  The literal 1e9  *)
(* of the last test is the scale factor.                                   *)
Compounded(stake, snap) ==
  IF stake = 0 \/ snap.epoch < currentEpoch \/ currentScale - snap.scale > 1 THEN 0
  ELSE LET unscaled == (stake * P) \div snap.P
           compounded == IF currentScale = snap.scale THEN unscaled
                         ELSE unscaled \div SCALE_FACTOR
       IN  IF compounded < stake \div SCALE_FACTOR THEN 0 ELSE compounded

(* What a stake earned in a running sum since its snapshot value was taken: *)
(* the rest of the snapshot's scale, and the next scale, which counts      *)
(* SCALE_FACTOR times less.                                                *)
GainFrom(sums, stake, snapValue, snap) ==
  IF stake = 0 THEN 0
  ELSE ((stake * (sums[snap.epoch][snap.scale] - snapValue
                    + sums[snap.epoch][snap.scale + 1] \div SCALE_FACTOR))
          \div snap.P) \div DECIMAL_PRECISION

ETHGain(a) ==
  GainFrom(epochToScaleToSum, deposits[a].initialValue, depositSnapshots[a].S,
           depositSnapshots[a])

CompoundedDeposit(a) == Compounded(deposits[a].initialValue, depositSnapshots[a])

CompoundedFrontEndStake(t) == Compounded(frontEndStakes[t], frontEndSnapshots[t])

KickbackRate(t) ==
  IF t = NoFrontEnd THEN DECIMAL_PRECISION ELSE frontEnds[t].kickbackRate

(* getDepositorMAHAGain and getFrontEndMAHAGain, for the sums G as they    *)
(* are after the issuance that precedes every payment.                     *)
DepositorMAHAGain(a, tag, sums) ==
  (KickbackRate(tag) * GainFrom(sums, deposits[a].initialValue,
                                depositSnapshots[a].G, depositSnapshots[a]))
    \div DECIMAL_PRECISION

FrontEndMAHAGain(t, sums) ==
  IF t = NoFrontEnd THEN 0    (* _payOutMAHAGains pays the zero address nothing *)
  ELSE ((DECIMAL_PRECISION - KickbackRate(t))
          * GainFrom(sums, frontEndStakes[t], frontEndSnapshots[t].G,
                     frontEndSnapshots[t])) \div DECIMAL_PRECISION

-------------------------------------------------------------------------------
(* _triggerMAHAIssuance: what _updateG and _computeMAHAPerUnitStaked leave. *)

MAHANumerator == CumulativeIssuance * DECIMAL_PRECISION + lastMAHAError

MAHAIsDistributed == totalARTHDeposits > 0 /\ CumulativeIssuance > 0

GAfterIssuance ==
  IF MAHAIsDistributed
    THEN [epochToScaleToG EXCEPT ![currentEpoch][currentScale] =
            @ + (MAHANumerator \div totalARTHDeposits) * P]
    ELSE epochToScaleToG

TriggerMAHAIssuance(paid) ==
  /\ epochToScaleToG' = GAfterIssuance
  /\ epochToScaleToG'[currentEpoch][currentScale] <= MaxSum
  /\ lastMAHAError' = IF MAHAIsDistributed
                        THEN MAHANumerator % totalARTHDeposits ELSE lastMAHAError
  /\ IssueMAHA(paid)

-------------------------------------------------------------------------------
(* Depositors. *)

CurrentSnapshot(sums) ==
  [S |-> epochToScaleToSum[currentEpoch][currentScale], P |-> P,
   G |-> sums[currentEpoch][currentScale],
   scale |-> currentScale, epoch |-> currentEpoch]

(* Seeded fault: the snapshot keeps the sum S of the last one. *)
UpdateDepositKeepingS(a, tag, value, sums) ==
  /\ deposits' = [deposits EXCEPT ![a] =
       IF value = 0 THEN NoDeposit ELSE [initialValue |-> value, frontEndTag |-> tag]]
  /\ depositSnapshots' = [depositSnapshots EXCEPT ![a] =
       IF value = 0 THEN NoSnapshot
       ELSE [CurrentSnapshot(sums) EXCEPT !.S = depositSnapshots[a].S]]

UpdateDepositAndSnapshots(a, tag, value, sums) ==
  /\ deposits' = [deposits EXCEPT ![a] =
       IF value = 0 THEN NoDeposit ELSE [initialValue |-> value, frontEndTag |-> tag]]
  /\ depositSnapshots' = [depositSnapshots EXCEPT ![a] =
       IF value = 0 THEN NoSnapshot ELSE CurrentSnapshot(sums)]

(* The snapshot of a front end has no S. *)
UpdateFrontEndStakeAndSnapshots(t, value, sums) ==
  /\ frontEndStakes' = [frontEndStakes EXCEPT ![t] = value]
  /\ frontEndSnapshots' = [frontEndSnapshots EXCEPT ![t] =
       IF value = 0 THEN NoSnapshot ELSE [CurrentSnapshot(sums) EXCEPT !.S = 0]]

(* What the three depositor operations have in common: MAHA is issued, the *)
(* gains are computed and paid, the stake of the front end and the deposit *)
(* are brought to their present value and changed by what is added or      *)
(* removed, and new snapshots are taken.                                   *)
DepositorOperation(a, tag, added, removed) ==
  LET frontEndGain == FrontEndMAHAGain(tag, GAfterIssuance)
      depositorGain == DepositorMAHAGain(a, tag, GAfterIssuance)
  IN  /\ TriggerMAHAIssuance(frontEndGain + depositorGain)
      /\ CompoundedDeposit(a) <= deposits[a].initialValue     (* ARTHLoss *)
      /\ removed <= CompoundedFrontEndStake(tag) + added
      /\ removed <= totalARTHDeposits
      /\ UpdateFrontEndStakeAndSnapshots(tag,
           CompoundedFrontEndStake(tag) + added - removed, GAfterIssuance)
      /\ UpdateDepositAndSnapshots(a, tag,
           CompoundedDeposit(a) + added - removed, GAfterIssuance)
      /\ totalARTHDeposits' = totalARTHDeposits + added - removed
      /\ arthOutside' = arthOutside - added + removed
      /\ ETHGain(a) <= ETH
      /\ ETH' = ETH - ETHGain(a)
      /\ UNCHANGED <<frontEnds, productVars, errorVars>>

Registered(f) == f \in FrontEnds /\ frontEnds[f].registered

(* _provideToSP: the tag is taken from the call only for a new deposit.    *)
(* For provideToSP the caller is the depositor; for provideToSPFor, the    *)
(* owner, who also receives the depositor's ether gain.                    *)
ProvideToSP(a, amount, frontEndTag) ==
  /\ frontEndTag = NoFrontEnd \/ Registered(frontEndTag)
  /\ ~Registered(a)
  /\ amount > 0
  /\ amount <= arthOutside
  /\ DepositorOperation(a,
       IF deposits[a].initialValue = 0 THEN frontEndTag ELSE deposits[a].frontEndTag,
       amount, 0)

WithdrawFromSP(a, amount) ==
  /\ deposits[a].initialValue > 0
  /\ DepositorOperation(a, deposits[a].frontEndTag, 0, MinOf(amount, CompoundedDeposit(a)))

(* The gain goes to the depositor's trove instead of to the depositor. *)
WithdrawETHGainToTrove(a) ==
  /\ deposits[a].initialValue > 0
  /\ ETHGain(a) > 0
  /\ DepositorOperation(a, deposits[a].frontEndTag, 0, 0)

RegisterFrontEnd(f, rate) ==
  /\ ~frontEnds[f].registered
  /\ deposits[f].initialValue = 0
  /\ frontEnds' = [frontEnds EXCEPT ![f] = [kickbackRate |-> rate, registered |-> TRUE]]
  /\ UNCHANGED <<deposits, depositSnapshots, frontEndStakes, frontEndSnapshots,
                 productVars, errorVars, epochToScaleToG, lastMAHAError,
                 totalARTHDeposits, ETH, arthOutside, issuanceVars>>

-------------------------------------------------------------------------------
(* Liquidations: offset. *)

ETHNumerator(coll) == coll * DECIMAL_PRECISION + lastETHError

(* The loss is rounded up, and what that took too much is taken off the    *)
(* next one.                                                               *)
LossPerUnit(debt) ==
  IF debt = totalARTHDeposits THEN DECIMAL_PRECISION
  ELSE (debt * DECIMAL_PRECISION - lastARTHLossError) \div totalARTHDeposits + 1

(* _updateRewardSumAndProduct: the sum S of the present scale first, then  *)
(* a new epoch, a new scale or a smaller product.                          *)
UpdateRewardSumAndProduct(gainPerUnit, lossPerUnit) ==
  LET factor == DECIMAL_PRECISION - lossPerUnit
      product == (P * factor) \div DECIMAL_PRECISION
  IN  /\ epochToScaleToSum' =
           [epochToScaleToSum EXCEPT ![currentEpoch][currentScale] = @ + gainPerUnit * P]
      /\ epochToScaleToSum'[currentEpoch][currentScale] <= MaxSum
      /\ \/ /\ factor = 0
            /\ currentEpoch < MaxEpoch
            /\ currentEpoch' = currentEpoch + 1
            /\ currentScale' = 0
            /\ P' = DECIMAL_PRECISION
         \/ /\ factor > 0 /\ product < SCALE_FACTOR
            /\ currentScale < MaxScale
            /\ currentScale' = currentScale + 1
            /\ P' = (P * factor * SCALE_FACTOR) \div DECIMAL_PRECISION
            /\ UNCHANGED currentEpoch
         \/ /\ factor > 0 /\ product >= SCALE_FACTOR
            /\ P' = product
            /\ UNCHANGED <<currentScale, currentEpoch>>
      /\ P' > 0                                      (* assert(newP > 0)   *)

(* offset: debt is at most the deposits, and coll its share of the trove.  *)
Offset(debt, coll) ==
  /\ totalARTHDeposits > 0 /\ debt > 0
  /\ debt <= totalARTHDeposits
  /\ debt = totalARTHDeposits \/ debt * DECIMAL_PRECISION >= lastARTHLossError
  /\ LossPerUnit(debt) <= DECIMAL_PRECISION
  /\ TriggerMAHAIssuance(0)
  /\ lastARTHLossError' =
       IF debt = totalARTHDeposits THEN 0
       ELSE LossPerUnit(debt) * totalARTHDeposits
              - (debt * DECIMAL_PRECISION - lastARTHLossError)
  /\ lastETHError' = ETHNumerator(coll) % totalARTHDeposits
  /\ UpdateRewardSumAndProduct(ETHNumerator(coll) \div totalARTHDeposits, LossPerUnit(debt))
  /\ totalARTHDeposits' = totalARTHDeposits - debt
  /\ ETH' = ETH + coll
  /\ UNCHANGED <<accountVars, arthOutside>>

(* What the TroveManager offsets of one trove: as much of its debt as the  *)
(* pool holds, and that share of its collateral.                           *)
OffsetTrove(trove) ==
  LET debt == MinOf(trove.debt, totalARTHDeposits)
  IN  Offset(debt, (trove.coll * debt) \div trove.debt)

-------------------------------------------------------------------------------
PoolUnchanged ==
  UNCHANGED <<accountVars, productVars, errorVars, epochToScaleToG, lastMAHAError,
              totalARTHDeposits, ETH, arthOutside>>

Next ==
  \/ \E a \in Depositors, amount \in Amounts, tag \in Tags : ProvideToSP(a, amount, tag)
  \/ \E a \in Depositors, amount \in Amounts \cup {0} : WithdrawFromSP(a, amount)
  \/ \E a \in Depositors : WithdrawETHGainToTrove(a)
  \/ \E f \in FrontEnds, rate \in KickbackRates : RegisterFrontEnd(f, rate)
  \/ \E trove \in Troves : OffsetTrove(trove)
  \/ PoolUnchanged /\ \E reward \in Rewards : NotifyRewardAmount(reward)
  \/ PoolUnchanged /\ \E amount \in Transfers : ReceiveMAHA(amount)
  \/ PoolUnchanged /\ Tick

Spec == Init /\ [][Next]_vars

-------------------------------------------------------------------------------
(* Properties. *)

(* A snapshot is not ahead of the product, the scales, the epochs and the  *)
(* sums that were recorded after it.                                       *)
Behind(stake, snap) ==
  stake > 0 =>
    /\ snap.P > 0
    /\ snap.epoch <= currentEpoch
    /\ snap.epoch = currentEpoch =>
         /\ snap.scale <= currentScale
         /\ snap.scale = currentScale => P <= snap.P
         /\ snap.scale + 1 = currentScale => P <= snap.P * SCALE_FACTOR
    /\ snap.S <= epochToScaleToSum[snap.epoch][snap.scale]
    /\ snap.G <= epochToScaleToG[snap.epoch][snap.scale]

Readable(stake, snap) == Behind(stake, snap) /\ Compounded(stake, snap) <= stake

(* Whatever liquidations, scale changes and epochs happened since a deposit *)
(* was written, the views about it never revert: no subtraction of         *)
(* getDepositorETHGain, getDepositorMAHAGain, getCompoundedARTHDeposit or   *)
(* of the ARTHLoss of an event underflows (that loss alone would block     *)
(* every operation of the depositor).                                      *)
ViewsNeverRevert ==
  /\ \A a \in Accounts : Readable(deposits[a].initialValue, depositSnapshots[a])
  /\ \A t \in Tags : Readable(frontEndStakes[t], frontEndSnapshots[t])

PoolInv == PoolTypeOK /\ ViewsNeverRevert

(* What one rounding of the loss per unit can be off, over all deposits.   *)
LossRounding == Supply \div DECIMAL_PRECISION

DepositsOwed == SumFunctionOnSet([a \in Accounts |-> CompoundedDeposit(a)], Accounts)

(* However many liquidations, scales, deposits and withdrawals there were, *)
(* the deposits never add up to more than the pool holds by more than one  *)
(* rounding of the loss: the error feedback of _computeRewardsPerUnitStaked *)
(* does not accumulate.                                                    *)
DepositsNearlyCovered == DepositsOwed <= totalARTHDeposits + LossRounding

(* The pool holds the ether it owes: the gains of all depositors together  *)
(* exceed what the liquidations brought in by at most what the excess of   *)
(* the deposits earns.                                                     *)
ETHGainsNearlyCovered ==
  SumFunctionOnSet([a \in Accounts |-> ETHGain(a)], Accounts) <= ETH + LossRounding

(* assert(newP > 0): whatever trove comes next, the product that records   *)
(* its loss does not vanish.  After a change of scale P may be as small as *)
(* one, and each loss that leaves next to nothing brings it down again.    *)
ProductStaysPositive ==
  \A trove \in Troves : totalARTHDeposits > 0 =>
    LET debt   == MinOf(trove.debt, totalARTHDeposits)
        factor == DECIMAL_PRECISION - LossPerUnit(debt)
    IN  factor > 0 => (P * factor * SCALE_FACTOR) \div DECIMAL_PRECISION > 0

MAHAOwed ==
  SumFunctionOnSet([a \in Accounts |->
     DepositorMAHAGain(a, deposits[a].frontEndTag, epochToScaleToG)], Accounts)
  + SumFunctionOnSet([t \in Tags |-> FrontEndMAHAGain(t, epochToScaleToG)], Tags)

MAHAPaid == received - mahaBalance

(* Until the first loss, and whatever the order of deposits, withdrawals,  *)
(* transfers of tokens and announcements in the middle of a period: what   *)
(* depositors and front ends have been paid and are owed together is never *)
(* more than was issued, and no more is issued than was announced.  So the *)
(* tokens held cover all gains as long as no more is announced than was    *)
(* sent to the contract; notifyRewardAmount itself does not see to that.   *)
MAHAGainsAreCovered ==
  P = DECIMAL_PRECISION /\ currentEpoch = 0 =>
    /\ MAHAOwed + MAHAPaid <= totalMAHAIssued
    /\ totalMAHAIssued <= announced

(* "Sends all depositor's accumulated gains (MAHA, ETH) to depositor" and  *)
(* "sends the tagged front end's accumulated MAHA gains to the tagged      *)
(* front end": a depositor who withdraws can be paid.  A transfer that     *)
(* cannot be made reverts the withdrawal of the deposit with it.           *)
AccumulatedGainsCanBeSent ==
  \A a \in Depositors : deposits[a].initialValue > 0 =>
    LET tag == deposits[a].frontEndTag
    IN  FrontEndMAHAGain(tag, GAfterIssuance) + DepositorMAHAGain(a, tag, GAfterIssuance)
          <= mahaBalance
===============================================================================
