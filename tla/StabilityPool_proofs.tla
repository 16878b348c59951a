------------------------ MODULE StabilityPool_proofs ------------------------
(***************************************************************************)
(* Theorems on the Stability Pool, for every finite set of depositors and  *)
(* front ends, every precision and scale factor, and troves and amounts of *)
(* any size: the views never revert, the deposits are covered up to one    *)
(* rounding, and the MAHA gains are covered until the first loss.          *)
(***************************************************************************)
EXTENDS StabilityPool, DataLemmas

-------------------------------------------------------------------------------
(* Arithmetic. *)

(* A share x/y of n with x at most y * k is at most n * k.                 *)
LEMMA ShareAtMost ==
  ASSUME NEW n \in Nat, NEW x \in Nat, NEW y \in Nat \ {0}, NEW k \in Nat, x <= y * k
  PROVE  (n * x) \div y <= n * k
<1>1. n * x <= n * (y * k)
  OBVIOUS
<1>2. n * (y * k) = (n * k) * y
  OBVIOUS
<1>3. n * x \in Nat /\ n * k \in Nat
  BY NatProduct
<1>4. \A a \in Nat, b \in Nat : a <= b * y => a \div y <= b
  OBVIOUS
<1> QED
  BY <1>1, <1>2, <1>3, <1>4

-------------------------------------------------------------------------------
(* The views. *)

(* A readable stake has a present value, which is at most what it was.     *)
LEMMA CompoundedIsAmount ==
  ASSUME PoolTypeOK, NEW stake \in Nat, NEW snap \in Snapshot,
         Behind(stake, snap)
  PROVE  Compounded(stake, snap) \in Nat /\ Compounded(stake, snap) <= stake
<1>1. CASE stake = 0 \/ snap.epoch < currentEpoch \/ currentScale - snap.scale > 1
  BY <1>1 DEF Compounded
<1>2. CASE ~(stake = 0 \/ snap.epoch < currentEpoch \/ currentScale - snap.scale > 1)
  <2> DEFINE unscaled == (stake * P) \div snap.P
             compounded == IF currentScale = snap.scale THEN unscaled
                           ELSE unscaled \div SCALE_FACTOR
  <2>1. /\ P \in Nat /\ snap.P \in Nat \ {0} /\ SCALE_FACTOR \in Nat \ {0}
        /\ currentScale \in Nat /\ snap.scale \in Nat /\ snap.epoch \in Nat
        /\ currentEpoch \in Nat
    BY <1>2, PoolAssumption DEF PoolTypeOK, Snapshot, Epochs, Behind
  <2>2. unscaled \in Nat
    BY <2>1, NatProduct, NatQuotient
  <2>3. \/ snap.scale = currentScale /\ P <= snap.P
        \/ snap.scale + 1 = currentScale /\ P <= snap.P * SCALE_FACTOR
    BY <1>2, <2>1 DEF Behind
  <2>4. compounded \in Nat /\ compounded <= stake
    <3>1. CASE snap.scale = currentScale /\ P <= snap.P
      <4>1. unscaled <= stake * 1
        BY <2>1, <3>1, ShareAtMost
      <4> QED
        BY <2>2, <3>1, <4>1
    <3>2. CASE snap.scale + 1 = currentScale /\ P <= snap.P * SCALE_FACTOR
      <4>1. unscaled <= stake * SCALE_FACTOR
        BY <2>1, <3>2, ShareAtMost
      <4>2. compounded = unscaled \div SCALE_FACTOR
        BY <2>1, <3>2
      <4>3. \A u \in Nat, s \in Nat, f \in Nat \ {0} : u <= s * f => u \div f <= s
        OBVIOUS
      <4> HIDE DEF unscaled, compounded
      <4> QED
        BY <2>1, <2>2, <4>1, <4>2, <4>3, NatQuotient
    <3> QED
      BY <2>3, <3>1, <3>2
  <2>5. Compounded(stake, snap) = IF compounded < stake \div SCALE_FACTOR THEN 0
                                  ELSE compounded
    BY <1>2 DEF Compounded
  <2> HIDE DEF compounded
  <2> QED
    BY <2>4, <2>5
<1> QED
  BY <1>1, <1>2

(* What a readable stake gained in a sum is an amount.                     *)
LEMMA GainIsAmount ==
  ASSUME NEW sums \in [Epochs -> [Scales -> Nat]], NEW stake \in Nat,
         NEW value \in Nat, NEW snap \in Snapshot,
         stake > 0 => snap.P > 0 /\ value <= sums[snap.epoch][snap.scale]
  PROVE  GainFrom(sums, stake, value, snap) \in Nat
<1>1. CASE stake = 0
  BY <1>1 DEF GainFrom
<1>2. CASE stake > 0
  <2> DEFINE first == sums[snap.epoch][snap.scale] - value
             second == sums[snap.epoch][snap.scale + 1] \div SCALE_FACTOR
  <2>1. /\ snap.epoch \in Epochs /\ snap.scale \in Scales /\ snap.scale + 1 \in Scales
        /\ snap.P \in Nat \ {0}
    <3>1. snap.P \in Nat /\ snap.scale \in 0..MaxScale /\ snap.epoch \in Epochs
      BY SMTT(30) DEF Snapshot
    <3>2. snap.P > 0
      BY <1>2
    <3>3. MaxScale \in Nat
      BY PoolAssumption
    <3> QED
      BY <3>1, <3>2, <3>3, SMTT(30) DEF Scales
  <2>2. /\ sums[snap.epoch][snap.scale] \in Nat /\ sums[snap.epoch][snap.scale + 1] \in Nat
    BY <2>1
  <2>3. first \in Nat /\ second \in Nat
    BY <1>2, <2>2, PoolAssumption, NatQuotient
  <2>4. GainFrom(sums, stake, value, snap)
          = ((stake * (first + second)) \div snap.P) \div DECIMAL_PRECISION
    BY <1>2 DEF GainFrom
  <2> HIDE DEF first, second
  <2>5. stake * (first + second) \in Nat
    BY <2>3, NatProduct
  <2>6. (stake * (first + second)) \div snap.P \in Nat
    BY <2>1, <2>5, NatQuotient
  <2> QED
    BY <2>4, <2>6, NatQuotient, PrecisionAssumption
<1> QED
  BY <1>1, <1>2

-------------------------------------------------------------------------------
(* The invariant.  PoolInv itself speaks of the present value of a stake,  *)
(* which follows from where its snapshot is; the steps are proved for the  *)
(* latter.                                                                 *)
SnapshotsBehind ==
  /\ PoolTypeOK
  /\ \A a \in Accounts : Behind(deposits[a].initialValue, depositSnapshots[a])
  /\ \A t \in Tags : Behind(frontEndStakes[t], frontEndSnapshots[t])

(* What Behind says of a snapshot, as a relation of values.                *)
BehindValues(stake, snap, p, scale, epoch, sums, gains) ==
  stake > 0 =>
    /\ snap.P > 0
    /\ snap.epoch <= epoch
    /\ snap.epoch = epoch =>
         /\ snap.scale <= scale
         /\ snap.scale = scale => p <= snap.P
         /\ snap.scale + 1 = scale => p <= snap.P * SCALE_FACTOR
    /\ snap.S <= sums[snap.epoch][snap.scale]
    /\ snap.G <= gains[snap.epoch][snap.scale]

BehindNext(stake, snap) ==
  BehindValues(stake, snap, P', currentScale', currentEpoch', epochToScaleToSum',
               epochToScaleToG')

(* The invariant of the next state, from what its parts are there.         *)
LEMMA SnapshotsBehindNext ==
  ASSUME PoolTypeOK',
         \A a \in Accounts : BehindNext(deposits'[a].initialValue, depositSnapshots'[a]),
         \A t \in Tags : BehindNext(frontEndStakes'[t], frontEndSnapshots'[t])
  PROVE  SnapshotsBehind'
  BY DEF SnapshotsBehind, Behind, BehindNext, BehindValues

(* With the snapshots behind the sums, every view can be read.             *)
LEMMA SnapshotsBehindGivesPoolInv == SnapshotsBehind => PoolInv
<1> SUFFICES ASSUME SnapshotsBehind PROVE PoolInv
  OBVIOUS
<1>1. PoolTypeOK
  BY DEF SnapshotsBehind
<1>2. ASSUME NEW a \in Accounts
      PROVE  Readable(deposits[a].initialValue, depositSnapshots[a])
  <2>1. /\ deposits[a].initialValue \in Nat /\ depositSnapshots[a] \in Snapshot
        /\ Behind(deposits[a].initialValue, depositSnapshots[a])
    BY <1>1 DEF PoolTypeOK, SnapshotsBehind
  <2> QED
    BY <1>1, <2>1, CompoundedIsAmount DEF Readable
<1>3. ASSUME NEW t \in Tags
      PROVE  Readable(frontEndStakes[t], frontEndSnapshots[t])
  <2>1. /\ frontEndStakes[t] \in Nat /\ frontEndSnapshots[t] \in Snapshot
        /\ Behind(frontEndStakes[t], frontEndSnapshots[t])
    BY <1>1 DEF PoolTypeOK, SnapshotsBehind
  <2> QED
    BY <1>1, <2>1, CompoundedIsAmount DEF Readable
<1> QED
  BY <1>1, <1>2, <1>3 DEF PoolInv, ViewsNeverRevert

(* A new pool has no snapshot.                                             *)
LEMMA PoolInitially == Init => SnapshotsBehind
<1> SUFFICES ASSUME Init PROVE SnapshotsBehind
  OBVIOUS
<1>1. IssuanceTypeOK
  BY IssuanceAssumption DEF Init, IssuanceInit, IssuanceTypeOK
<1>2. NoSnapshot \in Snapshot /\ 0 \in Epochs
  BY PoolAssumption DEF NoSnapshot, Snapshot, Epochs
<1>3. PoolTypeOK
  BY <1>1, <1>2, PoolAssumption, PrecisionAssumption
  DEF Init, PoolTypeOK, NoDeposit, Tags
<1> QED
  BY <1>3 DEF Init, SnapshotsBehind, Behind, NoDeposit

-------------------------------------------------------------------------------
(* MAHA is issued: the sums G grow. *)

(* What is issued is an amount.                                            *)
LEMMA IssuedAmount ==
  ASSUME IssuanceTypeOK, NEW paid, IssueMAHA(paid)
  PROVE  /\ CumulativeIssuance \in Nat
         /\ LastTimeRewardApplicable \in Nat
         /\ LastTimeRewardApplicable >= lastUpdateTime
         /\ rewardRate * (LastTimeRewardApplicable - lastUpdateTime) \in Nat
         /\ CumulativeIssuance <= rewardRate * (LastTimeRewardApplicable - lastUpdateTime)
<1>1. LastTimeRewardApplicable \in Nat /\ LastTimeRewardApplicable >= lastUpdateTime
  BY DEF IssuanceTypeOK, LastTimeRewardApplicable, MinOf, IssueMAHA
<1>2. rewardRate * (LastTimeRewardApplicable - lastUpdateTime) \in Nat
  BY <1>1, NatProduct DEF IssuanceTypeOK
<1> QED
  BY <1>1, <1>2 DEF CumulativeIssuance, MinOf, IssuanceTypeOK

(* An issuance of MAHA lowers no sum G.                                    *)
LEMMA IssuanceGrows ==
  ASSUME PoolTypeOK, NEW paid, TriggerMAHAIssuance(paid)
  PROVE  /\ GAfterIssuance \in [Epochs -> [Scales -> Nat]]
         /\ \A e \in Epochs, s \in Scales : epochToScaleToG[e][s] <= GAfterIssuance[e][s]
         /\ epochToScaleToG' = GAfterIssuance
         /\ lastMAHAError' \in Nat
         /\ paid \in Nat => IssuanceTypeOK'
<1>1. IssuanceTypeOK /\ IssueMAHA(paid)
  BY DEF PoolTypeOK, TriggerMAHAIssuance
<1>2. LastTimeRewardApplicable \in Nat /\ CumulativeIssuance \in Nat
  BY <1>1, IssuedAmount
<1>5. CumulativeIssuance * DECIMAL_PRECISION \in Nat
  BY <1>2, NatProduct, PrecisionAssumption
<1>6. MAHANumerator \in Nat
  BY <1>5 DEF MAHANumerator, PoolTypeOK
<1>7. paid \in Nat => IssuanceTypeOK'
  BY <1>1, <1>2 DEF IssueMAHA, IssuanceTypeOK, historyVars
<1>8. epochToScaleToG' = GAfterIssuance
  BY DEF TriggerMAHAIssuance
<1>9. CASE ~MAHAIsDistributed
  <2>1. GAfterIssuance = epochToScaleToG /\ lastMAHAError' = lastMAHAError
    BY <1>9 DEF TriggerMAHAIssuance, GAfterIssuance
  <2>2. /\ epochToScaleToG \in [Epochs -> [Scales -> Nat]]
        /\ \A e \in Epochs, s \in Scales : epochToScaleToG[e][s] \in Nat
        /\ lastMAHAError \in Nat
    BY DEF PoolTypeOK
  <2>3. \A e \in Epochs, s \in Scales : epochToScaleToG[e][s] <= epochToScaleToG[e][s]
    BY <2>2
  <2> QED
    BY <1>7, <1>8, <2>1, <2>2, <2>3
<1>10. CASE MAHAIsDistributed
  <2> DEFINE gain == (MAHANumerator \div totalARTHDeposits) * P
  <2>1. totalARTHDeposits \in Nat \ {0}
    BY <1>10 DEF MAHAIsDistributed, PoolTypeOK
  <2>2. P \in Nat /\ MAHANumerator \div totalARTHDeposits \in Nat
        /\ MAHANumerator % totalARTHDeposits \in Nat
    BY <1>6, <2>1, NatQuotient DEF PoolTypeOK
  <2>3. gain \in Nat
    BY <2>2, NatProduct
  <2>4. GAfterIssuance = [epochToScaleToG EXCEPT ![currentEpoch][currentScale] = @ + gain]
    BY <1>10 DEF GAfterIssuance
  <2>5. lastMAHAError' \in Nat
    BY <1>10, <2>2 DEF TriggerMAHAIssuance
  <2>6. currentEpoch \in Epochs /\ currentScale \in Scales
        /\ epochToScaleToG \in [Epochs -> [Scales -> Nat]]
    BY PoolAssumption DEF PoolTypeOK, Scales
  <2> HIDE DEF gain
  <2>7. /\ GAfterIssuance \in [Epochs -> [Scales -> Nat]]
        /\ \A e \in Epochs, s \in Scales : epochToScaleToG[e][s] <= GAfterIssuance[e][s]
    BY <2>3, <2>4, <2>6
  <2> QED
    BY <1>7, <1>8, <2>5, <2>7
<1> QED
  BY <1>9, <1>10

-------------------------------------------------------------------------------
(* The operations of depositors. *)

(* A snapshot of the present is behind the present.                        *)
LEMMA CurrentSnapshotBehind ==
  ASSUME PoolTypeOK, GAfterIssuance \in [Epochs -> [Scales -> Nat]],
         epochToScaleToG' = GAfterIssuance, UNCHANGED productVars, NEW n \in Nat
  PROVE  LET present == CurrentSnapshot(GAfterIssuance)
         IN  /\ present \in Snapshot /\ [present EXCEPT !.S = 0] \in Snapshot
             /\ BehindNext(n, present) /\ BehindNext(n, [present EXCEPT !.S = 0])
<1> DEFINE present == CurrentSnapshot(GAfterIssuance)
<1>1. /\ currentEpoch \in Epochs /\ currentScale \in 0..MaxScale /\ currentScale \in Scales
      /\ P \in Nat \ {0} /\ epochToScaleToSum \in [Epochs -> [Scales -> Nat]]
  BY PoolAssumption DEF PoolTypeOK, Scales
<1>2. /\ epochToScaleToSum[currentEpoch][currentScale] \in Nat
      /\ GAfterIssuance[currentEpoch][currentScale] \in Nat
  BY <1>1
<1>3. present \in Snapshot /\ [present EXCEPT !.S = 0] \in Snapshot
  BY <1>1, <1>2 DEF CurrentSnapshot, Snapshot
<1>4. /\ P' = P /\ currentScale' = currentScale /\ currentEpoch' = currentEpoch
      /\ epochToScaleToSum' = epochToScaleToSum
  BY DEF productVars
<1>5. currentScale \in Nat /\ currentEpoch \in Nat
  BY <1>1, PoolAssumption DEF Epochs
<1>6. BehindNext(n, present)
  BY <1>1, <1>2, <1>4, <1>5 DEF BehindNext, BehindValues, CurrentSnapshot
<1>7. BehindNext(n, [present EXCEPT !.S = 0])
  BY <1>1, <1>2, <1>4, <1>5 DEF BehindNext, BehindValues, CurrentSnapshot
<1> QED
  BY <1>3, <1>6, <1>7

(* Without a loss, what was behind stays behind while the sums G grow.     *)
LEMMA BehindWithoutLoss ==
  ASSUME PoolTypeOK, NEW stake \in Nat, NEW snap \in Snapshot,
         BehindValues(stake, snap, P, currentScale, currentEpoch, epochToScaleToSum,
                      epochToScaleToG),
         UNCHANGED productVars, epochToScaleToG' \in [Epochs -> [Scales -> Nat]],
         \A e \in Epochs, s \in Scales : epochToScaleToG[e][s] <= epochToScaleToG'[e][s]
  PROVE  BehindNext(stake, snap)
<1>1. snap.epoch \in Epochs /\ snap.scale \in Scales /\ snap.G \in Nat
  BY PoolAssumption DEF Snapshot, Scales
<1>2. /\ epochToScaleToG[snap.epoch][snap.scale] \in Nat
      /\ epochToScaleToG'[snap.epoch][snap.scale] \in Nat
      /\ epochToScaleToG[snap.epoch][snap.scale] <= epochToScaleToG'[snap.epoch][snap.scale]
  BY <1>1 DEF PoolTypeOK
<1>3. /\ P' = P /\ currentScale' = currentScale /\ currentEpoch' = currentEpoch
      /\ epochToScaleToSum' = epochToScaleToSum
  BY DEF productVars
<1> QED
  BY <1>1, <1>2, <1>3 DEF BehindNext, BehindValues

(* The snapshot of every account and every front end, whatever it is.      *)
LEMMA StoredSnapshots ==
  ASSUME SnapshotsBehind
  PROVE  /\ \A a \in Accounts :
              /\ deposits[a].initialValue \in Nat /\ depositSnapshots[a] \in Snapshot
              /\ BehindValues(deposits[a].initialValue, depositSnapshots[a], P, currentScale,
                              currentEpoch, epochToScaleToSum, epochToScaleToG)
         /\ \A t \in Tags :
              /\ frontEndStakes[t] \in Nat /\ frontEndSnapshots[t] \in Snapshot
              /\ BehindValues(frontEndStakes[t], frontEndSnapshots[t], P, currentScale,
                              currentEpoch, epochToScaleToSum, epochToScaleToG)
  BY DEF SnapshotsBehind, PoolTypeOK, Behind, BehindValues

(* The gains of a depositor and of its front end are amounts.              *)
LEMMA GainsAreAmounts ==
  ASSUME SnapshotsBehind, NEW a \in Accounts, NEW t \in Tags,
         NEW sums \in [Epochs -> [Scales -> Nat]],
         \A e \in Epochs, s \in Scales : epochToScaleToG[e][s] <= sums[e][s]
  PROVE  /\ ETHGain(a) \in Nat
         /\ DepositorMAHAGain(a, t, sums) \in Nat /\ FrontEndMAHAGain(t, sums) \in Nat
<1>1. /\ deposits[a].initialValue \in Nat /\ depositSnapshots[a] \in Snapshot
      /\ Behind(deposits[a].initialValue, depositSnapshots[a])
      /\ frontEndStakes[t] \in Nat /\ frontEndSnapshots[t] \in Snapshot
      /\ Behind(frontEndStakes[t], frontEndSnapshots[t])
  BY DEF SnapshotsBehind, PoolTypeOK
<1>2. /\ epochToScaleToG \in [Epochs -> [Scales -> Nat]]
      /\ epochToScaleToSum \in [Epochs -> [Scales -> Nat]]
  BY DEF SnapshotsBehind, PoolTypeOK
<1>3. ETHGain(a) \in Nat
  BY <1>1, <1>2, GainIsAmount DEF ETHGain, Behind, Snapshot
<1>4. ASSUME NEW stake \in Nat, NEW snap \in Snapshot, Behind(stake, snap)
      PROVE  GainFrom(sums, stake, snap.G, snap) \in Nat
  <2>1. snap.epoch \in Epochs /\ snap.scale \in Scales /\ snap.G \in Nat
    BY PoolAssumption DEF Snapshot, Scales
  <2>2. /\ epochToScaleToG[snap.epoch][snap.scale] \in Nat
        /\ sums[snap.epoch][snap.scale] \in Nat
        /\ epochToScaleToG[snap.epoch][snap.scale] <= sums[snap.epoch][snap.scale]
    BY <1>2, <2>1
  <2>3. stake > 0 => snap.P > 0 /\ snap.G <= sums[snap.epoch][snap.scale]
    BY <1>4, <2>1, <2>2 DEF Behind
  <2> QED
    BY <2>1, <2>3, GainIsAmount
<1>5. KickbackRate(t) \in Nat /\ DECIMAL_PRECISION - KickbackRate(t) \in Nat
  BY PrecisionAssumption DEF KickbackRate, SnapshotsBehind, PoolTypeOK, Tags
<1>6. DepositorMAHAGain(a, t, sums) \in Nat
  <2>1. GainFrom(sums, deposits[a].initialValue, depositSnapshots[a].G, depositSnapshots[a])
          \in Nat
    BY <1>1, <1>4
  <2> QED
    BY <1>5, <2>1, NatProduct, NatQuotient, PrecisionAssumption DEF DepositorMAHAGain
<1>7. FrontEndMAHAGain(t, sums) \in Nat
  <2>1. GainFrom(sums, frontEndStakes[t], frontEndSnapshots[t].G, frontEndSnapshots[t])
          \in Nat
    BY <1>1, <1>4
  <2> QED
    BY <1>5, <2>1, NatProduct, NatQuotient, PrecisionAssumption DEF FrontEndMAHAGain
<1> QED
  BY <1>3, <1>6, <1>7

(* Deposits, top-ups and withdrawals keep the snapshots behind.            *)
LEMMA OperationKeepsBehind ==
  ASSUME SnapshotsBehind, NEW a \in Accounts, NEW tag \in Tags,
         NEW added \in Nat, NEW removed \in Nat,
         removed <= CompoundedDeposit(a) + added, added <= arthOutside,
         DepositorOperation(a, tag, added, removed)
  PROVE  SnapshotsBehind'
<1> DEFINE paid == FrontEndMAHAGain(tag, GAfterIssuance)
                     + DepositorMAHAGain(a, tag, GAfterIssuance)
           deposit == CompoundedDeposit(a) + added - removed
           stake == CompoundedFrontEndStake(tag) + added - removed
           present == CurrentSnapshot(GAfterIssuance)
<1>1. PoolTypeOK
  BY DEF SnapshotsBehind
<1>2. /\ TriggerMAHAIssuance(paid)
      /\ removed <= CompoundedFrontEndStake(tag) + added
      /\ removed <= totalARTHDeposits
      /\ UpdateFrontEndStakeAndSnapshots(tag, stake, GAfterIssuance)
      /\ UpdateDepositAndSnapshots(a, tag, deposit, GAfterIssuance)
      /\ totalARTHDeposits' = totalARTHDeposits + added - removed
      /\ arthOutside' = arthOutside - added + removed
      /\ ETHGain(a) <= ETH
      /\ ETH' = ETH - ETHGain(a)
      /\ UNCHANGED <<frontEnds, productVars, errorVars>>
  BY DEF DepositorOperation
<1>3. /\ GAfterIssuance \in [Epochs -> [Scales -> Nat]]
      /\ \A e \in Epochs, s \in Scales : epochToScaleToG[e][s] <= GAfterIssuance[e][s]
      /\ epochToScaleToG' = GAfterIssuance
      /\ lastMAHAError' \in Nat
  BY <1>1, <1>2, IssuanceGrows
<1>4. /\ ETHGain(a) \in Nat
      /\ DepositorMAHAGain(a, tag, GAfterIssuance) \in Nat
      /\ FrontEndMAHAGain(tag, GAfterIssuance) \in Nat
  BY <1>3, GainsAreAmounts
<1>5. IssuanceTypeOK'
  BY <1>1, <1>2, <1>4, IssuanceGrows
<1>6. CompoundedDeposit(a) \in Nat /\ CompoundedFrontEndStake(tag) \in Nat
  <2>1. /\ deposits[a].initialValue \in Nat /\ depositSnapshots[a] \in Snapshot
        /\ Behind(deposits[a].initialValue, depositSnapshots[a])
        /\ frontEndStakes[tag] \in Nat /\ frontEndSnapshots[tag] \in Snapshot
        /\ Behind(frontEndStakes[tag], frontEndSnapshots[tag])
    BY DEF SnapshotsBehind, PoolTypeOK
  <2> QED
    BY <1>1, <2>1, CompoundedIsAmount DEF CompoundedDeposit, CompoundedFrontEndStake
<1>7. deposit \in Nat /\ stake \in Nat
  BY <1>2, <1>6
<1>8. /\ present \in Snapshot /\ [present EXCEPT !.S = 0] \in Snapshot
      /\ BehindNext(deposit, present) /\ BehindNext(stake, [present EXCEPT !.S = 0])
  BY <1>1, <1>2, <1>3, <1>7, CurrentSnapshotBehind
<1> HIDE DEF deposit, stake, present, paid
<1>9. NoSnapshot \in Snapshot /\ NoDeposit \in [initialValue : Nat, frontEndTag : Tags]
  BY PoolAssumption DEF NoSnapshot, NoDeposit, Snapshot, Epochs, Tags
<1>10. /\ deposits' = [deposits EXCEPT ![a] =
            IF deposit = 0 THEN NoDeposit
            ELSE [initialValue |-> deposit, frontEndTag |-> tag]]
       /\ depositSnapshots' = [depositSnapshots EXCEPT ![a] =
            IF deposit = 0 THEN NoSnapshot ELSE present]
       /\ frontEndStakes' = [frontEndStakes EXCEPT ![tag] = stake]
       /\ frontEndSnapshots' = [frontEndSnapshots EXCEPT ![tag] =
            IF stake = 0 THEN NoSnapshot ELSE [present EXCEPT !.S = 0]]
  BY <1>2 DEF UpdateDepositAndSnapshots, UpdateFrontEndStakeAndSnapshots, present
<1>11. /\ deposits' \in [Accounts -> [initialValue : Nat, frontEndTag : Tags]]
       /\ depositSnapshots' \in [Accounts -> Snapshot]
       /\ frontEndStakes' \in [Tags -> Nat]
       /\ frontEndSnapshots' \in [Tags -> Snapshot]
  BY <1>1, <1>7, <1>8, <1>9, <1>10 DEF PoolTypeOK
<1>12. PoolTypeOK'
  BY <1>1, <1>2, <1>3, <1>4, <1>5, <1>11 DEF PoolTypeOK, productVars, errorVars
<1>13. ASSUME NEW x \in Accounts
       PROVE  BehindNext(deposits'[x].initialValue, depositSnapshots'[x])
  <2>1. CASE x = a
    <3>1. CASE deposit = 0
      BY <1>1, <1>10, <2>1, <3>1 DEF BehindNext, BehindValues, NoDeposit, PoolTypeOK
    <3>2. CASE deposit # 0
      <4>1. deposits'[x].initialValue = deposit /\ depositSnapshots'[x] = present
        BY <1>1, <1>10, <2>1, <3>2 DEF PoolTypeOK
      <4> QED
        BY <1>7, <1>8, <4>1
    <3> QED
      BY <3>1, <3>2
  <2>2. CASE x # a
    <3>1. /\ deposits'[x] = deposits[x] /\ depositSnapshots'[x] = depositSnapshots[x]
      BY <1>1, <1>10, <2>2 DEF PoolTypeOK
    <3> QED
      BY <1>1, <1>2, <1>3, <3>1, StoredSnapshots, BehindWithoutLoss
  <2> QED
    BY <2>1, <2>2
<1>14. ASSUME NEW t \in Tags
       PROVE  BehindNext(frontEndStakes'[t], frontEndSnapshots'[t])
  <2>1. CASE t = tag
    <3>1. CASE stake = 0
      BY <1>1, <1>10, <2>1, <3>1 DEF BehindNext, BehindValues, PoolTypeOK
    <3>2. CASE stake # 0
      <4>1. frontEndStakes'[t] = stake /\ frontEndSnapshots'[t] = [present EXCEPT !.S = 0]
        BY <1>1, <1>10, <2>1, <3>2 DEF PoolTypeOK
      <4> QED
        BY <1>7, <1>8, <4>1
    <3> QED
      BY <3>1, <3>2
  <2>2. CASE t # tag
    <3>1. /\ frontEndStakes'[t] = frontEndStakes[t]
          /\ frontEndSnapshots'[t] = frontEndSnapshots[t]
      BY <1>1, <1>10, <2>2 DEF PoolTypeOK
    <3> QED
      BY <1>1, <1>2, <1>3, <3>1, StoredSnapshots, BehindWithoutLoss
  <2> QED
    BY <2>1, <2>2
<1> QED
  BY <1>12, <1>13, <1>14, SnapshotsBehindNext

-------------------------------------------------------------------------------
(* Liquidations. *)

(* A smaller product on the same scale, on the next scale, or a new epoch: *)
(* what was behind stays behind.                                           *)
LEMMA BehindAfterLoss ==
  ASSUME PoolTypeOK, NEW stake \in Nat, NEW snap \in Snapshot,
         BehindValues(stake, snap, P, currentScale, currentEpoch, epochToScaleToSum,
                      epochToScaleToG),
         NEW gain \in Nat, NEW loss \in 0..DECIMAL_PRECISION,
         UpdateRewardSumAndProduct(gain, loss),
         epochToScaleToG' \in [Epochs -> [Scales -> Nat]],
         \A e \in Epochs, s \in Scales : epochToScaleToG[e][s] <= epochToScaleToG'[e][s]
  PROVE  BehindNext(stake, snap)
<1> DEFINE factor == DECIMAL_PRECISION - loss
           product == (P * factor) \div DECIMAL_PRECISION
           rescaled == (P * factor * SCALE_FACTOR) \div DECIMAL_PRECISION
<1>1. /\ snap.epoch \in Epochs /\ snap.scale \in Scales /\ snap.G \in Nat
      /\ snap.S \in Nat /\ snap.P \in Nat /\ snap.epoch \in Nat /\ snap.scale \in Nat
  BY PoolAssumption DEF Snapshot, Scales, Epochs
<1>2. /\ P \in Nat /\ factor \in Nat /\ factor <= DECIMAL_PRECISION
      /\ currentScale \in Nat /\ currentEpoch \in Nat /\ SCALE_FACTOR \in Nat \ {0}
      /\ DECIMAL_PRECISION \in Nat \ {0} /\ currentEpoch \in Epochs
      /\ currentScale \in Scales /\ gain * P \in Nat
  BY PrecisionAssumption, PoolAssumption, NatProduct DEF PoolTypeOK, Epochs, Scales
<1>3. product <= P /\ product \in Nat
  <2>1. product <= P * 1
    BY <1>2, ShareAtMost
  <2>2. P * factor \in Nat
    BY <1>2, NatProduct
  <2>3. product \in Nat
    BY <1>2, <2>2, NatQuotient
  <2> HIDE DEF product
  <2> QED
    BY <1>2, <2>1, <2>3
<1>4. rescaled <= P * SCALE_FACTOR /\ rescaled \in Nat
  <2>1. P * factor * SCALE_FACTOR = (P * SCALE_FACTOR) * factor
    BY <1>2
  <2>2. P * SCALE_FACTOR \in Nat
    BY <1>2, NatProduct
  <2>3. ((P * SCALE_FACTOR) * factor) \div DECIMAL_PRECISION <= (P * SCALE_FACTOR) * 1
    BY <1>2, <2>2, ShareAtMost
  <2>4. rescaled = ((P * SCALE_FACTOR) * factor) \div DECIMAL_PRECISION
    BY <2>1
  <2>5. (P * SCALE_FACTOR) * 1 = P * SCALE_FACTOR
    BY <2>2
  <2>6. (P * SCALE_FACTOR) * factor \in Nat
    BY <1>2, <2>2, NatProduct
  <2>7. rescaled \in Nat
    BY <1>2, <2>4, <2>6, NatQuotient
  <2> HIDE DEF rescaled
  <2> QED
    BY <2>3, <2>4, <2>5, <2>7
<1>5. /\ epochToScaleToSum' =
           [epochToScaleToSum EXCEPT ![currentEpoch][currentScale] = @ + gain * P]
      /\ \/ /\ currentEpoch' = currentEpoch + 1
            /\ currentScale' = 0
         \/ /\ currentScale' = currentScale + 1 /\ P' = rescaled
            /\ currentEpoch' = currentEpoch
         \/ /\ P' = product
            /\ currentScale' = currentScale /\ currentEpoch' = currentEpoch
  BY DEF UpdateRewardSumAndProduct
<1> HIDE DEF factor, product, rescaled
<1>6. epochToScaleToSum[snap.epoch][snap.scale] <= epochToScaleToSum'[snap.epoch][snap.scale]
      /\ epochToScaleToSum[snap.epoch][snap.scale] \in Nat
      /\ epochToScaleToSum'[snap.epoch][snap.scale] \in Nat
  <2>1. epochToScaleToSum \in [Epochs -> [Scales -> Nat]]
    BY DEF PoolTypeOK
  <2> QED
    BY <1>1, <1>2, <1>5, <2>1
<1>7. /\ epochToScaleToG[snap.epoch][snap.scale] \in Nat
      /\ epochToScaleToG'[snap.epoch][snap.scale] \in Nat
      /\ epochToScaleToG[snap.epoch][snap.scale] <= epochToScaleToG'[snap.epoch][snap.scale]
  BY <1>1 DEF PoolTypeOK
<1>8. ASSUME stake > 0, snap.epoch = currentEpoch, currentEpoch' = currentEpoch
      PROVE  /\ snap.scale <= currentScale'
             /\ snap.scale = currentScale' => P' <= snap.P
             /\ snap.scale + 1 = currentScale' => P' <= snap.P * SCALE_FACTOR
  <2>1. /\ snap.scale <= currentScale
        /\ snap.scale = currentScale => P <= snap.P
        /\ snap.scale + 1 = currentScale => P <= snap.P * SCALE_FACTOR
    BY <1>8 DEF BehindValues
  <2>2. CASE currentScale' = currentScale + 1 /\ P' = rescaled
    <3>1. snap.scale # currentScale' /\ snap.scale <= currentScale'
      BY <1>1, <1>2, <2>1, <2>2
    <3>2. ASSUME snap.scale + 1 = currentScale' PROVE P' <= snap.P * SCALE_FACTOR
      <4>1. P <= snap.P
        BY <1>1, <1>2, <2>1, <2>2, <3>2
      <4>2. P * SCALE_FACTOR <= snap.P * SCALE_FACTOR
        BY <1>1, <1>2, <4>1
      <4>3. P * SCALE_FACTOR \in Nat /\ snap.P * SCALE_FACTOR \in Nat
        BY <1>1, <1>2, NatProduct
      <4> QED
        BY <1>4, <2>2, <4>2, <4>3
    <3> QED
      BY <3>1, <3>2
  <2>3. CASE P' = product /\ currentScale' = currentScale
    <3>1. snap.P * SCALE_FACTOR \in Nat
      BY <1>1, <1>2, NatProduct
    <3> QED
      BY <1>1, <1>2, <1>3, <2>1, <2>3, <3>1
  <2>4. currentEpoch' # currentEpoch + 1
    BY <1>2, <1>8
  <2> QED
    BY <1>5, <2>2, <2>3, <2>4
<1>9. ASSUME stake > 0
      PROVE  /\ snap.P > 0 /\ snap.epoch <= currentEpoch
             /\ snap.S <= epochToScaleToSum[snap.epoch][snap.scale]
             /\ snap.G <= epochToScaleToG[snap.epoch][snap.scale]
  BY <1>9 DEF BehindValues
<1>10. ASSUME stake > 0
       PROVE  /\ snap.epoch <= currentEpoch'
              /\ snap.epoch = currentEpoch' =>
                   snap.epoch = currentEpoch /\ currentEpoch' = currentEpoch
  BY <1>1, <1>2, <1>5, <1>9, <1>10
<1>11. ASSUME stake > 0
       PROVE  /\ snap.S <= epochToScaleToSum'[snap.epoch][snap.scale]
              /\ snap.G <= epochToScaleToG'[snap.epoch][snap.scale]
  BY <1>1, <1>6, <1>7, <1>9, <1>11
<1> QED
  BY <1>8, <1>9, <1>10, <1>11 DEF BehindNext, BehindValues

(* What the pool computes of a liquidation is amounts.                     *)
LEMMA OffsetAmounts ==
  ASSUME PoolTypeOK, NEW debt \in Nat, NEW coll \in Nat, Offset(debt, coll)
  PROVE  /\ LossPerUnit(debt) \in 0..DECIMAL_PRECISION
         /\ ETHNumerator(coll) \div totalARTHDeposits \in Nat
         /\ lastETHError' \in Nat /\ lastARTHLossError' \in Nat
<1>1. /\ totalARTHDeposits \in Nat \ {0} /\ DECIMAL_PRECISION \in Nat \ {0}
      /\ lastARTHLossError \in Nat /\ lastETHError \in Nat
  BY PrecisionAssumption DEF PoolTypeOK, Offset
<1>2. /\ debt * DECIMAL_PRECISION \in Nat /\ coll * DECIMAL_PRECISION \in Nat
  BY <1>1, NatProduct
<1>3. ETHNumerator(coll) \in Nat
  BY <1>1, <1>2 DEF ETHNumerator
<1>4. /\ ETHNumerator(coll) \div totalARTHDeposits \in Nat
      /\ ETHNumerator(coll) % totalARTHDeposits \in Nat
  BY <1>1, <1>3, NatQuotient
<1>5. lastETHError' \in Nat
  BY <1>4 DEF Offset
<1>6. LossPerUnit(debt) <= DECIMAL_PRECISION
  BY DEF Offset
<1>7. CASE debt = totalARTHDeposits
  BY <1>1, <1>4, <1>5, <1>6, <1>7 DEF LossPerUnit, Offset
<1>8. CASE debt # totalARTHDeposits
  <2> DEFINE num == debt * DECIMAL_PRECISION - lastARTHLossError
  <2>1. num \in Nat
    BY <1>1, <1>2, <1>8 DEF Offset
  <2>2. /\ LossPerUnit(debt) = num \div totalARTHDeposits + 1
        /\ lastARTHLossError' = LossPerUnit(debt) * totalARTHDeposits - num
    BY <1>8 DEF LossPerUnit, Offset
  <2> HIDE DEF num
  <2>3. /\ num \div totalARTHDeposits \in Nat
        /\ num < (num \div totalARTHDeposits + 1) * totalARTHDeposits
        /\ (num \div totalARTHDeposits + 1) * totalARTHDeposits \in Nat
    <3>1. \A x \in Nat, y \in Nat \ {0} : x < (x \div y) * y + y
      OBVIOUS
    <3>2. num \div totalARTHDeposits \in Nat
      BY <1>1, <2>1, NatQuotient
    <3>3. \A q \in Nat, y \in Nat : (q + 1) * y = q * y + y
      OBVIOUS
    <3> QED
      BY <1>1, <2>1, <3>1, <3>2, <3>3, NatProduct
  <2> QED
    BY <1>1, <1>4, <1>5, <1>6, <2>1, <2>2, <2>3
<1> QED
  BY <1>7, <1>8

(* A liquidation keeps the snapshots behind the product and the sums.      *)
LEMMA OffsetKeepsBehind ==
  ASSUME SnapshotsBehind, NEW debt \in Nat, NEW coll \in Nat, Offset(debt, coll)
  PROVE  SnapshotsBehind'
<1>1. PoolTypeOK
  BY DEF SnapshotsBehind
<1>2. /\ TriggerMAHAIssuance(0)
      /\ UpdateRewardSumAndProduct(ETHNumerator(coll) \div totalARTHDeposits,
                                   LossPerUnit(debt))
      /\ debt <= totalARTHDeposits
      /\ totalARTHDeposits' = totalARTHDeposits - debt
      /\ ETH' = ETH + coll
      /\ UNCHANGED <<accountVars, arthOutside>>
  BY DEF Offset
<1>3. /\ GAfterIssuance \in [Epochs -> [Scales -> Nat]]
      /\ \A e \in Epochs, s \in Scales : epochToScaleToG[e][s] <= GAfterIssuance[e][s]
      /\ epochToScaleToG' = GAfterIssuance
      /\ lastMAHAError' \in Nat
      /\ IssuanceTypeOK'
  BY <1>1, <1>2, IssuanceGrows
<1>4. /\ LossPerUnit(debt) \in 0..DECIMAL_PRECISION
      /\ ETHNumerator(coll) \div totalARTHDeposits \in Nat
      /\ lastETHError' \in Nat /\ lastARTHLossError' \in Nat
  BY <1>1, OffsetAmounts
<1>5. /\ P' \in Nat \ {0} /\ currentScale' \in 0..MaxScale /\ currentEpoch' \in Epochs
      /\ epochToScaleToSum' \in [Epochs -> [Scales -> Nat]]
  <2> DEFINE gain == ETHNumerator(coll) \div totalARTHDeposits
             factor == DECIMAL_PRECISION - LossPerUnit(debt)
  <2>1. /\ P \in Nat \ {0} /\ currentScale \in 0..MaxScale /\ currentEpoch \in Epochs
        /\ epochToScaleToSum \in [Epochs -> [Scales -> Nat]]
        /\ currentScale \in Scales /\ MaxScale \in Nat /\ MaxEpoch \in Nat
        /\ DECIMAL_PRECISION \in Nat \ {0} /\ SCALE_FACTOR \in Nat
    BY <1>1, PoolAssumption, PrecisionAssumption DEF PoolTypeOK, Scales
  <2>2. gain * P \in Nat /\ factor \in Nat /\ P * factor \in Nat
        /\ P * factor * SCALE_FACTOR \in Nat
    BY <1>4, <2>1, NatProduct
  <2>3. /\ (P * factor) \div DECIMAL_PRECISION \in Nat
        /\ (P * factor * SCALE_FACTOR) \div DECIMAL_PRECISION \in Nat
    BY <2>1, <2>2, NatQuotient
  <2>4. /\ epochToScaleToSum' =
             [epochToScaleToSum EXCEPT ![currentEpoch][currentScale] = @ + gain * P]
        /\ \/ /\ currentEpoch < MaxEpoch
              /\ currentEpoch' = currentEpoch + 1
              /\ currentScale' = 0
              /\ P' = DECIMAL_PRECISION
           \/ /\ currentScale < MaxScale
              /\ currentScale' = currentScale + 1
              /\ P' = (P * factor * SCALE_FACTOR) \div DECIMAL_PRECISION
              /\ currentEpoch' = currentEpoch
           \/ /\ P' = (P * factor) \div DECIMAL_PRECISION
              /\ currentScale' = currentScale /\ currentEpoch' = currentEpoch
        /\ P' > 0
    BY <1>2 DEF UpdateRewardSumAndProduct
  <2> HIDE DEF gain, factor
  <2>5. epochToScaleToSum' \in [Epochs -> [Scales -> Nat]]
    BY <2>1, <2>2, <2>4, SMTT(30)
  <2>6. P' \in Nat \ {0}
    BY <2>1, <2>3, <2>4
  <2>7. currentScale' \in 0..MaxScale /\ currentEpoch' \in Epochs
    BY <2>1, <2>4, SMTT(30) DEF Epochs
  <2> QED
    BY <2>5, <2>6, <2>7
<1>6. PoolTypeOK'
  BY <1>1, <1>2, <1>3, <1>4, <1>5 DEF PoolTypeOK, accountVars
<1>7. ASSUME NEW stake \in Nat, NEW snap \in Snapshot,
             BehindValues(stake, snap, P, currentScale, currentEpoch, epochToScaleToSum,
                          epochToScaleToG)
      PROVE  BehindNext(stake, snap)
  BY <1>1, <1>2, <1>3, <1>4, <1>7, BehindAfterLoss
<1>8. /\ \A a \in Accounts : BehindNext(deposits[a].initialValue, depositSnapshots[a])
      /\ \A t \in Tags : BehindNext(frontEndStakes[t], frontEndSnapshots[t])
  BY <1>7, StoredSnapshots
<1>9. /\ deposits' = deposits /\ depositSnapshots' = depositSnapshots
      /\ frontEndStakes' = frontEndStakes /\ frontEndSnapshots' = frontEndSnapshots
  BY <1>2 DEF accountVars
<1> QED
  BY <1>6, <1>8, <1>9, SnapshotsBehindNext

-------------------------------------------------------------------------------
(* What neither issues nor loses anything. *)

(* Steps of other contracts keep the snapshots behind.                     *)
LEMMA PoolUnchangedKeepsBehind ==
  ASSUME SnapshotsBehind, PoolUnchanged, IssuanceTypeOK'
  PROVE  SnapshotsBehind'
  BY DEF SnapshotsBehind, PoolUnchanged, PoolTypeOK, accountVars, productVars, errorVars,
         Behind

(* So does every step.                                                     *)
LEMMA NextKeepsBehind ==
  ASSUME SnapshotsBehind, [Next]_vars
  PROVE  SnapshotsBehind'
<1>1. PoolTypeOK /\ IssuanceTypeOK
  BY DEF SnapshotsBehind, PoolTypeOK
<1>2. ASSUME NEW a \in Depositors, NEW amount \in Amounts, NEW tag \in Tags,
             ProvideToSP(a, amount, tag)
      PROVE  SnapshotsBehind'
  <2> DEFINE t == IF deposits[a].initialValue = 0 THEN tag ELSE deposits[a].frontEndTag
  <2>1. a \in Accounts /\ t \in Tags /\ amount \in Nat /\ 0 \in Nat
    BY <1>1, PoolAssumption DEF Accounts, PoolTypeOK
  <2>2. DepositorOperation(a, t, amount, 0) /\ amount <= arthOutside
    BY <1>2 DEF ProvideToSP
  <2>3. CompoundedDeposit(a) \in Nat
    BY <1>1, <2>1, StoredSnapshots, CompoundedIsAmount
    DEF CompoundedDeposit, Behind, BehindValues
  <2> HIDE DEF t
  <2> QED
    BY <2>1, <2>2, <2>3, OperationKeepsBehind
<1>3. ASSUME NEW a \in Depositors, NEW amount \in Amounts \cup {0},
             WithdrawFromSP(a, amount)
      PROVE  SnapshotsBehind'
  <2> DEFINE removed == MinOf(amount, CompoundedDeposit(a))
  <2>1. a \in Accounts /\ deposits[a].frontEndTag \in Tags /\ amount \in Nat
        /\ arthOutside \in Nat
    BY <1>1, PoolAssumption DEF Accounts, PoolTypeOK
  <2>2. CompoundedDeposit(a) \in Nat
    BY <1>1, <2>1, StoredSnapshots, CompoundedIsAmount
    DEF CompoundedDeposit, Behind, BehindValues
  <2>3. removed \in Nat /\ removed <= CompoundedDeposit(a) + 0 /\ 0 <= arthOutside
    BY <2>1, <2>2 DEF MinOf
  <2>4. DepositorOperation(a, deposits[a].frontEndTag, 0, removed)
    BY <1>3 DEF WithdrawFromSP
  <2> HIDE DEF removed
  <2> QED
    BY <2>1, <2>3, <2>4, OperationKeepsBehind
<1>4. ASSUME NEW a \in Depositors, WithdrawETHGainToTrove(a)
      PROVE  SnapshotsBehind'
  <2>1. a \in Accounts /\ deposits[a].frontEndTag \in Tags /\ arthOutside \in Nat
    BY <1>1 DEF Accounts, PoolTypeOK
  <2>2. CompoundedDeposit(a) \in Nat
    BY <1>1, <2>1, StoredSnapshots, CompoundedIsAmount
    DEF CompoundedDeposit, Behind, BehindValues
  <2>3. DepositorOperation(a, deposits[a].frontEndTag, 0, 0)
    BY <1>4 DEF WithdrawETHGainToTrove
  <2> QED
    BY <2>1, <2>2, <2>3, OperationKeepsBehind
<1>5. ASSUME NEW f \in FrontEnds, NEW rate \in KickbackRates, RegisterFrontEnd(f, rate)
      PROVE  SnapshotsBehind'
  <2>1. frontEnds' \in [FrontEnds -> [kickbackRate : 0..DECIMAL_PRECISION,
                                      registered : BOOLEAN]]
    BY <1>1, <1>5, PoolAssumption DEF RegisterFrontEnd, PoolTypeOK
  <2> QED
    BY <1>5, <2>1 DEF RegisterFrontEnd, SnapshotsBehind, PoolTypeOK, IssuanceTypeOK,
       productVars, errorVars, issuanceVars, rewardVars, historyVars, Behind
<1>6. ASSUME NEW trove \in Troves, OffsetTrove(trove)
      PROVE  SnapshotsBehind'
  <2> DEFINE debt == MinOf(trove.debt, totalARTHDeposits)
             coll == (trove.coll * debt) \div trove.debt
  <2>1. trove.debt \in Nat \ {0} /\ trove.coll \in Nat /\ totalARTHDeposits \in Nat
    BY <1>1, PoolAssumption DEF PoolTypeOK
  <2>2. debt \in Nat
    BY <2>1 DEF MinOf
  <2>3. coll \in Nat
    BY <2>1, <2>2, NatProduct, NatQuotient
  <2>4. Offset(debt, coll)
    BY <1>6 DEF OffsetTrove
  <2> HIDE DEF debt, coll
  <2> QED
    BY <2>2, <2>3, <2>4, OffsetKeepsBehind
<1>7. ASSUME NEW reward \in Rewards, NotifyRewardAmount(reward), PoolUnchanged
      PROVE  SnapshotsBehind'
  <2>1. reward \in Nat /\ RewardsDuration \in Nat \ {0}
    BY IssuanceAssumption
  <2>2. NewRate(reward) \in Nat
    <3>1. CASE now >= periodFinish
      BY <2>1, <3>1, NatQuotient DEF NewRate
    <3>2. CASE ~(now >= periodFinish)
      <4>1. (periodFinish - now) * rewardRate \in Nat
        BY <1>1, <3>2, NatProduct DEF IssuanceTypeOK
      <4>2. reward + (periodFinish - now) * rewardRate \in Nat
        BY <2>1, <4>1
      <4> QED
        BY <2>1, <3>2, <4>2, NatQuotient DEF NewRate
    <3> QED
      BY <3>1, <3>2
  <2>3. IssuanceTypeOK'
    BY <1>1, <1>7, <2>1, <2>2 DEF NotifyRewardAmount, IssuanceTypeOK
  <2> QED
    BY <1>7, <2>3, PoolUnchangedKeepsBehind
<1>8. ASSUME Tick, PoolUnchanged PROVE SnapshotsBehind'
  <2>1. IssuanceTypeOK'
    BY <1>1, <1>8 DEF Tick, IssuanceTypeOK, rewardVars, historyVars
  <2> QED
    BY <1>8, <2>1, PoolUnchangedKeepsBehind
<1>9. ASSUME UNCHANGED vars PROVE SnapshotsBehind'
  <2>1. PoolUnchanged /\ UNCHANGED issuanceVars
    BY <1>9 DEF vars, PoolUnchanged
  <2>2. IssuanceTypeOK'
    BY <1>1, <2>1 DEF IssuanceTypeOK, issuanceVars, rewardVars, historyVars
  <2> QED
    BY <2>1, <2>2, PoolUnchangedKeepsBehind
<1>10. ASSUME NEW amount \in Transfers, ReceiveMAHA(amount), PoolUnchanged
       PROVE  SnapshotsBehind'
  <2>1. amount \in Nat
    BY IssuanceAssumption
  <2>2. IssuanceTypeOK'
    BY <1>1, <1>10, <2>1 DEF ReceiveMAHA, IssuanceTypeOK, rewardVars
  <2> QED
    BY <1>10, <2>2, PoolUnchangedKeepsBehind
<1> QED
  BY <1>2, <1>3, <1>4, <1>5, <1>6, <1>7, <1>8, <1>9, <1>10 DEF Next

(* The views about a deposit never revert, whatever liquidations, scale    *)
(* changes, epochs, rewards and operations of others happened since it was *)
(* written, for every precision and scale factor: no subtraction of the    *)
(* getters underflows and no deposit is worth more than was paid in.       *)
THEOREM StabilityPoolInvariant == Spec => []PoolInv
<1>1. Init => SnapshotsBehind
  BY PoolInitially
<1>2. SnapshotsBehind /\ [Next]_vars => SnapshotsBehind'
  BY NextKeepsBehind
<1>3. SnapshotsBehind => PoolInv
  BY SnapshotsBehindGivesPoolInv
<1> QED
  BY <1>1, <1>2, <1>3, PTL DEF Spec

-------------------------------------------------------------------------------
(* The deposits are covered.  First the arithmetic of shares. *)

(* Products are monotone.                                                  *)
LEMMA ProductMonotone == \A x, y, z \in Nat : x <= y => x * z <= y * z
  OBVIOUS

(* A common factor cancels.                                                *)
LEMMA ProductCancels == \A x, y \in Nat, z \in Nat \ {0} : x * z <= y * z => x <= y
  OBVIOUS

(* Factors may be exchanged,                                               *)
LEMMA ProductSwap == \A x, y, z \in Int : (x * y) * z = (x * z) * y
  OBVIOUS

(* grouped,                                                                *)
LEMMA ProductGroup == \A x, y, z \in Int : (x * y) * z = x * (y * z)
  OBVIOUS

(* and distributed.                                                        *)
LEMMA ProductSum ==
  \A x, y, z \in Int : (x + y) * z = x * z + y * z /\ (x - y) * z = x * z - y * z
  OBVIOUS

(* A loss of debt, of which the loss per unit takes the share loss of every *)
(* deposit: what the rounding takes too much is remembered in the error,   *)
(* so that total * d plus what the error leaves of the slack shrinks no    *)
(* faster than the deposits do.                                            *)
LEMMA ErrorFeedback ==
  ASSUME NEW d \in Nat, NEW total \in Nat, NEW slack \in Nat, NEW error \in Nat,
         NEW loss \in Nat, NEW debt \in Nat, NEW next \in Nat,
         loss <= d, debt <= total, error <= slack,
         next = loss * total - (debt * d - error)
  PROVE  (total * d + (slack - error)) * (d - loss)
           <= ((total - debt) * d + (slack - next)) * d
<1> DEFINE f == d - loss
<1>1. f \in Nat /\ f <= d /\ slack - error \in Nat
  OBVIOUS
<1>2. total * f = (total - debt) * d + error - next
  <2>1. total * f = total * d - total * loss
    OBVIOUS
  <2>2. (total - debt) * d = total * d - debt * d
    OBVIOUS
  <2>3. total * loss = loss * total
    OBVIOUS
  <2>4. total * d \in Int /\ loss * total \in Int /\ debt * d \in Int
    OBVIOUS
  <2> QED
    BY <2>1, <2>2, <2>3, <2>4
<1> HIDE DEF f
<1>3. (total * d + (slack - error)) * f = (total * f) * d + (slack - error) * f
  <2>1. total * d \in Int /\ (total * d) * f = (total * f) * d
    BY <1>1, ProductSwap
  <2> QED
    BY <1>1, <2>1, ProductSum
<1>4. (slack - error) * f <= (slack - error) * d
  <2>1. \A x, y, z \in Nat : x <= y => z * x <= z * y
    OBVIOUS
  <2> QED
    BY <1>1, <2>1
<1>5. ((total - debt) * d + (slack - next)) * d
        = ((total - debt) * d + error - next) * d + (slack - error) * d
  <2>1. (total - debt) * d \in Int
    OBVIOUS
  <2>2. \A x \in Int : (x + (slack - next)) * d = (x + error - next) * d + (slack - error) * d
    OBVIOUS
  <2> QED
    BY <2>1, <2>2
<1>6. /\ ((total - debt) * d + error - next) * d \in Int
      /\ (slack - error) * d \in Int /\ (slack - error) * f \in Int
  <2>1. (total - debt) * d + error - next \in Int
    OBVIOUS
  <2>2. \A x \in Int : x * d \in Int
    OBVIOUS
  <2> QED
    BY <1>1, <2>1, <2>2
<1>7. (total * f) * d = ((total - debt) * d + error - next) * d
  BY <1>2
<1> DEFINE a == ((total - debt) * d + error - next) * d
           b == (slack - error) * d
           c == (slack - error) * f
<1>8. (total * d + (slack - error)) * f = a + c
  BY <1>3, <1>7
<1>9. ((total - debt) * d + (slack - next)) * d = a + b
  BY <1>5
<1>10. a \in Int /\ b \in Int /\ c \in Int /\ c <= b
  BY <1>4, <1>6
<1> HIDE DEF a, b, c
<1>11. (total * d + (slack - error)) * f <= ((total - debt) * d + (slack - next)) * d
  BY <1>8, <1>9, <1>10
<1> QED
  BY <1>11 DEF f

(* The shares of all deposits, scaled with the product, stay within the    *)
(* deposits and the slack when the product takes the loss: k is one, or    *)
(* the scale factor when the scale moves.                                  *)
LEMMA LossIsShared ==
  ASSUME NEW shares \in Nat, NEW unit \in Nat, NEW p \in Nat, NEW q \in Nat,
         NEW k \in Nat, NEW d \in Nat \ {0}, NEW f \in Nat, NEW x \in Nat, NEW y \in Nat,
         shares * p * d <= unit * x, x * f <= y * d, q * d <= p * f * k
  PROVE  shares * q * d <= (unit * k) * y
<1>0. \A u, v \in Nat : u * v \in Nat
  BY NatProduct
<1>1. (shares * p) * f <= unit * y
  <2>1. ((shares * p) * f) * d = ((shares * p) * d) * f
    <3>1. shares * p \in Int /\ f \in Int /\ d \in Int
      BY <1>0
    <3> QED
      BY <3>1, ProductSwap
  <2>2. ((shares * p) * d) * f <= (unit * x) * f
    <3>1. (shares * p) * d \in Nat /\ unit * x \in Nat
      BY <1>0
    <3> QED
      BY <3>1, ProductMonotone
  <2>3. (unit * x) * f <= (unit * y) * d
    <3>1. (unit * x) * f = (x * f) * unit /\ (unit * y) * d = (y * d) * unit
      OBVIOUS
    <3>2. (x * f) * unit <= (y * d) * unit
      <4>1. x * f \in Nat /\ y * d \in Nat
        BY <1>0
      <4> QED
        BY <4>1, ProductMonotone
    <3> QED
      BY <3>1, <3>2
  <2>4. (shares * p) * f \in Nat /\ unit * y \in Nat
    BY <1>0
  <2>5. ((shares * p) * f) * d \in Nat /\ ((shares * p) * d) * f \in Nat
        /\ (unit * x) * f \in Nat /\ (unit * y) * d \in Nat
    BY <1>0
  <2>6. ((shares * p) * f) * d <= (unit * y) * d
    BY <2>1, <2>2, <2>3, <2>5
  <2> QED
    BY <2>4, <2>6, ProductCancels
<1>2. shares * q * d <= ((shares * p) * f) * k
  <2>1. shares * q * d = (q * d) * shares
    OBVIOUS
  <2>2. ((shares * p) * f) * k = (p * f * k) * shares
    <3>1. \A s, u \in Nat : (s * p) * u = (p * u) * s
      OBVIOUS
    <3>2. (shares * p) * f = (p * f) * shares
      BY <3>1
    <3>3. p * f \in Int
      BY <1>0
    <3> QED
      BY <3>2, <3>3, ProductSwap
  <2>3. (q * d) * shares <= (p * f * k) * shares
    <3>1. q * d \in Nat /\ p * f * k \in Nat
      BY <1>0
    <3> QED
      BY <3>1, ProductMonotone
  <2> QED
    BY <2>1, <2>2, <2>3
<1>3. ((shares * p) * f) * k <= (unit * y) * k
  <2>1. (shares * p) * f \in Nat /\ unit * y \in Nat
    BY <1>0
  <2> QED
    BY <1>1, <2>1, ProductMonotone
<1>4. (unit * y) * k = (unit * k) * y
  BY ProductSwap
<1>5. shares * q * d \in Nat /\ ((shares * p) * f) * k \in Nat /\ (unit * y) * k \in Nat
      /\ (unit * k) * y \in Nat
  BY <1>0
<1> QED
  BY <1>2, <1>3, <1>4, <1>5

(* A share of the product is what a stake can be compounded to: with the   *)
(* stake at most its share of p0, the product p makes at most share * p of *)
(* it, in the unit of the shares.                                          *)
LEMMA ShareOfProduct ==
  ASSUME NEW stake \in Nat, NEW unit \in Nat, NEW share \in Nat, NEW p \in Nat,
         NEW p0 \in Nat \ {0}, NEW k \in Nat \ {0}, NEW c \in Nat,
         stake * unit <= share * p0 * k, c * k <= (stake * p) \div p0
  PROVE  c * unit <= share * p
<1>0. \A u, v \in Nat : u * v \in Nat
  BY NatProduct
<1>1. ((stake * p) \div p0) * p0 <= stake * p
  <2>1. \A u \in Nat, v \in Nat \ {0} : (u \div v) * v <= u
    OBVIOUS
  <2> QED
    BY <1>0, <2>1
<1>2. (c * k) * p0 <= stake * p
  <2>1. (stake * p) \div p0 \in Nat /\ c * k \in Nat
    BY <1>0, NatQuotient
  <2>2. (c * k) * p0 <= ((stake * p) \div p0) * p0
    BY <2>1, ProductMonotone
  <2>3. (c * k) * p0 \in Nat /\ ((stake * p) \div p0) * p0 \in Nat /\ stake * p \in Nat
    BY <1>0, <2>1
  <2> QED
    BY <1>1, <2>2, <2>3
<1> DEFINE r == p0 * k
<1>3. r \in Nat \ {0}
  <2>1. \A u, v \in Nat \ {0} : u * v \in Nat \ {0}
    OBVIOUS
  <2> QED
    BY <2>1
<1>4. (c * k) * p0 = c * r /\ share * p0 * k = share * r
  <2>1. (c * k) * p0 = (c * p0) * k
    BY ProductSwap
  <2> QED
    BY <2>1, ProductGroup
<1>5. c * r <= stake * p /\ stake * unit <= share * r
  BY <1>2, <1>4
<1> HIDE DEF r
<1>6. (c * r) * unit <= (stake * p) * unit
  <2>1. c * r \in Nat /\ stake * p \in Nat
    BY <1>0, <1>3
  <2> QED
    BY <1>5, <2>1, ProductMonotone
<1>7. (stake * unit) * p <= (share * r) * p
  <2>1. stake * unit \in Nat /\ share * r \in Nat
    BY <1>0, <1>3
  <2> QED
    BY <1>5, <2>1, ProductMonotone
<1>8. /\ (c * r) * unit = (c * unit) * r /\ (stake * p) * unit = (stake * unit) * p
      /\ (share * r) * p = (share * p) * r
  BY <1>3, ProductSwap
<1>9. c * unit \in Nat /\ share * p \in Nat
  BY <1>0
<1>10. /\ (c * unit) * r \in Nat /\ (stake * unit) * p \in Nat /\ (share * p) * r \in Nat
  BY <1>0, <1>3, <1>9
<1>11. (c * unit) * r <= (share * p) * r
  BY <1>6, <1>7, <1>8, <1>10
<1> QED
  BY <1>3, <1>9, <1>11, ProductCancels

-------------------------------------------------------------------------------
(* Shares.  Each deposit that still counts has a number of shares, and the *)
(* deposits are worth at most their shares times the product P.  The unit  *)
(* of the shares is a common denominator of the products deposits were     *)
(* made at, which keeps everything in whole numbers.                       *)
Backed(share, unit, stake, snap, scale, epoch) ==
  stake > 0 /\ snap.epoch = epoch =>
    /\ snap.scale = scale => stake * unit <= share * snap.P
    /\ snap.scale + 1 = scale => stake * unit <= share * snap.P * SCALE_FACTOR

ShareTotal(shares) == SumFunctionOnSet(shares, Accounts)

Covered(sum, unit, p, total, error) ==
  sum * p * DECIMAL_PRECISION <= unit * (total * DECIMAL_PRECISION + (Supply - error))

SharedBy(unit, shares) ==
  /\ unit \in Nat \ {0}
  /\ shares \in [Accounts -> Nat]
  /\ \A a \in Accounts :
       Backed(shares[a], unit, deposits[a].initialValue, depositSnapshots[a],
              currentScale, currentEpoch)
  /\ Covered(ShareTotal(shares), unit, P, totalARTHDeposits, lastARTHLossError)

SharedNextBy(unit, shares) ==
  /\ unit \in Nat \ {0}
  /\ shares \in [Accounts -> Nat]
  /\ \A a \in Accounts :
       Backed(shares[a], unit, deposits'[a].initialValue, depositSnapshots'[a],
              currentScale', currentEpoch')
  /\ Covered(ShareTotal(shares), unit, P', totalARTHDeposits', lastARTHLossError')

DepositsShared ==
  /\ lastARTHLossError <= Supply
  /\ totalARTHDeposits + arthOutside <= Supply
  /\ \E unit, shares : SharedBy(unit, shares)

(* The deposits of the next state are shared when some shares fit them.    *)
LEMMA DepositsSharedNext ==
  ASSUME lastARTHLossError' <= Supply, totalARTHDeposits' + arthOutside' <= Supply,
         NEW unit, NEW shares, SharedNextBy(unit, shares)
  PROVE  DepositsShared'
<1>1. SharedBy(unit, shares)'
  BY DEF SharedBy, SharedNextBy
<1> QED
  BY <1>1 DEF DepositsShared

(* What the pool's variables are as numbers.                               *)
LEMMA PoolNumbers ==
  ASSUME PoolTypeOK
  PROVE  /\ P \in Nat \ {0} /\ currentScale \in Nat /\ currentEpoch \in Nat
         /\ totalARTHDeposits \in Nat /\ lastARTHLossError \in Nat /\ arthOutside \in Nat
         /\ DECIMAL_PRECISION \in Nat \ {0} /\ SCALE_FACTOR \in Nat \ {0} /\ Supply \in Nat
         /\ \A a \in Accounts :
              /\ deposits[a].initialValue \in Nat /\ depositSnapshots[a] \in Snapshot
         /\ \A snap \in Snapshot :
              snap.P \in Nat /\ snap.scale \in Nat /\ snap.epoch \in Nat
  BY PoolAssumption, PrecisionAssumption DEF PoolTypeOK, Epochs, Snapshot

(* What a deposit is worth is at most its shares times the product.        *)
LEMMA CompoundedIsBacked ==
  ASSUME PoolTypeOK, NEW stake \in Nat, NEW snap \in Snapshot, Behind(stake, snap),
         NEW unit \in Nat \ {0}, NEW share \in Nat,
         Backed(share, unit, stake, snap, currentScale, currentEpoch)
  PROVE  Compounded(stake, snap) * unit <= share * P
<1>1. share * P \in Nat
  BY PoolNumbers, NatProduct
<1>2. CASE Compounded(stake, snap) = 0
  BY <1>1, <1>2
<1>3. CASE Compounded(stake, snap) # 0
  <2> DEFINE unscaled == (stake * P) \div snap.P
  <2>1. /\ stake # 0 /\ snap.epoch >= currentEpoch /\ ~(currentScale - snap.scale > 1)
        /\ Compounded(stake, snap) = IF currentScale = snap.scale THEN unscaled
                                     ELSE unscaled \div SCALE_FACTOR
    BY <1>3, PoolNumbers DEF Compounded
  <2>2. /\ snap.P \in Nat \ {0} /\ snap.epoch = currentEpoch
        /\ snap.scale = currentScale \/ snap.scale + 1 = currentScale
    <3>1. /\ snap.P \in Nat /\ snap.scale \in Nat /\ snap.epoch \in Nat
          /\ currentScale \in Nat /\ currentEpoch \in Nat
      BY PoolNumbers
    <3>2. snap.P > 0 /\ snap.epoch = currentEpoch /\ snap.scale <= currentScale
      BY <2>1, <3>1 DEF Behind
    <3> HIDE DEF unscaled
    <3> QED
      BY <2>1, <3>1, <3>2
  <2>3. unscaled \in Nat
    BY <2>2, PoolNumbers, NatProduct, NatQuotient
  <2>4. CASE snap.scale = currentScale
    <3>1. stake * unit <= share * snap.P * 1
      <4>1. stake * unit <= share * snap.P
        BY <2>1, <2>2, <2>4 DEF Backed
      <4>2. share * snap.P \in Nat
        BY <2>2, NatProduct
      <4> QED
        BY <4>1, <4>2
    <3>2. Compounded(stake, snap) * 1 <= (stake * P) \div snap.P
      BY <2>1, <2>3, <2>4
    <3>3. Compounded(stake, snap) \in Nat
      BY <2>1, <2>3, <2>4
    <3> QED
      BY <2>2, <3>1, <3>2, <3>3, ShareOfProduct, PoolNumbers
  <2>5. CASE snap.scale + 1 = currentScale
    <3>1. stake * unit <= share * snap.P * SCALE_FACTOR
      BY <2>1, <2>2, <2>5 DEF Backed
    <3>2. Compounded(stake, snap) = unscaled \div SCALE_FACTOR
      BY <2>1, <2>5, PoolNumbers
    <3>3. Compounded(stake, snap) \in Nat
      BY <2>3, <3>2, PoolNumbers, NatQuotient
    <3>4. Compounded(stake, snap) * SCALE_FACTOR <= (stake * P) \div snap.P
      <4>1. \A u \in Nat, v \in Nat \ {0} : (u \div v) * v <= u
        OBVIOUS
      <4> HIDE DEF unscaled
      <4>2. Compounded(stake, snap) * SCALE_FACTOR <= unscaled
        BY <2>3, <3>2, <4>1, PoolNumbers
      <4> QED
        BY <4>2 DEF unscaled
    <3> QED
      BY <2>2, <3>1, <3>3, <3>4, ShareOfProduct, PoolNumbers
  <2> QED
    BY <2>2, <2>4, <2>5
<1> QED
  BY <1>2, <1>3

(* Shares of all deposits, and what all of them are worth.                 *)
LEMMA SharesCoverDeposits ==
  ASSUME SnapshotsBehind, DepositsShared
  PROVE  DepositsNearlyCovered
<1>1. PICK unit, shares : SharedBy(unit, shares)
  BY DEF DepositsShared
<1> DEFINE worth == [a \in Accounts |-> CompoundedDeposit(a)]
           worthUnits == [a \in Accounts |-> worth[a] * unit]
           backing == [a \in Accounts |-> shares[a] * P]
           owed == DepositsOwed
           sum == ShareTotal(shares)
           d == DECIMAL_PRECISION
<1>2. PoolTypeOK /\ IsFiniteSet(Accounts)
  BY FiniteAssumption, FS_Union DEF SnapshotsBehind, Accounts
<1>3. /\ P \in Nat \ {0} /\ d \in Nat \ {0} /\ unit \in Nat \ {0}
      /\ shares \in [Accounts -> Nat]
      /\ totalARTHDeposits \in Nat /\ lastARTHLossError \in Nat /\ Supply \in Nat
  BY <1>1, <1>2, PoolNumbers DEF SharedBy
<1>4. ASSUME NEW a \in Accounts
      PROVE  /\ CompoundedDeposit(a) \in Nat
             /\ CompoundedDeposit(a) * unit <= shares[a] * P
  <2>1. /\ deposits[a].initialValue \in Nat /\ depositSnapshots[a] \in Snapshot
        /\ Behind(deposits[a].initialValue, depositSnapshots[a])
        /\ Backed(shares[a], unit, deposits[a].initialValue, depositSnapshots[a],
                  currentScale, currentEpoch)
        /\ shares[a] \in Nat
    BY <1>1, <1>2, PoolNumbers DEF SnapshotsBehind, SharedBy
  <2> QED
    BY <1>2, <1>3, <2>1, CompoundedIsAmount, CompoundedIsBacked DEF CompoundedDeposit
<1>5. \A a \in Accounts : /\ worth[a] \in Nat /\ worthUnits[a] = worth[a] * unit
                          /\ worthUnits[a] \in Nat /\ backing[a] = shares[a] * P
                          /\ backing[a] \in Nat /\ shares[a] \in Nat
                          /\ worthUnits[a] <= backing[a]
  BY <1>3, <1>4, NatProduct
<1>6. owed = SumFunctionOnSet(worth, Accounts)
  BY DEF DepositsOwed
<1> HIDE DEF worth, worthUnits, backing, owed
<1>7. owed \in Nat
  BY <1>2, <1>5, <1>6, SumNat
<1>8. SumFunctionOnSet(worthUnits, Accounts) = owed * unit
  BY <1>2, <1>3, <1>5, <1>6, SumScale
<1>9. SumFunctionOnSet(backing, Accounts) = sum * P
  BY <1>2, <1>3, <1>5, SumScale DEF ShareTotal
<1>10. owed * unit <= sum * P
  BY <1>2, <1>5, <1>8, <1>9, SumMonotone
<1>11. sum \in Nat
  BY <1>2, <1>5, SumNat DEF ShareTotal
<1>12. sum * P * d <= unit * (totalARTHDeposits * d + (Supply - lastARTHLossError))
  BY <1>1 DEF SharedBy, Covered
<1> HIDE DEF sum, d
<1> DEFINE x == totalARTHDeposits * d + (Supply - lastARTHLossError)
<1>13. x \in Nat /\ x <= totalARTHDeposits * d + Supply
  <2>1. totalARTHDeposits * d \in Nat
    BY <1>3, NatProduct
  <2>2. lastARTHLossError <= Supply
    BY DEF DepositsShared
  <2> QED
    BY <1>3, <2>1, <2>2
<1>14. sum * P * d <= unit * x
  BY <1>12
<1> HIDE DEF x
<1>15. owed * d <= x
  <2>1. owed * unit \in Nat /\ sum * P \in Nat
    BY <1>3, <1>7, <1>11, NatProduct
  <2>2. (owed * unit) * d <= (sum * P) * d
    BY <1>3, <1>10, <2>1, ProductMonotone
  <2>3. (owed * unit) * d = (owed * d) * unit /\ unit * x = x * unit
    BY <1>3, <1>7, <1>13, ProductSwap
  <2>4. owed * d \in Nat
    BY <1>3, <1>7, NatProduct
  <2>5. (owed * d) * unit \in Nat /\ (sum * P) * d \in Nat /\ x * unit \in Nat
    BY <1>3, <1>13, <2>1, <2>4, NatProduct
  <2>6. (owed * d) * unit <= x * unit
    BY <1>14, <2>2, <2>3, <2>5
  <2> QED
    BY <1>3, <1>13, <2>4, <2>6, ProductCancels
<1>16. owed <= totalARTHDeposits + Supply \div d
  <2>1. \A u, t, s \in Nat, v \in Nat \ {0} : u * v <= t * v + s => u <= t + s \div v
    <3> TAKE u, t, s \in Nat, v \in Nat \ {0}
    <3> HAVE u * v <= t * v + s
    <3>1. CASE u <= t
      BY <3>1, NatQuotient
    <3>2. CASE u > t
      <4>1. (u - t) * v = u * v - t * v
        OBVIOUS
      <4>2. (u - t) * v <= s
        BY <4>1
      <4>3. \A w \in Nat : w * v <= s => w <= s \div v
        OBVIOUS
      <4>4. u - t <= s \div v
        BY <3>2, <4>2, <4>3
      <4> QED
        BY <4>4, NatQuotient
    <3> QED
      BY <3>1, <3>2
  <2>2. owed * d \in Nat /\ totalARTHDeposits * d \in Nat
    BY <1>3, <1>7, NatProduct
  <2>3. owed * d <= totalARTHDeposits * d + Supply
    BY <1>3, <1>13, <1>15, <2>2
  <2> QED
    BY <1>3, <1>7, <2>1, <2>3
<1> QED
  BY <1>16 DEF DepositsNearlyCovered, LossRounding, owed, d

(* A new pool owes nothing.                                                *)
LEMMA SharesInitially == Init => DepositsShared
<1> SUFFICES ASSUME Init PROVE DepositsShared
  OBVIOUS
<1> DEFINE none == [a \in Accounts |-> 0]
<1>1. IsFiniteSet(Accounts)
  BY FiniteAssumption, FS_Union DEF Accounts
<1>2. ShareTotal(none) = 0
  <2>1. \A a \in Accounts : none[a] = 0
    OBVIOUS
  <2> HIDE DEF none
  <2>2. ShareTotal(none) = Cardinality(Accounts) * 0
    BY <1>1, <2>1, SumConstant DEF ShareTotal
  <2>3. Cardinality(Accounts) \in Nat
    BY <1>1, FS_CardinalityType
  <2> QED
    BY <2>2, <2>3
<1>3. \A a \in Accounts : deposits[a].initialValue = 0
  BY DEF Init, NoDeposit
<1>4. /\ P = DECIMAL_PRECISION /\ totalARTHDeposits = 0 /\ lastARTHLossError = 0
      /\ arthOutside = Supply
      /\ DECIMAL_PRECISION \in Nat /\ Supply \in Nat
  BY PoolAssumption, PrecisionAssumption DEF Init
<1>5. none \in [Accounts -> Nat]
  OBVIOUS
<1> HIDE DEF none
<1>6. Covered(ShareTotal(none), 1, P, totalARTHDeposits, lastARTHLossError)
  BY <1>2, <1>4 DEF Covered
<1>7. SharedBy(1, none)
  BY <1>3, <1>5, <1>6 DEF SharedBy, Backed
<1>8. totalARTHDeposits + arthOutside <= Supply /\ lastARTHLossError <= Supply
  BY <1>4
<1> QED
  BY <1>7, <1>8 DEF DepositsShared

(* Shares that cover the deposits before an operation on one of them cover *)
(* them afterwards, in a unit multiplied by the product: the others keep   *)
(* their part, and this one gets what it is worth now.                     *)
LEMMA ReshareCovers ==
  ASSUME NEW sum \in Nat, NEW unit \in Nat, NEW p \in Nat, NEW d \in Nat,
         NEW total \in Nat, NEW slack \in Nat, NEW share \in Nat, NEW worth \in Nat,
         NEW value \in Nat, NEW total2 \in Nat,
         sum * p * d <= unit * (total * d + slack),
         worth * unit <= share * p, value - worth = total2 - total
  PROVE  (sum * p - share * p + value * unit) * p * d
           <= (unit * p) * (total2 * d + slack)
<1>0. \A u, v \in Nat : u * v \in Nat
  BY NatProduct
<1> DEFINE x == (sum * p - share * p + value * unit) * d
           y == unit * (total2 * d + slack)
<1>1. x = sum * p * d - (share * p) * d + (value * unit) * d
  <2>1. \A a, b, c \in Int : (a - b + c) * d = a * d - b * d + c * d
    OBVIOUS
  <2>2. sum * p \in Int /\ share * p \in Int /\ value * unit \in Int
    BY <1>0
  <2> QED
    BY <2>1, <2>2
<1>2. (worth * unit) * d <= (share * p) * d
  BY <1>0, ProductMonotone
<1>3. (value * unit) * d - (worth * unit) * d = (total2 * d) * unit - (total * d) * unit
  <2>1. (value * unit) * d - (worth * unit) * d = ((value - worth) * d) * unit
    OBVIOUS
  <2>2. (total2 * d) * unit - (total * d) * unit = ((total2 - total) * d) * unit
    OBVIOUS
  <2> QED
    BY <2>1, <2>2
<1>4. /\ y = (total2 * d) * unit + slack * unit
      /\ unit * (total * d + slack) = (total * d) * unit + slack * unit
  <2>1. \A a \in Int : unit * (a + slack) = a * unit + slack * unit
    OBVIOUS
  <2>2. total2 * d \in Int /\ total * d \in Int
    BY <1>0
  <2> QED
    BY <2>1, <2>2
<1>5. /\ sum * p * d \in Int /\ (share * p) * d \in Int /\ (value * unit) * d \in Int
      /\ (worth * unit) * d \in Int /\ (total2 * d) * unit \in Int
      /\ (total * d) * unit \in Int /\ slack * unit \in Int
  BY <1>0
<1>6. x <= y /\ x \in Int /\ y \in Int
  BY <1>1, <1>2, <1>3, <1>4, <1>5
<1>7. (sum * p - share * p + value * unit) * p * d = x * p
  <2>1. sum * p - share * p + value * unit \in Int
    <3>1. sum * p \in Int /\ share * p \in Int /\ value * unit \in Int
      BY <1>0
    <3> QED
      BY <3>1
  <2> QED
    BY <2>1, ProductSwap
<1>8. (unit * p) * (total2 * d + slack) = y * p
  <2>1. total2 * d + slack \in Int
    BY <1>0
  <2> QED
    BY <2>1, ProductSwap
<1> HIDE DEF x, y
<1>9. \A u, v \in Int : u <= v => u * p <= v * p
  OBVIOUS
<1> QED
  BY <1>6, <1>7, <1>8, <1>9

(* Deposits, top-ups and withdrawals keep the deposits covered.            *)
LEMMA OperationKeepsShares ==
  ASSUME SnapshotsBehind, DepositsShared, NEW a \in Accounts, NEW tag \in Tags,
         NEW added \in Nat, NEW removed \in Nat,
         removed <= CompoundedDeposit(a) + added, added <= arthOutside,
         DepositorOperation(a, tag, added, removed)
  PROVE  DepositsShared'
<1> DEFINE value == CompoundedDeposit(a) + added - removed
<1>1. PoolTypeOK /\ IsFiniteSet(Accounts)
  BY FiniteAssumption, FS_Union DEF SnapshotsBehind, Accounts
<1>2. /\ P \in Nat \ {0} /\ DECIMAL_PRECISION \in Nat \ {0}
      /\ totalARTHDeposits \in Nat /\ lastARTHLossError \in Nat /\ Supply \in Nat
      /\ arthOutside \in Nat /\ currentScale \in Nat /\ currentEpoch \in Nat
  BY <1>1, PoolNumbers
<1>3. /\ removed <= totalARTHDeposits
      /\ UpdateDepositAndSnapshots(a, tag, value, GAfterIssuance)
      /\ totalARTHDeposits' = totalARTHDeposits + added - removed
      /\ arthOutside' = arthOutside - added + removed
      /\ P' = P /\ currentScale' = currentScale /\ currentEpoch' = currentEpoch
      /\ lastARTHLossError' = lastARTHLossError
  BY DEF DepositorOperation, productVars, errorVars
<1>4. PICK unit, shares : SharedBy(unit, shares)
  BY DEF DepositsShared
<1>5. unit \in Nat \ {0} /\ shares \in [Accounts -> Nat] /\ shares[a] \in Nat
  BY <1>4 DEF SharedBy
<1>6. /\ CompoundedDeposit(a) \in Nat
      /\ CompoundedDeposit(a) * unit <= shares[a] * P
  <2>1. /\ deposits[a].initialValue \in Nat /\ depositSnapshots[a] \in Snapshot
        /\ Behind(deposits[a].initialValue, depositSnapshots[a])
        /\ Backed(shares[a], unit, deposits[a].initialValue, depositSnapshots[a],
                  currentScale, currentEpoch)
    BY <1>1, <1>4, PoolNumbers DEF SnapshotsBehind, SharedBy
  <2> QED
    BY <1>1, <1>5, <2>1, CompoundedIsAmount, CompoundedIsBacked DEF CompoundedDeposit
<1>7. value \in Nat
  BY <1>6
<1> DEFINE scaled == [x \in Accounts |-> shares[x] * P]
           next == [x \in Accounts |-> IF x = a THEN value * unit ELSE shares[x] * P]
<1>8. ShareTotal(next) = ShareTotal(shares) * P - shares[a] * P + value * unit
  <2>1. \A x \in Accounts : /\ shares[x] \in Int /\ scaled[x] = shares[x] * P
                            /\ scaled[x] \in Int
    BY <1>2, <1>5
  <2>2. \A x \in Accounts \ {a} : next[x] = scaled[x]
    OBVIOUS
  <2>3. next[a] = value * unit /\ next[a] \in Int /\ scaled[a] = shares[a] * P
    BY <1>5, <1>7, NatProduct
  <2> HIDE DEF scaled, next, value
  <2>4. SumFunctionOnSet(scaled, Accounts) = SumFunctionOnSet(shares, Accounts) * P
    BY <1>1, <1>2, <2>1, SumScale
  <2>5. SumFunctionOnSet(next, Accounts)
          = SumFunctionOnSet(scaled, Accounts) - scaled[a] + next[a]
    BY <1>1, <2>1, <2>2, <2>3, SumUpdate
  <2> QED
    BY <2>3, <2>4, <2>5 DEF ShareTotal
<1>9. ShareTotal(shares) \in Nat
  BY <1>1, <1>5, SumNat DEF ShareTotal
<1>10. /\ unit * P \in Nat \ {0}
       /\ next \in [Accounts -> Nat]
  <2>1. \A u, v \in Nat \ {0} : u * v \in Nat \ {0}
    OBVIOUS
  <2>2. \A x \in Accounts : shares[x] * P \in Nat
    BY <1>2, <1>5, NatProduct
  <2>3. value * unit \in Nat
    BY <1>5, <1>7, NatProduct
  <2> QED
    BY <1>2, <1>5, <2>1, <2>2, <2>3
<1> HIDE DEF value, scaled
<1>11. /\ deposits' = [deposits EXCEPT ![a] =
            IF value = 0 THEN NoDeposit ELSE [initialValue |-> value, frontEndTag |-> tag]]
       /\ depositSnapshots' = [depositSnapshots EXCEPT ![a] =
            IF value = 0 THEN NoSnapshot ELSE CurrentSnapshot(GAfterIssuance)]
  BY <1>3 DEF UpdateDepositAndSnapshots
<1>12. ASSUME NEW x \in Accounts
       PROVE  Backed(next[x], unit * P, deposits'[x].initialValue, depositSnapshots'[x],
                     currentScale', currentEpoch')
  <2>1. CASE x = a
    <3>1. CASE value = 0
      <4>1. deposits'[x].initialValue = 0
        BY <1>1, <1>11, <2>1, <3>1 DEF PoolTypeOK, NoDeposit
      <4> QED
        BY <4>1 DEF Backed
    <3>2. CASE value # 0
      <4>1. deposits'[x].initialValue = value
        BY <1>1, <1>11, <2>1, <3>2 DEF PoolTypeOK
      <4>2. depositSnapshots'[x].P = P /\ depositSnapshots'[x].scale = currentScale
        BY <1>1, <1>11, <2>1, <3>2 DEF PoolTypeOK, CurrentSnapshot
      <4>3. next[x] = value * unit
        BY <2>1
      <4>4. value * (unit * P) = (value * unit) * P
        BY <1>2, <1>5, <1>7, ProductGroup
      <4>5. (value * unit) * P \in Nat
        BY <1>2, <1>5, <1>7, NatProduct
      <4> HIDE DEF next
      <4> QED
        BY <1>2, <1>3, <4>1, <4>2, <4>3, <4>4, <4>5 DEF Backed
    <3> QED
      BY <3>1, <3>2
  <2>2. CASE x # a
    <3>1. /\ deposits'[x] = deposits[x] /\ depositSnapshots'[x] = depositSnapshots[x]
          /\ next[x] = shares[x] * P
      BY <1>1, <1>11, <2>2 DEF PoolTypeOK
    <3> DEFINE stake == deposits[x].initialValue
               snap == depositSnapshots[x]
    <3>2. /\ stake \in Nat /\ snap.P \in Nat /\ shares[x] \in Nat
          /\ Backed(shares[x], unit, stake, snap, currentScale, currentEpoch)
      BY <1>1, <1>4, <1>5, PoolNumbers DEF SharedBy
    <3> HIDE DEF stake, snap, next
    <3>3. /\ stake * (unit * P) = (stake * unit) * P
          /\ (shares[x] * P) * snap.P = (shares[x] * snap.P) * P
      BY <1>2, <1>5, <3>2, ProductGroup, ProductSwap
    <3>4. stake * unit \in Nat /\ shares[x] * snap.P \in Nat
      BY <1>5, <3>2, NatProduct
    <3>5. stake * unit <= shares[x] * snap.P
            => stake * (unit * P) <= (shares[x] * P) * snap.P
      BY <1>2, <3>3, <3>4, ProductMonotone
    <3>6. stake * unit <= shares[x] * snap.P * SCALE_FACTOR
            => stake * (unit * P) <= (shares[x] * P) * snap.P * SCALE_FACTOR
      <4>1. shares[x] * snap.P * SCALE_FACTOR \in Nat
        BY <1>1, <3>4, NatProduct, PoolNumbers
      <4>2. (shares[x] * snap.P * SCALE_FACTOR) * P = (shares[x] * snap.P * P) * SCALE_FACTOR
        BY <1>1, <1>2, <3>4, ProductSwap, PoolNumbers
      <4>3. stake * unit <= shares[x] * snap.P * SCALE_FACTOR
              => (stake * unit) * P <= (shares[x] * snap.P * SCALE_FACTOR) * P
        BY <1>2, <3>4, <4>1, ProductMonotone
      <4> QED
        BY <3>3, <4>2, <4>3
    <3>7. Backed(shares[x] * P, unit * P, stake, snap, currentScale, currentEpoch)
      BY <3>2, <3>5, <3>6 DEF Backed
    <3> QED
      BY <1>3, <3>1, <3>7 DEF stake, snap
  <2> QED
    BY <2>1, <2>2
<1>13. lastARTHLossError <= Supply /\ totalARTHDeposits + arthOutside <= Supply
  BY DEF DepositsShared
<1>14. Covered(ShareTotal(next), unit * P, P', totalARTHDeposits', lastARTHLossError')
  <2> DEFINE slack == Supply - lastARTHLossError
             sum == ShareTotal(shares)
             worth == CompoundedDeposit(a)
  <2>1. slack \in Nat /\ totalARTHDeposits' \in Nat
    BY <1>2, <1>3, <1>13
  <2>2. sum * P * DECIMAL_PRECISION <= unit * (totalARTHDeposits * DECIMAL_PRECISION + slack)
    BY <1>4 DEF SharedBy, Covered
  <2>3. value - worth = totalARTHDeposits' - totalARTHDeposits
    BY <1>2, <1>3, <1>6 DEF value
  <2>4. worth * unit <= shares[a] * P /\ worth \in Nat /\ sum \in Nat
    BY <1>6, <1>9
  <2> HIDE DEF slack, sum, worth
  <2>5. (sum * P - shares[a] * P + value * unit) * P * DECIMAL_PRECISION
          <= (unit * P) * (totalARTHDeposits' * DECIMAL_PRECISION + slack)
    BY <1>2, <1>5, <1>7, <2>1, <2>2, <2>3, <2>4, ReshareCovers
  <2> QED
    BY <1>3, <1>8, <2>5 DEF Covered, slack, sum
<1>15. SharedNextBy(unit * P, next)
  BY <1>10, <1>12, <1>14 DEF SharedNextBy
<1>16. lastARTHLossError' <= Supply /\ totalARTHDeposits' + arthOutside' <= Supply
  BY <1>2, <1>3, <1>13
<1> QED
  BY <1>15, <1>16, DepositsSharedNext

(* The rounded loss of a liquidation, and what it leaves in the error.     *)
LEMMA LossFeedsBack ==
  ASSUME PoolTypeOK, NEW debt \in Nat, NEW coll \in Nat, Offset(debt, coll),
         debt # totalARTHDeposits
  PROVE  /\ lastARTHLossError' = LossPerUnit(debt) * totalARTHDeposits
                                   - (debt * DECIMAL_PRECISION - lastARTHLossError)
         /\ lastARTHLossError' <= totalARTHDeposits
<1> DEFINE num == debt * DECIMAL_PRECISION - lastARTHLossError
<1>1. /\ totalARTHDeposits \in Nat \ {0} /\ DECIMAL_PRECISION \in Nat
      /\ lastARTHLossError \in Nat /\ debt * DECIMAL_PRECISION \in Nat
  BY PoolNumbers, NatProduct DEF Offset
<1>2. num \in Nat
  BY <1>1 DEF Offset
<1>3. /\ LossPerUnit(debt) = num \div totalARTHDeposits + 1
      /\ lastARTHLossError' = LossPerUnit(debt) * totalARTHDeposits - num
  BY DEF LossPerUnit, Offset
<1>4. (num \div totalARTHDeposits + 1) * totalARTHDeposits - num <= totalARTHDeposits
  <2>1. \A x \in Nat, y \in Nat \ {0} : (x \div y) * y <= x /\ (x \div y) * y \in Nat
    OBVIOUS
  <2>2. \A q, y \in Nat : (q + 1) * y = q * y + y
    OBVIOUS
  <2>3. num \div totalARTHDeposits \in Nat
    BY <1>1, <1>2, NatQuotient
  <2> HIDE DEF num
  <2> QED
    BY <1>1, <1>2, <2>1, <2>2, <2>3
<1> QED
  BY <1>3, <1>4

(* A stake that counts after a loss counted before it, and its shares of   *)
(* the product in the unit of the scale still back it.                     *)
LEMMA BackedAfterLoss ==
  ASSUME PoolTypeOK, NEW stake \in Nat, NEW snap \in Snapshot, Behind(stake, snap),
         NEW unit \in Nat \ {0}, NEW share \in Nat,
         Backed(share, unit, stake, snap, currentScale, currentEpoch),
         currentEpoch' = currentEpoch,
         NEW k,
         \/ k = 1 /\ currentScale' = currentScale
         \/ k = SCALE_FACTOR /\ currentScale' = currentScale + 1
  PROVE  Backed(share, unit * k, stake, snap, currentScale', currentEpoch')
<1>1. /\ snap.P \in Nat /\ snap.scale \in Nat /\ currentScale \in Nat
      /\ SCALE_FACTOR \in Nat \ {0} /\ stake * unit \in Nat /\ share * snap.P \in Nat
  BY PoolNumbers, NatProduct
<1>2. CASE k = 1 /\ currentScale' = currentScale
  <2>1. unit * k = unit
    BY <1>2
  <2> QED
    BY <1>2, <2>1
<1>3. CASE k = SCALE_FACTOR /\ currentScale' = currentScale + 1
  <2> SUFFICES ASSUME stake > 0, snap.epoch = currentEpoch
               PROVE  /\ snap.scale # currentScale'
                      /\ snap.scale + 1 = currentScale' =>
                           stake * (unit * k) <= share * snap.P * SCALE_FACTOR
    BY DEF Backed
  <2>1. snap.scale <= currentScale
    BY DEF Behind
  <2>2. ASSUME snap.scale + 1 = currentScale'
        PROVE  stake * (unit * k) <= share * snap.P * SCALE_FACTOR
    <3>0. snap.scale = currentScale
      <4>1. snap.scale \in Nat /\ currentScale \in Nat /\ snap.scale + 1 = currentScale + 1
        BY <1>1, <1>3, <2>2
      <4> QED
        BY <4>1
    <3>1. stake * unit <= share * snap.P
      BY <3>0 DEF Backed
    <3>2. (stake * unit) * SCALE_FACTOR <= (share * snap.P) * SCALE_FACTOR
      BY <1>1, <3>1, ProductMonotone
    <3>3. (stake * unit) * SCALE_FACTOR = stake * (unit * SCALE_FACTOR)
      BY <1>1, ProductGroup
    <3> QED
      BY <1>3, <3>2, <3>3
  <2> QED
    BY <1>1, <1>3, <2>1, <2>2
<1> QED
  BY <1>2, <1>3

(* A liquidation keeps the deposits covered: on its scale, on the next     *)
(* scale, and when it ends the epoch.                                      *)
LEMMA OffsetKeepsShares ==
  ASSUME SnapshotsBehind, DepositsShared, NEW debt \in Nat, NEW coll \in Nat,
         Offset(debt, coll)
  PROVE  DepositsShared'
<1> DEFINE d == DECIMAL_PRECISION
           loss == LossPerUnit(debt)
           factor == d - loss
           total == totalARTHDeposits
           slack == Supply - lastARTHLossError
           slackNext == Supply - lastARTHLossError'
<1>1. PoolTypeOK /\ IsFiniteSet(Accounts)
  BY FiniteAssumption, FS_Union DEF SnapshotsBehind, Accounts
<1>2. /\ P \in Nat \ {0} /\ d \in Nat \ {0} /\ total \in Nat \ {0} /\ lastARTHLossError \in Nat
      /\ Supply \in Nat /\ arthOutside \in Nat /\ currentScale \in Nat
      /\ currentEpoch \in Nat /\ SCALE_FACTOR \in Nat \ {0}
  BY <1>1, PoolNumbers DEF Offset
<1>3. /\ loss \in 0..d /\ lastARTHLossError' \in Nat
  BY <1>1, OffsetAmounts
<1>4. /\ debt <= total /\ total' = total - debt
      /\ UNCHANGED accountVars /\ arthOutside' = arthOutside
      /\ UpdateRewardSumAndProduct(ETHNumerator(coll) \div total, loss)
  BY DEF Offset
<1>5. lastARTHLossError <= Supply /\ total + arthOutside <= Supply
  BY DEF DepositsShared
<1>6. lastARTHLossError' <= Supply /\ total' + arthOutside' <= Supply
  <2>1. lastARTHLossError' <= total
    <3>1. CASE debt = total
      BY <1>2, <3>1 DEF Offset
    <3>2. CASE debt # total
      BY <1>1, <3>2, LossFeedsBack
    <3> QED
      BY <3>1, <3>2
  <2> HIDE DEF loss
  <2> QED
    BY <1>2, <1>3, <1>4, <1>5, <2>1
<1>7. SnapshotsBehind'
  BY OffsetKeepsBehind
<1>8. /\ deposits' = deposits /\ depositSnapshots' = depositSnapshots
  BY <1>4 DEF accountVars
<1>9. P' \in Nat /\ currentEpoch' \in Nat
  BY <1>7 DEF SnapshotsBehind, PoolTypeOK, Epochs
<1>10. CASE factor = 0
  <2>1. currentEpoch' = currentEpoch + 1
    BY <1>10, <1>4 DEF UpdateRewardSumAndProduct
  <2> DEFINE none == [a \in Accounts |-> 0]
  <2>2. none \in [Accounts -> Nat] /\ \A a \in Accounts : none[a] = 0
    OBVIOUS
  <2> HIDE DEF none
  <2>3. ShareTotal(none) = 0
    <3>1. ShareTotal(none) = Cardinality(Accounts) * 0
      BY <1>1, <2>2, SumConstant DEF ShareTotal
    <3>2. Cardinality(Accounts) \in Nat
      BY <1>1, FS_CardinalityType
    <3> QED
      BY <3>1, <3>2
  <2>4. Covered(ShareTotal(none), 1, P', total', lastARTHLossError')
    <3>1. total' \in Nat /\ total' * d \in Nat
      BY <1>2, <1>4, NatProduct
    <3>2. 0 * P' * d = 0
      <4>1. \A u, v \in Nat : 0 * u * v = 0
        OBVIOUS
      <4> QED
        BY <1>2, <1>9, <4>1
    <3> QED
      BY <1>2, <1>3, <1>6, <2>3, <3>1, <3>2 DEF Covered
  <2>5. ASSUME NEW a \in Accounts
        PROVE  Backed(none[a], 1, deposits'[a].initialValue, depositSnapshots'[a],
                      currentScale', currentEpoch')
    <3>1. /\ Behind(deposits[a].initialValue, depositSnapshots[a])
          /\ depositSnapshots[a].epoch \in Nat
      BY <1>1, PoolNumbers DEF SnapshotsBehind
    <3>2. deposits[a].initialValue > 0 => depositSnapshots[a].epoch <= currentEpoch
      BY <3>1 DEF Behind
    <3>3. ~(deposits[a].initialValue > 0 /\ depositSnapshots[a].epoch = currentEpoch')
      BY <1>2, <2>1, <3>1, <3>2
    <3> QED
      BY <1>8, <3>3 DEF Backed
  <2>6. SharedNextBy(1, none)
    BY <2>2, <2>4, <2>5 DEF SharedNextBy
  <2> QED
    BY <1>6, <2>6, DepositsSharedNext
<1>11. CASE factor # 0
  <2>1. PICK unit, shares : SharedBy(unit, shares)
    BY DEF DepositsShared
  <2>2. PICK k \in Nat \ {0} :
          /\ currentEpoch' = currentEpoch
          /\ P' = (P * factor * k) \div d
          /\ \/ k = 1 /\ currentScale' = currentScale
             \/ k = SCALE_FACTOR /\ currentScale' = currentScale + 1
    <3>1. \/ /\ currentScale' = currentScale + 1 /\ currentEpoch' = currentEpoch
             /\ P' = (P * factor * SCALE_FACTOR) \div d
          \/ /\ currentScale' = currentScale /\ currentEpoch' = currentEpoch
             /\ P' = (P * factor) \div d
      BY <1>4, <1>11 DEF UpdateRewardSumAndProduct
    <3>2. P * factor * 1 = P * factor
      <4>1. factor \in Int /\ P * factor \in Int
        BY <1>2, <1>3
      <4> QED
        BY <4>1
    <3> HIDE DEF factor, d
    <3> QED
      BY <1>2, <3>1, <3>2
  <2>3. /\ unit \in Nat \ {0} /\ shares \in [Accounts -> Nat]
        /\ unit * k \in Nat \ {0}
    <3>1. \A u, v \in Nat \ {0} : u * v \in Nat \ {0}
      OBVIOUS
    <3> QED
      BY <2>1, <3>1 DEF SharedBy
  <2>4. ASSUME NEW a \in Accounts
        PROVE  Backed(shares[a], unit * k, deposits'[a].initialValue, depositSnapshots'[a],
                      currentScale', currentEpoch')
    <3>1. /\ deposits[a].initialValue \in Nat /\ depositSnapshots[a] \in Snapshot
          /\ Behind(deposits[a].initialValue, depositSnapshots[a])
          /\ Backed(shares[a], unit, deposits[a].initialValue, depositSnapshots[a],
                    currentScale, currentEpoch)
          /\ shares[a] \in Nat
      BY <1>1, <2>1, <2>3, PoolNumbers DEF SnapshotsBehind, SharedBy
    <3>2. Backed(shares[a], unit * k, deposits[a].initialValue, depositSnapshots[a],
                 currentScale', currentEpoch')
      BY <1>1, <2>2, <2>3, <3>1, BackedAfterLoss
    <3> QED
      BY <1>8, <3>2
  <2>5. Covered(ShareTotal(shares), unit * k, P', total', lastARTHLossError')
    <3>1. debt # total
      <4>1. ASSUME debt = total PROVE factor = 0
        BY <1>2, <4>1 DEF LossPerUnit
      <4> QED
        BY <1>11, <4>1
    <3>2. lastARTHLossError' = loss * total - (debt * d - lastARTHLossError)
      BY <1>1, <3>1, LossFeedsBack
    <3> DEFINE x == total * d + slack
               y == (total - debt) * d + slackNext
               sum == ShareTotal(shares)
    <3>3. x * factor <= y * d
      <4> HIDE DEF loss, d
      <4> QED
        BY <1>2, <1>3, <1>4, <1>5, <3>2, ErrorFeedback
    <3>4. sum * P * d <= unit * x
      BY <2>1 DEF SharedBy, Covered
    <3>5. P' * d <= P * factor * k
      <4>1. \A u \in Nat, v \in Nat \ {0} : (u \div v) * v <= u
        OBVIOUS
      <4>2. P * factor * k \in Nat
        <5>1. factor \in Nat
          BY <1>2, <1>3
        <5> HIDE DEF factor
        <5> QED
          BY <1>2, <5>1, NatProduct
      <4> HIDE DEF factor, d
      <4> QED
        BY <1>2, <2>2, <4>1, <4>2
    <3>6. x \in Nat /\ y \in Nat
      <4>1. total * d \in Nat /\ (total - debt) * d \in Nat
        BY <1>2, <1>4, NatProduct
      <4>2. slack \in Nat /\ slackNext \in Nat
        <5>1. /\ Supply \in Nat /\ lastARTHLossError \in Nat /\ lastARTHLossError' \in Nat
              /\ lastARTHLossError <= Supply /\ lastARTHLossError' <= Supply
          BY <1>2, <1>3, <1>5, <1>6
        <5>2. \A u, v \in Nat : u <= v => v - u \in Nat
          OBVIOUS
        <5> QED
          BY <5>1, <5>2, Zenon
      <4> HIDE DEF slack, slackNext, d
      <4> QED
        BY <4>1, <4>2
    <3>7. sum \in Nat /\ factor \in Nat
      BY <1>1, <1>2, <1>3, <2>3, SumNat DEF ShareTotal
    <3> HIDE DEF x, y, sum, factor, d
    <3>8. sum * P' * d <= (unit * k) * y
      BY <1>2, <1>9, <2>2, <2>3, <3>3, <3>4, <3>5, <3>6, <3>7, LossIsShared
    <3> QED
      BY <1>4, <3>8 DEF Covered, y, sum, d
  <2>6. SharedNextBy(unit * k, shares)
    BY <2>3, <2>4, <2>5 DEF SharedNextBy
  <2> QED
    BY <1>6, <2>6, DepositsSharedNext
<1> QED
  BY <1>10, <1>11

(* Steps of other contracts leave the shares alone.                        *)
LEMMA SharesUnchanged ==
  ASSUME DepositsShared,
         UNCHANGED <<deposits, depositSnapshots, productVars, errorVars, totalARTHDeposits,
                     arthOutside>>
  PROVE  DepositsShared'
<1>1. PICK unit, shares : SharedBy(unit, shares)
  BY DEF DepositsShared
<1>2. SharedNextBy(unit, shares)
  BY <1>1 DEF SharedBy, SharedNextBy, productVars, errorVars
<1>3. lastARTHLossError' <= Supply /\ totalARTHDeposits' + arthOutside' <= Supply
  BY DEF DepositsShared, errorVars
<1> QED
  BY <1>2, <1>3, DepositsSharedNext

(* Every step keeps the deposits covered.                                  *)
LEMMA NextKeepsShares ==
  ASSUME SnapshotsBehind, DepositsShared, [Next]_vars
  PROVE  DepositsShared'
<1>1. PoolTypeOK
  BY DEF SnapshotsBehind
<1>2. ASSUME NEW a \in Depositors
      PROVE  /\ a \in Accounts /\ deposits[a].frontEndTag \in Tags
             /\ CompoundedDeposit(a) \in Nat /\ arthOutside \in Nat
  <2>1. a \in Accounts
    BY DEF Accounts
  <2>2. CompoundedDeposit(a) \in Nat
    BY <1>1, <2>1, StoredSnapshots, CompoundedIsAmount
    DEF CompoundedDeposit, Behind, BehindValues
  <2> QED
    BY <1>1, <2>1, <2>2 DEF PoolTypeOK
<1>3. ASSUME NEW a \in Depositors, NEW amount \in Amounts, NEW tag \in Tags,
             ProvideToSP(a, amount, tag)
      PROVE  DepositsShared'
  <2> DEFINE t == IF deposits[a].initialValue = 0 THEN tag ELSE deposits[a].frontEndTag
  <2>1. a \in Accounts /\ t \in Tags /\ amount \in Nat /\ 0 \in Nat
        /\ CompoundedDeposit(a) \in Nat
    BY <1>2, PoolAssumption
  <2>2. DepositorOperation(a, t, amount, 0) /\ amount <= arthOutside
    BY <1>3 DEF ProvideToSP
  <2> HIDE DEF t
  <2> QED
    BY <2>1, <2>2, OperationKeepsShares
<1>4. ASSUME NEW a \in Depositors, NEW amount \in Amounts \cup {0},
             WithdrawFromSP(a, amount)
      PROVE  DepositsShared'
  <2> DEFINE removed == MinOf(amount, CompoundedDeposit(a))
  <2>1. amount \in Nat
    BY PoolAssumption
  <2>2. removed \in Nat /\ removed <= CompoundedDeposit(a) + 0 /\ 0 <= arthOutside
    BY <1>2, <2>1 DEF MinOf
  <2>3. DepositorOperation(a, deposits[a].frontEndTag, 0, removed)
    BY <1>4 DEF WithdrawFromSP
  <2> HIDE DEF removed
  <2> QED
    BY <1>2, <2>2, <2>3, OperationKeepsShares
<1>5. ASSUME NEW a \in Depositors, WithdrawETHGainToTrove(a)
      PROVE  DepositsShared'
  <2>1. DepositorOperation(a, deposits[a].frontEndTag, 0, 0)
    BY <1>5 DEF WithdrawETHGainToTrove
  <2> QED
    BY <1>2, <2>1, OperationKeepsShares
<1>6. ASSUME NEW f \in FrontEnds, NEW rate \in KickbackRates, RegisterFrontEnd(f, rate)
      PROVE  DepositsShared'
  BY <1>6, SharesUnchanged DEF RegisterFrontEnd
<1>7. ASSUME NEW trove \in Troves, OffsetTrove(trove)
      PROVE  DepositsShared'
  <2> DEFINE debt == MinOf(trove.debt, totalARTHDeposits)
             coll == (trove.coll * debt) \div trove.debt
  <2>1. trove.debt \in Nat \ {0} /\ trove.coll \in Nat /\ totalARTHDeposits \in Nat
    BY <1>1, PoolAssumption DEF PoolTypeOK
  <2>2. debt \in Nat
    BY <2>1 DEF MinOf
  <2>3. coll \in Nat
    BY <2>1, <2>2, NatProduct, NatQuotient
  <2>4. Offset(debt, coll)
    BY <1>7 DEF OffsetTrove
  <2> HIDE DEF debt, coll
  <2> QED
    BY <2>2, <2>3, <2>4, OffsetKeepsShares
<1>8. ASSUME PoolUnchanged PROVE DepositsShared'
  BY <1>8, SharesUnchanged DEF PoolUnchanged, accountVars
<1>9. ASSUME UNCHANGED vars PROVE DepositsShared'
  BY <1>9, SharesUnchanged DEF vars, accountVars
<1> QED
  BY <1>3, <1>4, <1>5, <1>6, <1>7, <1>8, <1>9 DEF Next

(* However many liquidations, scales, epochs, deposits and withdrawals     *)
(* there were, the present values of all deposits never add up to more     *)
(* than the pool holds by more than one rounding of the loss per unit: the *)
(* error feedback of _computeRewardsPerUnitStaked does not accumulate,     *)
(* whatever the precision, the scale factor and the troves.                *)
THEOREM DepositsStayNearlyCovered == Spec => []DepositsNearlyCovered
<1>1. Init => SnapshotsBehind /\ DepositsShared
  BY PoolInitially, SharesInitially
<1>2. SnapshotsBehind /\ DepositsShared /\ [Next]_vars
        => SnapshotsBehind' /\ DepositsShared'
  BY NextKeepsBehind, NextKeepsShares
<1>3. SnapshotsBehind /\ DepositsShared => DepositsNearlyCovered
  BY SharesCoverDeposits
<1> QED
  BY <1>1, <1>2, <1>3, PTL DEF Spec

-------------------------------------------------------------------------------
(* The MAHA gains, while no liquidation has reached the pool.  A deposit   *)
(* and a stake of a front end are promised the growth of the sum G since   *)
(* their snapshot, in proportion to their rate.                            *)
Part(rate, stake, snap, g) == rate * (stake * (g - snap.G))

DepositorParts(g) ==
  [a \in Accounts |-> Part(KickbackRate(deposits[a].frontEndTag),
                           deposits[a].initialValue, depositSnapshots[a], g)]

FrontEndParts(g) ==
  [t \in Tags |-> Part(DECIMAL_PRECISION - KickbackRate(t), frontEndStakes[t],
                       frontEndSnapshots[t], g)]

Promised(g) ==
  SumFunctionOnSet(DepositorParts(g), Accounts) + SumFunctionOnSet(FrontEndParts(g), Tags)

(* How fast these promises grow with G.                                    *)
DepositorWeights ==
  [a \in Accounts |-> KickbackRate(deposits[a].frontEndTag) * deposits[a].initialValue]

FrontEndWeights ==
  [t \in Tags |-> (DECIMAL_PRECISION - KickbackRate(t)) * frontEndStakes[t]]

Weighted ==
  SumFunctionOnSet(DepositorWeights, Accounts) + SumFunctionOnSet(FrontEndWeights, Tags)

Untouched == P = DECIMAL_PRECISION /\ currentEpoch = 0

MAHASum == epochToScaleToG[0][0]

Square == DECIMAL_PRECISION * DECIMAL_PRECISION
Cube == Square * DECIMAL_PRECISION

(* Rewards announced and not issued yet, from an instant on.               *)
ToIssue(from) == rewardRate * (periodFinish - from)

(* No more has been or will be issued than was announced.                  *)
IssuedInOrder ==
  /\ lastUpdateTime <= now /\ lastUpdateTime <= periodFinish
  /\ totalMAHAIssued + ToIssue(lastUpdateTime) <= announced

(* Issued and not paid yet.                                                *)
Unpaid == totalMAHAIssued - MAHAPaid

AtFirstProduct ==
  /\ currentScale = 0
  /\ epochToScaleToG[0][1] = 0
  /\ \A a \in Accounts : deposits[a].initialValue > 0 =>
       /\ depositSnapshots[a].P = DECIMAL_PRECISION
       /\ deposits[a].frontEndTag = NoFrontEnd \/ Registered(deposits[a].frontEndTag)
  /\ \A t \in Tags : frontEndStakes[t] > 0 =>
       /\ frontEndSnapshots[t].P = DECIMAL_PRECISION
       /\ t = NoFrontEnd \/ Registered(t)

Funded ==
  /\ Weighted = totalARTHDeposits * DECIMAL_PRECISION
  /\ Promised(MAHASum) + lastMAHAError * Square <= Unpaid * Cube

MAHAInv ==
  /\ currentEpoch = 0 => P <= DECIMAL_PRECISION
  /\ Untouched => AtFirstProduct /\ Funded

(* The accounts and tags are finite.                                       *)
LEMMA FiniteAccounts == IsFiniteSet(Accounts) /\ IsFiniteSet(Tags)
<1>1. IsFiniteSet({NoFrontEnd})
  BY FS_Singleton
<1> QED
  BY <1>1, FiniteAssumption, FS_Union DEF Accounts, Tags

(* Powers of the precision.                                                *)
LEMMA Powers == /\ DECIMAL_PRECISION \in Nat \ {0} /\ Square \in Nat \ {0} /\ Cube \in Nat \ {0}
                /\ Cube = Square * DECIMAL_PRECISION
<1>1. \A u, v \in Nat \ {0} : u * v \in Nat \ {0}
  OBVIOUS
<1>2. DECIMAL_PRECISION \in Nat \ {0}
  BY PrecisionAssumption
<1>3. Square \in Nat \ {0}
  BY <1>1, <1>2 DEF Square
<1>4. Cube \in Nat \ {0}
  BY <1>1, <1>2, <1>3 DEF Cube
<1> QED
  BY <1>2, <1>3, <1>4 DEF Cube

(* What an account and a tag are, as numbers.                              *)
LEMMA StakeNumbers ==
  ASSUME SnapshotsBehind
  PROVE  /\ \A t \in Tags : /\ KickbackRate(t) \in Nat
                            /\ DECIMAL_PRECISION - KickbackRate(t) \in Nat
                            /\ frontEndStakes[t] \in Nat /\ frontEndSnapshots[t] \in Snapshot
                            /\ frontEndSnapshots[t].G \in Nat
         /\ \A a \in Accounts : /\ deposits[a].initialValue \in Nat
                                /\ depositSnapshots[a] \in Snapshot
                                /\ depositSnapshots[a].G \in Nat
                                /\ deposits[a].frontEndTag \in Tags
<1>1. PoolTypeOK
  BY DEF SnapshotsBehind
<1>2. ASSUME NEW t \in Tags
      PROVE  KickbackRate(t) \in Nat /\ DECIMAL_PRECISION - KickbackRate(t) \in Nat
  BY <1>1, PrecisionAssumption DEF KickbackRate, PoolTypeOK, Tags
<1>3. \A snap \in Snapshot : snap.G \in Nat
  BY DEF Snapshot
<1>4. /\ \A t \in Tags : frontEndStakes[t] \in Nat /\ frontEndSnapshots[t] \in Snapshot
      /\ \A a \in Accounts : /\ deposits[a].initialValue \in Nat
                             /\ depositSnapshots[a] \in Snapshot
                             /\ deposits[a].frontEndTag \in Tags
  BY <1>1 DEF PoolTypeOK
<1> QED
  BY <1>2, <1>3, <1>4

(* At the first product, a stake is worth what was paid in, and has gained *)
(* its part of the growth of G.                                            *)
LEMMA WorthAtFirstProduct ==
  ASSUME PoolTypeOK, NEW stake \in Nat, NEW snap \in Snapshot, Behind(stake, snap),
         Untouched, currentScale = 0, stake > 0 => snap.P = DECIMAL_PRECISION
  PROVE  Compounded(stake, snap) = stake
<1>1. CASE stake = 0
  BY <1>1 DEF Compounded
<1>2. CASE stake # 0
  <2>1. /\ snap.P = DECIMAL_PRECISION /\ P = DECIMAL_PRECISION /\ snap.epoch = currentEpoch
        /\ snap.scale = currentScale /\ DECIMAL_PRECISION \in Nat \ {0}
        /\ SCALE_FACTOR \in Nat \ {0} /\ currentScale = 0
    <3>1. snap.epoch \in Nat /\ snap.scale \in Nat /\ currentEpoch = 0
      BY PoolNumbers DEF Untouched
    <3>2. snap.epoch <= currentEpoch
      BY <1>2 DEF Behind
    <3>3. snap.epoch = currentEpoch
      BY <3>1, <3>2
    <3>4. snap.scale <= currentScale
      BY <1>2, <3>3 DEF Behind
    <3> QED
      BY <1>2, <3>1, <3>3, <3>4, PoolNumbers DEF Untouched
  <2>2. \A u \in Nat, v \in Nat \ {0} : (u * v) \div v = u
    OBVIOUS
  <2>3. \A u \in Nat, v \in Nat \ {0} : ~(u < u \div v)
    OBVIOUS
  <2>4. (stake * P) \div snap.P = stake
    BY <2>1, <2>2
  <2>5. /\ ~(stake = 0 \/ snap.epoch < currentEpoch \/ currentScale - snap.scale > 1)
        /\ currentScale = snap.scale
    BY <1>2, <2>1 DEF Untouched
  <2>6. ~(stake < stake \div SCALE_FACTOR)
    BY <2>1, <2>3
  <2> QED
    BY <2>4, <2>5, <2>6, Zenon DEF Compounded
<1> QED
  BY <1>1, <1>2

(* A gain is its part, rounded down three times.                           *)
LEMMA GainIsPart ==
  ASSUME SnapshotsBehind, Untouched, AtFirstProduct, NEW stake \in Nat, NEW snap \in Snapshot,
         stake > 0 => snap.P = DECIMAL_PRECISION,
         NEW sums \in [Epochs -> [Scales -> Nat]], sums[0][1] = 0,
         \A e \in Epochs, s \in Scales : epochToScaleToG[e][s] <= sums[e][s],
         Behind(stake, snap), NEW rate \in Nat
  PROVE  /\ stake * (sums[0][0] - snap.G) \in Nat
         /\ Part(rate, stake, snap, sums[0][0]) \in Nat
         /\ (rate * GainFrom(sums, stake, snap.G, snap)) \div DECIMAL_PRECISION \in Nat
         /\ ((rate * GainFrom(sums, stake, snap.G, snap)) \div DECIMAL_PRECISION) * Cube
              <= Part(rate, stake, snap, sums[0][0])
<1> DEFINE d == DECIMAL_PRECISION
           g == sums[0][0]
           gain == GainFrom(sums, stake, snap.G, snap)
           base == stake * (g - snap.G)
<1>1. /\ d \in Nat \ {0} /\ 0 \in Epochs /\ 0 \in Scales /\ 1 \in Scales
      /\ snap.G \in Nat /\ g \in Nat /\ PoolTypeOK /\ MaxScale \in Nat
  <2>1. MaxScale \in Nat /\ MaxEpoch \in Nat /\ d \in Nat \ {0}
    BY PoolAssumption, Powers
  <2>2. 0 \in Epochs /\ 0 \in Scales /\ 1 \in Scales
    BY <2>1 DEF Epochs, Scales
  <2>3. snap.G \in Nat /\ PoolTypeOK
    BY DEF Snapshot, SnapshotsBehind
  <2>4. g \in Nat
    BY <2>2
  <2> QED
    BY <2>1, <2>2, <2>3, <2>4
<1>2. ASSUME stake > 0
      PROVE  snap.epoch = 0 /\ snap.scale = 0 /\ snap.G <= g
  <2>1. snap.epoch \in Nat /\ snap.scale \in Nat /\ currentEpoch = 0 /\ currentScale = 0
    BY <1>1, PoolNumbers DEF Untouched, AtFirstProduct
  <2>2. snap.epoch = 0
    BY <1>2, <2>1 DEF Behind
  <2>3. snap.scale = 0 /\ snap.G <= epochToScaleToG[0][0]
    BY <1>2, <2>1, <2>2 DEF Behind
  <2>4. epochToScaleToG[0][0] <= g /\ epochToScaleToG[0][0] \in Nat
    BY <1>1 DEF PoolTypeOK
  <2> QED
    BY <1>1, <2>2, <2>3, <2>4
<1>3. base \in Nat
  <2>1. CASE stake = 0
    BY <1>1, <2>1
  <2>2. CASE stake > 0
    <3>1. g - snap.G \in Nat
      BY <1>1, <1>2, <2>2
    <3> QED
      BY <3>1, NatProduct
  <2> QED
    BY <2>1, <2>2
<1>4. gain \in Nat /\ gain * Square <= base
  <2>1. CASE stake = 0
    BY <1>3, <2>1, Powers DEF GainFrom
  <2>2. CASE stake > 0
    <3>1. gain = ((stake * (g - snap.G + 0 \div SCALE_FACTOR)) \div d) \div d
      BY <1>1, <1>2, <2>2 DEF GainFrom
    <3>2. 0 \div SCALE_FACTOR = 0
      <4>1. \A v \in Nat \ {0} : 0 \div v = 0
        OBVIOUS
      <4> QED
        BY <4>1, PoolAssumption
    <3>3. g - snap.G + 0 = g - snap.G
      BY <1>1
    <3>4. gain = (base \div d) \div d
      BY <3>1, <3>2, <3>3
    <3>5. \A u \in Nat, v \in Nat \ {0} : (u \div v) * v <= u
      OBVIOUS
    <3> HIDE DEF base, gain, d
    <3>6. base \div d \in Nat /\ gain \in Nat
      BY <1>1, <1>3, <3>4, NatQuotient
    <3>7. gain * d <= base \div d /\ (base \div d) * d <= base
      BY <1>1, <1>3, <3>4, <3>5, <3>6
    <3>8. (gain * d) * d <= (base \div d) * d
      BY <1>1, <3>6, <3>7, NatProduct, ProductMonotone
    <3>9. (gain * d) * d = gain * (d * d)
      BY <1>1, <3>6, ProductGroup
    <3>10. (gain * d) * d \in Nat /\ (base \div d) * d \in Nat
      BY <1>1, <3>6, NatProduct
    <3>11. gain * (d * d) <= base
      BY <1>3, <3>7, <3>8, <3>9, <3>10
    <3> QED
      BY <3>6, <3>11 DEF Square, d
  <2> QED
    BY <2>1, <2>2
<1> HIDE DEF gain, base, d
<1> DEFINE paid == (rate * gain) \div d
<1>5. rate * gain \in Nat /\ paid \in Nat /\ rate * base \in Nat
  BY <1>1, <1>3, <1>4, NatProduct, NatQuotient
<1>6. paid * d <= rate * gain
  <2>1. \A u \in Nat, v \in Nat \ {0} : (u \div v) * v <= u
    OBVIOUS
  <2> QED
    BY <1>1, <1>5, <2>1
<1>7. paid * Cube <= rate * base
  <2> HIDE DEF paid
  <2>1. (paid * d) * Square <= (rate * gain) * Square
    BY <1>1, <1>5, <1>6, Powers, NatProduct, ProductMonotone
  <2>2. paid * Cube = (paid * d) * Square
    <3>1. \A u, v, w \in Nat : u * (w * v) = (u * v) * w
      OBVIOUS
    <3> QED
      BY <1>1, <1>5, <3>1, Powers DEF d
  <2>3. (rate * gain) * Square = rate * (gain * Square)
    BY <1>4, Powers, ProductGroup
  <2>4. rate * (gain * Square) <= rate * base
    <3>1. \A u, v, w \in Nat : u <= v => w * u <= w * v
      OBVIOUS
    <3> QED
      BY <1>3, <1>4, <3>1, Powers, NatProduct
  <2>5. paid * Cube \in Nat /\ rate * (gain * Square) \in Nat
    BY <1>4, <1>5, Powers, NatProduct
  <2> QED
    BY <1>5, <2>1, <2>2, <2>3, <2>4, <2>5
<1> QED
  BY <1>3, <1>5, <1>7 DEF Part, paid, gain, base, d

(* What the parts and the weights are, as numbers.                         *)
LEMMA PartNumbers ==
  ASSUME SnapshotsBehind, NEW g \in Int
  PROVE  /\ \A a \in Accounts :
              /\ DepositorParts(g)[a]
                   = KickbackRate(deposits[a].frontEndTag)
                       * (deposits[a].initialValue * (g - depositSnapshots[a].G))
              /\ DepositorParts(g)[a] \in Int
              /\ DepositorWeights[a]
                   = KickbackRate(deposits[a].frontEndTag) * deposits[a].initialValue
              /\ DepositorWeights[a] \in Nat
         /\ \A t \in Tags :
              /\ FrontEndParts(g)[t]
                   = (DECIMAL_PRECISION - KickbackRate(t))
                       * (frontEndStakes[t] * (g - frontEndSnapshots[t].G))
              /\ FrontEndParts(g)[t] \in Int
              /\ FrontEndWeights[t] = (DECIMAL_PRECISION - KickbackRate(t)) * frontEndStakes[t]
              /\ FrontEndWeights[t] \in Nat
<1>1. \A u, v, w \in Int : u * (v * (g - w)) \in Int
  OBVIOUS
<1>2. ASSUME NEW a \in Accounts
      PROVE  /\ DepositorParts(g)[a]
                  = KickbackRate(deposits[a].frontEndTag)
                      * (deposits[a].initialValue * (g - depositSnapshots[a].G))
             /\ DepositorParts(g)[a] \in Int
             /\ DepositorWeights[a]
                  = KickbackRate(deposits[a].frontEndTag) * deposits[a].initialValue
             /\ DepositorWeights[a] \in Nat
  <2> DEFINE k == KickbackRate(deposits[a].frontEndTag)
             n == deposits[a].initialValue
             G == depositSnapshots[a].G
  <2>1. k \in Nat /\ n \in Nat /\ G \in Nat
    BY StakeNumbers
  <2>2. DepositorParts(g)[a] = k * (n * (g - G)) /\ DepositorWeights[a] = k * n
    BY DEF DepositorParts, DepositorWeights, Part
  <2> HIDE DEF k, n, G
  <2>3. k * (n * (g - G)) \in Int /\ k * n \in Nat
    BY <1>1, <2>1, NatProduct
  <2> QED
    BY <2>2, <2>3 DEF k, n, G
<1>3. ASSUME NEW t \in Tags
      PROVE  /\ FrontEndParts(g)[t]
                  = (DECIMAL_PRECISION - KickbackRate(t))
                      * (frontEndStakes[t] * (g - frontEndSnapshots[t].G))
             /\ FrontEndParts(g)[t] \in Int
             /\ FrontEndWeights[t] = (DECIMAL_PRECISION - KickbackRate(t)) * frontEndStakes[t]
             /\ FrontEndWeights[t] \in Nat
  <2> DEFINE k == DECIMAL_PRECISION - KickbackRate(t)
             n == frontEndStakes[t]
             G == frontEndSnapshots[t].G
  <2>1. k \in Nat /\ n \in Nat /\ G \in Nat
    BY StakeNumbers
  <2>2. FrontEndParts(g)[t] = k * (n * (g - G)) /\ FrontEndWeights[t] = k * n
    BY DEF FrontEndParts, FrontEndWeights, Part
  <2> HIDE DEF k, n, G
  <2>3. k * (n * (g - G)) \in Int /\ k * n \in Nat
    BY <1>1, <2>1, NatProduct
  <2> QED
    BY <2>2, <2>3 DEF k, n, G
<1> QED
  BY <1>2, <1>3

(* Their sums.                                                             *)
LEMMA PromisedNumbers ==
  ASSUME SnapshotsBehind, NEW g \in Int
  PROVE  /\ SumFunctionOnSet(DepositorParts(g), Accounts) \in Int
         /\ SumFunctionOnSet(FrontEndParts(g), Tags) \in Int
         /\ SumFunctionOnSet(DepositorWeights, Accounts) \in Nat
         /\ SumFunctionOnSet(FrontEndWeights, Tags) \in Nat
         /\ Promised(g) \in Int /\ Weighted \in Nat
<1>1. /\ \A a \in Accounts : DepositorParts(g)[a] \in Int /\ DepositorWeights[a] \in Nat
      /\ \A t \in Tags : FrontEndParts(g)[t] \in Int /\ FrontEndWeights[t] \in Nat
  BY PartNumbers
<1>2. /\ SumFunctionOnSet(DepositorParts(g), Accounts) \in Int
      /\ SumFunctionOnSet(FrontEndParts(g), Tags) \in Int
  BY <1>1, FiniteAccounts, SumInt
<1>3. /\ SumFunctionOnSet(DepositorWeights, Accounts) \in Nat
      /\ SumFunctionOnSet(FrontEndWeights, Tags) \in Nat
  BY <1>1, FiniteAccounts, SumNat
<1> QED
  BY <1>2, <1>3 DEF Promised, Weighted

(* The promises grow with G by the weights.                                *)
LEMMA PromisesGrow ==
  ASSUME SnapshotsBehind, NEW g \in Nat, NEW more \in Nat
  PROVE  Promised(g + more) = Promised(g) + Weighted * more
<1> DEFINE grown == [a \in Accounts |-> DepositorWeights[a] * more]
           frontGrown == [t \in Tags |-> FrontEndWeights[t] * more]
<1>1. g \in Int /\ g + more \in Int
  OBVIOUS
<1>2. \A k, n, x \in Int : k * (n * ((g + more) - x)) = k * (n * (g - x)) + (k * n) * more
  <2> TAKE k, n, x \in Int
  <2>1. n * ((g + more) - x) = n * (g - x) + n * more
    OBVIOUS
  <2>2. n * (g - x) \in Int /\ n * more \in Int
    OBVIOUS
  <2>3. \A y, z \in Int : k * (y + z) = k * y + k * z
    OBVIOUS
  <2>4. k * (n * more) = (k * n) * more
    BY ProductGroup
  <2> QED
    BY <2>1, <2>2, <2>3, <2>4
<1>3. \A a \in Accounts :
        /\ DepositorParts(g)[a] \in Int /\ grown[a] = DepositorWeights[a] * more
        /\ grown[a] \in Int /\ DepositorWeights[a] \in Int
        /\ DepositorParts(g + more)[a] = DepositorParts(g)[a] + grown[a]
  <2> TAKE a \in Accounts
  <2> DEFINE k == KickbackRate(deposits[a].frontEndTag)
             n == deposits[a].initialValue
             G == depositSnapshots[a].G
  <2>1. k \in Int /\ n \in Int /\ G \in Int
    BY StakeNumbers
  <2>2. /\ DepositorParts(g)[a] = k * (n * (g - G)) /\ DepositorParts(g)[a] \in Int
        /\ DepositorParts(g + more)[a] = k * (n * ((g + more) - G))
        /\ DepositorWeights[a] = k * n /\ DepositorWeights[a] \in Nat
    BY <1>1, PartNumbers
  <2>3. grown[a] = DepositorWeights[a] * more
    OBVIOUS
  <2> HIDE DEF k, n, G, grown
  <2>4. grown[a] \in Int
    BY <2>2, <2>3, NatProduct
  <2> QED
    BY <1>2, <2>1, <2>2, <2>3, <2>4
<1>4. \A t \in Tags :
        /\ FrontEndParts(g)[t] \in Int /\ frontGrown[t] = FrontEndWeights[t] * more
        /\ frontGrown[t] \in Int /\ FrontEndWeights[t] \in Int
        /\ FrontEndParts(g + more)[t] = FrontEndParts(g)[t] + frontGrown[t]
  <2> TAKE t \in Tags
  <2> DEFINE k == DECIMAL_PRECISION - KickbackRate(t)
             n == frontEndStakes[t]
             G == frontEndSnapshots[t].G
  <2>1. k \in Int /\ n \in Int /\ G \in Int
    BY StakeNumbers
  <2>2. /\ FrontEndParts(g)[t] = k * (n * (g - G)) /\ FrontEndParts(g)[t] \in Int
        /\ FrontEndParts(g + more)[t] = k * (n * ((g + more) - G))
        /\ FrontEndWeights[t] = k * n /\ FrontEndWeights[t] \in Nat
    BY <1>1, PartNumbers
  <2>3. frontGrown[t] = FrontEndWeights[t] * more
    OBVIOUS
  <2> HIDE DEF k, n, G, frontGrown
  <2>4. frontGrown[t] \in Int
    BY <2>2, <2>3, NatProduct
  <2> QED
    BY <1>2, <2>1, <2>2, <2>3, <2>4
<1> HIDE DEF grown, frontGrown
<1>5. /\ SumFunctionOnSet(DepositorParts(g + more), Accounts)
           = SumFunctionOnSet(DepositorParts(g), Accounts) + SumFunctionOnSet(grown, Accounts)
      /\ SumFunctionOnSet(grown, Accounts)
           = SumFunctionOnSet(DepositorWeights, Accounts) * more
  BY <1>3, FiniteAccounts, SumPlus, SumScale
<1>6. /\ SumFunctionOnSet(FrontEndParts(g + more), Tags)
           = SumFunctionOnSet(FrontEndParts(g), Tags) + SumFunctionOnSet(frontGrown, Tags)
      /\ SumFunctionOnSet(frontGrown, Tags)
           = SumFunctionOnSet(FrontEndWeights, Tags) * more
  BY <1>4, FiniteAccounts, SumPlus, SumScale
<1> DEFINE w == SumFunctionOnSet(DepositorWeights, Accounts)
           v == SumFunctionOnSet(FrontEndWeights, Tags)
           x == SumFunctionOnSet(DepositorParts(g), Accounts)
           y == SumFunctionOnSet(FrontEndParts(g), Tags)
<1>7. w \in Nat /\ v \in Nat /\ x \in Int /\ y \in Int
  BY <1>1, PromisedNumbers
<1>8. Promised(g + more) = (x + w * more) + (y + v * more)
  BY <1>5, <1>6 DEF Promised
<1>9. Promised(g) = x + y /\ Weighted = w + v
  BY DEF Promised, Weighted
<1> HIDE DEF w, v, x, y
<1>10. (w + v) * more = w * more + v * more /\ w * more \in Int /\ v * more \in Int
  BY <1>7, ProductSum
<1> QED
  BY <1>7, <1>8, <1>9, <1>10

(* The issuance before every operation turns what has accrued into         *)
(* promises, and keeps the remainder as an error: nothing is promised that *)
(* was not issued.                                                         *)
LEMMA IssuanceKeepsFunded ==
  ASSUME SnapshotsBehind, Untouched, AtFirstProduct, Funded,
         NEW paid, TriggerMAHAIssuance(paid)
  PROVE  /\ GAfterIssuance[0][1] = 0
         /\ GAfterIssuance[0][0] \in Nat /\ lastMAHAError' \in Nat
         /\ Promised(GAfterIssuance[0][0]) + lastMAHAError' * Square
              <= (Unpaid + CumulativeIssuance) * Cube
         /\ CumulativeIssuance \in Nat
<1> DEFINE d == DECIMAL_PRECISION
           total == totalARTHDeposits
           num == MAHANumerator
           g == MAHASum
           g2 == GAfterIssuance[0][0]
<1>1. PoolTypeOK /\ IssuanceTypeOK
  BY DEF SnapshotsBehind, PoolTypeOK
<1>2. /\ P = d /\ currentEpoch = 0 /\ currentScale = 0 /\ d \in Nat \ {0}
      /\ 0 \in Epochs /\ 0 \in Scales /\ 1 \in Scales
      /\ total \in Nat /\ lastMAHAError \in Nat /\ Unpaid \in Int
      /\ epochToScaleToG \in [Epochs -> [Scales -> Nat]] /\ g \in Nat
  <2>1. MaxScale \in Nat /\ MaxEpoch \in Nat
    BY PoolAssumption
  <2>2. 0 \in Epochs /\ 0 \in Scales /\ 1 \in Scales
    BY <2>1 DEF Epochs, Scales
  <2>3. epochToScaleToG \in [Epochs -> [Scales -> Nat]]
    BY <1>1 DEF PoolTypeOK
  <2>4. g \in Nat
    BY <2>2, <2>3 DEF MAHASum
  <2> QED
    BY <1>1, <2>2, <2>3, <2>4, Powers DEF PoolTypeOK, IssuanceTypeOK, Untouched,
       AtFirstProduct, Unpaid, MAHAPaid
<1>6. CumulativeIssuance \in Nat
  BY <1>1, IssuedAmount DEF TriggerMAHAIssuance
<1>7. Weighted = total * d
      /\ Promised(g) + lastMAHAError * Square <= Unpaid * Cube
  BY DEF Funded
<1>8. PICK issued \in Nat :
        /\ issued <= CumulativeIssuance
        /\ g2 \in Nat /\ lastMAHAError' \in Nat
        /\ GAfterIssuance[0][1] = 0
        /\ Promised(g2) + lastMAHAError' * Square
             = Promised(g) + lastMAHAError * Square + issued * Cube
  <2>1. CASE ~MAHAIsDistributed
    <3>1. g2 = g /\ lastMAHAError' = lastMAHAError /\ GAfterIssuance[0][1] = 0
      BY <2>1 DEF TriggerMAHAIssuance, GAfterIssuance, MAHASum, AtFirstProduct
    <3>2. /\ Promised(g) \in Int /\ lastMAHAError * Square \in Int
          /\ 0 * Cube = 0
      BY <1>2, Powers, PromisedNumbers
    <3> HIDE DEF g, g2
    <3>3. Promised(g2) + lastMAHAError' * Square
            = Promised(g) + lastMAHAError * Square + 0 * Cube
      BY <3>1, <3>2
    <3> QED
      BY <1>2, <1>6, <3>1, <3>3
  <2>2. CASE MAHAIsDistributed
    <3> DEFINE c == CumulativeIssuance
               q == num \div total
               r == num % total
               more == q * d
    <3>1. /\ total \in Nat \ {0} /\ num = c * d + lastMAHAError
          /\ lastMAHAError' = r
          /\ GAfterIssuance = [epochToScaleToG EXCEPT ![0][0] = @ + q * d]
      BY <1>2, <2>2 DEF MAHAIsDistributed, TriggerMAHAIssuance, MAHANumerator, GAfterIssuance
    <3>2. num \in Nat
      <4>1. c * d \in Nat
        BY <1>2, <1>6, NatProduct
      <4> QED
        BY <1>2, <3>1, <4>1
    <3> HIDE DEF num
    <3>3. q \in Nat /\ r \in Nat
      BY <3>1, <3>2, NatQuotient
    <3>4. total * q = num - r
      <4>1. \A u \in Nat, v \in Nat \ {0} : v * (u \div v) = u - (u % v)
        OBVIOUS
      <4> QED
        BY <3>1, <3>2, <4>1
    <3> HIDE DEF q, r
    <3>5. more \in Nat
      BY <1>2, <3>3, NatProduct
    <3>6. g2 = g + more /\ GAfterIssuance[0][1] = 0
      <4>1. GAfterIssuance[0] = [epochToScaleToG[0] EXCEPT ![0] = @ + q * d]
        BY <1>2, <3>1
      <4>2. epochToScaleToG[0] \in [Scales -> Nat]
        BY <1>2
      <4> QED
        BY <1>2, <4>1, <4>2 DEF MAHASum, AtFirstProduct
    <3>7. Promised(g2) = Promised(g) + (total * d) * more
      BY <1>2, <1>7, <3>5, <3>6, PromisesGrow
    <3>8. (total * d) * more = (total * q) * Square
      <4>1. \A u, v, w \in Nat : (u * w) * (v * w) = (u * v) * (w * w)
        <5> TAKE u, v, w \in Nat
        <5>1. u * w \in Int /\ u * v \in Int
          OBVIOUS
        <5>2. (u * w) * (v * w) = ((u * w) * v) * w
          BY <5>1, ProductGroup
        <5>3. (u * w) * v = (u * v) * w
          BY ProductSwap
        <5>4. ((u * v) * w) * w = (u * v) * (w * w)
          BY <5>1, ProductGroup
        <5> QED
          BY <5>2, <5>3, <5>4
      <4> QED
        BY <1>2, <3>3, <4>1 DEF Square
    <3>9. (total * q) * Square = c * Cube + lastMAHAError * Square - r * Square
      <4>0. c * d \in Nat
        BY <1>2, <1>6, NatProduct
      <4>1. c * d \in Int /\ total * q = c * d + lastMAHAError - r
        <5>1. total * q = (c * d + lastMAHAError) - r
          BY <3>1, <3>4
        <5>2. lastMAHAError \in Int /\ r \in Int /\ c * d \in Int
          BY <1>2, <3>3, <4>0
        <5>3. \A u, v, w \in Int : (u + v) - w = u + v - w
          OBVIOUS
        <5> QED
          BY <5>1, <5>2, <5>3
      <4>2. \A u, v, w \in Int : (u + v - w) * Square = u * Square + v * Square - w * Square
        BY Powers
      <4>3. (c * d) * Square = c * Cube
        <5>1. \A u, v, w \in Nat : (u * w) * v = u * (v * w)
          OBVIOUS
        <5> QED
          BY <1>2, <1>6, <5>1, Powers
      <4> HIDE DEF c, d
      <4>4. lastMAHAError \in Int /\ r \in Int
        BY <1>2, <3>3
      <4>5. (c * d + lastMAHAError - r) * Square
              = (c * d) * Square + lastMAHAError * Square - r * Square
        BY <4>1, <4>2, <4>4
      <4> QED
        BY <4>1, <4>3, <4>5
    <3>10. /\ Promised(g) \in Int /\ c * Cube \in Int /\ lastMAHAError * Square \in Int
           /\ r * Square \in Int
      BY <1>2, <1>6, <3>3, Powers, PromisedNumbers
    <3> HIDE DEF c, g, g2, more
    <3>11. Promised(g2) + r * Square = Promised(g) + lastMAHAError * Square + c * Cube
      BY <3>7, <3>8, <3>9, <3>10
    <3>12. g2 \in Nat
      BY <1>2, <3>5, <3>6
    <3> QED
      BY <1>6, <3>1, <3>3, <3>6, <3>11, <3>12 DEF c
  <2> QED
    BY <2>1, <2>2
<1> HIDE DEF g, g2, num
<1>9. /\ (Unpaid + CumulativeIssuance) * Cube = Unpaid * Cube + CumulativeIssuance * Cube
      /\ issued * Cube <= CumulativeIssuance * Cube
      /\ CumulativeIssuance * Cube \in Int /\ issued * Cube \in Int /\ Unpaid * Cube \in Int
  <2>1. \A u, v \in Int : u * v \in Int
    OBVIOUS
  <2>2. CumulativeIssuance \in Int /\ issued \in Int /\ Cube \in Int
    BY <1>6, <1>8, Powers
  <2> QED
    BY <1>2, <1>6, <1>8, <2>1, <2>2, Powers, ProductSum, ProductMonotone
<1>10. /\ Promised(g) \in Int /\ lastMAHAError * Square \in Int
       /\ Promised(g2) \in Int /\ lastMAHAError' * Square \in Int
  BY <1>2, <1>8, Powers, PromisedNumbers
<1>11. Promised(g2) + lastMAHAError' * Square <= (Unpaid + CumulativeIssuance) * Cube
  BY <1>7, <1>8, <1>9, <1>10
<1> QED
  BY <1>6, <1>8, <1>11 DEF g2

(* The parts and the weights after the deposit of a and the stake of tag   *)
(* have been written anew: they have nothing promised, and the weights     *)
(* follow the deposit.                                                     *)
LEMMA OperationParts ==
  ASSUME SnapshotsBehind, NEW a \in Accounts, NEW tag \in Tags, NEW value \in Nat,
         NEW stake \in Nat, NEW sums \in [Epochs -> [Scales -> Nat]], NEW g,
         g = sums[currentEpoch][currentScale], g \in Nat,
         UpdateDepositAndSnapshots(a, tag, value, sums),
         UpdateFrontEndStakeAndSnapshots(tag, stake, sums), UNCHANGED frontEnds,
         deposits[a].initialValue > 0 => tag = deposits[a].frontEndTag
  PROVE  /\ Promised(g)' = Promised(g) - DepositorParts(g)[a] - FrontEndParts(g)[tag]
         /\ Weighted' = Weighted
              + KickbackRate(tag) * (value - deposits[a].initialValue)
              + (DECIMAL_PRECISION - KickbackRate(tag)) * (stake - frontEndStakes[tag])
<1>1. PoolTypeOK
  BY DEF SnapshotsBehind
<1>2. /\ deposits' = [deposits EXCEPT ![a] =
            IF value = 0 THEN NoDeposit ELSE [initialValue |-> value, frontEndTag |-> tag]]
      /\ depositSnapshots' = [depositSnapshots EXCEPT ![a] =
            IF value = 0 THEN NoSnapshot ELSE CurrentSnapshot(sums)]
      /\ frontEndStakes' = [frontEndStakes EXCEPT ![tag] = stake]
      /\ frontEndSnapshots' = [frontEndSnapshots EXCEPT ![tag] =
            IF stake = 0 THEN NoSnapshot ELSE [CurrentSnapshot(sums) EXCEPT !.S = 0]]
  BY DEF UpdateDepositAndSnapshots, UpdateFrontEndStakeAndSnapshots
<1>3. \A t \in Tags : KickbackRate(t)' = KickbackRate(t)
  BY DEF KickbackRate
<1>4. /\ deposits \in [Accounts -> [initialValue : Nat, frontEndTag : Tags]]
      /\ depositSnapshots \in [Accounts -> Snapshot]
      /\ frontEndStakes \in [Tags -> Nat] /\ frontEndSnapshots \in [Tags -> Snapshot]
  BY <1>1 DEF PoolTypeOK
<1>5. /\ deposits'[a] = IF value = 0 THEN NoDeposit
                        ELSE [initialValue |-> value, frontEndTag |-> tag]
      /\ depositSnapshots'[a] = IF value = 0 THEN NoSnapshot ELSE CurrentSnapshot(sums)
      /\ frontEndStakes'[tag] = stake
      /\ frontEndSnapshots'[tag]
           = IF stake = 0 THEN NoSnapshot ELSE [CurrentSnapshot(sums) EXCEPT !.S = 0]
      /\ \A x \in Accounts \ {a} : deposits'[x] = deposits[x]
                                     /\ depositSnapshots'[x] = depositSnapshots[x]
      /\ \A t \in Tags \ {tag} : frontEndStakes'[t] = frontEndStakes[t]
                                     /\ frontEndSnapshots'[t] = frontEndSnapshots[t]
  BY <1>2, <1>4
<1>6. CurrentSnapshot(sums).G = g /\ [CurrentSnapshot(sums) EXCEPT !.S = 0].G = g
  BY DEF CurrentSnapshot
<1>7. /\ \A t \in Tags : KickbackRate(t) \in Nat /\ DECIMAL_PRECISION - KickbackRate(t) \in Nat
      /\ deposits[a].initialValue \in Nat /\ frontEndStakes[tag] \in Nat
      /\ deposits[a].frontEndTag \in Tags /\ NoFrontEnd \in Tags
  BY StakeNumbers DEF Tags
<1>8. \A k \in Nat : k * (0 * (g - 0)) = 0 /\ k * (value * (g - g)) = 0
                     /\ k * (stake * (g - g)) = 0 /\ k * 0 = 0
  <2>1. 0 * (g - 0) = 0 /\ value * (g - g) = 0 /\ stake * (g - g) = 0
    OBVIOUS
  <2>2. \A k \in Nat : k * 0 = 0
    OBVIOUS
  <2> QED
    BY <2>1, <2>2, Zenon
<1>9. ASSUME NEW k \in Nat
      PROVE  /\ Part(k, deposits'[a].initialValue, depositSnapshots'[a], g) = 0
             /\ Part(k, frontEndStakes'[tag], frontEndSnapshots'[tag], g) = 0
  <2>1. Part(k, deposits'[a].initialValue, depositSnapshots'[a], g) = 0
    <3>1. CASE value = 0
      <4>1. deposits'[a].initialValue = 0 /\ depositSnapshots'[a].G = 0
        BY <1>5, <3>1 DEF NoDeposit, NoSnapshot
      <4> QED
        BY <1>8, <4>1 DEF Part
    <3>2. CASE value # 0
      <4>1. deposits'[a].initialValue = value /\ depositSnapshots'[a].G = g
        BY <1>5, <1>6, <3>2
      <4> QED
        BY <1>8, <4>1 DEF Part
    <3> QED
      BY <3>1, <3>2
  <2>2. Part(k, frontEndStakes'[tag], frontEndSnapshots'[tag], g) = 0
    <3>1. CASE stake = 0
      <4>1. frontEndStakes'[tag] = 0 /\ frontEndSnapshots'[tag].G = 0
        BY <1>5, <3>1 DEF NoSnapshot
      <4> QED
        BY <1>8, <4>1 DEF Part
    <3>2. CASE stake # 0
      <4>1. frontEndStakes'[tag] = stake /\ frontEndSnapshots'[tag].G = g
        BY <1>5, <1>6, <3>2
      <4> QED
        BY <1>8, <4>1 DEF Part
    <3> QED
      BY <3>1, <3>2
  <2> QED
    BY <2>1, <2>2
<1>10. PICK newTag \in Tags :
         /\ deposits'[a].frontEndTag = newTag
         /\ KickbackRate(deposits[a].frontEndTag)' = KickbackRate(newTag)
  <2>1. deposits'[a].frontEndTag \in Tags
    BY <1>5, <1>7 DEF NoDeposit
  <2> QED
    BY <2>1 DEF KickbackRate
<1>11. /\ DepositorParts(g)'[a] = 0
       /\ \A x \in Accounts \ {a} : DepositorParts(g)'[x] = DepositorParts(g)[x]
       /\ FrontEndParts(g)'[tag] = 0
       /\ \A t \in Tags \ {tag} : FrontEndParts(g)'[t] = FrontEndParts(g)[t]
  <2>1. DepositorParts(g)'[a] = 0
    <3>1. DepositorParts(g)'[a]
            = Part(KickbackRate(deposits[a].frontEndTag)', deposits'[a].initialValue,
                   depositSnapshots'[a], g)
      BY DEF DepositorParts, Part
    <3>2. KickbackRate(newTag) \in Nat
      BY <1>7
    <3> QED
      BY <1>9, <1>10, <3>1, <3>2
  <2>2. ASSUME NEW x \in Accounts \ {a} PROVE DepositorParts(g)'[x] = DepositorParts(g)[x]
    <3>1. deposits[x].frontEndTag \in Tags
      BY <1>4
    <3> QED
      BY <1>5, <3>1 DEF DepositorParts, Part, KickbackRate
  <2>3. FrontEndParts(g)'[tag] = 0
    BY <1>3, <1>7, <1>9 DEF FrontEndParts, Part
  <2>4. ASSUME NEW t \in Tags \ {tag} PROVE FrontEndParts(g)'[t] = FrontEndParts(g)[t]
    BY <1>3, <1>5 DEF FrontEndParts, Part
  <2> QED
    BY <2>1, <2>2, <2>3, <2>4
<1>12. /\ \A x \in Accounts : DepositorParts(g)[x] \in Int /\ DepositorWeights[x] \in Int
       /\ \A t \in Tags : FrontEndParts(g)[t] \in Int /\ FrontEndWeights[t] \in Int
  BY PartNumbers
<1>13. /\ SumFunctionOnSet(DepositorParts(g)', Accounts)
            = SumFunctionOnSet(DepositorParts(g), Accounts) - DepositorParts(g)[a] + 0
       /\ SumFunctionOnSet(FrontEndParts(g)', Tags)
            = SumFunctionOnSet(FrontEndParts(g), Tags) - FrontEndParts(g)[tag] + 0
  <2>1. 0 \in Int
    OBVIOUS
  <2>2. SumFunctionOnSet(DepositorParts(g)', Accounts)
          = SumFunctionOnSet(DepositorParts(g), Accounts) - DepositorParts(g)[a]
              + DepositorParts(g)'[a]
    BY <1>11, <1>12, <2>1, FiniteAccounts, SumUpdate
  <2>3. SumFunctionOnSet(FrontEndParts(g)', Tags)
          = SumFunctionOnSet(FrontEndParts(g), Tags) - FrontEndParts(g)[tag]
              + FrontEndParts(g)'[tag]
    BY <1>11, <1>12, <2>1, FiniteAccounts, SumUpdate
  <2> QED
    BY <1>11, <2>2, <2>3
<1>14. Promised(g)' = Promised(g) - DepositorParts(g)[a] - FrontEndParts(g)[tag]
  <2>1. Promised(g)' = SumFunctionOnSet(DepositorParts(g)', Accounts)
                         + SumFunctionOnSet(FrontEndParts(g)', Tags)
    BY DEF Promised
  <2>2. /\ SumFunctionOnSet(DepositorParts(g), Accounts) \in Int
        /\ SumFunctionOnSet(FrontEndParts(g), Tags) \in Int
        /\ DepositorParts(g)[a] \in Int /\ FrontEndParts(g)[tag] \in Int
    BY <1>12, PromisedNumbers
  <2>3. \A u, v, x, y \in Int : (u - x + 0) + (v - y + 0) = (u + v) - x - y
    OBVIOUS
  <2> QED
    BY <1>13, <2>1, <2>2, <2>3 DEF Promised
<1> DEFINE k == KickbackRate(tag)
           l == DECIMAL_PRECISION - KickbackRate(tag)
           n == deposits[a].initialValue
           m == frontEndStakes[tag]
<1>15. /\ DepositorWeights[a] = k * n /\ FrontEndWeights[tag] = l * m
       /\ DepositorWeights'[a] = k * value /\ FrontEndWeights'[tag] = l * stake
       /\ \A x \in Accounts \ {a} : DepositorWeights'[x] = DepositorWeights[x]
       /\ \A t \in Tags \ {tag} : FrontEndWeights'[t] = FrontEndWeights[t]
  <2>1. DepositorWeights[a] = k * n
    <3>1. DepositorWeights[a] = KickbackRate(deposits[a].frontEndTag) * n
      BY DEF DepositorWeights
    <3>2. CASE n = 0
      BY <1>7, <1>8, <3>1, <3>2
    <3>3. CASE n # 0
      BY <1>7, <3>1, <3>3
    <3> QED
      BY <3>2, <3>3
  <2>2. DepositorWeights'[a] = k * value
    <3>1. DepositorWeights'[a]
            = KickbackRate(deposits[a].frontEndTag)' * deposits'[a].initialValue
      BY DEF DepositorWeights
    <3>2. DepositorWeights'[a] = KickbackRate(newTag) * deposits'[a].initialValue
      BY <1>10, <3>1
    <3>3. CASE value = 0
      <4>1. deposits'[a].initialValue = 0
        BY <1>5, <3>3 DEF NoDeposit
      <4>2. KickbackRate(newTag) \in Nat /\ k \in Nat
        BY <1>7
      <4> HIDE DEF k
      <4> QED
        BY <1>8, <3>2, <3>3, <4>1, <4>2
    <3>4. CASE value # 0
      <4>1. deposits'[a].initialValue = value /\ newTag = tag
        BY <1>5, <1>10, <3>4
      <4> QED
        BY <3>2, <4>1
    <3> QED
      BY <3>3, <3>4
  <2>3. FrontEndWeights[tag] = l * m /\ FrontEndWeights'[tag] = l * stake
    BY <1>3, <1>5 DEF FrontEndWeights
  <2>4. ASSUME NEW x \in Accounts \ {a} PROVE DepositorWeights'[x] = DepositorWeights[x]
    <3>1. deposits[x].frontEndTag \in Tags
      BY <1>4
    <3> QED
      BY <1>5, <3>1 DEF DepositorWeights, KickbackRate
  <2>5. ASSUME NEW t \in Tags \ {tag} PROVE FrontEndWeights'[t] = FrontEndWeights[t]
    BY <1>3, <1>5 DEF FrontEndWeights
  <2> QED
    BY <2>1, <2>2, <2>3, <2>4, <2>5
<1>16. k \in Nat /\ l \in Nat /\ n \in Nat /\ m \in Nat
  BY <1>7
<1> HIDE DEF k, l, n, m
<1>17. k * n \in Int /\ k * value \in Int /\ l * m \in Int /\ l * stake \in Int
  BY <1>16
<1>18. /\ SumFunctionOnSet(DepositorWeights', Accounts)
            = SumFunctionOnSet(DepositorWeights, Accounts) - k * n + k * value
       /\ SumFunctionOnSet(FrontEndWeights', Tags)
            = SumFunctionOnSet(FrontEndWeights, Tags) - l * m + l * stake
  <2>1. SumFunctionOnSet(DepositorWeights', Accounts)
          = SumFunctionOnSet(DepositorWeights, Accounts) - DepositorWeights[a]
              + DepositorWeights'[a]
    BY <1>12, <1>15, <1>17, FiniteAccounts, SumUpdate
  <2>2. SumFunctionOnSet(FrontEndWeights', Tags)
          = SumFunctionOnSet(FrontEndWeights, Tags) - FrontEndWeights[tag]
              + FrontEndWeights'[tag]
    BY <1>12, <1>15, <1>17, FiniteAccounts, SumUpdate
  <2> QED
    BY <1>15, <2>1, <2>2
<1>19. Weighted' = Weighted + k * (value - n) + l * (stake - m)
  <2>1. Weighted' = SumFunctionOnSet(DepositorWeights', Accounts)
                      + SumFunctionOnSet(FrontEndWeights', Tags)
    BY DEF Weighted
  <2>2. /\ SumFunctionOnSet(DepositorWeights, Accounts) \in Int
        /\ SumFunctionOnSet(FrontEndWeights, Tags) \in Int
    BY <1>12, FiniteAccounts, SumInt
  <2>3. k * (value - n) = k * value - k * n /\ l * (stake - m) = l * stake - l * m
    BY <1>16
  <2>4. \A u, v, x, y, z, w \in Int :
          (u - x + y) + (v - z + w) = (u + v) + (y - x) + (w - z)
    OBVIOUS
  <2> QED
    BY <1>17, <1>18, <2>1, <2>2, <2>3, <2>4 DEF Weighted
<1> QED
  BY <1>14, <1>19 DEF k, l, n, m

(* At the first product, what a depositor is paid is at most its part,     *)
LEMMA DepositorGainIsPart ==
  ASSUME SnapshotsBehind, Untouched, AtFirstProduct, NEW a \in Accounts, NEW tag \in Tags,
         NEW sums \in [Epochs -> [Scales -> Nat]], sums[0][1] = 0,
         \A e \in Epochs, s \in Scales : epochToScaleToG[e][s] <= sums[e][s],
         deposits[a].initialValue > 0 => tag = deposits[a].frontEndTag
  PROVE  /\ DepositorMAHAGain(a, tag, sums) \in Nat
         /\ DepositorParts(sums[0][0])[a] \in Nat
         /\ DepositorMAHAGain(a, tag, sums) * Cube <= DepositorParts(sums[0][0])[a]
<1>1. /\ deposits[a].initialValue \in Nat /\ depositSnapshots[a] \in Snapshot
      /\ Behind(deposits[a].initialValue, depositSnapshots[a])
      /\ deposits[a].initialValue > 0 => depositSnapshots[a].P = DECIMAL_PRECISION
      /\ deposits[a].frontEndTag \in Tags /\ depositSnapshots[a].G \in Nat
  BY StakeNumbers DEF SnapshotsBehind, AtFirstProduct
<1>2. KickbackRate(tag) \in Nat /\ KickbackRate(deposits[a].frontEndTag) \in Nat
  BY <1>1, StakeNumbers
<1>3. /\ DepositorMAHAGain(a, tag, sums) \in Nat
      /\ Part(KickbackRate(tag), deposits[a].initialValue, depositSnapshots[a], sums[0][0])
           \in Nat
      /\ DepositorMAHAGain(a, tag, sums) * Cube
           <= Part(KickbackRate(tag), deposits[a].initialValue, depositSnapshots[a],
                   sums[0][0])
  BY <1>1, <1>2, GainIsPart DEF DepositorMAHAGain
<1>4. DepositorParts(sums[0][0])[a]
        = Part(KickbackRate(tag), deposits[a].initialValue, depositSnapshots[a], sums[0][0])
  <2>1. DepositorParts(sums[0][0])[a]
          = Part(KickbackRate(deposits[a].frontEndTag), deposits[a].initialValue,
                 depositSnapshots[a], sums[0][0])
    BY DEF DepositorParts
  <2>2. CASE deposits[a].initialValue > 0
    BY <2>1, <2>2
  <2>3. CASE deposits[a].initialValue = 0
    <3>1. 0 \in Epochs /\ 0 \in Scales
      BY PoolAssumption DEF Epochs, Scales
    <3>2. sums[0][0] \in Nat
      BY <3>1
    <3>3. \A k, g, v \in Nat : k * (0 * (g - v)) = 0
      <4> TAKE k, g, v \in Nat
      <4>1. 0 * (g - v) = 0
        OBVIOUS
      <4> QED
        BY <4>1
    <3> QED
      BY <1>1, <1>2, <2>1, <2>3, <3>2, <3>3 DEF Part
  <2> QED
    BY <1>1, <2>2, <2>3
<1> QED
  BY <1>3, <1>4

(* and so is what a front end is paid.                                     *)
LEMMA FrontEndGainIsPart ==
  ASSUME SnapshotsBehind, Untouched, AtFirstProduct, NEW tag \in Tags,
         NEW sums \in [Epochs -> [Scales -> Nat]], sums[0][1] = 0,
         \A e \in Epochs, s \in Scales : epochToScaleToG[e][s] <= sums[e][s]
  PROVE  /\ FrontEndMAHAGain(tag, sums) \in Nat
         /\ FrontEndParts(sums[0][0])[tag] \in Nat
         /\ FrontEndMAHAGain(tag, sums) * Cube <= FrontEndParts(sums[0][0])[tag]
<1>1. /\ frontEndStakes[tag] \in Nat /\ frontEndSnapshots[tag] \in Snapshot
      /\ Behind(frontEndStakes[tag], frontEndSnapshots[tag])
      /\ frontEndStakes[tag] > 0 => frontEndSnapshots[tag].P = DECIMAL_PRECISION
      /\ DECIMAL_PRECISION - KickbackRate(tag) \in Nat
  BY StakeNumbers DEF SnapshotsBehind, AtFirstProduct
<1>2. /\ FrontEndParts(sums[0][0])[tag]
           = Part(DECIMAL_PRECISION - KickbackRate(tag), frontEndStakes[tag],
                  frontEndSnapshots[tag], sums[0][0])
      /\ FrontEndParts(sums[0][0])[tag] \in Nat
  <2>1. FrontEndParts(sums[0][0])[tag]
           = Part(DECIMAL_PRECISION - KickbackRate(tag), frontEndStakes[tag],
                  frontEndSnapshots[tag], sums[0][0])
    BY DEF FrontEndParts
  <2>2. Part(DECIMAL_PRECISION - KickbackRate(tag), frontEndStakes[tag],
             frontEndSnapshots[tag], sums[0][0]) \in Nat
    BY <1>1, GainIsPart
  <2> QED
    BY <2>1, <2>2
<1>3. CASE tag = NoFrontEnd
  <2>1. FrontEndMAHAGain(tag, sums) = 0 /\ 0 * Cube = 0
    BY <1>3, Powers DEF FrontEndMAHAGain
  <2> QED
    BY <1>2, <2>1
<1>4. CASE tag # NoFrontEnd
  <2>1. FrontEndMAHAGain(tag, sums)
          = ((DECIMAL_PRECISION - KickbackRate(tag))
              * GainFrom(sums, frontEndStakes[tag], frontEndSnapshots[tag].G,
                         frontEndSnapshots[tag])) \div DECIMAL_PRECISION
    BY <1>4 DEF FrontEndMAHAGain
  <2> QED
    BY <1>1, <1>2, <2>1, GainIsPart
<1> QED
  BY <1>3, <1>4

(* Deposits, top-ups and withdrawals keep the promises funded.             *)
LEMMA OperationKeepsMAHA ==
  ASSUME SnapshotsBehind, MAHAInv, NEW a \in Accounts, NEW tag \in Tags,
         NEW added \in Nat, NEW removed \in Nat,
         removed <= CompoundedDeposit(a) + added,
         tag = NoFrontEnd \/ Registered(tag),
         deposits[a].initialValue > 0 => tag = deposits[a].frontEndTag,
         DepositorOperation(a, tag, added, removed)
  PROVE  MAHAInv'
<1> DEFINE deposit == CompoundedDeposit(a) + added - removed
           stake == CompoundedFrontEndStake(tag) + added - removed
           toDepositor == DepositorMAHAGain(a, tag, GAfterIssuance)
           toFrontEnd == FrontEndMAHAGain(tag, GAfterIssuance)
<1>1. PoolTypeOK /\ IssuanceTypeOK
  BY DEF SnapshotsBehind, PoolTypeOK
<1>2. /\ TriggerMAHAIssuance(toFrontEnd + toDepositor)
      /\ removed <= CompoundedFrontEndStake(tag) + added
      /\ removed <= totalARTHDeposits
      /\ UpdateFrontEndStakeAndSnapshots(tag, stake, GAfterIssuance)
      /\ UpdateDepositAndSnapshots(a, tag, deposit, GAfterIssuance)
      /\ totalARTHDeposits' = totalARTHDeposits + added - removed
      /\ frontEnds' = frontEnds
      /\ P' = P /\ currentEpoch' = currentEpoch /\ currentScale' = currentScale
  BY DEF DepositorOperation, productVars
<1>3. /\ epochToScaleToG' = GAfterIssuance
      /\ totalMAHAIssued' = totalMAHAIssued + CumulativeIssuance
      /\ received' = received
      /\ mahaBalance' = mahaBalance - (toFrontEnd + toDepositor)
  BY <1>2 DEF TriggerMAHAIssuance, IssueMAHA, historyVars
<1>4. /\ totalMAHAIssued \in Nat /\ received \in Nat /\ mahaBalance \in Nat
      /\ totalARTHDeposits \in Nat
  BY <1>1 DEF IssuanceTypeOK, PoolTypeOK
<1>6. currentEpoch' = 0 => P' <= DECIMAL_PRECISION
  BY <1>2 DEF MAHAInv
<1>7. ASSUME Untouched'
      PROVE  AtFirstProduct' /\ Funded'
  <2> HIDE DEF deposit, stake, toDepositor, toFrontEnd
  <2>1. Untouched /\ AtFirstProduct /\ Funded
    BY <1>2, <1>7 DEF Untouched, MAHAInv
  <2>2. /\ GAfterIssuance \in [Epochs -> [Scales -> Nat]]
        /\ \A e \in Epochs, s \in Scales : epochToScaleToG[e][s] <= GAfterIssuance[e][s]
    BY <1>1, <1>2, IssuanceGrows
  <2>3. /\ GAfterIssuance[0][1] = 0
        /\ GAfterIssuance[0][0] \in Nat /\ lastMAHAError' \in Nat
        /\ Promised(GAfterIssuance[0][0]) + lastMAHAError' * Square
             <= (Unpaid + CumulativeIssuance) * Cube
        /\ CumulativeIssuance \in Nat
    BY <1>2, <2>1, IssuanceKeepsFunded
  <2>4. PICK g \in Nat : g = GAfterIssuance[0][0]
    BY <2>3
  <2>5. /\ toDepositor \in Nat /\ toFrontEnd \in Nat
        /\ DepositorParts(g)[a] \in Nat /\ FrontEndParts(g)[tag] \in Nat
        /\ toDepositor * Cube <= DepositorParts(g)[a]
        /\ toFrontEnd * Cube <= FrontEndParts(g)[tag]
    BY <2>1, <2>2, <2>3, <2>4, DepositorGainIsPart, FrontEndGainIsPart
    DEF toDepositor, toFrontEnd
  <2>6. /\ CompoundedDeposit(a) = deposits[a].initialValue
        /\ CompoundedFrontEndStake(tag) = frontEndStakes[tag]
    <3>1. /\ deposits[a].initialValue \in Nat /\ depositSnapshots[a] \in Snapshot
          /\ Behind(deposits[a].initialValue, depositSnapshots[a])
          /\ deposits[a].initialValue > 0 => depositSnapshots[a].P = DECIMAL_PRECISION
          /\ frontEndStakes[tag] \in Nat /\ frontEndSnapshots[tag] \in Snapshot
          /\ Behind(frontEndStakes[tag], frontEndSnapshots[tag])
          /\ frontEndStakes[tag] > 0 => frontEndSnapshots[tag].P = DECIMAL_PRECISION
          /\ currentScale = 0
      BY <2>1, StakeNumbers DEF SnapshotsBehind, AtFirstProduct
    <3> QED
      BY <1>1, <2>1, <3>1, WorthAtFirstProduct DEF CompoundedDeposit, CompoundedFrontEndStake
  <2>7. /\ deposits[a].initialValue \in Nat /\ frontEndStakes[tag] \in Nat
        /\ KickbackRate(tag) \in Nat /\ DECIMAL_PRECISION \in Nat
    BY StakeNumbers, Powers
  <2>8. /\ deposit \in Nat /\ stake \in Nat
        /\ deposit - deposits[a].initialValue = added - removed
        /\ stake - frontEndStakes[tag] = added - removed
    BY <1>2, <2>6, <2>7 DEF deposit, stake
  <2>9. /\ Promised(g)' = Promised(g) - DepositorParts(g)[a] - FrontEndParts(g)[tag]
        /\ Weighted' = Weighted
              + KickbackRate(tag) * (deposit - deposits[a].initialValue)
              + (DECIMAL_PRECISION - KickbackRate(tag)) * (stake - frontEndStakes[tag])
    <3>1. g = GAfterIssuance[currentEpoch][currentScale]
      BY <2>1, <2>4 DEF Untouched, AtFirstProduct
    <3> QED
      BY <1>2, <2>2, <2>8, <3>1, OperationParts
  <2>10. Weighted' = totalARTHDeposits' * DECIMAL_PRECISION
    <3>1. Weighted = totalARTHDeposits * DECIMAL_PRECISION
      BY <2>1 DEF Funded
    <3>2. \A k, t, d, x \in Int : t * d + k * x + (d - k) * x = (t + x) * d
      <4> TAKE k, t, d, x \in Int
      <4>1. (d - k) * x = d * x - k * x /\ (t + x) * d = t * d + x * d /\ d * x = x * d
        OBVIOUS
      <4>2. t * d \in Int /\ k * x \in Int /\ d * x \in Int
        OBVIOUS
      <4> QED
        BY <4>1, <4>2
    <3>3. /\ totalARTHDeposits' = totalARTHDeposits + (added - removed)
          /\ added - removed \in Int
      BY <1>2, <1>4
    <3>4. Weighted' = totalARTHDeposits * DECIMAL_PRECISION
                       + KickbackRate(tag) * (added - removed)
                       + (DECIMAL_PRECISION - KickbackRate(tag)) * (added - removed)
      BY <2>8, <2>9, <3>1
    <3> QED
      BY <1>4, <2>7, <3>2, <3>3, <3>4
  <2>11. MAHASum' = g
    BY <1>3, <2>4 DEF MAHASum
  <2>12. /\ Unpaid \in Int
         /\ Unpaid' = (Unpaid + CumulativeIssuance) - (toFrontEnd + toDepositor)
    BY <1>3, <1>4, <2>3, <2>5 DEF Unpaid, MAHAPaid
  <2>13. Promised(MAHASum)' + lastMAHAError' * Square <= Unpaid' * Cube
    <3> DEFINE u == Unpaid + CumulativeIssuance
    <3>0. u \in Int
      BY <2>3, <2>12
    <3>1. Promised(MAHASum)' = Promised(g)'
      BY <2>11 DEF Promised, DepositorParts, FrontEndParts, Part
    <3>2. Unpaid' * Cube = u * Cube - (toFrontEnd * Cube + toDepositor * Cube)
      <4>1. \A x, v, w \in Int : (x - (v + w)) * Cube = x * Cube - (v * Cube + w * Cube)
        BY Powers
      <4>2. /\ Unpaid' = u - (toFrontEnd + toDepositor)
            /\ toFrontEnd \in Int /\ toDepositor \in Int
        BY <2>5, <2>12
      <4> HIDE DEF u
      <4> QED
        BY <3>0, <4>1, <4>2
    <3> HIDE DEF u
    <3>3. /\ Promised(g) \in Int /\ lastMAHAError' * Square \in Int
          /\ u * Cube \in Int
          /\ toFrontEnd * Cube \in Int /\ toDepositor * Cube \in Int
      BY <2>3, <2>5, <3>0, Powers, PromisedNumbers, NatProduct
    <3>4. Promised(g) + lastMAHAError' * Square <= u * Cube
      BY <2>3, <2>4 DEF u
    <3> QED
      BY <2>5, <2>9, <3>1, <3>2, <3>3, <3>4
  <2>14. Funded'
    BY <2>10, <2>13 DEF Funded
  <2>15. AtFirstProduct'
    <3>1. currentScale' = 0 /\ epochToScaleToG'[0][1] = 0
      BY <1>2, <1>3, <2>1, <2>3 DEF AtFirstProduct
    <3>2. /\ deposits' = [deposits EXCEPT ![a] =
               IF deposit = 0 THEN NoDeposit
               ELSE [initialValue |-> deposit, frontEndTag |-> tag]]
          /\ depositSnapshots' = [depositSnapshots EXCEPT ![a] =
               IF deposit = 0 THEN NoSnapshot ELSE CurrentSnapshot(GAfterIssuance)]
          /\ frontEndStakes' = [frontEndStakes EXCEPT ![tag] = stake]
          /\ frontEndSnapshots' = [frontEndSnapshots EXCEPT ![tag] =
               IF stake = 0 THEN NoSnapshot
               ELSE [CurrentSnapshot(GAfterIssuance) EXCEPT !.S = 0]]
      BY <1>2 DEF UpdateDepositAndSnapshots, UpdateFrontEndStakeAndSnapshots
    <3>3. /\ CurrentSnapshot(GAfterIssuance).P = DECIMAL_PRECISION
          /\ [CurrentSnapshot(GAfterIssuance) EXCEPT !.S = 0].P = DECIMAL_PRECISION
      BY <2>1 DEF CurrentSnapshot, Untouched
    <3>4. \A t : Registered(t)' = Registered(t)
      BY <1>2 DEF Registered
    <3>5. ASSUME NEW x \in Accounts, deposits'[x].initialValue > 0
          PROVE  /\ depositSnapshots'[x].P = DECIMAL_PRECISION
                 /\ \/ deposits'[x].frontEndTag = NoFrontEnd
                    \/ /\ deposits'[x].frontEndTag \in FrontEnds
                       /\ frontEnds'[deposits'[x].frontEndTag].registered
      <4>1. CASE x = a
        <5>1. deposit # 0
          BY <1>1, <3>2, <3>5, <4>1 DEF PoolTypeOK, NoDeposit
        <5>2. /\ deposits'[x].frontEndTag = tag
              /\ depositSnapshots'[x] = CurrentSnapshot(GAfterIssuance)
          BY <1>1, <3>2, <4>1, <5>1 DEF PoolTypeOK
        <5> QED
          BY <1>2, <3>3, <5>2 DEF Registered
      <4>2. CASE x # a
        <5>1. deposits'[x] = deposits[x] /\ depositSnapshots'[x] = depositSnapshots[x]
          BY <1>1, <3>2, <4>2 DEF PoolTypeOK
        <5> QED
          BY <1>2, <2>1, <3>5, <5>1 DEF AtFirstProduct, Registered
      <4> QED
        BY <4>1, <4>2
    <3>6. ASSUME NEW t \in Tags, frontEndStakes'[t] > 0
          PROVE  /\ frontEndSnapshots'[t].P = DECIMAL_PRECISION
                 /\ t = NoFrontEnd \/ Registered(t)
      <4>1. CASE t = tag
        <5>1. frontEndStakes'[t] = stake
          BY <1>1, <3>2, <4>1 DEF PoolTypeOK
        <5>2. stake # 0
          BY <2>8, <3>6, <5>1
        <5>3. frontEndSnapshots'[t] = [CurrentSnapshot(GAfterIssuance) EXCEPT !.S = 0]
          BY <1>1, <3>2, <4>1, <5>2 DEF PoolTypeOK
        <5> QED
          BY <3>3, <4>1, <5>3
      <4>2. CASE t # tag
        <5>1. /\ frontEndStakes'[t] = frontEndStakes[t]
              /\ frontEndSnapshots'[t] = frontEndSnapshots[t]
          BY <1>1, <3>2, <4>2 DEF PoolTypeOK
        <5> QED
          BY <2>1, <3>6, <5>1 DEF AtFirstProduct
      <4> QED
        BY <4>1, <4>2
    <3> QED
      BY <3>1, <3>4, <3>5, <3>6 DEF AtFirstProduct, Registered
  <2> QED
    BY <2>14, <2>15
<1> QED
  BY <1>6, <1>7 DEF MAHAInv

(* A front end that registers has no stake and no deposit names it: the    *)
(* promises stay what they were.                                           *)
LEMMA RegisterKeepsMAHA ==
  ASSUME SnapshotsBehind, MAHAInv, NEW f \in FrontEnds, NEW rate \in KickbackRates,
         RegisterFrontEnd(f, rate)
  PROVE  MAHAInv'
<1>1. /\ frontEnds' = [frontEnds EXCEPT ![f] = [kickbackRate |-> rate, registered |-> TRUE]]
      /\ ~frontEnds[f].registered
      /\ UNCHANGED <<deposits, depositSnapshots, frontEndStakes, frontEndSnapshots,
                     P, currentScale, currentEpoch, epochToScaleToG, lastMAHAError,
                     totalARTHDeposits, totalMAHAIssued, mahaBalance, received>>
  BY DEF RegisterFrontEnd, productVars, issuanceVars, historyVars
<1>2. PoolTypeOK /\ rate \in 0..DECIMAL_PRECISION /\ NoFrontEnd \notin FrontEnds
  BY PoolAssumption DEF SnapshotsBehind
<1>3. frontEnds \in [FrontEnds -> [kickbackRate : 0..DECIMAL_PRECISION, registered : BOOLEAN]]
  BY <1>2 DEF PoolTypeOK
<1>4. /\ \A t \in Tags : t # f => KickbackRate(t)' = KickbackRate(t)
      /\ \A t \in Tags : Registered(t) => t # f /\ Registered(t)'
      /\ \A t \in Tags : KickbackRate(t)' \in Nat /\ DECIMAL_PRECISION - KickbackRate(t)' \in Nat
  <2>1. \A t \in FrontEnds \ {f} : frontEnds'[t] = frontEnds[t]
    BY <1>1, <1>3
  <2>2. frontEnds'[f].kickbackRate = rate /\ frontEnds'[f].registered
    BY <1>1, <1>3
  <2>3. ASSUME NEW t \in Tags, t # f PROVE KickbackRate(t)' = KickbackRate(t)
    BY <2>1, <2>3 DEF KickbackRate, Tags
  <2>4. ASSUME NEW t \in Tags, Registered(t) PROVE t # f /\ Registered(t)'
    <3>1. t \in FrontEnds /\ frontEnds[t].registered
      BY <2>4 DEF Registered
    <3>2. t # f
      BY <1>1, <3>1
    <3> QED
      BY <2>1, <3>1, <3>2 DEF Registered
  <2>5. \A t \in Tags : KickbackRate(t) \in Nat /\ DECIMAL_PRECISION - KickbackRate(t) \in Nat
    BY StakeNumbers
  <2>6. KickbackRate(f)' = rate
    BY <1>2, <2>2 DEF KickbackRate
  <2>7. rate \in Nat /\ DECIMAL_PRECISION - rate \in Nat
    BY <1>2, Powers
  <2> QED
    BY <2>3, <2>4, <2>5, <2>6, <2>7
<1>5. ASSUME Untouched'
      PROVE  AtFirstProduct' /\ Funded'
  <2>1. AtFirstProduct /\ Funded
    BY <1>1, <1>5 DEF MAHAInv, Untouched
  <2>2. ASSUME NEW a \in Accounts
        PROVE  /\ deposits[a].initialValue > 0 => deposits[a].frontEndTag # f
               /\ deposits[a].frontEndTag \in Tags /\ deposits[a].initialValue \in Nat
               /\ depositSnapshots[a].G \in Nat
    BY <1>2, <1>4, <2>1, StakeNumbers DEF AtFirstProduct
  <2>3. ASSUME NEW t \in Tags
        PROVE  /\ frontEndStakes[t] > 0 => t # f
               /\ frontEndStakes[t] \in Nat /\ frontEndSnapshots[t].G \in Nat
    BY <1>2, <1>4, <2>1, StakeNumbers DEF AtFirstProduct
  <2>4. PICK g \in Int : g = MAHASum
    <3>1. 0 \in Epochs /\ 0 \in Scales
      BY PoolAssumption DEF Epochs, Scales
    <3>2. MAHASum \in Nat
      BY <1>2, <3>1 DEF MAHASum, PoolTypeOK
    <3> QED
      BY <3>2
  <2>5. \A k \in Nat, v \in Nat : k * (0 * (g - v)) = 0 /\ k * 0 = 0
    <3> TAKE k \in Nat, v \in Nat
    <3>1. 0 * (g - v) = 0 /\ k * 0 = 0
      OBVIOUS
    <3> QED
      BY <3>1
  <2>6. \A t \in Tags : KickbackRate(t) \in Nat /\ DECIMAL_PRECISION - KickbackRate(t) \in Nat
    BY StakeNumbers
  <2>7. \A a \in Accounts : /\ DepositorParts(g)[a] \in Int /\ DepositorWeights[a] \in Int
                            /\ DepositorParts(g)'[a] = DepositorParts(g)[a]
                            /\ DepositorWeights'[a] = DepositorWeights[a]
    <3> TAKE a \in Accounts
    <3> DEFINE n == deposits[a].initialValue
               v == depositSnapshots[a].G
               t == deposits[a].frontEndTag
    <3>1. /\ DepositorParts(g)[a] = KickbackRate(t) * (n * (g - v))
          /\ DepositorParts(g)[a] \in Int
          /\ DepositorWeights[a] = KickbackRate(t) * n /\ DepositorWeights[a] \in Nat
      BY PartNumbers
    <3>2. PICK k \in Nat :
            /\ k = KickbackRate(deposits[a].frontEndTag)'
            /\ DepositorParts(g)'[a] = k * (n * (g - v))
            /\ DepositorWeights'[a] = k * n
            /\ n > 0 => k = KickbackRate(t)
      <4>1. KickbackRate(deposits[a].frontEndTag)' \in Nat
        BY <1>1, <1>4, <2>2 DEF KickbackRate
      <4>2. n > 0 => KickbackRate(deposits[a].frontEndTag)' = KickbackRate(t)
        BY <1>1, <1>4, <2>2 DEF KickbackRate
      <4>3. /\ DepositorParts(g)'[a]
                 = KickbackRate(deposits[a].frontEndTag)' * (n * (g - v))
            /\ DepositorWeights'[a] = KickbackRate(deposits[a].frontEndTag)' * n
        BY <1>1 DEF DepositorParts, DepositorWeights, Part
      <4> QED
        BY <4>1, <4>2, <4>3
    <3>3. n \in Nat /\ v \in Nat /\ KickbackRate(t) \in Nat
      BY <2>2, <2>6
    <3> HIDE DEF n, v, t
    <3>4. CASE n = 0
      BY <2>5, <3>1, <3>2, <3>3, <3>4
    <3>5. CASE n # 0
      BY <3>1, <3>2, <3>3, <3>5
    <3> QED
      BY <3>4, <3>5
  <2>8. \A t \in Tags : /\ FrontEndParts(g)[t] \in Int /\ FrontEndWeights[t] \in Int
                        /\ FrontEndParts(g)'[t] = FrontEndParts(g)[t]
                        /\ FrontEndWeights'[t] = FrontEndWeights[t]
    <3> TAKE t \in Tags
    <3> DEFINE n == frontEndStakes[t]
               v == frontEndSnapshots[t].G
    <3>1. /\ FrontEndParts(g)[t] = (DECIMAL_PRECISION - KickbackRate(t)) * (n * (g - v))
          /\ FrontEndParts(g)[t] \in Int
          /\ FrontEndWeights[t] = (DECIMAL_PRECISION - KickbackRate(t)) * n
          /\ FrontEndWeights[t] \in Nat
      BY PartNumbers
    <3>2. PICK k \in Nat :
            /\ FrontEndParts(g)'[t] = k * (n * (g - v))
            /\ FrontEndWeights'[t] = k * n
            /\ n > 0 => k = DECIMAL_PRECISION - KickbackRate(t)
      <4>1. DECIMAL_PRECISION - KickbackRate(t)' \in Nat
        BY <1>4
      <4>2. n > 0 => KickbackRate(t)' = KickbackRate(t)
        BY <1>4, <2>3
      <4>3. /\ FrontEndParts(g)'[t]
                 = (DECIMAL_PRECISION - KickbackRate(t)') * (n * (g - v))
            /\ FrontEndWeights'[t] = (DECIMAL_PRECISION - KickbackRate(t)') * n
        BY <1>1 DEF FrontEndParts, FrontEndWeights, Part
      <4> QED
        BY <4>1, <4>2, <4>3
    <3>3. n \in Nat /\ v \in Nat /\ DECIMAL_PRECISION - KickbackRate(t) \in Nat
      BY <2>3, <2>6
    <3> HIDE DEF n, v
    <3>4. CASE n = 0
      BY <2>5, <3>1, <3>2, <3>3, <3>4
    <3>5. CASE n # 0
      BY <3>1, <3>2, <3>3, <3>5
    <3> QED
      BY <3>4, <3>5
  <2>9. /\ SumFunctionOnSet(DepositorParts(g)', Accounts)
             = SumFunctionOnSet(DepositorParts(g), Accounts)
        /\ SumFunctionOnSet(DepositorWeights', Accounts)
             = SumFunctionOnSet(DepositorWeights, Accounts)
        /\ SumFunctionOnSet(FrontEndParts(g)', Tags) = SumFunctionOnSet(FrontEndParts(g), Tags)
        /\ SumFunctionOnSet(FrontEndWeights', Tags) = SumFunctionOnSet(FrontEndWeights, Tags)
    BY <2>7, <2>8, FiniteAccounts, SumEqual
  <2>10. Promised(g)' = Promised(g) /\ Weighted' = Weighted
    BY <2>9 DEF Promised, Weighted
  <2>11. Promised(MAHASum)' = Promised(g)' /\ MAHASum' = g
    BY <1>1, <2>4 DEF MAHASum, Promised, DepositorParts, FrontEndParts, Part
  <2>12. Funded'
    <3>1. /\ Unpaid' = Unpaid /\ lastMAHAError' = lastMAHAError
          /\ totalARTHDeposits' = totalARTHDeposits
      BY <1>1 DEF Unpaid, MAHAPaid
    <3> QED
      BY <2>1, <2>4, <2>10, <2>11, <3>1 DEF Funded
  <2>13. AtFirstProduct'
    <3>1. ASSUME NEW t \in Tags, t = NoFrontEnd \/ Registered(t)
          PROVE  t = NoFrontEnd \/ (t \in FrontEnds /\ frontEnds'[t].registered)
      BY <1>4, <3>1 DEF Registered
    <3> QED
      BY <1>1, <2>1, <2>2, <3>1 DEF AtFirstProduct, Registered
  <2> QED
    BY <2>12, <2>13
<1>6. currentEpoch' = 0 => P' <= DECIMAL_PRECISION
  BY <1>1 DEF MAHAInv
<1> QED
  BY <1>5, <1>6 DEF MAHAInv

(* A liquidation leaves the first product for good: on its scale the       *)
(* product gets smaller, as a loss is never rounded to nothing, and on the *)
(* next one it starts below the square of the scale factor.                *)
LEMMA OffsetKeepsMAHA ==
  ASSUME SnapshotsBehind, MAHAInv, NEW debt \in Nat, NEW coll \in Nat, Offset(debt, coll)
  PROVE  MAHAInv'
<1> DEFINE d == DECIMAL_PRECISION
           loss == LossPerUnit(debt)
           factor == d - loss
           k == SCALE_FACTOR
<1>1. PoolTypeOK /\ IssuanceTypeOK
  BY DEF SnapshotsBehind, PoolTypeOK
<1>2. /\ P \in Nat \ {0} /\ d \in Nat \ {0} /\ k \in Nat \ {0} /\ currentEpoch \in Nat
      /\ k * k <= d /\ k * k \in Nat
  BY <1>1, PoolNumbers, NatProduct, ScaleAssumption
<1>3. loss \in Nat /\ loss >= 1 /\ loss <= d
  <2>1. loss \in 0..d
    BY <1>1, OffsetAmounts
  <2>2. loss >= 1
    <3>1. CASE debt = totalARTHDeposits
      BY <1>2, <3>1 DEF LossPerUnit
    <3>2. CASE debt # totalARTHDeposits
      <4>1. /\ totalARTHDeposits \in Nat \ {0} /\ lastARTHLossError \in Nat
            /\ debt * d \in Nat /\ debt * d >= lastARTHLossError
        BY <1>1, <1>2, <3>2, PoolNumbers, NatProduct DEF Offset
      <4>2. (debt * d - lastARTHLossError) \div totalARTHDeposits \in Nat
        BY <4>1, NatQuotient
      <4>3. loss = (debt * d - lastARTHLossError) \div totalARTHDeposits + 1
        BY <3>2 DEF LossPerUnit
      <4> HIDE DEF loss
      <4> QED
        BY <4>2, <4>3
    <3> QED
      BY <3>1, <3>2
  <2> HIDE DEF loss
  <2> QED
    BY <1>2, <2>1, <2>2
<1>4. /\ UpdateRewardSumAndProduct(ETHNumerator(coll) \div totalARTHDeposits, loss)
      /\ TriggerMAHAIssuance(0)
  BY DEF Offset
<1>5. \/ currentEpoch' = currentEpoch + 1
      \/ /\ (P * factor) \div d < k
         /\ P' = (P * factor * k) \div d
      \/ /\ P' = (P * factor) \div d
         /\ currentEpoch' = currentEpoch
  BY <1>4 DEF UpdateRewardSumAndProduct
<1> HIDE DEF d, loss, k
<1>6. factor \in Nat /\ factor < d
  BY <1>2, <1>3
<1> HIDE DEF factor
<1>7. P * factor \in Nat /\ P * factor * k \in Nat
  BY <1>2, <1>6, NatProduct
<1>8. \A u, v \in Nat, w \in Nat \ {0} : u < v * w => u \div w < v
  OBVIOUS
<1>9. currentEpoch' # 0 \/ P' < d
  <2>1. CASE currentEpoch' = currentEpoch + 1
    BY <1>2, <2>1
  <2>2. CASE (P * factor) \div d < k /\ P' = (P * factor * k) \div d
    <3>1. P * factor < k * d
      <4>1. \A u, v \in Nat, w \in Nat \ {0} : u \div w < v => u < v * w
        OBVIOUS
      <4> QED
        BY <1>2, <1>7, <2>2, <4>1
    <3>2. P * factor * k < (k * d) * k
      <4>1. \A u, v \in Nat, w \in Nat \ {0} : u < v => u * w < v * w
        OBVIOUS
      <4>2. k * d \in Nat
        BY <1>2, NatProduct
      <4> QED
        BY <1>2, <1>7, <3>1, <4>1, <4>2
    <3>3. (k * d) * k = (k * k) * d
      BY <1>2, ProductSwap
    <3>4. (k * k) * d <= d * d
      BY <1>2, ProductMonotone
    <3>5. (k * k) * d \in Nat /\ d * d \in Nat
      BY <1>2, NatProduct
    <3>6. P * factor * k < d * d
      BY <1>7, <3>2, <3>3, <3>4, <3>5
    <3>7. (P * factor * k) \div d < d
      BY <1>2, <1>7, <1>8, <3>6
    <3> QED
      BY <2>2, <3>7
  <2>3. CASE P' = (P * factor) \div d /\ currentEpoch' = currentEpoch
    <3>1. P * factor < P * d
      <4>1. \A u, v \in Nat, w \in Nat \ {0} : u < v => w * u < w * v
        OBVIOUS
      <4> QED
        BY <1>2, <1>6, <4>1
    <3>2. (P * factor) \div d < P
      BY <1>2, <1>7, <1>8, <3>1
    <3>3. (P * factor) \div d \in Nat
      BY <1>2, <1>7, NatQuotient
    <3>4. currentEpoch = 0 => P <= d
      BY DEF MAHAInv, d
    <3> QED
      BY <1>2, <2>3, <3>2, <3>3, <3>4
  <2> QED
    BY <1>5, <2>1, <2>2, <2>3
<1>10. P' \in Nat /\ d \in Nat
  <2>1. SnapshotsBehind'
    BY OffsetKeepsBehind
  <2> QED
    BY <1>2, <2>1 DEF SnapshotsBehind, PoolTypeOK
<1>11. ~Untouched' /\ (currentEpoch' = 0 => P' <= DECIMAL_PRECISION)
  BY <1>9, <1>10 DEF Untouched, d
<1> QED
  BY <1>11 DEF MAHAInv

(* Time that passes, rewards that are announced and tokens that arrive     *)
(* leave promises and payments as they are.                                *)
LEMMA OtherStepKeepsMAHA ==
  ASSUME SnapshotsBehind, MAHAInv, PoolUnchanged, Unpaid' = Unpaid
  PROVE  MAHAInv'
<1>1. UNCHANGED <<deposits, depositSnapshots, frontEnds, frontEndStakes, frontEndSnapshots,
                  P, currentScale, currentEpoch, epochToScaleToG, lastMAHAError,
                  totalARTHDeposits>>
  BY DEF PoolUnchanged, accountVars, productVars
<1>2. ASSUME Untouched'
      PROVE  AtFirstProduct' /\ Funded'
  <2>1. AtFirstProduct /\ Funded
    BY <1>1, <1>2 DEF MAHAInv, Untouched
  <2>2. AtFirstProduct'
    BY <1>1, <2>1 DEF AtFirstProduct, Registered
  <2>3. Promised(MAHASum)' = Promised(MAHASum) /\ Weighted' = Weighted
    BY <1>1 DEF Promised, MAHASum, DepositorParts, FrontEndParts, Part, KickbackRate,
       Weighted, DepositorWeights, FrontEndWeights
  <2> QED
    BY <1>1, <2>1, <2>2, <2>3 DEF Funded
<1>3. currentEpoch' = 0 => P' <= DECIMAL_PRECISION
  BY <1>1 DEF MAHAInv
<1> QED
  BY <1>2, <1>3 DEF MAHAInv

(* What is still to be issued is an amount.                                *)
LEMMA ToIssueIsAmount ==
  ASSUME IssuanceTypeOK, IssuedInOrder
  PROVE  ToIssue(lastUpdateTime) \in Nat
<1>1. rewardRate \in Nat /\ periodFinish - lastUpdateTime \in Nat
  BY DEF IssuanceTypeOK, IssuedInOrder
<1> QED
  BY <1>1, NatProduct DEF ToIssue

(* An announcement in the middle of a period rolls what is left of it into *)
(* the new rate, rounded down.                                             *)
LEMMA NotifyKeepsIssued ==
  ASSUME IssuanceTypeOK, IssuedInOrder, NEW reward \in Rewards, NotifyRewardAmount(reward)
  PROVE  IssuedInOrder'
<1> DEFINE span == RewardsDuration
           left == (periodFinish - now) * rewardRate
<1>2. /\ now \in Nat /\ lastUpdateTime \in Nat /\ periodFinish \in Nat /\ rewardRate \in Nat
      /\ totalMAHAIssued \in Nat /\ announced \in Nat
      /\ reward \in Nat /\ span \in Nat \ {0}
      /\ lastUpdateTime <= now /\ lastUpdateTime <= periodFinish
      /\ totalMAHAIssued + ToIssue(lastUpdateTime) <= announced
  BY IssuanceAssumption DEF IssuanceTypeOK, IssuedInOrder
<1>3. /\ announced' = announced + reward /\ totalMAHAIssued' = totalMAHAIssued
      /\ rewardRate' = NewRate(reward) /\ lastUpdateTime' = now
      /\ periodFinish' = now + span /\ now' = now
  BY DEF NotifyRewardAmount
<1>4. ToIssue(lastUpdateTime) \in Nat
  BY ToIssueIsAmount
<1>5. \A u \in Nat, v \in Nat \ {0} : (u \div v) * v <= u
  OBVIOUS
<1>6. NewRate(reward) \in Nat /\ NewRate(reward) * span <= reward + ToIssue(lastUpdateTime)
  <2>1. CASE now >= periodFinish
    <3>1. NewRate(reward) = reward \div span
      BY <2>1 DEF NewRate
    <3>2. reward \div span \in Nat /\ (reward \div span) * span <= reward
      BY <1>2, <1>5, NatQuotient
    <3>3. (reward \div span) * span \in Nat
      BY <1>2, <3>2, NatProduct
    <3> HIDE DEF span
    <3> QED
      BY <1>2, <1>4, <3>1, <3>2, <3>3
  <2>2. CASE ~(now >= periodFinish)
    <3>1. NewRate(reward) = (reward + left) \div span
      BY <2>2 DEF NewRate
    <3>2. periodFinish - now \in Nat /\ left \in Nat
      BY <1>2, <2>2, NatProduct
    <3>3. left <= ToIssue(lastUpdateTime)
      <4>1. \A r, p, n, l \in Nat : l <= n /\ n <= p => (p - n) * r <= r * (p - l)
        <5> TAKE r, p, n, l \in Nat
        <5> HAVE l <= n /\ n <= p
        <5>1. r * (p - l) = (p - n) * r + r * (n - l)
          OBVIOUS
        <5>2. n - l \in Nat /\ p - n \in Nat
          OBVIOUS
        <5>3. r * (n - l) \in Nat /\ (p - n) * r \in Nat
          BY <5>2, NatProduct
        <5> QED
          BY <5>1, <5>3
      <4> QED
        BY <1>2, <2>2, <4>1 DEF ToIssue
    <3> HIDE DEF left, span
    <3>4. /\ (reward + left) \div span \in Nat
          /\ ((reward + left) \div span) * span <= reward + left
          /\ reward + left \in Nat
      BY <1>2, <1>5, <3>2, NatQuotient
    <3>5. ((reward + left) \div span) * span \in Nat
      BY <1>2, <3>4, NatProduct
    <3> QED
      BY <1>2, <1>4, <3>1, <3>2, <3>3, <3>4, <3>5
  <2> QED
    BY <2>1, <2>2
<1>7. ToIssue(lastUpdateTime)' = NewRate(reward) * span
  <2>1. ToIssue(lastUpdateTime)' = NewRate(reward) * ((now + span) - now)
    BY <1>3 DEF ToIssue
  <2>2. (now + span) - now = span
    BY <1>2
  <2> QED
    BY <2>1, <2>2
<1>8. /\ ToIssue(lastUpdateTime)' \in Nat
      /\ ToIssue(lastUpdateTime)' <= ToIssue(lastUpdateTime) + reward
  <2>1. NewRate(reward) * span \in Nat
    BY <1>2, <1>6, NatProduct
  <2> QED
    BY <1>2, <1>4, <1>6, <1>7, <2>1
<1>9. totalMAHAIssued' + ToIssue(lastUpdateTime)' <= announced'
  BY <1>2, <1>3, <1>4, <1>8
<1> QED
  BY <1>2, <1>3, <1>9 DEF IssuedInOrder

(* What is issued is taken off what is still to be issued.                 *)
LEMMA IssueKeepsIssued ==
  ASSUME IssuanceTypeOK, IssuedInOrder, NEW paid, IssueMAHA(paid)
  PROVE  IssuedInOrder'
<1> DEFINE til == LastTimeRewardApplicable
           from == lastUpdateTime
           accrued == rewardRate * (til - from)
           later == rewardRate * (periodFinish - til)
<1>1. /\ CumulativeIssuance \in Nat /\ til \in Nat /\ til >= from
      /\ accrued \in Nat /\ CumulativeIssuance <= accrued
  BY IssuedAmount
<1>2. /\ now \in Nat /\ from \in Nat /\ periodFinish \in Nat /\ rewardRate \in Nat
      /\ totalMAHAIssued \in Nat /\ announced \in Nat
      /\ totalMAHAIssued + ToIssue(from) <= announced
  BY DEF IssuanceTypeOK, IssuedInOrder
<1>3. /\ lastUpdateTime' = til /\ now' = now /\ rewardRate' = rewardRate
      /\ periodFinish' = periodFinish /\ announced' = announced
      /\ totalMAHAIssued' = totalMAHAIssued + CumulativeIssuance
  BY DEF IssueMAHA, historyVars
<1>4. til <= now /\ til <= periodFinish
  BY <1>2 DEF LastTimeRewardApplicable, MinOf
<1>5. later \in Nat
  <2> HIDE DEF til
  <2> QED
    BY <1>1, <1>2, <1>4, NatProduct
<1>6. ToIssue(from) = accrued + later
  <2>1. \A r, p, t, f \in Int : r * (p - f) = r * (t - f) + r * (p - t)
    OBVIOUS
  <2> HIDE DEF til, from
  <2> QED
    BY <1>1, <1>2, <2>1 DEF ToIssue
<1>7. ToIssue(lastUpdateTime)' = later
  BY <1>3 DEF ToIssue
<1> HIDE DEF accrued, later, til, from
<1>8. totalMAHAIssued' + ToIssue(lastUpdateTime)' <= announced'
  BY <1>1, <1>2, <1>3, <1>5, <1>6, <1>7
<1> QED
  BY <1>3, <1>4, <1>8 DEF IssuedInOrder

(* No step issues more than was announced.                                 *)
LEMMA NextKeepsIssued ==
  ASSUME SnapshotsBehind, IssuedInOrder, [Next]_vars
  PROVE  IssuedInOrder'
<1>1. IssuanceTypeOK
  BY DEF SnapshotsBehind, PoolTypeOK
<1>2. ASSUME NEW a, NEW tag, NEW added, NEW removed,
             DepositorOperation(a, tag, added, removed)
      PROVE  IssuedInOrder'
  <2>1. IssueMAHA(FrontEndMAHAGain(tag, GAfterIssuance)
                    + DepositorMAHAGain(a, tag, GAfterIssuance))
    BY <1>2 DEF DepositorOperation, TriggerMAHAIssuance
  <2> QED
    BY <1>1, <2>1, IssueKeepsIssued
<1>3. ASSUME NEW a, NEW amount, NEW tag, ProvideToSP(a, amount, tag) PROVE IssuedInOrder'
  BY <1>2, <1>3 DEF ProvideToSP
<1>4. ASSUME NEW a, NEW amount, WithdrawFromSP(a, amount) PROVE IssuedInOrder'
  BY <1>2, <1>4 DEF WithdrawFromSP
<1>5. ASSUME NEW a, WithdrawETHGainToTrove(a) PROVE IssuedInOrder'
  BY <1>2, <1>5 DEF WithdrawETHGainToTrove
<1>6. ASSUME NEW trove, OffsetTrove(trove) PROVE IssuedInOrder'
  <2>1. IssueMAHA(0)
    BY <1>6 DEF OffsetTrove, Offset, TriggerMAHAIssuance
  <2> QED
    BY <1>1, <2>1, IssueKeepsIssued
<1>7. ASSUME NEW reward \in Rewards, NotifyRewardAmount(reward) PROVE IssuedInOrder'
  BY <1>1, <1>7, NotifyKeepsIssued
<1>8. ASSUME UNCHANGED <<rewardVars, totalMAHAIssued, announced>>,
             now' = now \/ now' = now + 1
      PROVE  IssuedInOrder'
  BY <1>1, <1>8 DEF IssuedInOrder, ToIssue, rewardVars, IssuanceTypeOK
<1>9. ASSUME Tick PROVE IssuedInOrder'
  BY <1>8, <1>9 DEF Tick, historyVars
<1>10. ASSUME NEW amount, ReceiveMAHA(amount) PROVE IssuedInOrder'
  BY <1>8, <1>10 DEF ReceiveMAHA
<1>11. ASSUME UNCHANGED issuanceVars PROVE IssuedInOrder'
  BY <1>8, <1>11 DEF issuanceVars, historyVars
<1>12. ASSUME NEW f, NEW rate, RegisterFrontEnd(f, rate) PROVE IssuedInOrder'
  BY <1>11, <1>12 DEF RegisterFrontEnd
<1>13. ASSUME UNCHANGED vars PROVE IssuedInOrder'
  BY <1>11, <1>13 DEF vars
<1> QED
  BY <1>3, <1>4, <1>5, <1>6, <1>7, <1>9, <1>10, <1>12, <1>13 DEF Next

(* Every step keeps the promises funded.                                   *)
LEMMA NextKeepsMAHA ==
  ASSUME SnapshotsBehind, MAHAInv, [Next]_vars
  PROVE  MAHAInv'
<1>1. PoolTypeOK /\ IssuanceTypeOK
  BY DEF SnapshotsBehind, PoolTypeOK
<1>2. ASSUME NEW a \in Depositors
      PROVE  /\ a \in Accounts /\ deposits[a].frontEndTag \in Tags
             /\ CompoundedDeposit(a) \in Nat
             /\ deposits[a].initialValue \in Nat
  <2>1. a \in Accounts
    BY DEF Accounts
  <2>2. CompoundedDeposit(a) \in Nat
    BY <1>1, <2>1, StoredSnapshots, CompoundedIsAmount
    DEF CompoundedDeposit, Behind, BehindValues
  <2> QED
    BY <1>1, <2>1, <2>2 DEF PoolTypeOK
<1>3. ASSUME NEW a \in Depositors, NEW tag \in Tags, NEW added \in Nat, NEW removed \in Nat,
             removed <= CompoundedDeposit(a) + added,
             deposits[a].initialValue > 0 => tag = deposits[a].frontEndTag,
             deposits[a].initialValue = 0 => tag = NoFrontEnd \/ Registered(tag),
             DepositorOperation(a, tag, added, removed)
      PROVE  MAHAInv'
  <2>1. CASE Untouched
    <3>1. deposits[a].initialValue > 0
            => tag = NoFrontEnd \/ Registered(tag)
      BY <1>2, <1>3, <2>1 DEF MAHAInv, AtFirstProduct
    <3>2. tag = NoFrontEnd \/ Registered(tag)
      BY <1>2, <1>3, <3>1
    <3> QED
      BY <1>2, <1>3, <3>2, OperationKeepsMAHA
  <2>2. CASE ~Untouched
    <3>1. P' = P /\ currentEpoch' = currentEpoch
      BY <1>3 DEF DepositorOperation, productVars
    <3> QED
      BY <2>2, <3>1 DEF MAHAInv, Untouched
  <2> QED
    BY <2>1, <2>2
<1>4. ASSUME NEW a \in Depositors, NEW amount \in Amounts, NEW tag \in Tags,
             ProvideToSP(a, amount, tag)
      PROVE  MAHAInv'
  <2> DEFINE t == IF deposits[a].initialValue = 0 THEN tag ELSE deposits[a].frontEndTag
  <2>1. t \in Tags /\ amount \in Nat /\ 0 \in Nat /\ CompoundedDeposit(a) \in Nat
    BY <1>2, PoolAssumption
  <2>2. /\ DepositorOperation(a, t, amount, 0)
        /\ tag = NoFrontEnd \/ Registered(tag)
    BY <1>4 DEF ProvideToSP
  <2>3. /\ deposits[a].initialValue > 0 => t = deposits[a].frontEndTag
        /\ deposits[a].initialValue = 0 => t = NoFrontEnd \/ Registered(t)
    BY <2>2
  <2> HIDE DEF t
  <2> QED
    BY <1>3, <2>1, <2>2, <2>3
<1>5. ASSUME NEW a \in Depositors, NEW amount \in Amounts \cup {0},
             WithdrawFromSP(a, amount)
      PROVE  MAHAInv'
  <2> DEFINE removed == MinOf(amount, CompoundedDeposit(a))
  <2>1. amount \in Nat
    BY PoolAssumption
  <2>2. removed \in Nat /\ removed <= CompoundedDeposit(a) + 0
    BY <1>2, <2>1 DEF MinOf
  <2>3. /\ DepositorOperation(a, deposits[a].frontEndTag, 0, removed)
        /\ deposits[a].initialValue > 0
    BY <1>5 DEF WithdrawFromSP
  <2> HIDE DEF removed
  <2> QED
    BY <1>2, <1>3, <2>2, <2>3
<1>6. ASSUME NEW a \in Depositors, WithdrawETHGainToTrove(a)
      PROVE  MAHAInv'
  <2>1. /\ DepositorOperation(a, deposits[a].frontEndTag, 0, 0)
        /\ deposits[a].initialValue > 0
    BY <1>6 DEF WithdrawETHGainToTrove
  <2>2. 0 <= CompoundedDeposit(a) + 0
    BY <1>2
  <2> QED
    BY <1>2, <1>3, <2>1, <2>2
<1>7. ASSUME NEW f \in FrontEnds, NEW rate \in KickbackRates, RegisterFrontEnd(f, rate)
      PROVE  MAHAInv'
  BY <1>7, RegisterKeepsMAHA
<1>8. ASSUME NEW trove \in Troves, OffsetTrove(trove)
      PROVE  MAHAInv'
  <2> DEFINE debt == MinOf(trove.debt, totalARTHDeposits)
             coll == (trove.coll * debt) \div trove.debt
  <2>1. trove.debt \in Nat \ {0} /\ trove.coll \in Nat /\ totalARTHDeposits \in Nat
    BY <1>1, PoolAssumption DEF PoolTypeOK
  <2>2. debt \in Nat
    BY <2>1 DEF MinOf
  <2>3. coll \in Nat
    BY <2>1, <2>2, NatProduct, NatQuotient
  <2>4. Offset(debt, coll)
    BY <1>8 DEF OffsetTrove
  <2> HIDE DEF debt, coll
  <2> QED
    BY <2>2, <2>3, <2>4, OffsetKeepsMAHA
<1>9. ASSUME NEW reward \in Rewards, NotifyRewardAmount(reward), PoolUnchanged
      PROVE  MAHAInv'
  <2>1. Unpaid' = Unpaid
    BY <1>9 DEF NotifyRewardAmount, Unpaid, MAHAPaid
  <2> QED
    BY <1>9, <2>1, OtherStepKeepsMAHA
<1>10. ASSUME NEW amount \in Transfers, ReceiveMAHA(amount), PoolUnchanged
       PROVE  MAHAInv'
  <2>1. amount \in Nat
    BY IssuanceAssumption
  <2>2. Unpaid' = Unpaid
    BY <1>1, <1>10, <2>1 DEF ReceiveMAHA, Unpaid, MAHAPaid, IssuanceTypeOK
  <2> QED
    BY <1>10, <2>2, OtherStepKeepsMAHA
<1>11. ASSUME Tick, PoolUnchanged PROVE MAHAInv'
  <2>1. Unpaid' = Unpaid
    BY <1>11 DEF Tick, Unpaid, MAHAPaid, historyVars
  <2> QED
    BY <1>11, <2>1, OtherStepKeepsMAHA
<1>12. ASSUME UNCHANGED vars PROVE MAHAInv'
  <2>1. PoolUnchanged /\ Unpaid' = Unpaid
    BY <1>12 DEF vars, PoolUnchanged, issuanceVars, historyVars, Unpaid, MAHAPaid
  <2> QED
    BY <2>1, OtherStepKeepsMAHA
<1> QED
  BY <1>4, <1>5, <1>6, <1>7, <1>8, <1>9, <1>10, <1>11, <1>12 DEF Next

(* A new pool has promised nothing.                                        *)
LEMMA MAHAInitially == Init => MAHAInv /\ IssuedInOrder
<1> SUFFICES ASSUME Init PROVE MAHAInv /\ IssuedInOrder
  OBVIOUS
<1>1. SnapshotsBehind
  BY PoolInitially
<1>2. /\ now = 0 /\ lastUpdateTime = 0 /\ periodFinish = RewardsDuration /\ rewardRate = 0
      /\ totalMAHAIssued = 0 /\ announced = 0 /\ received = 0
      /\ mahaBalance = 0 /\ lastMAHAError = 0 /\ totalARTHDeposits = 0
      /\ P = DECIMAL_PRECISION /\ currentScale = 0
      /\ RewardsDuration \in Nat \ {0}
  BY IssuanceAssumption DEF Init, IssuanceInit
<1>3. /\ \A a \in Accounts : deposits[a].initialValue = 0 /\ depositSnapshots[a].G = 0
      /\ \A t \in Tags : frontEndStakes[t] = 0 /\ frontEndSnapshots[t].G = 0
  BY DEF Init, NoDeposit, NoSnapshot
<1>4. MAHASum = 0 /\ epochToScaleToG[0][1] = 0
  <2>1. 0 \in Epochs /\ 0 \in Scales /\ 1 \in Scales
    BY PoolAssumption DEF Epochs, Scales
  <2> QED
    BY <2>1 DEF Init, MAHASum
<1>5. \A k \in Nat : k * (0 * (0 - 0)) = 0 /\ k * 0 = 0
  OBVIOUS
<1>6. 0 \in Int
  OBVIOUS
<1>7. /\ \A a \in Accounts : DepositorParts(0)[a] = 0 /\ DepositorWeights[a] = 0
      /\ \A t \in Tags : FrontEndParts(0)[t] = 0 /\ FrontEndWeights[t] = 0
  <2>1. ASSUME NEW a \in Accounts
        PROVE  DepositorParts(0)[a] = 0 /\ DepositorWeights[a] = 0
    <3>1. /\ DepositorParts(0)[a]
                = KickbackRate(deposits[a].frontEndTag)
                    * (deposits[a].initialValue * (0 - depositSnapshots[a].G))
          /\ DepositorWeights[a]
                = KickbackRate(deposits[a].frontEndTag) * deposits[a].initialValue
      BY <1>1, <1>6, PartNumbers
    <3>2. KickbackRate(deposits[a].frontEndTag) \in Nat
      BY <1>1, StakeNumbers
    <3>3. deposits[a].initialValue = 0 /\ depositSnapshots[a].G = 0
      BY <1>3
    <3> QED
      BY <1>5, <3>1, <3>2, <3>3
  <2>2. ASSUME NEW t \in Tags
        PROVE  FrontEndParts(0)[t] = 0 /\ FrontEndWeights[t] = 0
    <3>1. /\ FrontEndParts(0)[t]
                = (DECIMAL_PRECISION - KickbackRate(t))
                    * (frontEndStakes[t] * (0 - frontEndSnapshots[t].G))
          /\ FrontEndWeights[t] = (DECIMAL_PRECISION - KickbackRate(t)) * frontEndStakes[t]
      BY <1>1, <1>6, PartNumbers
    <3>2. DECIMAL_PRECISION - KickbackRate(t) \in Nat
      BY <1>1, StakeNumbers
    <3>3. frontEndStakes[t] = 0 /\ frontEndSnapshots[t].G = 0
      BY <1>3
    <3> QED
      BY <1>5, <3>1, <3>2, <3>3
  <2> QED
    BY <2>1, <2>2
<1>8. /\ SumFunctionOnSet(DepositorParts(0), Accounts) = Cardinality(Accounts) * 0
      /\ SumFunctionOnSet(DepositorWeights, Accounts) = Cardinality(Accounts) * 0
      /\ SumFunctionOnSet(FrontEndParts(0), Tags) = Cardinality(Tags) * 0
      /\ SumFunctionOnSet(FrontEndWeights, Tags) = Cardinality(Tags) * 0
  BY <1>6, <1>7, FiniteAccounts, SumConstant
<1>9. Cardinality(Accounts) \in Nat /\ Cardinality(Tags) \in Nat
  BY FiniteAccounts, FS_CardinalityType
<1>10. Promised(0) = 0 /\ Weighted = 0
  BY <1>8, <1>9 DEF Promised, Weighted
<1>11. ToIssue(0) = 0
  BY <1>2 DEF ToIssue
<1>12. Funded
  <2>1. Unpaid = 0
    BY <1>2 DEF Unpaid, MAHAPaid
  <2> QED
    BY <1>2, <1>4, <1>10, <2>1, Powers DEF Funded
<1>13. AtFirstProduct
  BY <1>2, <1>3, <1>4 DEF AtFirstProduct
<1> QED
  BY <1>2, <1>11, <1>12, <1>13, Powers DEF MAHAInv, IssuedInOrder

(* The gains are parts, rounded down: funded promises cover them.          *)
LEMMA FundedCoversGains ==
  SnapshotsBehind /\ MAHAInv /\ IssuedInOrder
    => MAHAGainsAreCovered /\ (Untouched => MAHAOwed \in Nat)
<1> SUFFICES ASSUME SnapshotsBehind, MAHAInv, IssuedInOrder, Untouched
             PROVE  /\ MAHAOwed + MAHAPaid <= totalMAHAIssued
                    /\ totalMAHAIssued <= announced
                    /\ MAHAOwed \in Nat
  BY DEF MAHAGainsAreCovered, Untouched
<1> DEFINE gains == [a \in Accounts |->
                       DepositorMAHAGain(a, deposits[a].frontEndTag, epochToScaleToG)]
           frontGains == [t \in Tags |-> FrontEndMAHAGain(t, epochToScaleToG)]
           gainUnits == [a \in Accounts |-> gains[a] * Cube]
           frontUnits == [t \in Tags |-> frontGains[t] * Cube]
<1>1. AtFirstProduct /\ Funded /\ PoolTypeOK /\ IssuanceTypeOK
  BY DEF MAHAInv, SnapshotsBehind, PoolTypeOK
<1>2. /\ epochToScaleToG \in [Epochs -> [Scales -> Nat]] /\ epochToScaleToG[0][1] = 0
      /\ \A e \in Epochs, s \in Scales : epochToScaleToG[e][s] <= epochToScaleToG[e][s]
      /\ MAHASum = epochToScaleToG[0][0] /\ MAHASum \in Nat
  <2>1. epochToScaleToG \in [Epochs -> [Scales -> Nat]]
    BY <1>1 DEF PoolTypeOK
  <2>2. \A e \in Epochs, s \in Scales : epochToScaleToG[e][s] \in Nat
    BY <2>1
  <2>3. 0 \in Epochs /\ 0 \in Scales
    BY PoolAssumption DEF Epochs, Scales
  <2> QED
    BY <1>1, <2>1, <2>2, <2>3 DEF MAHASum, AtFirstProduct
<1>3. \A a \in Accounts :
        /\ gains[a] \in Nat /\ gainUnits[a] = gains[a] * Cube
        /\ gainUnits[a] <= DepositorParts(MAHASum)[a]
        /\ gainUnits[a] \in Int /\ DepositorParts(MAHASum)[a] \in Int
  <2> TAKE a \in Accounts
  <2>1. deposits[a].frontEndTag \in Tags
    BY StakeNumbers
  <2>2. /\ DepositorMAHAGain(a, deposits[a].frontEndTag, epochToScaleToG) \in Nat
        /\ DepositorParts(MAHASum)[a] \in Nat
        /\ DepositorMAHAGain(a, deposits[a].frontEndTag, epochToScaleToG) * Cube
             <= DepositorParts(MAHASum)[a]
    BY <1>1, <1>2, <2>1, DepositorGainIsPart
  <2>3. /\ gains[a] = DepositorMAHAGain(a, deposits[a].frontEndTag, epochToScaleToG)
        /\ gainUnits[a] = gains[a] * Cube
    OBVIOUS
  <2> HIDE DEF gains, gainUnits
  <2> QED
    BY <2>2, <2>3, Powers, NatProduct
<1>4. \A t \in Tags :
        /\ frontGains[t] \in Nat /\ frontUnits[t] = frontGains[t] * Cube
        /\ frontUnits[t] <= FrontEndParts(MAHASum)[t]
        /\ frontUnits[t] \in Int /\ FrontEndParts(MAHASum)[t] \in Int
  <2> TAKE t \in Tags
  <2>1. /\ FrontEndMAHAGain(t, epochToScaleToG) \in Nat
        /\ FrontEndParts(MAHASum)[t] \in Nat
        /\ FrontEndMAHAGain(t, epochToScaleToG) * Cube <= FrontEndParts(MAHASum)[t]
    BY <1>1, <1>2, FrontEndGainIsPart
  <2>2. /\ frontGains[t] = FrontEndMAHAGain(t, epochToScaleToG)
        /\ frontUnits[t] = frontGains[t] * Cube
    OBVIOUS
  <2> HIDE DEF frontGains, frontUnits
  <2> QED
    BY <2>1, <2>2, Powers, NatProduct
<1>5. MAHAOwed = SumFunctionOnSet(gains, Accounts) + SumFunctionOnSet(frontGains, Tags)
  BY DEF MAHAOwed
<1> HIDE DEF gains, frontGains, gainUnits, frontUnits
<1>6. /\ SumFunctionOnSet(gains, Accounts) \in Nat
      /\ SumFunctionOnSet(frontGains, Tags) \in Nat
  BY <1>3, <1>4, FiniteAccounts, SumNat
<1>7. Cube \in Int
  BY Powers
<1>8. /\ SumFunctionOnSet(gainUnits, Accounts) = SumFunctionOnSet(gains, Accounts) * Cube
      /\ SumFunctionOnSet(frontUnits, Tags) = SumFunctionOnSet(frontGains, Tags) * Cube
  <2>1. /\ \A a \in Accounts : gains[a] \in Int /\ gainUnits[a] = gains[a] * Cube
        /\ \A t \in Tags : frontGains[t] \in Int /\ frontUnits[t] = frontGains[t] * Cube
    BY <1>3, <1>4
  <2> QED
    BY <1>7, <2>1, FiniteAccounts, SumScale
<1>9. /\ SumFunctionOnSet(gainUnits, Accounts)
           <= SumFunctionOnSet(DepositorParts(MAHASum), Accounts)
      /\ SumFunctionOnSet(frontUnits, Tags) <= SumFunctionOnSet(FrontEndParts(MAHASum), Tags)
  BY <1>3, <1>4, FiniteAccounts, SumMonotone
<1> DEFINE x == SumFunctionOnSet(gains, Accounts)
           y == SumFunctionOnSet(frontGains, Tags)
           promised == Promised(MAHASum)
<1>10. x * Cube + y * Cube <= promised
  <2>1. /\ SumFunctionOnSet(DepositorParts(MAHASum), Accounts) \in Int
        /\ SumFunctionOnSet(FrontEndParts(MAHASum), Tags) \in Int
    BY <1>2, PromisedNumbers
  <2>2. x * Cube \in Int /\ y * Cube \in Int
    BY <1>6, Powers, NatProduct
  <2> QED
    BY <1>8, <1>9, <2>1, <2>2 DEF Promised
<1>11. promised + lastMAHAError * Square <= Unpaid * Cube
  BY <1>1 DEF Funded
<1>12. /\ lastMAHAError * Square \in Nat /\ Unpaid * Cube \in Int /\ Unpaid \in Int
       /\ promised \in Int
  <2>1. lastMAHAError \in Nat /\ Unpaid \in Int
    BY <1>1 DEF PoolTypeOK, IssuanceTypeOK, Unpaid, MAHAPaid
  <2>2. promised \in Int
    BY <1>2, PromisedNumbers
  <2>3. \A u, v \in Int : u * v \in Int
    OBVIOUS
  <2>4. Cube \in Int
    BY Powers
  <2> QED
    BY <2>1, <2>2, <2>3, <2>4, Powers, NatProduct
<1>13. x \in Nat /\ y \in Nat
  BY <1>6
<1> HIDE DEF x, y, promised
<1>14. (x + y) * Cube <= Unpaid * Cube
  <2>1. (x + y) * Cube = x * Cube + y * Cube /\ x * Cube \in Int /\ y * Cube \in Int
    BY <1>13, Powers, ProductSum, NatProduct
  <2> QED
    BY <1>10, <1>11, <1>12, <2>1
<1>15. x + y <= Unpaid
  <2>1. \A v, w \in Int, z \in Nat \ {0} : v * z <= w * z => v <= w
    OBVIOUS
  <2>2. x + y \in Int
    BY <1>13
  <2> QED
    BY <1>12, <1>14, <2>1, <2>2, Powers
<1>16. MAHAOwed + MAHAPaid <= totalMAHAIssued
  <2>1. totalMAHAIssued \in Nat /\ MAHAPaid \in Int
    BY <1>1 DEF IssuanceTypeOK, MAHAPaid
  <2>2. MAHAOwed = x + y
    BY <1>5 DEF x, y
  <2> QED
    BY <1>13, <1>15, <2>1, <2>2 DEF Unpaid
<1>17. totalMAHAIssued <= announced
  <2>1. ToIssue(lastUpdateTime) \in Nat
    BY <1>1, ToIssueIsAmount
  <2> QED
    BY <1>1, <2>1 DEF IssuedInOrder, IssuanceTypeOK
<1> QED
  BY <1>5, <1>6, <1>16, <1>17

(* The invariant behind both theorems.                                     *)
LEMMA MAHAInvHolds == Spec => [](SnapshotsBehind /\ MAHAInv /\ IssuedInOrder)
<1>1. Init => SnapshotsBehind /\ MAHAInv /\ IssuedInOrder
  BY PoolInitially, MAHAInitially
<1>2. SnapshotsBehind /\ MAHAInv /\ IssuedInOrder /\ [Next]_vars
        => SnapshotsBehind' /\ MAHAInv' /\ IssuedInOrder'
  BY NextKeepsBehind, NextKeepsMAHA, NextKeepsIssued
<1> QED
  BY <1>1, <1>2, PTL DEF Spec

(* Until the first loss, what depositors and front ends have been paid and *)
(* are promised is never more than totalMAHAIssued, and that never more    *)
(* than the rewards announced, whatever the order of deposits, withdrawals, *)
(* registrations, transfers of tokens and announcements in the middle of a *)
(* period, for every precision, period and set of depositors and front     *)
(* ends, and through every rounding.                                       *)
THEOREM MAHAGainsStayCovered == Spec => []MAHAGainsAreCovered
<1>1. SnapshotsBehind /\ MAHAInv /\ IssuedInOrder => MAHAGainsAreCovered
  BY FundedCoversGains
<1> QED
  BY <1>1, MAHAInvHolds, PTL

(* So the tokens held cover all gains as long as no more has been          *)
(* announced than was sent to the contract: the one condition that         *)
(* notifyRewardAmount leaves to its caller.                                *)
THEOREM FundedGainsAreCovered ==
  Spec => [](P = DECIMAL_PRECISION /\ currentEpoch = 0 /\ announced <= received
               => MAHAOwed <= mahaBalance)
<1> DEFINE Affordable == P = DECIMAL_PRECISION /\ currentEpoch = 0 /\ announced <= received
                            => MAHAOwed <= mahaBalance
<1>1. SnapshotsBehind /\ MAHAInv /\ IssuedInOrder => Affordable
  <2> SUFFICES ASSUME SnapshotsBehind, MAHAInv, IssuedInOrder, Untouched,
                      announced <= received
               PROVE  MAHAOwed <= mahaBalance
    BY DEF Untouched
  <2>1. /\ MAHAOwed \in Nat /\ MAHAOwed + MAHAPaid <= totalMAHAIssued
        /\ totalMAHAIssued <= announced
    BY FundedCoversGains DEF MAHAGainsAreCovered, Untouched
  <2>2. IssuanceTypeOK
    BY DEF SnapshotsBehind, PoolTypeOK
  <2> QED
    BY <2>1, <2>2 DEF IssuanceTypeOK, MAHAPaid
<1> HIDE DEF Affordable
<1>2. Spec => []Affordable
  BY <1>1, MAHAInvHolds, PTL
<1> QED
  BY <1>2 DEF Affordable
===============================================================================
