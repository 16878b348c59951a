---------------------------- MODULE MCStabilityPool ----------------------------
(***************************************************************************)
(* Instance of StabilityPool for TLC.  Rewards are explored at length      *)
(* until the first liquidation, and liquidations only after at most two    *)
(* announcements and two transfers of a whole reward in the first period.  *)
(***************************************************************************)
EXTENDS StabilityPool, TLC

MCTroves == {[debt |-> 240, coll |-> 52], [debt |-> 690, coll |-> 161]}

LargeTroves == {[debt |-> 985, coll |-> 197], [debt |-> 1000, coll |-> 200]}

MCSymmetry == Permutations(Depositors)

Untouched == P = DECIMAL_PRECISION /\ currentEpoch = 0

Bounded ==
  ~Untouched' => now' <= 1 /\ announced' <= 120 /\ received' \in {0, 60, 120}

(* The disjuncts of Next, each within these bounds.                        *)
MCNext ==
  \/ \E a \in Depositors, amount \in Amounts, tag \in Tags :
       ProvideToSP(a, amount, tag) /\ Bounded
  \/ \E a \in Depositors, amount \in Amounts \cup {0} : WithdrawFromSP(a, amount) /\ Bounded
  \/ \E a \in Depositors : WithdrawETHGainToTrove(a) /\ Bounded
  \/ \E f \in FrontEnds, rate \in KickbackRates : RegisterFrontEnd(f, rate) /\ Bounded
  \/ \E trove \in Troves : OffsetTrove(trove) /\ Bounded
  \/ PoolUnchanged /\ \E reward \in Rewards : NotifyRewardAmount(reward) /\ Bounded
  \/ PoolUnchanged /\ \E amount \in Transfers : ReceiveMAHA(amount) /\ Bounded
  \/ PoolUnchanged /\ Tick /\ Bounded

MCSpec == Init /\ [][MCNext]_vars
===============================================================================
