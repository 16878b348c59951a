------------------------------ MODULE HintHelpers ------------------------------
(***************************************************************************)
(* HintHelpers.getRedemptionHints: a view that simulates a redemption, for *)
(* a caller who then passes what it returns to redeemCollateral.  The two  *)
(* contracts compute the same troves, amounts and ratios in two different  *)
(* ways.                                                                   *)
(***************************************************************************)
EXTENDS ARTHSystem

(* The locals of the second loop; partialNICR is zero when no trove is     *)
(* redeemed in part.                                                       *)
NewSimulation(amount, maxIterations) ==
  [remaining |-> amount,
   iterations |-> IF maxIterations = 0 THEN MaxUint ELSE maxIterations,
   partialNICR |-> 0, broken |-> FALSE, reverted |-> FALSE]

(* Net debt as the view adds it up: the reserve is subtracted before the   *)
(* pending reward is added.                                                *)
NetDebtOf(b) == NetDebt(Troves[b].debt) + PendingARTHDebtReward(b)

(* Seeded fault: the last trove may be left with any debt. *)
ReducedToNothing(sim, b) == MinOf(sim.remaining, NetDebtOf(b))

(* What a trove that owes more than remains can give: never so much that   *)
(* its net debt falls below the minimum.                                   *)
MaxRedeemable(sim, b) == MinOf(sim.remaining, NetDebtOf(b) - MIN_NET_DEBT)

(* The collateral the trove keeps.                                         *)
CollKept(sim, b, p) ==
  Troves[b].coll + PendingETHReward(b) - (MaxRedeemable(sim, b) * DECIMAL_PRECISION) \div p

(* The condition `_maxIterations-- > 0` is reached with a trove and ARTH   *)
(* left; with the iterations used up, it takes one from zero and reverts.  *)
SimulationStep(sim, b, p) ==
  IF sim.broken \/ sim.reverted \/ sim.remaining = 0 THEN sim
  ELSE IF sim.iterations = 0 THEN [sim EXCEPT !.reverted = TRUE]
  ELSE IF NetDebtOf(b) <= sim.remaining
  THEN [sim EXCEPT !.remaining = @ - NetDebtOf(b), !.iterations = @ - 1]
  ELSE IF NetDebtOf(b) <= MIN_NET_DEBT THEN [sim EXCEPT !.broken = TRUE]
  ELSE LET redeemed == MaxRedeemable(sim, b)
           nicr == ComputeNominalCR(CollKept(sim, b, p), CompositeDebt(NetDebtOf(b) - redeemed))
       IN  [sim EXCEPT !.remaining = @ - redeemed, !.broken = TRUE, !.partialNICR = nicr,
                       !.reverted = CollKept(sim, b, p) < 0]

(* The first hint is the first trove from the end of the list with a ratio *)
(* of at least MCR, if there is one.  A call that reverts returns nothing. *)
RedemptionHints(amount, p, maxIterations) ==
  LET Step(sim, b) == SimulationStep(sim, b, p)
      first   == Max({ i \in DOMAIN sortedTroves :
                         CurrentICR(sortedTroves[i], p) >= MCR } \cup {0})
      visited == Reverse(SubSeq(sortedTroves, 1, first))
      sim     == FoldLeft(Step, NewSimulation(amount, maxIterations), visited)
  IN  [firstRedemptionHint |-> IF first = 0 THEN NoHint ELSE sortedTroves[first],
       partialRedemptionHintNICR |-> sim.partialNICR,
       truncatedARTHamount |-> amount - sim.remaining, reverts |-> sim.reverted]

(* The redemption with those hints.                                        *)
HintedRun(amount, hints, maxIterations) ==
  RedemptionRun(amount, hints.firstRedemptionHint, TRUE, maxIterations, price)

(* "truncatedARTHamount is the maximum amount that can be redeemed": in    *)
(* the state the hints were computed in, redeemCollateral redeems exactly  *)
(* that much, is never cancelled, and leaves the partly redeemed trove     *)
(* with the very ratio it compares the hint with; and it could not have    *)
(* redeemed the whole amount if the hints fall short of it.  The view only *)
(* fails to return hints when the cap on the iterations also stops         *)
(* redeemCollateral with ARTH left.                                        *)
HintsAreAccepted ==
  \A amount \in RedeemAmounts, maxIterations \in RedeemIterations :
    LET hints == RedemptionHints(amount, price, maxIterations)
        run   == HintedRun(hints.truncatedARTHamount, hints, maxIterations)
        whole == HintedRun(amount, hints, maxIterations)
    IN  IF hints.reverts
        THEN whole.iterations = 0 /\ whole.remaining > 0 /\ ~whole.cancelled
        ELSE /\ ~run.cancelled
             /\ run.redeemed = hints.truncatedARTHamount
             /\ run.partial # NoHint =>
                  ComputeNominalCR(run.collLeft, run.debtLeft) = hints.partialRedemptionHintNICR
             /\ hints.truncatedARTHamount < amount => whole.redeemed < amount

(* "The number of Troves to consider for redemption can be capped by       *)
(* passing a non-zero value as `_maxIterations`": a capped call also       *)
(* returns hints (HintHelpers.getRedemptionHints).                         *)
HintsAreReturned ==
  \A amount \in RedeemAmounts, maxIterations \in RedeemIterations :
    ~RedemptionHints(amount, price, maxIterations).reverts
===============================================================================
