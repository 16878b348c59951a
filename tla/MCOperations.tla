---------------------------- MODULE MCOperations ----------------------------
(***************************************************************************)
(* The composition in slices of its state space.  A slice says which calls *)
(* come together, never what a call does:                                  *)
(*   liquidating  every call for which the configuration has parameters;   *)
(*   adjusting    openings, adjustments, closings and liquidations of      *)
(*                three troves while the price falls and recovers;         *)
(*   token        transfers, deposits, front ends and governance, with two *)
(*                troves as they were opened;                              *)
(*   redeeming    redemptions from three troves the owner opened, and a    *)
(*                liquidation, after the bootstrap period;                 *)
(*   fees         loans, repayments and redemptions of one trove at any    *)
(*                half minute of the decay of the base rate.               *)
(***************************************************************************)
EXTENDS MCARTHSystem, HintHelpers

CONSTANT Slices

VARIABLE slice

MCInit == Init /\ slice \in Slices

NoTokenBusiness ==
  /\ frontEnds' = frontEnds /\ governanceVars' = governanceVars
  /\ stabilityPool' = stabilityPool
  /\ Troves' = Troves => arthBalance' = arthBalance

(* The step opens b's trove. *)
Opens(b) == ~IsActive(b) /\ Troves'[b].status = "active"

Adjusting ==
  /\ NoTokenBusiness
  /\ now' = now
  /\ openings' <= 3
  /\ arthBalance'[Owner] = 0
  /\ \A b \in Borrowers : Opens(b) => Troves'[b].debt = 100 /\ Troves'[b].coll < 340
  /\ activePool'.ETH + defaultPool'.ETH <= 740
  /\ activePool'.ARTHDebt + defaultPool'.ARTHDebt <= 360

TokenBusiness ==
  /\ now' = now /\ price' = price
  /\ \A b \in Borrowers :
       IF Opens(b) THEN Troves'[b].coll = 340 /\ Troves'[b].debt > 200
                   ELSE Troves'[b].coll \in {0, 340} /\ Troves'[b].debt \in {0, Troves[b].debt}
  /\ \E b \in Borrowers : /\ Troves'[b].status = "nonExistent" /\ b \notin frontEnds'
                         /\ arthBalance'[b] = 0

Redeeming ==
  /\ NoTokenBusiness
  /\ now' # now => now' = BOOTSTRAP_PERIOD
  /\ openings' <= 3
  /\ \A b \in Borrowers :
       IF Opens(b) THEN /\ now = BOOTSTRAP_PERIOD
                        /\ Troves'[b].coll = 300 /\ arthBalance'[b] = 0
                   ELSE Troves'[b] # Troves[b] => IsRedemption \/ LiquidatedNow(b)

Fees ==
  /\ NoTokenBusiness
  /\ price' = price
  /\ openings' <= 1
  /\ activePool'.ARTHDebt <= 420
  /\ \A b \in Borrowers :
       IF Opens(b) THEN Troves'[b].coll = 340 /\ arthBalance'[b] = 0
                   ELSE Troves'[b].coll = Troves[b].coll \/ IsRedemption

InSlice ==
  /\ CASE slice = "liquidating" -> TRUE
       [] slice = "adjusting"   -> Adjusting
       [] slice = "token"       -> TokenBusiness
       [] slice = "redeeming"   -> Redeeming
       [] slice = "fees"        -> Fees
  /\ UNCHANGED slice

(* The disjuncts of Next, each within the slice. *)
MCNext ==
  \/ \E b \in Borrowers : OpenForSelf(b) /\ InSlice
  \/ \E b \in Borrowers : OpenForOther(b) /\ InSlice
  \/ \E b \in Borrowers : Adjust(b) /\ InSlice
  \/ \E b \in Borrowers : Close(b) /\ InSlice
  \/ \E b \in Borrowers : Claim(b) /\ InSlice
  \/ \E a \in Borrowers \cup {Owner} : Deposit(a) /\ InSlice
  \/ \E b \in Borrowers : Withdraw(b) /\ InSlice
  \/ \E b \in Borrowers : GainToTrove(b) /\ InSlice
  \/ LiquidateStep /\ InSlice
  \/ RedeemStep /\ InSlice
  \/ \E a \in FrontEndAddresses : Register(a) /\ InSlice
  \/ \E value \in MintSwitches : SetAllowMinting(value) /\ InSlice
  \/ \E value \in Ceilings : SetMaxDebtCeiling(value) /\ InSlice
  \/ AnyTransfer /\ InSlice
  \/ \E p \in Prices : SetPrice(p) /\ InSlice
  \/ \E seconds \in TimeSteps : Tick(seconds) /\ InSlice

MCSpec == MCInit /\ [][MCNext]_<<vars, slice>>
==============================================================================
