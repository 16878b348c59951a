------------------------------- MODULE MCLibBase -------------------------------
(***************************************************************************)
(* lib-base: the store and the arithmetic.  They share no state, and are   *)
(* explored one after the other: the store once the rate of zero has       *)
(* decayed to the end of the clock, where the arithmetic has no more steps.*)
(***************************************************************************)
EXTENDS ARTHStore, MCArithmetic

arithmeticVars == <<decayVars, troveVars>>

Store(step) == step /\ factor = 0 /\ minutes = MaxMinutes /\ UNCHANGED arithmeticVars
Arithmetic(step) == step /\ UNCHANGED vars

(* The disjuncts of both next-state relations.                             *)
MCNext ==
  \/ Store(Start)
  \/ Store(Stop)
  \/ Store(NewBlock)
  \/ \E fetch \in fetches : Store(FetchAnswers(fetch))
  \/ \E fetch \in fetches : Store(FetchFails(fetch))
  \/ Store(TimerFires)
  \/ \E d \in derivations : Store(DeriveAnswers(d))
  \/ \E d \in derivations : Store(DeriveFails(d))
  \/ Arithmetic(MinutePasses)
  \/ \E that \in WantedTroves : Arithmetic(ChangeTo(that))

MCInit == Init /\ ArithmeticInit

MCSpec == MCInit /\ [][MCNext]_<<vars, arithmeticVars>> /\ Fairness
===============================================================================
