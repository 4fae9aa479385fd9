----------------------------- MODULE BudgetLadder -----------------------------
(***************************************************************************)
(* What the ASHA budget authority promises, whatever the cohorts, retries, *)
(* preemptions and crashes: a rung is granted to a trial only once the     *)
(* trial has passed every rung below it, only a granted rung is passed,    *)
(* and only a trial that passed every full-budget rung is confirmed.       *)
(* AutoOptimizationLoop implements this specification with what the saved  *)
(* study says, RoundPlan with what the round plan says; one save may grant *)
(* and pass rungs of several trials.                                       *)
(***************************************************************************)
CONSTANTS
  Trials,
  Rungs,
  Below,    \* [Rungs -> SUBSET Rungs]: the rungs to pass first
  Top,      \* the rungs a confirmed trial has passed
  AtOnce    \* whether the step that passes a rung may grant the next

VARIABLES
  granted,   \* [Trials -> SUBSET Rungs]
  passed,    \* [Trials -> SUBSET Rungs]
  confirmed  \* SUBSET Trials

vars == <<granted, passed, confirmed>>

TypeOK ==
  /\ granted \in [Trials -> SUBSET Rungs]
  /\ passed \in [Trials -> SUBSET Rungs]
  /\ confirmed \in SUBSET Trials

Init ==
  /\ granted = [t \in Trials |-> {}]
  /\ passed = [t \in Trials |-> {}]
  /\ confirmed = {}

(* Grants and passes are never taken back.                                 *)
Grant(t) ==
  /\ granted[t] \subseteq granted'[t]
  /\ \A r \in granted'[t] \ granted[t] : Below[r] \subseteq IF AtOnce THEN passed'[t] ELSE passed[t]

Pass(t) ==
  /\ passed[t] \subseteq passed'[t]
  /\ passed'[t] \ passed[t] \subseteq granted'[t]

(* A confirmation may be withdrawn, but is given only at the top.          *)
Confirm(t) == (t \in confirmed' /\ t \notin confirmed) => Top \subseteq passed'[t]

Next ==
  /\ granted' \in [Trials -> SUBSET Rungs]
  /\ passed' \in [Trials -> SUBSET Rungs]
  /\ confirmed' \in SUBSET Trials
  /\ \A t \in Trials : Grant(t) /\ Pass(t) /\ Confirm(t)

Spec == Init /\ [][Next]_vars

-----------------------------------------------------------------------------
(* Whoever holds a rung has passed everything below it, whoever passed a   *)
(* rung held it, and whoever is confirmed has passed the top.              *)
Climbed == \A t \in Trials : \A r \in granted[t] : Below[r] \subseteq passed[t]
PassedWereGranted == \A t \in Trials : passed[t] \subseteq granted[t]
ConfirmedAtTheTop == \A t \in confirmed : Top \subseteq passed[t]
LadderInv == TypeOK /\ Climbed /\ PassedWereGranted /\ ConfirmedAtTheTop
=============================================================================
