------------------------ MODULE AutoOptimizationLoop ------------------------
(***************************************************************************)
(* AutoOptimizationLoopDriver.run (agents/auto_optimization_loop.py): one  *)
(* process at a time loads the persisted ASHA study, claims the assignment *)
(* ASHA hands out, trains it in a child run, reports what the child left   *)
(* on disk, and saves the study.  The process may die anywhere; the study  *)
(* file and the child runs survive it.                                     *)
(*                                                                         *)
(* Not modelled: the certification and objective gates that end a process  *)
(* before it touches the study (their effect is that of Die), dry runs,    *)
(* assignment shadows, and which round index a child run has.  A child run *)
(* is identified with the assignment bound to it.                          *)
(***************************************************************************)
EXTENDS AshaScheduler

CONSTANTS
  FpsOf,         \* [Ids -> SUBSET Fps]: the payloads a candidate's recipe evolves through
  Measurements,  \* what the evidence of a finished training can amount to
  FailureCauses  \* why a candidate's training can fail

ASSUME DriverAssumption ==
  /\ FpsOf \in [Ids -> SUBSET Fps]
  /\ Measurements \subseteq [kind : {"partial", "complete"}, delta : Int,
                            gate : {"pass", "fail"}, improved : BOOLEAN]
  /\ FailureCauses \subseteq Causes \ {"none"}

VARIABLES
  study,    \* the scheduler of the running process
  disk,     \* asha_state.yaml
  pc,       \* where the process is
  confirm,  \* full_run_authorized of the running process
  current,  \* the assignment being trained
  child     \* per assignment, what its child run's directory holds

vars == <<study, disk, pc, confirm, current, child>>

Assignments == Keys \X Slots

(* down: no process.  round: top of the round loop.  train: an assignment  *)
(* is claimed and saved.  plan: inside _run_one_round.  save_go, save_stop:*)
(* the round summary is written and the study is about to be saved, after  *)
(* which the loop goes on or stops.                                        *)
Places == {"down", "round", "train", "plan", "save_go", "save_stop"}

ChildStates == {"empty", "measured", "incomplete", "failed", "control_failed"}
ChildRuns == [state : ChildStates, obs : Observations]
FreshChild == [state |-> "empty", obs |-> NoObs]

TypeOK ==
  /\ study \in Studies
  /\ disk \in Studies
  /\ pc \in Places
  /\ confirm \in BOOLEAN
  /\ current \in Assignments \cup {NoAssignment}
  /\ child \in [Assignments -> ChildRuns]

Init ==
  /\ study = EmptyStudy
  /\ disk = EmptyStudy
  /\ pc = "down"
  /\ confirm = FALSE
  /\ current = NoAssignment
  /\ child = [a \in Assignments |-> FreshChild]

-----------------------------------------------------------------------------
(* _reopen_retryable_resource_assignments, for the failed assignments whose *)
(* child still holds the active queue of another plan: the observation is   *)
(* dropped and the assignment is issued again, unbound.                     *)
Reopenable(s) ==
  {a \in Assignments : /\ s.asg[a].status = "failed" /\ s.asg[a].bound
                       /\ s.trial[a[1]].obs[a[2]].cause = "conflict"}
(* Mutant: the trial is restored but the failed assignment is not reissued.*)
ReopenTrialOnly(s, S) ==
  [s EXCEPT !.trial = [k \in Keys |->
     LET mine == {a \in S : a[1] = k}
         r == s.trial[k]
     IN IF mine = {} THEN r
        ELSE Restored([r EXCEPT !.obs = [slot \in Slots |->
                         IF <<k, slot>> \in S THEN NoObs ELSE @[slot]]],
                      LastIn(s.alist, mine)[2])]]

Reopen(s, S) ==
  [s EXCEPT
    !.asg = [a \in Assignments |->
               IF a \in S THEN [status |-> "issued", bound |-> FALSE] ELSE s.asg[a]],
    !.trial = [k \in Keys |->
                 LET mine == {a \in S : a[1] = k}
                     r == s.trial[k]
                 IN IF mine = {} THEN r
                    ELSE Restored([r EXCEPT !.adapter = FALSE,
                                            !.obs = [slot \in Slots |->
                                               IF <<k, slot>> \in S THEN NoObs ELSE @[slot]]],
                                  LastIn(s.alist, mine)[2])]]

(* A process starts: load (and quarantine), reopen and save if anything was *)
(* reopened, then ask ASHA once to find the round to start from.            *)
Start ==
  /\ pc = "down"
  /\ \E c \in BOOLEAN, S \in SUBSET Reopenable(Quarantine(disk)) :
       \E loaded \in {Reopen(Quarantine(disk), S)} :
         /\ disk' = IF S = {} THEN disk ELSE loaded
         /\ study' = NextAssignment(loaded, c).study
         /\ confirm' = c
  /\ pc' = "round"
  /\ UNCHANGED <<current, child>>

(* The observation _asha_observation builds from the child's evidence: at  *)
(* pilot_3 the diagnosis gate is not evaluated.                            *)
Observed(slot, m, f) ==
  [kind |-> m.kind, cause |-> "none", delta |-> m.delta, fp |-> f,
   gate |-> IF slot = "pilot_3" THEN "none" ELSE m.gate,
   improved |-> slot # "pilot_3" /\ m.improved]
FailedObs(cause, f) == [NoObs EXCEPT !.kind = "failed", !.cause = cause, !.fp = f]

ChildOf(o) == [state |-> IF o.kind = "complete" THEN "measured" ELSE "incomplete", obs |-> o]

(* _recover_blocked_asha_evidence_round: a blocked round is measured again *)
(* from its checkpoints and reported, before ASHA is asked for work.       *)
RecoverEvidence ==
  /\ pc = "round"
  /\ \E a \in Assignments, m \in Measurements :
       LET o == Observed(a[2], m, child[a].obs.fp) IN
       /\ child[a].state = "incomplete"
       /\ study.asg[a].status # "none"
       /\ study' = Report(study, a[1], a[2], o)
       /\ child' = [child EXCEPT ![a] = ChildOf(o)]
       /\ pc' = IF m.kind = "complete" THEN "save_go" ELSE "save_stop"
  /\ UNCHANGED <<disk, confirm, current>>

(* next_assignment, mark_running and the save that precede the training.   *)
(* An unbound assignment gets a fresh child run.                           *)
Claim ==
  /\ pc = "round"
  /\ \E next \in {NextAssignment(study, confirm)} :
       LET a == next.assignment
           resumed == study.asg[a].status \in Outstanding /\ study.asg[a].bound
       IN
       /\ a # NoAssignment
       /\ CanRun(next.study, a)
       /\ study' = MarkRunning(next.study, a)
       /\ child' = IF resumed THEN child ELSE [child EXCEPT ![a] = FreshChild]
       /\ current' = a
  /\ disk' = study'
  /\ pc' = "train"
  /\ UNCHANGED confirm

-----------------------------------------------------------------------------
(***************************************************************************)
(* How child.run_training_loop ends.  What the child run already holds is  *)
(* not redone: a measured child is measured alike, a failed queue stays    *)
(* failed.                                                                 *)
(***************************************************************************)
Payload == study.trial[current[1]].fp

TrainingCompletes ==
  /\ pc = "train"
  /\ \E m \in Measurements :
       LET o == Observed(current[2], m, Payload) IN
       /\ \/ child[current].state \in {"empty", "incomplete"}
          \/ child[current].state = "measured" /\ child[current].obs = o
       /\ child' = [child EXCEPT ![current] = ChildOf(o)]
       /\ study' = Report(study, current[1], current[2], o)
       /\ pc' = IF m.kind = "complete" THEN "save_go" ELSE "save_stop"
  /\ current' = NoAssignment
  /\ UNCHANGED <<disk, confirm>>

(* An isolated candidate failure lets the loop go on, any other stops it.  *)
CandidateFails ==
  /\ pc = "train"
  /\ \E cause \in FailureCauses :
       LET o == FailedObs(cause, Payload) IN
       /\ \/ child[current].state = "empty"
          \/ child[current].state = "failed" /\ child[current].obs.cause = cause
       /\ child' = [child EXCEPT ![current] = [state |-> "failed", obs |-> o]]
       /\ study' = Report(study, current[1], current[2], o)
       /\ pc' = IF cause = "conflict" THEN "save_stop" ELSE "save_go"
  /\ current' = NoAssignment
  /\ UNCHANGED <<disk, confirm>>

(* The matched control failed: with a control plan the whole protocol is   *)
(* blocked and nothing is reported, without one the candidate fails.       *)
ControlFails ==
  /\ pc = "train"
  /\ child[current].state \in {"empty", "control_failed"}
  /\ LET plan == study.trial[current[1]].plan
         o == FailedObs("training", Payload)
     IN /\ study' = IF plan # NoPlan THEN FailMatchedControl(study, plan)
                    ELSE Report(study, current[1], current[2], o)
        /\ child' = [child EXCEPT ![current] = [state |-> "control_failed", obs |-> o]]
  /\ pc' = "save_stop"
  /\ current' = NoAssignment
  /\ UNCHANGED <<disk, confirm>>

(* A recoverable infrastructure failure: resource_recovery_pending.        *)
ResourceRecoveryPending ==
  /\ pc = "train"
  /\ child[current].state = "empty"
  /\ pc' = "save_stop"
  /\ current' = NoAssignment
  /\ UNCHANGED <<study, disk, confirm, child>>

(* asha_store.save after the round; the last requested round also stops.   *)
Save ==
  /\ pc \in {"save_go", "save_stop"}
  /\ disk' = study
  /\ pc' \in IF pc = "save_go" THEN {"round", "down"} ELSE {"down"}
  /\ confirm' = (confirm /\ pc' = "round")
  /\ UNCHANGED <<study, current, child>>

-----------------------------------------------------------------------------
(***************************************************************************)
(* A round with nothing to allocate plans candidates (_run_one_round and   *)
(* _register_asha_trials): each one is registered or, when a gate or the   *)
(* presence of adapter candidates defers it, pre-registered.               *)
(***************************************************************************)
StartPlanning ==
  /\ pc = "round"
  /\ NextAssignment(study, confirm).assignment = NoAssignment
  /\ study' = NextAssignment(study, confirm).study
  /\ pc' = "plan"
  /\ UNCHANGED <<disk, confirm, current, child>>

RegisterCandidate ==
  /\ pc = "plan"
  /\ \E i \in Ids : \E f \in FpsOf[i] :
       CanRegister(study, i, f) /\ study' = Register(study, i, f)
  /\ UNCHANGED <<disk, pc, confirm, current, child>>

BlockCandidate ==
  /\ pc = "plan"
  /\ \E i \in Ids : \E f \in FpsOf[i], authorized \in {TRUE, i \notin Paper} :
       study' = PreRegister(study, i, f, authorized)
  /\ UNCHANGED <<disk, pc, confirm, current, child>>

EndPlanning ==
  /\ pc = "plan"
  /\ pc' \in {"save_go", "save_stop"}
  /\ UNCHANGED <<study, disk, confirm, current, child>>

(* The process ends or is killed without another save.                     *)
Die ==
  /\ pc # "down"
  /\ study' = disk
  /\ pc' = "down"
  /\ current' = NoAssignment
  /\ confirm' = FALSE
  /\ UNCHANGED <<disk, child>>

Next ==
  \/ Start \/ RecoverEvidence \/ Claim
  \/ TrainingCompletes \/ CandidateFails \/ ControlFails \/ ResourceRecoveryPending
  \/ Save
  \/ StartPlanning \/ RegisterCandidate \/ BlockCandidate \/ EndPlanning
  \/ Die

Spec == Init /\ [][Next]_vars

(***************************************************************************)
(* The operator reruns the command whenever it ended, and neither crashes  *)
(* nor infrastructure retries go on for ever: a training and a save that   *)
(* are started again and again end some time.                              *)
(***************************************************************************)
TrainingEnds == TrainingCompletes \/ CandidateFails \/ ControlFails
Fairness ==
  /\ WF_vars(Start)
  /\ SF_vars(RecoverEvidence) /\ SF_vars(Claim)
  /\ SF_vars(TrainingEnds)
  /\ SF_vars(Save)
  /\ WF_vars(EndPlanning)
FairSpec == Spec /\ Fairness

-----------------------------------------------------------------------------
(***************************************************************************)
(* What the scheduler and its driver promise together.                     *)
(***************************************************************************)

(* A trial is confirmed only on three gated, positive full runs whose      *)
(* confidence interval excludes zero, whatever evidence recovery,          *)
(* re-registration, reopening or crash came in between: no step of another *)
(* kind makes a trial "confirmed", and none takes the evidence from under  *)
(* a confirmed trial.                                                      *)
Positive(o) == o.delta > 0 /\ o.gate = "pass"
Earned(r) ==
  /\ \A slot \in FullSlots : Positive(r.obs[slot])
  /\ IntervalPositive([slot \in FullSlots |-> r.obs[slot].delta])
EarnedIn(s) == \A k \in Keys : s.trial[k].status = "confirmed" => Earned(s.trial[k])
ConfirmedIsEarned == EarnedIn(study) /\ EarnedIn(disk)

(* _finish_confirmation looks at the deltas and gates of the other seeds,  *)
(* not at their completeness; still no partial measurement ever counts     *)
(* towards a confirmation.                                                 *)
Passed(o) == o.kind = "complete" /\ Positive(o)
ConfirmedIsVerified ==
  \A k \in Keys : study.trial[k].status = "confirmed" =>
    \A slot \in FullSlots : study.trial[k].obs[slot].kind = "complete"

PassedSlots(s, k) ==
  {slot \in Slots :
     LET o == s.trial[k].obs[slot] IN
     CASE slot = "pilot_3"  -> o.kind = "complete" /\ o.delta >= Floor(k)
       [] slot = "pilot_10" -> Passed(o) /\ o.improved
       [] OTHER             -> Passed(o)}
AllocatedSlots(s, k) == {slot \in Slots : s.asg[<<k, slot>>].status # "none"}
SlotsBelow ==
  [slot \in Slots |->
     CASE slot = "pilot_3"  -> {}
       [] slot = "pilot_10" -> {"pilot_3"}
       [] slot = "full_1"   -> {"pilot_3", "pilot_10"}
       [] OTHER             -> {"pilot_3", "pilot_10", "full_1"}]

(* The saved study implements the abstract budget ladder: a rung is        *)
(* allocated only above complete and passing evidence ("Allocate later     *)
(* budgets only after enough lower-rung evidence exists"), and neither an  *)
(* allocation nor passing evidence is ever lost between two saves.         *)
Ladder == INSTANCE BudgetLadder WITH
  Trials    <- Keys,
  Rungs     <- Slots,
  Below     <- SlotsBelow,
  Top       <- Slots,
  AtOnce    <- FALSE,
  granted   <- [k \in Keys |-> AllocatedSlots(disk, k)],
  passed    <- [k \in Keys |-> PassedSlots(disk, k)],
  confirmed <- {k \in Keys : disk.trial[k].status = "confirmed"}
ImplementsBudgetLadder == Ladder!Spec

(* A running trial is executed by a claimed assignment of its own stage:   *)
(* no crash, deferral or re-registration leaves a trial running with       *)
(* nothing that could finish it.                                           *)
ExecutedIn(s) ==
  \A k \in Keys : s.trial[k].status = "running" =>
    \E slot \in Slots : /\ StageOf(slot) = s.trial[k].pending
                        /\ s.asg[<<k, slot>>] = [status |-> "running", bound |-> TRUE]
RunningIsExecuted == ExecutedIn(study) /\ ExecutedIn(disk)

(* A measurement a child run finished for a claimed assignment is in the   *)
(* saved study, or the saved study can still hand out the assignment that  *)
(* will report it.  A partial observation is the exception: a process that *)
(* dies between the summary of its recovery and the save loses it.         *)
RecordedOrRecoverable(a) ==
  \/ disk.trial[a[1]].obs[a[2]] = child[a].obs
  \/ disk.asg[a].status \in Outstanding \cup {"deferred"}
MeasurementIsNotLost ==
  \A a \in Assignments :
    child[a].state = "measured" =>
      RecordedOrRecoverable(a) \/ disk.trial[a[1]].obs[a[2]].kind = "partial"

(* next_assignment never hands out an assignment that mark_running refuses *)
(* as consumed (the RuntimeError would kill the driver every time).        *)
AllocationIsClaimable ==
  pc = "round" =>
    LET next == NextAssignment(study, confirm) IN
    next.assignment # NoAssignment => CanRun(next.study, next.assignment)

(* "Completed allocations are never reissued": on disk a completed         *)
(* assignment stays completed for ever.                                    *)
CompletedIsFinal ==
  [][\A a \in Assignments :
       disk.asg[a].status = "completed" => disk'.asg[a].status = "completed"]_disk

(* Full budgets are trained only by a process whose full run is authorized,*)
(* also when they were allocated by an earlier, authorized process.        *)
FullBudgetIsAuthorized ==
  [][\A a \in Keys \X FullSlots : current' = a /\ current # a => confirm]_vars

(* "Live trials must never have their identity hijacked by a different     *)
(* payload": whatever is registered, blocked, quarantined or failed between*)
(* two saves, a live adapter-backed trial keeps the payload it trains.     *)
(* The exception is a trial whose source node was never admitted (it was   *)
(* activated by another candidate with the same payload): the next process *)
(* quarantines it and a registration may then refresh it.                  *)
LiveIsNotHijacked ==
  [][\A k \in Keys :
       IsPaper(k) /\ disk.trial[k].status \in Runnable /\ disk.trial[k].src
       => disk'.trial[k].fp = disk.trial[k].fp]_disk

(* The circuit breaker keeps "a paper candidate whose adapter keeps        *)
(* failing" out of the queue: once BreakerLimit of its trials have failed, *)
(* a further one becomes live only through work that was allocated to it   *)
(* before: an assignment handed out again or reopened, or evidence that    *)
(* was recovered for it; never by registration or activation.              *)
AllocatedBefore(k) ==
  \E slot \in Slots :
    /\ disk.asg[<<k, slot>>].status # "none"
    /\ \/ disk'.asg[<<k, slot>>].status \in Outstanding
       \/ disk'.trial[k].obs[slot] # disk.trial[k].obs[slot]
BreakerStaysOpen ==
  [][\A k \in Keys :
       /\ IsPaper(k) /\ disk.trial[k].status \notin Runnable
       /\ Cardinality(AdapterFailures(disk', k)) >= BreakerLimit
       => disk'.trial[k].status \notin Runnable \/ AllocatedBefore(k)]_disk

(* An execution fingerprint has a "single trial identity": while a process *)
(* runs, no step gives a trial of an adapter-backed candidate a payload    *)
(* that another such trial, live or terminal, carries already, except that *)
(* a pre-registered trial is refreshed in place without that look-up.      *)
SamePayload(s, k, m) == s.trial[k].fp = s.trial[m].fp /\ {k, m} \subseteq Registered(s)
Refreshed(k) ==
  study.trial[k].ready = "pre_registered" /\ study'.trial[k].fp # study.trial[k].fp
OneTrialPerPayload ==
  [][\A k, m \in Keys :
       /\ IsPaper(k) /\ IsPaper(m) /\ k # m /\ pc # "down" /\ pc' # "down"
       /\ (SamePayload(study, k, m))'
       => SamePayload(study, k, m) \/ Refreshed(k) \/ Refreshed(m)]_vars

(* pilot_3 is a cohort ranking: a trial is promoted for the first time     *)
(* only once no waiting trial of its cohort still owes its pilot_3 result, *)
(* and never ahead of a waiting trial of its cohort with a better complete *)
(* one.  (A process that starts or dies falls back to the saved statuses   *)
(* and promotes nothing; a partial result does not compete.)               *)
FirstPromotion(k) ==
  /\ pc # "down" /\ pc' # "down"
  /\ study.trial[k].status # "promotion_pending"
  /\ study'.trial[k].status = "promotion_pending"
  /\ study'.asg[<<k, "pilot_10">>].status = "none"
CohortIsRanked ==
  [][\A k, m \in Keys :
       (FirstPromotion(k) /\ IsPaper(k) = IsPaper(m) /\ study'.trial[m].status = "waiting")
       => /\ Pilot(study', m).kind # "none"
          /\ Pilot(study', m).kind = "complete" /\ study'.trial[m].obs["pilot_10"].kind = "none"
               => Pilot(study', m).delta =< Pilot(study', k).delta]_vars

(* A saved pilot allocation is followed by a saved result, however often   *)
(* the process is killed, its machine is short of resources or its evidence*)
(* stays partial, unless the trial is blocked first.                       *)
PilotIsDecided ==
  \A k \in Keys : \A slot \in Slots \ FullSlots :
    disk.asg[<<k, slot>>].status \in Outstanding
      ~> \/ disk.trial[k].obs[slot].kind # "none"
         \/ disk.trial[k].status = "needs_evidence"
=============================================================================
