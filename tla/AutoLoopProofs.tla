---------------------------- MODULE AutoLoopProofs ----------------------------
(***************************************************************************)
(* Invariants and action properties of AutoOptimizationLoop, for any number*)
(* of candidates, payloads and measurements, from the inductive invariant  *)
(* IInv.  What is said of the identity of trials needs IdInv besides.      *)
(***************************************************************************)
EXTENDS AshaSchedulerProofs

(* A process trains the assignment it claimed.                             *)
TrainsItsClaim ==
  pc = "train" => current \in Assignments /\ study.asg[current].status = "running"

(* The running scheduler knows of every completion the file knows of.      *)
CompletionsAreLoaded ==
  \A a \in Assignments : disk.asg[a].status = "completed" => study.asg[a].status = "completed"

Typed ==
  /\ pc \in Places
  /\ confirm \in BOOLEAN
  /\ current \in Assignments \cup {NoAssignment}
  /\ child \in [Assignments -> ChildRuns]

IInv ==
  /\ Typed
  /\ Sound(study) /\ Sound(disk)
  /\ TrainsItsClaim
  /\ CompletionsAreLoaded

-----------------------------------------------------------------------------
LEMMA ObservedIsObservation ==
  ASSUME NEW slot \in Slots, NEW m \in Measurements, NEW f \in Fps \cup {Base}
  PROVE  /\ Observed(slot, m, f) \in Observations
         /\ Observed(slot, m, f).kind \in {"partial", "complete"}
  <1>1. m \in [kind : {"partial", "complete"}, delta : Int, gate : {"pass", "fail"},
               improved : BOOLEAN]
    BY DriverAssumption
  <1>2. /\ m.kind \in {"partial", "complete"} /\ m.delta \in Int
        /\ m.gate \in {"pass", "fail"}
    BY <1>1
  <1>3. (slot # "pilot_3" /\ m.improved) \in BOOLEAN
    OBVIOUS
  <1>4. (IF slot = "pilot_3" THEN "none" ELSE m.gate) \in Gates
    BY <1>2 DEF Gates
  <1> QED BY <1>2, <1>3, <1>4 DEF Observed, Observations, ObsKinds, Causes

LEMMA FailedIsObservation ==
  ASSUME NEW cause \in FailureCauses \cup {"training"}, NEW f \in Fps \cup {Base}
  PROVE  FailedObs(cause, f) \in Observations /\ FailedObs(cause, f).kind = "failed"
  <1>1. cause \in Causes
    BY DriverAssumption DEF Causes
  <1>2. NoObs \in Observations
    BY DEF NoObs, Observations, ObsKinds, Causes, Gates
  <1>3. "failed" \in ObsKinds
    BY DEF ObsKinds
  <1> QED BY <1>1, <1>2, <1>3 DEF FailedObs, Observations

LEMMA ChildOfIsChildRun ==
  ASSUME NEW o \in Observations PROVE ChildOf(o) \in ChildRuns
  BY DEF ChildOf, ChildRuns, ChildStates

LEMMA Initially == Init => IInv
  <1> SUFFICES ASSUME Init PROVE IInv
    OBVIOUS
  <1>1. FreshChild \in ChildRuns
    BY DEF FreshChild, ChildRuns, ChildStates, NoObs, Observations, ObsKinds, Causes, Gates
  <1>2. Typed
    BY <1>1 DEF Init, Typed, Places
  <1> QED BY <1>2, EmptyIsSound DEF Init, IInv, TrainsItsClaim, CompletionsAreLoaded

-----------------------------------------------------------------------------
(***************************************************************************)
(* One lemma per kind of step.                                             *)
(***************************************************************************)
LEMMA StartStep ==
  ASSUME IInv, Start PROVE IInv'
  <1>1. PICK c \in BOOLEAN, S \in SUBSET Reopenable(Quarantine(disk)) :
          LET loaded == Reopen(Quarantine(disk), S) IN
          /\ disk' = IF S = {} THEN disk ELSE loaded
          /\ study' = NextAssignment(loaded, c).study
          /\ confirm' = c
    BY DEF Start
  <1> DEFINE loaded == Reopen(Quarantine(disk), S)
  <1>2. /\ Sound(loaded)
        /\ \A a \in Assignments : loaded.asg[a] = disk.asg[a] \/ disk.asg[a].status = "failed"
    BY QuarantineIsSound, ReopenIsSound DEF IInv
  <1> HIDE DEF loaded
  <1>3. /\ Sound(study')
        /\ \A a \in Assignments : \/ study'.asg[a] = loaded.asg[a]
                                 \/ loaded.asg[a].status \in {"none", "deferred"} \cup Outstanding
    BY <1>1, <1>2, NextAssignmentIsSound DEF loaded
  <1>4. Sound(disk') /\ (disk' = disk \/ disk' = loaded)
    BY <1>1, <1>2 DEF loaded, IInv
  <1>5. CompletionsAreLoaded'
    BY <1>2, <1>3, <1>4 DEF CompletionsAreLoaded, Outstanding
  <1>6. Typed' /\ TrainsItsClaim'
    BY <1>1 DEF Start, IInv, Typed, Places, TrainsItsClaim
  <1> QED BY <1>3, <1>4, <1>5, <1>6 DEF IInv

LEMMA ClaimStep ==
  ASSUME IInv, Claim
  PROVE  IInv' /\ (current'[2] \in FullSlots => confirm)
  <1> DEFINE next == NextAssignment(study, confirm)
             a == next.assignment
  <1>1. /\ a # NoAssignment /\ CanRun(next.study, a)
        /\ study' = MarkRunning(next.study, a) /\ disk' = study'
        /\ child' = child \/ child' = [child EXCEPT ![a] = FreshChild]
        /\ current' = a /\ pc' = "train" /\ confirm' = confirm
    BY DEF Claim
  <1>2. /\ Sound(next.study) /\ a \in Assignments /\ next.study.asg[a].status # "none"
        /\ a[2] \in FullSlots => confirm
    BY <1>1, NextAssignmentIsSound DEF IInv, Typed
  <1> HIDE DEF next, a
  <1>3. Sound(study') /\ study'.asg[a].status = "running"
    BY <1>1, <1>2, MarkRunningIsSound
  <1>4. CompletionsAreLoaded'
    BY <1>1 DEF CompletionsAreLoaded
  <1>5. child' \in [Assignments -> ChildRuns]
    <2>1. FreshChild \in ChildRuns
      BY DEF FreshChild, ChildRuns, ChildStates, NoObs, Observations, ObsKinds, Causes, Gates
    <2> QED BY <1>1, <2>1 DEF IInv, Typed
  <1>6. Typed' /\ TrainsItsClaim'
    BY <1>1, <1>2, <1>3, <1>5 DEF IInv, Typed, Places, TrainsItsClaim
  <1> QED BY <1>1, <1>2, <1>3, <1>4, <1>6 DEF IInv

(* A step that reports o for the assignment a and does not save.           *)
LEMMA ReportStep ==
  ASSUME IInv, NEW a \in Assignments, NEW o \in Observations,
         study.asg[a].status # "none",
         o.kind # "failed" \/ study.asg[a].status # "completed",
         study' = Report(study, a[1], a[2], o),
         disk' = disk, confirm' = confirm,
         pc' \in {"save_go", "save_stop"},
         current' \in {current, NoAssignment},
         child' \in [Assignments -> ChildRuns]
  PROVE  IInv'
  <1>1. a[1] \in Keys /\ a[2] \in Slots /\ a = <<a[1], a[2]>>
    BY DEF Assignments
  <1>2. /\ Sound(study')
        /\ \A b \in Assignments : study'.asg[b] = study.asg[b] \/ b = a
        /\ study'.asg[a].status = IF o.kind = "failed" THEN "failed" ELSE "completed"
    BY <1>1, ReportIsSound DEF IInv
  <1>3. CompletionsAreLoaded'
    BY <1>2 DEF IInv, CompletionsAreLoaded
  <1>4. Typed' /\ TrainsItsClaim'
    BY DEF IInv, Typed, Places, TrainsItsClaim
  <1> QED BY <1>2, <1>3, <1>4 DEF IInv

LEMMA RecoverEvidenceStep ==
  ASSUME IInv, RecoverEvidence PROVE IInv'
  <1>1. PICK a \in Assignments, m \in Measurements :
          LET o == Observed(a[2], m, child[a].obs.fp) IN
          /\ study.asg[a].status # "none"
          /\ study' = Report(study, a[1], a[2], o)
          /\ child' = [child EXCEPT ![a] = ChildOf(o)]
          /\ pc' = IF m.kind = "complete" THEN "save_go" ELSE "save_stop"
    BY DEF RecoverEvidence
  <1> DEFINE o == Observed(a[2], m, child[a].obs.fp)
  <1>2. o \in Observations /\ o.kind \in {"partial", "complete"}
    <2>1. a[2] \in Slots
      BY DEF Assignments
    <2>2. child[a].obs.fp \in Fps \cup {Base}
      BY DEF IInv, Typed, ChildRuns, Observations
    <2> QED BY <2>1, <2>2, ObservedIsObservation
  <1> HIDE DEF o
  <1>3. child' \in [Assignments -> ChildRuns]
    BY <1>1, <1>2, ChildOfIsChildRun DEF o, IInv, Typed
  <1>4. disk' = disk /\ confirm' = confirm /\ current' = current
    BY DEF RecoverEvidence
  <1> QED BY <1>1, <1>2, <1>3, <1>4, ReportStep DEF o

(* What is being trained has a payload.                                    *)
LEMMA PayloadIsPayload ==
  ASSUME IInv, pc = "train" PROVE Payload \in Fps \cup {Base}
  <1>1. current[1] \in Keys
    BY DEF IInv, TrainsItsClaim, Assignments
  <1>2. study.trial[current[1]] \in TrialRecords
    BY <1>1, SoundTrial DEF IInv
  <1> QED BY <1>2 DEF Payload, TrialRecords

LEMMA TrainingCompletesStep ==
  ASSUME IInv, TrainingCompletes PROVE IInv'
  <1>1. PICK m \in Measurements :
          LET o == Observed(current[2], m, Payload) IN
          /\ child' = [child EXCEPT ![current] = ChildOf(o)]
          /\ study' = Report(study, current[1], current[2], o)
          /\ pc' = IF m.kind = "complete" THEN "save_go" ELSE "save_stop"
    BY DEF TrainingCompletes
  <1> DEFINE o == Observed(current[2], m, Payload)
  <1>2. /\ pc = "train" /\ disk' = disk /\ confirm' = confirm /\ current' = NoAssignment
        /\ current \in Assignments /\ study.asg[current].status = "running"
    BY DEF TrainingCompletes, IInv, TrainsItsClaim
  <1>3. o \in Observations
    <2>1. current[2] \in Slots
      BY <1>2 DEF Assignments
    <2> QED BY <1>2, <2>1, PayloadIsPayload, ObservedIsObservation
  <1> HIDE DEF o
  <1>4. child' \in [Assignments -> ChildRuns]
    BY <1>1, <1>3, ChildOfIsChildRun DEF o, IInv, Typed
  <1> QED BY <1>1, <1>2, <1>3, <1>4, ReportStep DEF o

LEMMA CandidateFailsStep ==
  ASSUME IInv, CandidateFails PROVE IInv'
  <1>1. PICK cause \in FailureCauses :
          LET o == FailedObs(cause, Payload) IN
          /\ child' = [child EXCEPT ![current] = [state |-> "failed", obs |-> o]]
          /\ study' = Report(study, current[1], current[2], o)
          /\ pc' = IF cause = "conflict" THEN "save_stop" ELSE "save_go"
    BY DEF CandidateFails
  <1> DEFINE o == FailedObs(cause, Payload)
  <1>2. /\ pc = "train" /\ disk' = disk /\ confirm' = confirm /\ current' = NoAssignment
        /\ current \in Assignments /\ study.asg[current].status = "running"
    BY DEF CandidateFails, IInv, TrainsItsClaim
  <1>3. o \in Observations
    BY <1>2, PayloadIsPayload, FailedIsObservation
  <1> HIDE DEF o
  <1>4. child' \in [Assignments -> ChildRuns]
    BY <1>1, <1>3 DEF o, IInv, Typed, ChildRuns, ChildStates
  <1> QED BY <1>1, <1>2, <1>3, <1>4, ReportStep DEF o

(* A step that changes the running study only, and none of its assignments.*)
LEMMA StudyStep ==
  ASSUME IInv, Sound(study'), study'.asg = study.asg,
         disk' = disk, confirm' = confirm,
         pc' \in Places \ {"train"},
         current' \in {current, NoAssignment},
         child' \in [Assignments -> ChildRuns]
  PROVE  IInv'
  BY DEF IInv, Typed, TrainsItsClaim, CompletionsAreLoaded

LEMMA ControlFailsStep ==
  ASSUME IInv, ControlFails PROVE IInv'
  <1> DEFINE plan == study.trial[current[1]].plan
             o == FailedObs("training", Payload)
  <1>1. /\ pc = "train" /\ disk' = disk /\ confirm' = confirm /\ current' = NoAssignment
        /\ current \in Assignments /\ study.asg[current].status = "running"
        /\ pc' = "save_stop"
        /\ child' = [child EXCEPT ![current] = [state |-> "control_failed", obs |-> o]]
        /\ study' = IF plan # NoPlan THEN FailMatchedControl(study, plan)
                    ELSE Report(study, current[1], current[2], o)
    BY DEF ControlFails, IInv, TrainsItsClaim
  <1> HIDE DEF plan, o
  <1>2. o \in Observations
    BY <1>1, PayloadIsPayload, FailedIsObservation DEF o
  <1>3. child' \in [Assignments -> ChildRuns]
    BY <1>1, <1>2 DEF IInv, Typed, ChildRuns, ChildStates
  <1>4. CASE plan # NoPlan
    <2>1. Sound(study') /\ study'.asg = study.asg
      BY <1>1, <1>4, FailMatchedControlIsSound DEF IInv
    <2> QED BY <1>1, <1>3, <2>1, StudyStep DEF Places
  <1>5. CASE plan = NoPlan
    BY <1>1, <1>2, <1>3, <1>5, ReportStep
  <1> QED BY <1>4, <1>5

LEMMA SaveStep ==
  ASSUME IInv, Save PROVE IInv'
  <1>1. pc' \in {"round", "down"} /\ disk' = study /\ study' = study
    BY DEF Save
  <1>2. confirm' \in BOOLEAN
    BY DEF Save
  <1> QED BY <1>1, <1>2 DEF Save, IInv, Typed, Places, TrainsItsClaim, CompletionsAreLoaded

LEMMA PlanningStep ==
  ASSUME IInv, StartPlanning \/ RegisterCandidate \/ BlockCandidate \/ EndPlanning
  PROVE  IInv'
  <1>1. CASE StartPlanning
    <2>1. /\ Sound(study')
          /\ \A a \in Assignments : \/ study'.asg[a] = study.asg[a]
                                   \/ study.asg[a].status \in {"none", "deferred"} \cup Outstanding
      BY <1>1, NextAssignmentIsSound DEF StartPlanning, IInv, Typed
    <2>2. CompletionsAreLoaded'
      BY <1>1, <2>1 DEF StartPlanning, IInv, CompletionsAreLoaded, Outstanding
    <2> QED BY <1>1, <2>1, <2>2 DEF StartPlanning, IInv, Typed, Places, TrainsItsClaim
  <1>2. CASE RegisterCandidate
    <2>1. PICK i \in Ids : \E f \in FpsOf[i] : study' = Register(study, i, f)
      BY <1>2 DEF RegisterCandidate
    <2>2. PICK f \in Fps : study' = Register(study, i, f)
      BY <2>1, DriverAssumption
    <2>3. Sound(study') /\ study'.asg = study.asg
      BY <2>2, RegisterIsSound DEF IInv
    <2> QED BY <1>2, <2>3, StudyStep DEF RegisterCandidate, IInv, Typed, Places
  <1>3. CASE BlockCandidate
    <2>1. PICK i \in Ids, src \in BOOLEAN : \E f \in FpsOf[i] : study' = PreRegister(study, i, f, src)
      BY <1>3 DEF BlockCandidate
    <2>2. PICK f \in Fps : study' = PreRegister(study, i, f, src)
      BY <2>1, DriverAssumption
    <2>3. Sound(study') /\ study'.asg = study.asg
      BY <2>2, PreRegisterIsSound DEF IInv
    <2> QED BY <1>3, <2>3, StudyStep DEF BlockCandidate, IInv, Typed, Places
  <1>4. CASE EndPlanning
    BY <1>4, StudyStep DEF EndPlanning, IInv, Typed, Places
  <1> QED BY <1>1, <1>2, <1>3, <1>4

LEMMA DieStep ==
  ASSUME IInv, Die PROVE IInv'
  BY DEF Die, IInv, Typed, Places, TrainsItsClaim, CompletionsAreLoaded

LEMMA Inductive == IInv /\ [Next]_vars => IInv'
  <1> SUFFICES ASSUME IInv, [Next]_vars PROVE IInv'
    OBVIOUS
  <1>1. CASE ResourceRecoveryPending
    BY <1>1, StudyStep DEF ResourceRecoveryPending, IInv, Typed, Places
  <1>2. CASE UNCHANGED vars
    BY <1>2 DEF vars, IInv, Typed, TrainsItsClaim, CompletionsAreLoaded
  <1> QED BY <1>1, <1>2, StartStep, RecoverEvidenceStep, ClaimStep, TrainingCompletesStep,
             CandidateFailsStep, ControlFailsStep, SaveStep, PlanningStep, DieStep DEF Next

LEMMA Invariance == Spec => []IInv
  BY Initially, Inductive, PTL DEF Spec

-----------------------------------------------------------------------------
(***************************************************************************)
(* The properties.                                                         *)
(***************************************************************************)

(* Study, file, control state and child runs keep their types: every       *)
(* conversion of the scheduler and the driver stays inside them.           *)
THEOREM TypeCorrectness == Spec => []TypeOK
  <1>1. IInv => TypeOK
    BY DEF IInv, Typed, Sound, TypeOK
  <1> QED BY <1>1, Invariance, PTL

(* Whatever recovery, reopening, re-registration or crash does in between, *)
(* a trial that is confirmed in memory or in asha_state.yaml has three     *)
(* positive, gated full runs whose confidence interval excludes zero.      *)
THEOREM ConfirmationIsEarned == Spec => []ConfirmedIsEarned
  <1>1. IInv => ConfirmedIsEarned
    BY DEF IInv, Sound, ConfirmedIsEarned
  <1> QED BY <1>1, Invariance, PTL

(* No trial is left running without the claimed assignment of its stage.   *)
THEOREM RunningTrialsAreExecuted == Spec => []RunningIsExecuted
  <1>1. IInv => RunningIsExecuted
    BY DEF IInv, Sound, RunningIsExecuted
  <1> QED BY <1>1, Invariance, PTL

LEMMA CompletedStays ==
  ASSUME IInv, IInv', [Next]_vars, NEW a \in Assignments, disk.asg[a].status = "completed"
  PROVE  disk'.asg[a].status = "completed"
  <1>1. CASE Start
    <2>1. PICK S \in SUBSET Reopenable(Quarantine(disk)) :
            disk' = disk \/ disk' = Reopen(Quarantine(disk), S)
      BY <1>1 DEF Start
    <2>2. /\ Sound(Quarantine(disk)) /\ Quarantine(disk).asg = disk.asg
      BY QuarantineIsSound DEF IInv
    <2>3. Reopen(Quarantine(disk), S).asg[a] = disk.asg[a]
      BY <2>2, ReopenIsSound
    <2> QED BY <2>1, <2>3
  <1>2. CASE Claim
    <2> DEFINE next == NextAssignment(study, confirm)
               b == next.assignment
    <2>1. b # NoAssignment /\ CanRun(next.study, b) /\ disk' = MarkRunning(next.study, b)
      BY <1>2 DEF Claim
    <2>2. /\ Sound(next.study) /\ b \in Assignments /\ next.study.asg[b].status # "none"
          /\ next.study.asg[a].status = "completed"
      <3>1. Sound(study) /\ confirm \in BOOLEAN
        BY DEF IInv, Typed
      <3>2. study.asg[a].status = "completed"
        BY DEF IInv, CompletionsAreLoaded
      <3>3. \/ next.study.asg[a] = study.asg[a]
            \/ study.asg[a].status \in {"none", "deferred"} \cup Outstanding
        BY <3>1, NextAssignmentIsSound
      <3>4. Sound(next.study) /\ b \in Assignments /\ next.study.asg[b].status # "none"
        BY <2>1, <3>1, NextAssignmentIsSound
      <3> QED BY <3>2, <3>3, <3>4 DEF Outstanding
    <2>3. b # a
      BY <2>1, <2>2 DEF CanRun
    <2> HIDE DEF next, b
    <2> QED BY <2>1, <2>2, <2>3, MarkRunningIsSound
  <1>3. CASE Save
    BY <1>3 DEF Save, IInv, CompletionsAreLoaded
  <1>4. CASE disk' = disk
    BY <1>4
  <1> QED BY <1>1, <1>2, <1>3, <1>4
          DEF Next, vars, RecoverEvidence, TrainingCompletes, CandidateFails, ControlFails,
              ResourceRecoveryPending, StartPlanning, RegisterCandidate, BlockCandidate,
              EndPlanning, Die

(* A completed allocation is never issued again: no later save of any      *)
(* process reopens, defers, re-claims or fails it.                         *)
THEOREM CompletionIsFinal == Spec => CompletedIsFinal
  <1>1. IInv /\ IInv' /\ [Next]_vars
        => [\A a \in Assignments :
              disk.asg[a].status = "completed" => disk'.asg[a].status = "completed"]_disk
    BY CompletedStays
  <1> QED BY <1>1, Invariance, PTL DEF Spec, CompletedIsFinal

(* A full budget is trained only by a process with full-run authorization, *)
(* also when an earlier, authorized process allocated or even started it.  *)
THEOREM FullBudgetsAreAuthorized == Spec => FullBudgetIsAuthorized
  <1>1. ASSUME IInv, [Next]_vars, NEW a \in Keys \X FullSlots, current' = a, current # a
        PROVE  confirm
    <2>1. current' # NoAssignment /\ current' # current
      <3>1. a \in Assignments
        BY DEF Assignments, Slots
      <3>2. NoAssignment \notin Assignments
        BY DEF NoAssignment, Assignments
      <3> QED BY <1>1, <3>1, <3>2
    <2>2. Claim
      BY <1>1, <2>1
         DEF Next, vars, Start, RecoverEvidence, TrainingCompletes, CandidateFails, ControlFails,
             ResourceRecoveryPending, Save, StartPlanning, RegisterCandidate, BlockCandidate,
             EndPlanning, Die
    <2>3. a[2] \in FullSlots
      OBVIOUS
    <2> QED BY <1>1, <2>2, <2>3, ClaimStep
  <1>2. IInv /\ [Next]_vars
        => [\A a \in Keys \X FullSlots : current' = a /\ current # a => confirm]_vars
    BY <1>1
  <1> QED BY <1>2, Invariance, PTL DEF Spec, FullBudgetIsAuthorized

-----------------------------------------------------------------------------
(***************************************************************************)
(* The identity of a trial: its payload, whether its source was authorized *)
(* and its readiness.  Only registration and quarantine change it.         *)
(***************************************************************************)
SameIdentity(r, t) ==
  /\ t.fp = r.fp /\ t.src = r.src /\ t.ready = r.ready
  /\ t.status = "absent" <=> r.status = "absent"

(* A blocked trial that was never given a budget.                          *)
Dormant(s, k) ==
  /\ s.trial[k].status = "needs_evidence"
  /\ \A slot \in Slots : s.asg[<<k, slot>>].status = "none"

KeepsIdentity(s, q) ==
  \A k \in Keys : SameIdentity(s.trial[k], q.trial[k]) /\ (Dormant(s, k) => Dormant(q, k))

LEMMA KeepsIdentityIsTransitive ==
  ASSUME NEW s, NEW q, NEW t, KeepsIdentity(s, q), KeepsIdentity(q, t)
  PROVE  KeepsIdentity(s, t)
  BY DEF KeepsIdentity, SameIdentity

(* What is rewritten is not dormant, or becomes so.                        *)
LEMMA RewritingKeepsIdentity ==
  ASSUME NEW s, NEW q,
         \A k \in Keys : \/ q.trial[k] = s.trial[k]
                         \/ /\ SameIdentity(s.trial[k], q.trial[k])
                            /\ ~Dormant(s, k) \/ q.trial[k].status = "needs_evidence",
         \A k \in Keys, slot \in Slots : \/ q.asg[<<k, slot>>] = s.asg[<<k, slot>>]
                                         \/ ~Dormant(s, k)
  PROVE  KeepsIdentity(s, q)
  BY DEF KeepsIdentity, SameIdentity, Dormant

LEMMA AllocatedIsNotDormant ==
  ASSUME NEW s, NEW a \in Assignments, s.asg[a].status # "none"
  PROVE  ~Dormant(s, a[1])
  <1>1. a[2] \in Slots /\ a = <<a[1], a[2]>>
    BY DEF Assignments
  <1> QED BY <1>1 DEF Dormant

LEMMA RestoredIdentity ==
  ASSUME NEW r \in TrialRecords, NEW slot, r.status # "absent"
  PROVE  SameIdentity(r, Restored(r, slot))
  <1>1. /\ Restored(r, slot).fp = r.fp /\ Restored(r, slot).src = r.src
        /\ Restored(r, slot).ready = r.ready
    BY DEF Restored, TrialRecords
  <1>2. Restored(r, slot).status # "absent"
    BY RestoredTrial DEF Runnable
  <1> QED BY <1>1, <1>2 DEF SameIdentity

LEMMA ImportedIdentity ==
  ASSUME NEW r \in TrialRecords, NEW slot \in Slots, NEW o \in Observations, r.status # "absent"
  PROVE  SameIdentity(r, Import(r, slot, o))
  <1> DEFINE t == [r EXCEPT !.obs[slot] = o]
  <1>1. t \in TrialRecords /\ t.fp = r.fp /\ t.src = r.src /\ t.ready = r.ready
    BY DEF TrialRecords
  <1>2. Import(r, slot, o) = Ruling(t, slot, o)
    BY DEF Import
  <1> HIDE DEF t
  <1>3. /\ Ruling(t, slot, o).fp = t.fp /\ Ruling(t, slot, o).src = t.src
        /\ Ruling(t, slot, o).ready = t.ready
    <2>1. CASE o.kind = "failed"
      BY <1>1, <2>1 DEF Ruling, TrialRecords
    <2>2. CASE o.kind = "partial"
      BY <1>1, <2>2 DEF Ruling, TrialRecords
    <2>3. CASE o.kind \notin {"failed", "partial"}
      <3>1. /\ FinishPilot10(t, o).fp = t.fp /\ FinishPilot10(t, o).src = t.src
            /\ FinishPilot10(t, o).ready = t.ready
        BY <1>1 DEF FinishPilot10, Eliminated, TrialRecords
      <3>2. /\ FinishFullSeed1(t, o).fp = t.fp /\ FinishFullSeed1(t, o).src = t.src
            /\ FinishFullSeed1(t, o).ready = t.ready
        BY <1>1 DEF FinishFullSeed1, Eliminated, TrialRecords
      <3>3. /\ FinishConfirmation(t).fp = t.fp /\ FinishConfirmation(t).src = t.src
            /\ FinishConfirmation(t).ready = t.ready
        BY <1>1 DEF FinishConfirmation, Eliminated, TrialRecords
      <3>4. CASE o.kind = "complete" /\ slot = "pilot_3"
        BY <1>1, <3>4 DEF Ruling, TrialRecords
      <3>5. CASE o.kind = "complete" /\ slot = "pilot_10"
        BY <3>1, <3>5 DEF Ruling
      <3>6. CASE o.kind = "complete" /\ slot = "full_1"
        BY <3>2, <3>6 DEF Ruling
      <3>7. CASE ~(o.kind = "complete" /\ slot \in {"pilot_3", "pilot_10", "full_1"})
        BY <2>3, <3>3, <3>7 DEF Ruling
      <3> QED BY <3>4, <3>5, <3>6, <3>7
    <2> QED BY <2>1, <2>2, <2>3
  <1>4. Import(r, slot, o).status # "absent"
    BY Imported
  <1> QED BY <1>1, <1>2, <1>3, <1>4 DEF SameIdentity

LEMMA ReportKeepsIdentity ==
  ASSUME NEW s, Sound(s), NEW k \in Keys, NEW slot \in Slots, NEW o \in Observations,
         s.asg[<<k, slot>>].status # "none"
  PROVE  KeepsIdentity(s, Report(s, k, slot, o))
  <1> DEFINE f == Filed(s, k, slot, o)
             q == RefreshPilot3Promotions(f)
  <1>1. /\ Sound(f) /\ k \in Registered(s)
        /\ f.trial[k] = Import(s.trial[k], slot, o)
        /\ \A m \in Keys \ {k} : f.trial[m] = s.trial[m]
        /\ \A a \in Assignments \ {<<k, slot>>} : f.asg[a] = s.asg[a]
    BY FiledIsSound
  <1>2. Report(s, k, slot, o) \in {f, q}
    BY DEF Report, Filed
  <1> HIDE DEF f
  <1>3. KeepsIdentity(s, f)
    <2>1. ~Dormant(s, k)
      BY DEF Dormant
    <2>2. SameIdentity(s.trial[k], f.trial[k])
      BY <1>1, SoundTrial, ImportedIdentity DEF Registered
    <2>3. ASSUME NEW m \in Keys, NEW c \in Slots
          PROVE  f.asg[<<m, c>>] = s.asg[<<m, c>>] \/ m = k
      BY <1>1 DEF Assignments
    <2> QED BY <1>1, <2>1, <2>2, <2>3, RewritingKeepsIdentity
  <1>4. KeepsIdentity(f, q)
    <2>1. q.asg = f.asg
      BY <1>1, RefreshIsSound
    <2>2. ASSUME NEW m \in Keys
          PROVE  q.trial[m] = f.trial[m] \/ (SameIdentity(f.trial[m], q.trial[m]) /\ ~Dormant(f, m))
      <3>1. q.trial[m] = IF m \in PilotRejected(f, Cohort(f, m)) THEN Eliminated(f.trial[m])
                         ELSE IF Promotable(f, m) THEN Promoted(f.trial[m])
                         ELSE f.trial[m]
        BY <1>1, RefreshedTrial
      <3>2. f.trial[m] \in TrialRecords
        BY <1>1, SoundTrial
      <3> HIDE DEF q
      <3>3. CASE m \in PilotRejected(f, Cohort(f, m))
        <4>1. m \in Registered(f) /\ f.trial[m].status # "needs_evidence"
          BY <3>3 DEF PilotRejected, PilotCompleted, Cohort
        <4>2. q.trial[m] = Eliminated(f.trial[m])
          BY <3>1, <3>3
        <4> QED BY <3>2, <4>1, <4>2 DEF Eliminated, SameIdentity, Dormant, TrialRecords, Registered
      <3>4. CASE m \notin PilotRejected(f, Cohort(f, m)) /\ Promotable(f, m)
        <4>1. f.trial[m].status = "waiting"
          BY <3>4 DEF Promotable
        <4>2. q.trial[m] = Promoted(f.trial[m])
          BY <3>1, <3>4
        <4> QED BY <3>2, <4>1, <4>2 DEF Promoted, SameIdentity, Dormant, TrialRecords
      <3> QED BY <3>1, <3>3, <3>4
    <2> HIDE DEF q
    <2> QED BY <2>1, <2>2, RewritingKeepsIdentity
  <1> QED BY <1>2, <1>3, <1>4, KeepsIdentityIsTransitive

LEMMA FailMatchedControlKeepsIdentity ==
  ASSUME NEW s, Sound(s), NEW protocol
  PROVE  KeepsIdentity(s, FailMatchedControl(s, protocol))
  <1> DEFINE blocked(r) == [r EXCEPT !.status = "needs_evidence", !.pending = NoStage,
                                     !.adapter = FALSE]
             q == FailMatchedControl(s, protocol)
  <1>1. /\ q.asg = s.asg
        /\ \A k \in Keys : q.trial[k] =
             IF s.trial[k].status # "absent" /\ s.trial[k].plan = protocol
             THEN blocked(s.trial[k]) ELSE s.trial[k]
    BY DEF FailMatchedControl, Sound, Studies
  <1>2. ASSUME NEW r \in TrialRecords, r.status # "absent"
        PROVE  SameIdentity(r, blocked(r)) /\ blocked(r).status = "needs_evidence"
    BY <1>2 DEF SameIdentity, TrialRecords
  <1> HIDE DEF q, blocked
  <1> QED BY <1>1, <1>2, SoundTrial, RewritingKeepsIdentity DEF q

LEMMA DeferNativeKeepsIdentity ==
  ASSUME NEW s, Sound(s)
  PROVE  KeepsIdentity(s, DeferNative(s))
  <1> DEFINE q == DeferNative(s)
             mine(k) == {a \in NativeOutstanding(s) : a[1] = k}
             restored(k) == Restored(s.trial[k], LastIn(s.alist, mine(k))[2])
  <1>1. \A k \in Keys : q.trial[k] = IF mine(k) = {} THEN s.trial[k] ELSE restored(k)
    BY DEF DeferNative, Sound, Studies
  <1>2. \A a \in Assignments : q.asg[a] = s.asg[a] \/ s.asg[a].status \in Outstanding
    BY DeferNativeIsSound
  <1>3. ASSUME NEW k \in Keys, mine(k) # {}
        PROVE  ~Dormant(s, k) /\ s.trial[k].status # "absent"
    <2>1. PICK a \in Assignments : a[1] = k /\ s.asg[a].status # "none"
      BY <1>3 DEF NativeOutstanding, OutstandingAssignments, Outstanding, Assignments
    <2> QED BY <2>1, AllocatedIsNotDormant DEF Sound, Listed, Registered
  <1>4. ASSUME NEW k \in Keys
        PROVE  q.trial[k] = s.trial[k] \/ (SameIdentity(s.trial[k], q.trial[k]) /\ ~Dormant(s, k))
    <2>1. CASE mine(k) = {}
      BY <1>1, <2>1
    <2>2. CASE mine(k) # {}
      <3>1. q.trial[k] = restored(k) /\ s.trial[k] \in TrialRecords
        BY <1>1, <2>2, SoundTrial
      <3>2. ~Dormant(s, k) /\ s.trial[k].status # "absent"
        BY <1>3, <2>2
      <3> HIDE DEF q, mine
      <3> QED BY <3>1, <3>2, RestoredIdentity
    <2> QED BY <2>1, <2>2
  <1> HIDE DEF q
  <1>5. ASSUME NEW k \in Keys, NEW slot \in Slots
        PROVE  q.asg[<<k, slot>>] = s.asg[<<k, slot>>] \/ ~Dormant(s, k)
    BY <1>2, AllocatedIsNotDormant DEF Assignments, Outstanding, Dormant
  <1> QED BY <1>4, <1>5, RewritingKeepsIdentity DEF q

(* Nothing is allocated to a blocked trial that never had a budget.        *)
LEMMA SelectionIsNotDormant ==
  ASSUME NEW s, Sound(s), NEW c \in BOOLEAN, NEW paperOnly \in BOOLEAN,
         NEW a, a = Selection(s, c, paperOnly), a # NoAssignment
  PROVE  ~Dormant(s, a[1])
  <1>1. CASE a \in Recoverable(s, c, paperOnly)
    <2>1. a \in Assignments /\ s.asg[a].status # "none"
      BY <1>1 DEF Recoverable, OutstandingAssignments, Assignments, Outstanding
    <2> QED BY <2>1, AllocatedIsNotDormant
  <1>2. CASE \E p \in 1..4 : a \in Passes(s, c)[p]
    <2>1. PICK p \in 1..4 : a \in Passes(s, c)[p]
      BY <1>2
    <2>2. s.trial[a[1]].status # "needs_evidence"
      <3>1. CASE p = 1
        BY <2>1, <3>1 DEF Passes, TrialsAt
      <3>2. CASE p = 2
        BY <2>1, <3>2 DEF Passes, TrialsAt
      <3>3. CASE p = 3
        BY <2>1, <3>3 DEF Passes, TrialsAt
      <3>4. CASE p = 4
        BY <2>1, <3>4 DEF Passes, TrialsAt
      <3> QED BY <3>1, <3>2, <3>3, <3>4
    <2> QED BY <2>2 DEF Dormant
  <1> QED BY <1>1, <1>2, SelectionIsOffered

LEMMA NextAssignmentKeepsIdentity ==
  ASSUME NEW s, Sound(s), NEW c \in BOOLEAN
  PROVE  KeepsIdentity(s, NextAssignment(s, c).study)
  <1> DEFINE paperOnly == PaperPending(s, c)
             deferred == IF paperOnly THEN DeferNative(s) ELSE s
             a == Selection(deferred, c, paperOnly)
             left == IF a = NoAssignment THEN deferred ELSE Allocate(deferred, a)
  <1>1. paperOnly \in BOOLEAN
    BY DEF PaperPending
  <1>2. Sound(deferred) /\ KeepsIdentity(s, deferred)
    <2>1. KeepsIdentity(s, s)
      BY DEF KeepsIdentity, SameIdentity
    <2> QED BY <2>1, DeferNativeIsSound, DeferNativeKeepsIdentity
  <1>3. NextAssignment(s, c).study = left
    BY DEF NextAssignment
  <1>4. CASE a = NoAssignment
    BY <1>2, <1>3, <1>4
  <1>5. CASE a # NoAssignment
    <2> HIDE DEF paperOnly, deferred
    <2>1. a \in Assignments /\ ~Dormant(deferred, a[1])
      BY <1>1, <1>2, <1>5, SelectionIsAssignment, SelectionIsNotDormant
    <2>2. left = Allocate(deferred, a)
      BY <1>5
    <2> HIDE DEF a, left
    <2>3. /\ left.trial = deferred.trial
          /\ \A b \in Assignments \ {a} : left.asg[b] = deferred.asg[b]
      <3>1. deferred \in Studies
        BY <1>2 DEF Sound
      <3> QED BY <2>1, <2>2, <3>1 DEF Allocate, Studies, Assignments
    <2>4. ASSUME NEW k \in Keys, NEW slot \in Slots
          PROVE  left.asg[<<k, slot>>] = deferred.asg[<<k, slot>>] \/ ~Dormant(deferred, k)
      <3>1. <<k, slot>> \in Assignments /\ <<k, slot>>[1] = k
        BY DEF Assignments
      <3>2. CASE <<k, slot>> = a
        BY <2>1, <3>1, <3>2
      <3> QED BY <2>3, <3>1, <3>2
    <2>5. KeepsIdentity(deferred, left)
      BY <2>3, <2>4, RewritingKeepsIdentity
    <2> QED BY <1>2, <1>3, <2>5, KeepsIdentityIsTransitive
  <1> QED BY <1>4, <1>5

LEMMA MarkRunningKeepsIdentity ==
  ASSUME NEW s, Sound(s), NEW a \in Assignments, s.asg[a].status # "none"
  PROVE  KeepsIdentity(s, MarkRunning(s, a))
  <1> DEFINE q == MarkRunning(s, a)
             r == [s.trial[a[1]] EXCEPT !.status = "running", !.pending = StageOf(a[2])]
  <1>1. a[1] \in Keys /\ ~Dormant(s, a[1]) /\ s.trial[a[1]].status # "absent"
    BY AllocatedIsNotDormant DEF Assignments, Sound, Listed, Registered
  <1>2. s.trial[a[1]] \in TrialRecords
    BY <1>1, SoundTrial
  <1>3. q.trial[a[1]] = r /\ \A k \in Keys \ {a[1]} : q.trial[k] = s.trial[k]
    BY <1>1, <1>2 DEF MarkRunning, Sound, Studies, TrialRecords
  <1>4. \A b \in Assignments \ {a} : q.asg[b] = s.asg[b]
    BY MarkRunningIsSound
  <1>5. SameIdentity(s.trial[a[1]], r)
    BY <1>1, <1>2 DEF SameIdentity, TrialRecords
  <1> HIDE DEF q, r
  <1>6. ASSUME NEW k \in Keys, NEW slot \in Slots
        PROVE  q.asg[<<k, slot>>] = s.asg[<<k, slot>>] \/ k = a[1]
    BY <1>4 DEF Assignments
  <1> QED BY <1>1, <1>3, <1>5, <1>6, RewritingKeepsIdentity DEF q

LEMMA ReopenKeepsIdentity ==
  ASSUME NEW s, Sound(s), NEW S \in SUBSET Reopenable(s)
  PROVE  KeepsIdentity(s, Reopen(s, S))
  <1> DEFINE q == Reopen(s, S)
             mine(k) == {a \in S : a[1] = k}
             cleared(k) == [s.trial[k] EXCEPT !.adapter = FALSE,
                              !.obs = [slot \in Slots |-> IF <<k, slot>> \in S THEN NoObs ELSE @[slot]]]
             restored(k) == Restored(cleared(k), LastIn(s.alist, mine(k))[2])
  <1>1. \A k \in Keys : q.trial[k] = IF mine(k) = {} THEN s.trial[k] ELSE restored(k)
    BY DEF Reopen, Sound, Studies
  <1>2. S \subseteq Assignments /\ \A a \in S : s.asg[a].status = "failed"
    BY DEF Reopenable
  <1>3. ASSUME NEW k \in Keys, mine(k) # {}
        PROVE  ~Dormant(s, k) /\ s.trial[k].status # "absent"
    <2>1. PICK a \in Assignments : a[1] = k /\ s.asg[a].status # "none"
      BY <1>2, <1>3
    <2> QED BY <2>1, AllocatedIsNotDormant DEF Sound, Listed, Registered
  <1>4. ASSUME NEW k \in Keys
        PROVE  q.trial[k] = s.trial[k] \/ (SameIdentity(s.trial[k], q.trial[k]) /\ ~Dormant(s, k))
    <2>1. CASE mine(k) = {}
      BY <1>1, <2>1
    <2>2. CASE mine(k) # {}
      <3>1. q.trial[k] = restored(k) /\ s.trial[k] \in TrialRecords
        BY <1>1, <2>2, SoundTrial
      <3>2. ~Dormant(s, k) /\ s.trial[k].status # "absent"
        BY <1>3, <2>2
      <3> HIDE DEF mine
      <3>3. /\ restored(k).fp = s.trial[k].fp /\ restored(k).src = s.trial[k].src
            /\ restored(k).ready = s.trial[k].ready
            /\ restored(k).status = RestoredStatus(LastIn(s.alist, mine(k))[2])
        BY <3>1 DEF Restored, TrialRecords
      <3>4. restored(k).status # "absent"
        BY <3>3 DEF RestoredStatus
      <3> HIDE DEF q, restored
      <3> QED BY <3>1, <3>2, <3>3, <3>4 DEF SameIdentity
    <2> QED BY <2>1, <2>2
  <1>5. \A a \in Assignments : q.asg[a] = s.asg[a] \/ s.asg[a].status = "failed"
    BY ReopenIsSound
  <1> HIDE DEF q
  <1>6. ASSUME NEW k \in Keys, NEW slot \in Slots
        PROVE  q.asg[<<k, slot>>] = s.asg[<<k, slot>>] \/ ~Dormant(s, k)
    BY <1>5 DEF Assignments, Dormant
  <1> QED BY <1>4, <1>6, RewritingKeepsIdentity DEF q

-----------------------------------------------------------------------------
(***************************************************************************)
(* Who is who.  A trial of an adapter-backed candidate is pre-registered or*)
(* admitted; one that is pre-registered and authorized was never given a   *)
(* budget, so that nothing but its activation makes it live.               *)
(***************************************************************************)
IdentifiedTrial(s, k) ==
  IsPaper(k) => /\ s.trial[k].ready \in {"pre_registered", "asha_eligible"}
                /\ s.trial[k].src /\ s.trial[k].ready = "pre_registered" => Dormant(s, k)

Identified(s) == \A k \in Registered(s) : IdentifiedTrial(s, k)

(* A registered trial that neither registration nor a load refreshes any   *)
(* more.                                                                   *)
Admitted(s, k) ==
  k \in Registered(s) /\ s.trial[k].ready = "asha_eligible" /\ s.trial[k].src

(* Of two studies of one run, d the earlier: s has what is admitted in d,  *)
(* with the payload it had there.                                          *)
Binds(d, s) ==
  \A k \in Keys :
    IsPaper(k) /\ Admitted(d, k) => Admitted(s, k) /\ s.trial[k].fp = d.trial[k].fp

LEMMA BindsIsTransitive ==
  ASSUME NEW d, NEW s, NEW q, Binds(d, s), Binds(s, q) PROVE Binds(d, q)
  BY DEF Binds

LEMMA BindsItself == \A s : Binds(s, s)
  BY DEF Binds

LEMMA KeptIsIdentified ==
  ASSUME NEW s, Identified(s), NEW q, KeepsIdentity(s, q)
  PROVE  Identified(q) /\ Binds(s, q)
  <1>1. Registered(q) = Registered(s)
    BY DEF KeepsIdentity, SameIdentity, Registered
  <1>2. \A k \in Registered(s) : /\ q.trial[k].fp = s.trial[k].fp
                                 /\ q.trial[k].src = s.trial[k].src
                                 /\ q.trial[k].ready = s.trial[k].ready
                                 /\ Dormant(s, k) => Dormant(q, k)
    BY DEF KeepsIdentity, SameIdentity, Registered
  <1>3. \A k \in Registered(s) : IdentifiedTrial(s, k) => IdentifiedTrial(q, k)
    BY <1>2 DEF IdentifiedTrial
  <1> QED BY <1>1, <1>2, <1>3 DEF Identified, Admitted, Binds

LEMMA QuarantineIsIdentified ==
  ASSUME NEW s, Sound(s), Identified(s)
  PROVE  Identified(Quarantine(s)) /\ Binds(s, Quarantine(s))
  <1> DEFINE blocked(r) == [r EXCEPT !.status = "needs_evidence", !.pending = NoStage,
                                     !.ready = "pre_registered", !.adapter = FALSE]
             q == Quarantine(s)
             hit(k) == IsPaper(k) /\ ~s.trial[k].src /\ s.trial[k].status \in Runnable
  <1>1. q.asg = s.asg /\ \A k \in Keys : q.trial[k] = IF hit(k) THEN blocked(s.trial[k]) ELSE s.trial[k]
    BY DEF Quarantine, Sound, Studies
  <1>2. ASSUME NEW r \in TrialRecords
        PROVE  /\ blocked(r).status = "needs_evidence"
               /\ blocked(r).src = r.src /\ blocked(r).ready = "pre_registered"
    BY DEF TrialRecords
  <1> HIDE DEF q, blocked
  <1>3. ASSUME NEW k \in Keys
        PROVE  /\ q.trial[k].status = "absent" <=> s.trial[k].status = "absent"
               /\ hit(k) => q.trial[k].ready = "pre_registered" /\ q.trial[k].src = s.trial[k].src
               /\ ~hit(k) => q.trial[k] = s.trial[k]
    <2>1. s.trial[k] \in TrialRecords
      BY SoundTrial
    <2> QED BY <1>1, <1>2, <2>1 DEF Runnable
  <1>4. Registered(q) = Registered(s)
    BY <1>3 DEF Registered
  <1>5. ASSUME NEW k \in Registered(s) PROVE IdentifiedTrial(q, k)
    <2>1. k \in Keys /\ IdentifiedTrial(s, k)
      BY DEF Registered, Identified
    <2>2. CASE hit(k)
      BY <1>3, <2>1, <2>2 DEF IdentifiedTrial
    <2>3. CASE ~hit(k)
      <3>1. q.trial[k] = s.trial[k] /\ (Dormant(s, k) => Dormant(q, k))
        BY <1>1, <1>3, <2>1, <2>3 DEF Dormant
      <3> QED BY <2>1, <3>1 DEF IdentifiedTrial
    <2> QED BY <2>2, <2>3
  <1>6. \A k \in Keys : Admitted(s, k) => q.trial[k] = s.trial[k]
    BY <1>3 DEF Admitted
  <1> QED BY <1>4, <1>5, <1>6 DEF Identified, Binds, Admitted, q

(* One trial gets another identity, or the study a new one.                *)
LEMMA OneIdentified ==
  ASSUME NEW s, Identified(s), NEW k \in Keys, NEW q,
         q.asg = s.asg, \A m \in Keys \ {k} : q.trial[m] = s.trial[m],
         k \in Registered(q), IdentifiedTrial(q, k),
         IsPaper(k) /\ Admitted(s, k) => Admitted(q, k) /\ q.trial[k].fp = s.trial[k].fp
  PROVE  Identified(q) /\ Binds(s, q)
  <1>1. Registered(q) = Registered(s) \cup {k}
    BY DEF Registered
  <1>2. ASSUME NEW m \in Registered(s), m # k PROVE IdentifiedTrial(q, m)
    <2>1. q.trial[m] = s.trial[m] /\ IdentifiedTrial(s, m) /\ (Dormant(s, m) => Dormant(q, m))
      BY <1>2 DEF Registered, Identified, Dormant
    <2> QED BY <2>1 DEF IdentifiedTrial
  <1>3. ASSUME NEW m \in Keys, m # k, Admitted(s, m)
        PROVE  Admitted(q, m) /\ q.trial[m].fp = s.trial[m].fp
    BY <1>1, <1>3 DEF Admitted
  <1> QED BY <1>1, <1>2, <1>3 DEF Identified, Binds

(* The identity register_trial leaves to the trial it lands on.            *)
LEMMA RegisteredIdentity ==
  ASSUME NEW s, Sound(s), NEW i \in Ids, NEW f \in Fps
  PROVE  LET k == RegisterTarget(s, i, f)
             r == s.trial[k]
             q == Register(s, i, f)
             t == q.trial[k]
         IN  /\ q.asg = s.asg /\ \A m \in Keys \ {k} : q.trial[m] = s.trial[m]
             /\ k \in Registered(q)
             /\ r.status = "absent" =>
                  /\ t.fp = f /\ t.src
                  /\ t.ready = IF i \in Paper THEN "asha_eligible" ELSE "none"
             /\ r.status # "absent" /\ r.ready = "pre_registered" =>
                  /\ t.ready = "asha_eligible"
                  /\ k = RegisterKey(s, i, f) => t.fp = f /\ t.src
                  /\ k # RegisterKey(s, i, f) => t.fp = r.fp /\ t.src = r.src
             /\ r.status # "absent" /\ r.ready # "pre_registered" =>
                  t.fp = r.fp /\ t.src = r.src /\ t.ready = r.ready
  <1> DEFINE k == RegisterTarget(s, i, f)
             r == s.trial[k]
             ready == IF i \in Paper THEN "asha_eligible" ELSE "none"
             new == NewTrial(i, f, ready, "waiting", "pilot_3", TRUE, ProtocolOf[i])
             old == IF r.ready = "pre_registered"
                    THEN Activate(IF k = RegisterKey(s, i, f) THEN RefreshSource(r, f) ELSE r,
                                  ProtocolOf[i])
                    ELSE AttachPlan(r, ProtocolOf[i])
             first == IF r.status = "absent" THEN new ELSE old
             p == IF r.status = "absent" THEN AddTrial(s, k, new) ELSE [s EXCEPT !.trial[k] = old]
             q == Register(s, i, f)
             t == q.trial[k]
  <1>1. k \in Keys /\ r \in TrialRecords
    BY RegisterTargetIsKey, SoundTrial
  <1>2. p.trial[k] = first /\ \A m \in Keys \ {k} : p.trial[m] = s.trial[m]
    <2>1. s.trial \in [Keys -> TrialRecords] /\ s \in Studies
      BY DEF Sound, Studies
    <2> HIDE DEF k, new, old
    <2> QED BY <1>1, <2>1 DEF AddTrial, Studies
  <1>3. q = Breaker(p, k)
    BY DEF Register
  <1>4. first \in TrialRecords /\ first.status # "absent"
    <2>1. CASE r.status = "absent"
      <3>1. "waiting" \in TrialStatuses /\ "pilot_3" \in Stages \cup {NoStage}
        BY DEF TrialStatuses, Runnable, Stages
      <3>2. ready \in {"none", "pre_registered", "asha_eligible"}
        OBVIOUS
      <3>3. ProtocolOf[i] \in {ProtocolOf[j] : j \in Ids} \cup {NoPlan}
        OBVIOUS
      <3>4. first = new
        BY <2>1
      <3> HIDE DEF ready, first
      <3>5. \A src \in BOOLEAN :
              LET n == NewTrial(i, f, ready, "waiting", "pilot_3", src, ProtocolOf[i])
              IN  n \in TrialRecords /\ n.status = "waiting"
        BY <3>1, <3>2, <3>3, NewTrialIsTrial
      <3>6. new \in TrialRecords /\ new.status = "waiting"
        BY <3>5
      <3> QED BY <3>4, <3>6
    <2>2. CASE r.status # "absent"
      <3>1. RefreshSource(r, f) \in TrialRecords
        <4> HIDE DEF k, r
        <4> QED BY <1>1 DEF RefreshSource, TrialRecords
      <3>2. first = old
        BY <2>2
      <3> HIDE DEF k, r, first
      <3>3. CASE r.ready = "pre_registered"
        BY <1>1, <3>1, <3>2, <3>3, ActivatedTrial DEF Honest
      <3>4. CASE r.ready # "pre_registered"
        BY <1>1, <2>2, <3>2, <3>4, PlannedTrial
      <3> QED BY <3>3, <3>4
    <2> QED BY <2>1, <2>2
  <1>5. p.trial \in [Keys -> TrialRecords] /\ p.asg = s.asg
    <2>1. s.trial \in [Keys -> TrialRecords] /\ s \in Studies
      BY DEF Sound, Studies
    <2>2. p.trial = [s.trial EXCEPT ![k] = first] /\ p.asg = s.asg
      <3> HIDE DEF k, new, old
      <3> QED BY <1>1, <2>1 DEF AddTrial, Studies
    <2> HIDE DEF p, first
    <2> QED BY <1>4, <2>1, <2>2
  <1> HIDE DEF p, q
  <1>6. /\ q.asg = s.asg /\ \A m \in Keys \ {k} : q.trial[m] = s.trial[m]
        /\ t.fp = first.fp /\ t.src = first.src /\ t.ready = first.ready
        /\ t.status # "absent"
    <2>1. p.trial[k] \in TrialRecords
      BY <1>1, <1>5
    <2>2. q.asg = p.asg
      BY <1>3 DEF Breaker
    <2>3. ASSUME NEW m \in Keys \ {k} PROVE q.trial[m] = p.trial[m]
      <3> HIDE DEF k
      <3> QED BY <1>1, <1>3, <1>5 DEF Breaker
    <2>4. /\ t.fp = p.trial[k].fp /\ t.src = p.trial[k].src /\ t.ready = p.trial[k].ready
          /\ t.status \in {p.trial[k].status, "failed"}
      <3> HIDE DEF k
      <3> QED BY <1>1, <1>3, <1>5, <2>1 DEF Breaker, TrialRecords
    <2> HIDE DEF k, first
    <2> QED BY <1>2, <1>4, <1>5, <2>2, <2>3, <2>4
  <1>7. k \in Registered(q)
    BY <1>1, <1>6 DEF Registered
  <1>8. ASSUME r.status = "absent"
        PROVE  first.fp = f /\ first.src /\ first.ready = ready
    <2>1. first = new
      BY <1>8
    <2> HIDE DEF first, ready
    <2> QED BY <2>1 DEF NewTrial, NoTrial
  <1>9. ASSUME r.status # "absent", r.ready = "pre_registered"
        PROVE  /\ first.ready = "asha_eligible"
               /\ k = RegisterKey(s, i, f) => first.fp = f /\ first.src
               /\ k # RegisterKey(s, i, f) => first.fp = r.fp /\ first.src = r.src
    <2>1. /\ k = RegisterKey(s, i, f) => first = Activate(RefreshSource(r, f), ProtocolOf[i])
          /\ k # RegisterKey(s, i, f) => first = Activate(r, ProtocolOf[i])
      BY <1>9
    <2>2. /\ Activate(r, ProtocolOf[i]).ready = "asha_eligible"
          /\ Activate(r, ProtocolOf[i]).fp = r.fp /\ Activate(r, ProtocolOf[i]).src = r.src
      <3> HIDE DEF k, r
      <3> QED BY <1>1 DEF Activate, TrialRecords
    <2>3. LET a == Activate(RefreshSource(r, f), ProtocolOf[i]) IN
          a.ready = "asha_eligible" /\ a.fp = f /\ a.src = TRUE
      <3> HIDE DEF k, r
      <3> QED BY <1>1 DEF Activate, RefreshSource, TrialRecords
    <2> HIDE DEF first, k, r
    <2> QED BY <2>1, <2>2, <2>3
  <1>10. ASSUME r.status # "absent", r.ready # "pre_registered"
         PROVE  first.fp = r.fp /\ first.src = r.src /\ first.ready = r.ready
    <2>1. first = AttachPlan(r, ProtocolOf[i])
      BY <1>10
    <2> HIDE DEF first, k, r
    <2> QED BY <1>1, <2>1 DEF AttachPlan, TrialRecords
  <1> HIDE DEF k, first
  <1> QED BY <1>6, <1>7, <1>8, <1>9, <1>10 DEF k, q

(* A new trial of an adapter-backed candidate is the first with its payload.*)
LEMMA RegisterTargetIsFirst ==
  ASSUME NEW s, Sound(s), NEW i \in Ids, NEW f \in Fps,
         s.trial[RegisterTarget(s, i, f)].status = "absent"
  PROVE  /\ RegisterTarget(s, i, f)[1] = i
         /\ i \in Paper => WithFingerprint(s, f) = {}
  <1>1. WithFingerprint(s, f) \in SUBSET Registered(s)
    BY DEF WithFingerprint
  <1>2. WithFingerprint(s, f) # {} => FirstIn(s.order, WithFingerprint(s, f)) \in Registered(s)
    BY <1>1, RegisteredIsListed
  <1>3. /\ RegisterTarget(s, i, f) = RegisterKey(s, i, f)
        /\ i \in Paper => WithFingerprint(s, f) = {}
    BY <1>2 DEF RegisterTarget, Registered
  <1> QED BY <1>3 DEF RegisterKey

LEMMA RegisterIsIdentified ==
  ASSUME NEW s, Sound(s), Identified(s), NEW i \in Ids, NEW f \in Fps
  PROVE  Identified(Register(s, i, f)) /\ Binds(s, Register(s, i, f))
  <1> DEFINE k == RegisterTarget(s, i, f)
             r == s.trial[k]
             q == Register(s, i, f)
             t == q.trial[k]
  <1>1. /\ q.asg = s.asg /\ \A m \in Keys \ {k} : q.trial[m] = s.trial[m]
        /\ k \in Registered(q) /\ k \in Keys
        /\ r.status = "absent" => t.ready = IF i \in Paper THEN "asha_eligible" ELSE "none"
        /\ r.status # "absent" /\ r.ready = "pre_registered" => t.ready = "asha_eligible"
        /\ r.status # "absent" /\ r.ready # "pre_registered" =>
             t.fp = r.fp /\ t.src = r.src /\ t.ready = r.ready
    BY RegisteredIdentity, RegisterTargetIsKey
  <1>2. r.status = "absent" => k[1] = i
    BY RegisterTargetIsFirst
  <1> HIDE DEF k, q
  <1>3. IdentifiedTrial(q, k)
    <2>1. CASE r.status = "absent" \/ r.ready = "pre_registered"
      BY <1>1, <1>2, <2>1 DEF IdentifiedTrial, IsPaper
    <2>2. CASE r.status # "absent" /\ r.ready # "pre_registered"
      <3>1. IdentifiedTrial(s, k)
        BY <1>1, <2>2 DEF Identified, Registered
      <3> QED BY <1>1, <2>2, <3>1 DEF IdentifiedTrial
    <2> QED BY <2>1, <2>2
  <1>4. Admitted(s, k) => Admitted(q, k) /\ t.fp = r.fp
    BY <1>1 DEF Admitted, Registered
  <1> QED BY <1>1, <1>3, <1>4, OneIdentified DEF q

(* What pre_register_trial does: it adds the first trial with a payload, or*)
(* blocks one that is not admitted, or nothing.                            *)
LEMMA PreRegisteredIdentity ==
  ASSUME NEW s, Sound(s), NEW i \in Ids, NEW f \in Fps, NEW src \in BOOLEAN
  PROVE  LET k == PreRegisterTarget(s, i, f)
             r == s.trial[k]
             q == PreRegister(s, i, f, src)
             t == q.trial[k]
         IN  /\ k \in Keys
             /\ q.asg = s.asg /\ \A m \in Keys \ {k} : q.trial[m] = s.trial[m]
             /\ r.status = "absent" =>
                  /\ WithFingerprint(s, f) = {} /\ t.fp = f
                  /\ t.ready = "pre_registered" /\ t.status = "needs_evidence"
             /\ r.status # "absent" /\ r.ready # "asha_eligible" =>
                  /\ t.fp = r.fp /\ t.src = r.src
                  /\ t.ready = "pre_registered" /\ t.status = "needs_evidence"
             /\ r.status # "absent" /\ r.ready = "asha_eligible" => q = s
  <1> DEFINE k == PreRegisterTarget(s, i, f)
             r == s.trial[k]
             q == PreRegister(s, i, f, src)
             new == NewTrial(i, f, "pre_registered", "needs_evidence", NoStage, src, NoPlan)
             blocked == [r EXCEPT !.ready = "pre_registered", !.status = "needs_evidence",
                                  !.pending = NoStage, !.adapter = FALSE]
  <1>1. k \in Keys /\ r \in TrialRecords
    BY PreRegisterTargetIsKey, SoundTrial
  <1>2. r.status = "absent" => WithFingerprint(s, f) = {}
    <2>1. WithFingerprint(s, f) \in SUBSET Registered(s)
      BY DEF WithFingerprint
    <2>2. WithFingerprint(s, f) # {} => FirstIn(s.order, WithFingerprint(s, f)) \in Registered(s)
      BY <2>1, RegisteredIsListed
    <2> QED BY <2>2 DEF PreRegisterTarget, Registered
  <1>3. s.trial \in [Keys -> TrialRecords] /\ s \in Studies
    BY DEF Sound, Studies
  <1>4. CASE r.status = "absent"
    <2>1. q = AddTrial(s, k, new)
      BY <1>4 DEF PreRegister
    <2>2. new.fp = f /\ new.ready = "pre_registered" /\ new.status = "needs_evidence"
      BY DEF NewTrial, NoTrial
    <2> HIDE DEF k, q, new
    <2>3. /\ q.asg = s.asg /\ q.trial[k] = new
          /\ \A m \in Keys \ {k} : q.trial[m] = s.trial[m]
      BY <1>1, <1>3, <2>1 DEF AddTrial, Studies
    <2> QED BY <1>1, <1>2, <1>4, <2>2, <2>3 DEF k, q
  <1>5. CASE r.status # "absent" /\ r.ready # "asha_eligible"
    <2>1. q = [s EXCEPT !.trial[k] = blocked]
      BY <1>5 DEF PreRegister
    <2>2. /\ blocked.fp = r.fp /\ blocked.src = r.src
          /\ blocked.ready = "pre_registered" /\ blocked.status = "needs_evidence"
      <3> HIDE DEF k, r
      <3> QED BY <1>1 DEF TrialRecords
    <2> HIDE DEF k, q, blocked
    <2>3. /\ q.asg = s.asg /\ q.trial[k] = blocked
          /\ \A m \in Keys \ {k} : q.trial[m] = s.trial[m]
      BY <1>1, <1>3, <2>1 DEF Studies
    <2> QED BY <1>1, <1>5, <2>2, <2>3 DEF k, q
  <1>6. CASE r.status # "absent" /\ r.ready = "asha_eligible"
    <2>1. q = s
      BY <1>6 DEF PreRegister
    <2> HIDE DEF q, k
    <2> QED BY <1>1, <1>6, <2>1 DEF k, q
  <1> QED BY <1>4, <1>5, <1>6

LEMMA PreRegisterIsIdentified ==
  ASSUME NEW s, Sound(s), Identified(s), NEW i \in Ids, NEW f \in Fps, NEW src \in BOOLEAN
  PROVE  Identified(PreRegister(s, i, f, src)) /\ Binds(s, PreRegister(s, i, f, src))
  <1> DEFINE k == PreRegisterTarget(s, i, f)
             r == s.trial[k]
             q == PreRegister(s, i, f, src)
             t == q.trial[k]
  <1>1. /\ k \in Keys
        /\ q.asg = s.asg /\ \A m \in Keys \ {k} : q.trial[m] = s.trial[m]
        /\ r.status = "absent" \/ r.ready # "asha_eligible" =>
             t.ready = "pre_registered" /\ t.status = "needs_evidence"
        /\ r.status # "absent" /\ r.ready # "asha_eligible" => t.src = r.src
        /\ r.status # "absent" /\ r.ready = "asha_eligible" => q = s
    BY PreRegisteredIdentity
  <1> HIDE DEF k, q
  <1>2. CASE r.status = "absent"
    <2>1. Dormant(q, k)
      <3>1. ASSUME NEW slot \in Slots PROVE s.asg[<<k, slot>>].status = "none"
        <4>1. <<k, slot>> \in Assignments /\ <<k, slot>>[1] = k
          BY <1>1 DEF Assignments
        <4> QED BY <1>2, <4>1 DEF Sound, Listed, Registered
      <3> QED BY <1>1, <1>2, <3>1 DEF Dormant
    <2>2. IdentifiedTrial(q, k) /\ k \in Registered(q) /\ ~Admitted(s, k)
      BY <1>1, <1>2, <2>1 DEF IdentifiedTrial, Registered, Admitted
    <2> QED BY <1>1, <2>2, OneIdentified DEF q
  <1>3. CASE r.status # "absent" /\ r.ready # "asha_eligible"
    <2>1. IdentifiedTrial(s, k) /\ ~Admitted(s, k) /\ k \in Registered(q)
      BY <1>1, <1>3 DEF Identified, Registered, Admitted
    <2>2. ASSUME IsPaper(k) PROVE r.ready = "pre_registered"
      BY <1>3, <2>1, <2>2 DEF IdentifiedTrial
    <2>3. Dormant(s, k) => Dormant(q, k)
      BY <1>1, <1>3 DEF Dormant
    <2>4. IdentifiedTrial(q, k)
      BY <1>1, <1>3, <2>1, <2>2, <2>3 DEF IdentifiedTrial
    <2> QED BY <1>1, <2>1, <2>4, OneIdentified DEF q
  <1>4. CASE r.status # "absent" /\ r.ready = "asha_eligible"
    BY <1>1, <1>4, BindsItself DEF q
  <1> QED BY <1>2, <1>3, <1>4

-----------------------------------------------------------------------------
(* The invariant: in memory and on disk every trial is identified, and the *)
(* running scheduler binds what the file binds.                            *)
IdInv == Identified(study) /\ Identified(disk) /\ Binds(disk, study)

LEMMA IdentityInitially == Init => IdInv
  <1> SUFFICES ASSUME Init PROVE IdInv
    OBVIOUS
  <1>1. Registered(EmptyStudy) = {}
    BY DEF Registered, EmptyStudy, NoTrial
  <1>2. Identified(EmptyStudy)
    BY <1>1 DEF Identified
  <1> QED BY <1>2, BindsItself DEF Init, IdInv

LEMMA StartIdentifies ==
  ASSUME IInv, IdInv, Start PROVE IdInv' /\ Binds(disk, disk')
  <1>1. PICK c \in BOOLEAN, S \in SUBSET Reopenable(Quarantine(disk)) :
          LET loaded == Reopen(Quarantine(disk), S) IN
          /\ disk' = IF S = {} THEN disk ELSE loaded
          /\ study' = NextAssignment(loaded, c).study
    BY DEF Start
  <1> DEFINE quarantined == Quarantine(disk)
             loaded == Reopen(quarantined, S)
             next == NextAssignment(loaded, c)
  <1>2. Sound(quarantined) /\ Identified(quarantined) /\ Binds(disk, quarantined)
    BY QuarantineIsSound, QuarantineIsIdentified DEF IInv, IdInv
  <1> HIDE DEF quarantined
  <1>3. Sound(loaded) /\ KeepsIdentity(quarantined, loaded)
    BY <1>1, <1>2, ReopenIsSound, ReopenKeepsIdentity DEF quarantined
  <1>4. Identified(loaded) /\ Binds(disk, loaded)
    BY <1>2, <1>3, KeptIsIdentified, BindsIsTransitive
  <1> HIDE DEF loaded
  <1>5. KeepsIdentity(loaded, next.study)
    BY <1>3, NextAssignmentKeepsIdentity
  <1>6. Identified(next.study) /\ Binds(loaded, next.study)
    BY <1>4, <1>5, KeptIsIdentified
  <1>7. study' = next.study /\ (disk' = disk \/ disk' = loaded)
    BY <1>1 DEF loaded, quarantined
  <1>8. Binds(disk, study') /\ Binds(disk', study')
    BY <1>4, <1>6, <1>7, BindsIsTransitive
  <1> HIDE DEF next
  <1> QED BY <1>4, <1>6, <1>7, <1>8, BindsItself DEF IdInv

LEMMA ClaimIdentifies ==
  ASSUME IInv, IdInv, Claim PROVE IdInv' /\ Binds(disk, disk')
  <1> DEFINE next == NextAssignment(study, confirm)
             a == next.assignment
  <1>1. /\ a # NoAssignment /\ study' = MarkRunning(next.study, a) /\ disk' = study'
    BY DEF Claim
  <1>2. /\ Sound(next.study) /\ a \in Assignments /\ next.study.asg[a].status # "none"
        /\ KeepsIdentity(study, next.study)
    BY <1>1, NextAssignmentIsSound, NextAssignmentKeepsIdentity DEF IInv, Typed
  <1> HIDE DEF next, a
  <1>3. KeepsIdentity(study, study')
    BY <1>1, <1>2, MarkRunningKeepsIdentity, KeepsIdentityIsTransitive
  <1>4. Identified(study') /\ Binds(study, study')
    BY <1>3, KeptIsIdentified DEF IdInv
  <1> QED BY <1>1, <1>4, BindsItself, BindsIsTransitive DEF IdInv

(* Every other step that touches the running study leaves the file.        *)
LEMMA StudyIdentifies ==
  ASSUME IdInv, Identified(study'), Binds(study, study'), disk' = disk
  PROVE  IdInv' /\ Binds(disk, disk')
  BY BindsItself, BindsIsTransitive DEF IdInv

LEMMA ReportingKeepsIdentity ==
  ASSUME IInv, RecoverEvidence \/ TrainingCompletes \/ CandidateFails \/ ControlFails
  PROVE  KeepsIdentity(study, study')
  <1>1. CASE RecoverEvidence
    <2>1. PICK a \in Assignments, m \in Measurements :
            /\ study.asg[a].status # "none"
            /\ study' = Report(study, a[1], a[2], Observed(a[2], m, child[a].obs.fp))
      BY <1>1 DEF RecoverEvidence
    <2>2. a[1] \in Keys /\ a[2] \in Slots /\ a = <<a[1], a[2]>>
      BY DEF Assignments
    <2>3. child[a].obs.fp \in Fps \cup {Base}
      BY DEF IInv, Typed, ChildRuns, Observations
    <2>4. Observed(a[2], m, child[a].obs.fp) \in Observations
      BY <2>2, <2>3, ObservedIsObservation
    <2> QED BY <2>1, <2>2, <2>4, ReportKeepsIdentity DEF IInv
  <1>2. ASSUME pc = "train", NEW o \in Observations,
               study' = Report(study, current[1], current[2], o)
        PROVE  KeepsIdentity(study, study')
    <2>1. current \in Assignments /\ study.asg[current].status = "running"
      BY <1>2 DEF IInv, TrainsItsClaim
    <2>2. current[1] \in Keys /\ current[2] \in Slots /\ current = <<current[1], current[2]>>
      BY <2>1 DEF Assignments
    <2>3. study.asg[<<current[1], current[2]>>].status # "none"
      BY <2>1, <2>2
    <2> QED BY <1>2, <2>2, <2>3, ReportKeepsIdentity DEF IInv
  <1>3. CASE TrainingCompletes
    <2>1. PICK m \in Measurements :
            study' = Report(study, current[1], current[2], Observed(current[2], m, Payload))
      BY <1>3 DEF TrainingCompletes
    <2>2. pc = "train" /\ current[2] \in Slots
      BY <1>3 DEF TrainingCompletes, IInv, TrainsItsClaim, Assignments
    <2>3. Observed(current[2], m, Payload) \in Observations
      BY <2>2, PayloadIsPayload, ObservedIsObservation
    <2> QED BY <1>2, <2>1, <2>2, <2>3
  <1>4. CASE CandidateFails
    <2>1. PICK cause \in FailureCauses :
            study' = Report(study, current[1], current[2], FailedObs(cause, Payload))
      BY <1>4 DEF CandidateFails
    <2>2. pc = "train"
      BY <1>4 DEF CandidateFails
    <2>3. FailedObs(cause, Payload) \in Observations
      BY <2>2, PayloadIsPayload, FailedIsObservation
    <2> QED BY <1>2, <2>1, <2>2, <2>3
  <1>5. CASE ControlFails
    <2> DEFINE plan == study.trial[current[1]].plan
    <2>1. /\ pc = "train"
          /\ study' = IF plan # NoPlan THEN FailMatchedControl(study, plan)
                      ELSE Report(study, current[1], current[2], FailedObs("training", Payload))
      BY <1>5 DEF ControlFails
    <2>2. FailedObs("training", Payload) \in Observations
      BY <2>1, PayloadIsPayload, FailedIsObservation
    <2> HIDE DEF plan
    <2>3. CASE plan # NoPlan
      BY <2>1, <2>3, FailMatchedControlKeepsIdentity DEF IInv
    <2>4. CASE plan = NoPlan
      BY <1>2, <2>1, <2>2, <2>4
    <2> QED BY <2>3, <2>4
  <1> QED BY <1>1, <1>3, <1>4, <1>5

LEMMA ReportingIdentifies ==
  ASSUME IInv, IdInv,
         RecoverEvidence \/ TrainingCompletes \/ CandidateFails \/ ControlFails
  PROVE  IdInv' /\ Binds(disk, disk')
  <1>1. disk' = disk
    BY DEF RecoverEvidence, TrainingCompletes, CandidateFails, ControlFails
  <1>2. KeepsIdentity(study, study')
    BY ReportingKeepsIdentity
  <1> QED BY <1>1, <1>2, KeptIsIdentified, StudyIdentifies DEF IdInv

LEMMA PlanningIdentifies ==
  ASSUME IInv, IdInv, StartPlanning \/ RegisterCandidate \/ BlockCandidate
  PROVE  IdInv' /\ Binds(disk, disk')
  <1>1. disk' = disk
    BY DEF StartPlanning, RegisterCandidate, BlockCandidate
  <1>2. Identified(study') /\ Binds(study, study')
    <2>1. CASE StartPlanning
      BY <2>1, NextAssignmentKeepsIdentity, KeptIsIdentified DEF StartPlanning, IInv, Typed, IdInv
    <2>2. CASE RegisterCandidate
      <3>1. PICK i \in Ids : \E f \in FpsOf[i] : study' = Register(study, i, f)
        BY <2>2 DEF RegisterCandidate
      <3>2. PICK f \in Fps : study' = Register(study, i, f)
        BY <3>1, DriverAssumption
      <3> QED BY <3>2, RegisterIsIdentified DEF IInv, IdInv
    <2>3. CASE BlockCandidate
      <3>1. PICK i \in Ids, src \in BOOLEAN : \E f \in FpsOf[i] : study' = PreRegister(study, i, f, src)
        BY <2>3 DEF BlockCandidate
      <3>2. PICK f \in Fps : study' = PreRegister(study, i, f, src)
        BY <3>1, DriverAssumption
      <3> QED BY <3>2, PreRegisterIsIdentified DEF IInv, IdInv
    <2> QED BY <2>1, <2>2, <2>3
  <1> QED BY <1>1, <1>2, StudyIdentifies

LEMMA IdentityInductive == IInv /\ IdInv /\ [Next]_vars => IdInv' /\ Binds(disk, disk')
  <1> SUFFICES ASSUME IInv, IdInv, [Next]_vars PROVE IdInv' /\ Binds(disk, disk')
    OBVIOUS
  <1>1. CASE Save
    <2>1. disk' = study /\ study' = study
      BY <1>1 DEF Save
    <2> QED BY <2>1, BindsItself DEF IdInv
  <1>2. CASE Die
    <2>1. study' = disk /\ disk' = disk
      BY <1>2 DEF Die
    <2> QED BY <2>1, BindsItself DEF IdInv
  <1>3. CASE ResourceRecoveryPending \/ EndPlanning \/ UNCHANGED vars
    <2>1. study' = study /\ disk' = disk
      BY <1>3 DEF ResourceRecoveryPending, EndPlanning, vars
    <2> QED BY <2>1, BindsItself DEF IdInv
  <1> QED BY <1>1, <1>2, <1>3, StartIdentifies, ClaimIdentifies, ReportingIdentifies,
             PlanningIdentifies DEF Next

(* A trial of an adapter-backed candidate that is live in asha_state.yaml  *)
(* and whose source was admitted keeps its payload across every write of   *)
(* the file, whatever payloads the candidates evolve through and share.    *)
THEOREM LiveTrialsKeepTheirPayload == Spec => LiveIsNotHijacked
  <1>1. ASSUME IdInv, Binds(disk, disk'), NEW k \in Keys,
               IsPaper(k), disk.trial[k].status \in Runnable, disk.trial[k].src
        PROVE  disk'.trial[k].fp = disk.trial[k].fp
    <2>1. k \in Registered(disk) /\ IdentifiedTrial(disk, k)
      BY <1>1 DEF IdInv, Identified, Registered, Runnable
    <2>2. Admitted(disk, k)
      BY <1>1, <2>1 DEF IdentifiedTrial, Dormant, Runnable, Admitted
    <2> QED BY <1>1, <2>2 DEF Binds
  <1>2. Init => IInv /\ IdInv
    BY Initially, IdentityInitially
  <1>3. IInv /\ IdInv /\ [Next]_vars => (IInv /\ IdInv)'
    BY Inductive, IdentityInductive
  <1>4. IInv /\ IdInv /\ [Next]_vars =>
          [\A k \in Keys :
             IsPaper(k) /\ disk.trial[k].status \in Runnable /\ disk.trial[k].src
             => disk'.trial[k].fp = disk.trial[k].fp]_disk
    BY <1>1, IdentityInductive
  <1> QED BY <1>2, <1>3, <1>4, PTL DEF Spec, LiveIsNotHijacked

-----------------------------------------------------------------------------
(***************************************************************************)
(* One trial per payload: what a study s is rewritten to without two trials*)
(* of adapter-backed candidates coming to share a payload, but for those   *)
(* refreshed in place.                                                     *)
(***************************************************************************)
SharesIn(s, q, k, m) ==
  /\ IsPaper(k) /\ IsPaper(m) /\ k # m
  /\ SamePayload(q, k, m) /\ ~SamePayload(s, k, m)
RefreshedIn(s, q, k) == s.trial[k].ready = "pre_registered" /\ q.trial[k].fp # s.trial[k].fp
KeepsPayloads(s, q) ==
  \A k, m \in Keys : SharesIn(s, q, k, m) => RefreshedIn(s, q, k) \/ RefreshedIn(s, q, m)

LEMMA KeptIsUnshared ==
  ASSUME NEW s, NEW q, KeepsIdentity(s, q) PROVE KeepsPayloads(s, q)
  BY DEF KeepsIdentity, SameIdentity, KeepsPayloads, SharesIn, SamePayload, Registered

(* One trial is rewritten: a new one carries a payload no other does, any  *)
(* other keeps its payload or is refreshed.                                *)
LEMMA OneIsUnshared ==
  ASSUME NEW s, NEW q, NEW k \in Keys,
         \A m \in Keys \ {k} : q.trial[m] = s.trial[m],
         \/ k \in Registered(s) /\ q.trial[k].fp = s.trial[k].fp
         \/ RefreshedIn(s, q, k)
         \/ ~IsPaper(k)
         \/ WithFingerprint(s, q.trial[k].fp) = {}
  PROVE  KeepsPayloads(s, q)
  <1>1. ASSUME NEW m \in Keys, m # k,
               SamePayload(q, k, m), ~SamePayload(s, k, m), IsPaper(k)
        PROVE  RefreshedIn(s, q, k)
    <2>1. m \in Registered(s) /\ s.trial[m].fp = q.trial[k].fp
      BY <1>1 DEF SamePayload, Registered
    <2> QED BY <1>1, <2>1 DEF SamePayload, WithFingerprint, Registered
  <1>2. ASSUME NEW m \in Keys, NEW n \in Keys, SharesIn(s, q, m, n)
        PROVE  RefreshedIn(s, q, m) \/ RefreshedIn(s, q, n)
    <2>1. CASE m = k
      BY <1>1, <1>2, <2>1 DEF SharesIn
    <2>2. CASE n = k
      <3>1. SamePayload(q, k, m) /\ ~SamePayload(s, k, m)
        BY <1>2, <2>2 DEF SharesIn, SamePayload
      <3> QED BY <1>1, <1>2, <2>2, <3>1 DEF SharesIn
    <2>3. CASE m # k /\ n # k
      BY <1>2, <2>3 DEF SharesIn, SamePayload, Registered
    <2> QED BY <2>1, <2>2, <2>3
  <1> QED BY <1>2 DEF KeepsPayloads

LEMMA RegisterIsUnshared ==
  ASSUME NEW s, Sound(s), NEW i \in Ids, NEW f \in Fps
  PROVE  KeepsPayloads(s, Register(s, i, f))
  <1> DEFINE k == RegisterTarget(s, i, f)
             r == s.trial[k]
             q == Register(s, i, f)
             t == q.trial[k]
  <1>1. /\ k \in Keys /\ \A m \in Keys \ {k} : q.trial[m] = s.trial[m]
        /\ r.status = "absent" => t.fp = f
        /\ r.status # "absent" /\ r.ready # "pre_registered" => t.fp = r.fp
    BY RegisteredIdentity, RegisterTargetIsKey
  <1>2. r.status = "absent" => k[1] = i /\ (i \in Paper => WithFingerprint(s, f) = {})
    BY RegisterTargetIsFirst
  <1> HIDE DEF k, q
  <1>3. CASE r.status = "absent"
    <2>1. \/ k \in Registered(s) /\ q.trial[k].fp = s.trial[k].fp
          \/ RefreshedIn(s, q, k)
          \/ ~IsPaper(k)
          \/ WithFingerprint(s, q.trial[k].fp) = {}
      BY <1>1, <1>2, <1>3 DEF IsPaper
    <2>2. KeepsPayloads(s, q)
      BY <1>1, <2>1, OneIsUnshared
    <2> QED BY <2>2 DEF q
  <1>4. CASE r.status # "absent"
    <2>1. k \in Registered(s) /\ (t.fp = r.fp \/ RefreshedIn(s, q, k))
      BY <1>1, <1>4 DEF Registered, RefreshedIn
    <2>2. KeepsPayloads(s, q)
      BY <1>1, <2>1, OneIsUnshared
    <2> QED BY <2>2 DEF q
  <1> QED BY <1>3, <1>4

LEMMA PreRegisterIsUnshared ==
  ASSUME NEW s, Sound(s), NEW i \in Ids, NEW f \in Fps, NEW src \in BOOLEAN
  PROVE  KeepsPayloads(s, PreRegister(s, i, f, src))
  <1> DEFINE k == PreRegisterTarget(s, i, f)
             r == s.trial[k]
             q == PreRegister(s, i, f, src)
             t == q.trial[k]
  <1>1. /\ k \in Keys /\ \A m \in Keys \ {k} : q.trial[m] = s.trial[m]
        /\ r.status = "absent" => WithFingerprint(s, f) = {} /\ t.fp = f
        /\ r.status # "absent" /\ r.ready # "asha_eligible" => t.fp = r.fp
        /\ r.status # "absent" /\ r.ready = "asha_eligible" => q = s
    BY PreRegisteredIdentity
  <1> HIDE DEF k, q
  <1>2. r.status = "absent" => WithFingerprint(s, t.fp) = {}
    BY <1>1
  <1>3. r.status # "absent" => k \in Registered(s) /\ t.fp = r.fp
    BY <1>1 DEF Registered
  <1>4. \/ k \in Registered(s) /\ q.trial[k].fp = s.trial[k].fp
        \/ WithFingerprint(s, q.trial[k].fp) = {}
    BY <1>2, <1>3
  <1>5. KeepsPayloads(s, q)
    BY <1>1, <1>4, OneIsUnshared
  <1> QED BY <1>5 DEF q

(* While a process runs, no step of it gives a trial of an adapter-backed  *)
(* candidate a payload that another such trial carries already, except the *)
(* refresh of a pre-registered trial in place.                             *)
THEOREM PayloadsHaveOneTrial == Spec => OneTrialPerPayload
  <1>1. ASSUME IInv, Next, pc # "down", pc' # "down"
        PROVE  KeepsPayloads(study, study')
    <2>1. CASE Claim
      <3> DEFINE next == NextAssignment(study, confirm)
                 a == next.assignment
      <3>1. a # NoAssignment /\ study' = MarkRunning(next.study, a)
        BY <2>1 DEF Claim
      <3>2. /\ Sound(next.study) /\ a \in Assignments /\ next.study.asg[a].status # "none"
            /\ KeepsIdentity(study, next.study)
        BY <1>1, <3>1, NextAssignmentIsSound, NextAssignmentKeepsIdentity DEF IInv, Typed
      <3> HIDE DEF next, a
      <3>3. KeepsIdentity(study, study')
        BY <3>1, <3>2, MarkRunningKeepsIdentity, KeepsIdentityIsTransitive
      <3> QED BY <3>3, KeptIsUnshared
    <2>2. CASE RecoverEvidence \/ TrainingCompletes \/ CandidateFails \/ ControlFails
      BY <1>1, <2>2, ReportingKeepsIdentity, KeptIsUnshared
    <2>3. CASE StartPlanning
      BY <1>1, <2>3, NextAssignmentKeepsIdentity, KeptIsUnshared DEF StartPlanning, IInv, Typed
    <2>4. CASE RegisterCandidate
      <3>1. PICK i \in Ids : \E f \in FpsOf[i] : study' = Register(study, i, f)
        BY <2>4 DEF RegisterCandidate
      <3>2. PICK f \in Fps : study' = Register(study, i, f)
        BY <3>1, DriverAssumption
      <3> QED BY <1>1, <3>2, RegisterIsUnshared DEF IInv
    <2>5. CASE BlockCandidate
      <3>1. PICK i \in Ids, src \in BOOLEAN : \E f \in FpsOf[i] : study' = PreRegister(study, i, f, src)
        BY <2>5 DEF BlockCandidate
      <3>2. PICK f \in Fps : study' = PreRegister(study, i, f, src)
        BY <3>1, DriverAssumption
      <3> QED BY <1>1, <3>2, PreRegisterIsUnshared DEF IInv
    <2>6. CASE ResourceRecoveryPending \/ Save \/ EndPlanning
      <3>1. study' = study
        BY <2>6 DEF ResourceRecoveryPending, Save, EndPlanning
      <3> QED BY <3>1 DEF KeepsPayloads, SharesIn
    <2> QED BY <1>1, <2>1, <2>2, <2>3, <2>4, <2>5, <2>6 DEF Next, Start, Die
  <1>2. IInv /\ [Next]_vars =>
          [\A k, m \in Keys :
             /\ IsPaper(k) /\ IsPaper(m) /\ k # m /\ pc # "down" /\ pc' # "down"
             /\ (SamePayload(study, k, m))'
             => SamePayload(study, k, m) \/ Refreshed(k) \/ Refreshed(m)]_vars
    BY <1>1 DEF KeepsPayloads, SharesIn, SamePayload, RefreshedIn, Refreshed, Registered
  <1> QED BY <1>2, Invariance, PTL DEF Spec, OneTrialPerPayload
=============================================================================
