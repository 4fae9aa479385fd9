--------------------------- MODULE AshaScheduler ---------------------------
(***************************************************************************)
(* The ASHA budget authority, agents/asha_scheduler.py.                    *)
(*                                                                         *)
(* A study is one persisted record: the trials in registration order, the  *)
(* assignments in issue order.  Every public method of ASHAScheduler is an *)
(* operator from a study to a study, so that the driver (the module        *)
(* AutoOptimizationLoop) can compose the calls it makes between two saves. *)
(*                                                                         *)
(* Deltas are integers in units of 1e-3 of the paired metric.  An          *)
(* observation without a delta is a partial one with delta 0: the code     *)
(* treats None and 0 alike everywhere a partial observation is read.       *)
(***************************************************************************)
EXTENDS Integers, Sequences, FiniteSets

CONSTANTS
  Ids,              \* candidate ids; the driver's trial id is a function of it
  Fps,              \* execution fingerprints a candidate's payload can have
  Paper,            \* the ids backed by an executable paper adapter
  LossInjection,    \* the ids with a "loss." component
  ProtocolOf,       \* matched-control protocol an id is paired under, or NoPlan
  NoPlan,           \* value of ProtocolOf for ids without a control plan
  PilotFloor,       \* paired_delta_noise_floor of the pilot_3 rung
  LossFloor,        \* LOSS_INJECTION_PILOT_3_FLOOR
  ReductionFactor,  \* reduction_factor of the pilot_3 rung
  MinCompleted,     \* minimum_completed of the pilot_3 rung
  BreakerLimit      \* ADAPTER_CIRCUIT_BREAKER_LIMIT

ASSUME SchedulerAssumption ==
  /\ Paper \subseteq Ids
  /\ LossInjection \subseteq Ids
  /\ DOMAIN ProtocolOf = Ids
  /\ \A i \in Paper : ProtocolOf[i] # NoPlan
  /\ PilotFloor \in Int /\ LossFloor \in Int
  /\ ReductionFactor \in Nat \ {0, 1}
  /\ MinCompleted \in Nat \ {0}
  /\ BreakerLimit \in Nat

-----------------------------------------------------------------------------
(***************************************************************************)
(* The ladder: a slot is a (stage_id, seed_index) pair, the identity of an *)
(* observation and, with the trial, of an assignment.                      *)
(***************************************************************************)
FullSlots == {"full_1", "full_2", "full_3"}
Slots == {"pilot_3", "pilot_10"} \cup FullSlots

NoStage == "none"
Stages == {"pilot_3", "pilot_10", "candidate_full_seed_1",
           "candidate_full_confirmation"}

StageOf(slot) == CASE slot = "pilot_3"  -> "pilot_3"
                   [] slot = "pilot_10" -> "pilot_10"
                   [] slot = "full_1"   -> "candidate_full_seed_1"
                   [] OTHER             -> "candidate_full_confirmation"

(* A trial id is the candidate's own id, or that id suffixed with the      *)
(* fingerprint of an evolved payload.                                      *)
Base == "base"
Keys == Ids \X (Fps \cup {Base})

Terminal == {"failed", "eliminated", "confirmed"}
Runnable == {"waiting", "running", "promotion_pending",
             "full_pending_confirmation", "confirmation_pending"}
TrialStatuses == {"absent", "needs_evidence"} \cup Runnable \cup Terminal
Outstanding == {"issued", "running"}
AssignmentStatuses == {"none", "completed", "failed", "deferred"} \cup Outstanding

ObsKinds == {"none", "failed", "partial", "complete"}
Causes == {"none", "adapter", "training", "conflict"}
Gates == {"none", "pass", "fail"}

(* fp, the payload that was trained, is a ghost: the code can only recover *)
(* it from the node the observation names.                                 *)
Observations == [kind : ObsKinds, cause : Causes, delta : Int, gate : Gates,
                 improved : BOOLEAN, fp : Fps \cup {Base}]

NoObs == [kind |-> "none", cause |-> "none", delta |-> 0, gate |-> "none",
          improved |-> FALSE, fp |-> Base]

TrialRecords == [status : TrialStatuses,
                 pending : Stages \cup {NoStage},
                 ready : {"none", "pre_registered", "asha_eligible"},
                 fp : Fps \cup {Base},
                 src : BOOLEAN,       \* source node metadata says asha_eligible
                 plan : {ProtocolOf[i] : i \in Ids} \cup {NoPlan},
                 adapter : BOOLEAN,   \* eliminated_reason starts with "adapter"
                 obs : [Slots -> Observations]]

NoTrial == [status |-> "absent", pending |-> NoStage, ready |-> "none",
            fp |-> Base, src |-> FALSE, plan |-> NoPlan, adapter |-> FALSE,
            obs |-> [slot \in Slots |-> NoObs]]

(* bound: the assignment names the child run that executes it.             *)
AssignmentRecords == [status : AssignmentStatuses, bound : BOOLEAN]

NoRecord == [status |-> "none", bound |-> FALSE]

Studies == [order : Seq(Keys),
            trial : [Keys -> TrialRecords],
            alist : Seq(Keys \X Slots),
            asg   : [Keys \X Slots -> AssignmentRecords]]

EmptyStudy == [order |-> <<>>,
               trial |-> [k \in Keys |-> NoTrial],
               alist |-> <<>>,
               asg   |-> [a \in Keys \X Slots |-> NoRecord]]

NoAssignment == <<>>

IsPaper(k) == k[1] \in Paper
Registered(s) == {k \in Keys : s.trial[k].status # "absent"}
WithFingerprint(s, f) == {k \in Registered(s) : s.trial[k].fp = f}

(* The first and the last element of a list that belong to a set.          *)
IndicesIn(list, S) == {i \in DOMAIN list : list[i] \in S}
FirstIn(list, S) ==
  list[CHOOSE i \in IndicesIn(list, S) : \A j \in IndicesIn(list, S) : i =< j]
LastIn(list, S) ==
  list[CHOOSE i \in IndicesIn(list, S) : \A j \in IndicesIn(list, S) : j =< i]

(* k was registered before m.                                              *)
Before(s, k, m) == FirstIn(s.order, {k, m}) = k /\ k # m

-----------------------------------------------------------------------------
(***************************************************************************)
(* Construction and registration.                                          *)
(***************************************************************************)

(* Mutant: quarantine at a load forgets that the source was admitted.      *)
QuarantineEveryPaperTrial(s) ==
  [s EXCEPT !.trial =
    [k \in Keys |->
      LET r == s.trial[k] IN
      IF IsPaper(k) /\ r.status \in Runnable
      THEN [r EXCEPT !.status = "needs_evidence", !.pending = NoStage,
                     !.ready = "pre_registered", !.adapter = FALSE]
      ELSE r]]

(* _quarantine_unauthorized_paper_trials: run by every construction of a   *)
(* scheduler.  It leaves the trial's assignments alone.                    *)
Quarantine(s) ==
  [s EXCEPT !.trial =
    [k \in Keys |->
      LET r == s.trial[k] IN
      IF IsPaper(k) /\ ~r.src /\ r.status \in Runnable
      THEN [r EXCEPT !.status = "needs_evidence", !.pending = NoStage,
                     !.ready = "pre_registered", !.adapter = FALSE]
      ELSE r]]

(* _apply_adapter_circuit_breaker *)
AdapterFailures(s, k) ==
  {m \in Keys \ {k} : /\ m[1] = k[1]
                      /\ s.trial[m].status = "failed"
                      /\ s.trial[m].adapter}
(* Mutant: the breaker opens one failure too late.                         *)
BreakerOpensLate(s, k) ==
  IF /\ s.trial[k].status = "waiting" /\ IsPaper(k)
     /\ Cardinality(AdapterFailures(s, k)) > BreakerLimit
  THEN [s EXCEPT !.trial[k].status = "failed", !.trial[k].pending = NoStage,
                 !.trial[k].adapter = TRUE]
  ELSE s

Breaker(s, k) ==
  IF /\ s.trial[k].status = "waiting"
     /\ IsPaper(k)
     /\ Cardinality(AdapterFailures(s, k)) >= BreakerLimit
  THEN [s EXCEPT !.trial[k].status = "failed",
                 !.trial[k].pending = NoStage,
                 !.trial[k].adapter = TRUE]
  ELSE s

(* _activate_pre_registered_trial *)
Activate(r, protocol) ==
  [r EXCEPT !.ready = "asha_eligible", !.status = "waiting",
            !.pending = "pilot_3", !.adapter = FALSE,
            !.plan = IF protocol = NoPlan THEN @ ELSE protocol]

(* _refresh_pre_registered_trial_source: the payload changes in place and  *)
(* the observations stay.                                                  *)
RefreshSource(r, f) == [r EXCEPT !.fp = f, !.src = TRUE]

(* _attach_matched_control_plan *)
AttachPlan(r, protocol) == IF r.plan = NoPlan THEN [r EXCEPT !.plan = protocol] ELSE r
PlanConflict(r, protocol) == r.plan # NoPlan /\ protocol # NoPlan /\ r.plan # protocol

(* The trial id register_trial resolves to: a live binding to another      *)
(* payload is refused, a terminal one is released to a suffixed id.        *)
BoundElsewhere(s, k, f) ==
  /\ s.trial[k].status # "absent"
  /\ s.trial[k].ready # "pre_registered"
  /\ s.trial[k].fp # f
RegisterKey(s, i, f) == IF BoundElsewhere(s, <<i, Base>>, f) THEN <<i, f>> ELSE <<i, Base>>

(* Mutant: registration looks a trial up by its id only.                   *)
RegisterById(s, i, f) == RegisterKey(s, i, f)

(* The existing trial a registration lands on: by trial id, else, for a    *)
(* paper candidate, by fingerprint.                                        *)
RegisterTarget(s, i, f) ==
  LET k == RegisterKey(s, i, f) IN
  IF s.trial[k].status = "absent" /\ i \in Paper /\ WithFingerprint(s, f) # {}
  THEN FirstIn(s.order, WithFingerprint(s, f))
  ELSE k

(* register_trial raises, and changes nothing, unless this holds.          *)
CanRegister(s, i, f) ==
  LET r == s.trial[RegisterTarget(s, i, f)] IN
  /\ BoundElsewhere(s, <<i, Base>>, f) => s.trial[<<i, Base>>].status \in Terminal
  /\ ~BoundElsewhere(s, RegisterKey(s, i, f), f)
  /\ r.ready # "pre_registered" => ~PlanConflict(r, ProtocolOf[i])

NewTrial(i, f, ready, status, pending, src, protocol) ==
  [NoTrial EXCEPT !.status = status, !.pending = pending, !.ready = ready,
                  !.fp = f, !.src = src, !.plan = protocol]

AddTrial(s, k, r) == [s EXCEPT !.order = Append(@, k), !.trial[k] = r]

(* register_trial of an authorized candidate: a paper candidate's node     *)
(* carries readiness asha_eligible, a native one none at all.              *)
Register(s, i, f) ==
  LET k == RegisterTarget(s, i, f)
      r == s.trial[k]
      byId == k = RegisterKey(s, i, f)
      ready == IF i \in Paper THEN "asha_eligible" ELSE "none"
  IN Breaker(
       IF r.status = "absent"
       THEN AddTrial(s, k, NewTrial(i, f, ready, "waiting", "pilot_3", TRUE, ProtocolOf[i]))
       ELSE [s EXCEPT !.trial[k] =
               IF r.ready = "pre_registered"
               THEN Activate(IF byId THEN RefreshSource(r, f) ELSE r, ProtocolOf[i])
               ELSE AttachPlan(r, ProtocolOf[i])],
       k)

(* pre_register_trial, with the trial id the driver's mark() reserves: the *)
(* trial that already carries the fingerprint, else the candidate's id.    *)
PreRegisterTarget(s, i, f) ==
  IF WithFingerprint(s, f) # {} THEN FirstIn(s.order, WithFingerprint(s, f)) ELSE <<i, Base>>

PreRegister(s, i, f, src) ==
  LET k == PreRegisterTarget(s, i, f)
      r == s.trial[k]
  IN CASE r.status = "absent" ->
            AddTrial(s, k, NewTrial(i, f, "pre_registered", "needs_evidence", NoStage, src, NoPlan))
       [] r.status # "absent" /\ r.ready # "asha_eligible" ->
            [s EXCEPT !.trial[k] = [r EXCEPT !.ready = "pre_registered",
                                             !.status = "needs_evidence",
                                             !.pending = NoStage,
                                             !.adapter = FALSE]]
       [] OTHER -> s

-----------------------------------------------------------------------------
(***************************************************************************)
(* Reports: one observation, the closing of its assignment, the ruling of  *)
(* its rung and, for pilot_3, the re-ranking of both cohorts.              *)
(***************************************************************************)

(* _refresh_pilot_3_promotions ranks the adapter-backed and the native     *)
(* trials apart; C is such a cohort.                                       *)
Cohort(s, k) == {m \in Registered(s) : IsPaper(m) = IsPaper(k)}
Floor(k) == IF k[1] \in LossInjection /\ LossFloor < PilotFloor THEN LossFloor ELSE PilotFloor
Pilot(s, k) == s.trial[k].obs["pilot_3"]

PilotCompleted(s, C) ==
  {k \in C : Pilot(s, k).kind = "complete" /\ s.trial[k].status \notin {"failed", "needs_evidence"}}
PilotRejected(s, C) ==
  {k \in PilotCompleted(s, C) : Pilot(s, k).delta < Floor(k) \/ Pilot(s, k).gate = "fail"}
PilotEligible(s, C) ==
  {k \in PilotCompleted(s, C) \ PilotRejected(s, C) : s.trial[k].status # "eliminated"}
PilotOutstanding(s, C) ==
  {k \in C : /\ s.trial[k].pending = "pilot_3"
             /\ Pilot(s, k).kind = "none"
             /\ s.trial[k].status \notin {"eliminated", "failed"}}

AtLeastOne(n) == IF n = 0 THEN 1 ELSE n
PromotionSlots(s, k) ==
  LET n == Cardinality(PilotCompleted(s, Cohort(s, k))) IN
  IF IsPaper(k)
  THEN AtLeastOne(n \div ReductionFactor)
  ELSE IF n < MinCompleted THEN 0 ELSE n \div ReductionFactor

(* A stable sort by descending delta ranks equal deltas by registration.   *)
Outranks(s, m, k) ==
  \/ Pilot(s, m).delta > Pilot(s, k).delta
  \/ Pilot(s, m).delta = Pilot(s, k).delta /\ Before(s, m, k)

(* Mutant: promotion does not wait for the rest of the cohort.             *)
IsWinnerSoFar(s, k) ==
  LET eligible == PilotEligible(s, Cohort(s, k)) IN
  k \in eligible /\ Cardinality({m \in eligible : Outranks(s, m, k)}) < PromotionSlots(s, k)

IsPilotWinner(s, k) ==
  LET eligible == PilotEligible(s, Cohort(s, k)) IN
  /\ PilotOutstanding(s, Cohort(s, k)) = {}
  /\ k \in eligible
  /\ Cardinality({m \in eligible : Outranks(s, m, k)}) < PromotionSlots(s, k)

Eliminated(r) == [r EXCEPT !.status = "eliminated", !.pending = NoStage, !.adapter = FALSE]

RefreshPilot3Promotions(s) ==
  [s EXCEPT !.trial =
    [k \in Keys |->
      LET r == s.trial[k] IN
      CASE k \in PilotRejected(s, Cohort(s, k)) -> Eliminated(r)
        [] r.status = "waiting" /\ r.obs["pilot_10"].kind = "none" /\ IsPilotWinner(s, k) ->
             [r EXCEPT !.status = "promotion_pending", !.pending = "pilot_10"]
        [] OTHER -> r]]

(* Mutant: a failed gate does not stop a positive pilot_10.                *)
FinishPilot10Ungated(r, o) ==
  IF o.delta > 0 /\ o.improved
  THEN [r EXCEPT !.status = "full_pending_confirmation", !.pending = "candidate_full_seed_1"]
  ELSE Eliminated(r)

(* _finish_pilot_10 *)
FinishPilot10(r, o) ==
  IF o.delta > 0 /\ o.gate = "pass" /\ o.improved
  THEN [r EXCEPT !.status = "full_pending_confirmation", !.pending = "candidate_full_seed_1"]
  ELSE Eliminated(r)

(* _finish_full_seed_1 *)
FinishFullSeed1(r, o) ==
  IF o.delta > 0 /\ o.gate = "pass"
  THEN [r EXCEPT !.status = "confirmation_pending", !.pending = "candidate_full_confirmation"]
  ELSE Eliminated(r)

(* _paired_seed_confidence_interval over three seeds: with S the sum and Q *)
(* the sum of squares of the deltas, mean > 4.303 * stdev / sqrt(3) iff    *)
(* S > 0 and 2 S^2 > 4.303^2 (3Q - S^2); 4.303^2 = 18.515809 is rounded up *)
(* to 18.516 to stay within TLC's integers.                                *)
Sum3(d) == d["full_1"] + d["full_2"] + d["full_3"]
SumSq3(d) == d["full_1"] * d["full_1"] + d["full_2"] * d["full_2"] + d["full_3"] * d["full_3"]
IntervalPositive(d) ==
  /\ Sum3(d) > 0
  /\ 2000 * Sum3(d) * Sum3(d) > 18516 * (3 * SumSq3(d) - Sum3(d) * Sum3(d))

(* Mutant: three positive deltas confirm, whatever their spread.           *)
FinishConfirmationOnMeans(r) ==
  CASE \E slot \in FullSlots : r.obs[slot].kind = "none" ->
         [r EXCEPT !.status = "confirmation_pending", !.pending = "candidate_full_confirmation"]
    [] \A slot \in FullSlots : r.obs[slot].delta > 0 /\ r.obs[slot].gate = "pass" ->
         [r EXCEPT !.status = "confirmed", !.pending = NoStage]
    [] OTHER -> Eliminated(r)

(* _finish_confirmation *)
FinishConfirmation(r) ==
  IF \E slot \in FullSlots : r.obs[slot].kind = "none"
  THEN [r EXCEPT !.status = "confirmation_pending", !.pending = "candidate_full_confirmation"]
  ELSE IF /\ \A slot \in FullSlots : r.obs[slot].delta > 0 /\ r.obs[slot].gate = "pass"
          /\ IntervalPositive([slot \in FullSlots |-> r.obs[slot].delta])
  THEN [r EXCEPT !.status = "confirmed", !.pending = NoStage]
  ELSE Eliminated(r)

(* Mutant: partial evidence of a full run is ruled on like complete one.   *)
RulingOnPartial(r, slot, o) ==
  CASE o.kind = "failed" -> [r EXCEPT !.status = "failed", !.pending = NoStage]
    [] o.kind = "partial" /\ slot \notin FullSlots ->
         [r EXCEPT !.status = "needs_evidence", !.pending = StageOf(slot)]
    [] slot = "pilot_3"  -> [r EXCEPT !.status = "waiting", !.pending = NoStage]
    [] slot = "pilot_10" -> FinishPilot10(r, o)
    [] slot = "full_1"   -> FinishFullSeed1(r, o)
    [] OTHER -> FinishConfirmation(r)

(* The status report() gives the trial r, which already holds o at slot.   *)
Ruling(r, slot, o) ==
  CASE o.kind = "failed" ->
         [r EXCEPT !.status = "failed", !.pending = NoStage, !.adapter = (o.cause = "adapter")]
    [] o.kind = "partial" ->
         [r EXCEPT !.status = "needs_evidence", !.pending = StageOf(slot)]
    [] o.kind = "complete" /\ slot = "pilot_3" ->
         [r EXCEPT !.status = "waiting", !.pending = NoStage]
    [] o.kind = "complete" /\ slot = "pilot_10" -> FinishPilot10(r, o)
    [] o.kind = "complete" /\ slot = "full_1"   -> FinishFullSeed1(r, o)
    [] OTHER -> FinishConfirmation(r)

Import(r, slot, o) == Ruling([r EXCEPT !.obs[slot] = o], slot, o)

(* _finish_assignment *)
Closed(rec, o) ==
  IF rec.status = "none" THEN rec
  ELSE [rec EXCEPT !.status = IF o.kind = "failed" THEN "failed" ELSE "completed"]

Report(s, k, slot, o) ==
  LET imported == [s EXCEPT !.trial[k] = Import(@, slot, o),
                            !.asg[<<k, slot>>] = Closed(@, o)]
  IN IF o.kind = "complete" /\ slot = "pilot_3"
     THEN RefreshPilot3Promotions(imported)
     ELSE imported

(* fail_matched_control: every trial paired under the protocol, whatever   *)
(* its status; the assignments are left alone.                             *)
FailMatchedControl(s, protocol) ==
  [s EXCEPT !.trial =
    [k \in Keys |->
      LET r == s.trial[k] IN
      IF r.status # "absent" /\ r.plan = protocol
      THEN [r EXCEPT !.status = "needs_evidence", !.pending = NoStage, !.adapter = FALSE]
      ELSE r]]

-----------------------------------------------------------------------------
(***************************************************************************)
(* Allocation.                                                             *)
(***************************************************************************)

(* _has_executable_paper_trial *)
PaperPending(s, confirm) ==
  \E k \in Keys :
    /\ IsPaper(k)
    /\ \/ s.trial[k].status \in {"waiting", "running", "promotion_pending"}
       \/ confirm /\ s.trial[k].status \in {"full_pending_confirmation", "confirmation_pending"}

(* Mutant: a trial gets the name of its stage as its status.               *)
RestoredStatusIsStage(slot) == StageOf(slot)

(* _deferred_trial_state, also _retry_trial_status of the driver           *)
RestoredStatus(slot) == CASE slot = "pilot_3"  -> "waiting"
                          [] slot = "pilot_10" -> "promotion_pending"
                          [] slot = "full_1"   -> "full_pending_confirmation"
                          [] OTHER             -> "confirmation_pending"
Restored(r, slot) == [r EXCEPT !.status = RestoredStatus(slot), !.pending = StageOf(slot)]

OutstandingAssignments(s) == {a \in Keys \X Slots : s.asg[a].status \in Outstanding}

(* Mutant: preemption defers what natives have finished, too.              *)
NativeAllocations(s) ==
  {a \in Keys \X Slots : ~IsPaper(a[1]) /\ s.asg[a].status # "none"}

(* _defer_native_outstanding_assignments *)
NativeOutstanding(s) == {a \in OutstandingAssignments(s) : ~IsPaper(a[1])}
(* Mutant: preemption leaves the trials running.                           *)
DeferAssignmentsOnly(s) ==
  [s EXCEPT !.asg = [a \in Keys \X Slots |->
               IF a \in NativeOutstanding(s) THEN [s.asg[a] EXCEPT !.status = "deferred"]
               ELSE s.asg[a]]]

DeferNative(s) ==
  [s EXCEPT
    !.asg = [a \in Keys \X Slots |->
               IF a \in NativeOutstanding(s) THEN [s.asg[a] EXCEPT !.status = "deferred"]
               ELSE s.asg[a]],
    !.trial = [k \in Keys |->
                 LET mine == {a \in NativeOutstanding(s) : a[1] = k} IN
                 IF mine = {} THEN s.trial[k]
                 ELSE Restored(s.trial[k], LastIn(s.alist, mine)[2])]]

(* Mutants: a full budget is recovered without consent; what was running   *)
(* when the process died is not recovered.                                 *)
RecoverableWithoutConsent(s, confirm, paperOnly) ==
  {a \in OutstandingAssignments(s) : paperOnly => IsPaper(a[1])}
RecoverableIfIssued(s, confirm, paperOnly) ==
  {a \in OutstandingAssignments(s) : /\ s.asg[a].status = "issued"
                                     /\ a[2] \in FullSlots => confirm
                                     /\ paperOnly => IsPaper(a[1])}

(* _recoverable_assignment: in issue order, whatever became of the trial.  *)
Recoverable(s, confirm, paperOnly) ==
  {a \in OutstandingAssignments(s) : /\ a[2] \in FullSlots => confirm
                                     /\ paperOnly => IsPaper(a[1])}

(* _ordered_trials: paper first, registration order within a class.        *)
FirstTrial(s, S) ==
  LET P == {k \in S : IsPaper(k)} IN FirstIn(s.order, IF P # {} THEN P ELSE S)

(* _assignment: a new allocation, or a deferred one under a fresh binding. *)
Allocate(s, a) ==
  CASE s.asg[a].status = "none" ->
         [s EXCEPT !.alist = Append(@, a),
                   !.asg[a] = [status |-> "issued", bound |-> FALSE]]
    [] s.asg[a].status = "deferred" ->
         [s EXCEPT !.asg[a] = [status |-> "issued", bound |-> FALSE]]
    [] OTHER -> s

MissingSeed(r) == IF r.obs["full_2"].kind = "none" THEN "full_2" ELSE "full_3"

(* The passes of next_assignment, in their order: what is outstanding, then *)
(* what a status asks for.                                                 *)
TrialsAt(s, status) == {k \in Keys : s.trial[k].status = status}
Passes(s, confirm) ==
  << IF confirm
     THEN {<<k, MissingSeed(s.trial[k])>> :
             k \in {m \in TrialsAt(s, "confirmation_pending") :
                      \E slot \in {"full_2", "full_3"} : s.trial[m].obs[slot].kind = "none"}}
     ELSE {},
     IF confirm
     THEN {<<k, "full_1">> : k \in TrialsAt(s, "full_pending_confirmation")}
     ELSE {},
     {<<k, "pilot_3">> : k \in {m \in TrialsAt(s, "waiting") :
                                 /\ s.trial[m].pending = "pilot_3"
                                 /\ Pilot(s, m).kind = "none"}},
     {<<k, "pilot_10">> : k \in {m \in TrialsAt(s, "promotion_pending") :
                                  s.trial[m].pending = "pilot_10"}} >>

(* Which assignment next_assignment hands out once natives are deferred.   *)
Selection(s, confirm, paperOnly) ==
  LET Visible(S) == {a \in S : paperOnly => IsPaper(a[1])}
      wanting    == {p \in 1..4 : Visible(Passes(s, confirm)[p]) # {}}
      pass       == CHOOSE p \in wanting : \A q \in wanting : p =< q
      offered    == Visible(Passes(s, confirm)[pass])
  IN IF Recoverable(s, confirm, paperOnly) # {}
     THEN FirstIn(s.alist, Recoverable(s, confirm, paperOnly))
     ELSE IF wanting = {} THEN NoAssignment
     ELSE CHOOSE a \in offered : a[1] = FirstTrial(s, {b[1] : b \in offered})

(* next_assignment: the study it leaves and the assignment it returns.     *)
NextAssignment(s, confirm) ==
  LET paperOnly == PaperPending(s, confirm)
      deferred  == IF paperOnly THEN DeferNative(s) ELSE s
      a         == Selection(deferred, confirm, paperOnly)
  IN [study |-> IF a = NoAssignment THEN deferred ELSE Allocate(deferred, a),
      assignment |-> a]

(* mark_running, with the child run's id: a consumed assignment raises.    *)
CanRun(s, a) == s.asg[a].status \notin {"none", "completed", "failed"}
(* Mutant: a launched assignment counts as consumed.                       *)
MarkConsumed(s, a) ==
  [s EXCEPT !.asg[a] = [status |-> "completed", bound |-> TRUE],
            !.trial[a[1]].status = "running",
            !.trial[a[1]].pending = StageOf(a[2])]

MarkRunning(s, a) ==
  [s EXCEPT !.asg[a] = [status |-> "running", bound |-> TRUE],
            !.trial[a[1]].status = "running",
            !.trial[a[1]].pending = StageOf(a[2])]
=============================================================================
