------------------------------ MODULE RoundPlan ------------------------------
(***************************************************************************)
(* One round of guarded halving (core/round_execution_plan.py) under the   *)
(* training-loop driver (agents/orchestrator.py).  The round plan is the   *)
(* authority: the experiment plan is projected from it for older readers,  *)
(* the execution queue is built from it and carries its hash, and the      *)
(* driver cuts the cohort at pilot_3 and again at pilot_10 once every      *)
(* candidate and the matched control have imported evidence.               *)
(*                                                                         *)
(* Plan, projection, queue and evidence are separate files, written one    *)
(* after the other; the driver may die between any two writes and is       *)
(* invoked again.  The bound on the steps of one invocation is left out:   *)
(* it stops a driver where it may die as well.  What one queue item may go *)
(* through is the subject of ExecutionQueue: here an item is queued,       *)
(* running, completed or failed.  The control shifts every effect of a     *)
(* stage alike, so that a measurement is the effect itself.  A second      *)
(* evaluation of the policies, which starts another round in the same      *)
(* files, is not modelled.                                                 *)
(***************************************************************************)
EXTENDS Integers, FiniteSets

CONSTANTS
  Candidates,   \* the cohort: numbers, in the order of the guarded budget
  Control,      \* the matched baseline control
  Effects,      \* effects a pilot may measure
  None,         \* no trusted measurement
  PostEval,     \* require_complete_post_eval: guarded coupled ablations
  TopK,         \* keep_top_k of pilot_10: 2
  MaxFaults     \* bound: drivers that died, trainings that failed or left no evidence

ASSUME CandidatesAssumption == Candidates \subseteq Nat /\ IsFiniteSet(Candidates)
ASSUME ControlAssumption == Control \notin Candidates
ASSUME EffectsAssumption == Effects \subseteq Int /\ None \notin Int
ASSUME PostEvalAssumption == PostEval \in BOOLEAN
ASSUME TopKAssumption == TopK \in Nat \ {0}
ASSUME FaultsAssumption == MaxFaults \in Nat

Pilots == {"pilot_3", "pilot_10"}
Nodes == Pilots \X (Candidates \cup {Control})

VARIABLES
  plan,         \* round_execution_plan.yaml
  projection,   \* experiment_plan.yaml: the nodes of the active stage
  queue,        \* execution_queue.yaml
  evidence,     \* per node, its latest trusted metric and its post-eval
  driver,       \* the driver: where it is, the node it trains, the result
  closing,      \* the stages after the queue: how far they came
  faults        \* drivers that died and trainings in vain so far

vars == <<plan, projection, queue, evidence, driver, closing, faults>>
-----------------------------------------------------------------------------
(* The plan.                                                               *)

NoPlan ==
  [stage |-> "none", status |-> [n \in Nodes |-> "none"], rank |-> [n \in Nodes |-> 0],
   score |-> [n \in Nodes |-> None], work |-> {}, full |-> {}, controlled |-> FALSE, waiting |-> FALSE]

Cohort(p, s) == {c \in Candidates : p.status[<<s, c>>] # "none"}
Active(p, s) == {c \in Candidates : p.status[<<s, c>>] = "active"}

(* Mutant: the hash does not know which stage has the work.                *)
PlanHashWithoutWork(p) == [assigned |-> {}, full |-> p.full, work |-> {}]

(* plan_hash: the identities of the assignments and the executable nodes;  *)
(* statuses, scores and the stage pointer are progress and stay out.       *)
PlanHash(p) == [assigned |-> {n \in Nodes : p.status[n] # "none"}, full |-> p.full, work |-> p.work]

(* build_round_execution_plan: the selected candidates start at pilot_3    *)
(* beside the control; without a control they are deferred.                *)
NewPlan(selected, controlled) ==
  LET work == IF controlled /\ selected # {} THEN {"pilot_3"} \X (selected \cup {Control}) ELSE {}
  IN [NoPlan EXCEPT
      !.stage = "pilot_3",
      !.status = [n \in Nodes |-> IF n \in work THEN "active"
                                  ELSE IF n[1] = "pilot_3" /\ n[2] \in selected THEN "deferred" ELSE "none"],
      !.rank = [n \in Nodes |-> IF n[1] = "pilot_3" /\ n[2] \in selected
                                THEN Cardinality({c \in selected : c <= n[2]}) ELSE 0],
      !.work = work, !.controlled = controlled]

(* _keep_count: pilot_3 keeps half, rounded up, pilot_10 the top.          *)
KeepCount(s, count) ==
  IF s = "pilot_3" THEN (count + 1) \div 2 ELSE IF count < TopK THEN count ELSE TopK

(* Mutant: candidates keep the rank they entered the stage with.           *)
OutranksOnEntry(p, s, c, d) == p.rank[<<s, c>>] < p.rank[<<s, d>>]

(* Candidates are ranked by their paired effect, the sort is stable.       *)
Outranks(p, s, c, d) ==
  \/ evidence[<<s, c>>].metric > evidence[<<s, d>>].metric
  \/ evidence[<<s, c>>].metric = evidence[<<s, d>>].metric /\ p.rank[<<s, c>>] < p.rank[<<s, d>>]
Place(p, s, c) == 1 + Cardinality({d \in Active(p, s) : d # c /\ Outranks(p, s, d, c)})
Kept(p, s) == {c \in Active(p, s) : Place(p, s, c) <= KeepCount(s, Cardinality(Active(p, s)))}

(* A pair needs both observations, and a guarded ablation the complete     *)
(* post-eval of every node, the control's included.                        *)
Evaluated(p, s) ==
  PostEval => \A c \in Active(p, s) \cup {x \in {Control} : p.status[<<s, x>>] = "active"} : evidence[<<s, c>>].eval
Paired(s, c) == evidence[<<s, c>>].metric # None /\ evidence[<<s, Control>>].metric # None
Decidable(p) == Evaluated(p, p.stage) /\ \A c \in Active(p, p.stage) : Paired(p.stage, c)

(* Mutants: the losers of a cut stay active; a cut decides every stage.    *)
DecidedWinners(p) ==
  LET s == p.stage
  IN [p EXCEPT
        !.status = [n \in Nodes |->
          IF n[1] = s /\ (n[2] = Control \/ n[2] \in Kept(p, s)) THEN "completed" ELSE p.status[n]],
        !.score = [n \in Nodes |->
          IF n[1] = s /\ n[2] \in Kept(p, s) THEN evidence[n].metric ELSE p.score[n]]]
DecidedEverywhere(p) ==
  LET s == p.stage
  IN [p EXCEPT
        !.status = [n \in Nodes |->
          IF p.status[n] \in {"none", "deferred"} THEN p.status[n]
          ELSE IF n[2] = Control \/ n[2] \in Kept(p, s) THEN "completed" ELSE "eliminated"],
        !.score = [n \in Nodes |->
          IF n[1] = s /\ n[2] \in Active(p, s) THEN evidence[n].metric ELSE p.score[n]]]

(* The cut of a stage.                                                     *)
Decided(p) ==
  LET s == p.stage
  IN [p EXCEPT
        !.status = [n \in Nodes |->
          IF n[1] # s \/ p.status[n] # "active" THEN p.status[n]
          ELSE IF n[2] = Control \/ n[2] \in Kept(p, s) THEN "completed" ELSE "eliminated"],
        !.score = [n \in Nodes |->
          IF n[1] = s /\ n[2] \in Active(p, s) THEN evidence[n].metric ELSE p.score[n]]]

(* Mutant: the work of the stage that was cut stays executable.            *)
PromotedBeside(p) ==
  LET kept == Kept(p, "pilot_3")
      cut == Decided(p)
      next == {"pilot_10"} \X (kept \cup {Control})
  IN [cut EXCEPT
        !.stage = "pilot_10",
        !.status = [n \in Nodes |-> IF n \in next THEN "active" ELSE cut.status[n]],
        !.rank = [n \in Nodes |-> IF n \in next /\ n[2] # Control THEN Place(p, "pilot_3", n[2]) ELSE p.rank[n]],
        !.work = p.work \cup next, !.waiting = FALSE]

Promoted(p) ==
  LET kept == Kept(p, "pilot_3")
      cut == Decided(p)
      next == {"pilot_10"} \X (kept \cup {Control})
  IN [cut EXCEPT
        !.stage = "pilot_10",
        !.status = [n \in Nodes |-> IF n \in next THEN "active" ELSE cut.status[n]],
        !.rank = [n \in Nodes |-> IF n \in next /\ n[2] # Control THEN Place(p, "pilot_3", n[2]) ELSE p.rank[n]],
        !.work = next, !.waiting = FALSE]

(* Mutant: everyone who trained pilot_10 is handed to the full budget.     *)
FinishedTogether(p) ==
  [Decided(p) EXCEPT !.stage = "full_pending_confirmation", !.work = {}, !.full = Active(p, "pilot_10"),
                     !.waiting = FALSE]

Finished(p) ==
  [Decided(p) EXCEPT !.stage = "full_pending_confirmation", !.work = {}, !.full = Kept(p, "pilot_10"),
                     !.waiting = FALSE]

(* reconcile *)
Reconciled(p) ==
  CASE ~Decidable(p) -> [p EXCEPT !.waiting = TRUE]
    [] Decidable(p) /\ p.stage = "pilot_10" -> Finished(p)
    [] Decidable(p) /\ p.stage = "pilot_3" /\ p.controlled -> Promoted(p)
    [] OTHER -> [Decided(p) EXCEPT !.work = {}, !.waiting = TRUE]
-----------------------------------------------------------------------------
(* The queue.                                                              *)

NoQueue == [hash |-> "missing"]
Materialized(p) == [hash |-> PlanHash(p),
                    status |-> [n \in Nodes |-> IF n \in p.work THEN "queued" ELSE "absent"]]
WithStatus(st) == {n \in Nodes : queue # NoQueue /\ queue.status[n] = st}
Fresh == queue # NoQueue /\ queue.hash = PlanHash(plan)

Off == [pc |-> "off", node |-> None, trained |-> FALSE]
At(place) == [Off EXCEPT !.pc = place]
NoEvidence == [metric |-> None, eval |-> FALSE]

Init ==
  /\ plan = NoPlan
  /\ projection = {}
  /\ queue = NoQueue
  /\ evidence = [n \in Nodes |-> NoEvidence]
  /\ driver = Off
  /\ closing = "none"
  /\ faults = 0
-----------------------------------------------------------------------------
(* The evaluation of the policies writes the plan and its projection.      *)
Plan ==
  /\ plan = NoPlan
  /\ \E selected \in SUBSET Candidates, controlled \in BOOLEAN :
       /\ plan' = NewPlan(selected, controlled)
       /\ projection' = plan'.work
  /\ UNCHANGED <<queue, evidence, driver, closing, faults>>

(* The driver: run_training_loop, one _next_training_loop_step at a time.  *)

Invoke ==
  /\ driver = Off /\ plan # NoPlan /\ closing # "closed"
  /\ driver' = At("step")
  /\ UNCHANGED <<plan, projection, queue, evidence, closing, faults>>

(* An item left running by a driver that died is queued again.             *)
RecoverStaleRunning ==
  /\ driver.pc = "step" /\ WithStatus("running") # {}
  /\ queue' = [queue EXCEPT !.status = [n \in Nodes |->
                 IF @[n] = "running" THEN "queued" ELSE @[n]]]
  /\ UNCHANGED <<plan, projection, evidence, driver, closing, faults>>

(* Mutant: the projection is written with the plan only.                   *)
EnqueueOnly ==
  /\ driver.pc = "step" /\ WithStatus("running") = {} /\ ~Fresh
  /\ driver' = At("enqueue")
  /\ UNCHANGED <<plan, projection, queue, evidence, closing, faults>>

(* enqueue: the projection is written first, then the queue.               *)
Enqueue ==
  /\ driver.pc = "step" /\ WithStatus("running") = {} /\ ~Fresh
  /\ projection' = plan.work
  /\ driver' = At("enqueue")
  /\ UNCHANGED <<plan, queue, evidence, closing, faults>>

WriteQueue ==
  /\ driver.pc = "enqueue"
  /\ queue' = Materialized(plan)
  /\ driver' = At("step")
  /\ UNCHANGED <<plan, projection, evidence, closing, faults>>

(* execute_queue takes the queued items in plan order, the control first.  *)
FirstQueued(n) ==
  /\ n \in WithStatus("queued")
  /\ \A m \in WithStatus("queued") : plan.rank[n] <= plan.rank[m]

Start(n) ==
  /\ \/ driver.pc = "step" /\ WithStatus("running") = {} /\ Fresh
     \/ driver.pc = "execute"
  /\ FirstQueued(n)
  /\ queue' = [queue EXCEPT !.status[n] = "running"]
  /\ driver' = [At("training") EXCEPT !.node = n]
  /\ UNCHANGED <<plan, projection, evidence, closing, faults>>

(* The executor imports what a completed training measured before the      *)
(* queue learns of the result.  The post-eval counts once it was complete; *)
(* where nobody asks for it, it is left out.                               *)
Measured == [metric : Effects, eval : {PostEval}]
Train(n, result) ==
  /\ driver.pc = "training" /\ driver.node = n
  /\ evidence' = [evidence EXCEPT ![n] = [metric |-> result.metric, eval |-> @.eval \/ result.eval]]
  /\ driver' = [driver EXCEPT !.pc = "trained", !.trained = TRUE]
  /\ UNCHANGED <<plan, projection, queue, closing, faults>>

(* A training may complete without a trusted metric or a complete          *)
(* post-eval: what earlier ones left stays.                                *)
Unmeasured == {NoEvidence} \cup (IF PostEval THEN [metric : Effects, eval : {FALSE}] ELSE {})
TrainInVain(n, result) ==
  /\ driver.pc = "training" /\ driver.node = n /\ faults < MaxFaults
  /\ evidence' = [evidence EXCEPT ![n].metric = IF result.metric # None THEN result.metric ELSE @]
  /\ driver' = [driver EXCEPT !.pc = "trained", !.trained = TRUE]
  /\ faults' = faults + 1
  /\ UNCHANGED <<plan, projection, queue, closing>>

Fail(n) ==
  /\ driver.pc = "training" /\ driver.node = n /\ faults < MaxFaults
  /\ driver' = [driver EXCEPT !.pc = "trained"]
  /\ faults' = faults + 1
  /\ UNCHANGED <<plan, projection, queue, evidence, closing>>

SaveResult(n) ==
  /\ driver.pc = "trained" /\ driver.node = n
  /\ queue' = [queue EXCEPT !.status[n] = IF driver.trained THEN "completed" ELSE "failed"]
  /\ driver' = At("execute")
  /\ UNCHANGED <<plan, projection, evidence, closing, faults>>

(* A pass over the queue that leaves failed items stops the driver.        *)
EndExecution ==
  /\ driver.pc = "execute" /\ WithStatus("queued") = {}
  /\ driver' = IF WithStatus("failed") # {} THEN Off ELSE At("step")
  /\ UNCHANGED <<plan, projection, queue, evidence, closing, faults>>

Drained == driver.pc = "step" /\ WithStatus("running") = {} /\ Fresh /\ WithStatus("queued") = {}

(* _reconcile_round_execution_plan: the plan is written before its         *)
(* projections.                                                            *)
Reconcile ==
  /\ Drained /\ plan.stage \in Pilots
  /\ plan' = Reconciled(plan)
  /\ driver' = At("reconciled")
  /\ UNCHANGED <<projection, queue, evidence, closing, faults>>

(* A round that waits for evidence or for the full confirmation stops the  *)
(* driver; a stage with work is enqueued.                                  *)
Project ==
  /\ driver.pc = "reconciled"
  /\ projection' = plan.work
  /\ driver' = IF plan.waiting \/ plan.work = {} THEN Off ELSE At("enqueue")
  /\ UNCHANGED <<plan, queue, evidence, closing, faults>>

(* The report and the next-round checklist follow a decided round.         *)
Close ==
  /\ Drained /\ plan.stage \notin Pilots
  /\ closing' = IF closing = "none" THEN "reported" ELSE "closed"
  /\ driver' = IF closing = "none" THEN driver ELSE Off
  /\ UNCHANGED <<plan, projection, queue, evidence, faults>>

Crash ==
  /\ driver # Off /\ faults < MaxFaults
  /\ faults' = faults + 1
  /\ driver' = Off
  /\ UNCHANGED <<plan, projection, queue, evidence, closing>>

(* The evidence of a completed training is recovered after the fact.       *)
RecoverEvidence(n) ==
  /\ driver = Off /\ n \in WithStatus("completed")
  /\ evidence[n].metric = None \/ evidence[n].eval # PostEval
  /\ \E e \in Effects :
       evidence' = [evidence EXCEPT ![n] = [metric |-> IF @.metric = None THEN e ELSE @.metric, eval |-> PostEval]]
  /\ UNCHANGED <<plan, projection, queue, driver, closing, faults>>
-----------------------------------------------------------------------------
Execute(n) ==
  \/ Start(n) \/ SaveResult(n) \/ Fail(n)
  \/ \E r \in Measured : Train(n, r)
  \/ \E r \in Unmeasured : TrainInVain(n, r)
Driver ==
  \/ Invoke \/ RecoverStaleRunning \/ Enqueue \/ WriteQueue \/ EndExecution
  \/ Reconcile \/ Project \/ Close
  \/ \E n \in Nodes : Execute(n)
Next == Plan \/ Driver \/ Crash \/ \E n \in Nodes : RecoverEvidence(n)

Spec == Init /\ [][Next]_vars
(* Drivers are invoked until the round is closed and take their steps;     *)
(* nobody owes the round lost evidence.                                    *)
FairSpec == Spec /\ WF_vars(Driver)
-----------------------------------------------------------------------------
Statuses == {"none", "active", "deferred", "completed", "eliminated"}
TypeOK ==
  /\ plan \in [stage : Pilots \cup {"none", "full_pending_confirmation"}, status : [Nodes -> Statuses],
               rank : [Nodes -> Nat], score : [Nodes -> Effects \cup {None}],
               work : SUBSET Nodes, full : SUBSET Candidates, controlled : BOOLEAN, waiting : BOOLEAN]
  /\ plan.work = {n \in Nodes : plan.status[n] = "active"}
  /\ projection \in SUBSET Nodes
  /\ queue = NoQueue \/ queue \in
       [hash : [assigned : SUBSET Nodes, full : SUBSET Candidates, work : SUBSET Nodes],
        status : [Nodes -> {"absent", "queued", "running", "completed", "failed"}]]
  /\ evidence \in [Nodes -> [metric : Effects \cup {None}, eval : BOOLEAN]]
  /\ driver \in [pc : {"off", "step", "enqueue", "execute", "training", "trained", "reconciled"},
                 node : Nodes \cup {None}, trained : BOOLEAN]
  /\ closing \in {"none", "reported", "closed"}
  /\ faults \in 0..MaxFaults

(* A cohort is decided as a whole or not at all, wherever a driver dies,   *)
(* and nobody is promoted or eliminated without evidence of the pair.      *)
DecidedAt(s) == {c \in Candidates : plan.status[<<s, c>>] \in {"completed", "eliminated"}}
CohortIsDecidedTogether ==
  \A s \in Pilots : DecidedAt(s) # {} =>
    DecidedAt(s) = Cohort(plan, s) /\ \A c \in DecidedAt(s) : Paired(s, c)

(* Whoever survives a cut has at least the recorded score of whoever does  *)
(* not, and as many survive as the stage keeps.                            *)
Survivors(s) == {c \in Candidates : plan.status[<<s, c>>] = "completed"}
SurvivorsOutrank ==
  \A s \in Pilots : DecidedAt(s) # {} =>
    /\ Cardinality(Survivors(s)) = KeepCount(s, Cardinality(DecidedAt(s)))
    /\ \A c \in Survivors(s), d \in DecidedAt(s) \ Survivors(s) : plan.score[<<s, c>>] >= plan.score[<<s, d>>]

(* Whatever trains is in the authoritative plan and in the projection the  *)
(* older readers take for it.                                              *)
TrainedIsProjected == driver.pc \in {"training", "trained"} => driver.node \in plan.work /\ projection = plan.work

(* Evidence that arrives after the cut, retried or recovered, changes      *)
(* neither a decision nor the score it was taken on.                       *)
DecisionsAreFinal ==
  [][\A s \in Pilots : \A c \in DecidedAt(s) :
       plan'.status[<<s, c>>] = plan.status[<<s, c>>] /\ plan'.score[<<s, c>>] = plan.score[<<s, c>>]]_plan

(* Halving is a budget ladder: a stage is granted only to the survivors of *)
(* the stage before, and a full budget only to those of pilot_10.          *)
StagesBelow(r) == CASE r = "pilot_3" -> {} [] r = "pilot_10" -> {"pilot_3"} [] OTHER -> Pilots
Ladder == INSTANCE BudgetLadder WITH
  Trials <- Candidates,
  Rungs <- Pilots \cup {"full"},
  Below <- [r \in Pilots \cup {"full"} |-> StagesBelow(r)],
  Top <- {"full"},
  AtOnce <- TRUE,
  granted <- [c \in Candidates |-> {s \in Pilots : plan.status[<<s, c>>] \in {"active", "completed", "eliminated"}}
                                   \cup {r \in {"full"} : c \in plan.full}],
  passed <- [c \in Candidates |-> {s \in Pilots : c \in Survivors(s)}],
  confirmed <- {}
ImplementsBudgetLadder == Ladder!Spec

(* Every round with a control is closed, unless a training fails or leaves *)
(* no trusted evidence.                                                    *)
Stuck ==
  \/ WithStatus("failed") # {}
  \/ \E n \in WithStatus("completed") : evidence[n].metric = None \/ (PostEval /\ ~evidence[n].eval)
RoundIsClosed == plan.controlled ~> closing = "closed" \/ Stuck
=============================================================================
