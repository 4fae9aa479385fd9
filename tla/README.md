# YOLO-Agent: a TLA+ model of the training-optimization loop

YOLO-Agent improves an object detector by itself: it plans candidates (recipes,
adapters reproduced from papers), trains each of them, compares them with a
matched control, gives larger training budgets only to those that earned them,
and confirms a winner on several seeds.  These modules model the parts of it that
decide who is trained next, that get a training done on a shared machine whatever
breaks, and that keep what was learned.  Every definition is translated from the
source; `PROJECT.json` ("map") names the lines.

## 1. Inventory

The commands in `cli.py` start one process on a run directory.  All state that
matters survives as YAML files in that directory; a process loads it, works, and
saves it at a few fixed places.  It may be interrupted or killed in between, and
running the same command again is the normal way to continue.

| component | state | operations | talks to |
|---|---|---|---|
| ASHA scheduler, `agents/asha_scheduler.py` | the study: trials (status, pending stage, readiness, fingerprint, observations), assignments | construct (quarantine), `register_trial`, `pre_register_trial`, `report`, `fail_matched_control`, `next_assignment`, `mark_running` | saved by `ASHAStudyStore` as `asha_state.yaml` |
| Automatic loop, `agents/auto_optimization_loop.py` | the scheduler in memory, the round summaries, the child run of each assignment | `run` and its helpers: reopen failures, recover evidence, claim, train, report, plan, save | scheduler (calls), child runs (`run_training_loop`), files |
| Round execution plan, `core/round_execution_plan.py` | `round_execution_plan.yaml`: stage, status of every node, active work, survivors | build, hash, project, `reconcile` | policy stage (creates it), driver (reconciles), queue (built from it) |
| Execution queue and orchestrator, `core/execution_queue.py`, `agents/orchestrator.py`, `core/resource_scheduler.py`, `core/execution_failure.py`, `core/process_probe.py`, `core/gpu_runtime.py` | queue items: status, attempts, last result, blockers, recovery counters | enqueue, refresh, launch, result, interruption, stale-running recovery, resource recovery | executor (call), process table, the stop command of `cli.py` (same file) |
| Executor, `core/executor.py` | the training process | refuse, clean up, start, stream, terminate, import evidence | queue, evidence store |
| Multi-seed confirmation, `agents/confirmation_*.py`, `agents/seed_confirmation.py`, `agents/promotion_rule.py` | the six-run matrix, request, approval, report | approve, execute, resume, statistics, promotion rule, consume, report | executor (hook), caller (files the request) |
| Maturity registry, `components/maturity_registry.py` | one overlay document, a lock file, a cache per process | `load`, `upsert`, `record_contract`, `apply`, `resolve` | certification (writes), planner (reads) |
| Stage loop, `core/loop_state.py`, `core/stage_contract.py` | stage, artifacts | `run_stage`, gate, resume | event log |
| Run allocation and lineage, `core/run_allocation.py`, `core/run_lineage.py`, `core/run_protocol.py` | run directories, parents, protocol binding | exclusive creation, reuse, migration | all commands |
| Planners: `agents/successive_halving.py`, `agents/bounded_hpo.py` | none | pure proposals | loop |
| Proposal ledger and candidate orchestration, `agents/paper_*` | disposition of every paper candidate | filter, defer, execute, retire | loop |
| Certification, `certification/` | reports, an exclusive lock | certify | CLI |
| Ultralytics adapter, research pipeline, component adapters, recipes, reports, tools | files | training code, retrieval, catalogues, rendering | external programs |

What is hard to test, and what makes each component correct:

- **Scheduler.**  A long sequence of legal calls in which a slot (trial, rung) is
  allocated more than once: deferral, reopening, evidence recovery,
  re-registration under a new payload.  Correct means that no budget is given
  without the evidence below it, a confirmation is earned, a completed allocation
  stays completed, a cohort is ranked only when complete, one payload has one
  trial, and nothing allocated is forgotten.
- **Loop.**  A crash between claim, training, report and save; the order in which
  two files are written; preemption of native work by adapter-backed candidates;
  a failed control shared by several trials.  Correct means that a measurement is
  recorded or can still be, that a running trial has somebody to finish it, and
  that every saved pilot allocation is decided.
- **Round plan.**  Plan, projection and queue are three files written one after
  the other; evidence arrives late; a cohort is cut twice.  Correct means that
  what trains is in the plan, that a cohort is decided together and for good on
  its effects, that nobody gets a budget without surviving the cut before, and
  that the round closes.
- **Queue.**  Crashing drivers leave trainings behind; the stop command writes
  stale copies whether or not it could kill anything; an interruption keeps the
  last result of an item; stale-running
  recovery forgets the attempts; five steps of the loop requeue items and two
  recoveries share a counter.  Correct means one trainer per item, a file that
  agrees with what trains, completions that stay, a bounded loss of batch size,
  and items that settle.
- **Confirmation.**  Expensive runs, a single-use approval, a process that dies
  anywhere, small samples decided at the boundary of an interval.  Correct means
  that nothing runs unapproved, nothing is paid twice, the report states the
  verdict of the matrix on file, and confirmed means better.
- **Maturity registry.**  Lost updates between processes, a cache served for
  another document, a lock whose holder died.
- **Certification lock, ledger, lineage.**  Stale lock files, monotonicity of a
  disposition, a run whose protocol changed.

`PROJECT.json` lists the hazards with their lines and the properties for them.

## 2. Plan

Most important first.  1 to 6 are built.

1. `AshaScheduler`, `AutoOptimizationLoop`, `BudgetLadder` (abstract): the budget
   authority and its driver.
2. `ExecutionQueue`: the queue with its driver, the training process and the stop
   command.
3. `RoundPlan`: guarded halving in the driver; a second implementation of
   `BudgetLadder`.
4. `ConfirmationWorkflow`: approval, matrix, statistics, verdict.
5. `MaturityRegistry`, `EvidenceStore` (abstract): lock, replace, cache.
6. Theorems about all of them: built, except for what section 5 lists as only
   model-checked.
7. Assignment shadows, round indices and child names in `AutoOptimizationLoop`.

Abstract specifications: `BudgetLadder` is implemented by the automatic loop
(saved study) and by the round plan, `EvidenceStore` by the registry.

## 3. The modules

**`AshaScheduler`** is the scheduler as a value: a *study* is a record of the
trials in registration order and the assignments in issue order, and every public
method is an operator from studies to studies, with its trailing steps included
(`Register` ends in the circuit breaker, `Report` of a complete `pilot_3` ends in
the re-ranking of both cohorts, `NextAssignment` begins by deferring native work).
It is written that way because the driver composes several calls between two saves.

- A *key* is a trial id: a candidate's own id, or that id suffixed with the
  fingerprint of an evolved payload.  A *slot* is a rung with its seed:
  `pilot_3`, `pilot_10`, `full_1..3`.  An assignment is a key with a slot.
- Deltas are integers in units of 1e-3.  The confidence interval of three seeds
  is decided by the same comparison as in the code, squared to stay in the
  integers, with 4.303^2 rounded up from 18.515809 to 18.516.
- `fp` inside an observation is a ghost: the payload that was trained.
- An assignment's `bound` flag says that it names a child run.

**`AutoOptimizationLoop`** is the driver process: `study` (the scheduler in
memory), `disk` (`asha_state.yaml`), `pc`, `confirm` (full-run authorization of
this process), `current` (the assignment in training) and `child` (what the child
run of each assignment left on disk).

| action | code |
|---|---|
| `Start` | load, quarantine, reopen retryable failures and save if any, first `next_assignment` |
| `RecoverEvidence` | `_recover_blocked_asha_evidence_round` |
| `Claim` | `next_assignment`, `mark_running`, save |
| `TrainingCompletes`, `CandidateFails`, `ControlFails`, `ResourceRecoveryPending` | the ways `child.run_training_loop` ends, with the report made of each |
| `Save` | the save after the round; stop or go on |
| `StartPlanning`, `RegisterCandidate`, `BlockCandidate`, `EndPlanning` | a round without allocation: `_run_one_round`, `_register_asha_trials` |
| `Die` | the process ends anywhere without saving |

What a child run holds is not redone: a measured child is measured alike by a
later process, a failed queue stays failed.

**`BudgetLadder`** is the abstract promise: a rung is granted only above passed
rungs, grants and passes are never lost, a trial is confirmed only at the top.
With `AtOnce` several trials take a step together, as a cohort that is cut does.

**`ExecutionQueue`** has the items on file (`queue`), per run the driver
(`driver`, its `cursor` and its `copy` of the items as it holds them in memory)
and the stop command (`stopping`, the items it loaded as running), the training
processes with and without a living driver (`child`, `orphans`), the `machine`,
and the files an item depends on (`checkpoint`, `evidence`, `stale`, `retried`).
`spared` is a history variable: the items that were marked interrupted while they
went on training.

| action | code |
|---|---|
| `Invoke`, `EndPass` | `run_training_loop` |
| `LoadQueue` | the loads of the queue file: at the top of a loop step, in `refresh_queue`, in `execute_queue` |
| `RecoverResources`, `CheckStale`, `RefreshQueue`, `DecideRecovered`, `DecideRetrySkipped`, `Decide` | one `_next_training_loop_step`, in the order of its writes: resource recovery, stale-running recovery and rebuilding, refresh, recovery again, retry of a skipped queue, execution |
| `Hold`, `Start`, `Record` | `execute_queue`: the scheduler holds an item back, `mark_running`, write-back of the copy |
| `Refuse`, `WaitForGpu`, `Spawn`, `TrainEnds` | the executor: gates, external workload, cleanup and process start, outcomes |
| `Interrupt`, `Crash`, `OrphanEnds` | Ctrl-C (its handler goes on like the stop command), death of the driver, end of a training it left |
| `StopKill`, `StopLoad`, `StopMark` | `stop`: kill what names the run, load the queue, then item by item kill its process and write the loaded copy back as interrupted |
| `PlanChanges`, `EvidenceArrives`, `Checkpointed`, `MachineChanges` | the rest of the system and the machine |

The driver loads the queue and writes it back in separate steps, so that the stop
command and the driver may each overwrite what the other wrote since; `update_item`,
which loads and saves in one go, is one step.  A kill that looks its target up in
the process table may fail in every way the code ignores: the table cannot be
read, the signal is not obeyed, the command line does not name the run (a driver
that works in the process of a parent run, or under an allocated run id).  So
`StopKill` and `StopMark` spare any of the processes, the driver included, and go
on all the same.  Only the executor that kills its own child by its handle is sure
of it.  One run has one driver and one stop command at a time; the driver may be
invoked while the stop command works.  A queue is retried when all of it was
skipped; the code also asks for a message of the fast baseline gate, the only
skip in the model.  The readiness gate of the scheduler blocks an item the way a
busy GPU does.

**`RoundPlan`** has the four files (`plan`, `projection`, `queue`, `evidence`),
the driver with the node it trains, the stages after the queue (`closing`), and
one action per write: `Plan` (the policy stage writes plan and projection),
`Invoke`, `RecoverStaleRunning`, `Enqueue` then `WriteQueue`, `Start`, `Train`,
`TrainInVain` or `Fail`, `SaveResult`, `EndExecution`, `Reconcile` then `Project`,
`Close`; `Crash` anywhere, `RecoverEvidence` later.  `Reconciled` is the whole of
`reconcile`.  What a single item may go through is left to `ExecutionQueue`.  The
control shifts every effect of its stage alike, so a measurement is the effect.

**`ConfirmationWorkflow`** has the matrix on file (`runs`), the request as the live
process holds it and as its caller filed it (`request`, `filed`), `approval`, the
workflow's place (`pc`) and the `report`.  Actions: `Approve`, `Launch` (gate and
grant, also of a resumption), `MarkRunning`, `MarkCompleted`, `MarkFailed`,
`Consume`, `Decide`, `FileRequest`, `Die`.  `Verdict` is the promotion rule with
its hard constraints, in the order of its early returns; the bounds of the paired
interval are compared with zero exactly, squared like those of the scheduler.

**`MaturityRegistry`** has the document, the lock, and per process the temporary
document, the cache and the operation.  `HitCache` answers without the lock;
`Acquire`, `ReadForLoad`, `ReadForUpsert`, `Replace` and `WriteFails` are the
locked section.  The cache key is the document's size, as if every write fell into
the same tick of the clock: exactness of the cache then rests on documents that
only grow, which the module shows.  **`EvidenceStore`** is the abstract promise:
atomic puts and gets.

**`MCAutoLoop`, `MCQueue`, `MCConfirmation`, `MCRegistry`, `MCRoundPlan`** give the
constants their values.

Operators whose comment begins with "Mutant", and those named as variations of
another (`BreakerOpensLate`, `MarkConsumed`, ...), stand before the operator they
vary.  They are plausible bugs, used to confirm that each property notices one
(`PROJECT.json`, "mutants"), and no specification uses them.

## 4. The runs

`p1`, `p2` are adapter-backed candidates, `n1` a native one.  The `asha_*` runs use
the code's floors (-3, -10) and reduction factor 2.

| run | instance | shows |
|---|---|---|
| `asha_ladder` | one adapter candidate, five measurements (good, very good, gate failed, negative, partial), three causes of failure; 19,574 states | types; confirmation is earned and verified; no measurement is lost; allocations are claimable; the ladder is implemented; full budgets are authorized; every saved pilot allocation is decided (liveness) |
| `asha_preemption` | one adapter and one native candidate | running trials keep their assignment through deferral; completed allocations are final |
| `asha_cohort` | two adapter candidates; pilots of two deltas, partial or failed; pilot_10 gates fail, which keeps the runs in the pilots; 65,223 states | promotion waits for the cohort and follows the ranking |
| `asha_identity` | two adapter candidates, one of which evolves into the payload of the other, failing adapters and plan conflicts, breaker limit 1; 150,876 states | a live trial keeps its payload; one trial per payload; the breaker stays open |
| `queue_recovery` | one evidence-gated pilot item, batch 16, two faults, one orphan; 620,784 states | the batch is halved at most three times; the item settles (liveness) |
| `queue_pair` | a pilot item and a matched, evidence-gated full-profile item in one queue, batch 4, one fault, one orphan; 2.2 million states | types; one trainer per item; what trains is running on file; completions are kept |
| `queue_wait` | one pilot item, two faults | violated: an item put down to an external workload stays waiting |
| `queue_halvings` | one pilot item, batch 16 | violated: a third halving of the batch |
| `confirmation` | six measurements (no gain, the target exactly, above it; a latency within, at and beyond the caps; primary or latency missing), target 2, absolute cap 22, relative cap 5%, two faults; 1,381,669 states | types; nothing runs unapproved; a spent approval buys nothing; finished seeds are kept; the report is current; confirmed wins every seed, by the target in the mean and within the caps; an approved confirmation is reported (liveness) |
| `minimize_rejected` | a metric to be minimized, three measurements, no faults | violated: an interval straddling zero is rejected |
| `registry` | two processes, two overlays, two artifacts, one death; 256,773 states | types; one writer; exact caches; evidence is kept; the atomic store is implemented; calls return (liveness) |
| `round_plan` | three candidates, two effects, post-evaluation required, three faults; 203,877 states | types; cohorts decided together, by rank and for good; training follows plan and projection; the ladder is implemented; the round closes (liveness) |

Deadlock is checked except in `round_plan` (a closed round has no further step),
`confirmation` and `minimize_rejected` (a reported confirmation has none).

**Findings.**  The three violated properties are statements of the repository that
its code does not keep; `PROJECT.json` quotes them.

- `queue_wait`: the user guide says that a run held up by an external GPU workload
  is requeued automatically.  An item whose out-of-memory was put down to the
  workload is left out of the refresh and classified afresh once the workload is
  gone; if it is then judged unrecoverable, nothing touches it again.
- `queue_halvings`: the user guide says that after an out-of-memory the batch is
  halved at most twice.  Recovering a GPU failure sets back the counter that bounds
  the recoveries of host failures: ram, ram, oom, ram, oom halves it three times.
  `BatchIsBounded` states what the code keeps, a bound of three.
- `minimize_rejected`: `_effective` negates the bounds of the interval without
  swapping them.  Rejection, "CI entirely below zero" in the code's comment,
  happens to intervals that contain zero.

**Bounds.**

- `asha_*`: no artificial counters: the state space is finite because candidates,
  payloads, slots and measurements are.  Two trials are enough for every relation
  between trials in the scheduler (ranking, preemption, a shared payload).  The
  breaker needs limit + 1 trials of one candidate, hence limit + 1 payloads; with
  the code's limit of 2 they would be three, and the run takes limit 1 with two
  payloads to have room for a second candidate.  Every
  slot may be allocated, deferred, reopened, crashed and recovered any number of
  times.
- `queue_*`: `MaxFaults` counts crashes, interruptions, stops, plan changes,
  unreadable process tables and the machine being taken away; failures of a
  training are not counted and not bounded.  One fault suffices for a
  stop that spares any process to race with a driver, two for a crash that leaves
  an orphan before it, or between two recoveries; two items are what the relation
  of a pass, a held and a running item needs.  `MaxOrphans` bounds the processes
  of one item that outlived their driver; that there is room for two trainers of
  an item (one orphan and a child) is what the property is about.  Batch 16 leaves
  room below the bound of three halvings.  `attempts` and the counters are capped
  above the last value that any
  comparison tells apart.
- `confirmation`: three seeds are the code's own.  Two faults allow a failed run
  and a death in the same matrix, or a second death during the resumption.  The
  metrics lie on both sides of the target and of the two caps, and meet the target
  and the relative cap exactly.
- `registry`: two processes race in every way two can; two overlays with two
  artifacts make documents that grow in several steps.
- `round_plan`: three candidates are the fewest of which `pilot_3` keeps some and
  drops some with a tie between them, and two reach the cut of `pilot_10`, which
  keeps one.  The number kept there is 2 in the code; with 1 the cut eliminates in
  a cohort this small.

**Fairness** is stated as `FairSpec` in each module, used by the runs with a
liveness property.

- Loop: the operator reruns the command when it has ended (WF of `Start`),
  planning ends (WF of `EndPlanning`).  A crash may come at any time, and a
  training may be put off again and again for lack of resources, but neither goes
  on for ever: `Claim`, `RecoverEvidence`, the end of a training and `Save` are
  strongly fair, which they have to be since `Die` disables them each time.  This
  includes that the certification and objective gates let some process through.
  Nothing is assumed of which outcome a training has, nor of which candidates are
  registered.
- Queue: programs that run go on and the automatic loop or the user invokes the
  driver again (WF per run of its loop, of its execution and of the stop command);
  trainings left behind end, evidence arrives, and the machine becomes free.
  Faults are bounded, not unfair.  `PilotsSettle` is about debug and pilot items
  (an interrupted full-profile item without a checkpoint waits for a person), and
  names the two cases in which the code strands one: `Stranded` (the finding
  above) and `StaleAndHeld` (a stale queue with a held item is neither refreshed
  nor rebuilt).
- Confirmation: the workflow is invoked and goes on (WF of `Work`), and a run
  that may succeed eventually does (WF of `MarkCompleted`).  The exception in
  `ApprovedIsReported` is the code's: without the metric the rule decides by, the
  report cannot be built.
- Registry: a lock that is free again and again is granted (SF of `Acquire`), a
  process finishes what it began.
- Round plan: drivers are invoked until the round is closed and take their steps
  (WF of `Driver`).  `RecoverEvidence` has no fairness: nobody is obliged to
  recover evidence, so a failed or unmeasured training is the exception
  (`Stuck`), as it is in the code.

## 5. The proofs

All theorems hold for every value of the constants that satisfies the modules'
`ASSUME`s: any sets of candidates, items, runs, clients, overlays, measurements,
any batches and any fault bounds.

**Automatic loop** (`AshaSchedulerProofs`: one lemma per operator; `AutoLoopProofs`:
one per action).  `TypeCorrectness`, `ConfirmationIsEarned`,
`RunningTrialsAreExecuted`, `CompletionIsFinal`, `FullBudgetsAreAuthorized`.

The inductive invariant `IInv` says of both the scheduler in memory and the file
that they are *sound*: typed; listed (each trial and assignment occurs in its
list, and an assignment belongs to a registered trial, without which the first
element the scheduler looks for need not exist and types are lost); confirmed
trials have earned it; running trials have a claimed assignment.  Of the process
it says that it trains an assignment that is running (else a failure report could
close a completed one), and that memory knows every completion the file knows
(else a save could undo one).  Most operators rewrite trials in place;
`RewrittenInPlace` says once what is left to show of those.  The confidence
interval is opaque to the proof: what matters is that nothing but
`FinishConfirmation` confirms, and that every other operator that touches the
evidence of a trial also takes its status away.

*Identity* (end of `AutoLoopProofs`).  `LiveTrialsKeepTheirPayload`,
`PayloadsHaveOneTrial`.  Only registration and quarantine change the identity of a
trial, that is its payload, readiness and authorization: `KeepsIdentity` is that
statement, with one lemma for each of the other operators.  The invariant `IdInv`
says of memory and file that an adapter-backed trial is pre-registered or admitted,
and that one which is pre-registered although its source node was admitted has
never had a budget (`Dormant`, in `Identified`); and that the scheduler in memory
has the file's admitted trials with the file's payloads (`Binds`).  A live trial of
the file is therefore either admitted, and bound, or not refreshed.  The second
theorem is a statement about every single operator (`KeepsPayloads`): a
registration that lands on a trial by its id has looked for the payload elsewhere
first, except where it refreshes a pre-registered trial in place.  Neither needs a
hypothesis about the payloads of candidates, which may evolve and be shared; what
the code allows is in the formulas.  `OneTrialPerPayload` excepts the refresh in
place.  `LiveIsNotHijacked` excepts a trial whose source node was never admitted:
it was activated by the fingerprint it shares with another candidate, and the next
load quarantines it.

*The ladder* (`AshaLadderProofs`).  `ConfirmationIsVerified`, `MeasurementsSurvive`,
`AllocationsAreClaimable`, `CohortsAreRanked`, and `SavedStudyIsALadder`, the
refinement of `BudgetLadder` by the file.  What these need and `IInv` lacks is the
history of a trial, which the invariant `LInv` recovers from its status: a study
is `Climbing` when each assignment has the result its status claims
(`ResultsMatch`) and each trial *fits*: its status names a rung whose lower rungs
have passed (`StatusFits`) and so does every slot it was ever given (`Grounded`).
An operator that takes a status away, or restores the one a slot had, keeps a
trial fitting (`Goes`); only `Import` and the re-ranking, which rule on evidence,
are looked at in detail.  `ConfirmedIsVerified` follows because the ruling that
confirms is only reached by complete evidence, and a partial seed leaves the trial
where no ruling reaches it.  For the rest `LInv` relates memory, file and child
runs: what the file has granted and passed memory has too, and what memory has
granted beyond the file rests on what the file has passed (`Behind`), so that every
save, seen as a step of the ladder, is one grant or pass or a stutter; and what a
child run holds is the recorded observation or is still owed by an assignment
(`Accounted`).  `CohortIsRanked` compares a promoted trial with the waiting ones: a
winner outranks every eligible loser (`WinnerOutranksLoser`), since of a loser no
fewer eligible trials are ahead.

`CohortIsRanked` is about first promotions made by a live process and about
complete results.  A process that starts or dies returns to the saved statuses,
and a trial registered again while waiting may still hold a better partial result,
which does not compete; both were counterexamples to a broader form of the
property, found with three candidates.

**Budget ladder** (`BudgetLadderProofs`).  `LadderIsSafe`: every behaviour of
`BudgetLadder` keeps its invariants, so every implementation of it does.

**Queue** (`ExecutionQueueProofs`).  `QueueIsTyped`, `ItemsHaveOneTrainer`,
`TrainingIsOnFile`, `CompletionsAreKept`, `BatchesAreBounded`, without any
hypothesis about kills: a stop command may fail to kill whatever it should and
work beside a living driver.  What that costs is in the formulas.  An item that was
marked interrupted while it went on training (`spared`) may be started again
beside it.  A driver may train an item that the file calls interrupted.  And the
stop command's copy of an item it loaded while running may undo the completion
that came in between (`Overtaken`).

The invariant adds to the types that a driver works on items of its own that the
file calls running or interrupted (`Owns`), that its copy is what is on file but
for the item it executes and for what a stop interrupted since (`Agrees`), that
the stop command has loaded running items only (`Stopped`), and that every process
is accounted for (`Accounted`: a child belongs to the item its driver trains; an
item that was not spared has at most one process, and is running on file as long
as it has one).  `Agrees` is what makes the driver's own rewriting of a whole
queue harmless to completions.

For `BatchesAreBounded` the difficulty is in the counters.  Two recoveries halve
the batch, one resets what the other counts, and an interruption keeps a result
that may be classified again.  The invariant `BudgetInv` gives each item, on file
and in every copy a driver or the stop command holds, the batch that the two
counters still leave it (`BatchLeft`); a result that was put down to a wait sets
the counters to what they are (`WaitIsCurrent`), so that classifying it twice does
not halve twice.  Each halving rounds down, so the bound is `Batch \div 8`.

**Confirmation** (`ConfirmationProofs`).  `ConfirmationIsTyped`, `ApprovalIsNeeded`,
`ReportsAreCurrent`, `FinishedRunsAreKept`, `ApprovalBuysOneMatrix`,
`ConfirmedBeatsBaseline`.  The invariant ties a consumed request and a report to a
complete matrix.  The last theorem is arithmetic: `SpreadOfAGap` bounds the spread
of three deltas from below by the gap between one of them and the mean, so that
an interval above zero leaves no seed at or below it (`IntervalAboveZero`).  It
holds for both goals: for a metric to be minimized the rule rejects first whatever
has an upper bound that is not negative, so that the whole interval lies below zero
when it confirms (`IntervalBelowZero`).  The swapped bounds do harm to rejection only.

**Registry** (`MaturityRegistryProofs`).  `RegistryIsTyped`, `LockExcludes`,
`CachesAreExact`, `NothingIsLost`, `RegistryIsAtomic` (the refinement of
`EvidenceStore`, step by step).  The invariant adds that a document about to be
written is the one on disk with the new evidence (`Consistent`) and that a cache is part of the
document and was as large as its key says (`Honest`), so that equal size means
equal content.

**Round plan** (`RoundPlanProofs`).  `RoundIsTyped`, `TrainingFollowsThePlan`,
`CohortsAreDecidedTogether`, `DecisionsStay`, `HalvingIsALadder` (the refinement of
`BudgetLadder`).  The invariant has a part about the plan alone (`PlanInv`: which
stages may be active, decided and granted together) and one that relates queue,
projection and driver to it (`QueueInv`); `Moves` says how a step may change the
plan, and both the action property and the refinement follow from it.
`CutsKeepTheBest` states `SurvivorsOutrank`: the place of a candidate in the stable
ranking is an injection of the n active candidates into 1..n, hence onto it, so
that the number kept are exactly the first ones.  Its invariant `RankInv` says that
the active candidates of a stage have different ranks and that of a stage that was
decided as many survive as the code keeps, none with a lower score than one dropped.

**Only model-checked.**  Liveness (`PilotIsDecided`, `PilotsSettle`,
`ApprovedIsReported`, `CallsReturn`, `RoundIsClosed`), which is beyond the prover.
`BreakerStaysOpen`: it compares two successive contents of the file, between which
a process may have reopened, recovered, claimed and failed many things, and needs
the history of every failed trial.  Its exceptions are in the formula: work that
was allocated to a trial before the breaker opened may be handed out or reopened,
or its evidence recovered, and makes the trial live again.  The run meets the
first (work that a failed control had reset is claimed beside an open breaker); all
its measurements are complete and end the trial at once, so it does not meet
recovered evidence.

## 6. Not modelled, and why

Most of the repository is numerical training code, adapters, document retrieval,
catalogues, report building and command-line handling: little state, no
concurrency, nothing a model checker decides better than a test.  The map covers
a small share of the lines for that reason; what it covers is the code in which
several processes, files and failures meet.

Known behaviours of the modelled code that no property states, because a property
saying otherwise does not hold; each has an entry under "hazards":

- a failed matched control resets trials paired with it that were eliminated or
  confirmed, and its running assignment stays first in the issue order and is
  handed out before work of other protocols;
- an adapter-backed trial that lost the `pilot_3` ranking stays waiting and pauses
  native work for good;
- a pre-registered trial keeps the observations of its old payload when it takes
  over a new one, which may be that of another candidate's trial (the exception in
  `OneTrialPerPayload`), and may be handed out when it was allocated before;
- a crash between the summary of an evidence recovery and the save of the study
  loses the recovered measurement;
- a debug or pilot item that the stop command marked without killing its training
  is requeued unprobed and may be trained twice at once (the exception `spared` in
  `OneTrainerPerItem`), and the stop command's copy may undo a completion (the
  exception `Overtaken` in `CompletedIsKept`);
- a stale queue with a held item, a full-profile item interrupted before its first
  checkpoint, and a round with a failed candidate wait for a person.

Left out of the modelled components:

- Automatic loop: certification and objective gates that end a process before it
  touches the study (their effect is that of `Die`); dry runs (they neither train
  nor register, and what they plan is the planning of a round whose every
  candidate is blocked or left out); assignment shadows
  (`complete_evidence_only_trial` and their activation), round indices and child
  run names, a child run being identified with the assignment bound to it.  A
  failed assignment reopened with its binding kept is resumed, which `Claim` of a
  bound assignment covers; only the unbinding case is a step.  An observation is
  complete exactly when its evidence is.  What planning proposes: any candidate,
  any of its payloads, in any order.
- Queue: dry runs, passes that only recover evidence, commands that do not train,
  a driver that runs beside another of the same run (also one that a stop spared),
  two stop commands of one run at once, a torn YAML file.  The
  cleanup kills any subset of the workspace's processes; which ones hold GPU
  memory is the machine's business.
- Round plan: the `external_asha` mode, in which `AutoOptimizationLoop` is the
  authority; the stages of full runs; authority checks of files edited by hand; a
  second evaluation of the policies over a live round.
- Confirmation: a write of the report that fails after the request was consumed;
  two workflows resumed on the same matrix at once; the columns of
  the report.
- Registry: a document edited or deleted by hand; `apply` and `resolve`, which
  read what `load` returned.
- The remaining components: see "components" in `PROJECT.json`.
