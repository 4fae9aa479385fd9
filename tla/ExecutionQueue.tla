---------------------------- MODULE ExecutionQueue ----------------------------
(***************************************************************************)
(* The persistent training queue of a run (core/execution_queue.py), the   *)
(* driver that works it off (agents/orchestrator.py), the training child   *)
(* it starts (core/executor.py), the classification and recovery of its    *)
(* failures (core/execution_failure.py) and the stop command (cli.py).     *)
(*                                                                         *)
(* Several runs of one workspace share one GPU.  A run has one queue file  *)
(* and at most one driver process; the user may invoke the driver again    *)
(* after it ended.  A driver works on the items as it loaded them and      *)
(* writes them back; so does the stop command, at the same time, and it    *)
(* goes on whether or not it could kill anything.  Drivers crash, children *)
(* outlive them, another workload comes and goes on the GPU.               *)
(***************************************************************************)
EXTENDS Naturals, FiniteSets

CONSTANTS
  Runs,             \* run directories of the workspace
  Items,            \* queue items, numbered in the order of their queue
  RunOf,            \* the run each item belongs to
  FullProfile,      \* items whose profile is neither debug nor pilot
  Matched,          \* matched pilot candidates that are not the control
  EvidenceGated,    \* items enqueued with missing evidence
  Batch,            \* the batch of every materialized command
  MaxFaults,        \* bound: faults of the environment and interventions
  MaxOrphans        \* bound: children of one item that outlived their driver

ASSUME ItemsAssumption == Items \subseteq Nat \ {0} /\ IsFiniteSet(Items)
ASSUME RunOfAssumption == RunOf \in [Items -> Runs]
ASSUME ItemSetsAssumption ==
  FullProfile \subseteq Items /\ Matched \subseteq Items /\ EvidenceGated \subseteq Items
ASSUME NumbersAssumption ==
  Batch \in Nat \ {0} /\ MaxFaults \in Nat /\ MaxOrphans \in Nat

VARIABLES
  queue,      \* the items on file, execution_queue.yaml of every run
  stale,      \* runs whose round plan no longer has the hash the queue recorded
  retried,    \* runs whose context says skipped_queue_retry_attempted
  driver,     \* per run, what its driver process is doing
  cursor,     \* per run, the last item of its list the driver has visited
  copy,       \* per run, the items as its driver holds them in memory
  stopping,   \* per run, the running items as the stop command loaded them
  child,      \* items whose training process is a child of a live driver
  orphans,    \* number of training processes of an item without a driver
  machine,    \* what keeps the GPU from a training: nothing, the start window,
              \* a busy device, or an unrelated process that holds its memory
  checkpoint, \* items with a resumable checkpoint on disk
  evidence,   \* items whose required evidence exists
  spared,     \* history: items marked interrupted while they went on training
  faults      \* interventions and faults so far

vars == <<queue, stale, retried, driver, cursor, copy, stopping, child, orphans,
          machine, checkpoint, evidence, spared, faults>>
-----------------------------------------------------------------------------
(* Items and results. *)

Waiting == {"paused", "blocked_by_resource", "needs_resume"}
Active == Waiting \cup {"running"}
Statuses == Active \cup {"queued", "completed", "failed", "skipped", "needs_evidence"}
Blockers == {"none", "policy", "no_checkpoint", "external_gpu_process", "interrupted_by_user"}

(* last_result: its status, the memory error its output shows, whether the *)
(* classified failure waits for an external GPU workload, and the recovery *)
(* attempt that failure recorded.                                          *)
Result(status, output, waiting, attempt) ==
  [status |-> status, output |-> output, waiting |-> waiting, attempt |-> attempt]
NoResult == Result("none", "", FALSE, 0)

(* Attempts only matter as zero, one or more; the recovery counters beyond *)
(* two as "exhausted": both are capped where no comparison can tell.       *)
Cap(n, top) == IF n > top THEN top ELSE n
Results == [status : {"none", "completed", "failed", "skipped"}, output : {"", "oom", "ram"},
            waiting : BOOLEAN, attempt : 0..3]
ItemType == [status : Statuses, attempts : 0..2, blocker : Blockers, result : Results,
             batch : 1..Batch, resource : 0..3, gpu : 0..3, infra : BOOLEAN]

(* ExecutionQueueItem.from_node: a fresh item of the current plan.  Whether *)
(* evidence is missing is asked when the queue is materialized.            *)
NoItem ==
  [status |-> "queued", attempts |-> 0, blocker |-> "none", result |-> NoResult,
   batch |-> Batch, resource |-> 0, gpu |-> 0, infra |-> FALSE]
NoItems == [i \in Items |-> NoItem]
NoStop == [pc |-> "off", items |-> [i \in {} |-> NoItem]]
FreshItem(i) ==
  [NoItem EXCEPT !.status = IF i \in EvidenceGated \ evidence THEN "needs_evidence" ELSE "queued"]

MarkRunning(item) ==
  [item EXCEPT !.status = "running", !.attempts = Cap(@ + 1, 2)]

MarkResult(item, result) ==
  IF result.waiting
  THEN [item EXCEPT !.result = result, !.status = "needs_resume", !.blocker = "external_gpu_process"]
  ELSE [item EXCEPT !.result = result, !.status = result.status]

MarkDecision(item, decision) ==
  [item EXCEPT !.status = decision.status, !.blocker = decision.blocker]

(* Mutant: an interrupted item gets a status the queue does not know.      *)
MarkInterruptedAnew(item) ==
  [item EXCEPT !.status = "interrupted", !.blocker = "interrupted_by_user"]

(* Mutant: an interrupted item is requeued at once.                        *)
RequeueInterrupted(item) ==
  [item EXCEPT !.status = "queued", !.blocker = "interrupted_by_user"]

MarkInterrupted(item) ==
  [item EXCEPT !.status = "needs_resume", !.blocker = "interrupted_by_user"]

(* Mutant: an item that starts afresh still counts as started.             *)
RecoverStaleStarted(item) ==
  [item EXCEPT !.status = "queued", !.blocker = "none", !.result = NoResult]

RecoverStaleRunning(item) ==
  [item EXCEPT !.status = "queued", !.attempts = 0, !.blocker = "none", !.result = NoResult]

ItemsOf(r) == {i \in Items : RunOf[i] = r}
HasStatus(r, items, statuses) == \E i \in ItemsOf(r) : items[i].status \in statuses
-----------------------------------------------------------------------------
(* Resource decisions. *)

conflict == machine = "conflict"

(* ResourceScheduler.evaluate: outside the window an item is paused; one   *)
(* that already ran needs a checkpoint unless only the infrastructure      *)
(* failed; a busy GPU or a locked readiness gate blocks it.                *)
NeedsCheckpoint(i, item) ==
  ~item.infra /\ item.attempts > 0 /\ i \notin checkpoint

Decision(i, item) ==
  CASE machine = "window" -> [status |-> "paused", blocker |-> "policy"]
    [] machine # "window" /\ NeedsCheckpoint(i, item)
         -> [status |-> "needs_resume", blocker |-> "no_checkpoint"]
    [] machine = "busy" /\ ~NeedsCheckpoint(i, item)
         -> [status |-> "blocked_by_resource", blocker |-> "policy"]
    [] OTHER -> [status |-> "queued", blocker |-> "none"]

(* _can_recover_needs_resume_item *)
CanRestartFromScratch(i, item) ==
  /\ i \notin FullProfile
  /\ \/ item.blocker = "interrupted_by_user"
     \/ item.blocker = "no_checkpoint" /\ item.result = NoResult
-----------------------------------------------------------------------------
(* Failure classification and recovery (execution_failure.py).  A clean    *)
(* GPU out-of-memory is retried with the same batch, then once with half   *)
(* of it; a matched candidate is not retried.  A host out-of-memory gets   *)
(* fewer workers, then half the batch.                                     *)

NotRecovered == [recover |-> FALSE, kind |-> "none", batch |-> 0, attempt |-> 0]
Recovery(kind, batch, attempt) ==
  [recover |-> TRUE, kind |-> kind, batch |-> batch, attempt |-> attempt]
Half(b) == IF b > 1 THEN b \div 2 ELSE 1

CleanGpuOom(i, item) ==
  CASE i \in Matched -> NotRecovered
    [] i \notin Matched /\ item.gpu = 0 -> Recovery("gpu", item.batch, item.gpu)
    [] i \notin Matched /\ item.gpu = 1 /\ item.batch > 1 -> Recovery("gpu", Half(item.batch), item.gpu)
    [] OTHER -> NotRecovered

(* Mutant: a host out-of-memory is recovered as often as it happens.       *)
HostOomUnlimited(item) ==
  CASE item.resource = 0 -> Recovery("host", item.batch, 0)
    [] OTHER -> Recovery("host", Half(item.batch), item.resource)

HostOom(item) ==
  CASE item.resource = 0 -> Recovery("host", item.batch, 0)
    [] item.resource = 1 -> Recovery("host", Half(item.batch), 1)
    [] OTHER -> NotRecovered

(* _recover_failed_resource_item: what the retained result allows, given   *)
(* what the first and the second look at the GPU saw.                      *)
RecoveryOf(i, item, seen, seenAgain) ==
  LET result == item.result
      afterWait(attempt) ==
        IF seenAgain THEN NotRecovered ELSE Recovery("gpu", item.batch, attempt)
  IN CASE result.output = "oom" /\ seen -> afterWait(item.gpu)
       [] result.output = "oom" /\ ~seen -> CleanGpuOom(i, item)
       [] result.output = "ram" -> HostOom(item)
       [] result.output = "" /\ result.waiting -> afterWait(result.attempt)
       [] OTHER -> NotRecovered

(* apply_execution_recovery: both counters take the attempt of the failure *)
(* that is recovered, the GPU counter only for GPU failures.               *)
ApplyRecovery(item, recovery) ==
  [item EXCEPT !.status = "queued", !.blocker = "none", !.infra = TRUE,
               !.batch = recovery.batch,
               !.resource = Cap(recovery.attempt + 1, 3),
               !.gpu = IF recovery.kind = "gpu" THEN Cap(recovery.attempt + 1, 3) ELSE @]

RecoverResource(i, item, seen, seenAgain) ==
  IF item.status \in {"failed", "needs_resume"} /\ item.result # NoResult
     /\ RecoveryOf(i, item, seen, seenAgain).recover
  THEN ApplyRecovery(item, RecoveryOf(i, item, seen, seenAgain))
  ELSE item

(* The second look comes after stale processes were killed: the workload   *)
(* may be gone by then; when the first saw none, so does the second.       *)
SecondLook == IF conflict THEN BOOLEAN ELSE {FALSE}
-----------------------------------------------------------------------------
Init ==
  /\ evidence = {}
  /\ queue = [i \in Items |-> FreshItem(i)]
  /\ stale = {} /\ retried = {}
  /\ driver = [r \in Runs |-> "off"]
  /\ cursor = [r \in Runs |-> 0]
  /\ copy = [r \in Runs |-> NoItems]
  /\ stopping = [r \in Runs |-> NoStop]
  /\ child = {}
  /\ orphans = [i \in Items |-> 0]
  /\ machine = "free"
  /\ checkpoint = {}
  /\ spared = {}
  /\ faults = 0

(* What a driver step that only reads or rewrites the queue leaves alone.  *)
unchangedProcesses ==
  UNCHANGED <<cursor, stopping, child, orphans, machine, checkpoint, evidence, spared>>
Goes(r, place) == driver' = [driver EXCEPT ![r] = place]
Holds(r, items) == copy' = [copy EXCEPT ![r] = items]
Exit(r) == Goes(r, "off") /\ Holds(r, NoItems) /\ cursor' = [cursor EXCEPT ![r] = 0]
noFault == UNCHANGED faults
aFault == faults < MaxFaults /\ faults' = faults + 1

(* store.load and store.save: the file is read and written as a whole.     *)
Loaded(r) == [i \in Items |-> IF i \in ItemsOf(r) THEN queue[i] ELSE NoItem]
Written(r, items) == [i \in Items |-> IF i \in ItemsOf(r) THEN items[i] ELSE queue[i]]
Saved(r, items) == IF items = copy[r] THEN queue ELSE Written(r, items)

(* The user or the automatic loop invokes the training loop of a run, also *)
(* while a stop command is at work on it.                                  *)
Invoke(r) ==
  /\ driver[r] = "off"
  /\ Goes(r, "load")
  /\ UNCHANGED <<queue, stale, retried, copy>> /\ unchangedProcesses /\ noFault

(* The queue is loaded at the top of a loop step, by refresh_queue and by  *)
(* execute_queue; what others write from then on is not seen.              *)
AfterLoad == [load |-> "recover", reload |-> "refresh", pass |-> "execute"]
LoadQueue(r) ==
  /\ driver[r] \in DOMAIN AfterLoad
  /\ Goes(r, AfterLoad[driver[r]])
  /\ Holds(r, Loaded(r))
  /\ UNCHANGED <<queue, stale, retried>> /\ unchangedProcesses /\ noFault

(* The items of r after the recovery of every failed or waiting one.       *)
Recovered(r, items, seenAgain) ==
  [i \in Items |-> IF i \in ItemsOf(r) THEN RecoverResource(i, items[i], conflict, seenAgain)
                   ELSE items[i]]

(* A loop step, first part: resource recovery precedes the staleness       *)
(* check; if it requeued something the queue is saved and the step ends.   *)
RecoverResources(r) ==
  /\ driver[r] = "recover"
  /\ \E seenAgain \in SecondLook :
       LET recovered == Recovered(r, copy[r], seenAgain)
       IN /\ queue' = Saved(r, recovered)
          /\ IF recovered # copy[r]
             THEN Goes(r, "load") /\ Holds(r, NoItems)
             ELSE Goes(r, "probe") /\ UNCHANGED copy
  /\ UNCHANGED <<stale, retried>> /\ unchangedProcesses /\ noFault

(* Mutant: a process without a driver does not count as running.           *)
HasDrivenProcess(i) == i \in child

(* probe_command_process; a process table that cannot be read is a fault.  *)
HasProcess(i) == i \in child \/ orphans[i] > 0
Probe(readable) == IF readable THEN noFault ELSE aFault

(* _recover_stale_running_items: a running item without a process starts   *)
(* afresh; an interrupted debug or pilot item starts afresh unprobed.      *)
StaleRecovered(r, items, readable) ==
  [i \in Items |->
     IF /\ i \in ItemsOf(r)
        /\ \/ items[i].status = "running" /\ readable /\ ~HasProcess(i)
           \/ items[i].status = "needs_resume" /\ CanRestartFromScratch(i, items[i])
     THEN RecoverStaleRunning(items[i])
     ELSE items[i]]

(* A loop step, second part: stale running items are recovered if any item *)
(* is running, then the plan hash is compared; a stale queue is rebuilt    *)
(* unless an item on file is active, which ends the loop.                  *)
Enqueue(r) == [i \in Items |-> IF i \in ItemsOf(r) THEN FreshItem(i) ELSE queue[i]]

CheckStale(r) ==
  /\ driver[r] = "probe"
  /\ \E readable \in BOOLEAN :
       LET probed == IF HasStatus(r, copy[r], {"running"})
                     THEN StaleRecovered(r, copy[r], readable) ELSE copy[r]
           file == Saved(r, probed)
           active == HasStatus(r, file, Active)
       IN /\ Probe(readable)
          /\ \/ /\ r \notin stale
                /\ queue' = file
                /\ Goes(r, "reload")
                /\ UNCHANGED stale
             \/ /\ r \in stale /\ active
                /\ queue' = file
                /\ Goes(r, "off")
                /\ UNCHANGED stale
             \/ /\ r \in stale /\ ~active
                /\ queue' = Enqueue(r)
                /\ Goes(r, "load")
                /\ stale' = stale \ {r}
  /\ Holds(r, NoItems)
  /\ UNCHANGED retried /\ unchangedProcesses

(* refresh_queue: stale items are probed and saved, then what is on file   *)
(* gets its evidence and, if it is held back, the scheduler's decision,    *)
(* except what waits for an external GPU workload.                         *)
RefreshItem(i, item) ==
  CASE item.status = "needs_evidence" /\ i \in evidence -> [item EXCEPT !.status = "queued"]
    [] item.status \in Waiting /\ ~item.result.waiting -> MarkDecision(item, Decision(i, item))
    [] OTHER -> item

Refreshed(r, readable) ==
  LET file == Saved(r, StaleRecovered(r, copy[r], readable))
  IN [i \in Items |-> IF i \in ItemsOf(r) THEN RefreshItem(i, file[i]) ELSE queue[i]]

RefreshQueue(r) ==
  /\ driver[r] = "refresh"
  /\ \E readable \in BOOLEAN :
       /\ Probe(readable)
       /\ queue' = Refreshed(r, readable)
       /\ Holds(r, [i \in Items |-> IF i \in ItemsOf(r) THEN queue'[i] ELSE NoItem])
  /\ Goes(r, "decide")
  /\ UNCHANGED <<stale, retried>> /\ unchangedProcesses

(* A loop step, last part: recover once more, retry a fully skipped queue  *)
(* once, wait for a running item, execute the queued ones, or stop.        *)
AllSkipped(r) == \A i \in ItemsOf(r) : copy[r][i].status = "skipped"

DecideRecovered(r) ==
  /\ driver[r] = "decide"
  /\ \E seenAgain \in SecondLook :
       LET recovered == Recovered(r, copy[r], seenAgain)
       IN recovered # copy[r] /\ queue' = Saved(r, recovered)
  /\ Goes(r, "load") /\ Holds(r, NoItems)
  /\ UNCHANGED <<stale, retried>> /\ unchangedProcesses /\ noFault

NothingRecovered(r) == \E seenAgain \in SecondLook : Recovered(r, copy[r], seenAgain) = copy[r]

DecideRetrySkipped(r) ==
  /\ driver[r] = "decide" /\ NothingRecovered(r)
  /\ AllSkipped(r) /\ r \notin retried
  /\ queue' = Enqueue(r)
  /\ retried' = retried \cup {r}
  /\ stale' = stale \ {r}
  /\ Goes(r, "load") /\ Holds(r, NoItems)
  /\ unchangedProcesses /\ noFault

Decide(r) ==
  /\ driver[r] = "decide" /\ NothingRecovered(r)
  /\ AllSkipped(r) => r \in retried
  /\ Goes(r, IF HasStatus(r, copy[r], {"queued"}) /\ ~HasStatus(r, copy[r], {"running"})
             THEN "pass" ELSE "off")
  /\ Holds(r, NoItems)
  /\ UNCHANGED <<queue, stale, retried>> /\ unchangedProcesses /\ noFault
-----------------------------------------------------------------------------
(* execute_queue: the items that were queued when the queue was loaded, in *)
(* their order; update_item writes one of them into the file.              *)
Ahead(r) == {i \in ItemsOf(r) : i > cursor[r] /\ copy[r][i].status = "queued"}
IsNext(r, i) == i \in Ahead(r) /\ \A j \in Ahead(r) : i <= j
UpdateItem(r, i, item) ==
  /\ queue' = [queue EXCEPT ![i] = item]
  /\ copy' = [copy EXCEPT ![r][i] = item]

Hold(r) ==
  /\ driver[r] = "execute"
  /\ \E i \in Items :
        /\ IsNext(r, i) /\ Decision(i, copy[r][i]).status # "queued"
        /\ UpdateItem(r, i, MarkDecision(copy[r][i], Decision(i, copy[r][i])))
        /\ cursor' = [cursor EXCEPT ![r] = i]
  /\ UNCHANGED <<stale, retried, driver, stopping, child, orphans, machine, checkpoint,
                 evidence, spared>> /\ noFault

(* An item that starts when no process of it is left is spared no more.    *)
Start(r) ==
  /\ driver[r] = "execute"
  /\ \E i \in Items :
        /\ IsNext(r, i) /\ Decision(i, copy[r][i]).status = "queued"
        /\ UpdateItem(r, i, MarkRunning(copy[r][i]))
        /\ cursor' = [cursor EXCEPT ![r] = i]
        /\ spared' = IF HasProcess(i) THEN spared ELSE spared \ {i}
  /\ Goes(r, "launch")
  /\ UNCHANGED <<stale, retried, stopping, child, orphans, machine, checkpoint, evidence>>
  /\ noFault

(* The end of the pass: a failed item ends the loop, else the next step.   *)
EndPass(r) ==
  /\ driver[r] = "execute" /\ Ahead(r) = {}
  /\ Goes(r, IF HasStatus(r, queue, {"failed"}) THEN "off" ELSE "load")
  /\ Holds(r, NoItems)
  /\ cursor' = [cursor EXCEPT ![r] = 0]
  /\ UNCHANGED <<queue, stale, retried, stopping, child, orphans, machine, checkpoint,
                 evidence, spared>> /\ noFault

(* terminate_stale_run_processes: of the processes of the workspace it     *)
(* kills those that already hold GPU memory, any subset in this model.     *)
Cleanup(killedOrphans) ==
  orphans' = [i \in Items |-> IF i \in killedOrphans THEN 0 ELSE orphans[i]]

Orphaned == {i \in Items : orphans[i] > 0}

(* The executor returns without a process: a gate skips or refuses it, or  *)
(* an unrelated workload holds the GPU.                                    *)
Finish(r, result) == copy' = [copy EXCEPT ![r][cursor[r]] = MarkResult(@, result)]

Refuse(r) ==
  /\ driver[r] = "launch"
  /\ \E status \in {"skipped", "failed"} : Finish(r, Result(status, "", FALSE, 0))
  /\ Goes(r, "record")
  /\ UNCHANGED <<queue, stale, retried, cursor, stopping, child, orphans, machine, checkpoint,
                 evidence, spared>> /\ noFault

WaitForGpu(r) ==
  /\ driver[r] = "launch" /\ conflict
  /\ \E kc \in SUBSET child, ko \in SUBSET Orphaned :
       Cleanup(ko) /\ child' = child \ kc
  /\ Finish(r, Result("failed", "", TRUE, copy[r][cursor[r]].gpu))
  /\ Goes(r, "record")
  /\ UNCHANGED <<queue, stale, retried, cursor, stopping, machine, checkpoint, evidence,
                 spared>> /\ noFault

Spawn(r) ==
  /\ driver[r] = "launch" /\ ~conflict
  /\ \E kc \in SUBSET child, ko \in SUBSET Orphaned :
       Cleanup(ko) /\ child' = (child \ kc) \cup {cursor[r]}
  /\ Goes(r, "train")
  /\ UNCHANGED <<queue, stale, retried, cursor, copy, stopping, machine, checkpoint,
                 evidence, spared>> /\ noFault

(* The child ends and the executor returns its result.  A child somebody   *)
(* killed has only failed.  An out-of-memory while an unrelated workload   *)
(* holds the GPU is classified as waiting for it.  A training the guard or *)
(* the timeout stopped carries no failure, whatever its output shows.      *)
Outcomes(item) ==
  {Result("completed", "", FALSE, 0), Result("failed", "", FALSE, 0),
   Result("failed", "ram", FALSE, item.resource), Result("failed", "oom", conflict, item.gpu)}

TrainEnds(r) ==
  /\ driver[r] = "train"
  /\ \E result \in IF cursor[r] \in child THEN Outcomes(copy[r][cursor[r]])
                    ELSE {Result("failed", "", FALSE, 0)} :
       /\ Finish(r, result)
       /\ \E kc \in SUBSET (child \ {cursor[r]}),
             ko \in SUBSET (IF result.output = "oom" THEN Orphaned ELSE {}) :
            /\ result.output # "oom" => kc = {}
            /\ Cleanup(ko) /\ child' = child \ (kc \cup {cursor[r]})
  /\ Goes(r, "record")
  /\ UNCHANGED <<queue, stale, retried, cursor, stopping, machine, checkpoint, evidence, spared>>
  /\ noFault

(* The driver recovers its copy if it can and writes it back.              *)
Record(r) ==
  /\ driver[r] = "record"
  /\ \E seenAgain \in SecondLook :
       UpdateItem(r, cursor[r], RecoverResource(cursor[r], copy[r][cursor[r]], conflict, seenAgain))
  /\ Goes(r, "execute")
  /\ UNCHANGED <<stale, retried, cursor, stopping, child, orphans, machine, checkpoint,
                 evidence, spared>> /\ noFault
-----------------------------------------------------------------------------
(* Interventions and faults. *)

Begun == [NoStop EXCEPT !.pc = "load"]

(* terminate_command_process: it asks the process table for the first      *)
(* process of the item and tries to kill it.  It may find or kill nothing. *)
Terminate(i) ==
  \/ UNCHANGED <<child, orphans>>
  \/ i \in child /\ child' = child \ {i} /\ UNCHANGED orphans
  \/ orphans[i] > 0 /\ orphans' = [orphans EXCEPT ![i] = @ - 1] /\ UNCHANGED child

(* Ctrl-C.  While the executor runs, it kills its child by its handle, the *)
(* driver looks for another process, and marks its copy interrupted.  Then,*)
(* wherever it was, the exiting command does what the stop command does    *)
(* after its first kills (_handle_user_interrupt).                         *)
Interrupt(r) ==
  /\ driver[r] # "off" /\ aFault
  /\ IF driver[r] \in {"launch", "train"}
     THEN /\ queue' = [queue EXCEPT ![cursor[r]] = MarkInterrupted(copy[r][cursor[r]])]
          /\ child' = child \ {cursor[r]}
          /\ \E killed \in {0, 1} :
               /\ killed <= orphans[cursor[r]]
               /\ orphans' = [orphans EXCEPT ![cursor[r]] = @ - killed]
     ELSE UNCHANGED <<queue, child, orphans>>
  /\ Exit(r)
  /\ stopping' = [stopping EXCEPT ![r] = IF @ = NoStop THEN Begun ELSE @]
  /\ UNCHANGED <<stale, retried, machine, checkpoint, evidence, spared>>

(* The driver process is gone; of the children it had, some go on training.*)
Abandon(r, survivors, killedOrphans) ==
  /\ Exit(r)
  /\ child' = child \ ItemsOf(r)
  /\ \A i \in survivors : orphans[i] < MaxOrphans
  /\ orphans' = [i \in Items |->
       (IF i \in killedOrphans THEN 0 ELSE orphans[i]) + (IF i \in survivors THEN 1 ELSE 0)]

Crash(r) ==
  /\ driver[r] # "off" /\ aFault
  /\ \E survivors \in SUBSET (child \cap ItemsOf(r)) : Abandon(r, survivors, {})
  /\ UNCHANGED <<queue, stale, retried, stopping, machine, checkpoint, evidence, spared>>

OrphanEnds(i) ==
  /\ orphans[i] > 0
  /\ orphans' = [orphans EXCEPT ![i] = @ - 1]
  /\ UNCHANGED <<queue, stale, retried, driver, cursor, copy, stopping, child, machine,
                 checkpoint, evidence, spared>> /\ noFault

Checkpointed(i) ==
  /\ i \in FullProfile \ checkpoint /\ HasProcess(i)
  /\ checkpoint' = checkpoint \cup {i}
  /\ UNCHANGED <<queue, stale, retried, driver, cursor, copy, stopping, child, orphans,
                 machine, evidence, spared>> /\ noFault

(* The stop command looks for the processes whose command line names the   *)
(* run and tries to kill each of them (terminate_run_processes).  It kills *)
(* nothing when the process table cannot be read, a kill may fail, and a   *)
(* driver that works in the process of a parent run, or under an allocated *)
(* run id, does not name the run: any of them may survive.                 *)
StopKill(r) ==
  /\ stopping[r] = NoStop /\ aFault
  /\ stopping' = [stopping EXCEPT ![r] = Begun]
  /\ \E survivors \in SUBSET (child \cap ItemsOf(r)), ko \in SUBSET (Orphaned \cap ItemsOf(r)) :
       \/ Abandon(r, survivors, ko)
       \/ /\ child' = (child \ ItemsOf(r)) \cup survivors
          /\ Cleanup(ko)
          /\ UNCHANGED <<driver, copy, cursor>>
  /\ UNCHANGED <<queue, stale, retried, machine, checkpoint, evidence, spared>>

(* Mutant: the stop command interrupts every item that was ever started.   *)
StopLoadStarted(r) ==
  /\ stopping[r].pc = "load"
  /\ LET started == {i \in ItemsOf(r) : queue[i].attempts > 0}
     IN stopping' = [stopping EXCEPT ![r] =
          IF started = {} THEN NoStop
          ELSE [pc |-> "mark", items |-> [i \in started |-> queue[i]]]]
  /\ UNCHANGED <<queue, stale, retried, driver, cursor, copy, child, orphans, machine,
                 checkpoint, evidence, spared>> /\ noFault

(* It loads the queue and goes on with the items it loaded as running.     *)
StopLoad(r) ==
  /\ stopping[r].pc = "load"
  /\ LET running == {i \in ItemsOf(r) : queue[i].status = "running"}
     IN stopping' = [stopping EXCEPT ![r] =
          IF running = {} THEN NoStop
          ELSE [pc |-> "mark", items |-> [i \in running |-> queue[i]]]]
  /\ UNCHANGED <<queue, stale, retried, driver, cursor, copy, child, orphans, machine,
                 checkpoint, evidence, spared>> /\ noFault

(* Each of them: it tries to kill its process and writes its loaded copy   *)
(* back as interrupted, whatever became of the process and of the item.    *)
GoesOn(r, i) == HasProcess(i) \/ (driver[r] = "launch" /\ cursor[r] = i)

StopMark(r) ==
  /\ stopping[r].pc = "mark"
  /\ UNCHANGED <<stale, retried, driver, cursor, copy, machine, checkpoint, evidence>> /\ noFault
  /\ \E i \in DOMAIN stopping[r].items :
       LET left == DOMAIN stopping[r].items \ {i}
       IN /\ Terminate(i)
          /\ queue' = [queue EXCEPT ![i] = MarkInterrupted(stopping[r].items[i])]
          /\ stopping' = [stopping EXCEPT ![r] =
               IF left = {} THEN NoStop
               ELSE [pc |-> "mark", items |-> [j \in left |-> stopping[r].items[j]]]]
          /\ spared' = IF GoesOn(r, i)' THEN spared \cup {i} ELSE spared

(* The rest of the system rewrites the plan, supplies the evidence; the    *)
(* machine gets busy and gets free again.                                  *)
PlanChanges(r) ==
  /\ r \notin stale /\ aFault
  /\ stale' = stale \cup {r}
  /\ UNCHANGED <<queue, retried, driver, copy>> /\ unchangedProcesses

EvidenceArrives(i) ==
  /\ i \in EvidenceGated \ evidence
  /\ evidence' = evidence \cup {i}
  /\ UNCHANGED <<queue, stale, retried, driver, cursor, copy, stopping, child, orphans,
                 machine, checkpoint, spared>> /\ noFault

MachineChanges ==
  /\ \E m \in {"free", "window", "busy", "conflict"} \ {machine} :
       /\ machine' = m
       /\ IF m = "free" THEN noFault ELSE aFault
  /\ UNCHANGED <<queue, stale, retried, driver, cursor, copy, stopping, child, orphans,
                 checkpoint, evidence, spared>>
-----------------------------------------------------------------------------
LoopStep(r) ==
  \/ Invoke(r) \/ LoadQueue(r) \/ RecoverResources(r) \/ CheckStale(r) \/ RefreshQueue(r)
  \/ DecideRecovered(r) \/ DecideRetrySkipped(r) \/ Decide(r)
Execution(r) ==
  \/ Hold(r) \/ Start(r) \/ EndPass(r) \/ Refuse(r) \/ WaitForGpu(r) \/ Spawn(r)
  \/ TrainEnds(r) \/ Record(r)
StopCommand(r) == StopLoad(r) \/ StopMark(r)

Next ==
  \/ \E r \in Runs : LoopStep(r) \/ Execution(r) \/ StopCommand(r)
  \/ \E r \in Runs : Interrupt(r) \/ Crash(r) \/ StopKill(r) \/ PlanChanges(r)
  \/ \E i \in Items : OrphanEnds(i) \/ Checkpointed(i) \/ EvidenceArrives(i)
  \/ MachineChanges

Spec == Init /\ [][Next]_vars

(* Programs that were started go on; the user or the automatic loop        *)
(* invokes the driver again; orphans end, evidence arrives and the machine *)
(* becomes free.  Nothing is assumed of the faults: MaxFaults bounds them. *)
FairSpec ==
  /\ Spec
  /\ \A r \in Runs : WF_vars(LoopStep(r)) /\ WF_vars(Execution(r)) /\ WF_vars(StopCommand(r))
  /\ \A i \in Items : WF_vars(OrphanEnds(i)) /\ WF_vars(EvidenceArrives(i))
  /\ WF_vars(MachineChanges /\ machine' = "free")
-----------------------------------------------------------------------------
TypeOK ==
  /\ queue \in [Items -> ItemType]
  /\ stale \subseteq Runs /\ retried \subseteq Runs
  /\ driver \in [Runs -> {"off", "load", "recover", "probe", "reload", "refresh", "decide",
                          "pass", "execute", "launch", "train", "record"}]
  /\ cursor \in [Runs -> Items \cup {0}]
  /\ copy \in [Runs -> [Items -> ItemType]]
  /\ \A r \in Runs : /\ stopping[r].pc \in {"off", "load", "mark"}
                     /\ DOMAIN stopping[r].items \subseteq ItemsOf(r)
                     /\ \A i \in DOMAIN stopping[r].items : stopping[r].items[i] \in ItemType
  /\ child \subseteq Items
  /\ orphans \in [Items -> 0..MaxOrphans]
  /\ machine \in {"free", "window", "busy", "conflict"}
  /\ checkpoint \subseteq Items /\ evidence \subseteq EvidenceGated
  /\ spared \subseteq Items
  /\ faults \in 0..MaxFaults

(* At most one training process of an item is alive, whatever crashed, as  *)
(* the driver asks the process table before it starts an item again.  The  *)
(* exception is an item that was marked interrupted while it went on       *)
(* training: an interrupted item is started again unasked.                 *)
OneTrainerPerItem ==
  \A i \in Items \ spared : orphans[i] + (IF i \in child THEN 1 ELSE 0) <= 1

(* A live driver that trains an item owns it: the file says that it runs,  *)
(* or that a stop command interrupted it, and nothing else, so no step     *)
(* requeues, rebuilds, holds or ends it meanwhile.                         *)
Interrupted(item) == item.status = "needs_resume" /\ item.blocker = "interrupted_by_user"
TrainedIsRunning ==
  \A r \in Runs : driver[r] \in {"launch", "train", "record"} =>
    queue[cursor[r]].status = "running" \/ Interrupted(queue[cursor[r]])

(* However failures of the GPU, of the host, waits, crashes and stops      *)
(* interleave, an item's batch is halved at most three times: once by the  *)
(* GPU recovery and twice by the host recovery, whose counter the GPU      *)
(* recovery sets back once.  Every halving rounds down.                    *)
BatchIsBounded == \A i \in Items : queue[i].batch >= Batch \div 8

(* What docs/training-modes.md:165 says: after the clean retry the batch   *)
(* is halved at most twice.  The code halves it three times when failures  *)
(* of the host and of the GPU alternate, because recovering one of the GPU *)
(* sets back the counter that bounds the halvings of the host.             *)
BatchIsHalvedTwice == \A i \in Items : queue[i].batch >= Batch \div 4

(* A completed item stays completed until the queue is rebuilt from a new  *)
(* plan: no stale copy of a driver undoes it, and of a stop command only   *)
(* one that was loaded while the item was running.                         *)
Overtaken(i) ==
  LET stop == stopping[RunOf[i]]
  IN i \in DOMAIN stop.items /\ stop.items[i].status = "running"
CompletedIsKept ==
  [][\A i \in Items : queue[i].status = "completed" =>
        \/ queue'[i].status = "completed"
        \/ RunOf[i] \in stale \ stale'
        \/ Overtaken(i) /\ Interrupted(queue'[i])]_vars

Settled(i) == queue[i].status \in {"completed", "failed", "skipped"}
(* An external GPU wait strands its item in two ways (see WaitIsResolved): *)
(* an out-of-memory put down to the workload is classified again when the  *)
(* workload is gone and may not be recoverable then; and the retained      *)
(* result keeps a recovered item that the scheduler holds back out of the  *)
(* refresh.                                                                *)
Stranded(i) ==
  /\ queue[i].status \in Waiting /\ queue[i].result.waiting
  /\ queue[i].status = "needs_resume" => queue[i].result.output = "oom"

(* A stale queue with an item that is held back is neither refreshed nor   *)
(* rebuilt: the staleness check comes before the refresh.                  *)
StaleAndHeld(r) == r \in stale /\ HasStatus(r, queue, Waiting)

(* Every debug or pilot item ends, whatever was interrupted, crashed, held *)
(* or waited for, once the faults are over, but for those two cases.       *)
PilotsSettle ==
  \A i \in Items \ FullProfile : []<>(Settled(i) \/ Stranded(i) \/ StaleAndHeld(RunOf[i]))

(* An item that waits for an external GPU workload is queued again.        *)
WaitIsResolved ==
  \A i \in Items : queue[i].status \in Waiting /\ queue[i].result.waiting
                    ~> queue[i].status \notin Waiting
=============================================================================
