------------------------- MODULE ExecutionQueueProofs -------------------------
(***************************************************************************)
(* Who may touch a queue item, for any number of runs, items, faults and   *)
(* interventions, from one inductive invariant of ExecutionQueue.          *)
(***************************************************************************)
EXTENDS ExecutionQueue, TLAPS

Executing == {"launch", "train", "record"}
Holding == {"recover", "probe", "refresh", "decide", "execute"}
Places == {"off", "load", "reload", "pass"} \cup Holding \cup Executing
Stops ==
  [pc : {"off", "load", "mark"}, items : UNION {[S -> ItemType] : S \in SUBSET Items}]

Typed == TypeOK /\ stopping \in [Runs -> Stops]

(* A driver that executes an item owns it: the item is one of its run, and *)
(* the file says that it is running or that a stop interrupted it.         *)
Owns(r) ==
  driver[r] \in Executing =>
    /\ cursor[r] \in ItemsOf(r)
    /\ queue[cursor[r]].status = "running" \/ Interrupted(queue[cursor[r]])

(* What a driver holds in memory is what is on file, but for the item it   *)
(* executes and for the items a stop interrupted since they were loaded.   *)
Agrees(r) ==
  driver[r] \in Holding \cup Executing =>
    \A i \in ItemsOf(r) :
      \/ driver[r] \in Executing /\ i = cursor[r]
      \/ queue[i] = copy[r][i]
      \/ Interrupted(queue[i])

(* A stop command marks what it loaded as running.                         *)
Stopped(r) == \A i \in DOMAIN stopping[r].items : stopping[r].items[i].status = "running"

(* A child is the item its driver trains.  An item that was not spared by  *)
(* a stop counts as running as long as a process of it lives, there is at  *)
(* most one, and a driver that executes the item has no other beside it.   *)
Accounted(i) ==
  /\ i \in child => driver[RunOf[i]] = "train" /\ cursor[RunOf[i]] = i
  /\ i \notin spared =>
       /\ HasProcess(i) => queue[i].status = "running"
       /\ orphans[i] <= 1
       /\ cursor[RunOf[i]] = i /\ driver[RunOf[i]] \in Executing => orphans[i] = 0
       /\ cursor[RunOf[i]] = i /\ driver[RunOf[i]] = "launch" => queue[i].status = "running"

IInv ==
  /\ Typed
  /\ \A r \in Runs : Owns(r) /\ Agrees(r) /\ Stopped(r)
  /\ \A i \in Items : Accounted(i)
-----------------------------------------------------------------------------
(* Items keep their type.                                                  *)

LEMMA ResultFacts ==
  ASSUME NEW status \in {"none", "completed", "failed", "skipped"}, NEW output \in {"", "oom", "ram"},
         NEW waiting \in BOOLEAN, NEW attempt \in 0..3
  PROVE  /\ Result(status, output, waiting, attempt) \in Results
         /\ Result(status, output, waiting, attempt).status = status
  BY DEF Result, Results

LEMMA CapFacts ==
  ASSUME NEW n \in Nat, NEW top \in Nat
  PROVE  Cap(n, top) \in 0..top
  BY DEF Cap

LEMMA NoResultIsResult == NoResult \in Results
  BY DEF NoResult, Result, Results

LEMMA NoItemIsItem == NoItem \in ItemType
  BY NoResultIsResult, NumbersAssumption DEF NoItem, ItemType, Statuses, Active, Waiting, Blockers

LEMMA FreshFacts ==
  ASSUME NEW i \in Items
  PROVE  FreshItem(i) \in ItemType
  BY NoItemIsItem DEF FreshItem, ItemType, Statuses

LEMMA MarkFacts ==
  ASSUME NEW item \in ItemType
  PROVE  /\ MarkRunning(item) \in ItemType /\ MarkRunning(item).status = "running"
         /\ MarkInterrupted(item) \in ItemType
         /\ RecoverStaleRunning(item) \in ItemType /\ RecoverStaleRunning(item).status = "queued"
  <1>1. item.attempts \in 0..2
    BY DEF ItemType
  <1>2. Cap(item.attempts + 1, 2) \in 0..2
    BY <1>1 DEF Cap
  <1>3. MarkRunning(item) \in ItemType /\ MarkRunning(item).status = "running"
    BY <1>2 DEF MarkRunning, ItemType, Statuses, Active
  <1>4. MarkInterrupted(item) \in ItemType
    BY DEF MarkInterrupted, ItemType, Statuses, Active, Waiting, Blockers
  <1>5. /\ RecoverStaleRunning(item) \in ItemType
        /\ RecoverStaleRunning(item).status = "queued"
    <2> DEFINE none == NoResult
    <2>1. none \in Results
      BY NoResultIsResult
    <2>2. 0 \in 0..2 /\ "queued" \in Statuses /\ "none" \in Blockers
      BY DEF Statuses, Blockers
    <2> HIDE DEF none
    <2>3. RecoverStaleRunning(item) =
            [item EXCEPT !.status = "queued", !.attempts = 0, !.blocker = "none", !.result = none]
      BY DEF RecoverStaleRunning, none
    <2> QED BY <2>1, <2>2, <2>3 DEF ItemType
  <1> QED BY <1>3, <1>4, <1>5

LEMMA MarkResultFacts ==
  ASSUME NEW item \in ItemType, NEW result \in Results, result.status # "none"
  PROVE  MarkResult(item, result) \in ItemType
  <1>1. result.status \in Statuses
    BY DEF Results, Statuses, Active, Waiting
  <1> QED BY <1>1 DEF MarkResult, ItemType, Statuses, Active, Waiting, Blockers

LEMMA DecisionFacts ==
  ASSUME NEW i \in Items, NEW item \in ItemType
  PROVE  /\ Decision(i, item).status \in Waiting \cup {"queued"}
         /\ MarkDecision(item, Decision(i, item)) \in ItemType
         /\ MarkDecision(item, Decision(i, item)).status # "completed"
  <1>1. /\ Decision(i, item).status \in Waiting \cup {"queued"}
        /\ Decision(i, item).blocker \in Blockers
    BY DEF Decision, Waiting, Blockers
  <1> QED BY <1>1 DEF MarkDecision, ItemType, Statuses, Active, Waiting

LEMMA HalfFacts ==
  ASSUME NEW b \in 1..Batch
  PROVE  Half(b) \in 1..Batch
  BY NumbersAssumption DEF Half

(* Recovery requeues a failed or waiting item or leaves it as it is.       *)
Recoveries ==
  [recover : BOOLEAN, kind : {"none", "gpu", "host"}, batch : 0..Batch, attempt : 0..3]
LEMMA RecoveryFacts ==
  ASSUME NEW i \in Items, NEW item \in ItemType, NEW seen \in BOOLEAN, NEW again \in BOOLEAN
  PROVE  /\ RecoveryOf(i, item, seen, again) \in Recoveries
         /\ RecoveryOf(i, item, seen, again).recover =>
              RecoveryOf(i, item, seen, again).batch \in 1..Batch
  <1> DEFINE fit(rec) == rec \in Recoveries /\ (rec.recover => rec.batch \in 1..Batch)
  <1>1. fit(NotRecovered)
    BY NumbersAssumption DEF NotRecovered, Recoveries
  <1>2. ASSUME NEW kind \in {"gpu", "host"}, NEW b \in 1..Batch, NEW attempt \in 0..3
        PROVE  fit(Recovery(kind, b, attempt))
    BY NumbersAssumption DEF Recovery, Recoveries
  <1>3. /\ item.batch \in 1..Batch /\ Half(item.batch) \in 1..Batch
        /\ item.gpu \in 0..3 /\ item.resource \in 0..3 /\ item.result.attempt \in 0..3
    BY HalfFacts DEF ItemType, Results
  <1>4. fit(CleanGpuOom(i, item))
    BY <1>1, <1>2, <1>3 DEF CleanGpuOom
  <1>5. fit(HostOom(item))
    BY <1>1, <1>2, <1>3 DEF HostOom
  <1>6. fit(Recovery("gpu", item.batch, item.gpu)) /\ fit(Recovery("gpu", item.batch, item.result.attempt))
    BY <1>2, <1>3
  <1> HIDE DEF fit
  <1>7. fit(RecoveryOf(i, item, seen, again))
    BY <1>1, <1>4, <1>5, <1>6 DEF RecoveryOf
  <1> QED BY <1>7 DEF fit

LEMMA RecoverFacts ==
  ASSUME NEW i \in Items, NEW item \in ItemType, NEW seen \in BOOLEAN, NEW again \in BOOLEAN
  PROVE  /\ RecoverResource(i, item, seen, again) \in ItemType
         /\ \/ RecoverResource(i, item, seen, again) = item
            \/ /\ item.status \in {"failed", "needs_resume"}
               /\ RecoverResource(i, item, seen, again).status = "queued"
  <1> DEFINE rec == RecoveryOf(i, item, seen, again)
  <1>1. CASE RecoverResource(i, item, seen, again) = item
    BY <1>1
  <1>2. CASE /\ RecoverResource(i, item, seen, again) = ApplyRecovery(item, rec)
             /\ rec.recover /\ item.status \in {"failed", "needs_resume"}
    <2>1. rec \in Recoveries /\ rec.batch \in 1..Batch
      BY <1>2, RecoveryFacts
    <2>2. Cap(rec.attempt + 1, 3) \in 0..3
      <3>1. rec.attempt + 1 \in Nat
        BY <2>1 DEF Recoveries
      <3> QED BY <3>1, CapFacts
    <2>3. ApplyRecovery(item, rec) \in ItemType /\ ApplyRecovery(item, rec).status = "queued"
      <3> HIDE DEF rec
      <3> QED BY <2>1, <2>2 DEF ApplyRecovery, ItemType, Statuses, Active, Waiting, Blockers
    <2> QED BY <1>2, <2>3
  <1> QED BY <1>1, <1>2 DEF RecoverResource

LEMMA RefreshFacts ==
  ASSUME NEW i \in Items, NEW item \in ItemType
  PROVE  /\ RefreshItem(i, item) \in ItemType
         /\ item.status \in {"running", "completed"} => RefreshItem(i, item) = item
  BY DecisionFacts DEF RefreshItem, ItemType, Statuses, Active, Waiting
-----------------------------------------------------------------------------
(* A step of one run: what belongs to the others is left alone, but that a *)
(* process of theirs may end.                                              *)
Frame(r) ==
  /\ \A s \in Runs \ {r} : /\ driver'[s] = driver[s] /\ cursor'[s] = cursor[s]
                           /\ copy'[s] = copy[s] /\ stopping'[s] = stopping[s]
  /\ \A i \in Items \ ItemsOf(r) :
       /\ queue'[i] = queue[i]
       /\ i \in child' => i \in child
       /\ orphans'[i] <= orphans[i] /\ orphans'[i] \in Nat
       /\ i \in spared' <=> i \in spared

LEMMA StepKeeps ==
  ASSUME IInv, NEW r \in Runs, Frame(r), Typed', Owns(r)', Agrees(r)', Stopped(r)',
         \A i \in ItemsOf(r) : Accounted(i)'
  PROVE  IInv'
  <1>1. ASSUME NEW s \in Runs, s # r PROVE Owns(s)' /\ Agrees(s)' /\ Stopped(s)'
    <2>1. /\ Owns(s) /\ Agrees(s) /\ Stopped(s)
          /\ driver'[s] = driver[s] /\ cursor'[s] = cursor[s]
          /\ copy'[s] = copy[s] /\ stopping'[s] = stopping[s]
      BY <1>1 DEF IInv, Frame
    <2>2. \A i \in ItemsOf(s) : queue'[i] = queue[i]
      BY <1>1 DEF Frame, ItemsOf
    <2>3. Owns(s)'
      BY <2>1, <2>2 DEF Owns, Interrupted, ItemsOf
    <2>4. Agrees(s)'
      BY <2>1, <2>2 DEF Agrees, Interrupted, ItemsOf
    <2>5. Stopped(s)'
      BY <2>1 DEF Stopped
    <2> QED BY <2>3, <2>4, <2>5
  <1>2. ASSUME NEW i \in Items, i \notin ItemsOf(r) PROVE Accounted(i)'
    <2>1. /\ Accounted(i) /\ RunOf[i] \in Runs \ {r}
          /\ orphans[i] \in Nat /\ orphans'[i] \in Nat
      BY <1>2, RunOfAssumption, NumbersAssumption DEF IInv, Typed, TypeOK, ItemsOf, Frame
    <2>2. /\ driver'[RunOf[i]] = driver[RunOf[i]] /\ cursor'[RunOf[i]] = cursor[RunOf[i]]
          /\ queue'[i] = queue[i] /\ (i \in child' => i \in child)
          /\ orphans'[i] <= orphans[i] /\ (i \in spared' <=> i \in spared)
      BY <1>2, <2>1 DEF Frame
    <2>3. HasProcess(i)' => HasProcess(i)
      BY <2>1, <2>2 DEF HasProcess
    <2> QED BY <2>1, <2>2, <2>3 DEF Accounted
  <1> QED BY <1>1, <1>2 DEF IInv
-----------------------------------------------------------------------------
(* What a loop step of r makes of the queue: the items of other runs are   *)
(* left alone, and so are those that run, unless a stop spared them.       *)
Respects(r, new) ==
  /\ new \in [Items -> ItemType]
  /\ \A i \in Items : i \notin ItemsOf(r) => new[i] = queue[i]
  /\ \A i \in Items \ spared : HasProcess(i) => new[i].status = "running"
KeepsCompleted(new) == \A i \in Items : queue[i].status = "completed" => new[i].status = "completed"

LEMMA QueueRespects ==
  ASSUME IInv, NEW r \in Runs
  PROVE  Respects(r, queue) /\ KeepsCompleted(queue)
  BY DEF IInv, Typed, TypeOK, Accounted, Respects, KeepsCompleted

(* Items made from what the driver holds, and saved.                       *)
Derived(r, items) ==
  /\ items \in [Items -> ItemType]
  /\ \A i \in ItemsOf(r) :
       /\ copy[r][i].status = "completed" => items[i].status = "completed"
       /\ copy[r][i].status = "running" /\ HasProcess(i) => items[i].status = "running"

LEMMA WrittenRespects ==
  ASSUME IInv, NEW r \in Runs, driver[r] \in Holding, NEW items, Derived(r, items)
  PROVE  Respects(r, Written(r, items)) /\ KeepsCompleted(Written(r, items))
  <1>1. ASSUME NEW i \in Items
        PROVE  /\ Written(r, items)[i] \in ItemType
               /\ i \notin ItemsOf(r) => Written(r, items)[i] = queue[i]
               /\ i \notin spared /\ HasProcess(i) => Written(r, items)[i].status = "running"
               /\ queue[i].status = "completed" => Written(r, items)[i].status = "completed"
    <2>1. /\ queue[i] \in ItemType /\ items[i] \in ItemType
          /\ i \notin spared /\ HasProcess(i) => queue[i].status = "running"
      BY DEF IInv, Typed, TypeOK, Accounted, Derived
    <2>2. CASE i \notin ItemsOf(r)
      BY <2>1, <2>2 DEF Written
    <2>3. CASE i \in ItemsOf(r)
      <3>1. Written(r, items)[i] = items[i]
        BY <2>3 DEF Written
      <3>2. queue[i] = copy[r][i] \/ Interrupted(queue[i])
        BY <2>3 DEF IInv, Agrees, Holding, Executing
      <3>3. queue[i].status \in {"running", "completed"} => queue[i] = copy[r][i]
        BY <3>2 DEF Interrupted
      <3>4. /\ copy[r][i].status = "completed" => items[i].status = "completed"
            /\ copy[r][i].status = "running" /\ HasProcess(i) => items[i].status = "running"
        BY <2>3 DEF Derived
      <3> QED BY <2>1, <2>3, <3>1, <3>3, <3>4
    <2> QED BY <2>2, <2>3
  <1> QED BY <1>1 DEF Respects, KeepsCompleted, Written

LEMMA SavedRespects ==
  ASSUME IInv, NEW r \in Runs, driver[r] \in Holding, NEW items, Derived(r, items)
  PROVE  Respects(r, Saved(r, items)) /\ KeepsCompleted(Saved(r, items))
  BY WrittenRespects, QueueRespects DEF Saved

LEMMA RecoveredIsDerived ==
  ASSUME IInv, NEW r \in Runs, NEW again \in SecondLook
  PROVE  Derived(r, Recovered(r, copy[r], again))
  <1>1. again \in BOOLEAN /\ conflict \in BOOLEAN /\ copy[r] \in [Items -> ItemType]
    BY DEF SecondLook, conflict, IInv, Typed, TypeOK
  <1> DEFINE items == Recovered(r, copy[r], again)
  <1>2. ASSUME NEW i \in Items
        PROVE  /\ items[i] \in ItemType
               /\ copy[r][i].status \in {"running", "completed"} => items[i] = copy[r][i]
    <2>1. copy[r][i] \in ItemType
      BY <1>1
    <2>2. /\ RecoverResource(i, copy[r][i], conflict, again) \in ItemType
          /\ copy[r][i].status \in {"running", "completed"}
               => RecoverResource(i, copy[r][i], conflict, again) = copy[r][i]
      BY <1>1, <2>1, RecoverFacts
    <2> QED BY <2>1, <2>2 DEF Recovered
  <1>3. items = [i \in Items |-> items[i]]
    BY DEF Recovered
  <1> HIDE DEF items
  <1>4. items \in [Items -> ItemType]
    BY <1>2, <1>3
  <1> QED BY <1>2, <1>4 DEF Derived, ItemsOf, items

LEMMA StaleIsDerived ==
  ASSUME IInv, NEW r \in Runs, NEW readable \in BOOLEAN
  PROVE  Derived(r, StaleRecovered(r, copy[r], readable))
  <1>1. copy[r] \in [Items -> ItemType]
    BY DEF IInv, Typed, TypeOK
  <1> DEFINE items == StaleRecovered(r, copy[r], readable)
  <1>2. ASSUME NEW i \in Items
        PROVE  /\ items[i] \in ItemType
               /\ copy[r][i].status = "completed" => items[i] = copy[r][i]
               /\ copy[r][i].status = "running" /\ HasProcess(i) => items[i] = copy[r][i]
    <2>1. copy[r][i] \in ItemType
      BY <1>1
    <2>2. RecoverStaleRunning(copy[r][i]) \in ItemType
      BY <2>1, MarkFacts
    <2> QED BY <2>1, <2>2 DEF StaleRecovered
  <1>3. items = [i \in Items |-> items[i]]
    BY DEF StaleRecovered
  <1> HIDE DEF items
  <1>4. items \in [Items -> ItemType]
    BY <1>2, <1>3
  <1> QED BY <1>2, <1>4 DEF Derived, ItemsOf, items

LEMMA RefreshRespects ==
  ASSUME IInv, NEW r \in Runs, driver[r] = "refresh", NEW readable \in BOOLEAN
  PROVE  Respects(r, Refreshed(r, readable)) /\ KeepsCompleted(Refreshed(r, readable))
  <1> DEFINE file == Saved(r, StaleRecovered(r, copy[r], readable))
  <1>1. Respects(r, file) /\ KeepsCompleted(file)
    BY StaleIsDerived, SavedRespects DEF Holding
  <1> HIDE DEF file
  <1>2. ASSUME NEW i \in Items
        PROVE  /\ RefreshItem(i, file[i]) \in ItemType /\ queue[i] \in ItemType
               /\ file[i].status \in {"running", "completed"} => RefreshItem(i, file[i]) = file[i]
    <2>1. file[i] \in ItemType /\ queue[i] \in ItemType
      BY <1>1 DEF Respects, IInv, Typed, TypeOK
    <2> QED BY <2>1, RefreshFacts
  <1>3. Refreshed(r, readable) =
          [i \in Items |-> IF i \in ItemsOf(r) THEN RefreshItem(i, file[i]) ELSE queue[i]]
    BY DEF Refreshed, file
  <1> QED BY <1>1, <1>2, <1>3 DEF Respects, KeepsCompleted

LEMMA EnqueueRespects ==
  ASSUME IInv, NEW r \in Runs,
         \A i \in ItemsOf(r) : i \notin spared => ~HasProcess(i)
  PROVE  Respects(r, Enqueue(r))
  <1>1. ASSUME NEW i \in Items
        PROVE  /\ Enqueue(r)[i] \in ItemType
               /\ i \notin ItemsOf(r) => Enqueue(r)[i] = queue[i]
               /\ i \notin spared /\ HasProcess(i) => Enqueue(r)[i].status = "running"
    BY FreshFacts DEF Enqueue, IInv, Typed, TypeOK, Accounted
  <1> QED BY <1>1 DEF Respects, Enqueue
-----------------------------------------------------------------------------
(* The initial state, and the steps of the loop.                           *)

LEMMA NoItemsFacts == NoItems \in [Items -> ItemType]
  BY NoItemIsItem DEF NoItems

LEMMA StopFacts ==
  /\ NoStop \in Stops /\ Begun \in Stops
  /\ DOMAIN NoStop.items = {} /\ DOMAIN Begun.items = {}
  <1>1. [i \in {} |-> NoItem] \in [{} -> ItemType]
    OBVIOUS
  <1>2. [i \in {} |-> NoItem] \in UNION {[S -> ItemType] : S \in SUBSET Items}
    BY <1>1
  <1> QED BY <1>2 DEF NoStop, Begun, Stops

LEMMA Initially == Init => IInv
  <1> SUFFICES ASSUME Init PROVE IInv
    OBVIOUS
  <1>1. Typed
    BY StopFacts, NoItemIsItem, NoItemsFacts, FreshFacts, NumbersAssumption, ItemSetsAssumption
       DEF Typed, TypeOK, Init, NoStop
  <1>2. \A r \in Runs : Owns(r) /\ Agrees(r) /\ Stopped(r)
    BY StopFacts DEF Init, Owns, Agrees, Stopped, Executing, Holding
  <1>3. \A i \in Items : Accounted(i)
    BY RunOfAssumption DEF Init, Accounted, HasProcess, Executing
  <1> QED BY <1>1, <1>2, <1>3 DEF IInv

LEMMA FaultFacts ==
  ASSUME Typed, noFault \/ aFault
  PROVE  faults' \in 0..MaxFaults
  BY NumbersAssumption DEF Typed, TypeOK, noFault, aFault

LEMMA LoopStepKeeps ==
  ASSUME IInv, NEW r \in Runs, driver[r] \notin Executing,
         NEW place \in Places \ Executing, Goes(r, place),
         NEW items \in [Items -> ItemType], copy' = [copy EXCEPT ![r] = items],
         Respects(r, queue'), unchangedProcesses,
         place \in Holding => \A i \in ItemsOf(r) : queue'[i] = items[i] \/ Interrupted(queue'[i]),
         stale' \subseteq Runs, retried' \subseteq Runs, faults' \in 0..MaxFaults
  PROVE  IInv'
  <1> USE DEF unchangedProcesses
  <1>1. /\ driver'[r] = place /\ driver' \in [Runs -> Places]
        /\ \A s \in Runs \ {r} : driver'[s] = driver[s]
    BY DEF IInv, Typed, TypeOK, Places, Goes, Holding, Executing
  <1>2. /\ copy'[r] = items /\ copy' \in [Runs -> [Items -> ItemType]]
        /\ \A s \in Runs \ {r} : copy'[s] = copy[s]
    BY DEF IInv, Typed, TypeOK
  <1>3. Typed'
    BY <1>1, <1>2 DEF IInv, Typed, TypeOK, Respects, Places, Holding, Executing
  <1>4. Frame(r)
    BY <1>1, <1>2, NumbersAssumption DEF Frame, Respects, IInv, Typed, TypeOK
  <1>5. Owns(r)' /\ Agrees(r)' /\ Stopped(r)'
    BY <1>1, <1>2 DEF Owns, Agrees, Stopped, IInv, ItemsOf, Interrupted
  <1>6. ASSUME NEW i \in ItemsOf(r) PROVE Accounted(i)'
    <2>1. Accounted(i) /\ RunOf[i] = r /\ i \in Items
      BY DEF IInv, ItemsOf
    <2>2. i \notin child /\ (HasProcess(i)' <=> HasProcess(i))
      BY <2>1 DEF Accounted, HasProcess, Executing
    <2>3. i \notin spared /\ HasProcess(i) => queue'[i].status = "running"
      BY <2>1 DEF Respects
    <2>4. driver'[RunOf[i]] \notin Executing
      BY <1>1, <2>1
    <2>5. "launch" \in Executing
      BY DEF Executing
    <2> QED BY <2>1, <2>2, <2>3, <2>4, <2>5 DEF Accounted
  <1> QED BY <1>3, <1>4, <1>5, <1>6, StepKeeps

(* A completed item stays completed unless its queue is rebuilt.           *)
CompletionIsKept ==
  \A i \in Items : queue[i].status = "completed" =>
     queue'[i].status = "completed" \/ RunOf[i] \in stale \ stale'

LEMMA RecoverResourcesPreserves ==
  ASSUME IInv, NEW r \in Runs, RecoverResources(r)
  PROVE  IInv' /\ CompletionIsKept
  <1>1. PICK again \in SecondLook :
          LET recovered == Recovered(r, copy[r], again)
          IN /\ queue' = Saved(r, recovered)
             /\ IF recovered # copy[r]
                THEN Goes(r, "load") /\ Holds(r, NoItems)
                ELSE Goes(r, "probe") /\ UNCHANGED copy
    BY DEF RecoverResources
  <1> DEFINE recovered == Recovered(r, copy[r], again)
  <1>2. /\ driver[r] = "recover" /\ UNCHANGED <<stale, retried>> /\ unchangedProcesses
        /\ faults' \in 0..MaxFaults /\ copy[r] \in [Items -> ItemType]
        /\ stale \subseteq Runs /\ retried \subseteq Runs
    BY FaultFacts DEF RecoverResources, IInv, Typed, TypeOK
  <1>3. Respects(r, queue') /\ KeepsCompleted(queue')
    BY <1>1, <1>2, RecoveredIsDerived, SavedRespects DEF Holding
  <1>4. CASE recovered # copy[r]
    <2>1. Goes(r, "load") /\ copy' = [copy EXCEPT ![r] = NoItems]
      BY <1>1, <1>4 DEF Holds
    <2> HIDE DEF recovered
    <2>2. "load" \in Places \ Executing /\ "load" \notin Holding /\ driver[r] \notin Executing
      BY <1>2 DEF Places, Executing, Holding
    <2> QED BY <1>2, <1>3, <2>1, <2>2, NoItemsFacts, LoopStepKeeps DEF CompletionIsKept, KeepsCompleted
  <1>5. CASE recovered = copy[r]
    <2>1. Goes(r, "probe") /\ copy' = copy /\ queue' = queue
      BY <1>1, <1>5 DEF Saved
    <2> HIDE DEF recovered
    <2>2. copy' = [copy EXCEPT ![r] = copy[r]]
      BY <2>1 DEF IInv, Typed, TypeOK
    <2>3. \A i \in ItemsOf(r) : queue'[i] = copy[r][i] \/ Interrupted(queue'[i])
      BY <1>2, <2>1 DEF IInv, Agrees, Holding, Executing
    <2>4. "probe" \in Places \ Executing /\ driver[r] \notin Executing
      BY <1>2 DEF Places, Executing, Holding
    <2> QED BY <1>2, <1>3, <2>1, <2>2, <2>3, <2>4, LoopStepKeeps DEF CompletionIsKept, KeepsCompleted
  <1> QED BY <1>4, <1>5

LEMMA CheckStalePreserves ==
  ASSUME IInv, NEW r \in Runs, CheckStale(r)
  PROVE  IInv' /\ CompletionIsKept
  <1>1. PICK readable \in BOOLEAN :
          LET probed == IF HasStatus(r, copy[r], {"running"})
                        THEN StaleRecovered(r, copy[r], readable) ELSE copy[r]
              file == Saved(r, probed)
              active == HasStatus(r, file, Active)
          IN /\ Probe(readable)
             /\ \/ /\ r \notin stale
                   /\ queue' = file
                   /\ Goes(r, "reload")
                   /\ UNCHANGED stale
                \/ /\ r \in stale /\ active
                   /\ queue' = file
                   /\ Goes(r, "off")
                   /\ UNCHANGED stale
                \/ /\ r \in stale /\ ~active
                   /\ queue' = Enqueue(r)
                   /\ Goes(r, "load")
                   /\ stale' = stale \ {r}
    BY DEF CheckStale
  <1> DEFINE probed == IF HasStatus(r, copy[r], {"running"})
                       THEN StaleRecovered(r, copy[r], readable) ELSE copy[r]
             file == Saved(r, probed)
  <1>2. /\ driver[r] = "probe" /\ UNCHANGED retried /\ unchangedProcesses
        /\ faults' \in 0..MaxFaults /\ copy' = [copy EXCEPT ![r] = NoItems]
        /\ copy[r] \in [Items -> ItemType] /\ stale \subseteq Runs /\ retried \subseteq Runs
    BY <1>1, FaultFacts DEF CheckStale, IInv, Typed, TypeOK, Probe, Holds
  <1>3. Derived(r, probed)
    BY <1>2, StaleIsDerived DEF Derived, ItemsOf
  <1>4. Respects(r, file) /\ KeepsCompleted(file)
    <2> HIDE DEF probed
    <2> QED BY <1>2, <1>3, SavedRespects DEF Holding
  <1>5. /\ {"reload", "off", "load"} \subseteq Places \ Executing
        /\ \A p \in {"reload", "off", "load"} : p \notin Holding
        /\ driver[r] \notin Executing
    BY <1>2 DEF Places, Executing, Holding
  <1>6. CASE /\ queue' = file /\ stale' = stale
             /\ Goes(r, "reload") \/ Goes(r, "off")
    <2> HIDE DEF file
    <2>1. CASE Goes(r, "reload")
      BY <1>2, <1>4, <1>5, <1>6, <2>1, NoItemsFacts, LoopStepKeeps DEF CompletionIsKept, KeepsCompleted
    <2>2. CASE Goes(r, "off")
      BY <1>2, <1>4, <1>5, <1>6, <2>2, NoItemsFacts, LoopStepKeeps DEF CompletionIsKept, KeepsCompleted
    <2> QED BY <1>6, <2>1, <2>2
  <1>7. CASE /\ r \in stale /\ ~HasStatus(r, file, Active)
             /\ queue' = Enqueue(r) /\ Goes(r, "load") /\ stale' = stale \ {r}
    <2> HIDE DEF file
    <2>1. \A i \in ItemsOf(r) : file[i].status # "running"
      BY <1>7 DEF HasStatus, Active
    <2>2. \A i \in ItemsOf(r) : i \notin spared => ~HasProcess(i)
      BY <1>4, <2>1 DEF Respects, ItemsOf
    <2>3. Respects(r, queue')
      BY <1>7, <2>2, EnqueueRespects
    <2>4. \A i \in Items : i \notin ItemsOf(r) => queue'[i] = queue[i]
      BY <2>3 DEF Respects
    <2>5. CompletionIsKept
      BY <1>7, <2>4 DEF CompletionIsKept, ItemsOf
    <2>6. stale' \subseteq Runs /\ retried' \subseteq Runs
      BY <1>2, <1>7
    <2> QED BY <1>2, <1>5, <1>7, <2>3, <2>5, <2>6, NoItemsFacts, LoopStepKeeps
  <1> QED BY <1>1, <1>6, <1>7

LEMMA RefreshQueuePreserves ==
  ASSUME IInv, NEW r \in Runs, RefreshQueue(r)
  PROVE  IInv' /\ CompletionIsKept
  <1>1. PICK readable \in BOOLEAN :
          /\ Probe(readable)
          /\ queue' = Refreshed(r, readable)
          /\ Holds(r, [i \in Items |-> IF i \in ItemsOf(r) THEN queue'[i] ELSE NoItem])
    BY DEF RefreshQueue
  <1> DEFINE items == [i \in Items |-> IF i \in ItemsOf(r) THEN queue'[i] ELSE NoItem]
  <1>2. /\ driver[r] = "refresh" /\ UNCHANGED <<stale, retried>> /\ unchangedProcesses
        /\ faults' \in 0..MaxFaults /\ copy' = [copy EXCEPT ![r] = items]
        /\ stale \subseteq Runs /\ retried \subseteq Runs /\ Goes(r, "decide")
    BY <1>1, FaultFacts DEF RefreshQueue, IInv, Typed, TypeOK, Probe, Holds
  <1>3. Respects(r, queue') /\ KeepsCompleted(queue')
    BY <1>1, <1>2, RefreshRespects
  <1>4. items \in [Items -> ItemType] /\ \A i \in ItemsOf(r) : queue'[i] = items[i]
    BY <1>3, NoItemIsItem DEF Respects, ItemsOf
  <1>5. "decide" \in Places \ Executing /\ driver[r] \notin Executing
    BY <1>2 DEF Places, Executing, Holding
  <1> HIDE DEF items
  <1> QED BY <1>2, <1>3, <1>4, <1>5, LoopStepKeeps DEF CompletionIsKept, KeepsCompleted

LEMMA LoadPreserves ==
  ASSUME IInv, NEW r \in Runs, Invoke(r) \/ LoadQueue(r)
  PROVE  IInv' /\ CompletionIsKept
  <1>1. /\ queue' = queue /\ UNCHANGED <<stale, retried>> /\ unchangedProcesses
        /\ faults' \in 0..MaxFaults
        /\ stale \subseteq Runs /\ retried \subseteq Runs
    BY FaultFacts DEF Invoke, LoadQueue, IInv, Typed, TypeOK
  <1>2. Respects(r, queue') /\ KeepsCompleted(queue')
    BY <1>1, QueueRespects
  <1>3. CASE Invoke(r)
    <2>1. /\ Goes(r, "load") /\ driver[r] = "off" /\ copy' = [copy EXCEPT ![r] = copy[r]]
          /\ copy[r] \in [Items -> ItemType]
      BY <1>3 DEF Invoke, IInv, Typed, TypeOK
    <2>2. "load" \in Places \ Executing /\ "load" \notin Holding /\ driver[r] \notin Executing
      BY <2>1 DEF Places, Executing, Holding
    <2> QED BY <1>1, <1>2, <2>1, <2>2, LoopStepKeeps DEF CompletionIsKept, KeepsCompleted
  <1>4. CASE LoadQueue(r)
    <2>1. /\ driver[r] \in {"load", "reload", "pass"} /\ Goes(r, AfterLoad[driver[r]])
          /\ copy' = [copy EXCEPT ![r] = Loaded(r)]
      BY <1>4 DEF LoadQueue, AfterLoad, Holds
    <2>2. AfterLoad[driver[r]] \in {"recover", "refresh", "execute"}
      BY <2>1 DEF AfterLoad
    <2>3. Loaded(r) \in [Items -> ItemType] /\ \A i \in ItemsOf(r) : queue'[i] = Loaded(r)[i]
      BY <1>1, NoItemIsItem DEF Loaded, IInv, Typed, TypeOK, ItemsOf
    <2>4. AfterLoad[driver[r]] \in Places \ Executing /\ driver[r] \notin Executing
      BY <2>1, <2>2 DEF Places, Executing, Holding
    <2> QED BY <1>1, <1>2, <2>1, <2>3, <2>4, LoopStepKeeps DEF CompletionIsKept, KeepsCompleted
  <1> QED BY <1>3, <1>4

LEMMA DecidePreserves ==
  ASSUME IInv, NEW r \in Runs, DecideRecovered(r) \/ DecideRetrySkipped(r) \/ Decide(r)
  PROVE  IInv' /\ CompletionIsKept
  <1>1. /\ driver[r] = "decide" /\ unchangedProcesses /\ copy' = [copy EXCEPT ![r] = NoItems]
        /\ faults' \in 0..MaxFaults /\ stale' \subseteq Runs /\ retried' \subseteq Runs
    BY FaultFacts DEF DecideRecovered, DecideRetrySkipped, Decide, IInv, Typed, TypeOK, Holds
  <1>2. /\ {"load", "pass", "off"} \subseteq Places \ Executing
        /\ \A p \in {"load", "pass", "off"} : p \notin Holding
        /\ driver[r] \in Holding /\ driver[r] \notin Executing
    BY <1>1 DEF Places, Executing, Holding
  <1>3. CASE DecideRecovered(r)
    <2>1. PICK again \in SecondLook : queue' = Saved(r, Recovered(r, copy[r], again))
      BY <1>3 DEF DecideRecovered
    <2>2. Respects(r, queue') /\ KeepsCompleted(queue')
      BY <1>2, <2>1, RecoveredIsDerived, SavedRespects
    <2>3. Goes(r, "load")
      BY <1>3 DEF DecideRecovered
    <2> QED BY <1>1, <1>2, <2>2, <2>3, NoItemsFacts, LoopStepKeeps DEF CompletionIsKept, KeepsCompleted
  <1>4. CASE DecideRetrySkipped(r)
    <2>1. /\ queue' = Enqueue(r) /\ Goes(r, "load")
          /\ \A i \in ItemsOf(r) : copy[r][i].status = "skipped"
      BY <1>4 DEF DecideRetrySkipped, AllSkipped
    <2>2. \A i \in ItemsOf(r) : queue[i] = copy[r][i] \/ Interrupted(queue[i])
      BY <1>2 DEF IInv, Agrees
    <2>3. \A i \in ItemsOf(r) : queue[i].status \notin {"running", "completed"}
      BY <2>1, <2>2 DEF Interrupted
    <2>4. \A i \in ItemsOf(r) : i \notin spared => ~HasProcess(i)
      BY <2>3 DEF IInv, Accounted, ItemsOf
    <2>5. Respects(r, queue')
      BY <2>1, <2>4, EnqueueRespects
    <2>6. CompletionIsKept
      BY <2>3, <2>5 DEF CompletionIsKept, Respects
    <2> QED BY <1>1, <1>2, <2>1, <2>5, <2>6, NoItemsFacts, LoopStepKeeps
  <1>5. CASE Decide(r)
    <2>1. queue' = queue /\ (Goes(r, "pass") \/ Goes(r, "off"))
      BY <1>5 DEF Decide
    <2>2. Respects(r, queue') /\ KeepsCompleted(queue')
      BY <2>1, QueueRespects
    <2>3. CASE Goes(r, "pass")
      BY <1>1, <1>2, <2>2, <2>3, NoItemsFacts, LoopStepKeeps DEF CompletionIsKept, KeepsCompleted
    <2>4. CASE Goes(r, "off")
      BY <1>1, <1>2, <2>2, <2>4, NoItemsFacts, LoopStepKeeps DEF CompletionIsKept, KeepsCompleted
    <2> QED BY <2>1, <2>3, <2>4
  <1> QED BY <1>3, <1>4, <1>5

LEMMA LoopStepPreserves ==
  ASSUME IInv, NEW r \in Runs, LoopStep(r)
  PROVE  IInv' /\ CompletionIsKept
  BY LoadPreserves, RecoverResourcesPreserves, CheckStalePreserves, RefreshQueuePreserves,
     DecidePreserves DEF LoopStep
-----------------------------------------------------------------------------
(* The steps of a pass.  One item is written, in memory and on file; if it *)
(* has a process, a stop has spared it.                                    *)
LEMMA UpdateKeeps ==
  ASSUME IInv, NEW r \in Runs, NEW i \in ItemsOf(r), NEW item \in ItemType,
         NEW place \in {"execute", "launch"}, Goes(r, place), UpdateItem(r, i, item),
         driver[r] \in {"execute", "record"}, driver[r] = "record" => i = cursor[r],
         cursor' = [cursor EXCEPT ![r] = i], place = "launch" => item.status = "running",
         queue[i].status # "completed", i \notin spared' => ~HasProcess(i),
         spared' \subseteq spared, \A j \in Items \ {i} : j \in spared => j \in spared',
         UNCHANGED <<stale, retried, stopping, child, orphans, machine, checkpoint, evidence, faults>>
  PROVE  IInv' /\ CompletionIsKept
  <1>1. /\ queue' = [queue EXCEPT ![i] = item] /\ i \in Items /\ RunOf[i] = r
        /\ copy' = [copy EXCEPT ![r][i] = item]
    BY DEF UpdateItem, ItemsOf
  <1>2. /\ driver'[r] = place /\ \A s \in Runs \ {r} : driver'[s] = driver[s]
        /\ cursor'[r] = i /\ \A s \in Runs \ {r} : cursor'[s] = cursor[s]
        /\ driver' \in [Runs -> Places] /\ cursor' \in [Runs -> Items \cup {0}]
    BY <1>1 DEF IInv, Typed, TypeOK, Goes, Places, Holding, Executing
  <1>3. /\ copy'[r][i] = item /\ \A j \in Items \ {i} : copy'[r][j] = copy[r][j]
        /\ \A s \in Runs \ {r} : copy'[s] = copy[s]
        /\ copy' \in [Runs -> [Items -> ItemType]]
    <2>1. copy \in [Runs -> [Items -> ItemType]]
      BY DEF IInv, Typed, TypeOK
    <2>2. copy' = [copy EXCEPT ![r] = [copy[r] EXCEPT ![i] = item]]
      BY <1>1
    <2>3. [copy[r] EXCEPT ![i] = item] \in [Items -> ItemType]
      BY <1>1, <2>1
    <2> QED BY <1>1, <2>1, <2>2, <2>3
  <1>4. /\ queue'[i] = item /\ \A j \in Items \ {i} : queue'[j] = queue[j]
        /\ queue' \in [Items -> ItemType]
    BY <1>1 DEF IInv, Typed, TypeOK
  <1>5. Typed'
    BY <1>2, <1>3, <1>4 DEF IInv, Typed, TypeOK, Places, Holding, Executing
  <1>6. Frame(r)
    BY <1>1, <1>2, <1>3, <1>4, NumbersAssumption DEF Frame, IInv, Typed, TypeOK
  <1>7. Owns(r)' /\ Stopped(r)'
    BY <1>2, <1>4 DEF Owns, Stopped, IInv, Executing, ItemsOf
  <1>8. Agrees(r)'
    <2>1. \A j \in ItemsOf(r) \ {i} : queue[j] = copy[r][j] \/ Interrupted(queue[j])
      BY DEF IInv, Agrees, Holding, Executing
    <2>2. \A j \in ItemsOf(r) : queue'[j] = copy'[r][j] \/ Interrupted(queue'[j])
      BY <1>3, <1>4, <2>1 DEF ItemsOf
    <2> QED BY <2>2 DEF Agrees, ItemsOf, Interrupted
  <1>9. ASSUME NEW j \in ItemsOf(r) PROVE Accounted(j)'
    <2>1. /\ Accounted(j) /\ RunOf[j] = r /\ j \in Items /\ j \notin child
          /\ orphans[j] \in Nat /\ orphans' = orphans /\ child' = child
      BY NumbersAssumption DEF IInv, Typed, TypeOK, ItemsOf, Accounted
    <2>2. HasProcess(j)' <=> HasProcess(j)
      BY DEF HasProcess
    <2>3. CASE j = i
      <3>1. j \notin spared' => orphans[j] = 0
        BY <2>1, <2>3 DEF HasProcess
      <3> QED BY <1>2, <1>4, <2>1, <2>2, <2>3, <3>1 DEF Accounted
    <2>4. CASE j # i
      <3>1. cursor'[RunOf[j]] # j /\ queue'[j] = queue[j] /\ (j \notin spared' => j \notin spared)
        BY <1>2, <1>4, <2>1, <2>4
      <3> QED BY <2>1, <2>2, <3>1 DEF Accounted
    <2> QED BY <2>3, <2>4
  <1>10. CompletionIsKept
    BY <1>4 DEF CompletionIsKept
  <1> QED BY <1>5, <1>6, <1>7, <1>8, <1>9, <1>10, StepKeeps

(* The driver visits an item it loaded as queued.                          *)
LEMMA VisitFacts ==
  ASSUME IInv, NEW r \in Runs, driver[r] = "execute", NEW i \in Items, IsNext(r, i)
  PROVE  /\ i \in ItemsOf(r) /\ copy[r][i] \in ItemType
         /\ queue[i].status # "completed"
         /\ i \notin spared => ~HasProcess(i)
  <1>1. i \in ItemsOf(r) /\ copy[r][i].status = "queued"
    BY DEF IsNext, Ahead
  <1>2. queue[i] = copy[r][i] \/ Interrupted(queue[i])
    BY <1>1 DEF IInv, Agrees, Holding, Executing
  <1>3. queue[i].status \notin {"completed", "running"}
    BY <1>1, <1>2 DEF Interrupted
  <1> QED BY <1>1, <1>3 DEF IInv, Typed, TypeOK, Accounted

LEMMA HoldPreserves ==
  ASSUME IInv, NEW r \in Runs, Hold(r)
  PROVE  IInv' /\ CompletionIsKept
  <1>1. PICK i \in Items :
          /\ IsNext(r, i)
          /\ UpdateItem(r, i, MarkDecision(copy[r][i], Decision(i, copy[r][i])))
          /\ cursor' = [cursor EXCEPT ![r] = i]
    BY DEF Hold
  <1>2. /\ i \in ItemsOf(r) /\ copy[r][i] \in ItemType
        /\ queue[i].status # "completed"
        /\ i \notin spared => ~HasProcess(i)
    BY <1>1, VisitFacts DEF Hold
  <1>3. MarkDecision(copy[r][i], Decision(i, copy[r][i])) \in ItemType
    BY <1>2, DecisionFacts
  <1>4. /\ driver[r] = "execute" /\ Goes(r, "execute") /\ spared' = spared
        /\ UNCHANGED <<stale, retried, stopping, child, orphans, machine, checkpoint, evidence, faults>>
    BY DEF Hold, Goes, IInv, Typed, TypeOK, noFault
  <1> QED BY <1>1, <1>2, <1>3, <1>4, UpdateKeeps

LEMMA StartPreserves ==
  ASSUME IInv, NEW r \in Runs, Start(r)
  PROVE  IInv' /\ CompletionIsKept
  <1>1. PICK i \in Items :
          /\ IsNext(r, i)
          /\ UpdateItem(r, i, MarkRunning(copy[r][i]))
          /\ cursor' = [cursor EXCEPT ![r] = i]
          /\ spared' = IF HasProcess(i) THEN spared ELSE spared \ {i}
    BY DEF Start
  <1>2. /\ i \in ItemsOf(r) /\ copy[r][i] \in ItemType
        /\ queue[i].status # "completed"
        /\ i \notin spared => ~HasProcess(i)
    BY <1>1, VisitFacts DEF Start
  <1>3. MarkRunning(copy[r][i]) \in ItemType /\ MarkRunning(copy[r][i]).status = "running"
    BY <1>2, MarkFacts
  <1>4. /\ driver[r] = "execute" /\ Goes(r, "launch")
        /\ UNCHANGED <<stale, retried, stopping, child, orphans, machine, checkpoint, evidence, faults>>
    BY DEF Start, noFault
  <1>5. /\ i \notin spared' => ~HasProcess(i)
        /\ spared' \subseteq spared /\ \A j \in Items \ {i} : j \in spared => j \in spared'
    BY <1>1, <1>2
  <1> QED BY <1>1, <1>2, <1>3, <1>4, <1>5, UpdateKeeps

LEMMA RecordPreserves ==
  ASSUME IInv, NEW r \in Runs, Record(r)
  PROVE  IInv' /\ CompletionIsKept
  <1>1. PICK again \in SecondLook :
          UpdateItem(r, cursor[r], RecoverResource(cursor[r], copy[r][cursor[r]], conflict, again))
    BY DEF Record
  <1> DEFINE i == cursor[r]
             item == RecoverResource(i, copy[r][i], conflict, again)
  <1>2. /\ driver[r] = "record" /\ Goes(r, "execute") /\ spared' = spared
        /\ UNCHANGED <<stale, retried, stopping, child, orphans, machine, checkpoint, evidence, faults>>
    BY DEF Record, noFault
  <1>3. i \in ItemsOf(r) /\ i \in Items /\ RunOf[i] = r /\ queue[i].status # "completed"
    BY <1>2 DEF IInv, Owns, Executing, Interrupted, ItemsOf
  <1>4. cursor' = [cursor EXCEPT ![r] = i]
    BY DEF Record, IInv, Typed, TypeOK
  <1>5. i \notin spared => ~HasProcess(i)
    <2>1. Accounted(i) /\ cursor[RunOf[i]] = i /\ driver[RunOf[i]] = "record" /\ orphans[i] \in Nat
      BY <1>2, <1>3, NumbersAssumption DEF IInv, Typed, TypeOK
    <2>2. i \notin spared => orphans[i] = 0 /\ i \notin child
      BY <2>1 DEF Accounted, Executing
    <2> QED BY <2>2 DEF HasProcess
  <1>6. item \in ItemType
    <2>1. copy[r][i] \in ItemType /\ conflict \in BOOLEAN /\ again \in BOOLEAN
      BY <1>3 DEF IInv, Typed, TypeOK, conflict, SecondLook
    <2> QED BY <1>3, <2>1, RecoverFacts
  <1>7. UpdateItem(r, i, item)
    BY <1>1
  <1> HIDE DEF item
  <1> QED BY <1>2, <1>3, <1>4, <1>5, <1>6, <1>7, UpdateKeeps

LEMMA EndPassPreserves ==
  ASSUME IInv, NEW r \in Runs, EndPass(r)
  PROVE  IInv' /\ CompletionIsKept
  <1>1. /\ driver[r] = "execute" /\ cursor' = [cursor EXCEPT ![r] = 0]
        /\ copy' = [copy EXCEPT ![r] = NoItems]
        /\ UNCHANGED <<queue, stale, retried, stopping, child, orphans, machine, checkpoint,
                       evidence, spared, faults>>
    BY DEF EndPass, Holds, noFault
  <1>2. PICK place \in {"off", "load"} : driver' = [driver EXCEPT ![r] = place]
    BY DEF EndPass, Goes
  <1>3. /\ driver'[r] = place /\ \A s \in Runs \ {r} : driver'[s] = driver[s]
        /\ cursor'[r] = 0 /\ \A s \in Runs \ {r} : cursor'[s] = cursor[s]
        /\ copy' \in [Runs -> [Items -> ItemType]] /\ \A s \in Runs \ {r} : copy'[s] = copy[s]
        /\ driver' \in [Runs -> Places]
    BY <1>1, <1>2, NoItemsFacts DEF IInv, Typed, TypeOK, Places, Holding, Executing
  <1>4. Typed'
    BY <1>1, <1>3 DEF IInv, Typed, TypeOK, Places, Holding, Executing
  <1>5. Frame(r)
    BY <1>1, <1>3, NumbersAssumption DEF Frame, IInv, Typed, TypeOK
  <1>6. Owns(r)' /\ Agrees(r)' /\ Stopped(r)'
    BY <1>1, <1>3 DEF Owns, Agrees, Stopped, IInv, Executing, Holding
  <1>7. ASSUME NEW j \in ItemsOf(r) PROVE Accounted(j)'
    <2>1. Accounted(j) /\ RunOf[j] = r /\ j \notin child
      BY <1>1 DEF IInv, ItemsOf, Accounted
    <2>2. (HasProcess(j)' <=> HasProcess(j)) /\ driver'[RunOf[j]] \notin Executing
      BY <1>1, <1>3, <2>1 DEF HasProcess, Executing
    <2> QED BY <1>1, <2>1, <2>2 DEF Accounted, Executing
  <1> QED BY <1>1, <1>4, <1>5, <1>6, <1>7, StepKeeps DEF CompletionIsKept

(* The executor: the queue is not touched, processes end, and the child    *)
(* that starts is the item of its driver.                                  *)
LEMMA WorkKeeps ==
  ASSUME IInv, NEW r \in Runs, driver[r] \in {"launch", "train"},
         NEW place \in {"train", "record"}, Goes(r, place), place = "train" => driver[r] = "launch",
         UNCHANGED <<queue, stale, retried, cursor, stopping, machine, checkpoint, evidence,
                     spared, faults>>,
         copy' \in [Runs -> [Items -> ItemType]], \A s \in Runs \ {r} : copy'[s] = copy[s],
         \A j \in Items \ {cursor[r]} : copy'[r][j] = copy[r][j],
         orphans' \in [Items -> 0..MaxOrphans], \A j \in Items : orphans'[j] <= orphans[j],
         child' \subseteq child \cup {cursor[r]}, place = "record" => cursor[r] \notin child'
  PROVE  IInv' /\ CompletionIsKept
  <1>1. /\ driver'[r] = place /\ \A s \in Runs \ {r} : driver'[s] = driver[s]
        /\ driver' \in [Runs -> Places]
    BY DEF IInv, Typed, TypeOK, Goes, Places, Holding, Executing
  <1>2. cursor[r] \in ItemsOf(r) /\ cursor[r] \in Items /\ RunOf[cursor[r]] = r
    BY DEF IInv, Owns, Executing, ItemsOf
  <1>3. Typed'
    BY <1>1, <1>2 DEF IInv, Typed, TypeOK, Places, Holding, Executing
  <1>4. Frame(r)
    BY <1>1, <1>2, NumbersAssumption DEF Frame, IInv, Typed, TypeOK
  <1>5. Owns(r)' /\ Stopped(r)'
    BY <1>1 DEF IInv, Owns, Stopped, Executing, Interrupted, ItemsOf
  <1>6. Agrees(r)'
    <2>1. \A j \in ItemsOf(r) \ {cursor[r]} : queue[j] = copy[r][j] \/ Interrupted(queue[j])
      BY DEF IInv, Agrees, Executing
    <2>2. \A j \in ItemsOf(r) : \/ j = cursor[r]
                                 \/ queue[j] = copy'[r][j]
                                 \/ Interrupted(queue[j])
      BY <2>1 DEF ItemsOf
    <2> QED BY <1>1, <2>2 DEF Agrees, Executing, Holding, ItemsOf, Interrupted
  <1>7. ASSUME NEW j \in ItemsOf(r) PROVE Accounted(j)'
    <2>1. /\ Accounted(j) /\ RunOf[j] = r /\ j \in Items
          /\ orphans[j] \in Nat /\ orphans'[j] \in Nat /\ orphans'[j] <= orphans[j]
      BY NumbersAssumption DEF IInv, Typed, TypeOK, ItemsOf
    <2>2. j # cursor[r] => j \notin child /\ j \notin child'
      BY <2>1 DEF Accounted
    <2>3. j \in child' => place = "train" /\ cursor[r] = j
      BY <2>2
    <2>4. CASE j = cursor[r]
      <3>1. j \notin spared =>
              /\ orphans[j] = 0 /\ orphans'[j] = 0
              /\ driver[r] = "launch" => queue[j].status = "running"
              /\ j \in child => queue[j].status = "running"
        BY <2>1, <2>4 DEF Accounted, Executing, HasProcess
      <3>2. j \notin spared /\ HasProcess(j)' => queue[j].status = "running"
        <4>1. j \notin spared /\ HasProcess(j)' => j \in child'
          BY <3>1 DEF HasProcess
        <4>2. j \in child' => driver[r] = "launch"
          BY <2>3
        <4> QED BY <3>1, <4>1, <4>2
      <3> QED BY <1>1, <2>1, <2>3, <2>4, <3>1, <3>2 DEF Accounted, Executing
    <2>5. CASE j # cursor[r]
      <3>1. HasProcess(j)' => HasProcess(j)
        BY <2>1, <2>2, <2>5 DEF HasProcess
      <3>2. j \notin spared => (HasProcess(j)' => queue[j].status = "running") /\ orphans'[j] <= 1
        BY <2>1, <3>1 DEF Accounted
      <3> QED BY <2>1, <2>2, <2>5, <3>2 DEF Accounted
    <2> QED BY <2>4, <2>5
  <1> QED BY <1>3, <1>4, <1>5, <1>6, <1>7, StepKeeps DEF CompletionIsKept

LEMMA CleanupFacts ==
  ASSUME Typed, NEW killed, Cleanup(killed)
  PROVE  /\ orphans' \in [Items -> 0..MaxOrphans]
         /\ \A j \in Items : orphans'[j] <= orphans[j]
  <1>1. orphans \in [Items -> 0..MaxOrphans] /\ MaxOrphans \in Nat
    BY NumbersAssumption DEF Typed, TypeOK
  <1>2. ASSUME NEW j \in Items
        PROVE  orphans'[j] \in 0..MaxOrphans /\ orphans'[j] <= orphans[j]
    <2>1. orphans'[j] = 0 \/ orphans'[j] = orphans[j]
      BY DEF Cleanup
    <2>2. orphans[j] \in 0..MaxOrphans
      BY <1>1
    <2> QED BY <1>1, <2>1, <2>2
  <1>3. orphans' = [j \in Items |-> orphans'[j]]
    BY DEF Cleanup
  <1> QED BY <1>2, <1>3

LEMMA FinishFacts ==
  ASSUME IInv, NEW r \in Runs, cursor[r] \in Items, NEW result \in Results, result.status # "none",
         Finish(r, result)
  PROVE  /\ copy' \in [Runs -> [Items -> ItemType]]
         /\ \A s \in Runs \ {r} : copy'[s] = copy[s]
         /\ \A j \in Items \ {cursor[r]} : copy'[r][j] = copy[r][j]
         /\ copy'[r][cursor[r]] = MarkResult(copy[r][cursor[r]], result)
  <1> DEFINE i == cursor[r]
             item == MarkResult(copy[r][i], result)
  <1>1. copy \in [Runs -> [Items -> ItemType]] /\ i \in Items
    BY DEF IInv, Typed, TypeOK
  <1>2. item \in ItemType
    BY <1>1, MarkResultFacts
  <1>3. copy' = [copy EXCEPT ![r] = [copy[r] EXCEPT ![i] = item]]
    BY <1>1 DEF Finish
  <1> HIDE DEF i, item
  <1>4. [copy[r] EXCEPT ![i] = item] \in [Items -> ItemType]
    BY <1>1, <1>2
  <1>5. /\ copy' \in [Runs -> [Items -> ItemType]]
        /\ \A s \in Runs \ {r} : copy'[s] = copy[s]
        /\ \A j \in Items \ {i} : copy'[r][j] = copy[r][j]
        /\ copy'[r][i] = item
    BY <1>1, <1>3, <1>4
  <1> QED BY <1>5 DEF i, item

LEMMA GivenResults ==
  ASSUME NEW status \in {"completed", "skipped", "failed"}
  PROVE  /\ Result(status, "", FALSE, 0) \in Results
         /\ Result(status, "", FALSE, 0).status # "none"
         /\ ~Result(status, "", FALSE, 0).waiting
  BY DEF Result, Results

LEMMA WaitResult ==
  ASSUME NEW attempt \in 0..3
  PROVE  /\ Result("failed", "", TRUE, attempt) \in Results
         /\ Result("failed", "", TRUE, attempt).status # "none"
         /\ Result("failed", "", TRUE, attempt).attempt = attempt
  BY DEF Result, Results

LEMMA OutcomesFacts ==
  ASSUME NEW item \in ItemType, NEW outcome \in Outcomes(item)
  PROVE  outcome \in Results /\ outcome.status # "none"
  <1>1. item.gpu \in 0..3 /\ item.resource \in 0..3 /\ conflict \in BOOLEAN
    BY DEF ItemType, conflict
  <1>2. \/ outcome = Result("completed", "", FALSE, 0)
        \/ outcome = Result("failed", "", FALSE, 0)
        \/ outcome = Result("failed", "ram", FALSE, item.resource)
        \/ outcome = Result("failed", "oom", conflict, item.gpu)
    BY DEF Outcomes
  <1>3. CASE outcome = Result("failed", "ram", FALSE, item.resource)
    BY <1>1, <1>3 DEF Result, Results
  <1>4. CASE outcome = Result("failed", "oom", conflict, item.gpu)
    BY <1>1, <1>4 DEF Result, Results
  <1> QED BY <1>2, <1>3, <1>4, GivenResults

LEMMA ExecutingFacts ==
  ASSUME IInv, NEW r \in Runs, driver[r] \in Executing
  PROVE  /\ cursor[r] \in ItemsOf(r) /\ cursor[r] \in Items /\ RunOf[cursor[r]] = r
         /\ copy[r][cursor[r]] \in ItemType
         /\ orphans \in [Items -> 0..MaxOrphans] /\ \A j \in Items : orphans[j] <= orphans[j]
  <1>1. cursor[r] \in ItemsOf(r)
    BY DEF IInv, Owns
  <1>2. MaxOrphans \in Nat
    BY NumbersAssumption
  <1> QED BY <1>1, <1>2 DEF ItemsOf, IInv, Typed, TypeOK

LEMMA RefusePreserves ==
  ASSUME IInv, NEW r \in Runs, Refuse(r)
  PROVE  IInv' /\ CompletionIsKept
  <1>1. PICK status \in {"skipped", "failed"} : Finish(r, Result(status, "", FALSE, 0))
    BY DEF Refuse
  <1>2. /\ driver[r] = "launch" /\ Goes(r, "record")
        /\ UNCHANGED <<queue, stale, retried, cursor, stopping, child, orphans, machine, checkpoint,
                       evidence, spared, faults>>
    BY DEF Refuse, noFault
  <1>3. driver[r] \in Executing
    BY <1>2 DEF Executing
  <1>4. /\ copy' \in [Runs -> [Items -> ItemType]]
        /\ \A s \in Runs \ {r} : copy'[s] = copy[s]
        /\ \A j \in Items \ {cursor[r]} : copy'[r][j] = copy[r][j]
    BY <1>1, <1>3, ExecutingFacts, GivenResults, FinishFacts
  <1>5. cursor[r] \notin child
    BY <1>2, <1>3, ExecutingFacts DEF IInv, Accounted
  <1> QED BY <1>2, <1>3, <1>4, <1>5, ExecutingFacts, WorkKeeps

LEMMA WaitForGpuPreserves ==
  ASSUME IInv, NEW r \in Runs, WaitForGpu(r)
  PROVE  IInv' /\ CompletionIsKept
  <1>1. PICK kc \in SUBSET child, ko \in SUBSET Orphaned : Cleanup(ko) /\ child' = child \ kc
    BY DEF WaitForGpu
  <1>2. /\ driver[r] = "launch" /\ Goes(r, "record")
        /\ Finish(r, Result("failed", "", TRUE, copy[r][cursor[r]].gpu))
        /\ UNCHANGED <<queue, stale, retried, cursor, stopping, machine, checkpoint,
                       evidence, spared, faults>>
    BY DEF WaitForGpu, noFault
  <1>3. driver[r] \in Executing
    BY <1>2 DEF Executing
  <1>4. copy[r][cursor[r]].gpu \in 0..3
    BY <1>3, ExecutingFacts DEF ItemType
  <1>5. /\ copy' \in [Runs -> [Items -> ItemType]]
        /\ \A s \in Runs \ {r} : copy'[s] = copy[s]
        /\ \A j \in Items \ {cursor[r]} : copy'[r][j] = copy[r][j]
    BY <1>2, <1>3, <1>4, ExecutingFacts, WaitResult, FinishFacts
  <1>6. cursor[r] \notin child' /\ child' \subseteq child \cup {cursor[r]}
    BY <1>1, <1>2, <1>3, ExecutingFacts DEF IInv, Accounted
  <1>7. orphans' \in [Items -> 0..MaxOrphans] /\ \A j \in Items : orphans'[j] <= orphans[j]
    BY <1>1, CleanupFacts DEF IInv
  <1> QED BY <1>2, <1>3, <1>5, <1>6, <1>7, WorkKeeps

LEMMA SpawnPreserves ==
  ASSUME IInv, NEW r \in Runs, Spawn(r)
  PROVE  IInv' /\ CompletionIsKept
  <1>1. PICK kc \in SUBSET child, ko \in SUBSET Orphaned :
          Cleanup(ko) /\ child' = (child \ kc) \cup {cursor[r]}
    BY DEF Spawn
  <1>2. /\ driver[r] = "launch" /\ Goes(r, "train")
        /\ UNCHANGED <<queue, stale, retried, cursor, copy, stopping, machine, checkpoint,
                       evidence, spared, faults>>
    BY DEF Spawn, noFault
  <1>3. child' \subseteq child \cup {cursor[r]}
    BY <1>1
  <1>4. orphans' \in [Items -> 0..MaxOrphans] /\ \A j \in Items : orphans'[j] <= orphans[j]
    BY <1>1, CleanupFacts DEF IInv
  <1>5. copy' \in [Runs -> [Items -> ItemType]]
    BY <1>2 DEF IInv, Typed, TypeOK
  <1> QED BY <1>2, <1>3, <1>4, <1>5, WorkKeeps

LEMMA TrainEndsPreserves ==
  ASSUME IInv, NEW r \in Runs, TrainEnds(r)
  PROVE  IInv' /\ CompletionIsKept
  <1> DEFINE item == copy[r][cursor[r]]
             results == IF cursor[r] \in child THEN Outcomes(item) ELSE {Result("failed", "", FALSE, 0)}
  <1>1. PICK result \in results :
          /\ Finish(r, result)
          /\ \E kc \in SUBSET (child \ {cursor[r]}),
                ko \in SUBSET (IF result.output = "oom" THEN Orphaned ELSE {}) :
               /\ result.output # "oom" => kc = {}
               /\ Cleanup(ko) /\ child' = child \ (kc \cup {cursor[r]})
    BY DEF TrainEnds
  <1>2. PICK kc \in SUBSET (child \ {cursor[r]}),
             ko \in SUBSET (IF result.output = "oom" THEN Orphaned ELSE {}) :
          Cleanup(ko) /\ child' = child \ (kc \cup {cursor[r]})
    BY <1>1
  <1>3. /\ driver[r] = "train" /\ Goes(r, "record")
        /\ UNCHANGED <<queue, stale, retried, cursor, stopping, machine, checkpoint,
                       evidence, spared, faults>>
    BY DEF TrainEnds, noFault
  <1>4. driver[r] \in Executing
    BY <1>3 DEF Executing
  <1>5. result \in Results /\ result.status # "none"
    <2>1. item \in ItemType /\ result \in Outcomes(item)
      BY <1>4, ExecutingFacts DEF Outcomes
    <2> HIDE DEF item
    <2> QED BY <2>1, OutcomesFacts
  <1>6. /\ copy' \in [Runs -> [Items -> ItemType]]
        /\ \A s \in Runs \ {r} : copy'[s] = copy[s]
        /\ \A j \in Items \ {cursor[r]} : copy'[r][j] = copy[r][j]
    BY <1>1, <1>4, <1>5, ExecutingFacts, FinishFacts
  <1>7. cursor[r] \notin child' /\ child' \subseteq child \cup {cursor[r]}
    BY <1>2
  <1>8. orphans' \in [Items -> 0..MaxOrphans] /\ \A j \in Items : orphans'[j] <= orphans[j]
    BY <1>2, CleanupFacts DEF IInv
  <1> QED BY <1>3, <1>6, <1>7, <1>8, WorkKeeps

LEMMA ExecutionPreserves ==
  ASSUME IInv, NEW r \in Runs, Execution(r)
  PROVE  IInv' /\ CompletionIsKept
  BY HoldPreserves, StartPreserves, EndPassPreserves, RefusePreserves, WaitForGpuPreserves,
     SpawnPreserves, TrainEndsPreserves, RecordPreserves DEF Execution
-----------------------------------------------------------------------------
(* A driver ends.  Of its items, those that go on training count as        *)
(* running; the others may have been marked.                               *)
LEMMA GoneKeeps ==
  ASSUME IInv, NEW r \in Runs, Exit(r),
         queue' \in [Items -> ItemType], \A j \in Items \ ItemsOf(r) : queue'[j] = queue[j],
         child' \subseteq child \ ItemsOf(r), orphans' \in [Items -> 0..MaxOrphans],
         \A j \in Items \ ItemsOf(r) : orphans'[j] <= orphans[j],
         \A j \in ItemsOf(r) \ spared : orphans'[j] <= 1 /\ (orphans'[j] > 0 => queue'[j].status = "running"),
         stopping' \in [Runs -> Stops], \A s \in Runs \ {r} : stopping'[s] = stopping[s], Stopped(r)',
         DOMAIN stopping'[r].items \subseteq ItemsOf(r),
         UNCHANGED <<stale, retried, machine, checkpoint, evidence, spared>>, faults' \in 0..MaxFaults
  PROVE  IInv'
  <1>1. /\ driver'[r] = "off" /\ \A s \in Runs \ {r} : driver'[s] = driver[s]
        /\ cursor'[r] = 0 /\ \A s \in Runs \ {r} : cursor'[s] = cursor[s]
        /\ copy' \in [Runs -> [Items -> ItemType]] /\ \A s \in Runs \ {r} : copy'[s] = copy[s]
        /\ driver' \in [Runs -> Places] /\ cursor' \in [Runs -> Items \cup {0}]
    BY NoItemsFacts DEF Exit, Goes, Holds, IInv, Typed, TypeOK, Places, Holding, Executing
  <1>2. Typed'
    <2>1. \A s \in Runs : /\ stopping'[s].pc \in {"off", "load", "mark"}
                          /\ DOMAIN stopping'[s].items \subseteq ItemsOf(s)
                          /\ \A j \in DOMAIN stopping'[s].items : stopping'[s].items[j] \in ItemType
      <3> TAKE s \in Runs
      <3>1. stopping'[s] \in Stops
        OBVIOUS
      <3>2. stopping'[s].pc \in {"off", "load", "mark"}
        BY <3>1 DEF Stops
      <3>3. \A j \in DOMAIN stopping'[s].items : stopping'[s].items[j] \in ItemType
        BY <3>1 DEF Stops
      <3>4. DOMAIN stopping'[s].items \subseteq ItemsOf(s)
        BY DEF IInv, Typed, TypeOK
      <3> QED BY <3>2, <3>3, <3>4
    <2> QED BY <1>1, <2>1 DEF IInv, Typed, TypeOK, Places, Holding, Executing, ItemsOf
  <1>3. Frame(r)
    BY <1>1, <1>2, NumbersAssumption DEF Frame, Typed, TypeOK
  <1>4. Owns(r)' /\ Agrees(r)'
    BY <1>1 DEF Owns, Agrees, Executing, Holding
  <1>5. ASSUME NEW j \in ItemsOf(r) PROVE Accounted(j)'
    <2>1. j \in Items /\ RunOf[j] = r /\ j \notin child' /\ orphans'[j] \in Nat
      BY NumbersAssumption DEF ItemsOf
    <2>2. driver'[RunOf[j]] = "off"
      BY <1>1, <2>1
    <2>3. j \notin spared => orphans'[j] <= 1 /\ (HasProcess(j)' => queue'[j].status = "running")
      BY <2>1 DEF HasProcess
    <2> QED BY <2>1, <2>2, <2>3 DEF Accounted, Executing
  <1> QED BY <1>2, <1>3, <1>4, <1>5, StepKeeps

(* The stop command acts beside a living driver.  It may mark one item; if *)
(* that goes on training it is spared.                                     *)
LEMMA StopKeeps ==
  ASSUME IInv, NEW r \in Runs, UNCHANGED <<driver, cursor, copy>>,
         NEW i, NEW item,
         \/ queue' = queue /\ spared' = spared
         \/ /\ i \in ItemsOf(r) /\ item \in ItemType
            /\ queue' = [queue EXCEPT ![i] = item] /\ Interrupted(item)
            /\ spared' = IF GoesOn(r, i)' THEN spared \cup {i} ELSE spared,
         child' \subseteq child, orphans' \in [Items -> 0..MaxOrphans],
         \A j \in Items : orphans'[j] <= orphans[j],
         stopping' \in [Runs -> Stops], \A s \in Runs \ {r} : stopping'[s] = stopping[s], Stopped(r)',
         DOMAIN stopping'[r].items \subseteq ItemsOf(r),
         UNCHANGED <<stale, retried, machine, checkpoint, evidence>>, faults' \in 0..MaxFaults
  PROVE  IInv'
  <1>1. \A j \in Items : orphans'[j] \in Nat /\ orphans[j] \in Nat
    BY NumbersAssumption DEF IInv, Typed, TypeOK
  <1>2. /\ queue' \in [Items -> ItemType]
        /\ \A j \in Items \ ItemsOf(r) : queue'[j] = queue[j] /\ (j \in spared' <=> j \in spared)
        /\ \A j \in Items : queue'[j] = queue[j] \/ (j = i /\ Interrupted(queue'[j]))
        /\ spared \subseteq spared' /\ spared' \subseteq Items
        /\ \A j \in Items : queue'[j] # queue[j] =>
              j = i /\ spared' = IF GoesOn(r, i)' THEN spared \cup {i} ELSE spared
    BY DEF IInv, Typed, TypeOK, ItemsOf
  <1>3. Typed'
    <2>1. \A s \in Runs : /\ stopping'[s].pc \in {"off", "load", "mark"}
                          /\ DOMAIN stopping'[s].items \subseteq ItemsOf(s)
                          /\ \A j \in DOMAIN stopping'[s].items : stopping'[s].items[j] \in ItemType
      <3> TAKE s \in Runs
      <3>1. stopping'[s] \in Stops
        OBVIOUS
      <3>2. stopping'[s].pc \in {"off", "load", "mark"}
        BY <3>1 DEF Stops
      <3>3. \A j \in DOMAIN stopping'[s].items : stopping'[s].items[j] \in ItemType
        BY <3>1 DEF Stops
      <3>4. DOMAIN stopping'[s].items \subseteq ItemsOf(s)
        BY DEF IInv, Typed, TypeOK
      <3> QED BY <3>2, <3>3, <3>4
    <2> QED BY <1>1, <1>2, <2>1 DEF IInv, Typed, TypeOK, ItemsOf
  <1>4. Frame(r)
    BY <1>1, <1>2 DEF Frame, ItemsOf
  <1>5. Owns(r)'
    BY <1>2 DEF IInv, Owns, ItemsOf, Interrupted
  <1>6. Agrees(r)'
    <2>1. driver[r] \in Holding \cup Executing =>
            \A j \in ItemsOf(r) :
              \/ driver[r] \in Executing /\ j = cursor[r]
              \/ queue'[j] = copy[r][j]
              \/ Interrupted(queue'[j])
      <3> SUFFICES ASSUME driver[r] \in Holding \cup Executing, NEW j \in ItemsOf(r)
                   PROVE  \/ driver[r] \in Executing /\ j = cursor[r]
                          \/ queue'[j] = copy[r][j]
                          \/ Interrupted(queue'[j])
        OBVIOUS
      <3>1. \/ driver[r] \in Executing /\ j = cursor[r]
            \/ queue[j] = copy[r][j]
            \/ Interrupted(queue[j])
        BY DEF IInv, Agrees
      <3>2. queue'[j] = queue[j] \/ Interrupted(queue'[j])
        BY <1>1, <1>2 DEF ItemsOf
      <3>3. CASE queue'[j] = queue[j]
        BY <3>1, <3>3 DEF Interrupted
      <3> QED BY <3>2, <3>3
    <2> QED BY <2>1 DEF Agrees, ItemsOf, Interrupted
  <1>7. ASSUME NEW j \in ItemsOf(r) PROVE Accounted(j)'
    <2>1. /\ Accounted(j) /\ RunOf[j] = r /\ j \in Items /\ (j \in child' => j \in child)
          /\ orphans'[j] \in Nat /\ orphans[j] \in Nat /\ orphans'[j] <= orphans[j]
      BY <1>1 DEF IInv, ItemsOf
    <2>2. HasProcess(j)' => HasProcess(j)
      BY <2>1 DEF HasProcess
    <2>3. j \notin spared' => j \notin spared
      BY <1>2
    <2>4. CASE queue'[j] = queue[j]
      BY <2>1, <2>2, <2>3, <2>4 DEF Accounted
    <2>5. CASE queue'[j] # queue[j]
      <3>1. j = i /\ spared' = IF GoesOn(r, j)' THEN spared \cup {j} ELSE spared
        BY <1>2, <2>1, <2>5
      <3>2. j \notin spared' => ~HasProcess(j)' /\ ~(driver'[r] = "launch" /\ cursor'[r] = j)
        BY <3>1 DEF GoesOn
      <3> QED BY <2>1, <2>3, <3>2 DEF Accounted
    <2> QED BY <2>4, <2>5
  <1> QED BY <1>3, <1>4, <1>5, <1>6, <1>7, StepKeeps

(* What the marking of a stop command leaves for it to do.                 *)
LEMMA BegunFacts ==
  ASSUME IInv, NEW r \in Runs,
         stopping' = [stopping EXCEPT ![r] = IF @ = NoStop THEN Begun ELSE @]
  PROVE  /\ stopping' \in [Runs -> Stops] /\ \A s \in Runs \ {r} : stopping'[s] = stopping[s]
         /\ Stopped(r)' /\ DOMAIN stopping'[r].items \subseteq ItemsOf(r)
  <1>1. stopping \in [Runs -> Stops] /\ stopping'[r] \in {Begun, stopping[r]}
    BY DEF IInv, Typed
  <1>2. stopping' \in [Runs -> Stops] /\ \A s \in Runs \ {r} : stopping'[s] = stopping[s]
    BY <1>1, StopFacts
  <1>3. Stopped(r)' /\ DOMAIN stopping'[r].items \subseteq ItemsOf(r)
    <2>1. CASE stopping'[r] = Begun
      BY <2>1, StopFacts DEF Stopped
    <2>2. CASE stopping'[r] = stopping[r]
      BY <2>2 DEF IInv, Typed, TypeOK, Stopped
    <2> QED BY <1>1, <2>1, <2>2
  <1> QED BY <1>2, <1>3

(* Of the children of a driver that is gone, each item keeps at most one.  *)
LEMMA AbandonFacts ==
  ASSUME IInv, NEW r \in Runs, NEW survivors \in SUBSET (child \cap ItemsOf(r)),
         NEW killed \in SUBSET ItemsOf(r), Abandon(r, survivors, killed)
  PROVE  /\ Exit(r) /\ child' \subseteq child \ ItemsOf(r)
         /\ orphans' \in [Items -> 0..MaxOrphans]
         /\ \A j \in Items \ ItemsOf(r) : orphans'[j] <= orphans[j]
         /\ \A j \in ItemsOf(r) \ spared :
              orphans'[j] <= 1 /\ (orphans'[j] > 0 => queue[j].status = "running")
  <1>1. /\ orphans \in [Items -> 0..MaxOrphans] /\ MaxOrphans \in Nat
        /\ \A j \in survivors : orphans[j] < MaxOrphans
        /\ Exit(r) /\ child' = child \ ItemsOf(r)
        /\ orphans' = [j \in Items |->
             (IF j \in killed THEN 0 ELSE orphans[j]) + (IF j \in survivors THEN 1 ELSE 0)]
    BY NumbersAssumption DEF IInv, Typed, TypeOK, Abandon
  <1>2. ASSUME NEW j \in Items
        PROVE  /\ orphans'[j] \in 0..MaxOrphans
               /\ j \notin ItemsOf(r) => orphans'[j] <= orphans[j]
               /\ j \in ItemsOf(r) \ spared =>
                    orphans'[j] <= 1 /\ (orphans'[j] > 0 => queue[j].status = "running")
    <2>1. /\ orphans[j] \in Nat /\ orphans[j] <= MaxOrphans
          /\ j \in survivors => orphans[j] < MaxOrphans
          /\ orphans'[j] = (IF j \in killed THEN 0 ELSE orphans[j]) + (IF j \in survivors THEN 1 ELSE 0)
      BY <1>1
    <2>2. orphans'[j] \in 0..MaxOrphans /\ (j \notin ItemsOf(r) => orphans'[j] <= orphans[j])
      BY <1>1, <2>1
    <2>3. ASSUME j \in ItemsOf(r) \ spared
          PROVE  orphans'[j] <= 1 /\ (orphans'[j] > 0 => queue[j].status = "running")
      <3>1. Accounted(j)
        BY DEF IInv
      <3>2. CASE j \in survivors
        <4>1. j \in child /\ driver[RunOf[j]] = "train" /\ cursor[RunOf[j]] = j
          BY <3>1, <3>2 DEF Accounted
        <4>2. orphans[j] = 0 /\ queue[j].status = "running"
          BY <2>3, <3>1, <4>1 DEF Accounted, HasProcess, Executing
        <4>3. orphans'[j] = 1
          BY <2>1, <3>2, <4>2
        <4> QED BY <4>2, <4>3
      <3>3. CASE j \notin survivors
        <4>1. orphans'[j] = 0 \/ orphans'[j] = orphans[j]
          BY <2>1, <3>3
        <4>2. orphans[j] <= 1 /\ (orphans[j] > 0 => queue[j].status = "running")
          BY <2>3, <3>1 DEF Accounted, HasProcess
        <4> QED BY <4>1, <4>2
      <3> QED BY <3>2, <3>3
    <2> QED BY <2>2, <2>3
  <1>3. orphans' \in [Items -> 0..MaxOrphans]
    <2>1. orphans' = [j \in Items |-> orphans'[j]]
      BY <1>1
    <2> QED BY <1>2, <2>1
  <1> QED BY <1>1, <1>2, <1>3 DEF ItemsOf

LEMMA MarkedFacts ==
  ASSUME NEW item \in ItemType
  PROVE  MarkInterrupted(item) \in ItemType /\ Interrupted(MarkInterrupted(item))
  BY MarkFacts DEF MarkInterrupted, Interrupted, ItemType

LEMMA InterruptPreserves ==
  ASSUME IInv, NEW r \in Runs, Interrupt(r)
  PROVE  IInv' /\ CompletionIsKept
  <1>1. /\ Exit(r) /\ UNCHANGED <<stale, retried, machine, checkpoint, evidence, spared>>
        /\ faults' \in 0..MaxFaults /\ queue \in [Items -> ItemType]
        /\ orphans \in [Items -> 0..MaxOrphans] /\ MaxOrphans \in Nat
        /\ stopping' = [stopping EXCEPT ![r] = IF @ = NoStop THEN Begun ELSE @]
        /\ \A j \in Items : orphans[j] \in Nat
    BY FaultFacts, NumbersAssumption DEF Interrupt, IInv, Typed, TypeOK
  <1>2. CASE driver[r] \in {"launch", "train"}
    <2>1. /\ queue' = [queue EXCEPT ![cursor[r]] = MarkInterrupted(copy[r][cursor[r]])]
          /\ child' = child \ {cursor[r]}
      BY <1>2 DEF Interrupt
    <2>2. PICK killed \in {0, 1} : /\ killed <= orphans[cursor[r]]
                                   /\ orphans' = [orphans EXCEPT ![cursor[r]] = @ - killed]
      BY <1>2 DEF Interrupt
    <2>3. driver[r] \in Executing
      BY <1>2 DEF Executing
    <2>4. /\ cursor[r] \in ItemsOf(r) /\ cursor[r] \in Items /\ RunOf[cursor[r]] = r
          /\ copy[r][cursor[r]] \in ItemType
      BY <2>3, ExecutingFacts
    <2>5. MarkInterrupted(copy[r][cursor[r]]) \in ItemType
      BY <2>4, MarkedFacts
    <2>6. /\ queue' \in [Items -> ItemType] /\ \A j \in Items \ {cursor[r]} : queue'[j] = queue[j]
          /\ \A j \in Items \ ItemsOf(r) : queue'[j] = queue[j]
      BY <1>1, <2>1, <2>4, <2>5
    <2>7. \A j \in ItemsOf(r) : j # cursor[r] => j \notin child
      BY DEF IInv, Accounted, ItemsOf
    <2>8. child' \subseteq child \ ItemsOf(r)
      BY <2>1, <2>7
    <2>9. /\ orphans' \in [Items -> 0..MaxOrphans]
          /\ \A j \in Items : orphans'[j] <= orphans[j] /\ orphans'[j] \in Nat
      <3>1. orphans[cursor[r]] - killed \in 0..MaxOrphans /\ orphans[cursor[r]] - killed <= orphans[cursor[r]]
        BY <1>1, <2>2, <2>4
      <3> QED BY <1>1, <2>2, <2>4, <3>1
    <2>10. ASSUME NEW j \in ItemsOf(r) \ spared
           PROVE  orphans'[j] <= 1 /\ (orphans'[j] > 0 => queue'[j].status = "running")
      <3>1. Accounted(j) /\ j \in Items /\ RunOf[j] = r /\ orphans'[j] <= orphans[j]
            /\ orphans[j] \in Nat /\ orphans'[j] \in Nat
        BY <1>1, <2>9 DEF IInv, ItemsOf
      <3>2. CASE j = cursor[r]
        <4>1. orphans[j] = 0
          BY <2>3, <3>1, <3>2 DEF Accounted
        <4> QED BY <3>1, <4>1
      <3>3. CASE j # cursor[r]
        <4>1. queue'[j] = queue[j]
          BY <2>6, <3>1, <3>3
        <4>2. orphans[j] <= 1 /\ (orphans[j] > 0 => queue[j].status = "running")
          BY <3>1 DEF Accounted, HasProcess
        <4> QED BY <3>1, <4>1, <4>2
      <3> QED BY <3>2, <3>3
    <2>11. IInv'
      BY <1>1, <2>6, <2>8, <2>9, <2>10, BegunFacts, GoneKeeps
    <2>12. queue[cursor[r]].status # "completed"
      BY <2>3 DEF IInv, Owns, Interrupted
    <2> QED BY <2>6, <2>11, <2>12 DEF CompletionIsKept
  <1>3. CASE driver[r] \notin {"launch", "train"}
    <2>1. queue' = queue /\ child' = child /\ orphans' = orphans
      BY <1>3 DEF Interrupt
    <2>2. child' \subseteq child \ ItemsOf(r)
      BY <1>3, <2>1 DEF IInv, Accounted, ItemsOf, Typed, TypeOK
    <2>3. \A j \in ItemsOf(r) \ spared :
            orphans'[j] <= 1 /\ (orphans'[j] > 0 => queue'[j].status = "running")
      BY <2>1 DEF IInv, Accounted, HasProcess, ItemsOf
    <2>4. \A j \in Items : orphans'[j] <= orphans[j]
      BY <1>1, <2>1
    <2>5. IInv'
      BY <1>1, <2>1, <2>2, <2>3, <2>4, BegunFacts, GoneKeeps
    <2> QED BY <2>1, <2>5 DEF CompletionIsKept
  <1> QED BY <1>2, <1>3

LEMMA CrashPreserves ==
  ASSUME IInv, NEW r \in Runs, Crash(r)
  PROVE  IInv' /\ CompletionIsKept
  <1>1. PICK survivors \in SUBSET (child \cap ItemsOf(r)) : Abandon(r, survivors, {})
    BY DEF Crash
  <1>2. /\ UNCHANGED <<queue, stale, retried, stopping, machine, checkpoint, evidence, spared>>
        /\ faults' \in 0..MaxFaults /\ queue \in [Items -> ItemType]
        /\ stopping' \in [Runs -> Stops] /\ Stopped(r)' /\ DOMAIN stopping'[r].items \subseteq ItemsOf(r)
    BY FaultFacts DEF Crash, IInv, Typed, TypeOK, Stopped
  <1>3. /\ Exit(r) /\ child' \subseteq child \ ItemsOf(r)
        /\ orphans' \in [Items -> 0..MaxOrphans]
        /\ \A j \in Items \ ItemsOf(r) : orphans'[j] <= orphans[j]
        /\ \A j \in ItemsOf(r) \ spared :
             orphans'[j] <= 1 /\ (orphans'[j] > 0 => queue[j].status = "running")
    BY <1>1, AbandonFacts
  <1> QED BY <1>2, <1>3, GoneKeeps DEF CompletionIsKept

LEMMA StopKillPreserves ==
  ASSUME IInv, NEW r \in Runs, StopKill(r)
  PROVE  IInv' /\ CompletionIsKept
  <1>1. PICK survivors \in SUBSET (child \cap ItemsOf(r)), ko \in SUBSET (Orphaned \cap ItemsOf(r)) :
          \/ Abandon(r, survivors, ko)
          \/ /\ child' = (child \ ItemsOf(r)) \cup survivors
             /\ Cleanup(ko)
             /\ UNCHANGED <<driver, copy, cursor>>
    BY DEF StopKill
  <1>2. /\ UNCHANGED <<queue, stale, retried, machine, checkpoint, evidence, spared>>
        /\ faults' \in 0..MaxFaults /\ queue \in [Items -> ItemType]
        /\ stopping' = [stopping EXCEPT ![r] = IF @ = NoStop THEN Begun ELSE @]
    BY FaultFacts DEF StopKill, IInv, Typed, TypeOK
  <1>3. CASE Abandon(r, survivors, ko)
    <2>1. /\ Exit(r) /\ child' \subseteq child \ ItemsOf(r)
          /\ orphans' \in [Items -> 0..MaxOrphans]
          /\ \A j \in Items \ ItemsOf(r) : orphans'[j] <= orphans[j]
          /\ \A j \in ItemsOf(r) \ spared :
               orphans'[j] <= 1 /\ (orphans'[j] > 0 => queue[j].status = "running")
      BY <1>3, AbandonFacts
    <2> QED BY <1>2, <2>1, BegunFacts, GoneKeeps DEF CompletionIsKept
  <1>4. CASE /\ child' = (child \ ItemsOf(r)) \cup survivors
             /\ Cleanup(ko)
             /\ UNCHANGED <<driver, copy, cursor>>
    <2>1. /\ orphans' \in [Items -> 0..MaxOrphans] /\ \A j \in Items : orphans'[j] <= orphans[j]
          /\ child' \subseteq child
      BY <1>4, CleanupFacts DEF IInv
    <2> QED BY <1>2, <1>4, <2>1, BegunFacts, StopKeeps DEF CompletionIsKept
  <1> QED BY <1>1, <1>3, <1>4

LEMMA StopLoadPreserves ==
  ASSUME IInv, NEW r \in Runs, StopLoad(r)
  PROVE  IInv' /\ CompletionIsKept
  <1> DEFINE running == {i \in ItemsOf(r) : queue[i].status = "running"}
             loaded == [i \in running |-> queue[i]]
             stop == IF running = {} THEN NoStop ELSE [pc |-> "mark", items |-> loaded]
  <1>1. /\ UNCHANGED <<queue, stale, retried, driver, cursor, copy, child, orphans, machine,
                       checkpoint, evidence, spared>>
        /\ faults' \in 0..MaxFaults
        /\ stopping' = [stopping EXCEPT ![r] = stop]
        /\ stopping \in [Runs -> Stops] /\ queue \in [Items -> ItemType]
        /\ orphans \in [Items -> 0..MaxOrphans] /\ MaxOrphans \in Nat
    BY FaultFacts, NumbersAssumption DEF StopLoad, IInv, Typed, TypeOK
  <1>2. running \subseteq ItemsOf(r) /\ running \in SUBSET Items /\ \A i \in running : queue[i].status = "running"
    BY DEF ItemsOf
  <1>3. loaded \in [running -> ItemType] /\ \A i \in running : loaded[i].status = "running"
    BY <1>1, <1>2
  <1>4. stop \in Stops /\ DOMAIN stop.items \subseteq ItemsOf(r)
        /\ \A i \in DOMAIN stop.items : stop.items[i].status = "running"
    <2> HIDE DEF loaded, running
    <2>1. CASE running = {}
      BY <2>1, StopFacts
    <2>2. CASE running # {}
      <3>1. stop = [pc |-> "mark", items |-> loaded] /\ DOMAIN loaded = running
        BY <1>3, <2>2
      <3>2. loaded \in UNION {[S -> ItemType] : S \in SUBSET Items}
        BY <1>2, <1>3
      <3> QED BY <1>2, <1>3, <3>1, <3>2 DEF Stops
    <2> QED BY <2>1, <2>2
  <1> HIDE DEF stop, loaded, running
  <1>5. /\ stopping' \in [Runs -> Stops] /\ \A s \in Runs \ {r} : stopping'[s] = stopping[s]
        /\ stopping'[r] = stop
    BY <1>1, <1>4
  <1>6. \A j \in Items : orphans'[j] <= orphans[j]
    BY <1>1
  <1>7. Stopped(r)' /\ DOMAIN stopping'[r].items \subseteq ItemsOf(r)
    BY <1>4, <1>5 DEF Stopped
  <1>8. IInv'
    BY <1>1, <1>5, <1>6, <1>7, StopKeeps
  <1> QED BY <1>1, <1>8 DEF CompletionIsKept

LEMMA TerminateFacts ==
  ASSUME Typed, NEW i \in Items, Terminate(i)
  PROVE  /\ child' \subseteq child /\ orphans' \in [Items -> 0..MaxOrphans]
         /\ \A j \in Items : orphans'[j] <= orphans[j]
  <1>1. orphans \in [Items -> 0..MaxOrphans] /\ MaxOrphans \in Nat
    BY NumbersAssumption DEF Typed, TypeOK
  <1>4. child' \subseteq child
    BY DEF Terminate
  <1>2. CASE UNCHANGED orphans
    BY <1>4, <1>1, <1>2
  <1>3. CASE orphans[i] > 0 /\ orphans' = [orphans EXCEPT ![i] = @ - 1]
    <2>1. orphans[i] - 1 \in 0..MaxOrphans /\ orphans[i] - 1 <= orphans[i]
      BY <1>1, <1>3
    <2>2. orphans' \in [Items -> 0..MaxOrphans]
      BY <1>1, <1>3, <2>1
    <2>3. ASSUME NEW j \in Items PROVE orphans'[j] <= orphans[j]
      <3>1. orphans[j] \in Nat /\ orphans'[j] = IF j = i THEN orphans[i] - 1 ELSE orphans[j]
        BY <1>1, <1>3
      <3> QED BY <2>1, <3>1
    <2> QED BY <1>4, <2>2, <2>3
  <1> QED BY <1>2, <1>3 DEF Terminate

(* Only a stop command undoes a completion.                                *)
Overtakes ==
  \A i \in Items : queue[i].status = "completed" =>
     queue'[i].status = "completed" \/ (Overtaken(i) /\ Interrupted(queue'[i]))

LEMMA StopMarkPreserves ==
  ASSUME IInv, NEW r \in Runs, StopMark(r)
  PROVE  IInv' /\ Overtakes
  <1>1. PICK i \in DOMAIN stopping[r].items :
          LET left == DOMAIN stopping[r].items \ {i}
          IN /\ Terminate(i)
             /\ queue' = [queue EXCEPT ![i] = MarkInterrupted(stopping[r].items[i])]
             /\ stopping' = [stopping EXCEPT ![r] =
                  IF left = {} THEN NoStop
                  ELSE [pc |-> "mark", items |-> [j \in left |-> stopping[r].items[j]]]]
             /\ spared' = IF GoesOn(r, i)' THEN spared \cup {i} ELSE spared
    BY DEF StopMark
  <1> DEFINE items == stopping[r].items
             item == MarkInterrupted(items[i])
             left == DOMAIN items \ {i}
             rest == [j \in left |-> items[j]]
             stop == IF left = {} THEN NoStop ELSE [pc |-> "mark", items |-> rest]
  <1>2. /\ UNCHANGED <<stale, retried, driver, cursor, copy, machine, checkpoint, evidence>>
        /\ faults' \in 0..MaxFaults /\ queue \in [Items -> ItemType]
        /\ stopping \in [Runs -> Stops] /\ stopping' = [stopping EXCEPT ![r] = stop]
        /\ DOMAIN items \subseteq ItemsOf(r)
        /\ \A j \in DOMAIN items : items[j] \in ItemType /\ items[j].status = "running"
    BY <1>1, FaultFacts DEF StopMark, IInv, Typed, TypeOK, Stopped
  <1>3. i \in ItemsOf(r) /\ i \in Items /\ RunOf[i] = r /\ item \in ItemType /\ Interrupted(item)
    BY <1>2, MarkedFacts DEF ItemsOf
  <1>4. stop \in Stops /\ DOMAIN stop.items \subseteq ItemsOf(r)
        /\ \A j \in DOMAIN stop.items : stop.items[j].status = "running"
    <2>1. CASE left = {}
      BY <2>1, StopFacts
    <2>2. CASE left # {}
      <3>1. left \in SUBSET Items /\ left \subseteq ItemsOf(r) /\ left \subseteq DOMAIN items
        BY <1>2 DEF ItemsOf
      <3> HIDE DEF items
      <3>2. rest \in [left -> ItemType] /\ \A j \in left : rest[j].status = "running"
        BY <1>2, <3>1
      <3>3. stop = [pc |-> "mark", items |-> rest] /\ DOMAIN rest = left
        BY <2>2
      <3> HIDE DEF rest, left
      <3>4. rest \in UNION {[S -> ItemType] : S \in SUBSET Items}
        BY <3>1, <3>2
      <3> QED BY <3>1, <3>2, <3>3, <3>4 DEF Stops
    <2> QED BY <2>1, <2>2
  <1>5. /\ queue' = [queue EXCEPT ![i] = item] /\ Terminate(i)
        /\ spared' = IF GoesOn(r, i)' THEN spared \cup {i} ELSE spared
    BY <1>1
  <1> HIDE DEF stop, item
  <1>6. /\ stopping' \in [Runs -> Stops] /\ \A s \in Runs \ {r} : stopping'[s] = stopping[s]
        /\ stopping'[r] = stop
    BY <1>2, <1>4
  <1>7. Stopped(r)' /\ DOMAIN stopping'[r].items \subseteq ItemsOf(r)
    BY <1>4, <1>6 DEF Stopped
  <1>8. /\ child' \subseteq child /\ orphans' \in [Items -> 0..MaxOrphans]
        /\ \A j \in Items : orphans'[j] <= orphans[j]
    BY <1>3, <1>5, TerminateFacts DEF IInv
  <1>9. IInv'
    BY <1>2, <1>3, <1>5, <1>6, <1>7, <1>8, StopKeeps
  <1>10. Overtakes
    <2>1. \A j \in Items : j # i => queue'[j] = queue[j]
      BY <1>2, <1>3, <1>5
    <2>2. Overtaken(i) /\ Interrupted(queue'[i])
      BY <1>2, <1>3, <1>5 DEF Overtaken
    <2> QED BY <2>1, <2>2 DEF Overtakes
  <1> QED BY <1>9, <1>10

(* The environment's steps rewrite no queue and no process but an orphan.  *)
LEMMA EnvironmentPreserves ==
  ASSUME IInv,
         \/ MachineChanges
         \/ \E r \in Runs : PlanChanges(r)
         \/ \E i \in Items : OrphanEnds(i) \/ Checkpointed(i) \/ EvidenceArrives(i)
  PROVE  IInv' /\ CompletionIsKept
  <1>1. /\ UNCHANGED <<queue, retried, driver, cursor, copy, stopping, child, spared>>
        /\ noFault \/ aFault
    BY DEF MachineChanges, PlanChanges, OrphanEnds, Checkpointed, EvidenceArrives, unchangedProcesses
  <1>2. faults' \in 0..MaxFaults
    BY <1>1, FaultFacts DEF IInv
  <1>3. /\ orphans' \in [Items -> 0..MaxOrphans]
        /\ \A i \in Items : orphans'[i] = orphans[i] \/ (orphans[i] > 0 /\ orphans'[i] = orphans[i] - 1)
    <2>1. orphans \in [Items -> 0..MaxOrphans]
      BY DEF IInv, Typed, TypeOK
    <2>2. CASE orphans' = orphans
      BY <2>1, <2>2
    <2>3. CASE \E i \in Items : orphans[i] > 0 /\ orphans' = [orphans EXCEPT ![i] = @ - 1]
      BY <2>1, <2>3, NumbersAssumption
    <2> QED BY <2>2, <2>3 DEF MachineChanges, PlanChanges, OrphanEnds, Checkpointed,
               EvidenceArrives, unchangedProcesses
  <1>4. stale' \subseteq Runs /\ machine' \in {"free", "window", "busy", "conflict"}
    BY DEF IInv, Typed, TypeOK, MachineChanges, PlanChanges, OrphanEnds,
       Checkpointed, EvidenceArrives, unchangedProcesses
  <1>5. checkpoint' \subseteq Items /\ evidence' \subseteq EvidenceGated
    BY ItemSetsAssumption DEF IInv, Typed, TypeOK, MachineChanges, PlanChanges, OrphanEnds,
       Checkpointed, EvidenceArrives, unchangedProcesses
  <1>6. Typed'
    BY <1>1, <1>2, <1>3, <1>4, <1>5 DEF IInv, Typed, TypeOK, ItemsOf
  <1>7. ASSUME NEW s \in Runs PROVE Owns(s)' /\ Agrees(s)' /\ Stopped(s)'
    <2>1. Owns(s) /\ Agrees(s) /\ Stopped(s)
      BY DEF IInv
    <2> QED BY <1>1, <2>1 DEF Owns, Agrees, Stopped, ItemsOf, Interrupted
  <1>8. ASSUME NEW i \in Items PROVE Accounted(i)'
    <2>1. /\ Accounted(i) /\ orphans[i] \in Nat /\ orphans'[i] \in Nat
          /\ orphans'[i] <= orphans[i] /\ (orphans[i] = 0 => orphans'[i] = 0)
      BY <1>3, NumbersAssumption DEF IInv, Typed, TypeOK
    <2>2. HasProcess(i)' => HasProcess(i)
      BY <1>1, <2>1 DEF HasProcess
    <2> QED BY <1>1, <2>1, <2>2 DEF Accounted
  <1> QED BY <1>1, <1>6, <1>7, <1>8 DEF IInv, CompletionIsKept

LEMMA NextPreserves ==
  ASSUME IInv, [Next]_vars
  PROVE  IInv' /\ (CompletionIsKept \/ Overtakes)
  <1>1. CASE UNCHANGED vars
    <2>1. IInv'
      BY <1>1 DEF vars, IInv, Typed, TypeOK, Owns, Agrees, Stopped, Accounted, HasProcess,
                  Interrupted, ItemsOf
    <2> QED BY <1>1, <2>1 DEF vars, CompletionIsKept
  <1>2. CASE \E r \in Runs : LoopStep(r) \/ Execution(r)
    BY <1>2, LoopStepPreserves, ExecutionPreserves
  <1>3. CASE \E r \in Runs : StopCommand(r) \/ Interrupt(r) \/ Crash(r) \/ StopKill(r)
    BY <1>3, StopLoadPreserves, StopMarkPreserves, InterruptPreserves, CrashPreserves,
       StopKillPreserves DEF StopCommand
  <1> QED BY <1>1, <1>2, <1>3, EnvironmentPreserves DEF Next
-----------------------------------------------------------------------------
(* Whatever drivers crash, children outlive them, stop commands miss or    *)
(* spare, and runs share the machine:                                      *)

LEMMA Invariance == Spec => []IInv
  <1>1. IInv /\ [Next]_vars => IInv'
    BY NextPreserves
  <1> QED BY Initially, <1>1, PTL DEF Spec

(* The queue, the drivers and the stop command keep their types.           *)
THEOREM QueueIsTyped == Spec => []TypeOK
  <1>1. IInv => TypeOK
    BY DEF IInv, Typed
  <1> QED BY <1>1, Invariance, PTL

(* No item is ever trained by two processes at once, whichever of them     *)
(* outlived its driver, but one that a stop command marked interrupted     *)
(* while it went on training.                                              *)
THEOREM ItemsHaveOneTrainer == Spec => []OneTrainerPerItem
  <1>1. IInv => OneTrainerPerItem
    <2> SUFFICES ASSUME IInv, NEW i \in Items \ spared
                 PROVE  orphans[i] + (IF i \in child THEN 1 ELSE 0) <= 1
      BY DEF OneTrainerPerItem
    <2>1. Accounted(i) /\ orphans[i] \in Nat
      BY NumbersAssumption DEF IInv, Typed, TypeOK
    <2>2. i \in child => orphans[i] = 0
      BY <2>1 DEF Accounted, Executing
    <2>3. orphans[i] <= 1
      BY <2>1 DEF Accounted
    <2> QED BY <2>1, <2>2, <2>3
  <1> QED BY <1>1, Invariance, PTL

(* For as long as a driver executes an item, the file says that it runs or *)
(* that a stop command interrupted it, and nothing else: neither a rebuild *)
(* nor a recovery takes it from its owner.                                 *)
THEOREM TrainingIsOnFile == Spec => []TrainedIsRunning
  <1>1. IInv => TrainedIsRunning
    BY DEF IInv, Owns, Executing, TrainedIsRunning
  <1> QED BY <1>1, Invariance, PTL

(* A completed item is only ever lost to a rebuild from a new plan, or to  *)
(* a stop command that had loaded the item while it was running.           *)
THEOREM CompletionsAreKept == Spec => CompletedIsKept
  <1> DEFINE kept ==
        \A i \in Items : queue[i].status = "completed" =>
             \/ queue'[i].status = "completed"
             \/ RunOf[i] \in stale \ stale'
             \/ Overtaken(i) /\ Interrupted(queue'[i])
  <1>1. IInv /\ [Next]_vars => [kept]_vars
    <2>1. CompletionIsKept \/ Overtakes => kept
      BY DEF CompletionIsKept, Overtakes
    <2> QED BY <2>1, NextPreserves
  <1> QED BY <1>1, Invariance, PTL DEF Spec, CompletedIsKept
-----------------------------------------------------------------------------
(* How often a batch is halved.  The host recovery halves once for a given *)
(* GPU counter, the GPU recovery once altogether, and it is the last: it   *)
(* leaves the host counter at the end of its attempts.  What remains of    *)
(* the batch after k halvings, each rounded down, is more than             *)
(* Batch / 2^k - 1.                                                        *)
BatchLeft(item) ==
  /\ item.gpu = 0 /\ item.resource <= 1 => item.batch + 1 > Batch
  /\ item.gpu = 0 \/ (item.gpu = 1 /\ item.resource <= 1) => 2 * (item.batch + 1) > Batch
  /\ item.gpu <= 1 => 4 * (item.batch + 1) > Batch
  /\ 8 * (item.batch + 1) > Batch

(* A wait that is recovered again, because the result stays on the item,   *)
(* sets the counters to what the first recovery set them to.               *)
WaitIsCurrent(item) ==
  item.result.output = "" /\ item.result.waiting =>
    \/ item.gpu = item.result.attempt
    \/ item.gpu = Cap(item.result.attempt + 1, 3) /\ item.resource = item.gpu

Budgeted ==
  {item \in ItemType : /\ BatchLeft(item)
                       /\ item.gpu >= 2 => item.resource >= 2
                       /\ WaitIsCurrent(item)}
BudgetedStops ==
  [pc : {"off", "load", "mark"}, items : UNION {[S -> Budgeted] : S \in SUBSET Items}]
BudgetInv ==
  /\ queue \in [Items -> Budgeted]
  /\ copy \in [Runs -> [Items -> Budgeted]]
  /\ stopping \in [Runs -> BudgetedStops]

LEMMA NumbersOfItems ==
  ASSUME NEW item \in ItemType
  PROVE  /\ item.batch \in 1..Batch /\ item.gpu \in 0..3 /\ item.resource \in 0..3
         /\ item.result.attempt \in 0..3
  BY DEF ItemType, Results

LEMMA MarksStayBudgeted ==
  ASSUME NEW i \in Items, NEW item \in Budgeted
  PROVE  /\ MarkRunning(item) \in Budgeted
         /\ MarkInterrupted(item) \in Budgeted
         /\ MarkDecision(item, Decision(i, item)) \in Budgeted
         /\ RecoverStaleRunning(item) \in Budgeted
  <1>1. item \in ItemType
    BY DEF Budgeted
  <1>2. /\ MarkRunning(item) \in ItemType /\ MarkInterrupted(item) \in ItemType
        /\ MarkDecision(item, Decision(i, item)) \in ItemType /\ RecoverStaleRunning(item) \in ItemType
    BY <1>1, MarkFacts, DecisionFacts
  <1>3. ASSUME NEW new \in ItemType, new.gpu = item.gpu, new.resource = item.resource, new.batch = item.batch,
               new.result = item.result \/ ~new.result.waiting
        PROVE  new \in Budgeted
    BY <1>3 DEF Budgeted, BatchLeft, WaitIsCurrent
  <1>4. MarkRunning(item) \in Budgeted
    BY <1>1, <1>2, <1>3 DEF MarkRunning, ItemType
  <1>5. MarkInterrupted(item) \in Budgeted
    BY <1>1, <1>2, <1>3 DEF MarkInterrupted, ItemType
  <1>6. MarkDecision(item, Decision(i, item)) \in Budgeted
    BY <1>1, <1>2, <1>3 DEF MarkDecision, ItemType
  <1>7. RecoverStaleRunning(item) \in Budgeted
    BY <1>1, <1>2, <1>3 DEF RecoverStaleRunning, ItemType, NoResult, Result
  <1> QED BY <1>4, <1>5, <1>6, <1>7

LEMMA FreshIsBudgeted ==
  /\ NoItem \in Budgeted
  /\ \A i \in Items : FreshItem(i) \in Budgeted
  <1>1. ASSUME NEW new \in ItemType, new.gpu = 0, new.resource = 0, new.batch = Batch, ~new.result.waiting
        PROVE  new \in Budgeted
    <2>1. BatchLeft(new)
      BY <1>1, NumbersAssumption DEF BatchLeft
    <2>2. WaitIsCurrent(new)
      BY <1>1 DEF WaitIsCurrent
    <2>3. ~(new.gpu >= 2)
      BY <1>1
    <2> QED BY <1>1, <2>1, <2>2, <2>3 DEF Budgeted
  <1>2. NoItem \in Budgeted
    BY <1>1, NoItemIsItem DEF NoItem, NoResult, Result
  <1>3. ASSUME NEW i \in Items PROVE FreshItem(i) \in Budgeted
    BY <1>1, FreshFacts DEF FreshItem, NoItem, NoResult, Result
  <1> QED BY <1>2, <1>3

(* A result that waits records the GPU counter of the item it is for.      *)
LEMMA ResultsStayBudgeted ==
  ASSUME NEW item \in Budgeted, NEW result \in Results, result.status # "none",
         result.output = "" /\ result.waiting => result.attempt = item.gpu
  PROVE  MarkResult(item, result) \in Budgeted
  <1> DEFINE new == MarkResult(item, result)
  <1>1. item \in ItemType
    BY DEF Budgeted
  <1>2. new \in ItemType
    BY <1>1, MarkResultFacts
  <1>3. new.gpu = item.gpu /\ new.resource = item.resource /\ new.batch = item.batch /\ new.result = result
    BY <1>1 DEF MarkResult, ItemType
  <1> SUFFICES new \in Budgeted
    OBVIOUS
  <1> HIDE DEF new
  <1>4. BatchLeft(new) /\ (new.gpu >= 2 => new.resource >= 2)
    BY <1>3 DEF Budgeted, BatchLeft
  <1>5. WaitIsCurrent(new)
    BY <1>3 DEF WaitIsCurrent
  <1> QED BY <1>2, <1>4, <1>5 DEF Budgeted

(* The recoveries that change an item, by what they do to its batch.       *)
LEMMA RecoveryKinds ==
  ASSUME NEW i \in Items, NEW item \in ItemType, NEW seen \in BOOLEAN, NEW again \in BOOLEAN,
         RecoveryOf(i, item, seen, again).recover
  PROVE  LET rec == RecoveryOf(i, item, seen, again)
         IN \/ rec = Recovery("gpu", item.batch, item.gpu) /\ item.result.output = "oom"
            \/ /\ rec = Recovery("gpu", Half(item.batch), item.gpu) /\ item.result.output = "oom"
               /\ item.gpu = 1 /\ item.batch > 1
            \/ rec = Recovery("host", item.batch, 0) /\ item.resource = 0 /\ item.result.output = "ram"
            \/ rec = Recovery("host", Half(item.batch), 1) /\ item.resource = 1 /\ item.result.output = "ram"
            \/ /\ rec = Recovery("gpu", item.batch, item.result.attempt)
               /\ item.result.output = "" /\ item.result.waiting
  <1> DEFINE rec == RecoveryOf(i, item, seen, again)
  <1>1. ~NotRecovered.recover
    BY DEF NotRecovered
  <1>2. item.result.output \in {"", "oom", "ram"} /\ item.result.waiting \in BOOLEAN
    BY DEF ItemType, Results
  <1>3. CASE item.result.output = "oom" /\ seen
    BY <1>1, <1>3 DEF RecoveryOf
  <1>4. CASE item.result.output = "oom" /\ ~seen
    <2>1. rec = CleanGpuOom(i, item)
      BY <1>4 DEF RecoveryOf
    <2>2. \/ CleanGpuOom(i, item) = NotRecovered
          \/ CleanGpuOom(i, item) = Recovery("gpu", item.batch, item.gpu)
          \/ item.gpu = 1 /\ item.batch > 1 /\ CleanGpuOom(i, item) = Recovery("gpu", Half(item.batch), item.gpu)
      BY DEF CleanGpuOom
    <2> QED BY <1>1, <1>4, <2>1, <2>2
  <1>5. CASE item.result.output = "ram"
    <2>1. rec = HostOom(item)
      BY <1>5 DEF RecoveryOf
    <2>2. \/ HostOom(item) = NotRecovered
          \/ item.resource = 0 /\ HostOom(item) = Recovery("host", item.batch, 0)
          \/ item.resource = 1 /\ HostOom(item) = Recovery("host", Half(item.batch), 1)
      BY DEF HostOom
    <2> QED BY <1>1, <1>5, <2>1, <2>2
  <1>6. CASE item.result.output = "" /\ item.result.waiting
    BY <1>1, <1>6 DEF RecoveryOf
  <1>7. CASE item.result.output = "" /\ ~item.result.waiting
    BY <1>1, <1>7 DEF RecoveryOf
  <1> QED BY <1>2, <1>3, <1>4, <1>5, <1>6, <1>7

(* The arithmetic of a halving.                                            *)
LEMMA HalfRounds ==
  ASSUME NEW b \in 1..Batch
  PROVE  Half(b) \in 1..Batch /\ 2 * (Half(b) + 1) >= b + 1
  BY NumbersAssumption DEF Half

LEMMA RecoveriesStayBudgeted ==
  ASSUME NEW i \in Items, NEW item \in Budgeted, NEW seen \in BOOLEAN, NEW again \in BOOLEAN
  PROVE  RecoverResource(i, item, seen, again) \in Budgeted
  <1> DEFINE rec == RecoveryOf(i, item, seen, again)
             new == RecoverResource(i, item, seen, again)
  <1>1. item \in ItemType
    BY DEF Budgeted
  <1>2. new \in ItemType
    BY <1>1, RecoverFacts
  <1>3. CASE new = item
    BY <1>3
  <1>4. CASE rec.recover /\ new = ApplyRecovery(item, rec)
    <2>1. /\ new.batch = rec.batch /\ new.resource = Cap(rec.attempt + 1, 3)
          /\ new.gpu = IF rec.kind = "gpu" THEN Cap(rec.attempt + 1, 3) ELSE item.gpu
          /\ new.result = item.result
      <3> HIDE DEF rec, new
      <3> QED BY <1>1, <1>4 DEF ApplyRecovery, ItemType
    <2>2. /\ item.batch \in 1..Batch /\ item.gpu \in 0..3 /\ item.resource \in 0..3
          /\ item.result.attempt \in 0..3
      BY <1>1, NumbersOfItems
    <2>3. /\ BatchLeft(item) /\ WaitIsCurrent(item)
          /\ item.gpu >= 2 => item.resource >= 2
      BY DEF Budgeted
    <2>4. Half(item.batch) \in 1..Batch /\ 2 * (Half(item.batch) + 1) >= item.batch + 1
      BY <2>2, HalfRounds
    <2>5. \/ rec = Recovery("gpu", item.batch, item.gpu) /\ item.result.output = "oom"
          \/ /\ rec = Recovery("gpu", Half(item.batch), item.gpu) /\ item.result.output = "oom"
             /\ item.gpu = 1 /\ item.batch > 1
          \/ rec = Recovery("host", item.batch, 0) /\ item.resource = 0 /\ item.result.output = "ram"
          \/ rec = Recovery("host", Half(item.batch), 1) /\ item.resource = 1 /\ item.result.output = "ram"
          \/ /\ rec = Recovery("gpu", item.batch, item.result.attempt)
             /\ item.result.output = "" /\ item.result.waiting
      BY <1>1, <1>4, RecoveryKinds
    <2> SUFFICES new \in Budgeted
      OBVIOUS
    <2> HIDE DEF rec, new
    <2>c. \A a \in 0..3 : Cap(a + 1, 3) = IF a = 3 THEN 3 ELSE a + 1
      BY DEF Cap
    <2>n. Batch \in Nat
      BY NumbersAssumption
    <2>6. ASSUME NEW attempt \in 0..3,
                 attempt = item.gpu \/ (item.gpu = Cap(attempt + 1, 3) /\ item.resource = item.gpu),
                 rec = Recovery("gpu", item.batch, attempt)
          PROVE  BatchLeft(new) /\ (new.gpu >= 2 => new.resource >= 2)
      <3>1. /\ new.batch = item.batch
            /\ new.gpu = Cap(attempt + 1, 3) /\ new.resource = Cap(attempt + 1, 3)
        BY <2>1, <2>6 DEF Recovery
      <3>2. /\ new.gpu = IF attempt = 3 THEN 3 ELSE attempt + 1
            /\ new.resource = new.gpu
        BY <2>c, <3>1
      <3>3. CASE attempt = item.gpu
        BY <2>2, <2>3, <2>n, <3>1, <3>2, <3>3 DEF BatchLeft
      <3>4. CASE item.gpu = Cap(attempt + 1, 3) /\ item.resource = item.gpu
        BY <2>2, <2>3, <2>n, <3>1, <3>2, <3>4 DEF BatchLeft
      <3> QED BY <2>6, <3>3, <3>4
    <2>7. CASE rec = Recovery("gpu", item.batch, item.gpu) /\ item.result.output = "oom"
      <3> DEFINE attempt == item.gpu
      <3>a. attempt \in 0..3 /\ rec = Recovery("gpu", item.batch, attempt) /\ attempt = item.gpu
        BY <2>2, <2>7
      <3> HIDE DEF attempt
      <3>1. BatchLeft(new) /\ (new.gpu >= 2 => new.resource >= 2)
        BY <2>6, <3>a
      <3>2. WaitIsCurrent(new)
        BY <2>1, <2>7 DEF WaitIsCurrent
      <3> QED BY <1>2, <3>1, <3>2 DEF Budgeted
    <2>8. CASE /\ rec = Recovery("gpu", Half(item.batch), item.gpu) /\ item.result.output = "oom"
               /\ item.gpu = 1 /\ item.batch > 1
      <3>1. /\ new.batch = Half(item.batch) /\ new.gpu = 2 /\ new.resource = 2
        BY <2>1, <2>8, <2>c DEF Recovery
      <3>2. BatchLeft(new)
        BY <2>2, <2>3, <2>4, <2>8, <2>n, <3>1 DEF BatchLeft
      <3>3. WaitIsCurrent(new)
        BY <2>1, <2>8 DEF WaitIsCurrent
      <3> QED BY <1>2, <3>1, <3>2, <3>3 DEF Budgeted
    <2>9. CASE rec = Recovery("host", item.batch, 0) /\ item.resource = 0 /\ item.result.output = "ram"
      <3>1. /\ new.batch = item.batch /\ new.gpu = item.gpu /\ new.resource = 1
        BY <2>1, <2>9, <2>c DEF Recovery
      <3>2. BatchLeft(new) /\ ~(new.gpu >= 2)
        BY <2>2, <2>3, <2>9, <2>n, <3>1 DEF BatchLeft
      <3>3. WaitIsCurrent(new)
        BY <2>1, <2>9 DEF WaitIsCurrent
      <3> QED BY <1>2, <3>1, <3>2, <3>3 DEF Budgeted
    <2>10. CASE rec = Recovery("host", Half(item.batch), 1) /\ item.resource = 1 /\ item.result.output = "ram"
      <3>1. /\ new.batch = Half(item.batch) /\ new.gpu = item.gpu /\ new.resource = 2
        BY <2>1, <2>10, <2>c DEF Recovery
      <3>2. BatchLeft(new)
        BY <2>2, <2>3, <2>4, <2>10, <2>n, <3>1 DEF BatchLeft
      <3>3. WaitIsCurrent(new)
        BY <2>1, <2>10 DEF WaitIsCurrent
      <3> QED BY <1>2, <3>1, <3>2, <3>3 DEF Budgeted
    <2>11. CASE /\ rec = Recovery("gpu", item.batch, item.result.attempt)
                /\ item.result.output = "" /\ item.result.waiting
      <3>1. /\ new.gpu = Cap(item.result.attempt + 1, 3) /\ new.resource = new.gpu
            /\ new.result = item.result
        BY <2>1, <2>11 DEF Recovery
      <3> DEFINE attempt == item.result.attempt
      <3>a. attempt \in 0..3 /\ rec = Recovery("gpu", item.batch, attempt)
        BY <2>2, <2>11
      <3>b. attempt = item.gpu \/ (item.gpu = Cap(attempt + 1, 3) /\ item.resource = item.gpu)
        BY <2>3, <2>11 DEF WaitIsCurrent
      <3> HIDE DEF attempt
      <3>2. BatchLeft(new) /\ (new.gpu >= 2 => new.resource >= 2)
        BY <2>6, <3>a, <3>b
      <3>3. WaitIsCurrent(new)
        BY <3>1 DEF WaitIsCurrent
      <3> QED BY <1>2, <3>2, <3>3 DEF Budgeted
    <2> QED BY <2>5, <2>7, <2>8, <2>9, <2>10, <2>11
  <1> QED BY <1>3, <1>4 DEF RecoverResource
-----------------------------------------------------------------------------
(* What the parts of a step make of budgeted items.                        *)

LEMMA NoStopIsBudgeted == NoStop \in BudgetedStops /\ Begun \in BudgetedStops
  <1>1. [i \in {} |-> NoItem] \in [{} -> Budgeted]
    OBVIOUS
  <1>2. [i \in {} |-> NoItem] \in UNION {[S -> Budgeted] : S \in SUBSET Items}
    BY <1>1
  <1> QED BY <1>2 DEF NoStop, Begun, BudgetedStops

LEMMA BudgetedAtFirst == Init => BudgetInv
  BY FreshIsBudgeted, NoStopIsBudgeted DEF Init, BudgetInv, NoItems

LEMMA DerivedStayBudgeted ==
  ASSUME NEW r \in Runs, NEW items \in [Items -> Budgeted]
  PROVE  /\ \A again \in SecondLook : Recovered(r, items, again) \in [Items -> Budgeted]
         /\ \A readable \in BOOLEAN : StaleRecovered(r, items, readable) \in [Items -> Budgeted]
  <1>1. ASSUME NEW again \in SecondLook PROVE Recovered(r, items, again) \in [Items -> Budgeted]
    <2>1. again \in BOOLEAN /\ conflict \in BOOLEAN
      BY DEF SecondLook, conflict
    <2>2. \A i \in Items : RecoverResource(i, items[i], conflict, again) \in Budgeted
      BY <2>1, RecoveriesStayBudgeted
    <2> QED BY <2>2 DEF Recovered
  <1>2. ASSUME NEW readable \in BOOLEAN
        PROVE  StaleRecovered(r, items, readable) \in [Items -> Budgeted]
    <2>1. \A i \in Items : RecoverStaleRunning(items[i]) \in Budgeted
      BY MarksStayBudgeted
    <2> QED BY <2>1 DEF StaleRecovered
  <1> QED BY <1>1, <1>2

LEMMA FilesStayBudgeted ==
  ASSUME BudgetInv, NEW r \in Runs
  PROVE  /\ \A items \in [Items -> Budgeted] : Saved(r, items) \in [Items -> Budgeted]
         /\ Loaded(r) \in [Items -> Budgeted]
         /\ Enqueue(r) \in [Items -> Budgeted]
         /\ \A readable \in BOOLEAN : Refreshed(r, readable) \in [Items -> Budgeted]
         /\ NoItems \in [Items -> Budgeted]
  <1>1. /\ queue \in [Items -> Budgeted] /\ copy[r] \in [Items -> Budgeted]
        /\ \A i \in Items : queue[i] \in Budgeted
    BY DEF BudgetInv
  <1>2. ASSUME NEW items \in [Items -> Budgeted] PROVE Saved(r, items) \in [Items -> Budgeted]
    BY <1>1 DEF Saved, Written
  <1>3. Loaded(r) \in [Items -> Budgeted] /\ Enqueue(r) \in [Items -> Budgeted]
        /\ NoItems \in [Items -> Budgeted]
    BY <1>1, FreshIsBudgeted DEF Loaded, Enqueue, NoItems
  <1>4. ASSUME NEW readable \in BOOLEAN PROVE Refreshed(r, readable) \in [Items -> Budgeted]
    <2> DEFINE file == Saved(r, StaleRecovered(r, copy[r], readable))
    <2>1. file \in [Items -> Budgeted]
      BY <1>1, <1>2, DerivedStayBudgeted
    <2> HIDE DEF file
    <2>2. ASSUME NEW i \in Items, NEW item \in Budgeted PROVE RefreshItem(i, item) \in Budgeted
      <3>1. CASE RefreshItem(i, item) = item
        BY <3>1
      <3>2. CASE RefreshItem(i, item) = MarkDecision(item, Decision(i, item))
        BY <3>2, MarksStayBudgeted
      <3>3. CASE RefreshItem(i, item) = [item EXCEPT !.status = "queued"]
        <4> DEFINE new == [item EXCEPT !.status = "queued"]
        <4>1. /\ new \in ItemType /\ new.gpu = item.gpu /\ new.resource = item.resource
              /\ new.batch = item.batch /\ new.result = item.result
          BY DEF Budgeted, ItemType, Statuses
        <4> HIDE DEF new
        <4>2. BatchLeft(new) /\ WaitIsCurrent(new) /\ (new.gpu >= 2 => new.resource >= 2)
          BY <4>1 DEF Budgeted, BatchLeft, WaitIsCurrent
        <4>3. new \in Budgeted
          BY <4>1, <4>2 DEF Budgeted
        <4> QED BY <3>3, <4>3 DEF new
      <3> QED BY <3>1, <3>2, <3>3 DEF RefreshItem
    <2>3. \A i \in Items : RefreshItem(i, file[i]) \in Budgeted
      BY <2>1, <2>2
    <2>4. Refreshed(r, readable) =
            [i \in Items |-> IF i \in ItemsOf(r) THEN RefreshItem(i, file[i]) ELSE queue[i]]
      BY DEF Refreshed, file
    <2> QED BY <1>1, <2>3, <2>4
  <1> QED BY <1>2, <1>3, <1>4

LEMMA LoopStaysBudgeted ==
  ASSUME BudgetInv, NEW r \in Runs, LoopStep(r)
  PROVE  BudgetInv'
  <1>1. /\ queue \in [Items -> Budgeted] /\ copy \in [Runs -> [Items -> Budgeted]]
        /\ copy[r] \in [Items -> Budgeted] /\ stopping \in [Runs -> BudgetedStops]
    BY DEF BudgetInv
  <1>2. stopping' = stopping
    BY DEF LoopStep, Invoke, LoadQueue, RecoverResources, CheckStale, RefreshQueue, DecideRecovered,
           DecideRetrySkipped, Decide, unchangedProcesses
  <1>3. queue' \in [Items -> Budgeted]
    <2>1. CASE Invoke(r) \/ LoadQueue(r) \/ Decide(r)
      BY <1>1, <2>1 DEF Invoke, LoadQueue, Decide
    <2>2. CASE RecoverResources(r) \/ DecideRecovered(r)
      <3>1. PICK again \in SecondLook : queue' = Saved(r, Recovered(r, copy[r], again))
        BY <2>2 DEF RecoverResources, DecideRecovered
      <3> QED BY <1>1, <3>1, DerivedStayBudgeted, FilesStayBudgeted
    <2>3. CASE CheckStale(r)
      <3>1. PICK readable \in BOOLEAN :
              \/ queue' = Enqueue(r) \/ queue' = Saved(r, copy[r])
              \/ queue' = Saved(r, StaleRecovered(r, copy[r], readable))
        BY <2>3 DEF CheckStale
      <3> QED BY <1>1, <3>1, DerivedStayBudgeted, FilesStayBudgeted
    <2>4. CASE RefreshQueue(r)
      BY <2>4, FilesStayBudgeted DEF RefreshQueue
    <2>5. CASE DecideRetrySkipped(r)
      BY <2>5, FilesStayBudgeted DEF DecideRetrySkipped
    <2> QED BY <2>1, <2>2, <2>3, <2>4, <2>5 DEF LoopStep
  <1>4. \/ copy' = copy
        \/ copy' = [copy EXCEPT ![r] = NoItems]
        \/ copy' = [copy EXCEPT ![r] = Loaded(r)]
        \/ copy' = [copy EXCEPT ![r] = [i \in Items |-> IF i \in ItemsOf(r) THEN queue'[i] ELSE NoItem]]
    <2>1. CASE Invoke(r) \/ LoadQueue(r) \/ RecoverResources(r) \/ CheckStale(r) \/ RefreshQueue(r)
      BY <2>1 DEF Invoke, LoadQueue, RecoverResources, CheckStale, RefreshQueue, Holds
    <2>2. CASE DecideRecovered(r) \/ DecideRetrySkipped(r) \/ Decide(r)
      BY <2>2 DEF DecideRecovered, DecideRetrySkipped, Decide, Holds
    <2> QED BY <2>1, <2>2 DEF LoopStep
  <1>5. [i \in Items |-> IF i \in ItemsOf(r) THEN queue'[i] ELSE NoItem] \in [Items -> Budgeted]
    BY <1>3, FreshIsBudgeted
  <1>6. copy' \in [Runs -> [Items -> Budgeted]]
    BY <1>1, <1>4, <1>5, FilesStayBudgeted
  <1> QED BY <1>1, <1>2, <1>3, <1>6 DEF BudgetInv

LEMMA UpdateStaysBudgeted ==
  ASSUME BudgetInv, NEW r \in Runs, NEW i \in Items, NEW item \in Budgeted, UpdateItem(r, i, item),
         stopping' = stopping
  PROVE  BudgetInv'
  <1>1. copy' = [copy EXCEPT ![r] = [copy[r] EXCEPT ![i] = item]]
    BY DEF UpdateItem, BudgetInv
  <1>2. [copy[r] EXCEPT ![i] = item] \in [Items -> Budgeted]
    BY DEF BudgetInv
  <1> QED BY <1>1, <1>2 DEF BudgetInv, UpdateItem

LEMMA FinishStaysBudgeted ==
  ASSUME IInv, BudgetInv, NEW r \in Runs, driver[r] \in Executing,
         NEW result \in Results, result.status # "none",
         result.output = "" /\ result.waiting => result.attempt = copy[r][cursor[r]].gpu,
         Finish(r, result), UNCHANGED <<queue, stopping>>
  PROVE  BudgetInv'
  <1> DEFINE i == cursor[r]
             item == MarkResult(copy[r][i], result)
  <1>1. copy \in [Runs -> [Items -> Budgeted]] /\ i \in Items
    BY ExecutingFacts DEF BudgetInv
  <1>2. item \in Budgeted
    BY <1>1, ResultsStayBudgeted
  <1>3. copy' = [copy EXCEPT ![r] = [copy[r] EXCEPT ![i] = item]]
    BY <1>1 DEF Finish
  <1> HIDE DEF i, item
  <1>4. [copy[r] EXCEPT ![i] = item] \in [Items -> Budgeted]
    BY <1>1, <1>2
  <1> QED BY <1>1, <1>3, <1>4 DEF BudgetInv

LEMMA ExecutionStaysBudgeted ==
  ASSUME IInv, BudgetInv, NEW r \in Runs, Execution(r)
  PROVE  BudgetInv'
  <1>1. stopping' = stopping
    BY DEF Execution, Hold, Start, EndPass, Refuse, WaitForGpu, Spawn, TrainEnds, Record
  <1>2. /\ copy[r] \in [Items -> Budgeted] /\ \A i \in Items : copy[r][i] \in Budgeted
        /\ Budgeted \subseteq ItemType
    BY DEF BudgetInv, Budgeted
  <1>3. CASE Hold(r)
    <2>1. PICK i \in Items : UpdateItem(r, i, MarkDecision(copy[r][i], Decision(i, copy[r][i])))
      BY <1>3 DEF Hold
    <2>2. MarkDecision(copy[r][i], Decision(i, copy[r][i])) \in Budgeted
      BY <1>2, MarksStayBudgeted
    <2> QED BY <1>1, <2>1, <2>2, UpdateStaysBudgeted
  <1>4. CASE Start(r)
    <2>1. PICK i \in Items : UpdateItem(r, i, MarkRunning(copy[r][i]))
      BY <1>4 DEF Start
    <2>2. MarkRunning(copy[r][i]) \in Budgeted
      BY <1>2, MarksStayBudgeted
    <2> QED BY <1>1, <2>1, <2>2, UpdateStaysBudgeted
  <1>5. CASE EndPass(r)
    BY <1>1, <1>5, FilesStayBudgeted DEF EndPass, Holds, BudgetInv
  <1>6. CASE Spawn(r)
    BY <1>1, <1>6 DEF Spawn, BudgetInv
  <1>7. CASE Refuse(r)
    <2>1. PICK status \in {"skipped", "failed"} : Finish(r, Result(status, "", FALSE, 0))
      BY <1>7 DEF Refuse
    <2>2. driver[r] \in Executing /\ UNCHANGED <<queue, stopping>>
      BY <1>1, <1>7 DEF Refuse, Executing
    <2> QED BY <2>1, <2>2, GivenResults, FinishStaysBudgeted
  <1>8. CASE WaitForGpu(r)
    <2>1. Finish(r, Result("failed", "", TRUE, copy[r][cursor[r]].gpu))
      BY <1>8 DEF WaitForGpu
    <2>2. driver[r] \in Executing /\ UNCHANGED <<queue, stopping>>
      BY <1>1, <1>8 DEF WaitForGpu, Executing
    <2>3. copy[r][cursor[r]].gpu \in 0..3
      BY <2>2, ExecutingFacts, NumbersOfItems
    <2> QED BY <2>1, <2>2, <2>3, WaitResult, FinishStaysBudgeted
  <1>9. CASE TrainEnds(r)
    <2> DEFINE item == copy[r][cursor[r]]
    <2>1. (IF cursor[r] \in child THEN Outcomes(item) ELSE {Result("failed", "", FALSE, 0)})
            \subseteq Outcomes(item)
      BY DEF Outcomes
    <2>2. PICK result \in Outcomes(item) : Finish(r, result)
      BY <1>9, <2>1 DEF TrainEnds
    <2>3. driver[r] \in Executing /\ UNCHANGED <<queue, stopping>>
      BY <1>1, <1>9 DEF TrainEnds, Executing
    <2>4. item \in ItemType
      BY <2>3, ExecutingFacts
    <2> HIDE DEF item
    <2>5. result \in Results /\ result.status # "none"
      BY <2>4, OutcomesFacts
    <2>6. result.output = "" => ~result.waiting
      <3>1. \/ result = Result("completed", "", FALSE, 0) \/ result = Result("failed", "", FALSE, 0)
            \/ result = Result("failed", "ram", FALSE, item.resource)
            \/ result = Result("failed", "oom", conflict, item.gpu)
        BY DEF Outcomes
      <3>2. CASE result = Result("failed", "oom", conflict, item.gpu)
        <4>1. result.output = "oom"
          BY <3>2 DEF Result
        <4> QED BY <4>1
      <3>3. CASE result = Result("completed", "", FALSE, 0)
        BY <3>3 DEF Result
      <3>4. CASE result = Result("failed", "", FALSE, 0)
        BY <3>4 DEF Result
      <3>5. CASE result = Result("failed", "ram", FALSE, item.resource)
        BY <3>5 DEF Result
      <3> QED BY <3>1, <3>2, <3>3, <3>4, <3>5
    <2> QED BY <2>2, <2>3, <2>5, <2>6, FinishStaysBudgeted
  <1>10. CASE Record(r)
    <2>1. PICK again \in SecondLook :
            UpdateItem(r, cursor[r], RecoverResource(cursor[r], copy[r][cursor[r]], conflict, again))
      BY <1>10 DEF Record
    <2>2. again \in BOOLEAN /\ conflict \in BOOLEAN
      BY DEF SecondLook, conflict
    <2>3. cursor[r] \in Items
      BY <1>10, ExecutingFacts DEF Record, Executing
    <2>4. RecoverResource(cursor[r], copy[r][cursor[r]], conflict, again) \in Budgeted
      BY <1>2, <2>2, <2>3, RecoveriesStayBudgeted
    <2> QED BY <1>1, <2>1, <2>3, <2>4, UpdateStaysBudgeted
  <1> QED BY <1>3, <1>4, <1>5, <1>6, <1>7, <1>8, <1>9, <1>10 DEF Execution

LEMMA StopsStayBudgeted ==
  ASSUME IInv, BudgetInv, NEW r \in Runs, StopCommand(r) \/ StopKill(r) \/ Interrupt(r) \/ Crash(r)
  PROVE  BudgetInv'
  <1>1. /\ queue \in [Items -> Budgeted] /\ copy \in [Runs -> [Items -> Budgeted]]
        /\ copy[r] \in [Items -> Budgeted]
        /\ \A i \in Items : queue[i] \in Budgeted /\ copy[r][i] \in Budgeted
        /\ stopping \in [Runs -> BudgetedStops]
    BY DEF BudgetInv
  <1>2. NoItems \in [Items -> Budgeted]
    BY FilesStayBudgeted
  <1>3. CASE StopLoad(r)
    <2> DEFINE running == {i \in ItemsOf(r) : queue[i].status = "running"}
               loaded == [i \in running |-> queue[i]]
    <2>1. /\ queue' = queue /\ copy' = copy
          /\ stopping' = [stopping EXCEPT ![r] = IF running = {} THEN NoStop ELSE [pc |-> "mark", items |-> loaded]]
      BY <1>3 DEF StopLoad
    <2>2. running \in SUBSET Items
      BY DEF ItemsOf
    <2>3. loaded \in [running -> Budgeted]
      BY <1>1, <2>2
    <2>4. loaded \in UNION {[S -> Budgeted] : S \in SUBSET Items}
      BY <2>2, <2>3
    <2> HIDE DEF loaded, running
    <2>5. [pc |-> "mark", items |-> loaded] \in BudgetedStops
      BY <2>4 DEF BudgetedStops
    <2> QED BY <1>1, <2>1, <2>5, NoStopIsBudgeted DEF BudgetInv
  <1>4. CASE StopMark(r)
    <2> DEFINE items == stopping[r].items
    <2>1. PICK i \in DOMAIN items :
            /\ queue' = [queue EXCEPT ![i] = MarkInterrupted(items[i])]
            /\ LET left == DOMAIN items \ {i}
               IN stopping' = [stopping EXCEPT ![r] =
                    IF left = {} THEN NoStop
                    ELSE [pc |-> "mark", items |-> [j \in left |-> items[j]]]]
      BY <1>4 DEF StopMark
    <2>2. copy' = copy
      BY <1>4 DEF StopMark
    <2>3. PICK S \in SUBSET Items : items \in [S -> Budgeted]
      <3>1. items \in UNION {[S -> Budgeted] : S \in SUBSET Items}
        BY <1>1 DEF BudgetedStops
      <3> QED BY <3>1
    <2> DEFINE left == DOMAIN items \ {i}
               rest == [j \in left |-> items[j]]
    <2>4. stopping' = [stopping EXCEPT ![r] =
            IF left = {} THEN NoStop ELSE [pc |-> "mark", items |-> rest]]
      BY <2>1
    <2> HIDE DEF items
    <2>5. left \in SUBSET Items /\ rest \in [left -> Budgeted] /\ i \in Items /\ items[i] \in Budgeted
      BY <2>3
    <2> HIDE DEF rest, left
    <2>6. rest \in UNION {[T -> Budgeted] : T \in SUBSET Items}
      BY <2>5
    <2>7. [pc |-> "mark", items |-> rest] \in BudgetedStops
      BY <2>6 DEF BudgetedStops
    <2>8. MarkInterrupted(items[i]) \in Budgeted
      BY <2>5, MarksStayBudgeted
    <2> QED BY <1>1, <2>1, <2>2, <2>4, <2>7, <2>8, NoStopIsBudgeted DEF BudgetInv
  <1>5. CASE StopKill(r) \/ Crash(r)
    <2>1. queue' = queue /\ (stopping' = stopping \/ stopping' = [stopping EXCEPT ![r] = Begun])
      BY <1>5 DEF StopKill, Crash
    <2>2. copy' = copy \/ copy' = [copy EXCEPT ![r] = NoItems]
      BY <1>5 DEF StopKill, Crash, Abandon, Exit, Holds
    <2> QED BY <1>1, <1>2, <2>1, <2>2, NoStopIsBudgeted DEF BudgetInv
  <1>6. CASE Interrupt(r)
    <2>1. /\ copy' = [copy EXCEPT ![r] = NoItems]
          /\ stopping' = [stopping EXCEPT ![r] = IF @ = NoStop THEN Begun ELSE @]
          /\ \/ queue' = queue
             \/ queue' = [queue EXCEPT ![cursor[r]] = MarkInterrupted(copy[r][cursor[r]])]
      BY <1>6 DEF Interrupt, Exit, Holds
    <2>2. cursor[r] \in Items => MarkInterrupted(copy[r][cursor[r]]) \in Budgeted
      BY <1>1, MarksStayBudgeted
    <2>3. queue' \in [Items -> Budgeted]
      BY <1>1, <2>1, <2>2
    <2>4. stopping' \in [Runs -> BudgetedStops]
      BY <1>1, <2>1, NoStopIsBudgeted
    <2> QED BY <1>1, <1>2, <2>1, <2>3, <2>4 DEF BudgetInv
  <1> QED BY <1>3, <1>4, <1>5, <1>6 DEF StopCommand

(* However GPU failures, host failures, waits, crashes, interruptions and  *)
(* stops follow each other, an item's batch is halved at most three times, *)
(* whatever the batch.                                                     *)
THEOREM BatchesAreBounded == Spec => []BatchIsBounded
  <1>1. IInv /\ BudgetInv /\ [Next]_vars => BudgetInv'
    <2> SUFFICES ASSUME IInv, BudgetInv, [Next]_vars PROVE BudgetInv'
      OBVIOUS
    <2>1. CASE UNCHANGED vars
      BY <2>1 DEF vars, BudgetInv
    <2>2. CASE \E r \in Runs : LoopStep(r) \/ Execution(r) \/ StopCommand(r)
      BY <2>2, LoopStaysBudgeted, ExecutionStaysBudgeted, StopsStayBudgeted
    <2>3. CASE \E r \in Runs : Interrupt(r) \/ Crash(r) \/ StopKill(r) \/ PlanChanges(r)
      BY <2>3, StopsStayBudgeted DEF PlanChanges, unchangedProcesses, BudgetInv
    <2>4. CASE (\E i \in Items : OrphanEnds(i) \/ Checkpointed(i) \/ EvidenceArrives(i)) \/ MachineChanges
      BY <2>4 DEF OrphanEnds, Checkpointed, EvidenceArrives, MachineChanges, BudgetInv
    <2> QED BY <2>1, <2>2, <2>3, <2>4 DEF Next
  <1>2. BudgetInv => BatchIsBounded
    <2> SUFFICES ASSUME BudgetInv, NEW i \in Items PROVE queue[i].batch >= Batch \div 8
      BY DEF BatchIsBounded
    <2>1. queue[i] \in Budgeted /\ queue[i] \in ItemType
      BY DEF BudgetInv, Budgeted
    <2>2. queue[i].batch \in 1..Batch /\ 8 * (queue[i].batch + 1) > Batch
      BY <2>1, NumbersOfItems DEF Budgeted, BatchLeft
    <2> QED BY <2>2, NumbersAssumption
  <1> QED BY <1>1, <1>2, BudgetedAtFirst, Invariance, PTL DEF Spec
=============================================================================
