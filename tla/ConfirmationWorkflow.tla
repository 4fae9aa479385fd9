------------------------- MODULE ConfirmationWorkflow -------------------------
(***************************************************************************)
(* The confirmation of a pilot winner (agents/confirmation_workflow.py):   *)
(* the approval gate and its single use (confirmation_approval.py), the    *)
(* matrix of matched baseline and candidate runs (seed_confirmation.py),   *)
(* its crash-safe resumption (confirmation_resume.py), the paired          *)
(* statistics (confirmation_statistics.py), the promotion rule             *)
(* (promotion_rule.py) and the report (confirmation_report.py).            *)
(*                                                                         *)
(* The matrix is persisted after every transition, so what is in memory is *)
(* what is on file at every step of this model.  The request is not: its   *)
(* caller may file it between two invocations, and a process that dies     *)
(* takes the state it did not file with it.                                *)
(***************************************************************************)
EXTENDS Integers, FiniteSets

CONSTANTS
  Metrics,         \* what an executor may record of a run that succeeded
  Constraints,     \* metrics the rule or the task caps
  RelativeCap,     \* per constraint, the allowed regression in percent
  AbsoluteCap,     \* per constraint, the cap of the task specification
  Missing,         \* a metric that was not recorded; also: no cap
  Target,          \* target_delta, in the units of the primary metric
  Minimize,        \* primary_goal is "minimize"
  MaxFaults        \* bound: failed runs and processes that died

ASSUME MissingAssumption == Missing \notin Int
ASSUME MetricsAssumption ==
  \A m \in Metrics : /\ m.primary \in Int \cup {Missing}
                     /\ m.cost \in [Constraints -> Int \cup {Missing}]
ASSUME CapsAssumption ==
  /\ RelativeCap \in [Constraints -> Nat]
  /\ AbsoluteCap \in [Constraints -> Nat \cup {Missing}]
ASSUME NumbersAssumption == Target \in Nat /\ MaxFaults \in Nat /\ Minimize \in BOOLEAN

VARIABLES
  runs,      \* the matrix on file
  request,   \* state of the request the live process holds
  filed,     \* state of the request its caller has on file
  approval,  \* what the user issued: nothing, an approval the gate denies, a valid one
  pc,        \* the workflow: off, next (between runs), executing, decide
  report,    \* the verdict of the written report
  faults     \* faults so far

vars == <<runs, request, filed, approval, pc, report, faults>>
-----------------------------------------------------------------------------
(* The matrix: matched seeds, baseline runs before candidate runs.         *)
Seeds == 1..3
Runs == {"baseline", "candidate"} \X Seeds
Position(run) == IF run[1] = "baseline" THEN run[2] ELSE 3 + run[2]

NoMetrics == [primary |-> Missing, cost |-> [c \in Constraints |-> Missing]]
RunType == [status : {"pending", "running", "completed", "failed"},
            metrics : Metrics \cup {NoMetrics}]

(* Mutants: what a dead process left running is taken for running; a seed  *)
(* is resumed as a whole.                                                  *)
ResumableWhenIdle(matrix) == {run \in Runs : matrix[run].status \in {"pending", "failed"}}
ResumableBySeed(matrix) ==
  {run \in Runs : \E role \in {"baseline", "candidate"} :
                    matrix[<<role, run[2]>>].status \in {"pending", "running", "failed"}}

(* plan_resume: whatever is not completed is executed; a run still marked  *)
(* running is the leftover of a process that died.                         *)
Resumable(matrix) == {run \in Runs : matrix[run].status \in {"pending", "running", "failed"}}
Complete(matrix) == \A run \in Runs : matrix[run].status = "completed"
IsNext(matrix, run) ==
  /\ run \in Resumable(matrix)
  /\ \A other \in Resumable(matrix) : Position(run) <= Position(other)
-----------------------------------------------------------------------------
(* Paired statistics of the primary metric.  With three pairs the 95%      *)
(* interval is the mean delta plus or minus 4.303 s / sqrt(3): with S the  *)
(* sum of the deltas and D the sum of their squared differences, a bound   *)
(* compares with zero as 2 S^2 with 4.303^2 D.                             *)
Delta(matrix, seed) ==
  matrix[<<"candidate", seed>>].metrics.primary - matrix[<<"baseline", seed>>].metrics.primary

Sum(f) == f[1] + f[2] + f[3]
Square(n) == n * n
Spread(d) == Square(d[1] - d[2]) + Square(d[2] - d[3]) + Square(d[1] - d[3])
MeanBeyond(d) == 2000000 * Square(Sum(d)) > 18515809 * Spread(d)
MeanReaches(d) == 2000000 * Square(Sum(d)) >= 18515809 * Spread(d)

(* Mutant: a positive mean counts as an interval above zero.               *)
MeanAboveZero(d) == Sum(d) > 0

LowAboveZero(d) == Sum(d) > 0 /\ MeanBeyond(d)        \* ci95_low > 0
LowBelowZero(d) == ~(Sum(d) >= 0 /\ MeanReaches(d))   \* ci95_low < 0
HighBelowZero(d) == Sum(d) < 0 /\ MeanBeyond(d)       \* ci95_high < 0
HighNotAboveZero(d) == Sum(d) <= 0 /\ MeanReaches(d)  \* ci95_high <= 0

(* The rule's view: for a goal to minimize it negates the mean and each    *)
(* bound, and keeps the name of each bound.                                *)
MeanSum(d) == IF Minimize THEN -Sum(d) ELSE Sum(d)
CiLowPositive(d) == IF Minimize THEN LowBelowZero(d) ELSE LowAboveZero(d)
CiHighNotPositive(d) == IF Minimize THEN ~HighBelowZero(d) ELSE HighNotAboveZero(d)
-----------------------------------------------------------------------------
(* Hard constraints: a mean needs the metric of every run of the role.     *)
Costs(matrix, role, c) == [s \in Seeds |-> matrix[<<role, s>>].metrics.cost[c]]
Recorded(matrix, c) == \A run \in Runs : matrix[run].metrics.cost[c] # Missing

Violated(matrix, c) ==
  LET base == Sum(Costs(matrix, "baseline", c))
      cand == Sum(Costs(matrix, "candidate", c))
  IN /\ Recorded(matrix, c)
     /\ \/ base > 0 /\ 100 * (cand - base) > RelativeCap[c] * base
        \/ AbsoluteCap[c] # Missing /\ cand > 3 * AbsoluteCap[c]

(* apply_promotion_rule, in its order.  "none" stands for the decision     *)
(* without statistics: the rule's metric is not recorded by every run.     *)
Verdict(matrix) ==
  LET d == [s \in Seeds |-> Delta(matrix, s)]
  IN CASE \E run \in Runs : matrix[run].metrics.primary = Missing -> "none"
       [] OTHER ->
          IF \/ \E c \in Constraints : Violated(matrix, c)
             \/ CiHighNotPositive(d)
             \/ MeanSum(d) <= -(3 * Target)
          THEN "REJECTED"
          ELSE IF \E c \in Constraints : ~Recorded(matrix, c) THEN "INCONCLUSIVE"
          ELSE IF MeanSum(d) < 3 * Target THEN "INCONCLUSIVE"
          ELSE IF CiLowPositive(d) THEN "CONFIRMED" ELSE "POSSIBLE"
-----------------------------------------------------------------------------
(* prepare_full_run_request: a pending matrix and a pending request.       *)
Init ==
  /\ runs = [run \in Runs |-> [status |-> "pending", metrics |-> NoMetrics]]
  /\ request = "pending" /\ filed = "pending"
  /\ approval = "none"
  /\ pc = "off"
  /\ report = "none"
  /\ faults = 0

(* The user issues an approval; the gate denies one that is bound to       *)
(* another request or winner, not explicit, or below the estimated cost.   *)
Approve ==
  /\ approval # "valid"
  /\ approval' \in {"denied", "valid"} \ {approval}
  /\ UNCHANGED <<runs, request, filed, pc, report, faults>>

(* Mutant: any approval that was issued is accepted.                       *)
AllowedIfIssued == approval # "none" /\ request # "consumed"

(* evaluate_full_run_approval: nothing in the code ever rejects a request. *)
Allowed == approval = "valid" /\ request # "consumed"

(* Mutants: a resumption plans the matrix anew; the approval is consumed   *)
(* before the runs it buys.                                                *)
LaunchAnew ==
  /\ pc = "off" /\ Allowed
  /\ request' = "approved"
  /\ pc' = "next"
  /\ runs' = [run \in Runs |-> [status |-> "pending", metrics |-> NoMetrics]]
  /\ UNCHANGED <<filed, approval, report, faults>>
LaunchConsuming ==
  /\ pc = "off" /\ Allowed
  /\ request' = "consumed"
  /\ pc' = "next"
  /\ UNCHANGED <<runs, filed, approval, report, faults>>

(* execute_confirmation and resume_confirmation: the gate, the grant.      *)
Launch ==
  /\ pc = "off" /\ Allowed
  /\ request' = "approved"
  /\ pc' = "next"
  /\ UNCHANGED <<runs, filed, approval, report, faults>>

MarkRunning ==
  /\ pc = "next"
  /\ \E run \in Runs : IsNext(runs, run) /\ runs' = [runs EXCEPT ![run].status = "running"]
  /\ pc' = "executing"
  /\ UNCHANGED <<request, filed, approval, report, faults>>

MarkCompleted ==
  /\ pc = "executing"
  /\ \E run \in Runs, metrics \in Metrics :
       /\ IsNext(runs, run)
       /\ runs' = [runs EXCEPT ![run] = [status |-> "completed", metrics |-> metrics]]
  /\ pc' = "next"
  /\ UNCHANGED <<request, filed, approval, report, faults>>

(* Mutant: a failed run gets a status the matrix does not know.            *)
MarkErroneous ==
  /\ pc = "executing" /\ faults < MaxFaults
  /\ \E run \in Runs : IsNext(runs, run) /\ runs' = [runs EXCEPT ![run].status = "error"]
  /\ pc' = "off"
  /\ faults' = faults + 1
  /\ UNCHANGED <<request, filed, approval, report>>

(* The executor raised, or the run recorded no map50_95: the invocation    *)
(* ends, the grant stays with the request.                                 *)
MarkFailed ==
  /\ pc = "executing" /\ faults < MaxFaults
  /\ \E run \in Runs : IsNext(runs, run) /\ runs' = [runs EXCEPT ![run].status = "failed"]
  /\ pc' = "off"
  /\ faults' = faults + 1
  /\ UNCHANGED <<request, filed, approval, report>>

(* consume_approval, once the matrix is complete.                          *)
Consume ==
  /\ pc = "next" /\ Resumable(runs) = {}
  /\ request' = "consumed"
  /\ pc' = "decide"
  /\ UNCHANGED <<runs, filed, approval, report, faults>>

(* The decision and its report.  Without statistics no report can be       *)
(* built: the invocation raises.                                           *)
Decide ==
  /\ pc = "decide"
  /\ pc' = "off"
  /\ report' = IF Verdict(runs) = "none" THEN report ELSE Verdict(runs)
  /\ UNCHANGED <<runs, request, filed, approval, faults>>

(* The caller files the request, or its process dies and a new one starts  *)
(* from the request on file.                                               *)
FileRequest ==
  /\ pc = "off" /\ filed # request
  /\ filed' = request
  /\ UNCHANGED <<runs, request, approval, pc, report, faults>>

Die ==
  /\ faults < MaxFaults
  /\ pc # "off" \/ request # filed
  /\ pc' = "off"
  /\ request' = filed
  /\ faults' = faults + 1
  /\ UNCHANGED <<runs, filed, approval, report>>

Work == Launch \/ MarkRunning \/ MarkCompleted \/ MarkFailed \/ Consume \/ Decide
Next == Approve \/ Work \/ FileRequest \/ Die

Spec == Init /\ [][Next]_vars

(* A process that works goes on, and the caller invokes the workflow again *)
(* after a failure; faults are bounded by MaxFaults only.                  *)
FairSpec == Spec /\ WF_vars(Work) /\ WF_vars(MarkCompleted)
-----------------------------------------------------------------------------
TypeOK ==
  /\ runs \in [Runs -> RunType]
  /\ request \in {"pending", "approved", "consumed"}
  /\ filed \in {"pending", "approved", "consumed"}
  /\ approval \in {"none", "denied", "valid"}
  /\ pc \in {"off", "next", "executing", "decide"}
  /\ report \in {"none", "CONFIRMED", "POSSIBLE", "REJECTED", "INCONCLUSIVE"}
  /\ faults \in 0..MaxFaults

(* No run ever starts without an approval the gate accepts, whatever       *)
(* request a restarted process came back with.                             *)
NothingRunsUnapproved ==
  approval # "valid" => \A run \in Runs : runs[run].status = "pending"

(* The approval buys one matrix: once it is spent, or its verdict is       *)
(* reported, no run is executed again, though a process that died may come *)
(* back with a request that does not know it was consumed.                 *)
SpentBuysNothing ==
  [][request = "consumed" \/ report # "none" => UNCHANGED runs]_vars

(* A finished seed is never re-run: its evidence survives every failure,   *)
(* crash and resumption.                                                   *)
FinishedIsKept ==
  [][\A run \in Runs : runs[run].status = "completed" => runs'[run] = runs[run]]_vars

(* What is reported is the verdict of the complete matrix on file.         *)
ReportIsCurrent == report # "none" => Complete(runs) /\ report = Verdict(runs)

(* A confirmed candidate beats the baseline on every matched seed and by   *)
(* the target in the mean, whichever way the goal points, and no capped    *)
(* metric got worse than its cap.                                          *)
Gain(seed) == IF Minimize THEN -Delta(runs, seed) ELSE Delta(runs, seed)
ConfirmedWinsEverySeed ==
  report = "CONFIRMED" =>
    /\ \A seed \in Seeds : Gain(seed) > 0
    /\ Gain(1) + Gain(2) + Gain(3) >= 3 * Target
    /\ \A c \in Constraints : Recorded(runs, c) /\ ~Violated(runs, c)

(* Every approved confirmation is reported, however often it fails and     *)
(* dies, unless some run lacks the metric the rule decides by.             *)
ApprovedIsReported ==
  approval = "valid" ~>
    \/ report # "none"
    \/ \E run \in Runs : runs[run].status = "completed" /\ runs[run].metrics.primary = Missing

(* A candidate is rejected for a primary metric only if the whole interval *)
(* is on the side of a regression or the mean is below minus the target.   *)
RejectionIsWarranted ==
  report = "REJECTED" =>
    LET d == [s \in Seeds |-> Delta(runs, s)]
    IN \/ \E c \in Constraints : Violated(runs, c)
       \/ MeanSum(d) <= -(3 * Target)
       \/ IF Minimize THEN Sum(d) >= 0 /\ MeanReaches(d) ELSE Sum(d) <= 0 /\ MeanReaches(d)
=============================================================================
