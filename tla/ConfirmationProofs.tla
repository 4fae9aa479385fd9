-------------------------- MODULE ConfirmationProofs --------------------------
(***************************************************************************)
(* The confirmation workflow for any metrics an executor may record, any   *)
(* capped metrics, any number of failures and crashes: the approval is     *)
(* needed and buys one matrix, the report is the verdict of that matrix,   *)
(* and a confirmed candidate beats the baseline on every seed.             *)
(***************************************************************************)
EXTENDS ConfirmationWorkflow, TLAPS

(* Work and its traces exist only under a valid approval, and whatever     *)
(* says that the confirmation is over says so of a complete matrix.        *)
IInv ==
  /\ TypeOK
  /\ NothingRunsUnapproved
  /\ pc # "off" => approval = "valid"
  /\ request = "consumed" \/ filed = "consumed" \/ pc = "decide" => Complete(runs)
  /\ ReportIsCurrent
-----------------------------------------------------------------------------
LEMMA RunTypeFacts ==
  /\ [status |-> "pending", metrics |-> NoMetrics] \in RunType
  /\ \A r \in RunType, s \in {"running", "failed"} : [r EXCEPT !.status = s] \in RunType
  /\ \A m \in Metrics : [status |-> "completed", metrics |-> m] \in RunType
  BY DEF RunType

(* The matrix is complete exactly when there is nothing left to execute.   *)
LEMMA NothingLeftIsComplete ==
  ASSUME runs \in [Runs -> RunType]
  PROVE  Resumable(runs) = {} <=> Complete(runs)
  BY DEF Resumable, Complete, RunType

LEMMA NextRunIsUnfinished ==
  ASSUME NEW run, IsNext(runs, run)
  PROVE  run \in Runs /\ runs[run].status # "completed" /\ ~Complete(runs)
  BY DEF IsNext, Resumable, Complete

LEMMA VerdictIsKnown ==
  Verdict(runs) \in {"none", "CONFIRMED", "POSSIBLE", "REJECTED", "INCONCLUSIVE"}
  BY DEF Verdict

LEMMA Initially == Init => IInv
  BY RunTypeFacts, NumbersAssumption
     DEF Init, IInv, TypeOK, NothingRunsUnapproved, ReportIsCurrent
-----------------------------------------------------------------------------
(* One run of the matrix changes: a run that is next, under an approval.   *)
LEMMA RunChangeKeeps ==
  ASSUME IInv, NEW run, IsNext(runs, run), NEW r \in RunType,
         runs' = [runs EXCEPT ![run] = r],
         pc \in {"next", "executing"}, pc' \in {"off", "next", "executing"},
         faults' \in 0..MaxFaults,
         UNCHANGED <<request, filed, approval, report>>
  PROVE  IInv'
  <1>1. ~Complete(runs) /\ run \in Runs
    BY NextRunIsUnfinished
  <1>2. approval = "valid" /\ report = "none"
    BY <1>1 DEF IInv, ReportIsCurrent
  <1>3. request # "consumed" /\ filed # "consumed"
    BY <1>1 DEF IInv
  <1>4. TypeOK'
    BY DEF IInv, TypeOK
  <1>5. pc' # "decide"
    OBVIOUS
  <1> QED BY <1>2, <1>3, <1>4, <1>5 DEF IInv, NothingRunsUnapproved, ReportIsCurrent

LEMMA RunStepKeeps ==
  ASSUME IInv, MarkRunning \/ MarkCompleted \/ MarkFailed
  PROVE  IInv'
  <1> USE DEF IInv, TypeOK
  <1>1. CASE MarkRunning
    <2>1. PICK run \in Runs : IsNext(runs, run) /\ runs' = [runs EXCEPT ![run].status = "running"]
      BY <1>1 DEF MarkRunning
    <2>2. [runs[run] EXCEPT !.status = "running"] \in RunType
      BY RunTypeFacts
    <2>3. runs' = [runs EXCEPT ![run] = [runs[run] EXCEPT !.status = "running"]]
      BY <2>1
    <2> QED BY <1>1, <2>1, <2>2, <2>3, RunChangeKeeps DEF MarkRunning
  <1>2. CASE MarkCompleted
    <2>1. PICK run \in Runs, metrics \in Metrics :
            /\ IsNext(runs, run)
            /\ runs' = [runs EXCEPT ![run] = [status |-> "completed", metrics |-> metrics]]
      BY <1>2 DEF MarkCompleted
    <2>2. [status |-> "completed", metrics |-> metrics] \in RunType
      BY RunTypeFacts
    <2> QED BY <1>2, <2>1, <2>2, RunChangeKeeps DEF MarkCompleted
  <1>3. CASE MarkFailed
    <2>1. PICK run \in Runs : IsNext(runs, run) /\ runs' = [runs EXCEPT ![run].status = "failed"]
      BY <1>3 DEF MarkFailed
    <2>2. [runs[run] EXCEPT !.status = "failed"] \in RunType
      BY RunTypeFacts
    <2>3. runs' = [runs EXCEPT ![run] = [runs[run] EXCEPT !.status = "failed"]]
      BY <2>1
    <2>4. faults' \in 0..MaxFaults
      BY <1>3, NumbersAssumption DEF MarkFailed
    <2> QED BY <1>3, <2>1, <2>2, <2>3, <2>4, RunChangeKeeps DEF MarkFailed
  <1> QED BY <1>1, <1>2, <1>3

(* The other steps leave the matrix alone.                                 *)
LEMMA GateKeeps ==
  ASSUME IInv, Approve \/ Launch \/ FileRequest \/ Die
  PROVE  IInv'
  <1>1. runs' = runs /\ report' = report
    BY DEF Approve, Launch, FileRequest, Die
  <1>2. Complete(runs)' = Complete(runs) /\ Verdict(runs)' = Verdict(runs)
    BY <1>1
  <1>3. TypeOK'
    BY <1>1, NumbersAssumption DEF IInv, TypeOK, Approve, Launch, FileRequest, Die
  <1>4. NothingRunsUnapproved'
    BY <1>1 DEF IInv, NothingRunsUnapproved, Approve, Launch, Allowed, FileRequest, Die
  <1>5. pc' # "off" => approval' = "valid"
    BY DEF IInv, Approve, Launch, Allowed, FileRequest, Die
  <1>6. request' = "consumed" \/ filed' = "consumed" \/ pc' = "decide" => Complete(runs)'
    BY <1>2 DEF IInv, Approve, Launch, FileRequest, Die
  <1>7. ReportIsCurrent'
    BY <1>1, <1>2 DEF IInv, ReportIsCurrent
  <1> QED BY <1>3, <1>4, <1>5, <1>6, <1>7 DEF IInv

LEMMA ConsumeKeeps ==
  ASSUME IInv, Consume
  PROVE  IInv'
  <1>1. Complete(runs) /\ runs' = runs /\ report' = report
    BY NothingLeftIsComplete DEF IInv, TypeOK, Consume
  <1>2. Complete(runs)' /\ Verdict(runs)' = Verdict(runs)
    BY <1>1
  <1>3. TypeOK'
    BY <1>1 DEF IInv, TypeOK, Consume
  <1> QED BY <1>1, <1>2, <1>3 DEF IInv, Consume, NothingRunsUnapproved, ReportIsCurrent

LEMMA DecideKeeps ==
  ASSUME IInv, Decide
  PROVE  IInv'
  <1>1. Complete(runs) /\ runs' = runs
    BY DEF IInv, Decide
  <1>2. Complete(runs)' /\ Verdict(runs)' = Verdict(runs)
    BY <1>1
  <1>3. report' = IF Verdict(runs) = "none" THEN report ELSE Verdict(runs)
    BY DEF Decide
  <1>4. TypeOK'
    BY <1>1, <1>3, VerdictIsKnown DEF IInv, TypeOK, Decide
  <1>5. ReportIsCurrent'
    BY <1>1, <1>2, <1>3 DEF IInv, ReportIsCurrent
  <1> QED BY <1>1, <1>2, <1>4, <1>5 DEF IInv, Decide, NothingRunsUnapproved

LEMMA NextKeeps ==
  ASSUME IInv, [Next]_vars
  PROVE  IInv'
  <1>1. CASE UNCHANGED vars
    <2>1. runs' = runs /\ request' = request /\ filed' = filed /\ approval' = approval
          /\ pc' = pc /\ report' = report /\ faults' = faults
      BY <1>1 DEF vars
    <2>2. Complete(runs)' = Complete(runs) /\ Verdict(runs)' = Verdict(runs)
      BY <2>1
    <2> QED BY <2>1, <2>2 DEF IInv, TypeOK, NothingRunsUnapproved, ReportIsCurrent
  <1>2. CASE Next
    BY <1>2, RunStepKeeps, GateKeeps, ConsumeKeeps, DecideKeeps DEF Next, Work
  <1> QED BY <1>1, <1>2

LEMMA Invariance == Spec => []IInv
  <1>1. IInv /\ [Next]_vars => IInv'
    BY NextKeeps
  <1> QED BY Initially, <1>1, PTL DEF Spec
-----------------------------------------------------------------------------
(* The matrix, the requests, the approval and the report keep their types. *)
THEOREM ConfirmationIsTyped == Spec => []TypeOK
  <1>1. IInv => TypeOK
    BY DEF IInv
  <1> QED BY <1>1, Invariance, PTL

(* No run starts without an approval the gate accepts.                     *)
THEOREM ApprovalIsNeeded == Spec => []NothingRunsUnapproved
  <1>1. IInv => NothingRunsUnapproved
    BY DEF IInv
  <1> QED BY <1>1, Invariance, PTL

(* The report is the verdict of the complete matrix on file.               *)
THEOREM ReportsAreCurrent == Spec => []ReportIsCurrent
  <1>1. IInv => ReportIsCurrent
    BY DEF IInv
  <1> QED BY <1>1, Invariance, PTL

(* Only a run that is next changes.                                        *)
LEMMA OnlyTheNextRunChanges ==
  ASSUME IInv, [Next]_vars
  PROVE  runs' = runs \/ \E run, r : IsNext(runs, run) /\ runs' = [runs EXCEPT ![run] = r]
  <1>1. CASE MarkRunning \/ MarkCompleted \/ MarkFailed
    BY <1>1 DEF MarkRunning, MarkCompleted, MarkFailed
  <1>2. CASE UNCHANGED vars \/ Approve \/ Launch \/ FileRequest \/ Die \/ Consume \/ Decide
    BY <1>2 DEF vars, Approve, Launch, FileRequest, Die, Consume, Decide
  <1> QED BY <1>1, <1>2 DEF Next, Work

(* A finished run is never executed again.                                 *)
THEOREM FinishedRunsAreKept == Spec => FinishedIsKept
  <1>1. IInv /\ [Next]_vars =>
          [\A run \in Runs : runs[run].status = "completed" => runs'[run] = runs[run]]_vars
    <2> SUFFICES ASSUME IInv, [Next]_vars, NEW run \in Runs, runs[run].status = "completed"
                 PROVE  runs'[run] = runs[run]
      OBVIOUS
    <2>1. CASE runs' = runs
      BY <2>1
    <2>2. ASSUME NEW other, NEW r, IsNext(runs, other), runs' = [runs EXCEPT ![other] = r]
          PROVE  runs'[run] = runs[run]
      BY <2>2, NextRunIsUnfinished DEF IInv, TypeOK
    <2> QED BY <2>1, <2>2, OnlyTheNextRunChanges
  <1> QED BY <1>1, Invariance, PTL DEF Spec, FinishedIsKept

(* An approval buys one matrix, whatever a restarted process knows of it.  *)
THEOREM ApprovalBuysOneMatrix == Spec => SpentBuysNothing
  <1>1. IInv /\ [Next]_vars =>
          [request = "consumed" \/ report # "none" => UNCHANGED runs]_vars
    <2> SUFFICES ASSUME IInv, [Next]_vars, request = "consumed" \/ report # "none"
                 PROVE  runs' = runs
      OBVIOUS
    <2>1. Complete(runs)
      BY DEF IInv, ReportIsCurrent
    <2> QED BY <2>1, OnlyTheNextRunChanges, NextRunIsUnfinished
  <1> QED BY <1>1, Invariance, PTL DEF Spec, SpentBuysNothing
-----------------------------------------------------------------------------
(* The interval of three pairs lies above zero only if no pair is below:   *)
(* twice the spread is at least the square of the gap that a pair at or    *)
(* below zero leaves to the sum.                                           *)
LEMMA SpreadOfAGap ==
  ASSUME NEW x \in Int, NEW y \in Int, NEW z \in Int, x <= 0, x + y + z > 0
  PROVE  Square(x + y + z) <= 2 * (Square(x - y) + Square(y - z) + Square(x - z))
  <1> DEFINE a == y - x
             b == z - x
             t == x + y + z
  <1>1. a \in Int /\ b \in Int /\ t \in Int /\ t > 0 /\ t <= a + b
    OBVIOUS
  <1>2. Square(x - y) = a * a /\ Square(x - z) = b * b /\ Square(y - z) = (a - b) * (a - b)
    BY DEF Square
  <1> HIDE DEF a, b, t
  <1>3. t * t <= (a + b) * (a + b)
    BY <1>1
  <1>4. (a - b) * (a - b) >= 0
    BY <1>1
  <1>5. 2 * (a * a + (a - b) * (a - b) + b * b) = (a + b) * (a + b) + 3 * ((a - b) * (a - b))
    BY <1>1
  <1>6. t * t <= 2 * (a * a + (a - b) * (a - b) + b * b)
    BY <1>1, <1>3, <1>4, <1>5
  <1>7. Square(t) = t * t
    BY DEF Square
  <1> QED BY <1>2, <1>6, <1>7 DEF t

LEMMA IntervalAboveZero ==
  ASSUME NEW d \in [Seeds -> Int], LowAboveZero(d), NEW s \in Seeds
  PROVE  d[s] > 0
  <1> DEFINE sq == Square(Sum(d))
             sp == Spread(d)
  <1>1. d[1] \in Int /\ d[2] \in Int /\ d[3] \in Int /\ s \in {1, 2, 3}
    BY DEF Seeds
  <1>2. Sum(d) > 0 /\ Sum(d) = d[1] + d[2] + d[3]
    BY DEF LowAboveZero, Sum
  <1>3. 2000000 * sq > 18515809 * sp
    BY DEF LowAboveZero, MeanBeyond
  <1>4. sq \in Int /\ sp \in Int /\ sq >= 0
    BY <1>1, <1>2 DEF Square, Spread
  <1>5. ASSUME d[s] <= 0 PROVE sq <= 2 * sp
    <2>1. CASE s = 1
      BY <1>1, <1>2, <1>5, <2>1, SpreadOfAGap DEF Spread
    <2>2. CASE s = 2
      <3>1. Square(d[2] + d[1] + d[3]) <= 2 * (Square(d[2] - d[1]) + Square(d[1] - d[3]) + Square(d[2] - d[3]))
        <4>1. d[2] <= 0 /\ d[2] + d[1] + d[3] > 0
          BY <1>1, <1>2, <1>5, <2>2
        <4> QED BY <1>1, <4>1, SpreadOfAGap
      <3>2. Square(d[2] - d[1]) = Square(d[1] - d[2]) /\ d[2] + d[1] + d[3] = d[1] + d[2] + d[3]
        BY <1>1 DEF Square
      <3>3. Square(d[1] - d[2]) \in Int /\ Square(d[1] - d[3]) \in Int /\ Square(d[2] - d[3]) \in Int
        BY <1>1 DEF Square
      <3> QED BY <1>2, <3>1, <3>2, <3>3 DEF Spread
    <2>3. CASE s = 3
      <3>1. Square(d[3] + d[1] + d[2]) <= 2 * (Square(d[3] - d[1]) + Square(d[1] - d[2]) + Square(d[3] - d[2]))
        <4>1. d[3] <= 0 /\ d[3] + d[1] + d[2] > 0
          BY <1>1, <1>2, <1>5, <2>3
        <4> QED BY <1>1, <4>1, SpreadOfAGap
      <3>2. /\ Square(d[3] - d[1]) = Square(d[1] - d[3]) /\ Square(d[3] - d[2]) = Square(d[2] - d[3])
            /\ d[3] + d[1] + d[2] = d[1] + d[2] + d[3]
        BY <1>1 DEF Square
      <3>3. Square(d[1] - d[2]) \in Int /\ Square(d[1] - d[3]) \in Int /\ Square(d[2] - d[3]) \in Int
        BY <1>1 DEF Square
      <3> QED BY <1>2, <3>1, <3>2, <3>3 DEF Spread
    <2> QED BY <1>1, <2>1, <2>2, <2>3
  <1> HIDE DEF sq, sp
  <1>6. ASSUME d[s] <= 0 PROVE FALSE
    BY <1>3, <1>4, <1>5, <1>6
  <1> QED BY <1>6

(* The same seen from below: with every delta negated the interval above   *)
(* zero is the one that was below.                                         *)
LEMMA IntervalBelowZero ==
  ASSUME NEW d \in [Seeds -> Int], HighBelowZero(d), NEW s \in Seeds
  PROVE  d[s] < 0
  <1> DEFINE e == [t \in Seeds |-> -d[t]]
  <1>1. d[1] \in Int /\ d[2] \in Int /\ d[3] \in Int /\ d[s] \in Int
    BY DEF Seeds
  <1>2. e \in [Seeds -> Int] /\ e[1] = -d[1] /\ e[2] = -d[2] /\ e[3] = -d[3] /\ e[s] = -d[s]
    BY DEF Seeds
  <1> HIDE DEF e
  <1>3. Sum(e) = -Sum(d) /\ Sum(d) < 0
    BY <1>1, <1>2 DEF Sum, HighBelowZero
  <1>4. Square(Sum(e)) = Square(Sum(d))
    BY <1>1, <1>3 DEF Square, Sum
  <1>5. Spread(e) = Spread(d)
    <2>1. \A x, y \in Int : Square((-x) - (-y)) = Square(x - y)
      BY DEF Square
    <2> QED BY <1>1, <1>2, <2>1 DEF Spread
  <1>6. LowAboveZero(e)
    <2>1. Sum(e) > 0
      BY <1>1, <1>3 DEF Sum
    <2>2. MeanBeyond(e)
      BY <1>4, <1>5 DEF HighBelowZero, MeanBeyond
    <2> QED BY <2>1, <2>2 DEF LowAboveZero
  <1>7. e[s] > 0
    BY <1>2, <1>6, IntervalAboveZero
  <1> QED BY <1>1, <1>2, <1>7

(* A confirmed candidate beats the baseline on every matched seed and by   *)
(* the target in the mean, whether the goal is to maximize or to minimize  *)
(* the metric, and keeps every capped metric recorded and below its cap.   *)
THEOREM ConfirmedBeatsBaseline == Spec => []ConfirmedWinsEverySeed
  <1>1. ASSUME IInv, report = "CONFIRMED"
        PROVE  /\ \A s \in Seeds : Gain(s) > 0
               /\ Gain(1) + Gain(2) + Gain(3) >= 3 * Target
    <2> DEFINE d == [t \in Seeds |-> Delta(runs, t)]
    <2>1. Verdict(runs) = "CONFIRMED" /\ Complete(runs)
      BY <1>1 DEF IInv, ReportIsCurrent
    <2>2. \A run \in Runs : runs[run].metrics.primary # Missing
      BY <2>1 DEF Verdict
    <2>3. \A run \in Runs : runs[run].metrics.primary \in Int
      BY <1>1, <2>2, MetricsAssumption DEF IInv, TypeOK, RunType, NoMetrics
    <2>4. \A t \in Seeds : <<"candidate", t>> \in Runs /\ <<"baseline", t>> \in Runs
      BY DEF Runs
    <2>5. d \in [Seeds -> Int]
      BY <2>3, <2>4 DEF Delta
    <2>6. /\ ~CiHighNotPositive(d) /\ CiLowPositive(d)
          /\ ~(MeanSum(d) < 3 * Target)
      BY <2>1 DEF Verdict
    <2>7. d[1] \in Int /\ d[2] \in Int /\ d[3] \in Int
          /\ d[1] = Delta(runs, 1) /\ d[2] = Delta(runs, 2) /\ d[3] = Delta(runs, 3)
      BY <2>5 DEF Seeds
    <2>8. \A s \in Seeds : d[s] = Delta(runs, s) /\ d[s] \in Int
      BY <2>5
    <2> HIDE DEF d
    <2>9. MeanSum(d) \in Int /\ Target \in Nat
      BY <2>7, NumbersAssumption DEF MeanSum, Sum
    <2>10. MeanSum(d) >= 3 * Target
      BY <2>6, <2>9
    <2>11. CASE Minimize
      <3>1. HighBelowZero(d)
        BY <2>6, <2>11 DEF CiHighNotPositive
      <3>2. \A s \in Seeds : Gain(s) = -d[s] /\ d[s] < 0
        BY <2>5, <2>8, <2>11, <3>1, IntervalBelowZero DEF Gain
      <3>3. \A s \in Seeds : Gain(s) > 0
        BY <2>8, <3>2
      <3>4. Gain(1) = -d[1] /\ Gain(2) = -d[2] /\ Gain(3) = -d[3]
        BY <3>2 DEF Seeds
      <3>5. MeanSum(d) = -(d[1] + d[2] + d[3])
        BY <2>11 DEF MeanSum, Sum
      <3> QED BY <2>7, <2>9, <2>10, <3>3, <3>4, <3>5
    <2>12. CASE ~Minimize
      <3>1. LowAboveZero(d)
        BY <2>6, <2>12 DEF CiLowPositive
      <3>2. \A s \in Seeds : Gain(s) = d[s] /\ d[s] > 0
        BY <2>5, <2>8, <2>12, <3>1, IntervalAboveZero DEF Gain
      <3>3. Gain(1) = d[1] /\ Gain(2) = d[2] /\ Gain(3) = d[3]
        BY <3>2 DEF Seeds
      <3>4. MeanSum(d) = d[1] + d[2] + d[3]
        BY <2>12 DEF MeanSum, Sum
      <3> QED BY <2>7, <2>9, <2>10, <3>2, <3>3, <3>4
    <2> QED BY <2>11, <2>12
  <1>2. ASSUME IInv, report = "CONFIRMED", NEW c \in Constraints
        PROVE  Recorded(runs, c) /\ ~Violated(runs, c)
    <2>1. Verdict(runs) = "CONFIRMED"
      BY <1>2 DEF IInv, ReportIsCurrent
    <2> QED BY <1>2, <2>1 DEF Verdict
  <1>3. IInv => ConfirmedWinsEverySeed
    BY <1>1, <1>2 DEF ConfirmedWinsEverySeed
  <1> QED BY <1>3, Invariance, PTL
=============================================================================
