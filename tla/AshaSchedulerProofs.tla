-------------------------- MODULE AshaSchedulerProofs --------------------------
(***************************************************************************)
(* What the operators of the ASHA scheduler preserve, one lemma each.      *)
(* AutoLoopProofs composes them into the invariants of the driver.         *)
(***************************************************************************)
EXTENDS AutoOptimizationLoop, WellFoundedInduction, SequenceTheorems, TLAPS

(* The list of a study's trials is complete, and so is that of its         *)
(* assignments, which are assignments of its trials.                       *)
Listed(s) ==
  /\ \A k \in Registered(s) : IndicesIn(s.order, {k}) # {}
  /\ \A a \in Assignments :
       s.asg[a].status # "none" => IndicesIn(s.alist, {a}) # {} /\ a[1] \in Registered(s)

Sound(s) == s \in Studies /\ Listed(s) /\ EarnedIn(s) /\ ExecutedIn(s)

(* The part of Sound that is about one trial.                              *)
Honest(r) == r \in TrialRecords /\ (r.status = "confirmed" => Earned(r))

-----------------------------------------------------------------------------
LEMMA LeastIndex ==
  ASSUME NEW T \in SUBSET Nat, T # {}
  PROVE  \E i \in T : \A j \in T : i =< j
  <1>1. PICK i \in T : \A j \in T : ~ (<<j, i>> \in OpToRel(<, Nat))
    BY WFMin, NatLessThanWellFounded, Zenon
  <1>2. ASSUME NEW j \in T PROVE i =< j
    <2>1. ~ (j < i)
      BY <1>1 DEF OpToRel
    <2> QED BY <2>1
  <1> QED BY <1>2

(* The first element of a list in a set it meets is in that set.           *)
LEMMA FirstInIsIn ==
  ASSUME NEW X, NEW list \in Seq(X), NEW S, IndicesIn(list, S) # {}
  PROVE  FirstIn(list, S) \in S \cap X
  <1>1. IndicesIn(list, S) \in SUBSET Nat
    BY LenProperties DEF IndicesIn
  <1>2. \E i \in IndicesIn(list, S) : \A j \in IndicesIn(list, S) : i =< j
    BY <1>1, LeastIndex
  <1> DEFINE first == CHOOSE i \in IndicesIn(list, S) :
                        \A j \in IndicesIn(list, S) : i =< j
  <1>3. first \in IndicesIn(list, S)
    BY <1>2
  <1>4. first \in 1..Len(list) /\ list[first] \in S
    BY <1>3, LenProperties DEF IndicesIn
  <1>5. list[first] \in X
    BY <1>4, ElementOfSeq
  <1> QED BY <1>4, <1>5 DEF FirstIn

(* Whatever a list meets already it meets after an Append, and it meets    *)
(* what was appended.                                                      *)
LEMMA AppendMeets ==
  ASSUME NEW X, NEW list \in Seq(X), NEW x \in X
  PROVE  /\ Append(list, x) \in Seq(X)
         /\ IndicesIn(Append(list, x), {x}) # {}
         /\ \A y : IndicesIn(list, {y}) # {} => IndicesIn(Append(list, x), {y}) # {}
  <1> DEFINE longer == Append(list, x)
  <1>1. longer \in Seq(X) /\ Len(longer) = Len(list) + 1 /\ longer[Len(list) + 1] = x
        /\ \A i \in 1..Len(list) : longer[i] = list[i]
    BY AppendProperties
  <1>2. DOMAIN longer = 1..Len(list) + 1 /\ DOMAIN list = 1..Len(list) /\ Len(list) \in Nat
    BY <1>1, LenProperties
  <1>3. Len(list) + 1 \in IndicesIn(longer, {x})
    BY <1>1, <1>2 DEF IndicesIn
  <1>4. ASSUME NEW y, NEW i \in IndicesIn(list, {y}) PROVE i \in IndicesIn(longer, {y})
    BY <1>1, <1>2, <1>4 DEF IndicesIn
  <1> QED BY <1>1, <1>3, <1>4

-----------------------------------------------------------------------------
(***************************************************************************)
(* Trials.                                                                 *)
(***************************************************************************)
LEMMA StageOfIsStage == \A slot : StageOf(slot) \in Stages
  BY DEF StageOf, Stages

LEMMA RestoredTrial ==
  ASSUME NEW r \in TrialRecords, NEW slot
  PROVE  Honest(Restored(r, slot)) /\ Restored(r, slot).status \in Runnable \ {"running"}
  <1>1. RestoredStatus(slot) \in Runnable \ {"running"}
    BY DEF RestoredStatus, Runnable
  <1>2. Restored(r, slot) \in TrialRecords /\ Restored(r, slot).status = RestoredStatus(slot)
    BY <1>1, StageOfIsStage DEF Restored, TrialRecords, TrialStatuses
  <1> QED BY <1>1, <1>2 DEF Honest, Runnable

LEMMA EliminatedTrial ==
  ASSUME NEW r \in TrialRecords
  PROVE  Honest(Eliminated(r)) /\ Eliminated(r).status = "eliminated"
  BY DEF Eliminated, Honest, TrialRecords, TrialStatuses, Terminal

LEMMA FinishedPilot10 ==
  ASSUME NEW r \in TrialRecords, NEW o
  PROVE  Honest(FinishPilot10(r, o)) /\ FinishPilot10(r, o).status \notin {"running", "absent"}
  <1> DEFINE promoted == [r EXCEPT !.status = "full_pending_confirmation",
                                   !.pending = "candidate_full_seed_1"]
  <1>1. promoted \in TrialRecords /\ promoted.status = "full_pending_confirmation"
    BY DEF TrialRecords, TrialStatuses, Runnable, Stages
  <1> QED BY <1>1, EliminatedTrial DEF FinishPilot10, Honest

LEMMA FinishedFullSeed1 ==
  ASSUME NEW r \in TrialRecords, NEW o
  PROVE  Honest(FinishFullSeed1(r, o)) /\ FinishFullSeed1(r, o).status \notin {"running", "absent"}
  <1> DEFINE promoted == [r EXCEPT !.status = "confirmation_pending",
                                   !.pending = "candidate_full_confirmation"]
  <1>1. promoted \in TrialRecords /\ promoted.status = "confirmation_pending"
    BY DEF TrialRecords, TrialStatuses, Runnable, Stages
  <1> QED BY <1>1, EliminatedTrial DEF FinishFullSeed1, Honest

(* The only operator that confirms, and only what has earned it.           *)
LEMMA FinishedConfirmation ==
  ASSUME NEW r \in TrialRecords
  PROVE  Honest(FinishConfirmation(r)) /\ FinishConfirmation(r).status \notin {"running", "absent"}
  <1> DEFINE waiting == [r EXCEPT !.status = "confirmation_pending",
                                  !.pending = "candidate_full_confirmation"]
             confirmed == [r EXCEPT !.status = "confirmed", !.pending = NoStage]
  <1>1. waiting \in TrialRecords /\ waiting.status = "confirmation_pending"
    BY DEF TrialRecords, TrialStatuses, Runnable, Stages
  <1>2. /\ confirmed \in TrialRecords /\ confirmed.status = "confirmed"
        /\ confirmed.obs = r.obs
    BY DEF TrialRecords, TrialStatuses, Terminal, NoStage
  <1>3. CASE FinishConfirmation(r) = waiting
    BY <1>1, <1>3 DEF Honest
  <1>4. CASE FinishConfirmation(r) = Eliminated(r)
    BY <1>4, EliminatedTrial
  <1>5. CASE /\ FinishConfirmation(r) = confirmed
             /\ \A slot \in FullSlots : r.obs[slot].delta > 0 /\ r.obs[slot].gate = "pass"
             /\ IntervalPositive([slot \in FullSlots |-> r.obs[slot].delta])
    BY <1>2, <1>5 DEF Honest, Earned, Positive
  <1> QED BY <1>3, <1>4, <1>5 DEF FinishConfirmation

LEMMA Ruled ==
  ASSUME NEW r \in TrialRecords, NEW slot \in Slots, NEW o \in Observations
  PROVE  Honest(Ruling(r, slot, o)) /\ Ruling(r, slot, o).status \notin {"running", "absent"}
  <1> DEFINE failed == [r EXCEPT !.status = "failed", !.pending = NoStage,
                                 !.adapter = (o.cause = "adapter")]
             partial == [r EXCEPT !.status = "needs_evidence", !.pending = StageOf(slot)]
             ranked == [r EXCEPT !.status = "waiting", !.pending = NoStage]
  <1>1. Honest(failed) /\ failed.status = "failed"
    BY DEF Honest, TrialRecords, TrialStatuses, Terminal, NoStage
  <1>2. Honest(partial) /\ partial.status = "needs_evidence"
    BY StageOfIsStage DEF Honest, TrialRecords, TrialStatuses
  <1>3. Honest(ranked) /\ ranked.status = "waiting"
    BY DEF Honest, TrialRecords, TrialStatuses, Runnable, NoStage
  <1> QED BY <1>1, <1>2, <1>3, FinishedPilot10, FinishedFullSeed1, FinishedConfirmation
          DEF Ruling

LEMMA Imported ==
  ASSUME NEW r \in TrialRecords, NEW slot \in Slots, NEW o \in Observations
  PROVE  Honest(Import(r, slot, o)) /\ Import(r, slot, o).status \notin {"running", "absent"}
  <1>1. [r EXCEPT !.obs[slot] = o] \in TrialRecords
    BY DEF TrialRecords
  <1> QED BY <1>1, Ruled DEF Import

-----------------------------------------------------------------------------
(***************************************************************************)
(* Studies.  Most operators rewrite trials and assignments in place: what  *)
(* is left to show of them is that a trial they touch is registered, stays *)
(* honest and no longer runs, and that they touch the assignments of such  *)
(* trials only.                                                            *)
(***************************************************************************)
LEMMA RewrittenInPlace ==
  ASSUME NEW s, Sound(s), NEW q \in Studies,
         q.order = s.order, q.alist = s.alist,
         \A k \in Keys : \/ q.trial[k] = s.trial[k]
                         \/ /\ k \in Registered(s)
                            /\ Honest(q.trial[k])
                            /\ q.trial[k].status \notin {"running", "absent"},
         \A a \in Assignments : \/ q.asg[a] = s.asg[a]
                                \/ /\ s.asg[a].status # "none"
                                   /\ q.trial[a[1]].status # "running"
  PROVE  Sound(q)
  <1>1. Registered(q) = Registered(s)
    BY DEF Registered
  <1>2. Listed(q)
    BY <1>1 DEF Sound, Listed
  <1>3. EarnedIn(q)
    BY DEF Sound, EarnedIn, Honest
  <1>4. ASSUME NEW k \in Keys, q.trial[k].status = "running"
        PROVE  \E slot \in Slots : /\ StageOf(slot) = q.trial[k].pending
                                   /\ q.asg[<<k, slot>>] = [status |-> "running", bound |-> TRUE]
    <2>1. q.trial[k] = s.trial[k]
      BY <1>4
    <2>2. PICK slot \in Slots : /\ StageOf(slot) = s.trial[k].pending
                               /\ s.asg[<<k, slot>>] = [status |-> "running", bound |-> TRUE]
      BY <1>4, <2>1 DEF Sound, ExecutedIn
    <2>3. q.asg[<<k, slot>>] = s.asg[<<k, slot>>]
      BY <1>4 DEF Assignments
    <2> QED BY <2>1, <2>2, <2>3
  <1> QED BY <1>2, <1>3, <1>4 DEF Sound, ExecutedIn

LEMMA SoundTrial ==
  ASSUME NEW s, Sound(s), NEW k \in Keys
  PROVE  s.trial[k] \in TrialRecords /\ Honest(s.trial[k])
  BY DEF Sound, Studies, EarnedIn, Honest

LEMMA EmptyIsSound == Sound(EmptyStudy)
  <1>1. NoTrial \in TrialRecords
    BY DEF NoTrial, TrialRecords, TrialStatuses, NoStage, NoObs, Observations, ObsKinds,
           Causes, Gates
  <1>2. EmptyStudy \in Studies
    BY <1>1, EmptySeq DEF EmptyStudy, Studies, NoRecord, AssignmentRecords, AssignmentStatuses
  <1>3. \A k \in Keys : EmptyStudy.trial[k].status = "absent"
    BY DEF EmptyStudy, NoTrial
  <1>4. \A a \in Assignments : EmptyStudy.asg[a].status = "none"
    BY DEF EmptyStudy, NoRecord, Assignments
  <1> QED BY <1>2, <1>3, <1>4 DEF Sound, Listed, EarnedIn, ExecutedIn, Registered

LEMMA QuarantineIsSound ==
  ASSUME NEW s, Sound(s)
  PROVE  Sound(Quarantine(s)) /\ Quarantine(s).asg = s.asg
  <1> DEFINE blocked(r) == [r EXCEPT !.status = "needs_evidence", !.pending = NoStage,
                                     !.ready = "pre_registered", !.adapter = FALSE]
             q == Quarantine(s)
  <1>1. ASSUME NEW r \in TrialRecords
        PROVE  Honest(blocked(r)) /\ blocked(r).status = "needs_evidence"
    BY DEF Honest, TrialRecords, TrialStatuses, NoStage
  <1>2. q.order = s.order /\ q.alist = s.alist /\ q.asg = s.asg
        /\ \A k \in Keys : q.trial[k] =
             IF IsPaper(k) /\ ~s.trial[k].src /\ s.trial[k].status \in Runnable
             THEN blocked(s.trial[k]) ELSE s.trial[k]
    BY DEF Quarantine, Sound, Studies
  <1>3. \A k \in Keys : q.trial[k] \in TrialRecords
    BY <1>1, <1>2, SoundTrial DEF Honest
  <1>4. q \in Studies
    BY <1>2, <1>3 DEF Quarantine, Sound, Studies
  <1>5. ASSUME NEW k \in Keys, q.trial[k] # s.trial[k]
        PROVE  k \in Registered(s) /\ Honest(q.trial[k]) /\ q.trial[k].status = "needs_evidence"
    <2>1. s.trial[k].status \in Runnable /\ q.trial[k] = blocked(s.trial[k])
      BY <1>2, <1>5
    <2> QED BY <1>1, <2>1, SoundTrial DEF Registered, Runnable
  <1> QED BY <1>2, <1>4, <1>5, RewrittenInPlace

LEMMA FailMatchedControlIsSound ==
  ASSUME NEW s, Sound(s), NEW protocol
  PROVE  Sound(FailMatchedControl(s, protocol)) /\ FailMatchedControl(s, protocol).asg = s.asg
  <1> DEFINE blocked(r) == [r EXCEPT !.status = "needs_evidence", !.pending = NoStage,
                                     !.adapter = FALSE]
             q == FailMatchedControl(s, protocol)
  <1>1. ASSUME NEW r \in TrialRecords
        PROVE  Honest(blocked(r)) /\ blocked(r).status = "needs_evidence"
    BY DEF Honest, TrialRecords, TrialStatuses, NoStage
  <1>2. q.order = s.order /\ q.alist = s.alist /\ q.asg = s.asg
        /\ \A k \in Keys : q.trial[k] =
             IF s.trial[k].status # "absent" /\ s.trial[k].plan = protocol
             THEN blocked(s.trial[k]) ELSE s.trial[k]
    BY DEF FailMatchedControl, Sound, Studies
  <1>3. \A k \in Keys : q.trial[k] \in TrialRecords
    BY <1>1, <1>2, SoundTrial DEF Honest
  <1>4. q \in Studies
    BY <1>2, <1>3 DEF FailMatchedControl, Sound, Studies
  <1>5. ASSUME NEW k \in Keys, q.trial[k] # s.trial[k]
        PROVE  k \in Registered(s) /\ Honest(q.trial[k]) /\ q.trial[k].status = "needs_evidence"
    <2>1. s.trial[k].status # "absent" /\ q.trial[k] = blocked(s.trial[k])
      BY <1>2, <1>5
    <2> QED BY <1>1, <2>1, SoundTrial DEF Registered
  <1> QED BY <1>2, <1>4, <1>5, RewrittenInPlace

(* A trial the re-ranking of its cohort promotes, and what becomes of it.  *)
Promotable(s, k) ==
  /\ s.trial[k].status = "waiting"
  /\ s.trial[k].obs["pilot_10"].kind = "none"
  /\ IsPilotWinner(s, k)
Promoted(r) == [r EXCEPT !.status = "promotion_pending", !.pending = "pilot_10"]

LEMMA RefreshedTrial ==
  ASSUME NEW s, Sound(s), NEW k \in Keys
  PROVE  RefreshPilot3Promotions(s).trial[k] =
           IF k \in PilotRejected(s, Cohort(s, k)) THEN Eliminated(s.trial[k])
           ELSE IF Promotable(s, k) THEN Promoted(s.trial[k])
           ELSE s.trial[k]
  <1> DEFINE q == RefreshPilot3Promotions(s)
             rejected == k \in PilotRejected(s, Cohort(s, k))
  <1>1. q.trial[k] =
          CASE rejected -> Eliminated(s.trial[k])
            [] Promotable(s, k) -> Promoted(s.trial[k])
            [] OTHER -> s.trial[k]
    BY DEF RefreshPilot3Promotions, Sound, Studies, Promotable, Promoted
  <1>2. ~(rejected /\ Promotable(s, k))
    BY DEF Promotable, IsPilotWinner, PilotEligible
  <1> HIDE DEF q, rejected
  <1>3. q.trial[k] = IF rejected THEN Eliminated(s.trial[k])
                     ELSE IF Promotable(s, k) THEN Promoted(s.trial[k])
                     ELSE s.trial[k]
    <2>1. CASE rejected
      BY <1>1, <1>2, <2>1
    <2>2. CASE ~rejected
      BY <1>1, <2>2
    <2> QED BY <2>1, <2>2
  <1> QED BY <1>3 DEF q, rejected

LEMMA RefreshIsSound ==
  ASSUME NEW s, Sound(s)
  PROVE  Sound(RefreshPilot3Promotions(s)) /\ RefreshPilot3Promotions(s).asg = s.asg
  <1> DEFINE q == RefreshPilot3Promotions(s)
  <1>1. ASSUME NEW r \in TrialRecords
        PROVE  Honest(Promoted(r)) /\ Promoted(r).status = "promotion_pending"
    BY DEF Promoted, Honest, TrialRecords, TrialStatuses, Runnable, Stages
  <1>2. q.order = s.order /\ q.alist = s.alist /\ q.asg = s.asg
    BY DEF RefreshPilot3Promotions, Sound, Studies
  <1>3. ASSUME NEW k \in Keys
        PROVE  \/ q.trial[k] = s.trial[k]
               \/ k \in PilotRejected(s, Cohort(s, k)) /\ q.trial[k] = Eliminated(s.trial[k])
               \/ s.trial[k].status = "waiting" /\ q.trial[k] = Promoted(s.trial[k])
    BY RefreshedTrial DEF Promotable
  <1>4. \A k \in Keys : k \in PilotRejected(s, Cohort(s, k)) => k \in Registered(s)
    BY DEF PilotRejected, PilotCompleted, Cohort
  <1>5. ASSUME NEW k \in Keys PROVE q.trial[k] \in TrialRecords
    <2>1. s.trial[k] \in TrialRecords
      BY SoundTrial
    <2>2. Eliminated(s.trial[k]) \in TrialRecords /\ Promoted(s.trial[k]) \in TrialRecords
      BY <1>1, <2>1, EliminatedTrial DEF Honest
    <2> QED BY <1>3, <2>1, <2>2
  <1>6. q \in Studies
    BY <1>2, <1>5 DEF RefreshPilot3Promotions, Sound, Studies
  <1>7. ASSUME NEW k \in Keys, q.trial[k] # s.trial[k]
        PROVE  /\ k \in Registered(s) /\ Honest(q.trial[k])
               /\ q.trial[k].status \in {"eliminated", "promotion_pending"}
    <2> HIDE DEF q
    <2>1. CASE k \in PilotRejected(s, Cohort(s, k)) /\ q.trial[k] = Eliminated(s.trial[k])
      BY <1>4, <2>1, SoundTrial, EliminatedTrial
    <2>2. CASE s.trial[k].status = "waiting" /\ q.trial[k] = Promoted(s.trial[k])
      BY <1>1, <2>2, SoundTrial DEF Registered
    <2> QED BY <1>3, <1>7, <2>1, <2>2
  <1> QED BY <1>2, <1>6, <1>7, RewrittenInPlace

(* A report is about an assignment that was handed out.  First the         *)
(* observation is filed and the assignment closed.                         *)
Filed(s, k, slot, o) ==
  [s EXCEPT !.trial[k] = Import(@, slot, o), !.asg[<<k, slot>>] = Closed(@, o)]

LEMMA FiledIsSound ==
  ASSUME NEW s, Sound(s), NEW k \in Keys, NEW slot \in Slots, NEW o \in Observations,
         s.asg[<<k, slot>>].status # "none"
  PROVE  LET q == Filed(s, k, slot, o) IN
         /\ Sound(q) /\ k \in Registered(s)
         /\ q.order = s.order
         /\ q.trial[k] = Import(s.trial[k], slot, o)
         /\ \A m \in Keys \ {k} : q.trial[m] = s.trial[m]
         /\ \A a \in Assignments \ {<<k, slot>>} : q.asg[a] = s.asg[a]
         /\ q.asg[<<k, slot>>].status = IF o.kind = "failed" THEN "failed" ELSE "completed"
  <1> DEFINE q == Filed(s, k, slot, o)
  <1>1. /\ Honest(Import(s.trial[k], slot, o))
        /\ Import(s.trial[k], slot, o).status \notin {"running", "absent"}
    BY SoundTrial, Imported
  <1>2. /\ Closed(s.asg[<<k, slot>>], o) \in AssignmentRecords
        /\ Closed(s.asg[<<k, slot>>], o).status = IF o.kind = "failed" THEN "failed" ELSE "completed"
    <2>1. s.asg[<<k, slot>>] \in AssignmentRecords
      BY DEF Sound, Studies
    <2>2. \A rec \in AssignmentRecords, status \in AssignmentStatuses :
            /\ [rec EXCEPT !.status = status] \in AssignmentRecords
            /\ [rec EXCEPT !.status = status].status = status
      BY DEF AssignmentRecords
    <2> QED BY <2>1, <2>2 DEF Closed, AssignmentStatuses
  <1>3. q \in Studies
    BY <1>1, <1>2 DEF Filed, Sound, Studies, Honest
  <1>4. /\ q.order = s.order /\ q.alist = s.alist
        /\ q.trial[k] = Import(s.trial[k], slot, o)
        /\ \A m \in Keys \ {k} : q.trial[m] = s.trial[m]
        /\ q.asg[<<k, slot>>] = Closed(s.asg[<<k, slot>>], o)
        /\ \A a \in Assignments \ {<<k, slot>>} : q.asg[a] = s.asg[a]
    BY DEF Filed, Sound, Studies, Assignments
  <1>5. k \in Registered(s)
    <2>1. <<k, slot>> \in Assignments /\ <<k, slot>>[1] = k
      BY DEF Assignments
    <2> QED BY <2>1 DEF Sound, Listed
  <1> HIDE DEF q
  <1>6. Sound(q)
    BY <1>1, <1>3, <1>4, <1>5, RewrittenInPlace
  <1> QED BY <1>2, <1>4, <1>5, <1>6 DEF q

LEMMA ReportIsSound ==
  ASSUME NEW s, Sound(s), NEW k \in Keys, NEW slot \in Slots, NEW o \in Observations,
         s.asg[<<k, slot>>].status # "none"
  PROVE  /\ Sound(Report(s, k, slot, o))
         /\ \A a \in Assignments : \/ Report(s, k, slot, o).asg[a] = s.asg[a]
                                  \/ a = <<k, slot>>
         /\ Report(s, k, slot, o).asg[<<k, slot>>].status =
              IF o.kind = "failed" THEN "failed" ELSE "completed"
  <1> DEFINE q == Filed(s, k, slot, o)
  <1>1. /\ Sound(q)
        /\ \A a \in Assignments \ {<<k, slot>>} : q.asg[a] = s.asg[a]
        /\ q.asg[<<k, slot>>].status = IF o.kind = "failed" THEN "failed" ELSE "completed"
    BY FiledIsSound
  <1>2. Report(s, k, slot, o) \in {q, RefreshPilot3Promotions(q)}
    BY DEF Report, Filed
  <1> HIDE DEF q
  <1>3. Sound(RefreshPilot3Promotions(q)) /\ RefreshPilot3Promotions(q).asg = q.asg
    BY <1>1, RefreshIsSound
  <1> QED BY <1>1, <1>2, <1>3

-----------------------------------------------------------------------------
(***************************************************************************)
(* Registration.                                                           *)
(***************************************************************************)
LEMMA RegisteredIsListed ==
  ASSUME NEW s, Sound(s), NEW T \in SUBSET Registered(s), T # {}
  PROVE  FirstIn(s.order, T) \in T
  <1>1. PICK k \in T : TRUE
    OBVIOUS
  <1>2. IndicesIn(s.order, {k}) # {}
    BY <1>1 DEF Sound, Listed
  <1>3. IndicesIn(s.order, T) # {}
    BY <1>1, <1>2 DEF IndicesIn
  <1>4. s.order \in Seq(Keys)
    BY DEF Sound, Studies
  <1> QED BY <1>3, <1>4, FirstInIsIn

LEMMA BreakerIsSound ==
  ASSUME NEW s, Sound(s), NEW k \in Keys
  PROVE  Sound(Breaker(s, k)) /\ Breaker(s, k).asg = s.asg
  <1> DEFINE opened == [s EXCEPT !.trial[k].status = "failed", !.trial[k].pending = NoStage,
                                 !.trial[k].adapter = TRUE]
             r == [s.trial[k] EXCEPT !.status = "failed", !.pending = NoStage, !.adapter = TRUE]
  <1>1. CASE s.trial[k].status = "waiting"
    <2>1. Honest(r) /\ r.status = "failed"
      <3>1. s.trial[k] \in TrialRecords
        BY SoundTrial
      <3> QED BY <3>1 DEF Honest, TrialRecords, TrialStatuses, Terminal, NoStage
    <2>2. /\ opened.order = s.order /\ opened.alist = s.alist /\ opened.asg = s.asg
          /\ opened.trial[k] = r
          /\ \A m \in Keys \ {k} : opened.trial[m] = s.trial[m]
          /\ DOMAIN opened.trial = Keys
      BY DEF Sound, Studies
    <2>3. opened \in Studies
      <3>1. opened = [s EXCEPT !.trial = [s.trial EXCEPT ![k] = r]]
        BY DEF Sound, Studies, TrialRecords
      <3>2. [s.trial EXCEPT ![k] = r] \in [Keys -> TrialRecords]
        BY <2>1 DEF Sound, Studies, Honest
      <3> HIDE DEF opened, r
      <3> QED BY <3>1, <3>2 DEF Sound, Studies
    <2>4. k \in Registered(s)
      BY <1>1 DEF Registered
    <2>5. Sound(opened)
      <3> HIDE DEF opened, r
      <3> QED BY <2>1, <2>2, <2>3, <2>4, RewrittenInPlace
    <2> QED BY <2>2, <2>5 DEF Breaker
  <1> QED BY <1>1 DEF Breaker

LEMMA AddTrialIsSound ==
  ASSUME NEW s, Sound(s), NEW k \in Keys, s.trial[k].status = "absent",
         NEW r \in TrialRecords, r.status \notin {"absent", "running", "confirmed"}
  PROVE  Sound(AddTrial(s, k, r)) /\ AddTrial(s, k, r).asg = s.asg
  <1> DEFINE q == AddTrial(s, k, r)
  <1>1. s.order \in Seq(Keys)
    BY DEF Sound, Studies
  <1>2. q.order = Append(s.order, k) /\ q.alist = s.alist /\ q.asg = s.asg
        /\ q.trial[k] = r /\ (\A m \in Keys \ {k} : q.trial[m] = s.trial[m])
    BY DEF AddTrial, Sound, Studies
  <1>3. q \in Studies
    BY <1>1, AppendMeets DEF AddTrial, Sound, Studies
  <1>4. Registered(q) = Registered(s) \cup {k}
    BY <1>2 DEF Registered
  <1>5. \A m \in Registered(q) : IndicesIn(q.order, {m}) # {}
    BY <1>1, <1>2, <1>4, AppendMeets DEF Sound, Listed
  <1>6. Listed(q)
    BY <1>2, <1>4, <1>5 DEF Listed, Sound
  <1>7. EarnedIn(q)
    BY <1>2 DEF Sound, EarnedIn
  <1>8. ExecutedIn(q)
    BY <1>2 DEF Sound, ExecutedIn
  <1> QED BY <1>2, <1>3, <1>6, <1>7, <1>8 DEF Sound

LEMMA NewTrialIsTrial ==
  ASSUME NEW i \in Ids, NEW f \in Fps,
         NEW ready \in {"none", "pre_registered", "asha_eligible"},
         NEW status \in TrialStatuses, NEW pending \in Stages \cup {NoStage},
         NEW src \in BOOLEAN, NEW protocol \in {ProtocolOf[j] : j \in Ids} \cup {NoPlan}
  PROVE  /\ NewTrial(i, f, ready, status, pending, src, protocol) \in TrialRecords
         /\ NewTrial(i, f, ready, status, pending, src, protocol).status = status
  <1>1. NoTrial \in TrialRecords
    BY DEF NoTrial, TrialRecords, TrialStatuses, NoStage, NoObs, Observations, ObsKinds,
           Causes, Gates
  <1> QED BY <1>1 DEF NewTrial, TrialRecords

LEMMA RegisterTargetIsKey ==
  ASSUME NEW s, Sound(s), NEW i \in Ids, NEW f \in Fps
  PROVE  RegisterTarget(s, i, f) \in Keys
  <1>1. RegisterKey(s, i, f) \in Keys
    BY DEF RegisterKey, Keys
  <1>2. WithFingerprint(s, f) \in SUBSET Registered(s) /\ Registered(s) \subseteq Keys
    BY DEF WithFingerprint, Registered
  <1>3. WithFingerprint(s, f) # {} => FirstIn(s.order, WithFingerprint(s, f)) \in Keys
    BY <1>2, RegisteredIsListed
  <1> QED BY <1>1, <1>3 DEF RegisterTarget

LEMMA PreRegisterTargetIsKey ==
  ASSUME NEW s, Sound(s), NEW i \in Ids, NEW f \in Fps
  PROVE  PreRegisterTarget(s, i, f) \in Keys
  <1>1. <<i, Base>> \in Keys
    BY DEF Keys
  <1>2. WithFingerprint(s, f) \in SUBSET Registered(s) /\ Registered(s) \subseteq Keys
    BY DEF WithFingerprint, Registered
  <1>3. WithFingerprint(s, f) # {} => FirstIn(s.order, WithFingerprint(s, f)) \in Keys
    BY <1>2, RegisteredIsListed
  <1> QED BY <1>1, <1>3 DEF PreRegisterTarget

(* A registered trial is rewritten to r.                                   *)
LEMMA OneRewritten ==
  ASSUME NEW s, Sound(s), NEW k \in Registered(s), NEW r,
         \/ r = s.trial[k]
         \/ Honest(r) /\ r.status \notin {"absent", "running"}
         \/ /\ r \in TrialRecords /\ r.status = s.trial[k].status
            /\ r.pending = s.trial[k].pending /\ r.obs = s.trial[k].obs
  PROVE  Sound([s EXCEPT !.trial[k] = r]) /\ [s EXCEPT !.trial[k] = r].asg = s.asg
  <1> DEFINE q == [s EXCEPT !.trial[k] = r]
  <1>1. k \in Keys
    BY DEF Registered
  <1>2. /\ q.order = s.order /\ q.alist = s.alist /\ q.asg = s.asg
        /\ q.trial[k] = r
        /\ \A m \in Keys \ {k} : q.trial[m] = s.trial[m]
    BY <1>1 DEF Sound, Studies
  <1>3. q \in Studies
    <2>1. r \in TrialRecords
      BY <1>1, SoundTrial DEF Honest
    <2> QED BY <1>1, <2>1 DEF Sound, Studies
  <1>4. Sound(q)
    <2> HIDE DEF q
    <2>1. CASE r = s.trial[k] \/ (Honest(r) /\ r.status \notin {"absent", "running"})
      BY <1>1, <1>2, <1>3, <2>1, RewrittenInPlace
    <2>2. CASE /\ r \in TrialRecords /\ r.status = s.trial[k].status
               /\ r.pending = s.trial[k].pending /\ r.obs = s.trial[k].obs
      <3>1. Listed(q)
        BY <1>2, <2>2 DEF Sound, Listed, Registered
      <3>2. EarnedIn(q)
        BY <1>2, <2>2 DEF Sound, EarnedIn, Earned
      <3>3. ExecutedIn(q)
        BY <1>2, <2>2 DEF Sound, ExecutedIn
      <3> QED BY <1>3, <3>1, <3>2, <3>3 DEF Sound
    <2> QED BY <2>1, <2>2
  <1> QED BY <1>2, <1>4

LEMMA ActivatedTrial ==
  ASSUME NEW r \in TrialRecords, NEW i \in Ids
  PROVE  Honest(Activate(r, ProtocolOf[i])) /\ Activate(r, ProtocolOf[i]).status = "waiting"
  BY DEF Activate, Honest, TrialRecords, TrialStatuses, Runnable, Stages

LEMMA PlannedTrial ==
  ASSUME NEW r \in TrialRecords, NEW i \in Ids
  PROVE  LET p == AttachPlan(r, ProtocolOf[i]) IN
         /\ p \in TrialRecords
         /\ p.status = r.status /\ p.pending = r.pending /\ p.obs = r.obs
  BY DEF AttachPlan, TrialRecords

LEMMA RegisterIsSound ==
  ASSUME NEW s, Sound(s), NEW i \in Ids, NEW f \in Fps
  PROVE  Sound(Register(s, i, f)) /\ Register(s, i, f).asg = s.asg
  <1> DEFINE k == RegisterTarget(s, i, f)
             r == s.trial[k]
             ready == IF i \in Paper THEN "asha_eligible" ELSE "none"
             new == NewTrial(i, f, ready, "waiting", "pilot_3", TRUE, ProtocolOf[i])
             old == IF r.ready = "pre_registered"
                    THEN Activate(IF k = RegisterKey(s, i, f) THEN RefreshSource(r, f) ELSE r,
                                  ProtocolOf[i])
                    ELSE AttachPlan(r, ProtocolOf[i])
             q == IF r.status = "absent" THEN AddTrial(s, k, new) ELSE [s EXCEPT !.trial[k] = old]
  <1>1. k \in Keys /\ r \in TrialRecords
    BY RegisterTargetIsKey, SoundTrial
  <1>2. Sound(q) /\ q.asg = s.asg
    <2>1. CASE r.status = "absent"
      <3>1. new \in TrialRecords /\ new.status = "waiting"
        <4>1. "waiting" \in TrialStatuses /\ "pilot_3" \in Stages \cup {NoStage}
          BY DEF TrialStatuses, Runnable, Stages
        <4>2. ready \in {"none", "pre_registered", "asha_eligible"}
          OBVIOUS
        <4>3. ProtocolOf[i] \in {ProtocolOf[j] : j \in Ids} \cup {NoPlan}
          OBVIOUS
        <4> HIDE DEF ready
        <4>4. \A src \in BOOLEAN :
                LET n == NewTrial(i, f, ready, "waiting", "pilot_3", src, ProtocolOf[i])
                IN  n \in TrialRecords /\ n.status = "waiting"
          BY <4>1, <4>2, <4>3, NewTrialIsTrial
        <4> QED BY <4>4
      <3> HIDE DEF k, new
      <3> QED BY <1>1, <2>1, <3>1, AddTrialIsSound
    <2>2. CASE r.status # "absent"
      <3>1. k \in Registered(s)
        BY <1>1, <2>2 DEF Registered
      <3>2. RefreshSource(r, f) \in TrialRecords
        <4> HIDE DEF k, r
        <4> QED BY <1>1 DEF RefreshSource, TrialRecords
      <3>3. CASE r.ready = "pre_registered"
        <4>1. Honest(old) /\ old.status = "waiting"
          <5> HIDE DEF k, r
          <5> QED BY <1>1, <3>2, <3>3, ActivatedTrial
        <4> HIDE DEF k, old
        <4> QED BY <2>2, <3>1, <4>1, OneRewritten
      <3>4. CASE r.ready # "pre_registered"
        <4>1. /\ old \in TrialRecords
              /\ old.status = r.status /\ old.pending = r.pending /\ old.obs = r.obs
          <5> HIDE DEF k, r
          <5> QED BY <1>1, <3>4, PlannedTrial
        <4> HIDE DEF k, old
        <4> QED BY <2>2, <3>1, <4>1, OneRewritten
      <3> QED BY <3>3, <3>4
    <2> QED BY <2>1, <2>2
  <1>3. Register(s, i, f) = Breaker(q, k)
    BY DEF Register
  <1> HIDE DEF q, k
  <1> QED BY <1>1, <1>2, <1>3, BreakerIsSound

LEMMA PreRegisterIsSound ==
  ASSUME NEW s, Sound(s), NEW i \in Ids, NEW f \in Fps, NEW src \in BOOLEAN
  PROVE  Sound(PreRegister(s, i, f, src)) /\ PreRegister(s, i, f, src).asg = s.asg
  <1> DEFINE k == PreRegisterTarget(s, i, f)
             r == s.trial[k]
             new == NewTrial(i, f, "pre_registered", "needs_evidence", NoStage, src, NoPlan)
             blocked == [r EXCEPT !.ready = "pre_registered", !.status = "needs_evidence",
                                  !.pending = NoStage, !.adapter = FALSE]
  <1>1. k \in Keys /\ r \in TrialRecords
    BY PreRegisterTargetIsKey, SoundTrial
  <1>2. CASE r.status = "absent"
    <2>1. new \in TrialRecords /\ new.status = "needs_evidence"
      <3>1. "needs_evidence" \in TrialStatuses
        BY DEF TrialStatuses
      <3> QED BY <3>1, NewTrialIsTrial
    <2>2. PreRegister(s, i, f, src) = AddTrial(s, k, new)
      BY <1>2 DEF PreRegister
    <2> HIDE DEF k, new
    <2> QED BY <1>1, <1>2, <2>1, <2>2, AddTrialIsSound
  <1>3. CASE r.status # "absent" /\ r.ready # "asha_eligible"
    <2>1. Honest(blocked) /\ blocked.status = "needs_evidence"
      <3> HIDE DEF k, r
      <3> QED BY <1>1 DEF Honest, TrialRecords, TrialStatuses, NoStage
    <2>2. PreRegister(s, i, f, src) = [s EXCEPT !.trial[k] = blocked]
      BY <1>3 DEF PreRegister
    <2>3. k \in Registered(s)
      BY <1>1, <1>3 DEF Registered
    <2> HIDE DEF k, blocked
    <2> QED BY <2>1, <2>2, <2>3, OneRewritten
  <1>4. CASE r.status # "absent" /\ r.ready = "asha_eligible"
    BY <1>4 DEF PreRegister
  <1> QED BY <1>2, <1>3, <1>4

-----------------------------------------------------------------------------
(***************************************************************************)
(* Allocation.                                                             *)
(***************************************************************************)
LEMMA DeferNativeIsSound ==
  ASSUME NEW s, Sound(s)
  PROVE  /\ Sound(DeferNative(s))
         /\ \A a \in Assignments : \/ DeferNative(s).asg[a] = s.asg[a]
                                  \/ /\ s.asg[a].status \in Outstanding
                                     /\ DeferNative(s).asg[a].status = "deferred"
  <1> DEFINE q == DeferNative(s)
             mine(k) == {a \in NativeOutstanding(s) : a[1] = k}
             deferred(a) == [s.asg[a] EXCEPT !.status = "deferred"]
             restored(k) == Restored(s.trial[k], LastIn(s.alist, mine(k))[2])
  <1>1. /\ q.order = s.order /\ q.alist = s.alist
        /\ \A a \in Assignments :
             q.asg[a] = IF a \in NativeOutstanding(s) THEN deferred(a) ELSE s.asg[a]
        /\ \A k \in Keys : q.trial[k] = IF mine(k) = {} THEN s.trial[k] ELSE restored(k)
    BY DEF DeferNative, Sound, Studies, Assignments
  <1>2. ASSUME NEW a \in Assignments
        PROVE  deferred(a) \in AssignmentRecords /\ deferred(a).status = "deferred"
    <2>1. s.asg[a] \in AssignmentRecords
      BY DEF Sound, Studies, Assignments
    <2> QED BY <2>1 DEF AssignmentRecords, AssignmentStatuses
  <1>3. ASSUME NEW k \in Keys
        PROVE  Honest(restored(k)) /\ restored(k).status \in Runnable \ {"running"}
    <2>1. s.trial[k] \in TrialRecords
      BY SoundTrial
    <2> QED BY <2>1, RestoredTrial
  <1>4. NativeOutstanding(s) \subseteq Assignments
        /\ \A a \in NativeOutstanding(s) : s.asg[a].status \in Outstanding
    BY DEF NativeOutstanding, OutstandingAssignments, Assignments
  <1>5. ASSUME NEW k \in Keys, q.trial[k] # s.trial[k]
        PROVE  k \in Registered(s) /\ q.trial[k] = restored(k)
    <2>1. q.trial[k] = restored(k) /\ mine(k) # {}
      BY <1>1, <1>5
    <2>2. PICK a \in NativeOutstanding(s) : a[1] = k
      BY <2>1
    <2>3. a \in Assignments /\ s.asg[a].status # "none"
      BY <1>4, <2>2 DEF Outstanding
    <2> QED BY <2>1, <2>2, <2>3 DEF Sound, Listed
  <1>6. q \in Studies
    <2>1. \A k \in Keys : q.trial[k] \in TrialRecords
      <3> HIDE DEF q, restored
      <3> QED BY <1>3, <1>5, SoundTrial DEF Honest
    <2>2. \A a \in Assignments : q.asg[a] \in AssignmentRecords
      <3>1. \A a \in Assignments : s.asg[a] \in AssignmentRecords
        BY DEF Sound, Studies, Assignments
      <3> HIDE DEF q, deferred
      <3> QED BY <1>1, <1>2, <3>1
    <2> QED BY <2>1, <2>2 DEF DeferNative, Sound, Studies, Assignments
  <1>7. ASSUME NEW a \in Assignments, q.asg[a] # s.asg[a]
        PROVE  /\ s.asg[a].status \in Outstanding
               /\ q.asg[a].status = "deferred"
               /\ q.trial[a[1]].status # "running"
    <2>1. a \in NativeOutstanding(s) /\ q.asg[a] = deferred(a)
      BY <1>1, <1>7
    <2>2. a \in mine(a[1]) /\ a[1] \in Keys
      BY <2>1 DEF Assignments
    <2>3. q.trial[a[1]] = restored(a[1])
      BY <1>1, <2>2
    <2> HIDE DEF q, deferred, restored
    <2> QED BY <1>2, <1>3, <1>4, <2>1, <2>2, <2>3
  <1>8. ASSUME NEW a \in Assignments, q.asg[a] # s.asg[a]
        PROVE  s.asg[a].status # "none"
    BY <1>7, <1>8 DEF Outstanding
  <1>9. ASSUME NEW k \in Keys, q.trial[k] # s.trial[k]
        PROVE  /\ k \in Registered(s) /\ Honest(q.trial[k])
               /\ q.trial[k].status \notin {"running", "absent"}
    <2> HIDE DEF q, restored
    <2> QED BY <1>3, <1>5, <1>9 DEF Runnable
  <1> HIDE DEF q
  <1>10. Sound(q)
    BY <1>1, <1>6, <1>7, <1>8, <1>9, RewrittenInPlace
  <1> QED BY <1>7, <1>10 DEF q

(* What a pass of next_assignment looks at is an assignment of a registered*)
(* trial, and a full budget only if the full run is authorized.            *)
LEMMA OfferedIsAssignment ==
  ASSUME NEW s, NEW c \in BOOLEAN, NEW p \in 1..4, NEW b \in Passes(s, c)[p]
  PROVE  b \in Assignments /\ b[1] \in Registered(s) /\ (b[2] \in FullSlots => c)
  <1>1. \A k \in Keys : MissingSeed(s.trial[k]) \in Slots
    BY DEF MissingSeed, Slots, FullSlots
  <1>2. CASE p = 1
    BY <1>1, <1>2 DEF Passes, TrialsAt, Assignments, Registered
  <1>3. CASE p = 2
    BY <1>3 DEF Passes, TrialsAt, Assignments, Registered, Slots, FullSlots
  <1>4. CASE p = 3
    BY <1>4 DEF Passes, TrialsAt, Assignments, Registered, Slots, FullSlots
  <1>5. CASE p = 4
    BY <1>5 DEF Passes, TrialsAt, Assignments, Registered, Slots, FullSlots
  <1> QED BY <1>2, <1>3, <1>4, <1>5

(* What next_assignment selects is outstanding or what a pass looks at.    *)
LEMMA SelectionIsOffered ==
  ASSUME NEW s, Sound(s), NEW c \in BOOLEAN, NEW paperOnly \in BOOLEAN,
         NEW a, a = Selection(s, c, paperOnly), a # NoAssignment
  PROVE  a \in Recoverable(s, c, paperOnly) \/ \E p \in 1..4 : a \in Passes(s, c)[p]
  <1> DEFINE R == Recoverable(s, c, paperOnly)
             Visible(S) == {b \in S : paperOnly => IsPaper(b[1])}
             P == Passes(s, c)
             wanting == {p \in 1..4 : Visible(P[p]) # {}}
             pass == CHOOSE p \in wanting : \A q \in wanting : p =< q
             offered == Visible(P[pass])
             firsts == {b[1] : b \in offered}
             chosen == CHOOSE b \in offered : b[1] = FirstTrial(s, firsts)
  <1>1. CASE R # {}
    <2>1. R \subseteq Assignments /\ \A b \in R : s.asg[b].status # "none"
      BY DEF Recoverable, OutstandingAssignments, Assignments, Outstanding
    <2>2. PICK b \in R : TRUE
      BY <1>1
    <2>3. IndicesIn(s.alist, {b}) # {}
      BY <2>1, <2>2 DEF Sound, Listed
    <2>4. IndicesIn(s.alist, R) # {}
      BY <2>2, <2>3 DEF IndicesIn
    <2>5. s.alist \in Seq(Assignments)
      BY DEF Sound, Studies, Assignments
    <2>6. FirstIn(s.alist, R) \in R
      BY <2>4, <2>5, FirstInIsIn
    <2> QED BY <1>1, <2>6 DEF Selection
  <1>2. CASE R = {}
    <2>1. wanting # {} /\ a = chosen
      BY <1>2 DEF Selection
    <2>2. pass \in wanting
      <3>1. wanting \in SUBSET Nat
        OBVIOUS
      <3>2. \E p \in wanting : \A q \in wanting : p =< q
        BY <2>1, <3>1, LeastIndex
      <3> QED BY <3>2
    <2>3. offered # {} /\ \A b \in offered : b[1] \in Registered(s)
      BY <2>2, OfferedIsAssignment
    <2>4. firsts \in SUBSET Registered(s) /\ firsts # {}
      BY <2>3
    <2>5. FirstTrial(s, firsts) \in firsts
      <3> HIDE DEF firsts
      <3>1. \A S \in SUBSET Registered(s) : S # {} => FirstIn(s.order, S) \in S
        BY RegisteredIsListed
      <3> DEFINE papers == {k \in firsts : IsPaper(k)}
      <3>2. papers # {} => FirstIn(s.order, papers) \in papers
        BY <2>4, <3>1
      <3>3. FirstIn(s.order, firsts) \in firsts
        BY <2>4, <3>1
      <3> QED BY <3>2, <3>3 DEF FirstTrial
    <2>6. chosen \in offered
      BY <2>5
    <2> QED BY <2>1, <2>2, <2>6
  <1> QED BY <1>1, <1>2

LEMMA SelectionIsAssignment ==
  ASSUME NEW s, Sound(s), NEW c \in BOOLEAN, NEW paperOnly \in BOOLEAN,
         NEW a, a = Selection(s, c, paperOnly), a # NoAssignment
  PROVE  a \in Assignments /\ a[1] \in Registered(s) /\ (a[2] \in FullSlots => c)
  <1>1. CASE a \in Recoverable(s, c, paperOnly)
    <2>1. a \in Assignments /\ s.asg[a].status # "none" /\ (a[2] \in FullSlots => c)
      BY <1>1 DEF Recoverable, OutstandingAssignments, Assignments, Outstanding
    <2> QED BY <2>1 DEF Sound, Listed
  <1>2. CASE \E p \in 1..4 : a \in Passes(s, c)[p]
    BY <1>2, OfferedIsAssignment
  <1> QED BY <1>1, <1>2, SelectionIsOffered

LEMMA AllocateIsSound ==
  ASSUME NEW s, Sound(s), NEW a \in Assignments, a[1] \in Registered(s)
  PROVE  /\ Sound(Allocate(s, a))
         /\ Allocate(s, a).asg[a].status # "none"
         /\ \A b \in Assignments : \/ Allocate(s, a).asg[b] = s.asg[b]
                                  \/ s.asg[b].status \in {"none", "deferred"}
  <1> DEFINE issued == [status |-> "issued", bound |-> FALSE]
             new == [s EXCEPT !.alist = Append(@, a), !.asg[a] = issued]
             again == [s EXCEPT !.asg[a] = issued]
  <1>1. issued \in AssignmentRecords /\ issued.status = "issued"
    BY DEF AssignmentRecords, AssignmentStatuses, Outstanding
  <1>2. /\ s.alist \in Seq(Assignments) /\ s.asg \in [Assignments -> AssignmentRecords]
        /\ s \in Studies
    BY DEF Sound, Studies, Assignments
  <1>3. CASE s.asg[a].status = "none"
    <2>1. /\ new.order = s.order /\ new.trial = s.trial
          /\ new.alist = Append(s.alist, a)
          /\ new.asg[a] = issued /\ \A b \in Assignments \ {a} : new.asg[b] = s.asg[b]
      BY <1>2 DEF Studies
    <2>2. new \in Studies
      BY <1>1, <1>2, AppendMeets DEF Studies, Assignments
    <2> HIDE DEF new
    <2>3. Listed(new)
      <3>1. Registered(new) = Registered(s)
        BY <2>1 DEF Registered
      <3>2. \A b : IndicesIn(s.alist, {b}) # {} => IndicesIn(new.alist, {b}) # {}
        BY <1>2, <2>1, AppendMeets
      <3>3. IndicesIn(new.alist, {a}) # {}
        BY <1>2, <2>1, AppendMeets
      <3> QED BY <2>1, <3>1, <3>2, <3>3 DEF Sound, Listed
    <2>4. EarnedIn(new)
      BY <2>1 DEF Sound, EarnedIn
    <2>5. ExecutedIn(new)
      <3>1. ASSUME NEW k \in Keys, NEW slot \in Slots,
                   s.asg[<<k, slot>>] = [status |-> "running", bound |-> TRUE]
            PROVE  new.asg[<<k, slot>>] = s.asg[<<k, slot>>]
        BY <1>3, <2>1, <3>1 DEF Assignments
      <3> QED BY <2>1, <3>1 DEF Sound, ExecutedIn
    <2>6. Allocate(s, a) = new
      BY <1>3 DEF Allocate, new
    <2> QED BY <1>1, <1>3, <2>1, <2>2, <2>3, <2>4, <2>5, <2>6 DEF Sound
  <1>4. CASE s.asg[a].status = "deferred"
    <2>1. /\ again.order = s.order /\ again.trial = s.trial /\ again.alist = s.alist
          /\ again.asg[a] = issued /\ \A b \in Assignments \ {a} : again.asg[b] = s.asg[b]
      BY <1>2 DEF Studies
    <2>2. again \in Studies
      BY <1>1, <1>2 DEF Studies, Assignments
    <2> HIDE DEF again
    <2>3. Listed(again)
      BY <1>4, <2>1 DEF Sound, Listed, Registered
    <2>4. EarnedIn(again)
      BY <2>1 DEF Sound, EarnedIn
    <2>5. ExecutedIn(again)
      <3>1. ASSUME NEW k \in Keys, NEW slot \in Slots,
                   s.asg[<<k, slot>>] = [status |-> "running", bound |-> TRUE]
            PROVE  again.asg[<<k, slot>>] = s.asg[<<k, slot>>]
        BY <1>4, <2>1, <3>1 DEF Assignments
      <3> QED BY <2>1, <3>1 DEF Sound, ExecutedIn
    <2>6. Allocate(s, a) = again
      BY <1>4 DEF Allocate, again
    <2> QED BY <1>1, <1>4, <2>1, <2>2, <2>3, <2>4, <2>5, <2>6 DEF Sound
  <1>5. CASE s.asg[a].status \notin {"none", "deferred"}
    BY <1>5 DEF Allocate
  <1> QED BY <1>3, <1>4, <1>5

LEMMA NextAssignmentIsSound ==
  ASSUME NEW s, Sound(s), NEW c \in BOOLEAN
  PROVE  LET next == NextAssignment(s, c) IN
         /\ Sound(next.study)
         /\ \A b \in Assignments : \/ next.study.asg[b] = s.asg[b]
                                  \/ s.asg[b].status \in {"none", "deferred"} \cup Outstanding
         /\ next.assignment # NoAssignment =>
              /\ next.assignment \in Assignments
              /\ next.study.asg[next.assignment].status # "none"
              /\ next.assignment[2] \in FullSlots => c
  <1> DEFINE paperOnly == PaperPending(s, c)
             deferred == IF paperOnly THEN DeferNative(s) ELSE s
             a == Selection(deferred, c, paperOnly)
             left == IF a = NoAssignment THEN deferred ELSE Allocate(deferred, a)
  <1>1. paperOnly \in BOOLEAN
    BY DEF PaperPending
  <1>2. /\ Sound(deferred)
        /\ \A b \in Assignments : deferred.asg[b] = s.asg[b] \/ s.asg[b].status \in Outstanding
    BY DeferNativeIsSound
  <1>3. NextAssignment(s, c).study = left /\ NextAssignment(s, c).assignment = a
    BY DEF NextAssignment
  <1>4. CASE a = NoAssignment
    BY <1>2, <1>3, <1>4
  <1>5. CASE a # NoAssignment
    <2> HIDE DEF paperOnly, deferred
    <2>1. a \in Assignments /\ a[1] \in Registered(deferred) /\ (a[2] \in FullSlots => c)
      BY <1>1, <1>2, <1>5, SelectionIsAssignment
    <2>2. left = Allocate(deferred, a)
      BY <1>5
    <2> HIDE DEF a, left
    <2>3. /\ Sound(left) /\ left.asg[a].status # "none"
          /\ \A b \in Assignments : \/ left.asg[b] = deferred.asg[b]
                                   \/ deferred.asg[b].status \in {"none", "deferred"}
      BY <1>2, <2>1, <2>2, AllocateIsSound
    <2> QED BY <1>2, <1>3, <1>5, <2>1, <2>3
  <1> QED BY <1>4, <1>5

LEMMA MarkRunningIsSound ==
  ASSUME NEW s, Sound(s), NEW a \in Assignments, s.asg[a].status # "none"
  PROVE  /\ Sound(MarkRunning(s, a))
         /\ MarkRunning(s, a).asg[a].status = "running"
         /\ \A b \in Assignments \ {a} : MarkRunning(s, a).asg[b] = s.asg[b]
  <1> DEFINE q == MarkRunning(s, a)
             r == [s.trial[a[1]] EXCEPT !.status = "running", !.pending = StageOf(a[2])]
             claimed == [status |-> "running", bound |-> TRUE]
  <1>1. a[1] \in Keys /\ a[2] \in Slots /\ a = <<a[1], a[2]>>
    BY DEF Assignments
  <1>2. r \in TrialRecords /\ r.status = "running" /\ r.pending = StageOf(a[2])
    <2>1. s.trial[a[1]] \in TrialRecords
      BY <1>1, SoundTrial
    <2> QED BY <2>1, StageOfIsStage DEF TrialRecords, TrialStatuses, Runnable
  <1>3. claimed \in AssignmentRecords
    BY DEF AssignmentRecords, AssignmentStatuses, Outstanding
  <1>4. s \in Studies
    BY DEF Sound
  <1>5. q = [s EXCEPT !.asg = [s.asg EXCEPT ![a] = claimed],
                      !.trial = [s.trial EXCEPT ![a[1]] = r]]
    BY <1>1, <1>4 DEF MarkRunning, Studies, TrialRecords
  <1> HIDE DEF q, r, claimed
  <1>6. /\ q.order = s.order /\ q.alist = s.alist
        /\ q.trial[a[1]] = r /\ \A k \in Keys \ {a[1]} : q.trial[k] = s.trial[k]
        /\ q.asg[a] = claimed /\ \A b \in Assignments \ {a} : q.asg[b] = s.asg[b]
    BY <1>1, <1>4, <1>5 DEF Studies, Assignments
  <1>7. q \in Studies
    BY <1>1, <1>2, <1>3, <1>4, <1>5 DEF Studies, Assignments
  <1>8. a[1] \in Registered(s)
    BY DEF Sound, Listed
  <1>9. Registered(q) = Registered(s)
    BY <1>2, <1>6, <1>8 DEF Registered
  <1>10. Listed(q)
    BY <1>6, <1>9 DEF Sound, Listed
  <1>11. EarnedIn(q)
    BY <1>2, <1>6 DEF Sound, EarnedIn
  <1>12. ExecutedIn(q)
    <2>1. ASSUME NEW k \in Keys \ {a[1]}, NEW slot \in Slots
          PROVE  q.asg[<<k, slot>>] = s.asg[<<k, slot>>]
      <3>1. <<k, slot>> \in Assignments \ {a}
        BY <1>1 DEF Assignments
      <3> QED BY <1>6, <3>1
    <2>2. /\ StageOf(a[2]) = q.trial[a[1]].pending
          /\ q.asg[<<a[1], a[2]>>] = [status |-> "running", bound |-> TRUE]
      BY <1>1, <1>2, <1>6 DEF claimed
    <2> QED BY <1>1, <1>6, <2>1, <2>2 DEF Sound, ExecutedIn
  <1>13. claimed.status = "running"
    BY DEF claimed
  <1> QED BY <1>6, <1>7, <1>10, <1>11, <1>12, <1>13 DEF Sound, q

(* Reopening rewrites failed assignments and restores their trials.        *)
LEMMA ReopenIsSound ==
  ASSUME NEW s, Sound(s), NEW S \in SUBSET Reopenable(s)
  PROVE  /\ Sound(Reopen(s, S))
         /\ \A a \in Assignments : Reopen(s, S).asg[a] = s.asg[a] \/ s.asg[a].status = "failed"
  <1> DEFINE q == Reopen(s, S)
             mine(k) == {a \in S : a[1] = k}
             issued == [status |-> "issued", bound |-> FALSE]
             cleared(k) == [s.trial[k] EXCEPT !.adapter = FALSE,
                              !.obs = [slot \in Slots |-> IF <<k, slot>> \in S THEN NoObs ELSE @[slot]]]
             restored(k) == Restored(cleared(k), LastIn(s.alist, mine(k))[2])
  <1>1. /\ q.order = s.order /\ q.alist = s.alist
        /\ \A a \in Assignments : q.asg[a] = IF a \in S THEN issued ELSE s.asg[a]
        /\ \A k \in Keys : q.trial[k] = IF mine(k) = {} THEN s.trial[k] ELSE restored(k)
    BY DEF Reopen, Sound, Studies
  <1>2. issued \in AssignmentRecords
    BY DEF AssignmentRecords, AssignmentStatuses, Outstanding
  <1>3. ASSUME NEW k \in Keys
        PROVE  Honest(restored(k)) /\ restored(k).status \in Runnable \ {"running"}
    <2>1. s.trial[k] \in TrialRecords
      BY SoundTrial
    <2>2. NoObs \in Observations
      BY DEF NoObs, Observations, ObsKinds, Causes, Gates
    <2>3. cleared(k) \in TrialRecords
      <3> DEFINE obs == [slot \in Slots |-> IF <<k, slot>> \in S THEN NoObs ELSE s.trial[k].obs[slot]]
      <3>1. s.trial[k].obs \in [Slots -> Observations]
        BY <2>1 DEF TrialRecords
      <3>2. obs \in [Slots -> Observations]
        BY <2>2, <3>1
      <3>3. cleared(k) = [s.trial[k] EXCEPT !.adapter = FALSE, !.obs = obs]
        BY <2>1 DEF TrialRecords
      <3> HIDE DEF obs, cleared
      <3> QED BY <2>1, <3>2, <3>3 DEF TrialRecords
    <2> HIDE DEF cleared
    <2> QED BY <2>3, RestoredTrial
  <1>4. S \subseteq Assignments /\ \A a \in S : s.asg[a].status = "failed"
    BY DEF Reopenable
  <1>5. ASSUME NEW k \in Keys, q.trial[k] # s.trial[k]
        PROVE  k \in Registered(s) /\ q.trial[k] = restored(k)
    <2>1. q.trial[k] = restored(k) /\ mine(k) # {}
      BY <1>1, <1>5
    <2>2. PICK a \in S : a[1] = k
      BY <2>1
    <2>3. a \in Assignments /\ s.asg[a].status # "none"
      BY <1>4, <2>2
    <2> QED BY <2>1, <2>2, <2>3 DEF Sound, Listed
  <1>6. q \in Studies
    <2>1. \A k \in Keys : q.trial[k] \in TrialRecords
      <3> HIDE DEF q, restored
      <3> QED BY <1>3, <1>5, SoundTrial DEF Honest
    <2>2. \A a \in Assignments : q.asg[a] \in AssignmentRecords
      <3>1. \A a \in Assignments : s.asg[a] \in AssignmentRecords
        BY DEF Sound, Studies, Assignments
      <3> HIDE DEF q, issued
      <3> QED BY <1>1, <1>2, <3>1
    <2>3. q = [s EXCEPT !.asg = [a \in Assignments |-> q.asg[a]],
                        !.trial = [k \in Keys |-> q.trial[k]]]
      <3>1. /\ q.asg = [a \in Assignments |-> q.asg[a]]
            /\ q.trial = [k \in Keys |-> q.trial[k]]
        BY DEF Reopen, Sound, Studies
      <3>2. q = [s EXCEPT !.asg = q.asg, !.trial = q.trial]
        BY DEF Reopen, Sound, Studies
      <3> HIDE DEF q
      <3> QED BY <3>1, <3>2
    <2> HIDE DEF q
    <2> QED BY <2>1, <2>2, <2>3 DEF Sound, Studies, Assignments
  <1>7. ASSUME NEW a \in Assignments, q.asg[a] # s.asg[a]
        PROVE  s.asg[a].status = "failed" /\ q.trial[a[1]].status # "running"
    <2>1. a \in S
      BY <1>1, <1>7
    <2>2. a \in mine(a[1]) /\ a[1] \in Keys
      BY <2>1 DEF Assignments
    <2>3. q.trial[a[1]] = restored(a[1])
      BY <1>1, <2>2
    <2> HIDE DEF q, restored
    <2> QED BY <1>3, <1>4, <2>1, <2>2, <2>3
  <1>8. ASSUME NEW k \in Keys, q.trial[k] # s.trial[k]
        PROVE  /\ k \in Registered(s) /\ Honest(q.trial[k])
               /\ q.trial[k].status \notin {"running", "absent"}
    <2> HIDE DEF q, restored
    <2> QED BY <1>3, <1>5, <1>8 DEF Runnable
  <1> HIDE DEF q
  <1>9. Sound(q)
    BY <1>1, <1>6, <1>7, <1>8, RewrittenInPlace
  <1> QED BY <1>7, <1>9 DEF q
=============================================================================
