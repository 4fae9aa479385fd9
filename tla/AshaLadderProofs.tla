--------------------------- MODULE AshaLadderProofs ---------------------------
(***************************************************************************)
(* The automatic loop as a budget ladder: whatever is handed out rests on  *)
(* evidence that is there to stay, no measurement is lost, and what the    *)
(* scheduler hands out can be claimed.                                     *)
(***************************************************************************)
EXTENDS AutoLoopProofs, FiniteSetTheorems

(* What passes a rung (PassedSlots), and what has to be passed before it.  *)
PassesAt(k, slot, o) ==
  CASE slot = "pilot_3"  -> o.kind = "complete" /\ o.delta >= Floor(k)
    [] slot = "pilot_10" -> Passed(o) /\ o.improved
    [] OTHER             -> Passed(o)
Reached(k, r, slot) == \A b \in SlotsBelow[slot] : PassesAt(k, b, r.obs[b])

(* The second confirmation seed is handed out after the first is complete. *)
Grounded(k, r, slot) ==
  /\ Reached(k, r, slot)
  /\ slot = "full_3" => r.obs["full_2"].kind = "complete"

(* What the status of a trial says of its evidence.                        *)
StatusFits(k, r) ==
  /\ r.status = "waiting" => r.pending = "pilot_3" \/ r.obs["pilot_3"].kind # "none"
  /\ r.status = "promotion_pending" =>
       Reached(k, r, "pilot_10") /\ r.obs["pilot_10"].kind = "none"
  /\ r.status = "full_pending_confirmation" =>
       Reached(k, r, "full_1") /\ r.obs["full_1"].kind = "none"
  /\ r.status = "confirmation_pending" =>
       Reached(k, r, "full_2") /\ r.obs["full_2"].kind \in {"none", "complete"}
  /\ r.status = "confirmed" => \A slot \in FullSlots : r.obs[slot].kind = "complete"

(* A trial r with the allocated slots A.                                   *)
Fits(k, r, A) == StatusFits(k, r) /\ \A slot \in A : Grounded(k, r, slot)

(* An assignment is closed exactly when its observation is there.          *)
ResultsMatch(s) ==
  \A a \in Assignments :
    /\ s.trial[a[1]].obs[a[2]].kind = "failed" <=> s.asg[a].status = "failed"
    /\ s.trial[a[1]].obs[a[2]].kind \in {"partial", "complete"} <=> s.asg[a].status = "completed"

Climbing(s) == ResultsMatch(s) /\ \A k \in Keys : Fits(k, s.trial[k], AllocatedSlots(s, k))

-----------------------------------------------------------------------------
(***************************************************************************)
(* Trials.                                                                 *)
(***************************************************************************)
LEMMA ReachedFacts ==
  ASSUME NEW k, NEW r
  PROVE  LET pilots == PassesAt(k, "pilot_3", r.obs["pilot_3"])
                       /\ PassesAt(k, "pilot_10", r.obs["pilot_10"])
             seed1 == pilots /\ PassesAt(k, "full_1", r.obs["full_1"])
         IN  /\ Reached(k, r, "pilot_3")
             /\ Reached(k, r, "pilot_10") <=> PassesAt(k, "pilot_3", r.obs["pilot_3"])
             /\ Reached(k, r, "full_1") <=> pilots
             /\ Reached(k, r, "full_2") <=> seed1
             /\ Reached(k, r, "full_3") <=> seed1
  <1>1. /\ SlotsBelow["pilot_3"] = {} /\ SlotsBelow["pilot_10"] = {"pilot_3"}
        /\ SlotsBelow["full_1"] = {"pilot_3", "pilot_10"}
        /\ SlotsBelow["full_2"] = {"pilot_3", "pilot_10", "full_1"}
        /\ SlotsBelow["full_3"] = {"pilot_3", "pilot_10", "full_1"}
    BY DEF SlotsBelow, Slots, FullSlots
  <1> QED BY <1>1 DEF Reached

LEMMA SlotIsNamed == Slots = {"pilot_3", "pilot_10", "full_1", "full_2", "full_3"}
  BY DEF Slots, FullSlots

LEMMA BelowIsSlot == \A slot \in Slots : SlotsBelow[slot] \subseteq Slots
  BY DEF SlotsBelow, Slots, FullSlots

LEMMA PassingIsComplete ==
  ASSUME NEW k, NEW slot, NEW o, PassesAt(k, slot, o) PROVE o.kind = "complete"
  BY DEF PassesAt, Passed

LEMMA FloorIsInteger == \A k \in Keys : Floor(k) \in Int
  BY SchedulerAssumption DEF Floor

(* What a trial may lose: the observation of a failure.                    *)
KeepsEvidence(r, t) ==
  \A slot \in Slots : \/ t.obs[slot] = r.obs[slot]
                      \/ t.obs[slot].kind = "none" /\ r.obs[slot].kind \in {"none", "failed"}

(* A trial goes on, is stopped, begins at pilot_3, or is to be trained     *)
(* again for an assignment without a result.                               *)
Settled == {"absent", "needs_evidence", "running", "failed", "eliminated"}
Goes(r, t, A) ==
  \/ t.status = r.status /\ t.pending = r.pending
     /\ \A slot \in Slots : t.obs[slot].kind = r.obs[slot].kind
  \/ t.status \in Settled
  \/ t.status = "waiting" /\ t.pending = "pilot_3"
  \/ \E slot \in A : /\ t.obs[slot].kind = "none"
                     /\ t.status = RestoredStatus(slot) /\ t.pending = StageOf(slot)

LEMMA EvidenceKeepsReached ==
  ASSUME NEW k, NEW r, NEW t, KeepsEvidence(r, t), NEW slot \in Slots, Reached(k, r, slot)
  PROVE  Reached(k, t, slot)
  <1>1. ASSUME NEW b \in SlotsBelow[slot] PROVE PassesAt(k, b, t.obs[b])
    <2>1. PassesAt(k, b, r.obs[b]) /\ b \in Slots
      BY BelowIsSlot DEF Reached
    <2>2. r.obs[b].kind = "complete"
      BY <2>1, PassingIsComplete
    <2>3. t.obs[b] = r.obs[b]
      BY <2>1, <2>2 DEF KeepsEvidence
    <2> QED BY <2>1, <2>3
  <1> QED BY <1>1 DEF Reached

LEMMA GoingFits ==
  ASSUME NEW k, NEW r, NEW t, NEW A \in SUBSET Slots,
         Fits(k, r, A), KeepsEvidence(r, t), Goes(r, t, A)
  PROVE  Fits(k, t, A)
  <1>1. \A slot \in Slots : Reached(k, r, slot) => Reached(k, t, slot)
    BY EvidenceKeepsReached
  <1>2. \A slot \in Slots : r.obs[slot].kind = "complete" => t.obs[slot].kind = "complete"
    BY DEF KeepsEvidence
  <1>3. ASSUME NEW slot \in A PROVE Grounded(k, t, slot)
    BY <1>1, <1>2, SlotIsNamed DEF Fits, Grounded
  <1>4. StatusFits(k, t)
    <2>1. CASE /\ t.status = r.status /\ t.pending = r.pending
               /\ \A slot \in Slots : t.obs[slot].kind = r.obs[slot].kind
      BY <1>1, <1>2, <2>1, SlotIsNamed DEF Fits, StatusFits, FullSlots
    <2>2. CASE t.status \in Settled
      BY <2>2 DEF StatusFits, Settled
    <2>3. CASE t.status = "waiting" /\ t.pending = "pilot_3"
      BY <2>3 DEF StatusFits
    <2>4. ASSUME NEW slot \in A, t.obs[slot].kind = "none",
                 t.status = RestoredStatus(slot), t.pending = StageOf(slot)
          PROVE  StatusFits(k, t)
      <3>1. Grounded(k, t, slot)
        BY <1>3
      <3>2. CASE slot = "pilot_3"
        BY <2>4, <3>2 DEF StatusFits, RestoredStatus, StageOf
      <3>3. CASE slot = "pilot_10"
        BY <2>4, <3>1, <3>3 DEF StatusFits, RestoredStatus, Grounded
      <3>4. CASE slot = "full_1"
        BY <2>4, <3>1, <3>4 DEF StatusFits, RestoredStatus, Grounded
      <3>5. CASE slot = "full_2"
        BY <2>4, <3>1, <3>5 DEF StatusFits, RestoredStatus, Grounded
      <3>6. CASE slot = "full_3"
        BY <2>4, <3>1, <3>6, ReachedFacts DEF StatusFits, RestoredStatus, Grounded
      <3> QED BY <3>2, <3>3, <3>4, <3>5, <3>6, SlotIsNamed
    <2> QED BY <2>1, <2>2, <2>3, <2>4 DEF Goes
  <1> QED BY <1>3, <1>4 DEF Fits

(* Nothing above a slot without a complete observation is allocated, and   *)
(* what is not allocated is not observed.                                  *)
LEMMA NothingAbove ==
  ASSUME NEW k, NEW r, NEW A \in SUBSET Slots, Fits(k, r, A),
         NEW slot \in Slots, r.obs[slot].kind # "complete"
  PROVE  /\ slot = "pilot_3" => A \subseteq {"pilot_3"}
         /\ slot = "pilot_10" => A \subseteq {"pilot_3", "pilot_10"}
         /\ slot = "full_1" => A \subseteq {"pilot_3", "pilot_10", "full_1"}
         /\ slot = "full_2" => "full_3" \notin A
  <1>1. ~ PassesAt(k, slot, r.obs[slot])
    BY PassingIsComplete
  <1>2. \A b \in A : Grounded(k, r, b)
    BY DEF Fits
  <1>3. \A b \in Slots : Grounded(k, r, b) => Reached(k, r, b)
    BY DEF Grounded
  <1>4. slot = "full_2" => "full_3" \notin A
    BY <1>2 DEF Grounded
  <1> QED BY <1>1, <1>2, <1>3, <1>4, ReachedFacts, SlotIsNamed

LEMMA ImportFits ==
  ASSUME NEW k \in Keys, NEW r \in TrialRecords, NEW A \in SUBSET Slots, Fits(k, r, A),
         NEW slot \in A, NEW o \in Observations,
         o.kind # "none", r.obs[slot].kind # "complete",
         \A b \in Slots : r.obs[b].kind # "none" => b \in A
  PROVE  /\ Fits(k, Import(r, slot, o), A)
         /\ Import(r, slot, o).obs = [r.obs EXCEPT ![slot] = o]
  <1> DEFINE x == [r EXCEPT !.obs[slot] = o]
             t == Import(r, slot, o)
  <1>1. /\ x.obs = [r.obs EXCEPT ![slot] = o] /\ r.obs \in [Slots -> Observations]
        /\ x \in TrialRecords /\ slot \in Slots
    BY DEF TrialRecords
  <1>2. /\ x.obs[slot] = o /\ \A b \in Slots \ {slot} : x.obs[b] = r.obs[b]
    BY <1>1
  <1> HIDE DEF x
  <1>3. t = Ruling(x, slot, o)
    BY <1>1 DEF Import, x
  <1>4. /\ slot = "pilot_3" => A \subseteq {"pilot_3"}
        /\ slot = "pilot_10" => A \subseteq {"pilot_3", "pilot_10"}
        /\ slot = "full_1" => A \subseteq {"pilot_3", "pilot_10", "full_1"}
        /\ slot = "full_2" => "full_3" \notin A
    BY <1>1, NothingAbove
  <1>5. ASSUME NEW b \in A PROVE Grounded(k, x, b)
    <2>1. Grounded(k, r, b) /\ b \in Slots
      BY DEF Fits
    <2>2. \A c \in SlotsBelow[b] : PassesAt(k, c, x.obs[c])
      <3>1. ASSUME NEW c \in SlotsBelow[b] PROVE PassesAt(k, c, x.obs[c])
        <4>1. PassesAt(k, c, r.obs[c]) /\ c \in Slots
          BY <2>1, BelowIsSlot DEF Grounded, Reached
        <4>2. c # slot
          BY <4>1, PassingIsComplete
        <4> QED BY <1>2, <4>1, <4>2
      <3> QED BY <3>1
    <2>3. b = "full_3" => x.obs["full_2"].kind = "complete"
      BY <1>2, <2>1, SlotIsNamed DEF Grounded
    <2> QED BY <2>2, <2>3 DEF Grounded, Reached
  <1>6. x.obs = t.obs /\ StatusFits(k, t)
    <2>1. CASE o.kind = "failed"
      <3>1. t = [x EXCEPT !.status = "failed", !.pending = NoStage, !.adapter = (o.cause = "adapter")]
        BY <1>3, <2>1 DEF Ruling
      <3> QED BY <1>1, <3>1 DEF StatusFits, TrialRecords
    <2>2. CASE o.kind = "partial"
      <3>1. t = [x EXCEPT !.status = "needs_evidence", !.pending = StageOf(slot)]
        BY <1>3, <2>2 DEF Ruling
      <3> QED BY <1>1, <3>1 DEF StatusFits, TrialRecords
    <2> DEFINE out == Eliminated(x)
    <2>3. out.obs = x.obs /\ StatusFits(k, out)
      BY <1>1 DEF Eliminated, StatusFits, TrialRecords
    <2> HIDE DEF out
    <2>4. CASE o.kind = "complete" /\ slot = "pilot_3"
      <3>1. t = [x EXCEPT !.status = "waiting", !.pending = NoStage]
        BY <1>3, <2>4 DEF Ruling
      <3>2. t.obs = x.obs /\ t.status = "waiting"
        BY <1>1, <3>1 DEF TrialRecords
      <3>3. t.obs["pilot_3"].kind = "complete"
        BY <1>2, <2>4, <3>2
      <3> QED BY <3>2, <3>3 DEF StatusFits
    <2>5. CASE o.kind = "complete" /\ slot = "pilot_10"
      <3> DEFINE up == [x EXCEPT !.status = "full_pending_confirmation", !.pending = "candidate_full_seed_1"]
      <3>1. t = IF o.delta > 0 /\ o.gate = "pass" /\ o.improved THEN up ELSE out
        BY <1>3, <2>5 DEF Ruling, FinishPilot10, out
      <3>2. up.obs = x.obs /\ up.status = "full_pending_confirmation"
        BY <1>1 DEF TrialRecords
      <3>3. x.obs["full_1"].kind = "none"
        BY <1>2, <1>4, <2>5, SlotIsNamed
      <3> HIDE DEF up
      <3>4. ASSUME o.delta > 0, o.gate = "pass", o.improved PROVE Reached(k, x, "full_1")
        <4>1. PassesAt(k, "pilot_10", x.obs["pilot_10"])
          BY <1>2, <2>5, <3>4 DEF PassesAt, Passed, Positive
        <4>2. Reached(k, x, "pilot_10")
          BY <1>5, <2>5 DEF Grounded
        <4> QED BY <4>1, <4>2, ReachedFacts
      <3>5. ASSUME Reached(k, x, "full_1") PROVE StatusFits(k, up)
        BY <3>2, <3>3, <3>5 DEF StatusFits, Reached
      <3> QED BY <2>3, <3>1, <3>2, <3>4, <3>5
    <2>6. CASE o.kind = "complete" /\ slot = "full_1"
      <3> DEFINE up == [x EXCEPT !.status = "confirmation_pending", !.pending = "candidate_full_confirmation"]
      <3>1. t = IF o.delta > 0 /\ o.gate = "pass" THEN up ELSE out
        BY <1>3, <2>6 DEF Ruling, FinishFullSeed1, out
      <3>2. up.obs = x.obs /\ up.status = "confirmation_pending"
        BY <1>1 DEF TrialRecords
      <3>3. x.obs["full_2"].kind = "none"
        BY <1>2, <1>4, <2>6, SlotIsNamed
      <3> HIDE DEF up
      <3>4. ASSUME o.delta > 0, o.gate = "pass" PROVE Reached(k, x, "full_2")
        <4>1. PassesAt(k, "full_1", x.obs["full_1"])
          BY <1>2, <2>6, <3>4 DEF PassesAt, Passed, Positive
        <4>2. Reached(k, x, "full_1")
          BY <1>5, <2>6 DEF Grounded
        <4> QED BY <4>1, <4>2, ReachedFacts
      <3>5. ASSUME Reached(k, x, "full_2") PROVE StatusFits(k, up)
        BY <3>2, <3>3, <3>5 DEF StatusFits, Reached
      <3> QED BY <2>3, <3>1, <3>2, <3>4, <3>5
    <2>7. CASE o.kind = "complete" /\ slot \in {"full_2", "full_3"}
      <3> DEFINE next == [x EXCEPT !.status = "confirmation_pending", !.pending = "candidate_full_confirmation"]
                 won == [x EXCEPT !.status = "confirmed", !.pending = NoStage]
                 open == \E s \in FullSlots : x.obs[s].kind = "none"
      <3>1. t = FinishConfirmation(x)
        BY <1>3, <2>7 DEF Ruling
      <3>2. /\ next.obs = x.obs /\ next.status = "confirmation_pending"
            /\ won.obs = x.obs /\ won.status = "confirmed"
        BY <1>1 DEF TrialRecords
      <3>3. (open /\ t = next) \/ (~open /\ t = won) \/ t = out
        BY <3>1 DEF FinishConfirmation, out
      <3> HIDE DEF next, won
      <3>4. /\ Reached(k, x, "full_2") /\ x.obs["full_2"].kind = "complete"
            /\ x.obs["full_1"].kind = "complete"
        <4>1. Reached(k, x, "full_2")
          BY <1>5, <2>7, ReachedFacts DEF Grounded
        <4>2. x.obs["full_2"].kind = "complete"
          BY <1>2, <1>5, <2>7 DEF Grounded
        <4>3. PassesAt(k, "full_1", x.obs["full_1"])
          BY <4>1, ReachedFacts
        <4> QED BY <4>1, <4>2, <4>3, PassingIsComplete
      <3>5. ~open => x.obs["full_3"].kind = "complete"
        BY <1>2, <1>4, <2>7, SlotIsNamed DEF FullSlots
      <3>6. StatusFits(k, next)
        BY <3>2, <3>4 DEF StatusFits, Reached
      <3>7. ~open => StatusFits(k, won)
        BY <3>2, <3>4, <3>5 DEF StatusFits, FullSlots
      <3> QED BY <2>3, <3>2, <3>3, <3>6, <3>7
    <2> QED BY <1>1, <2>1, <2>2, <2>4, <2>5, <2>6, <2>7, SlotIsNamed DEF Observations, ObsKinds
  <1>7. \A b \in A : Grounded(k, t, b)
    BY <1>5, <1>6 DEF Grounded, Reached
  <1> QED BY <1>1, <1>6, <1>7 DEF Fits

-----------------------------------------------------------------------------
(***************************************************************************)
(* Studies.                                                                *)
(***************************************************************************)
Owed == Outstanding \cup {"deferred"}

(* From s to q no trial is promoted for the first time.                    *)
PromotesNone(s, q) ==
  \A k \in Keys : q.trial[k].status = "promotion_pending" =>
    s.trial[k].status = "promotion_pending" \/ q.asg[<<k, "pilot_10">>].status # "none"

(* From s to q no evidence but that of a failure is lost, no assignment is *)
(* taken back, and no trial is promoted for the first time.                *)
Retains(s, q) ==
  /\ \A k \in Keys : KeepsEvidence(s.trial[k], q.trial[k])
  /\ \A a \in Assignments :
       /\ s.asg[a].status \in Owed => q.asg[a].status \in Owed
       /\ s.asg[a].status # "none" => q.asg[a].status # "none"
  /\ PromotesNone(s, q)

SameGrants(s, q) == \A a \in Assignments : q.asg[a].status = "none" <=> s.asg[a].status = "none"

LEMMA RetainsIsTransitive ==
  ASSUME NEW s, NEW q, NEW t, Retains(s, q), Retains(q, t)
  PROVE  Retains(s, t)
  <1>1. ASSUME NEW k \in Keys PROVE KeepsEvidence(s.trial[k], t.trial[k])
    BY DEF Retains, KeepsEvidence
  <1>2. PromotesNone(s, t)
    <2>1. \A k \in Keys : <<k, "pilot_10">> \in Assignments
      BY SlotIsNamed DEF Assignments
    <2> QED BY <2>1 DEF Retains, PromotesNone
  <1> QED BY <1>1, <1>2 DEF Retains

LEMMA RetainsItself ==
  ASSUME NEW s PROVE Retains(s, s) /\ SameGrants(s, s)
  BY DEF Retains, KeepsEvidence, PromotesNone, SameGrants

LEMMA GoingPromotesNone ==
  ASSUME NEW s, NEW q,
         \A k \in Keys : Goes(s.trial[k], q.trial[k], AllocatedSlots(s, k)),
         \A a \in Assignments : s.asg[a].status # "none" => q.asg[a].status # "none"
  PROVE  PromotesNone(s, q)
  <1>1. ASSUME NEW k \in Keys, q.trial[k].status = "promotion_pending",
               s.trial[k].status # "promotion_pending"
        PROVE  q.asg[<<k, "pilot_10">>].status # "none"
    <2>1. PICK slot \in AllocatedSlots(s, k) : RestoredStatus(slot) = "promotion_pending"
      BY <1>1 DEF Goes, Settled
    <2>2. slot = "pilot_10"
      BY <2>1 DEF RestoredStatus
    <2>3. s.asg[<<k, "pilot_10">>].status # "none" /\ <<k, "pilot_10">> \in Assignments
      BY <2>1, <2>2 DEF AllocatedSlots, Assignments
    <2> QED BY <2>3
  <1> QED BY <1>1 DEF PromotesNone

LEMMA AllocatedAreAssignments ==
  \A k \in Keys, slot \in Slots : <<k, slot>> \in Assignments /\ <<k, slot>>[1] = k /\ <<k, slot>>[2] = slot
  BY DEF Assignments

LEMMA SameGrantsSameSlots ==
  ASSUME NEW s, NEW q, SameGrants(s, q), NEW k \in Keys
  PROVE  AllocatedSlots(q, k) = AllocatedSlots(s, k)
  BY AllocatedAreAssignments DEF SameGrants, AllocatedSlots

LEMMA ObservedIsAllocated ==
  ASSUME NEW s, Sound(s), ResultsMatch(s), NEW k \in Keys, NEW slot \in Slots,
         s.trial[k].obs[slot].kind # "none"
  PROVE  slot \in AllocatedSlots(s, k)
  <1>1. s.trial[k].obs[slot].kind \in ObsKinds
    BY SoundTrial DEF TrialRecords, Observations
  <1> QED BY <1>1, AllocatedAreAssignments DEF ResultsMatch, ObsKinds, AllocatedSlots

(* An assignment without a result has no observation, and the other way.   *)
LEMMA OwedIsUnobserved ==
  ASSUME NEW s, Sound(s), ResultsMatch(s), NEW a \in Assignments
  PROVE  s.trial[a[1]].obs[a[2]].kind = "none" <=> s.asg[a].status \in Owed \cup {"none"}
  <1>1. a[1] \in Keys /\ a[2] \in Slots
    BY DEF Assignments
  <1>2. s.trial[a[1]].obs[a[2]].kind \in ObsKinds
    BY <1>1, SoundTrial DEF TrialRecords, Observations
  <1>3. s.asg[a].status \in AssignmentStatuses
    BY DEF Sound, Studies, Assignments, AssignmentRecords
  <1> QED BY <1>2, <1>3 DEF ResultsMatch, ObsKinds, AssignmentStatuses, Owed, Outstanding

(* Nothing is allocated to or observed of what is not registered.          *)
LEMMA AbsentIsBlank ==
  ASSUME NEW s, Sound(s), ResultsMatch(s), NEW k \in Keys, s.trial[k].status = "absent",
         NEW slot \in Slots
  PROVE  s.trial[k].obs[slot].kind = "none"
  <1> DEFINE a == <<k, slot>>
  <1>1. a \in Assignments /\ a[1] = k
    BY DEF Assignments
  <1> HIDE DEF a
  <1>2. k \notin Registered(s)
    BY DEF Registered
  <1>3. s.asg[a].status = "none"
    BY <1>1, <1>2 DEF Sound, Listed
  <1> QED BY <1>3, ObservedIsAllocated DEF AllocatedSlots, a

LEMMA StudyGoes ==
  ASSUME NEW s, NEW q, Climbing(s), Retains(s, q), ResultsMatch(q), SameGrants(s, q),
         \A k \in Keys : Goes(s.trial[k], q.trial[k], AllocatedSlots(s, k))
  PROVE  Climbing(q)
  <1>1. ASSUME NEW k \in Keys PROVE Fits(k, q.trial[k], AllocatedSlots(q, k))
    <2>1. AllocatedSlots(s, k) \in SUBSET Slots
      BY DEF AllocatedSlots
    <2>2. KeepsEvidence(s.trial[k], q.trial[k])
      BY DEF Retains
    <2>3. Fits(k, s.trial[k], AllocatedSlots(s, k))
      BY DEF Climbing
    <2> QED BY <2>1, <2>2, <2>3, GoingFits, SameGrantsSameSlots
  <1> QED BY <1>1 DEF Climbing

(* An operator that changes trials only and leaves their evidence alone.   *)
LEMMA TrialsGo ==
  ASSUME NEW s, NEW q, Climbing(s), q.asg = s.asg,
         \A k \in Keys : /\ \/ q.trial[k].obs = s.trial[k].obs
                            \/ \A slot \in Slots : /\ q.trial[k].obs[slot].kind = "none"
                                                   /\ s.trial[k].obs[slot].kind = "none"
                         /\ Goes(s.trial[k], q.trial[k], AllocatedSlots(s, k))
  PROVE  Climbing(q) /\ Retains(s, q) /\ SameGrants(s, q)
  <1>1. Retains(s, q)
    BY GoingPromotesNone DEF Retains, KeepsEvidence
  <1>2. SameGrants(s, q)
    BY DEF SameGrants
  <1>3. ResultsMatch(q)
    <2>1. ASSUME NEW a \in Assignments
          PROVE  q.trial[a[1]].obs[a[2]].kind = s.trial[a[1]].obs[a[2]].kind
      <3>1. a[1] \in Keys /\ a[2] \in Slots
        BY DEF Assignments
      <3> QED BY <3>1
    <2> QED BY <2>1 DEF Climbing, ResultsMatch
  <1> QED BY <1>1, <1>2, <1>3, StudyGoes

LEMMA UntouchedGoes ==
  \A r, A : Goes(r, r, A)
  BY DEF Goes

LEMMA EmptyClimbs == Climbing(EmptyStudy)
  <1>1. \A k \in Keys, slot \in Slots : EmptyStudy.trial[k].obs[slot].kind = "none"
    BY DEF EmptyStudy, NoTrial, NoObs
  <1>2. \A a \in Assignments : EmptyStudy.asg[a].status = "none"
    BY DEF EmptyStudy, NoRecord, Assignments
  <1>3. \A a \in Assignments : a[1] \in Keys /\ a[2] \in Slots
    BY DEF Assignments
  <1>4. ResultsMatch(EmptyStudy)
    BY <1>1, <1>2, <1>3 DEF ResultsMatch
  <1>5. ASSUME NEW k \in Keys PROVE Fits(k, EmptyStudy.trial[k], AllocatedSlots(EmptyStudy, k))
    <2>1. AllocatedSlots(EmptyStudy, k) = {}
      BY <1>2, AllocatedAreAssignments DEF AllocatedSlots
    <2>2. EmptyStudy.trial[k].status = "absent"
      BY DEF EmptyStudy, NoTrial
    <2> QED BY <2>1, <2>2 DEF Fits, StatusFits
  <1> QED BY <1>4, <1>5 DEF Climbing

LEMMA QuarantineClimbs ==
  ASSUME NEW s, Sound(s), Climbing(s)
  PROVE  LET q == Quarantine(s) IN Climbing(q) /\ Retains(s, q) /\ SameGrants(s, q)
  <1> DEFINE q == Quarantine(s)
             blocked(r) == [r EXCEPT !.status = "needs_evidence", !.pending = NoStage,
                                     !.ready = "pre_registered", !.adapter = FALSE]
  <1>1. q.asg = s.asg /\ \A k \in Keys : q.trial[k] \in {s.trial[k], blocked(s.trial[k])}
    BY DEF Quarantine, Sound, Studies
  <1>2. ASSUME NEW k \in Keys
        PROVE  q.trial[k].obs = s.trial[k].obs /\ Goes(s.trial[k], q.trial[k], AllocatedSlots(s, k))
    <2>1. s.trial[k] \in TrialRecords
      BY SoundTrial
    <2>2. blocked(s.trial[k]).obs = s.trial[k].obs /\ blocked(s.trial[k]).status = "needs_evidence"
      BY <2>1 DEF TrialRecords
    <2> HIDE DEF q, blocked
    <2> QED BY <1>1, <2>2, UntouchedGoes DEF Goes, Settled
  <1> HIDE DEF q
  <1>3. Climbing(q) /\ Retains(s, q) /\ SameGrants(s, q)
    BY <1>1, <1>2, TrialsGo
  <1> QED BY <1>3 DEF q

LEMMA FailMatchedControlClimbs ==
  ASSUME NEW s, Sound(s), Climbing(s), NEW protocol
  PROVE  LET q == FailMatchedControl(s, protocol) IN Climbing(q) /\ Retains(s, q) /\ SameGrants(s, q)
  <1> DEFINE q == FailMatchedControl(s, protocol)
             blocked(r) == [r EXCEPT !.status = "needs_evidence", !.pending = NoStage,
                                     !.adapter = FALSE]
  <1>1. q.asg = s.asg /\ \A k \in Keys : q.trial[k] \in {s.trial[k], blocked(s.trial[k])}
    BY DEF FailMatchedControl, Sound, Studies
  <1>2. ASSUME NEW k \in Keys
        PROVE  q.trial[k].obs = s.trial[k].obs /\ Goes(s.trial[k], q.trial[k], AllocatedSlots(s, k))
    <2>1. s.trial[k] \in TrialRecords
      BY SoundTrial
    <2>2. blocked(s.trial[k]).obs = s.trial[k].obs /\ blocked(s.trial[k]).status = "needs_evidence"
      BY <2>1 DEF TrialRecords
    <2> HIDE DEF q, blocked
    <2> QED BY <1>1, <2>2, UntouchedGoes DEF Goes, Settled
  <1> HIDE DEF q
  <1>3. Climbing(q) /\ Retains(s, q) /\ SameGrants(s, q)
    BY <1>1, <1>2, TrialsGo
  <1> QED BY <1>3 DEF q

(* Trials of other keys are left alone.                                    *)
LEMMA OneGoes ==
  ASSUME NEW s, Sound(s), Climbing(s), NEW k \in Keys, NEW r,
         Goes(s.trial[k], r, AllocatedSlots(s, k)),
         \/ r.obs = s.trial[k].obs
         \/ \A slot \in Slots : r.obs[slot].kind = "none" /\ s.trial[k].obs[slot].kind = "none",
         NEW q, q.asg = s.asg, q.trial = [s.trial EXCEPT ![k] = r]
  PROVE  Climbing(q) /\ Retains(s, q) /\ SameGrants(s, q)
  <1>1. q.trial[k] = r /\ \A m \in Keys \ {k} : q.trial[m] = s.trial[m]
    BY DEF Sound, Studies
  <1> QED BY <1>1, UntouchedGoes, TrialsGo

LEMMA BreakerClimbs ==
  ASSUME NEW s, Sound(s), Climbing(s), NEW k \in Keys
  PROVE  LET q == Breaker(s, k) IN Climbing(q) /\ Retains(s, q) /\ SameGrants(s, q)
  <1> DEFINE r == [s.trial[k] EXCEPT !.status = "failed", !.pending = NoStage, !.adapter = TRUE]
  <1>1. r.obs = s.trial[k].obs /\ r.status = "failed"
    BY SoundTrial DEF TrialRecords
  <1>2. \/ Breaker(s, k) = s
        \/ /\ Breaker(s, k).asg = s.asg
           /\ Breaker(s, k).trial = [s.trial EXCEPT ![k] = r]
    BY SoundTrial DEF Breaker, Sound, Studies, TrialRecords
  <1>3. Goes(s.trial[k], r, AllocatedSlots(s, k))
    BY <1>1 DEF Goes, Settled
  <1>4. Climbing(s) /\ Retains(s, s) /\ SameGrants(s, s)
    BY RetainsItself
  <1> HIDE DEF r
  <1> QED BY <1>1, <1>2, <1>3, <1>4, OneGoes

LEMMA RegisterClimbs ==
  ASSUME NEW s, Sound(s), Climbing(s), NEW i \in Ids, NEW f \in Fps
  PROVE  LET q == Register(s, i, f) IN Climbing(q) /\ Retains(s, q) /\ SameGrants(s, q)
  <1> DEFINE k == RegisterTarget(s, i, f)
             r == s.trial[k]
             ready == IF i \in Paper THEN "asha_eligible" ELSE "none"
             new == NewTrial(i, f, ready, "waiting", "pilot_3", TRUE, ProtocolOf[i])
             begun == Activate(IF k = RegisterKey(s, i, f) THEN RefreshSource(r, f) ELSE r, ProtocolOf[i])
             old == IF r.ready = "pre_registered" THEN begun ELSE AttachPlan(r, ProtocolOf[i])
             q == IF r.status = "absent" THEN AddTrial(s, k, new) ELSE [s EXCEPT !.trial[k] = old]
  <1>1. k \in Keys /\ r \in TrialRecords
    BY RegisterTargetIsKey, SoundTrial
  <1>2. Sound(q)
    <2>1. CASE r.status = "absent"
      <3>1. new \in TrialRecords /\ new.status = "waiting"
        <4>1. "waiting" \in TrialStatuses /\ "pilot_3" \in Stages \cup {NoStage}
          BY DEF TrialStatuses, Runnable, Stages
        <4>2. ready \in {"none", "pre_registered", "asha_eligible"}
          OBVIOUS
        <4>3. ProtocolOf[i] \in {ProtocolOf[j] : j \in Ids} \cup {NoPlan}
          OBVIOUS
        <4> HIDE DEF ready
        <4>4. \A src \in BOOLEAN :
                LET n == NewTrial(i, f, ready, "waiting", "pilot_3", src, ProtocolOf[i])
                IN  n \in TrialRecords /\ n.status = "waiting"
          BY <4>1, <4>2, <4>3, NewTrialIsTrial
        <4> QED BY <4>4
      <3> HIDE DEF k, new
      <3> QED BY <1>1, <2>1, <3>1, AddTrialIsSound
    <2>2. CASE r.status # "absent"
      <3>1. k \in Registered(s)
        BY <1>1, <2>2 DEF Registered
      <3>2. RefreshSource(r, f) \in TrialRecords
        <4> HIDE DEF k, r
        <4> QED BY <1>1 DEF RefreshSource, TrialRecords
      <3>3. \/ Honest(old) /\ old.status = "waiting"
            \/ /\ old \in TrialRecords
               /\ old.status = r.status /\ old.pending = r.pending /\ old.obs = r.obs
        <4> HIDE DEF k, r
        <4> QED BY <1>1, <3>2, ActivatedTrial, PlannedTrial
      <3> HIDE DEF k, old
      <3> QED BY <2>2, <3>1, <3>3, OneRewritten
    <2> QED BY <2>1, <2>2
  <1>3. Climbing(q) /\ Retains(s, q) /\ SameGrants(s, q)
    <2>1. CASE r.status = "absent"
      <3>1. /\ new.status = "waiting" /\ new.pending = "pilot_3"
            /\ \A slot \in Slots : new.obs[slot].kind = "none"
        BY DEF NewTrial, NoTrial, NoObs
      <3>2. \A slot \in Slots : s.trial[k].obs[slot].kind = "none"
        <4>1. s.trial[k].status = "absent"
          BY <2>1
        <4> HIDE DEF k
        <4> QED BY <1>1, <4>1, AbsentIsBlank DEF Climbing
      <3>3. Goes(s.trial[k], new, AllocatedSlots(s, k))
        <4> HIDE DEF new
        <4> QED BY <3>1 DEF Goes
      <3>4. q.asg = s.asg /\ q.trial = [s.trial EXCEPT ![k] = new]
        BY <2>1 DEF AddTrial, Sound, Studies
      <3> HIDE DEF k, new, q
      <3> QED BY <1>1, <3>1, <3>2, <3>3, <3>4, OneGoes
    <2>2. CASE r.status # "absent"
      <3>1. \A t \in TrialRecords : /\ RefreshSource(t, f).obs = t.obs
                                    /\ RefreshSource(t, f) \in TrialRecords
                                    /\ Activate(t, ProtocolOf[i]).obs = t.obs
                                    /\ Activate(t, ProtocolOf[i]).status = "waiting"
                                    /\ Activate(t, ProtocolOf[i]).pending = "pilot_3"
        BY DEF RefreshSource, Activate, TrialRecords
      <3>2. /\ old.obs = r.obs
            /\ \/ old.status = r.status /\ old.pending = r.pending
               \/ old.status = "waiting" /\ old.pending = "pilot_3"
        <4> HIDE DEF k, r
        <4>1. begun.obs = r.obs /\ begun.status = "waiting" /\ begun.pending = "pilot_3"
          BY <1>1, <3>1
        <4>2. /\ AttachPlan(r, ProtocolOf[i]).obs = r.obs
              /\ AttachPlan(r, ProtocolOf[i]).status = r.status
              /\ AttachPlan(r, ProtocolOf[i]).pending = r.pending
          BY <1>1, PlannedTrial
        <4> QED BY <4>1, <4>2
      <3>3. q.asg = s.asg /\ q.trial = [s.trial EXCEPT ![k] = old]
        BY <2>2 DEF Sound, Studies
      <3> HIDE DEF k, old, q
      <3>4. Goes(s.trial[k], old, AllocatedSlots(s, k))
        BY <3>2 DEF Goes
      <3> QED BY <1>1, <3>2, <3>3, <3>4, OneGoes
    <2> QED BY <2>1, <2>2
  <1>4. Register(s, i, f) = Breaker(q, k)
    BY DEF Register
  <1> HIDE DEF q, k
  <1>5. Climbing(Breaker(q, k)) /\ Retains(q, Breaker(q, k)) /\ SameGrants(q, Breaker(q, k))
    BY <1>1, <1>2, <1>3, BreakerClimbs
  <1>6. Retains(s, Breaker(q, k)) /\ SameGrants(s, Breaker(q, k))
    BY <1>3, <1>5, RetainsIsTransitive DEF SameGrants
  <1> QED BY <1>4, <1>5, <1>6

LEMMA PreRegisterClimbs ==
  ASSUME NEW s, Sound(s), Climbing(s), NEW i \in Ids, NEW f \in Fps, NEW src \in BOOLEAN
  PROVE  LET q == PreRegister(s, i, f, src) IN Climbing(q) /\ Retains(s, q) /\ SameGrants(s, q)
  <1> DEFINE k == PreRegisterTarget(s, i, f)
             r == s.trial[k]
             new == NewTrial(i, f, "pre_registered", "needs_evidence", NoStage, src, NoPlan)
             blocked == [r EXCEPT !.ready = "pre_registered", !.status = "needs_evidence",
                                  !.pending = NoStage, !.adapter = FALSE]
             q == PreRegister(s, i, f, src)
  <1>1. k \in Keys /\ r \in TrialRecords
    BY PreRegisterTargetIsKey, SoundTrial
  <1>2. CASE r.status = "absent"
    <2>1. /\ new.status = "needs_evidence"
          /\ \A slot \in Slots : new.obs[slot].kind = "none"
      BY DEF NewTrial, NoTrial, NoObs
    <2>2. \A slot \in Slots : s.trial[k].obs[slot].kind = "none"
      <3>1. s.trial[k].status = "absent"
        BY <1>2
      <3> HIDE DEF k
      <3> QED BY <1>1, <3>1, AbsentIsBlank DEF Climbing
    <2>3. q.asg = s.asg /\ q.trial = [s.trial EXCEPT ![k] = new]
      BY <1>2 DEF PreRegister, AddTrial, Sound, Studies
    <2> HIDE DEF k, new, q
    <2>4. Goes(s.trial[k], new, AllocatedSlots(s, k))
      BY <2>1 DEF Goes, Settled
    <2>5. Climbing(q) /\ Retains(s, q) /\ SameGrants(s, q)
      BY <1>1, <2>1, <2>2, <2>3, <2>4, OneGoes
    <2> QED BY <2>5 DEF q
  <1>3. CASE r.status # "absent" /\ r.ready # "asha_eligible"
    <2>1. blocked.obs = r.obs /\ blocked.status = "needs_evidence"
      <3> HIDE DEF k, r
      <3> QED BY <1>1 DEF TrialRecords
    <2>2. q.asg = s.asg /\ q.trial = [s.trial EXCEPT ![k] = blocked]
      BY <1>3 DEF PreRegister, Sound, Studies
    <2> HIDE DEF k, blocked, q
    <2>3. Goes(s.trial[k], blocked, AllocatedSlots(s, k))
      BY <2>1 DEF Goes, Settled
    <2>4. Climbing(q) /\ Retains(s, q) /\ SameGrants(s, q)
      BY <1>1, <2>1, <2>2, <2>3, OneGoes
    <2> QED BY <2>4 DEF q
  <1>4. CASE r.status # "absent" /\ r.ready = "asha_eligible"
    BY <1>4, RetainsItself DEF PreRegister
  <1> QED BY <1>2, <1>3, <1>4

-----------------------------------------------------------------------------
(* The last element of a list in a set it meets is in that set.            *)
LEMMA GreatestIndex ==
  ASSUME NEW n \in Nat, NEW T \in SUBSET (1..n), T # {}
  PROVE  \E i \in T : \A j \in T : j =< i
  <1> DEFINE U == {l \in Nat : n - l \in T}
  <1>1. \A i \in T : i \in 1..n /\ n - i \in U
    OBVIOUS
  <1>2. U \in SUBSET Nat /\ U # {}
    BY <1>1
  <1>3. PICK m \in U : \A l \in U : m =< l
    BY <1>2, LeastIndex
  <1>4. m \in Nat /\ n - m \in T
    BY <1>3
  <1> HIDE DEF U
  <1>5. \A j \in T : j =< n - m
    <2>1. ASSUME NEW j \in T PROVE j =< n - m
      <3>1. j \in 1..n /\ m =< n - j
        BY <1>1, <1>3
      <3> QED BY <1>4, <3>1
    <2> QED BY <2>1
  <1> QED BY <1>4, <1>5

LEMMA LastInIsIn ==
  ASSUME NEW X, NEW list \in Seq(X), NEW S, IndicesIn(list, S) # {}
  PROVE  LastIn(list, S) \in S
  <1>1. Len(list) \in Nat /\ IndicesIn(list, S) \in SUBSET (1..Len(list))
    BY LenProperties DEF IndicesIn
  <1>2. \E i \in IndicesIn(list, S) : \A j \in IndicesIn(list, S) : j =< i
    BY <1>1, GreatestIndex
  <1> DEFINE last == CHOOSE i \in IndicesIn(list, S) : \A j \in IndicesIn(list, S) : j =< i
  <1>3. last \in IndicesIn(list, S)
    BY <1>2
  <1> QED BY <1>3 DEF LastIn, IndicesIn

(* What a trial is restored to is the slot of one of the assignments it is *)
(* restored for.                                                           *)
LEMMA RestoredForOne ==
  ASSUME NEW s, Sound(s), NEW T \in SUBSET Assignments, T # {},
         \A a \in T : s.asg[a].status # "none"
  PROVE  LastIn(s.alist, T) \in T
  <1>1. PICK a \in T : TRUE
    OBVIOUS
  <1>2. IndicesIn(s.alist, {a}) # {}
    BY DEF Sound, Listed
  <1>3. IndicesIn(s.alist, T) # {}
    BY <1>2 DEF IndicesIn
  <1>4. s.alist \in Seq(Assignments)
    BY DEF Sound, Studies, Assignments
  <1> QED BY <1>3, <1>4, LastInIsIn

(* A trial of which nothing but the status is rewritten.                   *)
LEMMA RestoredKeepsEvidence ==
  ASSUME NEW r \in TrialRecords, NEW slot
  PROVE  /\ Restored(r, slot).obs = r.obs
         /\ Restored(r, slot).status = RestoredStatus(slot)
         /\ Restored(r, slot).pending = StageOf(slot)
  BY DEF Restored, TrialRecords

LEMMA DeferNativeClimbs ==
  ASSUME NEW s, Sound(s), Climbing(s)
  PROVE  LET q == DeferNative(s) IN Climbing(q) /\ Retains(s, q) /\ SameGrants(s, q)
  <1> DEFINE q == DeferNative(s)
             mine(k) == {a \in NativeOutstanding(s) : a[1] = k}
             last(k) == LastIn(s.alist, mine(k))
             restored(k) == Restored(s.trial[k], last(k)[2])
  <1>1. \A k \in Keys : q.trial[k] = IF mine(k) = {} THEN s.trial[k] ELSE restored(k)
    BY DEF DeferNative, Sound, Studies
  <1>2. \A a \in Assignments : \/ q.asg[a] = s.asg[a]
                              \/ /\ s.asg[a].status \in Outstanding
                                 /\ q.asg[a].status = "deferred"
    BY DeferNativeIsSound
  <1>3. ASSUME NEW k \in Keys
        PROVE  q.trial[k].obs = s.trial[k].obs /\ Goes(s.trial[k], q.trial[k], AllocatedSlots(s, k))
    <2>1. CASE mine(k) = {}
      <3>1. q.trial[k] = s.trial[k]
        BY <1>1, <2>1
      <3> HIDE DEF q
      <3> QED BY <3>1, UntouchedGoes
    <2>2. CASE mine(k) # {}
      <3>1. mine(k) \in SUBSET Assignments /\ \A a \in mine(k) : s.asg[a].status \in Outstanding
        BY DEF NativeOutstanding, OutstandingAssignments, Assignments
      <3>2. last(k) \in mine(k)
        <4> HIDE DEF mine
        <4> QED BY <2>2, <3>1, RestoredForOne DEF Outstanding
      <3>3. last(k) = <<k, last(k)[2]>> /\ last(k)[2] \in Slots /\ last(k) \in Assignments
        BY <3>1, <3>2 DEF Assignments
      <3>4. s.asg[last(k)].status \in Outstanding
        BY <3>1, <3>2
      <3>5. q.trial[k] = restored(k)
        BY <1>1, <2>2
      <3> HIDE DEF q, mine, last
      <3>6. last(k)[1] = k
        BY <3>3
      <3>7. s.trial[k].obs[last(k)[2]].kind = "none"
        BY <3>3, <3>4, <3>6, OwedIsUnobserved DEF Climbing, Owed
      <3>8. last(k)[2] \in AllocatedSlots(s, k)
        BY <3>3, <3>4 DEF AllocatedSlots, Outstanding
      <3>9. /\ q.trial[k].obs = s.trial[k].obs
            /\ q.trial[k].status = RestoredStatus(last(k)[2])
            /\ q.trial[k].pending = StageOf(last(k)[2])
        BY <3>5, SoundTrial, RestoredKeepsEvidence
      <3>10. Goes(s.trial[k], q.trial[k], AllocatedSlots(s, k))
        BY <3>7, <3>8, <3>9 DEF Goes
      <3> QED BY <3>9, <3>10
    <2> QED BY <2>1, <2>2
  <1> HIDE DEF q
  <1>4. Retains(s, q) /\ SameGrants(s, q)
    <2>1. PromotesNone(s, q)
      BY <1>2, <1>3, GoingPromotesNone
    <2> QED BY <1>2, <1>3, <2>1 DEF Retains, KeepsEvidence, SameGrants, Owed, Outstanding
  <1>5. ResultsMatch(q)
    <2>1. ASSUME NEW a \in Assignments
          PROVE  q.trial[a[1]].obs[a[2]].kind = s.trial[a[1]].obs[a[2]].kind
      BY <1>3 DEF Assignments
    <2> QED BY <1>2, <2>1 DEF Climbing, ResultsMatch, Outstanding
  <1>6. Climbing(q)
    BY <1>3, <1>4, <1>5, StudyGoes
  <1> QED BY <1>4, <1>6 DEF q

(* Reopening drops the observation of a failure only.                      *)
LEMMA ReopenClimbs ==
  ASSUME NEW s, Sound(s), Climbing(s), NEW S \in SUBSET Reopenable(s)
  PROVE  LET q == Reopen(s, S) IN Climbing(q) /\ Retains(s, q) /\ SameGrants(s, q)
  <1> DEFINE q == Reopen(s, S)
             mine(k) == {a \in S : a[1] = k}
             last(k) == LastIn(s.alist, mine(k))
             cleared(k) == [s.trial[k] EXCEPT !.adapter = FALSE,
                              !.obs = [slot \in Slots |-> IF <<k, slot>> \in S THEN NoObs ELSE @[slot]]]
             restored(k) == Restored(cleared(k), last(k)[2])
  <1>1. /\ \A k \in Keys : q.trial[k] = IF mine(k) = {} THEN s.trial[k] ELSE restored(k)
        /\ \A a \in Assignments : q.asg[a] = IF a \in S THEN [status |-> "issued", bound |-> FALSE]
                                            ELSE s.asg[a]
    BY DEF Reopen, Sound, Studies
  <1>2. /\ S \in SUBSET Assignments
        /\ \A a \in S : s.asg[a].status = "failed" /\ s.trial[a[1]].obs[a[2]].kind = "failed"
    BY DEF Reopenable, Climbing, ResultsMatch
  <1>3. ASSUME NEW k \in Keys
        PROVE  /\ \A slot \in Slots : q.trial[k].obs[slot] =
                    IF <<k, slot>> \in S THEN NoObs ELSE s.trial[k].obs[slot]
               /\ Goes(s.trial[k], q.trial[k], AllocatedSlots(s, k))
    <2>1. CASE mine(k) = {}
      <3>1. q.trial[k] = s.trial[k]
        BY <1>1, <2>1
      <3>2. \A slot \in Slots : <<k, slot>> \notin S
        BY <2>1
      <3> HIDE DEF q
      <3> QED BY <3>1, <3>2, UntouchedGoes
    <2>2. CASE mine(k) # {}
      <3>1. mine(k) \in SUBSET Assignments /\ \A a \in mine(k) : s.asg[a].status = "failed"
        BY <1>2
      <3>2. last(k) \in mine(k)
        <4> HIDE DEF mine
        <4> QED BY <2>2, <3>1, RestoredForOne
      <3>3. /\ last(k) = <<k, last(k)[2]>> /\ last(k)[2] \in Slots /\ last(k) \in Assignments
            /\ last(k) \in S
        BY <3>1, <3>2 DEF Assignments
      <3>4. s.asg[last(k)].status = "failed"
        BY <3>1, <3>2
      <3>5. q.trial[k] = restored(k)
        BY <1>1, <2>2
      <3>6. /\ cleared(k) \in TrialRecords
            /\ \A slot \in Slots : cleared(k).obs[slot] =
                 IF <<k, slot>> \in S THEN NoObs ELSE s.trial[k].obs[slot]
        <4> DEFINE obs == [slot \in Slots |-> IF <<k, slot>> \in S THEN NoObs ELSE s.trial[k].obs[slot]]
        <4>1. s.trial[k] \in TrialRecords /\ s.trial[k].obs \in [Slots -> Observations]
          BY SoundTrial DEF TrialRecords
        <4>2. NoObs \in Observations
          BY DEF NoObs, Observations, ObsKinds, Causes, Gates
        <4>3. obs \in [Slots -> Observations]
          BY <4>1, <4>2
        <4>4. cleared(k) = [s.trial[k] EXCEPT !.adapter = FALSE, !.obs = obs]
          BY <4>1 DEF TrialRecords
        <4>5. \A slot \in Slots : obs[slot] = IF <<k, slot>> \in S THEN NoObs ELSE s.trial[k].obs[slot]
          OBVIOUS
        <4> HIDE DEF obs, cleared
        <4>6. cleared(k) \in TrialRecords /\ cleared(k).obs = obs
          BY <4>1, <4>3, <4>4 DEF TrialRecords
        <4> QED BY <4>5, <4>6
      <3> HIDE DEF q, mine, last, cleared
      <3>7. /\ q.trial[k].obs = cleared(k).obs
            /\ q.trial[k].status = RestoredStatus(last(k)[2])
            /\ q.trial[k].pending = StageOf(last(k)[2])
        BY <3>5, <3>6, RestoredKeepsEvidence
      <3>8. q.trial[k].obs[last(k)[2]].kind = "none"
        BY <3>3, <3>6, <3>7 DEF NoObs
      <3>9. last(k)[2] \in AllocatedSlots(s, k)
        BY <3>3, <3>4 DEF AllocatedSlots
      <3>10. Goes(s.trial[k], q.trial[k], AllocatedSlots(s, k))
        BY <3>7, <3>8, <3>9 DEF Goes
      <3> QED BY <3>6, <3>7, <3>10
    <2> QED BY <2>1, <2>2
  <1> HIDE DEF q, mine, last, cleared, restored
  <1>4. ASSUME NEW k \in Keys PROVE KeepsEvidence(s.trial[k], q.trial[k])
    <2>1. ASSUME NEW slot \in Slots, <<k, slot>> \in S
          PROVE  q.trial[k].obs[slot].kind = "none" /\ s.trial[k].obs[slot].kind = "failed"
      BY <1>2, <1>3, <2>1 DEF NoObs
    <2> QED BY <1>3, <2>1 DEF KeepsEvidence
  <1>5. Retains(s, q) /\ SameGrants(s, q)
    <2>1. ASSUME NEW a \in Assignments
          PROVE  \/ q.asg[a] = s.asg[a]
                 \/ s.asg[a].status = "failed" /\ q.asg[a].status = "issued"
      BY <1>1, <1>2
    <2>2. PromotesNone(s, q)
      BY <1>3, <2>1, GoingPromotesNone
    <2> QED BY <1>4, <2>1, <2>2 DEF Retains, SameGrants, Owed, Outstanding
  <1>6. ResultsMatch(q)
    <2>1. ASSUME NEW a \in Assignments
          PROVE  q.trial[a[1]].obs[a[2]] = IF a \in S THEN NoObs ELSE s.trial[a[1]].obs[a[2]]
      <3>1. a[1] \in Keys /\ a[2] \in Slots /\ a = <<a[1], a[2]>>
        BY DEF Assignments
      <3> QED BY <1>3, <3>1
    <2>2. ASSUME NEW a \in Assignments, a \in S
          PROVE  q.trial[a[1]].obs[a[2]].kind = "none" /\ q.asg[a].status = "issued"
      BY <1>1, <2>1, <2>2 DEF NoObs
    <2>3. ASSUME NEW a \in Assignments, a \notin S
          PROVE  q.trial[a[1]].obs[a[2]] = s.trial[a[1]].obs[a[2]] /\ q.asg[a] = s.asg[a]
      BY <1>1, <2>1, <2>3
    <2> QED BY <2>2, <2>3 DEF Climbing, ResultsMatch
  <1>7. Climbing(q)
    BY <1>3, <1>5, <1>6, StudyGoes
  <1> QED BY <1>5, <1>7 DEF q

-----------------------------------------------------------------------------
(***************************************************************************)
(* Allocation.                                                             *)
(***************************************************************************)

(* An assignment is to be handed out: it has no result, and what lies below*)
(* it is passed.                                                           *)
Due(s, a) ==
  /\ s.asg[a].status \in Owed \cup {"none"}
  /\ Grounded(a[1], s.trial[a[1]], a[2])

LEMMA MarkRunningClimbs ==
  ASSUME NEW s, Sound(s), Climbing(s), NEW a \in Assignments, s.asg[a].status \in Owed
  PROVE  LET q == MarkRunning(s, a) IN
         Climbing(q) /\ Retains(s, q) /\ SameGrants(s, q) /\ q.asg[a].status = "running"
  <1> DEFINE q == MarkRunning(s, a)
             r == [s.trial[a[1]] EXCEPT !.status = "running", !.pending = StageOf(a[2])]
  <1>1. a[1] \in Keys /\ a[2] \in Slots /\ a = <<a[1], a[2]>>
    BY DEF Assignments
  <1>2. q.asg[a].status = "running" /\ \A b \in Assignments \ {a} : q.asg[b] = s.asg[b]
    BY MarkRunningIsSound DEF Owed, Outstanding
  <1>3. q.trial = [s.trial EXCEPT ![a[1]] = r]
    BY <1>1 DEF MarkRunning, Sound, Studies, TrialRecords
  <1>4. r.obs = s.trial[a[1]].obs /\ r.status = "running"
    BY <1>1, SoundTrial DEF TrialRecords
  <1> HIDE DEF q, r
  <1>5. q.trial[a[1]] = r /\ \A k \in Keys \ {a[1]} : q.trial[k] = s.trial[k]
    BY <1>1, <1>3 DEF Sound, Studies
  <1>6. ASSUME NEW k \in Keys
        PROVE  q.trial[k].obs = s.trial[k].obs /\ Goes(s.trial[k], q.trial[k], AllocatedSlots(s, k))
    BY <1>4, <1>5, UntouchedGoes DEF Goes, Settled
  <1>7. Retains(s, q) /\ SameGrants(s, q)
    <2>1. PromotesNone(s, q)
      BY <1>2, <1>6, GoingPromotesNone DEF Owed, Outstanding
    <2> QED BY <1>2, <1>6, <2>1 DEF Retains, KeepsEvidence, SameGrants, Owed, Outstanding
  <1>8. ResultsMatch(q)
    <2>1. ASSUME NEW b \in Assignments
          PROVE  q.trial[b[1]].obs[b[2]].kind = s.trial[b[1]].obs[b[2]].kind
      BY <1>6 DEF Assignments
    <2>2. s.trial[a[1]].obs[a[2]].kind = "none"
      BY OwedIsUnobserved DEF Climbing
    <2> QED BY <1>2, <2>1, <2>2 DEF Climbing, ResultsMatch
  <1>9. Climbing(q)
    BY <1>6, <1>7, <1>8, StudyGoes
  <1> QED BY <1>2, <1>7, <1>9 DEF q

LEMMA AllocateClimbs ==
  ASSUME NEW s, Sound(s), Climbing(s), NEW a \in Assignments, a[1] \in Registered(s), Due(s, a)
  PROVE  LET q == Allocate(s, a) IN
         /\ Climbing(q) /\ Retains(s, q) /\ q.trial = s.trial
         /\ q.asg[a].status \in Owed
         /\ \A b \in Assignments \ {a} : q.asg[b] = s.asg[b]
  <1> DEFINE q == Allocate(s, a)
             issued == [status |-> "issued", bound |-> FALSE]
  <1>1. a[1] \in Keys /\ a[2] \in Slots /\ a = <<a[1], a[2]>>
    BY DEF Assignments
  <1>2. /\ q.trial = s.trial
        /\ \A b \in Assignments \ {a} : q.asg[b] = s.asg[b]
        /\ q.asg[a] = s.asg[a] \/ q.asg[a] = issued
        /\ s.asg[a].status \in {"none", "deferred"} => q.asg[a] = issued
    BY DEF Allocate, Sound, Studies, Assignments
  <1> HIDE DEF q
  <1>3. q.asg[a].status \in Owed
    BY <1>2 DEF Due, Owed, Outstanding
  <1>4. Retains(s, q)
    BY <1>2, <1>3 DEF Retains, KeepsEvidence, PromotesNone, Owed, Outstanding
  <1>5. ResultsMatch(q)
    <2>1. s.trial[a[1]].obs[a[2]].kind = "none"
      BY OwedIsUnobserved DEF Climbing, Due
    <2> QED BY <1>2, <1>3, <2>1 DEF Climbing, ResultsMatch, Owed, Outstanding
  <1>6. ASSUME NEW k \in Keys PROVE Fits(k, q.trial[k], AllocatedSlots(q, k))
    <2>1. Fits(k, s.trial[k], AllocatedSlots(s, k))
      BY DEF Climbing
    <2>2. ASSUME NEW slot \in AllocatedSlots(q, k) PROVE Grounded(k, s.trial[k], slot)
      <3>1. CASE <<k, slot>> = a
        BY <1>1, <3>1 DEF Due
      <3>2. CASE <<k, slot>> # a
        <4>1. slot \in AllocatedSlots(s, k)
          BY <1>2, <3>2 DEF AllocatedSlots, Assignments
        <4> QED BY <2>1, <4>1 DEF Fits
      <3> QED BY <3>1, <3>2
    <2> QED BY <1>2, <2>1, <2>2 DEF Fits
  <1> QED BY <1>2, <1>3, <1>4, <1>5, <1>6 DEF Climbing, q

LEMMA OfferedIsDue ==
  ASSUME NEW s, Sound(s), Climbing(s), NEW c \in BOOLEAN, NEW p \in 1..4, NEW b \in Passes(s, c)[p]
  PROVE  Due(s, b)
  <1>1. b \in Assignments
    BY OfferedIsAssignment
  <1>2. b[1] \in Keys /\ b[2] \in Slots
    BY <1>1 DEF Assignments
  <1> DEFINE k == b[1]
             r == s.trial[k]
  <1>3. StatusFits(k, r) /\ r \in TrialRecords
    BY <1>2, SoundTrial DEF Climbing, Fits
  <1>4. r.obs[b[2]].kind = "none" /\ Grounded(k, r, b[2])
    <2>1. CASE p = 1
      <3>1. /\ r.status = "confirmation_pending" /\ b[2] = MissingSeed(r)
            /\ \E slot \in {"full_2", "full_3"} : r.obs[slot].kind = "none"
        BY <2>1 DEF Passes, TrialsAt
      <3>2. Reached(k, r, "full_2") /\ Reached(k, r, "full_3")
        BY <1>3, <3>1, ReachedFacts DEF StatusFits
      <3> HIDE DEF k, r
      <3> QED BY <1>3, <3>1, <3>2 DEF StatusFits, MissingSeed, Grounded
    <2>2. CASE p = 2
      <3>1. r.status = "full_pending_confirmation" /\ b[2] = "full_1"
        BY <2>2 DEF Passes, TrialsAt
      <3> HIDE DEF k, r
      <3> QED BY <1>3, <3>1 DEF StatusFits, Grounded
    <2>3. CASE p = 3
      <3>1. b[2] = "pilot_3" /\ r.obs["pilot_3"].kind = "none"
        BY <2>3 DEF Passes, TrialsAt, Pilot
      <3>2. Reached(k, r, "pilot_3")
        BY ReachedFacts
      <3> HIDE DEF k, r
      <3> QED BY <3>1, <3>2 DEF Grounded
    <2>4. CASE p = 4
      <3>1. r.status = "promotion_pending" /\ b[2] = "pilot_10"
        BY <2>4 DEF Passes, TrialsAt
      <3> HIDE DEF k, r
      <3> QED BY <1>3, <3>1 DEF StatusFits, Grounded
    <2> QED BY <2>1, <2>2, <2>3, <2>4
  <1> HIDE DEF Passes
  <1> QED BY <1>1, <1>4, OwedIsUnobserved DEF Climbing, Due

LEMMA SelectionIsDue ==
  ASSUME NEW s, Sound(s), Climbing(s), NEW c \in BOOLEAN, NEW paperOnly \in BOOLEAN,
         NEW a, a = Selection(s, c, paperOnly), a # NoAssignment
  PROVE  Due(s, a)
  <1>1. CASE a \in Recoverable(s, c, paperOnly)
    <2>1. a[1] \in Keys /\ a[2] \in Slots /\ s.asg[a].status \in Outstanding /\ a = <<a[1], a[2]>>
      BY <1>1 DEF Recoverable, OutstandingAssignments
    <2>2. a[2] \in AllocatedSlots(s, a[1])
      BY <2>1 DEF AllocatedSlots, Outstanding
    <2> QED BY <2>1, <2>2 DEF Climbing, Fits, Due, Owed
  <1>2. CASE \E p \in 1..4 : a \in Passes(s, c)[p]
    BY <1>2, OfferedIsDue
  <1> QED BY <1>1, <1>2, SelectionIsOffered

(* next_assignment grants at most the assignment it hands out, which can be*)
(* claimed and rests on passed rungs.                                      *)
LEMMA NextAssignmentClimbs ==
  ASSUME NEW s, Sound(s), Climbing(s), NEW c \in BOOLEAN
  PROVE  LET next == NextAssignment(s, c)
             a == next.assignment
         IN  /\ Climbing(next.study) /\ Retains(s, next.study)
             /\ a = NoAssignment => SameGrants(s, next.study)
             /\ a # NoAssignment =>
                  /\ a \in Assignments /\ next.study.asg[a].status \in Owed
                  /\ Grounded(a[1], next.study.trial[a[1]], a[2])
             /\ \A b \in Assignments :
                  next.study.asg[b].status = "none" <=> s.asg[b].status = "none" /\ b # a
  <1> DEFINE paperOnly == PaperPending(s, c)
             deferred == IF paperOnly THEN DeferNative(s) ELSE s
             a == Selection(deferred, c, paperOnly)
             left == IF a = NoAssignment THEN deferred ELSE Allocate(deferred, a)
  <1>1. NextAssignment(s, c).study = left /\ NextAssignment(s, c).assignment = a
    BY DEF NextAssignment
  <1>2. paperOnly \in BOOLEAN
    BY DEF PaperPending
  <1>3. Sound(deferred) /\ Climbing(deferred) /\ Retains(s, deferred) /\ SameGrants(s, deferred)
    <2>1. CASE paperOnly
      BY <2>1, DeferNativeIsSound, DeferNativeClimbs
    <2>2. CASE ~paperOnly
      BY <2>2, RetainsItself
    <2> QED BY <2>1, <2>2
  <1> HIDE DEF paperOnly, deferred
  <1>4. CASE a = NoAssignment
    <2>1. \A b \in Assignments : b # NoAssignment
      BY DEF Assignments, NoAssignment
    <2> QED BY <1>1, <1>3, <1>4, <2>1 DEF SameGrants
  <1>5. CASE a # NoAssignment
    <2>1. a \in Assignments /\ a[1] \in Registered(deferred) /\ Due(deferred, a)
      BY <1>2, <1>3, <1>5, SelectionIsAssignment, SelectionIsDue
    <2>2. left = Allocate(deferred, a)
      BY <1>5
    <2> HIDE DEF a, left
    <2>3. /\ Climbing(left) /\ Retains(deferred, left) /\ left.trial = deferred.trial
          /\ left.asg[a].status \in Owed
          /\ \A b \in Assignments \ {a} : left.asg[b] = deferred.asg[b]
      BY <1>3, <2>1, <2>2, AllocateClimbs
    <2>4. Retains(s, left)
      BY <1>3, <2>3, RetainsIsTransitive
    <2>5. Grounded(a[1], left.trial[a[1]], a[2])
      BY <2>1, <2>3 DEF Due
    <2>6. \A b \in Assignments : left.asg[b].status = "none" <=> s.asg[b].status = "none" /\ b # a
      <3>1. left.asg[a].status # "none"
        BY <2>3 DEF Owed, Outstanding
      <3> QED BY <1>3, <2>3, <3>1 DEF SameGrants
    <2> QED BY <1>1, <1>5, <2>1, <2>3, <2>4, <2>5, <2>6
  <1> QED BY <1>4, <1>5

-----------------------------------------------------------------------------
(***************************************************************************)
(* Reports.                                                                *)
(***************************************************************************)
LEMMA PassedIsPassing ==
  ASSUME NEW s, NEW k
  PROVE  PassedSlots(s, k) = {slot \in Slots : PassesAt(k, slot, s.trial[k].obs[slot])}
  BY DEF PassedSlots, PassesAt

LEMMA RetainsPassed ==
  ASSUME NEW s, NEW q, Retains(s, q), NEW k \in Keys
  PROVE  PassedSlots(q, k) = PassedSlots(s, k)
  <1>1. KeepsEvidence(s.trial[k], q.trial[k])
    BY DEF Retains
  <1>2. ASSUME NEW slot \in Slots
        PROVE  PassesAt(k, slot, q.trial[k].obs[slot]) <=> PassesAt(k, slot, s.trial[k].obs[slot])
    <2>1. CASE q.trial[k].obs[slot] = s.trial[k].obs[slot]
      BY <2>1
    <2>2. CASE /\ q.trial[k].obs[slot].kind = "none"
               /\ s.trial[k].obs[slot].kind \in {"none", "failed"}
      BY <2>2, PassingIsComplete
    <2> QED BY <1>1, <2>1, <2>2 DEF KeepsEvidence
  <1> QED BY <1>2, PassedIsPassing

(* Only trials whose pilot_3 is passed are promoted.                       *)
LEMMA RefreshClimbs ==
  ASSUME NEW s, Sound(s), Climbing(s)
  PROVE  LET q == RefreshPilot3Promotions(s) IN
         Climbing(q) /\ q.asg = s.asg /\ \A k \in Keys : q.trial[k].obs = s.trial[k].obs
  <1> DEFINE q == RefreshPilot3Promotions(s)
  <1>1. ASSUME NEW k \in Keys
        PROVE  q.trial[k].obs = s.trial[k].obs /\ StatusFits(k, q.trial[k])
    <2> DEFINE r == s.trial[k]
    <2>1. r \in TrialRecords /\ StatusFits(k, r)
      BY SoundTrial DEF Climbing, Fits
    <2>2. Eliminated(r).obs = r.obs /\ Eliminated(r).status = "eliminated"
      <3> HIDE DEF r
      <3> QED BY <2>1 DEF Eliminated, TrialRecords
    <2>3. Promoted(r).obs = r.obs /\ Promoted(r).status = "promotion_pending"
      <3> HIDE DEF r
      <3> QED BY <2>1 DEF Promoted, TrialRecords
    <2>4. Promotable(s, k) => Reached(k, r, "pilot_10") /\ r.obs["pilot_10"].kind = "none"
      <3>1. SUFFICES ASSUME Promotable(s, k) PROVE PassesAt(k, "pilot_3", r.obs["pilot_3"])
        BY ReachedFacts DEF Promotable
      <3>2. /\ r.obs["pilot_3"].kind = "complete"
            /\ ~(r.obs["pilot_3"].delta < Floor(k))
        BY <3>1 DEF Promotable, IsPilotWinner, PilotEligible, PilotRejected, PilotCompleted, Pilot
      <3>3. r.obs["pilot_3"].delta \in Int
        BY <2>1, SlotIsNamed DEF TrialRecords, Observations
      <3> QED BY <3>2, <3>3, FloorIsInteger DEF PassesAt
    <2>5. \/ q.trial[k] = r
          \/ q.trial[k] = Eliminated(r)
          \/ Promotable(s, k) /\ q.trial[k] = Promoted(r)
      <3>1. q.trial[k] = IF k \in PilotRejected(s, Cohort(s, k)) THEN Eliminated(r)
                         ELSE IF Promotable(s, k) THEN Promoted(r)
                         ELSE r
        BY RefreshedTrial
      <3> HIDE DEF q, r
      <3>2. CASE k \in PilotRejected(s, Cohort(s, k))
        BY <3>1, <3>2
      <3>3. CASE k \notin PilotRejected(s, Cohort(s, k)) /\ Promotable(s, k)
        BY <3>1, <3>3
      <3>4. CASE k \notin PilotRejected(s, Cohort(s, k)) /\ ~Promotable(s, k)
        BY <3>1, <3>4
      <3> QED BY <3>2, <3>3, <3>4
    <2> HIDE DEF q, r
    <2>6. CASE q.trial[k] = r
      BY <2>1, <2>6 DEF r
    <2>7. CASE q.trial[k] = Eliminated(r)
      BY <2>2, <2>7 DEF r, StatusFits
    <2>8. CASE Promotable(s, k) /\ q.trial[k] = Promoted(r)
      BY <2>3, <2>4, <2>8 DEF r, StatusFits, Reached
    <2> QED BY <2>5, <2>6, <2>7, <2>8
  <1>2. q.asg = s.asg
    BY DEF RefreshPilot3Promotions, Sound, Studies
  <1> HIDE DEF q
  <1>3. ResultsMatch(q)
    <2>1. ASSUME NEW a \in Assignments
          PROVE  q.trial[a[1]].obs[a[2]] = s.trial[a[1]].obs[a[2]]
      BY <1>1 DEF Assignments
    <2> QED BY <1>2, <2>1 DEF Climbing, ResultsMatch
  <1>4. ASSUME NEW k \in Keys PROVE Fits(k, q.trial[k], AllocatedSlots(q, k))
    <2>1. AllocatedSlots(q, k) = AllocatedSlots(s, k)
      BY <1>2 DEF AllocatedSlots
    <2>2. \A slot \in AllocatedSlots(s, k) : Grounded(k, q.trial[k], slot)
      BY <1>1 DEF Climbing, Fits, Grounded, Reached
    <2> QED BY <1>1, <2>1, <2>2 DEF Fits
  <1>5. Climbing(q)
    BY <1>3, <1>4 DEF Climbing
  <1> QED BY <1>1, <1>2, <1>5 DEF q

LEMMA FiledClimbs ==
  ASSUME NEW s, Sound(s), Climbing(s), NEW k \in Keys, NEW slot \in Slots, NEW o \in Observations,
         s.asg[<<k, slot>>].status # "none", o.kind # "none",
         s.trial[k].obs[slot].kind # "complete"
  PROVE  LET q == Filed(s, k, slot, o) IN
         /\ Climbing(q) /\ SameGrants(s, q)
         /\ q.trial[k].obs = [s.trial[k].obs EXCEPT ![slot] = o]
         /\ \A m \in Keys \ {k} : q.trial[m] = s.trial[m]
  <1> DEFINE q == Filed(s, k, slot, o)
             b == <<k, slot>>
  <1>1. /\ q.trial[k] = Import(s.trial[k], slot, o)
        /\ \A m \in Keys \ {k} : q.trial[m] = s.trial[m]
        /\ \A a \in Assignments \ {b} : q.asg[a] = s.asg[a]
        /\ q.asg[b].status = IF o.kind = "failed" THEN "failed" ELSE "completed"
    BY FiledIsSound
  <1>2. b \in Assignments /\ b[1] = k /\ b[2] = slot /\ \A a \in Assignments : a = <<a[1], a[2]>>
    BY DEF Assignments
  <1> HIDE DEF q
  <1>3. /\ Fits(k, q.trial[k], AllocatedSlots(s, k))
        /\ q.trial[k].obs = [s.trial[k].obs EXCEPT ![slot] = o]
    <2>1. s.trial[k] \in TrialRecords /\ Fits(k, s.trial[k], AllocatedSlots(s, k))
      BY SoundTrial DEF Climbing
    <2>2. slot \in AllocatedSlots(s, k) /\ AllocatedSlots(s, k) \in SUBSET Slots
      BY DEF AllocatedSlots
    <2>3. \A c \in Slots : s.trial[k].obs[c].kind # "none" => c \in AllocatedSlots(s, k)
      BY ObservedIsAllocated DEF Climbing
    <2> QED BY <1>1, <2>1, <2>2, <2>3, ImportFits
  <1>4. SameGrants(s, q)
    BY <1>1, <1>2 DEF SameGrants
  <1>5. ResultsMatch(q)
    <2>1. s.trial[k].obs \in [Slots -> Observations]
      BY SoundTrial DEF TrialRecords
    <2>2. ASSUME NEW a \in Assignments, a # b
          PROVE  q.trial[a[1]].obs[a[2]] = s.trial[a[1]].obs[a[2]] /\ q.asg[a] = s.asg[a]
      <3>1. a[1] \in Keys /\ a[2] \in Slots /\ (a[1] = k => a[2] # slot)
        BY <1>2, <2>2 DEF Assignments
      <3> QED BY <1>1, <1>3, <2>1, <2>2, <3>1
    <2>3. q.trial[b[1]].obs[b[2]] = o
      BY <1>2, <1>3, <2>1
    <2>4. o.kind \in ObsKinds
      BY DEF Observations
    <2> HIDE DEF b
    <2>5. ASSUME NEW a \in Assignments
          PROVE  /\ q.trial[a[1]].obs[a[2]].kind = "failed" <=> q.asg[a].status = "failed"
                 /\ q.trial[a[1]].obs[a[2]].kind \in {"partial", "complete"} <=> q.asg[a].status = "completed"
      <3>1. CASE a = b
        BY <1>1, <2>3, <2>4, <3>1 DEF ObsKinds
      <3>2. CASE a # b
        BY <2>2, <3>2 DEF Climbing, ResultsMatch
      <3> QED BY <3>1, <3>2
    <2> QED BY <2>5 DEF ResultsMatch
  <1>6. ASSUME NEW m \in Keys PROVE Fits(m, q.trial[m], AllocatedSlots(q, m))
    <2>1. AllocatedSlots(q, m) = AllocatedSlots(s, m)
      BY <1>4, SameGrantsSameSlots
    <2>2. CASE m = k
      BY <1>3, <2>1, <2>2
    <2>3. CASE m # k
      BY <1>1, <2>1, <2>3 DEF Climbing
    <2> QED BY <2>2, <2>3
  <1> QED BY <1>1, <1>3, <1>4, <1>5, <1>6 DEF Climbing, q

(* A report of what was not complete yet.                                  *)
LEMMA ReportClimbs ==
  ASSUME NEW s, Sound(s), Climbing(s), NEW k \in Keys, NEW slot \in Slots, NEW o \in Observations,
         s.asg[<<k, slot>>].status # "none", o.kind # "none",
         s.trial[k].obs[slot].kind # "complete"
  PROVE  LET q == Report(s, k, slot, o) IN
         /\ Climbing(q) /\ SameGrants(s, q)
         /\ q.trial[k].obs[slot] = o
         /\ \A m \in Keys, c \in Slots :
              <<m, c>> # <<k, slot>> => q.trial[m].obs[c] = s.trial[m].obs[c]
         /\ \A m \in Keys : PassedSlots(s, m) \subseteq PassedSlots(q, m)
  <1> DEFINE f == Filed(s, k, slot, o)
             q == Report(s, k, slot, o)
  <1>1. /\ Sound(f) /\ Climbing(f) /\ SameGrants(s, f)
        /\ f.trial[k].obs = [s.trial[k].obs EXCEPT ![slot] = o]
        /\ \A m \in Keys \ {k} : f.trial[m] = s.trial[m]
    BY FiledIsSound, FiledClimbs
  <1>2. q \in {f, RefreshPilot3Promotions(f)}
    BY DEF Report, Filed
  <1> HIDE DEF f, q
  <1>3. Climbing(q) /\ q.asg = f.asg /\ \A m \in Keys : q.trial[m].obs = f.trial[m].obs
    BY <1>1, <1>2, RefreshClimbs
  <1>4. SameGrants(s, q)
    BY <1>1, <1>3 DEF SameGrants
  <1>5. s.trial[k].obs \in [Slots -> Observations]
    BY SoundTrial DEF TrialRecords
  <1>6. /\ q.trial[k].obs[slot] = o
        /\ \A m \in Keys, c \in Slots :
             <<m, c>> # <<k, slot>> => q.trial[m].obs[c] = s.trial[m].obs[c]
    BY <1>1, <1>3, <1>5
  <1>7. ASSUME NEW m \in Keys, NEW c \in Slots, PassesAt(m, c, s.trial[m].obs[c])
        PROVE  PassesAt(m, c, q.trial[m].obs[c])
    <2>1. <<m, c>> # <<k, slot>>
      BY <1>7, PassingIsComplete
    <2> QED BY <1>6, <1>7, <2>1
  <1>8. \A m \in Keys : PassedSlots(s, m) \subseteq PassedSlots(q, m)
    BY <1>7, PassedIsPassing
  <1> QED BY <1>3, <1>4, <1>6, <1>8 DEF q

-----------------------------------------------------------------------------
(***************************************************************************)
(* The driver: what the file knows, the running scheduler knows, and what  *)
(* a child run holds is recorded or will be reported.                      *)
(***************************************************************************)

(* Of two studies of one run, d the earlier: what s has granted beyond d   *)
(* rests on what d has passed.                                             *)
Behind(d, s) ==
  \A k \in Keys :
    /\ AllocatedSlots(d, k) \subseteq AllocatedSlots(s, k)
    /\ PassedSlots(d, k) \subseteq PassedSlots(s, k)
    /\ \A slot \in AllocatedSlots(s, k) \ AllocatedSlots(d, k) :
         SlotsBelow[slot] \subseteq PassedSlots(d, k)

(* What the child runs hold has a place in the study s.                    *)
Accounted(s, runs) ==
  \A a \in Assignments :
    LET o == s.trial[a[1]].obs[a[2]] IN
    /\ o.kind = "complete" => runs[a].state = "measured"
    /\ runs[a].state = "measured" =>
         o = runs[a].obs \/ s.asg[a].status \in Owed \/ o.kind = "partial"
    /\ runs[a].state = "incomplete" => s.asg[a].status \in Owed \/ o.kind = "partial"

MeasuredIsComplete ==
  \A a \in Assignments : child[a].state = "measured" => child[a].obs.kind = "complete"

LInv ==
  /\ Climbing(study) /\ Climbing(disk)
  /\ Accounted(study, child) /\ Accounted(disk, child)
  /\ MeasuredIsComplete
  /\ Behind(disk, study)
  /\ pc = "round" => \A k \in Keys : PassedSlots(study, k) = PassedSlots(disk, k)
  /\ pc = "train" => study = disk

LEMMA RetainsAccounts ==
  ASSUME NEW s, NEW q, Accounted(s, child), Retains(s, q), MeasuredIsComplete
  PROVE  Accounted(q, child)
  <1>1. ASSUME NEW a \in Assignments
        PROVE  \/ q.trial[a[1]].obs[a[2]] = s.trial[a[1]].obs[a[2]]
               \/ /\ q.trial[a[1]].obs[a[2]].kind = "none"
                  /\ s.trial[a[1]].obs[a[2]].kind \in {"none", "failed"}
    <2>1. a[1] \in Keys /\ a[2] \in Slots
      BY DEF Assignments
    <2> QED BY <2>1 DEF Retains, KeepsEvidence
  <1>2. \A a \in Assignments : s.asg[a].status \in Owed => q.asg[a].status \in Owed
    BY DEF Retains
  <1> QED BY <1>1, <1>2 DEF Accounted, MeasuredIsComplete

(* A run whose assignment has no final result may come to hold anything.   *)
LEMMA RewrittenRunIsAccounted ==
  ASSUME NEW s, Accounted(s, child), NEW b \in Assignments, NEW run,
         s.asg[b].status \in Owed \/ s.trial[b[1]].obs[b[2]].kind = "partial",
         s.trial[b[1]].obs[b[2]].kind # "complete",
         child \in [Assignments -> ChildRuns]
  PROVE  Accounted(s, [child EXCEPT ![b] = run])
  <1> DEFINE runs == [child EXCEPT ![b] = run]
  <1>1. \A a \in Assignments \ {b} : runs[a] = child[a]
    OBVIOUS
  <1> HIDE DEF runs
  <1>2. Accounted(s, runs)
    BY <1>1 DEF Accounted
  <1> QED BY <1>2 DEF runs

LEMMA BehindItself ==
  ASSUME NEW s PROVE Behind(s, s)
  BY DEF Behind

(* Steps that pass or re-rank but allocate nothing.                        *)
LEMMA BehindGrows ==
  ASSUME NEW d, NEW s, NEW q, Behind(d, s), SameGrants(s, q),
         \A k \in Keys : PassedSlots(s, k) \subseteq PassedSlots(q, k)
  PROVE  Behind(d, q)
  BY SameGrantsSameSlots DEF Behind

LEMMA SameEvidenceSamePassed ==
  ASSUME NEW s, NEW q, Retains(s, q)
  PROVE  \A k \in Keys : PassedSlots(q, k) = PassedSlots(s, k)
  BY RetainsPassed

LEMMA GroundedIsPassed ==
  ASSUME NEW s, NEW k, NEW slot \in Slots, Grounded(k, s.trial[k], slot)
  PROVE  SlotsBelow[slot] \subseteq PassedSlots(s, k)
  BY PassedIsPassing, BelowIsSlot DEF Grounded, Reached

(* One more grant, on evidence that was there before.                      *)
LEMMA BehindOneGrant ==
  ASSUME NEW s, NEW q, Retains(s, q), NEW a \in Assignments,
         \A b \in Assignments : q.asg[b].status = "none" <=> s.asg[b].status = "none" /\ b # a,
         Grounded(a[1], q.trial[a[1]], a[2])
  PROVE  Behind(s, q)
  <1>1. a[1] \in Keys /\ a[2] \in Slots /\ a = <<a[1], a[2]>>
    BY DEF Assignments
  <1>2. \A k \in Keys : PassedSlots(q, k) = PassedSlots(s, k)
    BY SameEvidenceSamePassed
  <1>3. SlotsBelow[a[2]] \subseteq PassedSlots(s, a[1])
    BY <1>1, <1>2, GroundedIsPassed
  <1>4. ASSUME NEW k \in Keys, NEW slot \in Slots
        PROVE  q.asg[<<k, slot>>].status # "none" <=>
                 s.asg[<<k, slot>>].status # "none" \/ (k = a[1] /\ slot = a[2])
    <2>1. <<k, slot>> \in Assignments /\ (<<k, slot>> = a <=> k = a[1] /\ slot = a[2])
      BY <1>1 DEF Assignments
    <2> QED BY <2>1
  <1> QED BY <1>2, <1>3, <1>4 DEF Behind, AllocatedSlots

(* Going on from d over s to q, where d and s agree on what is passed.     *)
LEMMA BehindIsTransitive ==
  ASSUME NEW d, NEW s, NEW q, Behind(d, s), Behind(s, q),
         \A k \in Keys : PassedSlots(s, k) = PassedSlots(d, k)
  PROVE  Behind(d, q)
  BY DEF Behind

-----------------------------------------------------------------------------
LEMMA LadderInitially == Init => LInv
  <1> SUFFICES ASSUME Init PROVE LInv
    OBVIOUS
  <1>1. \A a \in Assignments : EmptyStudy.trial[a[1]].obs[a[2]].kind = "none"
    BY DEF EmptyStudy, NoTrial, NoObs, Assignments
  <1>2. \A a \in Assignments : child[a].state = "empty"
    BY DEF Init, FreshChild
  <1>3. Accounted(EmptyStudy, child)
    BY <1>1, <1>2 DEF Accounted
  <1> QED BY <1>2, <1>3, EmptyClimbs, BehindItself DEF Init, LInv, MeasuredIsComplete

LEMMA StartClimbs ==
  ASSUME IInv, LInv, Start PROVE LInv' /\ Behind(disk, disk')
  <1>1. PICK c \in BOOLEAN, S \in SUBSET Reopenable(Quarantine(disk)) :
          LET loaded == Reopen(Quarantine(disk), S) IN
          /\ disk' = IF S = {} THEN disk ELSE loaded
          /\ study' = NextAssignment(loaded, c).study
    BY DEF Start
  <1> DEFINE held == Quarantine(disk)
             loaded == Reopen(held, S)
             a == NextAssignment(loaded, c).assignment
  <1>2. /\ Sound(held) /\ Climbing(held) /\ Retains(disk, held) /\ SameGrants(disk, held)
    BY QuarantineIsSound, QuarantineClimbs DEF IInv, LInv
  <1>3. /\ Sound(loaded) /\ Climbing(loaded) /\ Retains(held, loaded) /\ SameGrants(held, loaded)
    BY <1>2, ReopenIsSound, ReopenClimbs
  <1>4. /\ disk' = disk \/ disk' = loaded
        /\ study' = NextAssignment(loaded, c).study
        /\ child' = child /\ pc' = "round"
    BY <1>1 DEF Start
  <1> HIDE DEF held, loaded
  <1>5. Retains(disk, loaded) /\ SameGrants(disk, loaded)
    BY <1>2, <1>3, RetainsIsTransitive DEF SameGrants
  <1>6. /\ Climbing(study') /\ Retains(loaded, study')
        /\ a = NoAssignment => SameGrants(loaded, study')
        /\ a # NoAssignment => a \in Assignments /\ Grounded(a[1], study'.trial[a[1]], a[2])
        /\ \A b \in Assignments :
             study'.asg[b].status = "none" <=> loaded.asg[b].status = "none" /\ b # a
    BY <1>3, <1>4, NextAssignmentClimbs
  <1> HIDE DEF a
  <1>7. Accounted(loaded, child) /\ Accounted(study', child)
    BY <1>5, <1>6, RetainsAccounts DEF LInv
  <1>8. Behind(loaded, study')
    <2>1. CASE a = NoAssignment
      BY <1>6, <2>1, BehindItself, BehindGrows, SameEvidenceSamePassed
    <2>2. CASE a # NoAssignment
      BY <1>6, <2>2, BehindOneGrant
    <2> QED BY <2>1, <2>2
  <1>9. \A k \in Keys : /\ PassedSlots(loaded, k) = PassedSlots(disk, k)
                        /\ PassedSlots(study', k) = PassedSlots(disk, k)
    BY <1>5, <1>6, SameEvidenceSamePassed
  <1>10. Behind(disk, loaded)
    BY <1>5, <1>9, BehindItself, BehindGrows
  <1>11. Behind(disk, study')
    BY <1>8, <1>9, <1>10, BehindIsTransitive
  <1>12. /\ Climbing(disk') /\ Accounted(disk', child) /\ Behind(disk', study')
         /\ Behind(disk, disk')
         /\ \A k \in Keys : PassedSlots(study', k) = PassedSlots(disk', k)
    BY <1>3, <1>4, <1>7, <1>8, <1>9, <1>10, <1>11, BehindItself DEF LInv
  <1>13. MeasuredIsComplete'
    BY <1>4 DEF LInv, MeasuredIsComplete
  <1> QED BY <1>4, <1>6, <1>7, <1>12, <1>13 DEF LInv

LEMMA ClaimClimbs ==
  ASSUME IInv, LInv, Claim PROVE LInv' /\ Behind(disk, disk') /\ Retains(study, study')
  <1> DEFINE next == NextAssignment(study, confirm)
             a == next.assignment
  <1>1. /\ a # NoAssignment /\ pc = "round" /\ pc' = "train"
        /\ study' = MarkRunning(next.study, a) /\ disk' = study'
        /\ child' = child \/ child' = [child EXCEPT ![a] = FreshChild]
    BY DEF Claim
  <1>2. Sound(study) /\ Climbing(study) /\ confirm \in BOOLEAN
    BY DEF IInv, LInv, Typed
  <1>3. /\ Climbing(next.study) /\ Retains(study, next.study)
        /\ a \in Assignments /\ next.study.asg[a].status \in Owed
        /\ Grounded(a[1], next.study.trial[a[1]], a[2])
        /\ \A b \in Assignments :
             next.study.asg[b].status = "none" <=> study.asg[b].status = "none" /\ b # a
    BY <1>1, <1>2, NextAssignmentClimbs
  <1>4. Sound(next.study)
    BY <1>2, NextAssignmentIsSound
  <1> HIDE DEF next, a
  <1>5. /\ Climbing(study') /\ Retains(next.study, study') /\ SameGrants(next.study, study')
        /\ Sound(study') /\ study'.asg[a].status = "running"
    BY <1>1, <1>3, <1>4, MarkRunningClimbs, MarkRunningIsSound DEF Owed, Outstanding
  <1>6. Retains(study, study')
    BY <1>3, <1>5, RetainsIsTransitive
  <1>7. Accounted(study', child')
    <2>1. Accounted(study', child)
      BY <1>6, RetainsAccounts DEF LInv
    <2>2. study'.trial[a[1]].obs[a[2]].kind # "complete" /\ study'.asg[a].status \in Owed
      BY <1>3, <1>5, OwedIsUnobserved DEF Climbing, Owed, Outstanding
    <2>3. Accounted(study', [child EXCEPT ![a] = FreshChild])
      BY <1>3, <2>1, <2>2, RewrittenRunIsAccounted DEF IInv, Typed
    <2> QED BY <1>1, <2>1, <2>3
  <1>8. MeasuredIsComplete'
    <2>1. FreshChild.state = "empty" /\ child \in [Assignments -> ChildRuns]
      BY DEF FreshChild, IInv, Typed
    <2> QED BY <1>1, <1>3, <2>1 DEF LInv, MeasuredIsComplete
  <1>9. Behind(disk, study')
    <2>1. Behind(study, next.study)
      BY <1>3, BehindOneGrant
    <2>2. Behind(disk, next.study)
      BY <1>1, <2>1, BehindIsTransitive DEF LInv
    <2> QED BY <1>5, <2>2, BehindGrows, SameEvidenceSamePassed
  <1> QED BY <1>1, <1>5, <1>6, <1>7, <1>8, <1>9, BehindItself DEF LInv

(* A step that reports, for an assignment that was handed out, what was not*)
(* complete before.                                                        *)
Reporting ==
  \E b \in Assignments, o \in Observations :
    /\ study.asg[b].status # "none" /\ o.kind # "none"
    /\ study.trial[b[1]].obs[b[2]].kind # "complete"
    /\ study' = Report(study, b[1], b[2], o)

(* A step that reports what the child run of b has come to hold.           *)
LEMMA ReportedClimbs ==
  ASSUME IInv, LInv, NEW b \in Assignments, NEW o \in Observations, NEW run,
         \/ o.kind \in {"partial", "complete"} /\ run = ChildOf(o)
         \/ o.kind = "failed" /\ run.state \in {"failed", "control_failed"},
         study.asg[b].status # "none",
         study.trial[b[1]].obs[b[2]].kind # "complete",
         disk.asg[b].status \in Owed \/ disk.trial[b[1]].obs[b[2]].kind = "partial",
         disk.trial[b[1]].obs[b[2]].kind # "complete",
         study' = Report(study, b[1], b[2], o), disk' = disk,
         child' = [child EXCEPT ![b] = run],
         pc' \in {"save_go", "save_stop"}
  PROVE  LInv' /\ Reporting
  <1>1. b[1] \in Keys /\ b[2] \in Slots /\ b = <<b[1], b[2]>>
    BY DEF Assignments
  <1>2. /\ Climbing(study') /\ SameGrants(study, study')
        /\ study'.trial[b[1]].obs[b[2]] = o
        /\ \A m \in Keys, c \in Slots :
             <<m, c>> # b => study'.trial[m].obs[c] = study.trial[m].obs[c]
        /\ \A m \in Keys : PassedSlots(study, m) \subseteq PassedSlots(study', m)
    BY <1>1, ReportClimbs DEF IInv, LInv
  <1>3. \A a \in Assignments \ {b} : study'.asg[a] = study.asg[a]
    <2>1. study.asg[<<b[1], b[2]>>].status # "none"
      BY <1>1
    <2>2. \A a \in Assignments : \/ Report(study, b[1], b[2], o).asg[a] = study.asg[a]
                                \/ a = <<b[1], b[2]>>
      BY <1>1, <2>1, ReportIsSound DEF IInv
    <2> QED BY <1>1, <2>2
  <1>4. child'[b] = run /\ \A a \in Assignments \ {b} : child'[a] = child[a]
    BY DEF IInv, Typed
  <1>5. Accounted(disk', child')
    BY RewrittenRunIsAccounted DEF IInv, Typed, LInv
  <1>6. Accounted(study', child')
    <2>1. ASSUME NEW a \in Assignments, a # b
          PROVE  study'.trial[a[1]].obs[a[2]] = study.trial[a[1]].obs[a[2]]
      <3>1. a[1] \in Keys /\ a[2] \in Slots /\ <<a[1], a[2]>> # b
        BY <1>1, <2>1 DEF Assignments
      <3> QED BY <1>2, <3>1
    <2>2. ASSUME NEW a \in Assignments, a # b
          PROVE  LET x == study'.trial[a[1]].obs[a[2]] IN
                 /\ x.kind = "complete" => child'[a].state = "measured"
                 /\ child'[a].state = "measured" =>
                      x = child'[a].obs \/ study'.asg[a].status \in Owed \/ x.kind = "partial"
                 /\ child'[a].state = "incomplete" => study'.asg[a].status \in Owed \/ x.kind = "partial"
      <3>1. /\ child'[a] = child[a] /\ study'.asg[a] = study.asg[a]
            /\ study'.trial[a[1]].obs[a[2]] = study.trial[a[1]].obs[a[2]]
        BY <1>3, <1>4, <2>1, <2>2
      <3>2. LET x == study.trial[a[1]].obs[a[2]] IN
            /\ x.kind = "complete" => child[a].state = "measured"
            /\ child[a].state = "measured" =>
                 x = child[a].obs \/ study.asg[a].status \in Owed \/ x.kind = "partial"
            /\ child[a].state = "incomplete" => study.asg[a].status \in Owed \/ x.kind = "partial"
        BY DEF LInv, Accounted
      <3> QED BY ONLY <3>1, <3>2
    <2>3. LET x == study'.trial[b[1]].obs[b[2]] IN
          /\ x.kind = "complete" => child'[b].state = "measured"
          /\ child'[b].state = "measured" =>
               x = child'[b].obs \/ study'.asg[b].status \in Owed \/ x.kind = "partial"
          /\ child'[b].state = "incomplete" => study'.asg[b].status \in Owed \/ x.kind = "partial"
      BY <1>2, <1>4 DEF ChildOf
    <2> QED BY <2>2, <2>3 DEF Accounted
  <1>7. MeasuredIsComplete'
    BY <1>4 DEF ChildOf, LInv, MeasuredIsComplete
  <1>8. Behind(disk', study')
    BY <1>2, BehindGrows DEF LInv
  <1>9. Reporting
    <2>1. o.kind # "none"
      OBVIOUS
    <2> QED BY <2>1 DEF Reporting
  <1> QED BY <1>2, <1>5, <1>6, <1>7, <1>8, <1>9 DEF LInv

LEMMA RecoverEvidenceClimbs ==
  ASSUME IInv, LInv, RecoverEvidence PROVE LInv' /\ Reporting
  <1>1. PICK a \in Assignments, m \in Measurements :
          LET o == Observed(a[2], m, child[a].obs.fp) IN
          /\ child[a].state = "incomplete"
          /\ study.asg[a].status # "none"
          /\ study' = Report(study, a[1], a[2], o)
          /\ child' = [child EXCEPT ![a] = ChildOf(o)]
          /\ pc' = IF m.kind = "complete" THEN "save_go" ELSE "save_stop"
    BY DEF RecoverEvidence
  <1> DEFINE o == Observed(a[2], m, child[a].obs.fp)
  <1>2. o \in Observations /\ o.kind \in {"partial", "complete"}
    <2>1. a[2] \in Slots
      BY DEF Assignments
    <2>2. child[a].obs.fp \in Fps \cup {Base}
      BY DEF IInv, Typed, ChildRuns, Observations
    <2> QED BY <2>1, <2>2, ObservedIsObservation
  <1>3. /\ disk.asg[a].status \in Owed \/ disk.trial[a[1]].obs[a[2]].kind = "partial"
        /\ disk.trial[a[1]].obs[a[2]].kind # "complete"
        /\ study.trial[a[1]].obs[a[2]].kind # "complete"
    BY <1>1 DEF LInv, Accounted
  <1>4. disk' = disk /\ pc' \in {"save_go", "save_stop"}
    BY <1>1 DEF RecoverEvidence
  <1>5. /\ study' = Report(study, a[1], a[2], o) /\ child' = [child EXCEPT ![a] = ChildOf(o)]
        /\ study.asg[a].status # "none"
    BY <1>1
  <1> HIDE DEF o
  <1> QED BY <1>2, <1>3, <1>4, <1>5, ReportedClimbs

(* What is being trained has no result yet, in memory or on disk.          *)
LEMMA TrainedIsOwed ==
  ASSUME IInv, LInv, pc = "train"
  PROVE  /\ current \in Assignments /\ study = disk
         /\ study.asg[current].status \in Owed
         /\ study.trial[current[1]].obs[current[2]].kind = "none"
  <1>1. current \in Assignments /\ study = disk /\ study.asg[current].status \in Owed
    BY DEF IInv, TrainsItsClaim, LInv, Owed, Outstanding
  <1> QED BY <1>1, OwedIsUnobserved DEF IInv, LInv, Climbing

LEMMA TrainingCompletesClimbs ==
  ASSUME IInv, LInv, TrainingCompletes PROVE LInv' /\ Reporting
  <1>1. PICK m \in Measurements :
          LET o == Observed(current[2], m, Payload) IN
          /\ child' = [child EXCEPT ![current] = ChildOf(o)]
          /\ study' = Report(study, current[1], current[2], o)
          /\ pc' = IF m.kind = "complete" THEN "save_go" ELSE "save_stop"
    BY DEF TrainingCompletes
  <1> DEFINE o == Observed(current[2], m, Payload)
  <1>2. pc = "train" /\ disk' = disk /\ pc' \in {"save_go", "save_stop"}
    BY <1>1 DEF TrainingCompletes
  <1>3. o \in Observations /\ o.kind \in {"partial", "complete"}
    <2>1. current[2] \in Slots
      BY <1>2, TrainedIsOwed DEF Assignments
    <2> QED BY <1>2, <2>1, PayloadIsPayload, ObservedIsObservation
  <1>4. study' = Report(study, current[1], current[2], o) /\ child' = [child EXCEPT ![current] = ChildOf(o)]
    BY <1>1
  <1> HIDE DEF o
  <1>5. study.asg[current].status # "none"
    BY <1>2, TrainedIsOwed DEF Owed, Outstanding
  <1> QED BY <1>2, <1>3, <1>4, <1>5, TrainedIsOwed, ReportedClimbs

LEMMA CandidateFailsClimbs ==
  ASSUME IInv, LInv, CandidateFails PROVE LInv' /\ Reporting
  <1>1. PICK cause \in FailureCauses :
          LET o == FailedObs(cause, Payload) IN
          /\ child' = [child EXCEPT ![current] = [state |-> "failed", obs |-> o]]
          /\ study' = Report(study, current[1], current[2], o)
          /\ pc' = IF cause = "conflict" THEN "save_stop" ELSE "save_go"
    BY DEF CandidateFails
  <1> DEFINE o == FailedObs(cause, Payload)
             run == [state |-> "failed", obs |-> o]
  <1>2. pc = "train" /\ disk' = disk /\ pc' \in {"save_go", "save_stop"}
    BY <1>1 DEF CandidateFails
  <1>3. o \in Observations /\ o.kind = "failed" /\ run.state = "failed"
    BY <1>2, PayloadIsPayload, FailedIsObservation
  <1>4. study' = Report(study, current[1], current[2], o) /\ child' = [child EXCEPT ![current] = run]
    BY <1>1
  <1> HIDE DEF o, run
  <1>5. study.asg[current].status # "none"
    BY <1>2, TrainedIsOwed DEF Owed, Outstanding
  <1> QED BY <1>2, <1>3, <1>4, <1>5, TrainedIsOwed, ReportedClimbs

LEMMA ControlFailsClimbs ==
  ASSUME IInv, LInv, ControlFails
  PROVE  LInv' /\ (Reporting \/ Retains(study, study'))
  <1> DEFINE plan == study.trial[current[1]].plan
             o == FailedObs("training", Payload)
             run == [state |-> "control_failed", obs |-> o]
  <1>1. /\ pc = "train" /\ disk' = disk /\ pc' = "save_stop"
        /\ child' = [child EXCEPT ![current] = run]
        /\ study' = IF plan # NoPlan THEN FailMatchedControl(study, plan)
                    ELSE Report(study, current[1], current[2], o)
    BY DEF ControlFails
  <1>2. o \in Observations /\ o.kind = "failed" /\ run.state = "control_failed"
    BY <1>1, PayloadIsPayload, FailedIsObservation
  <1>3. /\ current \in Assignments /\ study = disk
        /\ study.asg[current].status \in Owed /\ study.asg[current].status # "none"
        /\ study.trial[current[1]].obs[current[2]].kind = "none"
    BY <1>1, TrainedIsOwed DEF Owed, Outstanding
  <1> HIDE DEF plan, o, run
  <1>4. CASE plan # NoPlan
    <2>1. study' = FailMatchedControl(study, plan)
      BY <1>1, <1>4
    <2>2. Climbing(study') /\ Retains(study, study') /\ SameGrants(study, study')
      BY <2>1, FailMatchedControlClimbs DEF IInv, LInv
    <2>3. Accounted(study', child) /\ Accounted(disk, child)
      BY <2>2, RetainsAccounts DEF LInv
    <2>4. /\ study'.asg[current].status \in Owed
          /\ study'.trial[current[1]].obs[current[2]].kind = "none"
      <3>1. Sound(study') /\ study'.asg = study.asg
        BY <2>1, FailMatchedControlIsSound DEF IInv
      <3> QED BY <1>3, <2>2, <3>1, OwedIsUnobserved DEF Climbing
    <2>5. Accounted(study', child') /\ Accounted(disk', child')
      BY <1>1, <1>3, <2>3, <2>4, RewrittenRunIsAccounted DEF IInv, Typed
    <2>6. MeasuredIsComplete'
      BY <1>1, <1>2, <1>3 DEF IInv, Typed, LInv, MeasuredIsComplete
    <2>7. Behind(disk', study')
      BY <1>1, <2>2, BehindGrows, SameEvidenceSamePassed DEF LInv
    <2>8. LInv'
      BY <1>1, <2>2, <2>5, <2>6, <2>7 DEF LInv
    <2> QED BY <2>2, <2>8
  <1>5. CASE plan = NoPlan
    <2>1. study' = Report(study, current[1], current[2], o)
      BY <1>1, <1>5
    <2> QED BY <1>1, <1>2, <1>3, <2>1, ReportedClimbs
  <1> QED BY <1>4, <1>5

LEMMA PlanningClimbs ==
  ASSUME IInv, LInv, StartPlanning \/ RegisterCandidate \/ BlockCandidate
  PROVE  LInv' /\ Retains(study, study')
  <1>1. Climbing(study') /\ Retains(study, study') /\ SameGrants(study, study')
    <2>1. CASE StartPlanning
      BY <2>1, NextAssignmentClimbs DEF StartPlanning, IInv, Typed, LInv
    <2>2. CASE RegisterCandidate
      <3>1. PICK i \in Ids : \E f \in FpsOf[i] : study' = Register(study, i, f)
        BY <2>2 DEF RegisterCandidate
      <3>2. PICK f \in Fps : study' = Register(study, i, f)
        BY <3>1, DriverAssumption
      <3> QED BY <3>2, RegisterClimbs DEF IInv, LInv
    <2>3. CASE BlockCandidate
      <3>1. PICK i \in Ids, src \in BOOLEAN : \E f \in FpsOf[i] : study' = PreRegister(study, i, f, src)
        BY <2>3 DEF BlockCandidate
      <3>2. PICK f \in Fps : study' = PreRegister(study, i, f, src)
        BY <3>1, DriverAssumption
      <3> QED BY <3>2, PreRegisterClimbs DEF IInv, LInv
    <2> QED BY <2>1, <2>2, <2>3
  <1>2. disk' = disk /\ child' = child /\ pc' = "plan"
    BY DEF StartPlanning, RegisterCandidate, BlockCandidate
  <1>3. Accounted(study', child')
    BY <1>1, <1>2, RetainsAccounts DEF LInv
  <1>4. Behind(disk', study')
    BY <1>1, <1>2, BehindGrows, SameEvidenceSamePassed DEF LInv
  <1>5. MeasuredIsComplete'
    BY <1>2 DEF LInv, MeasuredIsComplete
  <1> QED BY <1>1, <1>2, <1>3, <1>4, <1>5 DEF LInv

LEMMA LadderInductive ==
  ASSUME IInv, LInv, [Next]_vars PROVE LInv' /\ Behind(disk, disk')
  <1>1. CASE Start \/ Claim
    BY <1>1, StartClimbs, ClaimClimbs
  <1>2. CASE \/ RecoverEvidence \/ TrainingCompletes \/ CandidateFails \/ ControlFails
             \/ StartPlanning \/ RegisterCandidate \/ BlockCandidate
    <2>1. disk' = disk
      BY <1>2 DEF RecoverEvidence, TrainingCompletes, CandidateFails, ControlFails,
                  StartPlanning, RegisterCandidate, BlockCandidate
    <2> QED BY <1>2, <2>1, BehindItself, RecoverEvidenceClimbs, TrainingCompletesClimbs,
               CandidateFailsClimbs, ControlFailsClimbs, PlanningClimbs
  <1>3. CASE Save
    <2>1. disk' = study /\ study' = study /\ child' = child /\ pc' \in {"round", "down"}
      BY <1>3 DEF Save
    <2>2. MeasuredIsComplete'
      BY <2>1 DEF LInv, MeasuredIsComplete
    <2> QED BY <2>1, <2>2, BehindItself DEF LInv
  <1>4. CASE ResourceRecoveryPending \/ EndPlanning
    <2>1. disk' = disk /\ study' = study /\ child' = child /\ pc' \in {"save_go", "save_stop"}
      BY <1>4 DEF ResourceRecoveryPending, EndPlanning
    <2>2. MeasuredIsComplete'
      BY <2>1 DEF LInv, MeasuredIsComplete
    <2> QED BY <2>1, <2>2, BehindItself DEF LInv
  <1>5. CASE Die
    <2>1. disk' = disk /\ study' = disk /\ child' = child /\ pc' = "down"
      BY <1>5 DEF Die
    <2>2. MeasuredIsComplete'
      BY <2>1 DEF LInv, MeasuredIsComplete
    <2> QED BY <2>1, <2>2, BehindItself DEF LInv
  <1>6. CASE UNCHANGED vars
    BY <1>6, BehindItself DEF vars, LInv, MeasuredIsComplete
  <1> QED BY <1>1, <1>2, <1>3, <1>4, <1>5, <1>6 DEF Next

LEMMA LadderInvariance == Spec => [](IInv /\ LInv)
  <1>1. IInv /\ LInv /\ [Next]_vars => LInv'
    BY LadderInductive
  <1> QED BY <1>1, LadderInitially, Initially, Inductive, PTL DEF Spec

-----------------------------------------------------------------------------
(***************************************************************************)
(* The ranking of a cohort.                                                *)
(***************************************************************************)
LEMMA FinitelyManyRegistered ==
  ASSUME NEW s, Sound(s) PROVE IsFiniteSet(Registered(s))
  <1> DEFINE T == {s.order[i] : i \in 1..Len(s.order)}
  <1>1. s.order \in [1..Len(s.order) -> Keys] /\ Len(s.order) \in Nat
    BY LenProperties DEF Sound, Studies
  <1>2. s.order \in Surjection(1..Len(s.order), T)
    BY <1>1 DEF Surjection
  <1>3. IsFiniteSet(1..Len(s.order))
    BY <1>1, FS_Interval
  <1>4. IsFiniteSet(T)
    BY <1>2, <1>3, FS_Surjection
  <1>5. ASSUME NEW k \in Registered(s) PROVE k \in T
    <2>1. PICK i \in DOMAIN s.order : s.order[i] \in {k}
      BY DEF Sound, Listed, IndicesIn
    <2> QED BY <1>1, <2>1
  <1> QED BY <1>4, <1>5, FS_Subset

(* No ruling promotes: only the re-ranking of a cohort does.               *)
LEMMA ImportPromotesNone ==
  ASSUME NEW r \in TrialRecords, NEW slot \in Slots, NEW o \in Observations
  PROVE  Import(r, slot, o).status # "promotion_pending"
  <1> DEFINE x == [r EXCEPT !.obs[slot] = o]
  <1>1. x \in TrialRecords
    BY DEF TrialRecords
  <1> HIDE DEF x
  <1>2. \A status \in STRING : \A pending, adapter :
          /\ [x EXCEPT !.status = status, !.pending = pending].status = status
          /\ [x EXCEPT !.status = status, !.pending = pending, !.adapter = adapter].status = status
    BY <1>1 DEF TrialRecords
  <1>3. Eliminated(x).status = "eliminated"
    BY <1>2 DEF Eliminated
  <1>4. /\ FinishPilot10(x, o).status # "promotion_pending"
        /\ FinishFullSeed1(x, o).status # "promotion_pending"
        /\ FinishConfirmation(x).status # "promotion_pending"
    BY <1>2, <1>3 DEF FinishPilot10, FinishFullSeed1, FinishConfirmation
  <1>5. Ruling(x, slot, o).status # "promotion_pending"
    BY <1>2, <1>4 DEF Ruling
  <1> QED BY <1>5 DEF Import, x

(* A cohort member that is not promoted with k has no better result.       *)
LEMMA WinnerOutranksLoser ==
  ASSUME NEW s, Sound(s), NEW k \in Keys, NEW m \in Keys,
         IsPaper(k) = IsPaper(m), IsPilotWinner(s, k),
         s.trial[m].status = "waiting", Pilot(s, m).kind = "complete",
         m \notin PilotRejected(s, Cohort(s, m)), ~IsPilotWinner(s, m)
  PROVE  Pilot(s, m).delta =< Pilot(s, k).delta
  <1> DEFINE C == Cohort(s, k)
             eligible == PilotEligible(s, C)
             above(x) == {y \in eligible : Outranks(s, y, x)}
  <1>1. Cohort(s, m) = C /\ m \in C
    BY DEF Cohort, Registered
  <1>2. PromotionSlots(s, m) = PromotionSlots(s, k)
    BY <1>1 DEF PromotionSlots
  <1>3. m \in eligible
    BY <1>1 DEF PilotEligible, PilotCompleted
  <1>4. /\ Cardinality(above(k)) < PromotionSlots(s, k)
        /\ k \in eligible
        /\ ~(Cardinality(above(m)) < PromotionSlots(s, k))
    BY <1>1, <1>2, <1>3 DEF IsPilotWinner
  <1>5. \A y \in eligible : y \in Keys
    BY DEF PilotEligible, PilotCompleted, Cohort, Registered
  <1>6. \A y \in Keys : Pilot(s, y).delta \in Int
    <2>1. ASSUME NEW y \in Keys PROVE Pilot(s, y).delta \in Int
      <3>1. s.trial[y] \in TrialRecords
        BY SoundTrial
      <3> QED BY <3>1, SlotIsNamed DEF Pilot, TrialRecords, Observations
    <2> QED BY <2>1
  <1>7. PromotionSlots(s, k) \in Int
    <2>1. IsFiniteSet(PilotCompleted(s, C))
      <3>1. PilotCompleted(s, C) \in SUBSET Registered(s)
        BY DEF PilotCompleted, Cohort
      <3> QED BY <3>1, FinitelyManyRegistered, FS_Subset
    <2>2. Cardinality(PilotCompleted(s, C)) \in Nat
      BY <2>1, FS_CardinalityType
    <2> QED BY <2>2, SchedulerAssumption DEF PromotionSlots, AtLeastOne
  <1>8. IsFiniteSet(above(k)) /\ Cardinality(above(k)) \in Int
    <2>1. above(k) \in SUBSET Registered(s)
      BY DEF PilotEligible, PilotCompleted, Cohort
    <2>2. IsFiniteSet(above(k))
      BY <2>1, FinitelyManyRegistered, FS_Subset
    <2> QED BY <2>2, FS_CardinalityType
  <1> SUFFICES ASSUME ~(Pilot(s, m).delta =< Pilot(s, k).delta) PROVE FALSE
    OBVIOUS
  <1>9. above(m) \subseteq above(k)
    <2>1. ASSUME NEW y \in eligible, Outranks(s, y, m) PROVE Outranks(s, y, k)
      <3>1. Pilot(s, y).delta >= Pilot(s, m).delta
        BY <1>5, <1>6, <2>1 DEF Outranks
      <3> QED BY <1>5, <1>6, <3>1 DEF Outranks
    <2> QED BY <2>1
  <1> HIDE DEF above
  <1>10. Cardinality(above(m)) <= Cardinality(above(k)) /\ Cardinality(above(m)) \in Int
    <2>1. IsFiniteSet(above(m))
      BY <1>8, <1>9, FS_Subset
    <2> QED BY <1>8, <1>9, <2>1, FS_Subset, FS_CardinalityType
  <1> QED BY <1>4, <1>7, <1>8, <1>10

(* A report promotes by rank, and only when nobody of the cohort is owed.  *)
LEMMA ReportRanks ==
  ASSUME NEW s, Sound(s), Climbing(s), NEW b \in Assignments, NEW o \in Observations,
         s.asg[b].status # "none", o.kind # "none",
         s.trial[b[1]].obs[b[2]].kind # "complete",
         NEW q, q = Report(s, b[1], b[2], o),
         NEW k \in Keys, NEW m \in Keys, IsPaper(k) = IsPaper(m),
         s.trial[k].status # "promotion_pending", q.trial[k].status = "promotion_pending",
         q.trial[m].status = "waiting"
  PROVE  /\ Pilot(q, m).kind # "none"
         /\ Pilot(q, m).kind = "complete" /\ q.trial[m].obs["pilot_10"].kind = "none"
              => Pilot(q, m).delta =< Pilot(q, k).delta
  <1> DEFINE f == Filed(s, b[1], b[2], o)
  <1>1. b[1] \in Keys /\ b[2] \in Slots /\ b = <<b[1], b[2]>>
    BY DEF Assignments
  <1>2. s.asg[<<b[1], b[2]>>].status # "none"
    BY <1>1
  <1>3. /\ Sound(f) /\ Climbing(f)
        /\ f.trial[b[1]] = Import(s.trial[b[1]], b[2], o)
        /\ \A x \in Keys \ {b[1]} : f.trial[x] = s.trial[x]
    <2> HIDE DEF f
    <2>1. \A x \in Keys, slot \in Slots :
            s.asg[<<x, slot>>].status # "none" =>
              LET g == Filed(s, x, slot, o) IN
              /\ Sound(g)
              /\ g.trial[x] = Import(s.trial[x], slot, o)
              /\ \A y \in Keys \ {x} : g.trial[y] = s.trial[y]
      BY FiledIsSound
    <2>2. \A x \in Keys, slot \in Slots :
            s.asg[<<x, slot>>].status # "none" /\ s.trial[x].obs[slot].kind # "complete" =>
              Climbing(Filed(s, x, slot, o))
      BY FiledClimbs
    <2> QED BY <1>1, <1>2, <2>1, <2>2 DEF f
  <1>4. f.trial[k].status # "promotion_pending"
    <2>1. CASE k = b[1]
      BY <1>1, <1>3, <2>1, SoundTrial, ImportPromotesNone
    <2>2. CASE k # b[1]
      BY <1>3, <2>2
    <2> QED BY <2>1, <2>2
  <1>5. q \in {f, RefreshPilot3Promotions(f)}
    BY DEF Report, Filed
  <1> HIDE DEF f
  <1>6. q = RefreshPilot3Promotions(f)
    BY <1>4, <1>5
  <1>7. \A x \in Keys : q.trial[x].obs = f.trial[x].obs
    BY <1>3, <1>6, RefreshClimbs
  <1>8. ASSUME NEW x \in Keys
        PROVE  /\ Eliminated(f.trial[x]).status = "eliminated"
               /\ Promoted(f.trial[x]).status = "promotion_pending"
    <2>1. f.trial[x] \in TrialRecords
      BY <1>3, SoundTrial
    <2> QED BY <2>1 DEF Eliminated, Promoted, TrialRecords
  <1>9. ASSUME NEW x \in Keys
        PROVE  q.trial[x] = IF x \in PilotRejected(f, Cohort(f, x)) THEN Eliminated(f.trial[x])
                            ELSE IF Promotable(f, x) THEN Promoted(f.trial[x])
                            ELSE f.trial[x]
    BY <1>3, <1>6, RefreshedTrial
  <1>10. Promotable(f, k)
    BY <1>4, <1>8, <1>9
  <1>11. /\ m \notin PilotRejected(f, Cohort(f, m)) /\ ~Promotable(f, m)
         /\ f.trial[m].status = "waiting"
    <2>1. CASE m \in PilotRejected(f, Cohort(f, m))
      BY <1>8, <1>9, <2>1
    <2>2. CASE m \notin PilotRejected(f, Cohort(f, m)) /\ Promotable(f, m)
      BY <1>8, <1>9, <2>2
    <2>3. CASE m \notin PilotRejected(f, Cohort(f, m)) /\ ~Promotable(f, m)
      BY <1>9, <2>3
    <2> QED BY <2>1, <2>2, <2>3
  <1>12. Pilot(q, m) = Pilot(f, m) /\ Pilot(q, k) = Pilot(f, k)
    BY <1>7 DEF Pilot
  <1>13. Pilot(f, m).kind # "none"
    <2>1. m \in Cohort(f, k)
      BY <1>11 DEF Cohort, Registered
    <2>2. PilotOutstanding(f, Cohort(f, k)) = {}
      BY <1>10 DEF Promotable, IsPilotWinner
    <2>3. f.trial[m].pending = "pilot_3" \/ Pilot(f, m).kind # "none"
      BY <1>3, <1>11 DEF Climbing, Fits, StatusFits, Pilot
    <2> QED BY <1>11, <2>1, <2>2, <2>3 DEF PilotOutstanding
  <1>14. ASSUME Pilot(f, m).kind = "complete", q.trial[m].obs["pilot_10"].kind = "none"
         PROVE  Pilot(f, m).delta =< Pilot(f, k).delta
    <2>1. ~IsPilotWinner(f, m) /\ IsPilotWinner(f, k)
      BY <1>7, <1>10, <1>11, <1>14 DEF Promotable
    <2> QED BY <1>3, <1>11, <1>14, <2>1, WinnerOutranksLoser
  <1> QED BY <1>12, <1>13, <1>14

-----------------------------------------------------------------------------
(***************************************************************************)
(* The properties.                                                         *)
(***************************************************************************)

(* No partial measurement ever counts towards a confirmation, although     *)
(* _finish_confirmation reads only the deltas and gates of the other seeds.*)
THEOREM ConfirmationIsVerified == Spec => []ConfirmedIsVerified
  <1>1. LInv => ConfirmedIsVerified
    BY DEF LInv, Climbing, Fits, StatusFits, ConfirmedIsVerified
  <1> QED BY <1>1, LadderInvariance, PTL

(* What a child run measured is in asha_state.yaml or will be reported,    *)
(* through crash, evidence recovery, preemption, reopening and retry.      *)
THEOREM MeasurementsSurvive == Spec => []MeasurementIsNotLost
  <1>1. LInv => MeasurementIsNotLost
    BY DEF LInv, Accounted, Owed, MeasurementIsNotLost, RecordedOrRecoverable
  <1> QED BY <1>1, LadderInvariance, PTL

(* mark_running never refuses what next_assignment hands out: no outstanding*)
(* or newly asked-for assignment has a result already.                     *)
THEOREM AllocationsAreClaimable == Spec => []AllocationIsClaimable
  <1>1. IInv /\ LInv => AllocationIsClaimable
    <2> SUFFICES ASSUME IInv, LInv,
                        NextAssignment(study, confirm).assignment # NoAssignment
                 PROVE  CanRun(NextAssignment(study, confirm).study,
                               NextAssignment(study, confirm).assignment)
      BY DEF AllocationIsClaimable
    <2>1. NextAssignment(study, confirm).study.asg[NextAssignment(study, confirm).assignment].status
            \in Owed
      BY NextAssignmentClimbs DEF IInv, LInv, Typed
    <2> QED BY <2>1 DEF CanRun, Owed, Outstanding
  <1> QED BY <1>1, LadderInvariance, PTL

-----------------------------------------------------------------------------
(* A confirmed trial has passed every rung.                                *)
LEMMA ConfirmedIsAtTheTop ==
  ASSUME NEW s, Sound(s), Climbing(s), NEW k \in Keys, s.trial[k].status = "confirmed"
  PROVE  Slots \subseteq PassedSlots(s, k)
  <1> DEFINE r == s.trial[k]
  <1>1. \A slot \in FullSlots : r.obs[slot].kind = "complete" /\ Positive(r.obs[slot])
    BY DEF Sound, EarnedIn, Earned, Climbing, Fits, StatusFits
  <1>2. \A slot \in FullSlots : PassesAt(k, slot, r.obs[slot])
    BY <1>1 DEF PassesAt, Passed, FullSlots
  <1>3. Reached(k, r, "full_1")
    <2>1. "full_1" \in FullSlots /\ "full_1" \in Slots
      BY DEF FullSlots, Slots
    <2>2. r.obs["full_1"].kind # "none"
      BY <1>1, <2>1
    <2>3. "full_1" \in AllocatedSlots(s, k)
      BY <2>1, <2>2, ObservedIsAllocated DEF Climbing
    <2> QED BY <2>3 DEF Climbing, Fits, Grounded
  <1> HIDE DEF r
  <1>4. \A slot \in Slots : PassesAt(k, slot, r.obs[slot])
    BY <1>2, <1>3, ReachedFacts, SlotIsNamed DEF FullSlots
  <1> QED BY <1>4, PassedIsPassing DEF r

(* Two studies of one run map to a step of the budget ladder.              *)
LEMMA BehindIsAStep ==
  ASSUME Sound(disk'), Climbing(disk'), Behind(disk, disk')
  PROVE  Ladder!Next
  <1>1. ASSUME NEW k \in Keys
        PROVE  /\ AllocatedSlots(disk, k) \subseteq AllocatedSlots(disk', k)
               /\ \A slot \in AllocatedSlots(disk', k) \ AllocatedSlots(disk, k) :
                    SlotsBelow[slot] \subseteq PassedSlots(disk, k)
               /\ PassedSlots(disk, k) \subseteq PassedSlots(disk', k)
               /\ PassedSlots(disk', k) \subseteq AllocatedSlots(disk', k)
               /\ disk'.trial[k].status = "confirmed" => Slots \subseteq PassedSlots(disk', k)
    <2>1. ASSUME NEW slot \in Slots, PassesAt(k, slot, disk'.trial[k].obs[slot])
          PROVE  slot \in AllocatedSlots(disk', k)
      <3>1. disk'.trial[k].obs[slot].kind # "none"
        BY <2>1, PassingIsComplete
      <3> QED BY <3>1, ObservedIsAllocated DEF Climbing
    <2>2. PassedSlots(disk', k) \subseteq AllocatedSlots(disk', k)
      BY <2>1, PassedIsPassing
    <2> QED BY <2>2, ConfirmedIsAtTheTop DEF Behind
  <1>2. \A k : AllocatedSlots(disk', k) \in SUBSET Slots /\ PassedSlots(disk', k) \in SUBSET Slots
    BY DEF AllocatedSlots, PassedSlots
  <1> QED BY <1>1, <1>2 DEF Ladder!Next, Ladder!Grant, Ladder!Pass, Ladder!Confirm

(* The saved study climbs the abstract budget ladder: between two saves no *)
(* rung is granted but above complete, passing evidence that was saved     *)
(* before, no grant and no passing evidence is lost, and nothing is        *)
(* confirmed below the top.                                                *)
THEOREM SavedStudyIsALadder == Spec => ImplementsBudgetLadder
  <1>1. Init => Ladder!Init
    <2> SUFFICES ASSUME Init PROVE Ladder!Init
      OBVIOUS
    <2>1. ASSUME NEW k \in Keys
          PROVE  /\ AllocatedSlots(disk, k) = {} /\ PassedSlots(disk, k) = {}
                 /\ disk.trial[k].status # "confirmed"
      <3>1. \A slot \in Slots : /\ disk.asg[<<k, slot>>].status = "none"
                                /\ disk.trial[k].obs[slot].kind = "none"
        BY DEF Init, EmptyStudy, NoRecord, NoTrial, NoObs
      <3>2. disk.trial[k].status = "absent"
        BY DEF Init, EmptyStudy, NoTrial
      <3>3. \A slot \in Slots : ~PassesAt(k, slot, disk.trial[k].obs[slot])
        BY <3>1, PassingIsComplete
      <3> QED BY <3>1, <3>2, <3>3, PassedIsPassing DEF AllocatedSlots
    <2> QED BY <2>1 DEF Ladder!Init
  <1>2. IInv /\ IInv' /\ LInv /\ LInv' /\ [Next]_vars => [Ladder!Next]_(Ladder!vars)
    <2> SUFFICES ASSUME IInv, IInv', LInv, LInv', [Next]_vars PROVE Ladder!Next
      OBVIOUS
    <2> QED BY LadderInductive, BehindIsAStep DEF IInv, LInv
  <1> QED BY <1>1, <1>2, LadderInvariance, PTL DEF Spec, ImplementsBudgetLadder, Ladder!Spec

-----------------------------------------------------------------------------
(* A step of a running process reports, promotes nothing for the first     *)
(* time, or leaves the study alone.                                        *)
LEMMA RunningStep ==
  ASSUME IInv, LInv, [Next]_vars, pc # "down", pc' # "down"
  PROVE  Reporting \/ Retains(study, study')
  <1>1. CASE \/ Save \/ ResourceRecoveryPending \/ EndPlanning \/ UNCHANGED vars
    <2>1. study' = study
      BY <1>1 DEF Save, ResourceRecoveryPending, EndPlanning, vars
    <2> QED BY <2>1, RetainsItself
  <1>2. ~Start /\ ~Die
    BY DEF Start, Die
  <1> QED BY <1>1, <1>2, ClaimClimbs, RecoverEvidenceClimbs, TrainingCompletesClimbs,
             CandidateFailsClimbs, ControlFailsClimbs, PlanningClimbs DEF Next

(* A trial is promoted from pilot_3 only when no waiting trial of its      *)
(* cohort is still owed a result and none has a better complete one,       *)
(* whichever report re-ranks the cohort and for any number of candidates.  *)
THEOREM CohortsAreRanked == Spec => CohortIsRanked
  <1>1. ASSUME IInv, LInv, [Next]_vars, NEW k \in Keys, NEW m \in Keys,
               FirstPromotion(k), IsPaper(k) = IsPaper(m), study'.trial[m].status = "waiting"
        PROVE  /\ Pilot(study', m).kind # "none"
               /\ Pilot(study', m).kind = "complete" /\ study'.trial[m].obs["pilot_10"].kind = "none"
                    => Pilot(study', m).delta =< Pilot(study', k).delta
    <2>1. ~PromotesNone(study, study')
      BY <1>1 DEF FirstPromotion, PromotesNone
    <2>2. Reporting
      BY <1>1, <2>1, RunningStep DEF FirstPromotion, Retains
    <2>3. PICK b \in Assignments, o \in Observations :
            /\ study.asg[b].status # "none" /\ o.kind # "none"
            /\ study.trial[b[1]].obs[b[2]].kind # "complete"
            /\ study' = Report(study, b[1], b[2], o)
      BY <2>2 DEF Reporting
    <2> QED BY <1>1, <2>3, ReportRanks DEF FirstPromotion, IInv, LInv
  <1>2. IInv /\ LInv /\ [Next]_vars =>
          [\A k, m \in Keys :
             (FirstPromotion(k) /\ IsPaper(k) = IsPaper(m) /\ study'.trial[m].status = "waiting")
             => /\ Pilot(study', m).kind # "none"
                /\ Pilot(study', m).kind = "complete" /\ study'.trial[m].obs["pilot_10"].kind = "none"
                     => Pilot(study', m).delta =< Pilot(study', k).delta]_vars
    BY <1>1
  <1> QED BY <1>2, LadderInvariance, PTL DEF Spec, CohortIsRanked
=============================================================================
