---------------------------- MODULE RoundPlanProofs ----------------------------
(***************************************************************************)
(* The round plan for any cohort, any effects, any crashes and failures:   *)
(* what trains is in the plan and its projection, a cohort is decided      *)
(* together and for good, and halving implements the budget ladder.        *)
(***************************************************************************)
EXTENDS RoundPlan, FiniteSetTheorems, TLAPS

Trainees == Candidates \cup {Control}
PlanType ==
  [stage : Pilots \cup {"none", "full_pending_confirmation"}, status : [Nodes -> Statuses],
   rank : [Nodes -> Nat], score : [Nodes -> Effects \cup {None}],
   work : SUBSET Nodes, full : SUBSET Candidates, controlled : BOOLEAN, waiting : BOOLEAN]
EvidenceType == [Nodes -> [metric : Effects \cup {None}, eval : BOOLEAN]]

(* The cohort of a stage is deferred, in training, or decided, as a whole; *)
(* it is decided on the evidence of every pair.                            *)
Together(s) ==
  \/ \A c \in Candidates : plan.status[<<s, c>>] \in {"none", "deferred"}
  \/ \A c \in Candidates : plan.status[<<s, c>>] \in {"none", "active"}
  \/ \A c \in Candidates : \/ plan.status[<<s, c>>] = "none"
                           \/ plan.status[<<s, c>>] \in {"completed", "eliminated"} /\ Paired(s, c)

PlanInv ==
  /\ plan \in PlanType
  /\ evidence \in EvidenceType
  /\ plan.work = {n \in Nodes : plan.status[n] = "active"}
  /\ plan.stage = "none" => plan = NoPlan
  /\ \A s \in Pilots, x \in Trainees : plan.status[<<s, x>>] = "active" => s = plan.stage
  /\ plan.stage \in {"none", "pilot_3"} => \A x \in Trainees : plan.status[<<"pilot_10", x>>] = "none"
  /\ plan.stage # "full_pending_confirmation" => plan.full = {}
  /\ \A c \in Candidates : plan.status[<<"pilot_10", c>>] # "none" => plan.status[<<"pilot_3", c>>] = "completed"
  /\ \A s \in Pilots : Together(s)
-----------------------------------------------------------------------------
LEMMA NodesArePairs == \A s \in Pilots, x \in Trainees : <<s, x>> \in Nodes
  BY DEF Nodes, Trainees

LEMMA CandidatesAreFinite == \A S \in SUBSET Candidates : IsFiniteSet(S) /\ Cardinality(S) \in Nat
  BY CandidatesAssumption, FS_Subset, FS_CardinalityType

LEMMA PlaceIsNatural ==
  ASSUME NEW p, NEW s, NEW c
  PROVE  Place(p, s, c) \in Nat
  <1>1. {d \in Active(p, s) : d # c /\ Outranks(p, s, d, c)} \in SUBSET Candidates
    BY DEF Active
  <1> QED BY <1>1, CandidatesAreFinite DEF Place

(* What a cut does to the plan.                                            *)
LEMMA CutFacts ==
  ASSUME NEW p \in PlanType, evidence \in EvidenceType, p.stage \in Pilots
  PROVE  /\ Decided(p).status \in [Nodes -> Statuses]
         /\ Decided(p).score \in [Nodes -> Effects \cup {None}]
         /\ Decided(p) = [p EXCEPT !.status = Decided(p).status, !.score = Decided(p).score]
         /\ \A n \in Nodes : n[1] # p.stage \/ p.status[n] # "active" =>
              Decided(p).status[n] = p.status[n] /\ Decided(p).score[n] = p.score[n]
         /\ \A n \in Nodes : n[1] = p.stage /\ p.status[n] = "active" =>
              Decided(p).status[n] = IF n[2] = Control \/ n[2] \in Kept(p, p.stage)
                                     THEN "completed" ELSE "eliminated"
  <1> DEFINE s == p.stage
             status == [n \in Nodes |->
               IF n[1] # s \/ p.status[n] # "active" THEN p.status[n]
               ELSE IF n[2] = Control \/ n[2] \in Kept(p, s) THEN "completed" ELSE "eliminated"]
             score == [n \in Nodes |->
               IF n[1] = s /\ n[2] \in Active(p, s) THEN evidence[n].metric ELSE p.score[n]]
  <1>1. Decided(p) = [p EXCEPT !.status = status, !.score = score]
    BY DEF Decided
  <1>2. status \in [Nodes -> Statuses]
    BY DEF PlanType, Statuses
  <1>3. score \in [Nodes -> Effects \cup {None}]
    BY DEF PlanType, EvidenceType
  <1>4. \A n \in Nodes : n[1] = s /\ n[2] \in Active(p, s) => p.status[n] = "active"
    <2> SUFFICES ASSUME NEW x \in Pilots, NEW y \in Trainees, x = s, y \in Active(p, s)
                 PROVE  p.status[<<x, y>>] = "active"
      BY DEF Nodes, Trainees
    <2> QED BY DEF Active
  <1>5. /\ \A n \in Nodes : n[1] # s \/ p.status[n] # "active" => status[n] = p.status[n] /\ score[n] = p.score[n]
        /\ \A n \in Nodes : n[1] = s /\ p.status[n] = "active" =>
             status[n] = IF n[2] = Control \/ n[2] \in Kept(p, s) THEN "completed" ELSE "eliminated"
    BY <1>4
  <1> HIDE DEF status, score
  <1>6. Decided(p).status = status /\ Decided(p).score = score
    BY <1>1 DEF PlanType
  <1> QED BY <1>1, <1>2, <1>3, <1>5, <1>6

(* The same, as the cohort and the control see it.                         *)
LEMMA CutOfTheCohort ==
  ASSUME NEW p \in PlanType, evidence \in EvidenceType, p.stage \in Pilots,
         NEW s \in Pilots, NEW x \in Trainees
  PROVE  LET q == Decided(p)
         IN /\ s # p.stage \/ p.status[<<s, x>>] # "active" =>
                 q.status[<<s, x>>] = p.status[<<s, x>>] /\ q.score[<<s, x>>] = p.score[<<s, x>>]
            /\ s = p.stage /\ p.status[<<s, x>>] = "active" =>
                 q.status[<<s, x>>] = IF x = Control \/ x \in Kept(p, s) THEN "completed" ELSE "eliminated"
  <1>1. <<s, x>> \in Nodes /\ <<s, x>>[1] = s /\ <<s, x>>[2] = x
    BY NodesArePairs
  <1> QED BY <1>1, CutFacts

(* What a promotion does: a cut of pilot_3, and its survivors and the      *)
(* control begin pilot_10.                                                 *)
LEMMA PromotionFacts ==
  ASSUME NEW p \in PlanType, evidence \in EvidenceType, p.stage = "pilot_3"
  PROVE  LET q == Promoted(p)
         IN /\ q \in PlanType /\ q.stage = "pilot_10" /\ q.full = p.full
            /\ q.score = Decided(p).score
            /\ q.work = {"pilot_10"} \X (Kept(p, "pilot_3") \cup {Control})
            /\ \A x \in Trainees : /\ q.status[<<"pilot_3", x>>] = Decided(p).status[<<"pilot_3", x>>]
                                   /\ q.status[<<"pilot_10", x>>] =
                                        IF x \in Kept(p, "pilot_3") \cup {Control} THEN "active"
                                        ELSE Decided(p).status[<<"pilot_10", x>>]
  <1> DEFINE cut == Decided(p)
             kept == Kept(p, "pilot_3")
             next == {"pilot_10"} \X (kept \cup {Control})
             status == [n \in Nodes |-> IF n \in next THEN "active" ELSE cut.status[n]]
             rank == [n \in Nodes |-> IF n \in next /\ n[2] # Control THEN Place(p, "pilot_3", n[2]) ELSE p.rank[n]]
  <1>1. Promoted(p) = [cut EXCEPT !.stage = "pilot_10", !.status = status, !.rank = rank,
                                  !.work = next, !.waiting = FALSE]
    BY DEF Promoted
  <1>2. kept \in SUBSET Candidates
    BY DEF Kept, Active
  <1>3. next \in SUBSET Nodes
    BY <1>2 DEF Nodes, Pilots
  <1>4. /\ cut.status \in [Nodes -> Statuses]
        /\ cut.score \in [Nodes -> Effects \cup {None}]
        /\ cut = [p EXCEPT !.status = cut.status, !.score = cut.score]
    BY CutFacts DEF Pilots
  <1>5. status \in [Nodes -> Statuses]
    BY <1>4 DEF Statuses
  <1>6. rank \in [Nodes -> Nat]
    BY PlaceIsNatural DEF PlanType
  <1>7. \A x \in Trainees : /\ status[<<"pilot_3", x>>] = cut.status[<<"pilot_3", x>>]
                            /\ status[<<"pilot_10", x>>] = IF x \in kept \cup {Control} THEN "active"
                                                           ELSE cut.status[<<"pilot_10", x>>]
    BY NodesArePairs DEF Pilots
  <1> HIDE DEF cut, kept, next, status, rank
  <1>8. /\ cut \in PlanType /\ cut.full = p.full
    BY <1>4 DEF PlanType
  <1>9. /\ Promoted(p) \in PlanType
        /\ Promoted(p).stage = "pilot_10" /\ Promoted(p).full = p.full
        /\ Promoted(p).score = cut.score /\ Promoted(p).work = next /\ Promoted(p).status = status
    BY <1>1, <1>3, <1>5, <1>6, <1>8 DEF PlanType, Pilots
  <1> QED BY <1>7, <1>9 DEF cut, kept, next
-----------------------------------------------------------------------------
(* How a plan may move on: there is one still, decisions stay, only active *)
(* candidates are decided, and work and full budgets go to the survivors   *)
(* of what is below.                                                       *)
Moves ==
  /\ plan.stage # "none" => plan'.stage # "none"
  /\ \A s \in Pilots, c \in Candidates :
       /\ plan.status[<<s, c>>] \in {"completed", "eliminated"} =>
            /\ plan'.status[<<s, c>>] = plan.status[<<s, c>>]
            /\ plan'.score[<<s, c>>] = plan.score[<<s, c>>]
       /\ plan.status[<<s, c>>] = "active" => plan'.status[<<s, c>>] \in {"active", "completed", "eliminated"}
       /\ plan'.status[<<s, c>>] \in {"completed", "eliminated"} =>
            plan.status[<<s, c>>] \in {"active", "completed", "eliminated"}
  /\ \A c \in Candidates :
       plan'.status[<<"pilot_10", c>>] # "none" => plan'.status[<<"pilot_3", c>>] = "completed"
  /\ plan.full \subseteq plan'.full
  /\ \A c \in plan'.full \ plan.full : \A s \in Pilots : plan'.status[<<s, c>>] = "completed"

(* The statuses a cut leaves, before anybody begins the next stage.        *)
LEMMA CutStatuses ==
  ASSUME PlanInv, plan.stage \in Pilots, Decidable(plan)
  PROVE  LET q == Decided(plan)
         IN /\ \A s \in Pilots, x \in Trainees : q.status[<<s, x>>] # "active"
            /\ \A s \in Pilots :
                 \/ \A c \in Candidates : q.status[<<s, c>>] \in {"none", "deferred"}
                 \/ \A c \in Candidates :
                      \/ q.status[<<s, c>>] = "none"
                      \/ q.status[<<s, c>>] \in {"completed", "eliminated"} /\ Paired(s, c)
            /\ \A s \in Pilots, c \in Candidates :
                 /\ plan.status[<<s, c>>] # "active" =>
                      q.status[<<s, c>>] = plan.status[<<s, c>>] /\ q.score[<<s, c>>] = plan.score[<<s, c>>]
                 /\ plan.status[<<s, c>>] = "active" => q.status[<<s, c>>] \in {"completed", "eliminated"}
            /\ \A c \in Kept(plan, plan.stage) : c \in Candidates /\ q.status[<<plan.stage, c>>] = "completed"
            /\ \A c \in Candidates :
                 q.status[<<"pilot_10", c>>] # "none" => q.status[<<"pilot_3", c>>] = "completed"
  <1> DEFINE q == Decided(plan)
  <1>1. \A s \in Pilots, x \in Trainees :
          /\ s # plan.stage \/ plan.status[<<s, x>>] # "active" =>
               q.status[<<s, x>>] = plan.status[<<s, x>>] /\ q.score[<<s, x>>] = plan.score[<<s, x>>]
          /\ s = plan.stage /\ plan.status[<<s, x>>] = "active" =>
               q.status[<<s, x>>] = IF x = Control \/ x \in Kept(plan, s) THEN "completed" ELSE "eliminated"
    BY CutOfTheCohort DEF PlanInv
  <1>2. \A s \in Pilots, x \in Trainees : plan.status[<<s, x>>] = "active" => s = plan.stage
    BY DEF PlanInv
  <1>3. Candidates \subseteq Trainees /\ "pilot_3" \in Pilots /\ "pilot_10" \in Pilots
    BY DEF Trainees, Pilots
  <1>4. \A c \in Kept(plan, plan.stage) : c \in Candidates /\ plan.status[<<plan.stage, c>>] = "active"
    BY DEF Kept, Active
  <1>5. \A c \in Candidates : plan.status[<<plan.stage, c>>] = "active" => Paired(plan.stage, c)
    BY DEF Decidable, Active
  <1>6. \A s \in Pilots : Together(s)
    BY DEF PlanInv
  <1>7. \A c \in Candidates : plan.status[<<"pilot_10", c>>] # "none" => plan.status[<<"pilot_3", c>>] = "completed"
    BY DEF PlanInv
  <1> HIDE DEF q
  <1>8. \A s \in Pilots, x \in Trainees : q.status[<<s, x>>] # "active"
    BY <1>1, <1>2
  <1>9. \A s \in Pilots, c \in Candidates :
          /\ plan.status[<<s, c>>] # "active" =>
               q.status[<<s, c>>] = plan.status[<<s, c>>] /\ q.score[<<s, c>>] = plan.score[<<s, c>>]
          /\ plan.status[<<s, c>>] = "active" => q.status[<<s, c>>] \in {"completed", "eliminated"}
    BY <1>1, <1>2, <1>3
  <1>10. \A c \in Kept(plan, plan.stage) : c \in Candidates /\ q.status[<<plan.stage, c>>] = "completed"
    BY <1>1, <1>3, <1>4
  <1>11. ASSUME NEW s \in Pilots
         PROVE  \/ \A c \in Candidates : q.status[<<s, c>>] \in {"none", "deferred"}
                \/ \A c \in Candidates :
                     \/ q.status[<<s, c>>] = "none"
                     \/ q.status[<<s, c>>] \in {"completed", "eliminated"} /\ Paired(s, c)
    <2>1. CASE \A c \in Candidates : plan.status[<<s, c>>] \in {"none", "deferred"}
      BY <1>9, <2>1
    <2>2. CASE \A c \in Candidates : plan.status[<<s, c>>] \in {"none", "active"}
      BY <1>2, <1>3, <1>5, <1>9, <2>2
    <2>3. CASE \A c \in Candidates : \/ plan.status[<<s, c>>] = "none"
                                     \/ plan.status[<<s, c>>] \in {"completed", "eliminated"} /\ Paired(s, c)
      BY <1>9, <2>3
    <2> QED BY <1>6, <2>1, <2>2, <2>3 DEF Together
  <1>12. ASSUME NEW c \in Candidates, q.status[<<"pilot_10", c>>] # "none"
         PROVE  q.status[<<"pilot_3", c>>] = "completed"
    <2>1. plan.status[<<"pilot_10", c>>] # "none"
      BY <1>3, <1>9, <1>12
    <2> QED BY <1>3, <1>7, <1>9, <2>1
  <1> QED BY <1>8, <1>9, <1>10, <1>11, <1>12 DEF q

LEMMA WaitingKeepsPlan ==
  ASSUME PlanInv, plan.stage \in Pilots, plan' = [plan EXCEPT !.waiting = TRUE], evidence' = evidence
  PROVE  PlanInv' /\ Moves
  <1>1. /\ plan' \in PlanType /\ plan'.stage = plan.stage /\ plan'.status = plan.status
        /\ plan'.score = plan.score /\ plan'.full = plan.full /\ plan'.work = plan.work
        /\ plan.stage # "none"
    BY DEF PlanInv, PlanType, Pilots
  <1>2. \A s \in Pilots : Together(s)'
    BY <1>1 DEF PlanInv, Together, Paired
  <1>3. PlanInv'
    BY <1>1, <1>2 DEF PlanInv
  <1>4. Moves
    BY <1>1 DEF Moves, PlanInv
  <1> QED BY <1>3, <1>4

(* A cut without a promotion, at the end of halving or without a control.  *)
LEMMA CutKeepsPlan ==
  ASSUME PlanInv, plan.stage \in Pilots, Decidable(plan), evidence' = evidence,
         plan' \in PlanType, plan'.work = {}, plan'.stage # "none",
         plan'.status = Decided(plan).status, plan'.score = Decided(plan).score,
         \/ plan'.full = {} /\ plan'.stage = "pilot_3" /\ plan.stage = "pilot_3"
         \/ plan'.full = Kept(plan, "pilot_10") /\ plan.stage = "pilot_10"
            /\ plan'.stage = "full_pending_confirmation"
  PROVE  PlanInv' /\ Moves
  <1> DEFINE q == Decided(plan)
  <1>1. /\ \A s \in Pilots, x \in Trainees : q.status[<<s, x>>] # "active"
        /\ \A s \in Pilots :
             \/ \A c \in Candidates : q.status[<<s, c>>] \in {"none", "deferred"}
             \/ \A c \in Candidates :
                  \/ q.status[<<s, c>>] = "none"
                  \/ q.status[<<s, c>>] \in {"completed", "eliminated"} /\ Paired(s, c)
        /\ \A s \in Pilots, c \in Candidates :
             /\ plan.status[<<s, c>>] # "active" =>
                  q.status[<<s, c>>] = plan.status[<<s, c>>] /\ q.score[<<s, c>>] = plan.score[<<s, c>>]
             /\ plan.status[<<s, c>>] = "active" => q.status[<<s, c>>] \in {"completed", "eliminated"}
        /\ \A c \in Kept(plan, plan.stage) : c \in Candidates /\ q.status[<<plan.stage, c>>] = "completed"
        /\ \A c \in Candidates :
             q.status[<<"pilot_10", c>>] # "none" => q.status[<<"pilot_3", c>>] = "completed"
    BY CutStatuses
  <1>2. plan'.status = q.status /\ plan'.score = q.score
    OBVIOUS
  <1>3. \A s \in Pilots, c \in Candidates : Paired(s, c)' <=> Paired(s, c)
    BY DEF Paired
  <1>4. plan.full = {}
    BY DEF PlanInv, Pilots
  <1>5. /\ plan.stage = "pilot_3" =>
             \A x \in Trainees : q.status[<<"pilot_10", x>>] = "none"
        /\ "pilot_10" \in Pilots /\ Candidates \subseteq Trainees
    BY CutOfTheCohort DEF PlanInv, Pilots, Trainees
  <1> HIDE DEF q
  <1>6. \A s \in Pilots : Together(s)'
    BY <1>1, <1>2, <1>3 DEF Together
  <1>7. {n \in Nodes : plan'.status[n] = "active"} = {}
    <2>1. \A n \in Nodes : \E s \in Pilots, x \in Trainees : n = <<s, x>>
      BY DEF Nodes, Trainees
    <2> QED BY <1>1, <1>2, <2>1
  <1>8. PlanInv'
    BY <1>1, <1>2, <1>5, <1>6, <1>7 DEF PlanInv
  <1>9. ASSUME NEW c \in plan'.full
        PROVE  \A s \in Pilots : plan'.status[<<s, c>>] = "completed"
    <2>1. plan.stage = "pilot_10" /\ c \in Kept(plan, "pilot_10")
      BY <1>9
    <2>2. c \in Candidates /\ q.status[<<"pilot_10", c>>] = "completed"
      BY <1>1, <2>1
    <2>3. q.status[<<"pilot_3", c>>] = "completed"
      BY <1>1, <2>2
    <2> QED BY <1>2, <2>2, <2>3 DEF Pilots
  <1>10. Moves
    <2>1. ASSUME NEW s \in Pilots, NEW c \in Candidates
          PROVE  /\ plan.status[<<s, c>>] \in {"completed", "eliminated"} =>
                      /\ plan'.status[<<s, c>>] = plan.status[<<s, c>>]
                      /\ plan'.score[<<s, c>>] = plan.score[<<s, c>>]
                 /\ plan.status[<<s, c>>] = "active" =>
                      plan'.status[<<s, c>>] \in {"active", "completed", "eliminated"}
                 /\ plan'.status[<<s, c>>] \in {"completed", "eliminated"} =>
                      plan.status[<<s, c>>] \in {"active", "completed", "eliminated"}
      BY <1>1, <1>2
    <2> QED BY <1>1, <1>2, <1>4, <1>9, <2>1 DEF Moves
  <1> QED BY <1>8, <1>10

(* A promotion: the survivors of pilot_3 and the control begin pilot_10.   *)
LEMMA PromotionKeepsPlan ==
  ASSUME PlanInv, plan.stage = "pilot_3", Decidable(plan), evidence' = evidence,
         plan' = Promoted(plan)
  PROVE  PlanInv' /\ Moves
  <1> DEFINE q == Decided(plan)
             kept == Kept(plan, "pilot_3")
  <1>1. /\ \A s \in Pilots, x \in Trainees : q.status[<<s, x>>] # "active"
        /\ \A s \in Pilots :
             \/ \A c \in Candidates : q.status[<<s, c>>] \in {"none", "deferred"}
             \/ \A c \in Candidates :
                  \/ q.status[<<s, c>>] = "none"
                  \/ q.status[<<s, c>>] \in {"completed", "eliminated"} /\ Paired(s, c)
        /\ \A s \in Pilots, c \in Candidates :
             /\ plan.status[<<s, c>>] # "active" =>
                  q.status[<<s, c>>] = plan.status[<<s, c>>] /\ q.score[<<s, c>>] = plan.score[<<s, c>>]
             /\ plan.status[<<s, c>>] = "active" => q.status[<<s, c>>] \in {"completed", "eliminated"}
        /\ \A c \in kept : c \in Candidates /\ q.status[<<"pilot_3", c>>] = "completed"
    BY CutStatuses DEF Pilots
  <1>2. /\ plan' \in PlanType /\ plan'.stage = "pilot_10" /\ plan'.full = plan.full
        /\ plan'.score = q.score
        /\ plan'.work = {"pilot_10"} \X (kept \cup {Control})
        /\ \A x \in Trainees : /\ plan'.status[<<"pilot_3", x>>] = q.status[<<"pilot_3", x>>]
                               /\ plan'.status[<<"pilot_10", x>>] =
                                    IF x \in kept \cup {Control} THEN "active" ELSE q.status[<<"pilot_10", x>>]
    BY PromotionFacts DEF PlanInv
  <1>3. \A s \in Pilots, c \in Candidates : Paired(s, c)' <=> Paired(s, c)
    BY DEF Paired
  <1>4. plan.full = {} /\ \A x \in Trainees : plan.status[<<"pilot_10", x>>] = "none"
    BY DEF PlanInv
  <1>5. /\ Pilots = {"pilot_3", "pilot_10"} /\ Candidates \subseteq Trainees /\ Control \in Trainees
        /\ \A x \in Trainees : q.status[<<"pilot_10", x>>] = "none"
    <2>1. \A x \in Trainees : q.status[<<"pilot_10", x>>] = plan.status[<<"pilot_10", x>>]
      BY <1>4, CutOfTheCohort DEF PlanInv, Pilots
    <2> QED BY <1>4, <2>1 DEF Pilots, Trainees
  <1> HIDE DEF q, kept
  <1>6. \A x \in Trainees :
          plan'.status[<<"pilot_10", x>>] = IF x \in kept \cup {Control} THEN "active" ELSE "none"
    BY <1>2, <1>5
  <1>6a. \A x \in Trainees : q.status[<<"pilot_3", x>>] # "active"
    <2>1. "pilot_3" \in Pilots
      BY <1>5
    <2>2. \A s \in Pilots, x \in Trainees : q.status[<<s, x>>] # "active"
      BY <1>1
    <2> QED BY <2>1, <2>2
  <1>7. \A s \in Pilots : Together(s)'
    <2>1. \/ \A c \in Candidates : q.status[<<"pilot_3", c>>] \in {"none", "deferred"}
          \/ \A c \in Candidates :
               \/ q.status[<<"pilot_3", c>>] = "none"
               \/ q.status[<<"pilot_3", c>>] \in {"completed", "eliminated"} /\ Paired("pilot_3", c)
      BY <1>1, <1>5
    <2>2. \A c \in Candidates : /\ plan'.status[<<"pilot_3", c>>] = q.status[<<"pilot_3", c>>]
                                /\ Paired("pilot_3", c)' <=> Paired("pilot_3", c)
      BY <1>2, <1>3, <1>5
    <2>3. Together("pilot_3")'
      BY <2>1, <2>2 DEF Together
    <2>4. Together("pilot_10")'
      BY <1>5, <1>6 DEF Together
    <2> QED BY <1>5, <2>3, <2>4
  <1>8. plan'.work = {n \in Nodes : plan'.status[n] = "active"}
    <2>1. \A s \in Pilots, x \in Trainees : plan'.status[<<s, x>>] = "active"
                                            <=> s = "pilot_10" /\ x \in kept \cup {Control}
      <3>1. \A x \in Trainees : plan'.status[<<"pilot_3", x>>] # "active"
        BY <1>2, <1>6a
      <3>2. \A x \in Trainees : plan'.status[<<"pilot_10", x>>] = "active" <=> x \in kept \cup {Control}
        BY <1>6
      <3> QED BY <1>5, <3>1, <3>2
    <2>2. \A n : n \in Nodes <=> \E s \in Pilots, x \in Trainees : n = <<s, x>>
      BY DEF Nodes, Trainees
    <2>3. kept \cup {Control} \subseteq Trainees
      BY <1>1, <1>5
    <2>4. \A n : n \in plan'.work <=> \E x \in kept \cup {Control} : n = <<"pilot_10", x>>
      BY <1>2
    <2> QED BY <1>5, <2>1, <2>2, <2>3, <2>4
  <1>9. \A c \in Candidates :
          plan'.status[<<"pilot_10", c>>] # "none" => plan'.status[<<"pilot_3", c>>] = "completed"
    BY <1>1, <1>2, <1>5, <1>6, ControlAssumption
  <1>10. \A s \in Pilots, x \in Trainees : plan'.status[<<s, x>>] = "active" => s = plan'.stage
    <2>1. \A x \in Trainees : plan'.status[<<"pilot_3", x>>] # "active"
      BY <1>2, <1>6a
    <2> QED BY <1>2, <1>5, <2>1
  <1>11. PlanInv'
    BY <1>2, <1>4, <1>7, <1>8, <1>9, <1>10 DEF PlanInv
  <1>12. ASSUME NEW s \in Pilots, NEW c \in Candidates
         PROVE  /\ plan.status[<<s, c>>] \in {"completed", "eliminated"} =>
                     /\ plan'.status[<<s, c>>] = plan.status[<<s, c>>]
                     /\ plan'.score[<<s, c>>] = plan.score[<<s, c>>]
                /\ plan.status[<<s, c>>] = "active" =>
                     plan'.status[<<s, c>>] \in {"active", "completed", "eliminated"}
                /\ plan'.status[<<s, c>>] \in {"completed", "eliminated"} =>
                     plan.status[<<s, c>>] \in {"active", "completed", "eliminated"}
    <2>1. CASE s = "pilot_3"
      <3>1. /\ plan'.status[<<"pilot_3", c>>] = q.status[<<"pilot_3", c>>]
            /\ plan'.score[<<"pilot_3", c>>] = q.score[<<"pilot_3", c>>]
        BY <1>2, <1>5
      <3>2. /\ plan.status[<<"pilot_3", c>>] # "active" =>
                 /\ q.status[<<"pilot_3", c>>] = plan.status[<<"pilot_3", c>>]
                 /\ q.score[<<"pilot_3", c>>] = plan.score[<<"pilot_3", c>>]
            /\ plan.status[<<"pilot_3", c>>] = "active" => q.status[<<"pilot_3", c>>] \in {"completed", "eliminated"}
        BY <1>1, <1>5
      <3> QED BY <2>1, <3>1, <3>2
    <2>2. CASE s = "pilot_10"
      BY <1>4, <1>5, <1>6, <2>2
    <2> QED BY <1>5, <2>1, <2>2
  <1>13. Moves
    BY <1>2, <1>4, <1>9, <1>12 DEF Moves
  <1> QED BY <1>11, <1>13

LEMMA ReconcileKeepsPlan ==
  ASSUME PlanInv, plan.stage \in Pilots, plan' = Reconciled(plan), evidence' = evidence
  PROVE  PlanInv' /\ Moves
  <1>1. /\ Decided(plan).status \in [Nodes -> Statuses]
        /\ Decided(plan).score \in [Nodes -> Effects \cup {None}]
        /\ Decided(plan) = [plan EXCEPT !.status = Decided(plan).status, !.score = Decided(plan).score]
    BY CutFacts DEF PlanInv
  <1> DEFINE q == Decided(plan)
  <1>2. q \in PlanType /\ q.stage = plan.stage /\ q.full = plan.full
    BY <1>1 DEF PlanInv, PlanType
  <1>3. CASE ~Decidable(plan)
    BY <1>3, WaitingKeepsPlan DEF Reconciled
  <1>4. CASE Decidable(plan) /\ plan.stage = "pilot_10"
    <2>1. plan' = [q EXCEPT !.stage = "full_pending_confirmation", !.work = {},
                            !.full = Kept(plan, "pilot_10"), !.waiting = FALSE]
      BY <1>4 DEF Reconciled, Finished
    <2>2. Kept(plan, "pilot_10") \in SUBSET Candidates
      BY DEF Kept, Active
    <2> HIDE DEF q
    <2>3. /\ plan' \in PlanType /\ plan'.work = {} /\ plan'.stage = "full_pending_confirmation"
          /\ plan'.status = q.status /\ plan'.score = q.score /\ plan'.full = Kept(plan, "pilot_10")
      BY <1>2, <2>1, <2>2 DEF PlanType
    <2> QED BY <1>4, <2>3, CutKeepsPlan DEF q
  <1>5. CASE Decidable(plan) /\ plan.stage = "pilot_3" /\ plan.controlled
    BY <1>5, PromotionKeepsPlan DEF Reconciled
  <1>6. CASE Decidable(plan) /\ plan.stage = "pilot_3" /\ ~plan.controlled
    <2>1. plan' = [q EXCEPT !.work = {}, !.waiting = TRUE]
      BY <1>6 DEF Reconciled
    <2>2. plan.full = {}
      BY <1>6 DEF PlanInv
    <2> HIDE DEF q
    <2>3. /\ plan' \in PlanType /\ plan'.work = {} /\ plan'.stage = "pilot_3"
          /\ plan'.status = q.status /\ plan'.score = q.score /\ plan'.full = {}
      BY <1>2, <1>6, <2>1, <2>2 DEF PlanType
    <2> QED BY <1>6, <2>3, CutKeepsPlan DEF q
  <1> QED BY <1>3, <1>4, <1>5, <1>6 DEF Pilots

(* A new plan: its cohort begins together, or is deferred together.        *)
LEMMA NewPlanIsGood ==
  ASSUME PlanInv, plan = NoPlan, evidence' = evidence,
         NEW selected \in SUBSET Candidates, NEW controlled \in BOOLEAN,
         plan' = NewPlan(selected, controlled)
  PROVE  PlanInv' /\ Moves
  <1> DEFINE work == IF controlled /\ selected # {} THEN {"pilot_3"} \X (selected \cup {Control}) ELSE {}
             status == [n \in Nodes |-> IF n \in work THEN "active"
                                        ELSE IF n[1] = "pilot_3" /\ n[2] \in selected THEN "deferred" ELSE "none"]
             rank == [n \in Nodes |-> IF n[1] = "pilot_3" /\ n[2] \in selected
                                      THEN Cardinality({c \in selected : c <= n[2]}) ELSE 0]
             score == [n \in Nodes |-> None]
  <1>1. plan' = [stage |-> "pilot_3", status |-> status, rank |-> rank, score |-> score, work |-> work,
                 full |-> {}, controlled |-> controlled, waiting |-> FALSE]
    BY DEF NewPlan, NoPlan
  <1>2. work \in SUBSET Nodes
    BY DEF Nodes, Pilots
  <1>3. status \in [Nodes -> Statuses]
    BY DEF Statuses
  <1>4. rank \in [Nodes -> Nat]
    <2>1. \A m : {c \in selected : c <= m} \in SUBSET Candidates
      OBVIOUS
    <2> QED BY <2>1, CandidatesAreFinite
  <1>5. score \in [Nodes -> Effects \cup {None}]
    OBVIOUS
  <1>5b. \A x \in Trainees :
           /\ <<"pilot_10", x>> \notin work
           /\ <<"pilot_3", x>> \in work <=> controlled /\ selected # {} /\ x \in selected \cup {Control}
    OBVIOUS
  <1> HIDE DEF work
  <1>5a. \A n \in Nodes :
           /\ n \in work => status[n] = "active"
           /\ n \notin work /\ n[1] = "pilot_3" /\ n[2] \in selected => status[n] = "deferred"
           /\ n \notin work /\ ~(n[1] = "pilot_3" /\ n[2] \in selected) => status[n] = "none"
    OBVIOUS
  <1> HIDE DEF status
  <1>6. /\ \A x \in Trainees : status[<<"pilot_10", x>>] = "none"
        /\ \/ \A x \in Trainees : status[<<"pilot_3", x>>] \in {"none", "active"}
           \/ \A x \in Trainees : status[<<"pilot_3", x>>] \in {"none", "deferred"}
    <2>1. \A x \in Trainees : <<"pilot_3", x>> \in Nodes /\ <<"pilot_10", x>> \in Nodes
      BY NodesArePairs DEF Pilots
    <2>2. CASE controlled /\ selected # {}
      BY <1>5a, <1>5b, <2>1, <2>2
    <2>3. CASE ~(controlled /\ selected # {})
      BY <1>5a, <1>5b, <2>1, <2>3
    <2> QED BY <2>2, <2>3
  <1>7. work = {n \in Nodes : status[n] = "active"}
    BY <1>2, <1>5a
  <1> HIDE DEF rank, score
  <1>8. /\ plan' \in PlanType /\ plan'.stage = "pilot_3" /\ plan'.status = status /\ plan'.full = {}
        /\ plan'.work = work
    BY <1>1, <1>2, <1>3, <1>4, <1>5 DEF PlanType, Pilots
  <1>9. Pilots = {"pilot_3", "pilot_10"} /\ Candidates \subseteq Trainees
    BY DEF Pilots, Trainees
  <1>10. Together("pilot_10")' /\ Together("pilot_3")'
    BY <1>6, <1>8, <1>9 DEF Together
  <1>11. \A s \in Pilots, x \in Trainees : plan'.status[<<s, x>>] = "active" => s = "pilot_3"
    BY <1>6, <1>8, <1>9
  <1>12. \A c \in Candidates : plan'.status[<<"pilot_10", c>>] = "none"
    BY <1>6, <1>8, <1>9
  <1>13. evidence' \in EvidenceType
    BY DEF PlanInv
  <1>14. PlanInv'
    BY <1>6, <1>7, <1>8, <1>9, <1>10, <1>11, <1>12, <1>13 DEF PlanInv
  <1>15. \A s \in Pilots, c \in Candidates : plan.status[<<s, c>>] = "none"
    BY NodesArePairs, <1>9 DEF NoPlan
  <1>16. \A s \in Pilots, c \in Candidates : plan'.status[<<s, c>>] \notin {"completed", "eliminated"}
    BY <1>6, <1>8, <1>9
  <1>17. plan.full = {}
    BY DEF NoPlan
  <1>18. Moves
    BY <1>8, <1>12, <1>15, <1>16, <1>17 DEF Moves
  <1> QED BY <1>14, <1>18

(* Evidence arrives and is replaced, but is never taken back.              *)
LEMMA EvidenceKeepsPlan ==
  ASSUME PlanInv, plan' = plan, evidence' \in EvidenceType,
         \A n \in Nodes : evidence[n].metric # None => evidence'[n].metric # None
  PROVE  PlanInv' /\ Moves
  <1>1. \A s \in Pilots, c \in Candidates : Paired(s, c) => Paired(s, c)'
    BY NodesArePairs DEF Paired, Trainees
  <1>2. \A s \in Pilots : Together(s)'
    BY <1>1 DEF PlanInv, Together
  <1>3. PlanInv'
    BY <1>2 DEF PlanInv
  <1> QED BY <1>3 DEF PlanInv, Moves
-----------------------------------------------------------------------------
QueueType ==
  [hash : [assigned : SUBSET Nodes, full : SUBSET Candidates, work : SUBSET Nodes],
   status : [Nodes -> {"absent", "queued", "running", "completed", "failed"}]]
DriverType ==
  [pc : {"off", "step", "enqueue", "execute", "training", "trained", "reconciled"},
   node : Nodes \cup {None}, trained : BOOLEAN]

(* A queue holds work of the plan it names; if that is the plan on file,   *)
(* its projection is on file, too; and whoever executes knows such a queue. *)
QueueInv ==
  /\ projection \in SUBSET Nodes
  /\ queue = NoQueue \/ queue \in QueueType
  /\ driver \in DriverType
  /\ closing \in {"none", "reported", "closed"}
  /\ faults \in 0..MaxFaults
  /\ plan.stage = "none" => driver.pc = "off"
  /\ queue # NoQueue => \A n \in Nodes : queue.status[n] # "absent" => n \in queue.hash.work
  /\ Fresh => projection = plan.work
  /\ driver.pc = "enqueue" => projection = plan.work
  /\ driver.pc \in {"execute", "training", "trained"} => Fresh
  /\ driver.pc \in {"training", "trained"} => driver.node \in Nodes /\ queue.status[driver.node] # "absent"

IInv == PlanInv /\ QueueInv
-----------------------------------------------------------------------------
LEMMA NoQueueIsNone == NoQueue \notin QueueType
  <1>1. "status" \notin DOMAIN NoQueue
    BY DEF NoQueue
  <1>2. \A q \in QueueType : "status" \in DOMAIN q
    BY DEF QueueType
  <1> QED BY <1>1, <1>2

LEMMA DriverPlaces ==
  /\ Off \in DriverType /\ Off.pc = "off"
  /\ \A place \in {"step", "enqueue", "execute", "reconciled"} :
       At(place) \in DriverType /\ At(place).pc = place
  /\ \A n \in Nodes : LET d == [At("training") EXCEPT !.node = n]
                      IN d \in DriverType /\ d.pc = "training" /\ d.node = n
  BY DEF Off, At, DriverType

LEMMA HashNamesWork == \A p \in PlanType : /\ PlanHash(p).work = p.work
                                           /\ PlanHash(p) \in [assigned : SUBSET Nodes, full : SUBSET Candidates,
                                                               work : SUBSET Nodes]
  BY DEF PlanHash, PlanType

LEMMA Initially == Init => IInv
  <1> SUFFICES ASSUME Init PROVE IInv
    OBVIOUS
  <1>1. plan \in PlanType /\ plan.stage = "none" /\ plan.full = {} /\ plan.work = {}
    BY DEF Init, NoPlan, PlanType, Statuses
  <1>2. \A n \in Nodes : plan.status[n] = "none"
    BY DEF Init, NoPlan
  <1>3. \A s \in Pilots, x \in Trainees : plan.status[<<s, x>>] = "none"
    BY <1>2, NodesArePairs
  <1>4. evidence \in EvidenceType
    BY DEF Init, EvidenceType, NoEvidence
  <1>5. \A s \in Pilots : Together(s)
    BY <1>3 DEF Together, Trainees
  <1>6. PlanInv
    BY <1>1, <1>2, <1>3, <1>4, <1>5 DEF PlanInv, Init, Trainees, Pilots
  <1>7. QueueInv
    BY <1>1, DriverPlaces, FaultsAssumption DEF QueueInv, Init, Fresh
  <1> QED BY <1>6, <1>7 DEF IInv
-----------------------------------------------------------------------------
(* Steps that leave plan and evidence alone.                               *)
LEMMA SamePlan ==
  ASSUME PlanInv, plan' = plan, evidence' = evidence
  PROVE  PlanInv' /\ Moves
  BY EvidenceKeepsPlan DEF PlanInv

LEMMA DriverMoves ==
  ASSUME IInv, Invoke \/ EndExecution \/ Close \/ Crash \/ \E n \in Nodes : Fail(n)
  PROVE  IInv' /\ Moves
  <1>1. /\ plan' = plan /\ evidence' = evidence /\ projection' = projection /\ queue' = queue
    BY DEF Invoke, EndExecution, Close, Crash, Fail
  <1>2. PlanInv' /\ Moves
    BY <1>1, SamePlan DEF IInv
  <1>3. Fresh' <=> Fresh
    BY <1>1 DEF Fresh
  <1>4. closing' \in {"none", "reported", "closed"} /\ faults' \in 0..MaxFaults
    BY FaultsAssumption DEF IInv, QueueInv, Invoke, EndExecution, Close, Crash, Fail
  <1>5. /\ driver' \in DriverType
        /\ \/ driver'.pc \in {"off", "step"}
           \/ driver' = driver
           \/ driver.pc = "training" /\ driver'.pc = "trained" /\ driver'.node = driver.node
        /\ plan.stage = "none" => driver'.pc = "off"
    <2>1. CASE Invoke
      <3>1. plan.stage # "none"
        BY <2>1 DEF Invoke, IInv, PlanInv
      <3> QED BY <2>1, <3>1, DriverPlaces DEF Invoke
    <2>2. CASE EndExecution
      BY <2>2, DriverPlaces DEF EndExecution, IInv, QueueInv
    <2>3. CASE Close
      BY <2>3, DriverPlaces DEF Close, Drained, IInv, QueueInv
    <2>4. CASE Crash
      BY <2>4, DriverPlaces DEF Crash, IInv, QueueInv
    <2>5. CASE \E n \in Nodes : Fail(n)
      BY <2>5 DEF Fail, IInv, QueueInv, DriverType
    <2> QED BY <2>1, <2>2, <2>3, <2>4, <2>5
  <1>6. QueueInv'
    BY <1>1, <1>3, <1>4, <1>5 DEF IInv, QueueInv
  <1> QED BY <1>2, <1>6 DEF IInv

(* Trainings and recoveries bring evidence.                                *)
LEMMA EvidenceArrives ==
  ASSUME IInv, NEW n \in Nodes,
         \/ \E r \in Measured : Train(n, r)
         \/ \E r \in Unmeasured : TrainInVain(n, r)
         \/ RecoverEvidence(n)
  PROVE  IInv' /\ Moves
  <1>1. plan' = plan /\ projection' = projection /\ queue' = queue /\ closing' = closing
    BY DEF Train, TrainInVain, RecoverEvidence
  <1>2. Effects \subseteq Effects \cup {None} /\ None \notin Effects
    BY EffectsAssumption
  <1>3. \E e \in [metric : Effects \cup {None}, eval : BOOLEAN] :
          /\ evidence' = [evidence EXCEPT ![n] = e]
          /\ evidence[n].metric # None => e.metric # None
    <2>1. evidence[n].metric \in Effects \cup {None} /\ evidence[n].eval \in BOOLEAN
      BY DEF IInv, PlanInv, EvidenceType
    <2>2. ASSUME NEW r \in Measured, Train(n, r)
          PROVE  \E e \in [metric : Effects \cup {None}, eval : BOOLEAN] :
                   /\ evidence' = [evidence EXCEPT ![n] = e]
                   /\ evidence[n].metric # None => e.metric # None
      <3> DEFINE e == [metric |-> r.metric, eval |-> evidence[n].eval \/ r.eval]
      <3>1. e \in [metric : Effects \cup {None}, eval : BOOLEAN] /\ e.metric # None
        BY <1>2, <2>1, PostEvalAssumption DEF Measured
      <3>2. evidence' = [evidence EXCEPT ![n] = e]
        BY <2>2 DEF Train
      <3> QED BY <3>1, <3>2
    <2>3. ASSUME NEW r \in Unmeasured, TrainInVain(n, r)
          PROVE  \E e \in [metric : Effects \cup {None}, eval : BOOLEAN] :
                   /\ evidence' = [evidence EXCEPT ![n] = e]
                   /\ evidence[n].metric # None => e.metric # None
      <3> DEFINE m == IF r.metric # None THEN r.metric ELSE evidence[n].metric
                 e == [evidence[n] EXCEPT !.metric = m]
      <3>1. r.metric \in Effects \cup {None}
        <4>1. CASE r = NoEvidence
          BY <4>1 DEF NoEvidence
        <4>2. CASE r \in [metric : Effects, eval : {FALSE}]
          BY <4>2
        <4> QED BY <4>1, <4>2 DEF Unmeasured
      <3>2. m \in Effects \cup {None} /\ (evidence[n].metric # None => m # None)
        BY <2>1, <3>1
      <3> HIDE DEF m
      <3>3. e \in [metric : Effects \cup {None}, eval : BOOLEAN] /\ e.metric = m
        BY <3>2 DEF IInv, PlanInv, EvidenceType
      <3>4. evidence' = [evidence EXCEPT ![n] = e]
        BY <2>3 DEF TrainInVain, m
      <3> QED BY <3>2, <3>3, <3>4
    <2>4. ASSUME RecoverEvidence(n)
          PROVE  \E e \in [metric : Effects \cup {None}, eval : BOOLEAN] :
                   /\ evidence' = [evidence EXCEPT ![n] = e]
                   /\ evidence[n].metric # None => e.metric # None
      <3>1. PICK effect \in Effects :
              evidence' = [evidence EXCEPT ![n] =
                [metric |-> IF evidence[n].metric = None THEN effect ELSE evidence[n].metric, eval |-> PostEval]]
        BY <2>4 DEF RecoverEvidence
      <3> DEFINE e == [metric |-> IF evidence[n].metric = None THEN effect ELSE evidence[n].metric,
                       eval |-> PostEval]
      <3>2. e \in [metric : Effects \cup {None}, eval : BOOLEAN]
            /\ (evidence[n].metric # None => e.metric # None)
        BY <2>1, PostEvalAssumption
      <3> QED BY <3>1, <3>2
    <2> QED BY <2>2, <2>3, <2>4
  <1>4. /\ evidence' \in EvidenceType
        /\ \A m \in Nodes : evidence[m].metric # None => evidence'[m].metric # None
    BY <1>3 DEF IInv, PlanInv, EvidenceType
  <1>5. PlanInv' /\ Moves
    BY <1>1, <1>4, EvidenceKeepsPlan DEF IInv
  <1>6. Fresh' <=> Fresh
    BY <1>1 DEF Fresh
  <1>7. faults' \in 0..MaxFaults
    BY FaultsAssumption DEF IInv, QueueInv, Train, TrainInVain, RecoverEvidence
  <1>8. /\ driver' \in DriverType
        /\ \/ driver' = driver
           \/ driver.pc = "training" /\ driver'.pc = "trained" /\ driver'.node = driver.node
    BY DEF Train, TrainInVain, RecoverEvidence, IInv, QueueInv, DriverType
  <1>9. QueueInv'
    BY <1>1, <1>6, <1>7, <1>8 DEF IInv, QueueInv
  <1> QED BY <1>5, <1>9 DEF IInv

(* Steps that change the statuses of the queue's items alone.              *)
LEMMA StatusChangeKeeps ==
  ASSUME IInv, queue # NoQueue, NEW st, queue' = [queue EXCEPT !.status = st],
         st \in [Nodes -> {"absent", "queued", "running", "completed", "failed"}],
         \A n \in Nodes : st[n] = "absent" <=> queue.status[n] = "absent",
         UNCHANGED <<plan, projection, evidence, closing, faults>>,
         driver' \in DriverType,
         plan.stage = "none" => driver'.pc = "off",
         \/ driver' = driver
         \/ driver'.pc = "execute" /\ Fresh
         \/ driver'.pc = "training" /\ Fresh /\ driver'.node \in Nodes /\ st[driver'.node] # "absent"
  PROVE  IInv' /\ Moves
  <1>1. queue \in QueueType
    BY DEF IInv, QueueInv
  <1>2. queue' \in QueueType /\ queue'.hash = queue.hash /\ queue'.status = st
    BY <1>1 DEF QueueType
  <1>3. queue' # NoQueue
    BY <1>2, NoQueueIsNone
  <1>4. Fresh' <=> Fresh
    BY <1>2, <1>3 DEF Fresh
  <1>5. \A n \in Nodes : queue'.status[n] # "absent" => n \in queue'.hash.work
    BY <1>2 DEF IInv, QueueInv
  <1>6. QueueInv'
    BY <1>2, <1>3, <1>4, <1>5 DEF IInv, QueueInv
  <1>7. PlanInv' /\ Moves
    BY SamePlan DEF IInv
  <1> QED BY <1>6, <1>7 DEF IInv

LEMMA QueueMoves ==
  ASSUME IInv, RecoverStaleRunning \/ \E n \in Nodes : Start(n) \/ SaveResult(n)
  PROVE  IInv' /\ Moves
  <1>1. CASE RecoverStaleRunning
    <2> DEFINE st == [n \in Nodes |-> IF queue.status[n] = "running" THEN "queued" ELSE queue.status[n]]
    <2>1. queue # NoQueue /\ queue \in QueueType /\ queue' = [queue EXCEPT !.status = st]
      BY <1>1 DEF RecoverStaleRunning, WithStatus, IInv, QueueInv
    <2>2. /\ st \in [Nodes -> {"absent", "queued", "running", "completed", "failed"}]
          /\ \A n \in Nodes : st[n] = "absent" <=> queue.status[n] = "absent"
      BY <2>1 DEF QueueType
    <2> HIDE DEF st
    <2>3. /\ UNCHANGED <<plan, projection, evidence, closing, faults>> /\ driver' = driver
          /\ driver \in DriverType
          /\ plan.stage = "none" => driver.pc = "off"
      BY <1>1 DEF RecoverStaleRunning, IInv, QueueInv
    <2> QED BY <2>1, <2>2, <2>3, StatusChangeKeeps
  <1>2. ASSUME NEW n \in Nodes, Start(n) PROVE IInv' /\ Moves
    <2> DEFINE st == [queue.status EXCEPT ![n] = "running"]
    <2>1. queue # NoQueue /\ queue \in QueueType /\ queue.status[n] = "queued"
      BY <1>2 DEF Start, FirstQueued, WithStatus, IInv, QueueInv
    <2>2. queue' = [queue EXCEPT !.status = st]
      BY <1>2 DEF Start
    <2>3. /\ st \in [Nodes -> {"absent", "queued", "running", "completed", "failed"}]
          /\ \A m \in Nodes : st[m] = "absent" <=> queue.status[m] = "absent"
          /\ st[n] # "absent"
      BY <2>1 DEF QueueType
    <2> HIDE DEF st
    <2>4. Fresh /\ plan.stage # "none" /\ UNCHANGED <<plan, projection, evidence, closing, faults>>
      BY <1>2 DEF Start, IInv, QueueInv
    <2>5. driver' \in DriverType /\ driver'.pc = "training" /\ driver'.node = n
      BY <1>2, DriverPlaces DEF Start
    <2> QED BY <2>1, <2>2, <2>3, <2>4, <2>5, StatusChangeKeeps
  <1>3. ASSUME NEW n \in Nodes, SaveResult(n) PROVE IInv' /\ Moves
    <2> DEFINE st == [queue.status EXCEPT ![n] = IF driver.trained THEN "completed" ELSE "failed"]
    <2>1. queue # NoQueue /\ queue \in QueueType /\ queue.status[n] # "absent" /\ Fresh /\ plan.stage # "none"
      BY <1>3 DEF SaveResult, IInv, QueueInv, Fresh
    <2>2. queue' = [queue EXCEPT !.status = st]
      BY <1>3 DEF SaveResult
    <2>3. /\ st \in [Nodes -> {"absent", "queued", "running", "completed", "failed"}]
          /\ \A m \in Nodes : st[m] = "absent" <=> queue.status[m] = "absent"
      BY <2>1 DEF QueueType
    <2> HIDE DEF st
    <2>4. UNCHANGED <<plan, projection, evidence, closing, faults>>
      BY <1>3 DEF SaveResult
    <2>5. driver' \in DriverType /\ driver'.pc = "execute"
      BY <1>3, DriverPlaces DEF SaveResult
    <2> QED BY <2>1, <2>2, <2>3, <2>4, <2>5, StatusChangeKeeps
  <1> QED BY <1>1, <1>2, <1>3

(* The plan is on file before its projection, the projection before the    *)
(* queue: whoever dies in between leaves a queue that is not fresh.        *)
LEMMA PlanIsWritten ==
  ASSUME IInv, Plan
  PROVE  IInv' /\ Moves
  <1>1. PICK selected \in SUBSET Candidates, controlled \in BOOLEAN :
          plan' = NewPlan(selected, controlled) /\ projection' = plan'.work
    BY DEF Plan
  <1>2. plan = NoPlan /\ UNCHANGED <<queue, evidence, driver, closing, faults>>
    BY DEF Plan
  <1>3. PlanInv' /\ Moves
    BY <1>1, <1>2, NewPlanIsGood DEF IInv
  <1>4. projection' \in SUBSET Nodes
    BY <1>1, <1>3 DEF PlanInv, PlanType
  <1>5. driver.pc = "off"
    BY <1>2 DEF IInv, QueueInv, NoPlan
  <1>6. QueueInv'
    BY <1>1, <1>2, <1>4, <1>5 DEF IInv, QueueInv
  <1> QED BY <1>3, <1>6 DEF IInv

LEMMA ProjectionIsWritten ==
  ASSUME IInv, Enqueue \/ Project
  PROVE  IInv' /\ Moves
  <1>1. /\ UNCHANGED <<plan, queue, evidence, closing, faults>>
        /\ projection' = plan.work
        /\ driver.pc \in {"step", "reconciled"}
    BY DEF Enqueue, Project
  <1>2. driver' \in DriverType /\ driver'.pc \in {"enqueue", "off"}
    BY DriverPlaces DEF Enqueue, Project
  <1>3. PlanInv' /\ Moves
    BY <1>1, SamePlan DEF IInv
  <1>4. projection' \in SUBSET Nodes
    BY <1>1 DEF IInv, PlanInv, PlanType
  <1>5. plan.stage # "none"
    BY <1>1 DEF IInv, QueueInv
  <1>6. QueueInv'
    BY <1>1, <1>2, <1>4, <1>5 DEF IInv, QueueInv
  <1> QED BY <1>3, <1>6 DEF IInv

LEMMA QueueIsWritten ==
  ASSUME IInv, WriteQueue
  PROVE  IInv' /\ Moves
  <1>1. /\ UNCHANGED <<plan, projection, evidence, closing, faults>>
        /\ projection = plan.work /\ plan.stage # "none"
        /\ driver' \in DriverType /\ driver'.pc = "step"
    BY DriverPlaces DEF WriteQueue, IInv, QueueInv
  <1>2. queue' = [hash |-> PlanHash(plan),
                  status |-> [n \in Nodes |-> IF n \in plan.work THEN "queued" ELSE "absent"]]
    BY DEF WriteQueue, Materialized
  <1>3. queue' \in QueueType
    BY <1>2, HashNamesWork DEF QueueType, IInv, PlanInv
  <1>4. queue'.hash.work = plan.work
    BY <1>2, HashNamesWork DEF IInv, PlanInv
  <1>5. \A n \in Nodes : queue'.status[n] # "absent" => n \in queue'.hash.work
    BY <1>2, <1>4
  <1>6. PlanInv' /\ Moves
    BY <1>1, SamePlan DEF IInv
  <1>7. QueueInv'
    BY <1>1, <1>3, <1>5 DEF IInv, QueueInv
  <1> QED BY <1>6, <1>7 DEF IInv

LEMMA PlanIsReconciled ==
  ASSUME IInv, Reconcile
  PROVE  IInv' /\ Moves
  <1>1. /\ plan.stage \in Pilots /\ plan' = Reconciled(plan)
        /\ UNCHANGED <<projection, queue, evidence, closing, faults>>
        /\ driver' \in DriverType /\ driver'.pc = "reconciled"
        /\ Fresh
    BY DriverPlaces DEF Reconcile, Drained
  <1>2. PlanInv' /\ Moves
    BY <1>1, ReconcileKeepsPlan DEF IInv
  <1>3. projection = plan.work
    BY <1>1 DEF IInv, QueueInv
  <1>4. plan'.stage # "none"
    BY <1>1, <1>2 DEF Moves, Pilots
  <1>5. Fresh' => projection' = plan'.work
    <2>1. queue.hash = PlanHash(plan)
      BY <1>1 DEF Fresh
    <2>2. Fresh' => PlanHash(plan') = PlanHash(plan)
      BY <1>1, <2>1 DEF Fresh
    <2>3. PlanHash(plan).work = plan.work /\ PlanHash(plan').work = plan'.work
      BY <1>2, HashNamesWork DEF IInv, PlanInv
    <2> QED BY <1>1, <1>3, <2>2, <2>3
  <1>6. QueueInv'
    BY <1>1, <1>4, <1>5 DEF IInv, QueueInv
  <1> QED BY <1>2, <1>6 DEF IInv

LEMMA NextKeeps ==
  ASSUME IInv, [Next]_vars
  PROVE  IInv' /\ Moves
  <1>1. CASE UNCHANGED vars
    <2>1. UNCHANGED <<plan, projection, queue, evidence, driver, closing, faults>>
      BY <1>1 DEF vars
    <2>2. PlanInv' /\ Moves
      BY <2>1, SamePlan DEF IInv
    <2>3. Fresh' <=> Fresh
      BY <2>1 DEF Fresh
    <2>4. QueueInv'
      BY <2>1, <2>3 DEF IInv, QueueInv
    <2> QED BY <2>2, <2>4 DEF IInv
  <1>2. CASE Next
    BY <1>2, PlanIsWritten, ProjectionIsWritten, QueueIsWritten, PlanIsReconciled, DriverMoves,
       EvidenceArrives, QueueMoves DEF Next, Driver, Execute
  <1> QED BY <1>1, <1>2

LEMMA Invariance == Spec => []IInv
  <1>1. IInv /\ [Next]_vars => IInv'
    BY NextKeeps
  <1> QED BY Initially, <1>1, PTL DEF Spec
-----------------------------------------------------------------------------
(* Plan, projection, queue, evidence and driver keep their types, and the  *)
(* plan's executable nodes are its active ones.                            *)
THEOREM RoundIsTyped == Spec => []TypeOK
  <1>1. IInv => TypeOK
    BY DEF IInv, PlanInv, QueueInv, TypeOK, PlanType, EvidenceType, QueueType, DriverType
  <1> QED BY <1>1, Invariance, PTL

(* Whatever trains is work of the plan, and the projection says the same,  *)
(* wherever a driver died before.                                          *)
THEOREM TrainingFollowsThePlan == Spec => []TrainedIsProjected
  <1>1. IInv => TrainedIsProjected
    <2> SUFFICES ASSUME IInv, driver.pc \in {"training", "trained"}
                 PROVE  driver.node \in plan.work /\ projection = plan.work
      BY DEF TrainedIsProjected
    <2>1. Fresh /\ projection = plan.work
      BY DEF IInv, QueueInv
    <2>2. driver.node \in queue.hash.work
      BY <2>1 DEF IInv, QueueInv, Fresh
    <2>3. queue.hash.work = plan.work
      BY <2>1, HashNamesWork DEF Fresh, IInv, PlanInv
    <2> QED BY <2>1, <2>2, <2>3
  <1> QED BY <1>1, Invariance, PTL

(* A cohort is decided as a whole, on the evidence of every pair.          *)
THEOREM CohortsAreDecidedTogether == Spec => []CohortIsDecidedTogether
  <1>1. IInv => CohortIsDecidedTogether
    <2> SUFFICES ASSUME IInv, NEW s \in Pilots, DecidedAt(s) # {}
                 PROVE  DecidedAt(s) = Cohort(plan, s) /\ \A c \in DecidedAt(s) : Paired(s, c)
      BY DEF CohortIsDecidedTogether
    <2>1. \A c \in Candidates : \/ plan.status[<<s, c>>] = "none"
                                \/ plan.status[<<s, c>>] \in {"completed", "eliminated"} /\ Paired(s, c)
      <3>1. Together(s)
        BY DEF IInv, PlanInv
      <3>2. PICK c \in Candidates : plan.status[<<s, c>>] \in {"completed", "eliminated"}
        BY DEF DecidedAt
      <3> QED BY <3>1, <3>2 DEF Together
    <2> QED BY <2>1 DEF DecidedAt, Cohort
  <1> QED BY <1>1, Invariance, PTL

(* Evidence that arrives after a cut changes no decision and no score.     *)
THEOREM DecisionsStay == Spec => DecisionsAreFinal
  <1>1. IInv /\ [Next]_vars =>
          [\A s \in Pilots : \A c \in DecidedAt(s) :
             plan'.status[<<s, c>>] = plan.status[<<s, c>>] /\ plan'.score[<<s, c>>] = plan.score[<<s, c>>]]_plan
    BY NextKeeps DEF Moves, DecidedAt
  <1> QED BY <1>1, Invariance, PTL DEF Spec, DecisionsAreFinal
-----------------------------------------------------------------------------
(* The refinement: what a plan grants and passes, seen as a ladder.        *)
Granted == [c \in Candidates |-> {s \in Pilots : plan.status[<<s, c>>] \in {"active", "completed", "eliminated"}}
                                 \cup {r \in {"full"} : c \in plan.full}]
Passed == [c \in Candidates |-> {s \in Pilots : c \in Survivors(s)}]

LEMMA MovesClimb ==
  ASSUME Moves
  PROVE  Ladder!Next
  <1>1. ASSUME NEW c \in Candidates
        PROVE  /\ Granted[c] \subseteq Granted'[c]
               /\ \A r \in Granted'[c] \ Granted[c] :
                    [t \in Pilots \cup {"full"} |-> StagesBelow(t)][r] \subseteq Passed'[c]
               /\ Passed[c] \subseteq Passed'[c]
               /\ Passed'[c] \ Passed[c] \subseteq Granted'[c]
    <2>1. /\ Granted[c] = {s \in Pilots : plan.status[<<s, c>>] \in {"active", "completed", "eliminated"}}
                          \cup {r \in {"full"} : c \in plan.full}
          /\ Granted'[c] = {s \in Pilots : plan'.status[<<s, c>>] \in {"active", "completed", "eliminated"}}
                           \cup {r \in {"full"} : c \in plan'.full}
          /\ Passed[c] = {s \in Pilots : plan.status[<<s, c>>] = "completed"}
          /\ Passed'[c] = {s \in Pilots : plan'.status[<<s, c>>] = "completed"}
      BY DEF Granted, Passed, Survivors
    <2>2. Pilots = {"pilot_3", "pilot_10"}
      BY DEF Pilots
    <2>3. Granted[c] \subseteq Granted'[c]
      BY <2>1 DEF Moves
    <2>4. Passed[c] \subseteq Passed'[c] /\ Passed'[c] \subseteq Granted'[c]
      BY <2>1 DEF Moves
    <2>5. ASSUME NEW r \in Granted'[c] \ Granted[c]
          PROVE  [t \in Pilots \cup {"full"} |-> StagesBelow(t)][r] \subseteq Passed'[c]
      <3>1. CASE r = "pilot_3"
        BY <3>1, <2>2 DEF StagesBelow
      <3>2. CASE r = "pilot_10"
        BY <3>2, <2>1, <2>2, <2>5 DEF StagesBelow, Moves
      <3>3. CASE r = "full"
        <4>1. c \in plan'.full \ plan.full
          BY <3>3, <2>1, <2>2, <2>5
        <4>2. \A s \in Pilots : plan'.status[<<s, c>>] = "completed"
          BY <4>1 DEF Moves
        <4> QED BY <3>3, <4>2, <2>1, <2>2 DEF StagesBelow
      <3> QED BY <2>1, <2>2, <3>1, <3>2, <3>3
    <2> QED BY <2>3, <2>4, <2>5
  <1>2. Granted' \in [Candidates -> SUBSET (Pilots \cup {"full"})]
    BY DEF Granted
  <1>3. Passed' \in [Candidates -> SUBSET (Pilots \cup {"full"})]
    BY DEF Passed
  <1> QED BY <1>1, <1>2, <1>3
          DEF Granted, Passed, Ladder!Next, Ladder!Grant, Ladder!Pass, Ladder!Confirm

(* Halving grants a stage only to the survivors of the stage below, and    *)
(* the full budget only to those of both, through crashes and retries.     *)
THEOREM HalvingIsALadder == Spec => ImplementsBudgetLadder
  <1>1. Init => Ladder!Init
    <2> SUFFICES ASSUME Init PROVE Ladder!Init
      OBVIOUS
    <2>1. plan.full = {} /\ \A s \in Pilots, c \in Candidates : plan.status[<<s, c>>] = "none"
      BY NodesArePairs DEF Init, NoPlan, Trainees
    <2> QED BY <2>1 DEF Ladder!Init, Survivors
  <1>2. IInv /\ [Next]_vars => [Ladder!Next]_(Ladder!vars)
    BY NextKeeps, MovesClimb
  <1> QED BY <1>1, <1>2, Invariance, PTL DEF Spec, ImplementsBudgetLadder, Ladder!Spec
-----------------------------------------------------------------------------
(* The cut itself.  Nobody of a stage shares a rank with another, so that  *)
(* measured effects and ranks order the cohort strictly; then the places   *)
(* of n candidates are 1 to n, and those at the first k places are k.      *)
Measurable(s) == \A c \in Active(plan, s) : evidence[<<s, c>>].metric \in Int
RanksDiffer(s) == \A c, d \in Active(plan, s) : c # d => plan.rank[<<s, c>>] # plan.rank[<<s, d>>]
Before(s, c) == {d \in Active(plan, s) : d # c /\ Outranks(plan, s, d, c)}

LEMMA ActiveFacts ==
  ASSUME PlanInv, NEW s \in Pilots
  PROVE  /\ Active(plan, s) \in SUBSET Candidates /\ IsFiniteSet(Active(plan, s))
         /\ Cardinality(Active(plan, s)) \in Nat
         /\ \A c \in Active(plan, s) : plan.rank[<<s, c>>] \in Nat
  <1>1. Active(plan, s) \in SUBSET Candidates
    BY DEF Active
  <1>2. \A c \in Active(plan, s) : <<s, c>> \in Nodes
    BY <1>1, NodesArePairs DEF Trainees
  <1> QED BY <1>1, <1>2, CandidatesAreFinite DEF PlanInv, PlanType

LEMMA OutranksIsStrict ==
  ASSUME PlanInv, NEW s \in Pilots, Measurable(s), RanksDiffer(s)
  PROVE  /\ \A c \in Active(plan, s) : ~Outranks(plan, s, c, c)
         /\ \A c, d \in Active(plan, s) : c = d \/ Outranks(plan, s, c, d) \/ Outranks(plan, s, d, c)
         /\ \A c, d, e \in Active(plan, s) :
              Outranks(plan, s, c, d) /\ Outranks(plan, s, d, e) => Outranks(plan, s, c, e)
  <1>1. \A c \in Active(plan, s) : plan.rank[<<s, c>>] \in Nat /\ evidence[<<s, c>>].metric \in Int
    BY ActiveFacts DEF Measurable
  <1>2. \A c, d \in Active(plan, s) : c = d \/ plan.rank[<<s, c>>] # plan.rank[<<s, d>>]
    BY DEF RanksDiffer
  <1>3. ASSUME NEW c \in Active(plan, s) PROVE ~Outranks(plan, s, c, c)
    BY <1>1 DEF Outranks
  <1>4. ASSUME NEW c \in Active(plan, s), NEW d \in Active(plan, s), c # d
        PROVE  Outranks(plan, s, c, d) \/ Outranks(plan, s, d, c)
    BY <1>1, <1>2, <1>4 DEF Outranks
  <1>5. ASSUME NEW c \in Active(plan, s), NEW d \in Active(plan, s), NEW e \in Active(plan, s),
               Outranks(plan, s, c, d), Outranks(plan, s, d, e)
        PROVE  Outranks(plan, s, c, e)
    BY <1>1, <1>5 DEF Outranks
  <1> QED BY <1>3, <1>4, <1>5

LEMMA PlacesFollowTheOrder ==
  ASSUME PlanInv, NEW s \in Pilots, Measurable(s), RanksDiffer(s)
  PROVE  /\ \A c, d \in Active(plan, s) : Outranks(plan, s, c, d) => Place(plan, s, c) < Place(plan, s, d)
         /\ \A c, d \in Active(plan, s) : c # d => Place(plan, s, c) # Place(plan, s, d)
         /\ \A c \in Active(plan, s) : Place(plan, s, c) \in 1..Cardinality(Active(plan, s))
  <1> DEFINE A == Active(plan, s)
  <1>1. A \in SUBSET Candidates /\ IsFiniteSet(A) /\ Cardinality(A) \in Nat
    BY ActiveFacts
  <1>2. \A c \in A : /\ Before(s, c) \in SUBSET A /\ c \notin Before(s, c)
                     /\ IsFiniteSet(Before(s, c)) /\ Cardinality(Before(s, c)) \in Nat
                     /\ Place(plan, s, c) = 1 + Cardinality(Before(s, c))
    <2>1. \A c \in A : Before(s, c) \in SUBSET Candidates /\ Before(s, c) \in SUBSET A /\ c \notin Before(s, c)
      BY <1>1 DEF Before
    <2> QED BY <2>1, CandidatesAreFinite DEF Place, Before
  <1>3. ASSUME NEW c \in A, NEW d \in A, Outranks(plan, s, c, d)
        PROVE  Place(plan, s, c) < Place(plan, s, d)
    <2>1. c # d
      BY <1>3, OutranksIsStrict
    <2>2. c \in Before(s, d)
      BY <1>3, <2>1 DEF Before
    <2>3. ASSUME NEW e \in Before(s, c) PROVE e \in Before(s, d)
      <3>1. e \in A /\ Outranks(plan, s, e, c)
        BY DEF Before
      <3>2. Outranks(plan, s, e, d)
        BY <1>3, <3>1, OutranksIsStrict
      <3>3. e # d
        BY <3>2, OutranksIsStrict
      <3> QED BY <3>1, <3>2, <3>3 DEF Before
    <2>4. Before(s, c) \in SUBSET Before(s, d) /\ Before(s, c) # Before(s, d)
      BY <1>2, <2>2, <2>3
    <2>5. /\ Cardinality(Before(s, c)) <= Cardinality(Before(s, d))
          /\ Cardinality(Before(s, d)) # Cardinality(Before(s, c))
      BY <1>2, <2>4, FS_Subset
    <2> QED BY <1>2, <2>5
  <1>4. ASSUME NEW c \in A, NEW d \in A, c # d
        PROVE  Place(plan, s, c) # Place(plan, s, d)
    <2>1. Place(plan, s, c) \in Nat /\ Place(plan, s, d) \in Nat
      BY PlaceIsNatural
    <2>2. Outranks(plan, s, c, d) \/ Outranks(plan, s, d, c)
      BY <1>4, OutranksIsStrict
    <2> QED BY <1>3, <2>1, <2>2
  <1>5. ASSUME NEW c \in A PROVE Place(plan, s, c) \in 1..Cardinality(A)
    <2>1. Cardinality(A \ {c}) = Cardinality(A) - 1 /\ IsFiniteSet(A \ {c})
      BY <1>1, FS_RemoveElement
    <2>2. Before(s, c) \in SUBSET (A \ {c})
      BY <1>2
    <2>3. Cardinality(Before(s, c)) <= Cardinality(A) - 1
      BY <2>1, <2>2, FS_Subset
    <2> QED BY <1>1, <1>2, <2>3
  <1> QED BY <1>3, <1>4, <1>5

LEMMA KeepCountFacts ==
  ASSUME NEW s \in Pilots, NEW n \in Nat
  PROVE  KeepCount(s, n) \in 0..n
  BY TopKAssumption DEF KeepCount

(* As many candidates are kept as the stage keeps.                         *)
LEMMA KeptIsCounted ==
  ASSUME PlanInv, NEW s \in Pilots, Measurable(s), RanksDiffer(s)
  PROVE  Cardinality(Kept(plan, s)) = KeepCount(s, Cardinality(Active(plan, s)))
  <1> DEFINE A == Active(plan, s)
             n == Cardinality(A)
             k == KeepCount(s, n)
             K == Kept(plan, s)
             f == [c \in A |-> Place(plan, s, c)]
             g == [c \in K |-> Place(plan, s, c)]
  <1>1. IsFiniteSet(A) /\ n \in Nat
    BY ActiveFacts
  <1>2. k \in 0..n
    BY <1>1, KeepCountFacts
  <1>3. K = {c \in A : Place(plan, s, c) <= k}
    BY DEF Kept
  <1>4. /\ \A c, d \in A : c # d => Place(plan, s, c) # Place(plan, s, d)
        /\ \A c \in A : Place(plan, s, c) \in 1..n
    BY PlacesFollowTheOrder
  <1> HIDE DEF A, n, k, K
  <1>5. f \in Injection(A, 1..n)
    BY <1>4 DEF Injection, IsInjective
  <1>6. \A j \in 1..n : \E c \in A : Place(plan, s, c) = j
    <2>1. IsFiniteSet(1..n) /\ Cardinality(1..n) = n
      BY <1>1, FS_Interval
    <2>2. Cardinality(A) = Cardinality(1..n)
      BY <2>1 DEF n
    <2>3. f \in Surjection(A, 1..n)
      <3> HIDE DEF f
      <3> QED BY <1>5, <2>1, <2>2, FS_Injection
    <2> QED BY <2>3 DEF Surjection
  <1>7. g \in Bijection(K, 1..k)
    <2>1. g \in [K -> 1..k] /\ \A c, d \in K : c # d => g[c] # g[d]
      BY <1>1, <1>2, <1>3, <1>4
    <2>2. \A j \in 1..k : \E c \in K : g[c] = j
      <3> TAKE j \in 1..k
      <3>1. j \in 1..n
        BY <1>1, <1>2
      <3>2. PICK c \in A : Place(plan, s, c) = j
        BY <1>6, <3>1
      <3>3. c \in K
        BY <1>1, <1>2, <1>3, <3>2
      <3> QED BY <3>2, <3>3
    <2> HIDE DEF g
    <2>3. g \in Injection(K, 1..k)
      BY <2>1 DEF Injection, IsInjective
    <2> QED BY <2>1, <2>2, <2>3 DEF Bijection, Surjection
  <1>8. IsFiniteSet(K)
    BY <1>1, <1>3, FS_Subset
  <1>9. Cardinality(1..k) = Cardinality(K)
    <2>1. ExistsBijection(K, 1..k)
      BY <1>7 DEF ExistsBijection
    <2> QED BY <1>8, <2>1, FS_Bijection
  <1>10. Cardinality(1..k) = k
    BY <1>1, <1>2, FS_Interval
  <1> QED BY <1>9, <1>10 DEF A, n, k, K

(* Of a stage: who survived it outranks who did not.                       *)
Outranked(s) ==
  DecidedAt(s) # {} =>
    /\ Cardinality(Survivors(s)) = KeepCount(s, Cardinality(DecidedAt(s)))
    /\ \A c \in Survivors(s), d \in DecidedAt(s) \ Survivors(s) : plan.score[<<s, c>>] >= plan.score[<<s, d>>]

RankInv == \A s \in Pilots : RanksDiffer(s) /\ Outranked(s)

(* A stage whose statuses, ranks and scores stay.                          *)
LEMMA StageStays ==
  ASSUME PlanInv, NEW s \in Pilots, Outranked(s),
         \A c \in Candidates : plan'.status[<<s, c>>] = plan.status[<<s, c>>]
                               /\ plan'.score[<<s, c>>] = plan.score[<<s, c>>]
  PROVE  Outranked(s)'
  <1>1. DecidedAt(s)' = DecidedAt(s) /\ Survivors(s)' = Survivors(s)
    BY DEF DecidedAt, Survivors
  <1>2. DecidedAt(s) \subseteq Candidates /\ Survivors(s) \subseteq Candidates
    BY DEF DecidedAt, Survivors
  <1> QED BY <1>1, <1>2 DEF Outranked

(* A cut leaves the stage it decides to the candidates at the first places.*)
LEMMA CutOutranks ==
  ASSUME PlanInv, RankInv, plan.stage \in Pilots, Decidable(plan), NEW s \in Pilots,
         \A c \in Candidates : plan'.status[<<s, c>>] = Decided(plan).status[<<s, c>>]
                               /\ plan'.score[<<s, c>>] = Decided(plan).score[<<s, c>>]
  PROVE  Outranked(s)'
  <1> DEFINE A == Active(plan, s)
             K == Kept(plan, s)
             k == KeepCount(s, Cardinality(A))
  <1>1. \A c \in Candidates :
          /\ s # plan.stage \/ plan.status[<<s, c>>] # "active" =>
               /\ plan'.status[<<s, c>>] = plan.status[<<s, c>>]
               /\ plan'.score[<<s, c>>] = plan.score[<<s, c>>]
          /\ s = plan.stage /\ plan.status[<<s, c>>] = "active" =>
               plan'.status[<<s, c>>] = IF c \in K THEN "completed" ELSE "eliminated"
    BY CutOfTheCohort, ControlAssumption DEF PlanInv, Trainees
  <1>2. A \in SUBSET Candidates /\ \A c \in Candidates : c \in A <=> plan.status[<<s, c>>] = "active"
    BY DEF Active
  <1>3. CASE s # plan.stage \/ A = {}
    <2>1. Outranked(s)
      BY DEF RankInv
    <2>2. \A c \in Candidates : plan'.status[<<s, c>>] = plan.status[<<s, c>>]
                                /\ plan'.score[<<s, c>>] = plan.score[<<s, c>>]
      BY <1>1, <1>2, <1>3
    <2> QED BY <2>1, <2>2, StageStays
  <1>4. CASE s = plan.stage /\ A # {}
    <2>1. \A c \in Candidates : plan.status[<<s, c>>] \in {"none", "active"}
      BY <1>2, <1>4 DEF PlanInv, Together
    <2>2. K \in SUBSET A /\ \A c \in A : c \in K <=> Place(plan, s, c) <= k
      BY DEF Kept
    <2>3. Measurable(s) /\ RanksDiffer(s)
      <3>1. \A c \in A : evidence[<<s, c>>].metric \in Effects \cup {None} /\ evidence[<<s, c>>].metric # None
        <4>1. \A c \in A : <<s, c>> \in Nodes
          BY <1>2, NodesArePairs DEF Trainees
        <4> QED BY <1>4, <4>1 DEF Decidable, Paired, PlanInv, EvidenceType
      <3> QED BY <3>1, EffectsAssumption DEF Measurable, RankInv
    <2>4. \A c \in A : plan'.score[<<s, c>>] = evidence[<<s, c>>].metric
      <3>1. \A c \in A : Decided(plan).score[<<s, c>>] = evidence[<<s, c>>].metric
        <4> SUFFICES ASSUME NEW c \in A
                     PROVE  Decided(plan).score[<<s, c>>] = evidence[<<s, c>>].metric
          OBVIOUS
        <4>1. <<s, c>> \in Nodes /\ <<s, c>>[1] = s /\ <<s, c>>[2] = c
          BY <1>2, NodesArePairs DEF Trainees
        <4> DEFINE score == [n \in Nodes |->
                     IF n[1] = plan.stage /\ n[2] \in Active(plan, plan.stage) THEN evidence[n].metric
                     ELSE plan.score[n]]
        <4>2. Decided(plan).score = score
          BY DEF Decided, PlanInv, PlanType
        <4>3. score[<<s, c>>] = evidence[<<s, c>>].metric
          BY <1>4, <4>1
        <4> QED BY <4>2, <4>3
      <3> QED BY <1>2, <3>1
    <2>5. DecidedAt(s)' = A /\ Survivors(s)' = K
      BY <1>1, <1>2, <1>4, <2>1, <2>2 DEF DecidedAt, Survivors
    <2>6. Cardinality(K) = k
      BY <2>3, KeptIsCounted
    <2>7. ASSUME NEW c \in K, NEW d \in A \ K
          PROVE  plan'.score[<<s, c>>] >= plan'.score[<<s, d>>]
      <3>1. c \in A /\ Place(plan, s, c) <= k /\ ~(Place(plan, s, d) <= k)
        BY <2>2
      <3>2. ~Outranks(plan, s, d, c)
        <4>1. Outranks(plan, s, d, c) => Place(plan, s, d) < Place(plan, s, c)
          BY <2>3, <3>1, PlacesFollowTheOrder
        <4>2. Place(plan, s, d) \in Nat /\ Place(plan, s, c) \in Nat
          BY PlaceIsNatural
        <4>3. k \in Nat
          <5>1. Cardinality(A) \in Nat
            BY ActiveFacts
          <5> QED BY <5>1, KeepCountFacts
        <4> HIDE DEF k
        <4> QED BY <3>1, <4>1, <4>2, <4>3
      <3>3. ~(evidence[<<s, d>>].metric > evidence[<<s, c>>].metric)
        BY <3>2 DEF Outranks
      <3>4. evidence[<<s, d>>].metric \in Int /\ evidence[<<s, c>>].metric \in Int
        BY <2>3, <3>1 DEF Measurable
      <3> QED BY <2>4, <3>1, <3>3, <3>4
    <2> HIDE DEF A, K, k
    <2> QED BY <2>5, <2>6, <2>7 DEF Outranked, k
  <1> QED BY <1>3, <1>4

LEMMA ReconcileRanks ==
  ASSUME PlanInv, RankInv, plan.stage \in Pilots, plan' = Reconciled(plan), evidence' = evidence
  PROVE  RankInv'
  <1> DEFINE q == Decided(plan)
  <1>1. /\ q = [plan EXCEPT !.status = q.status, !.score = q.score]
        /\ q.status \in [Nodes -> Statuses] /\ q.score \in [Nodes -> Effects \cup {None}]
    BY CutFacts DEF PlanInv
  <1>2. q \in PlanType /\ q.rank = plan.rank
    <2> HIDE DEF q
    <2> QED BY <1>1 DEF PlanInv, PlanType
  <1>3. CASE ~Decidable(plan)
    <2>1. plan' = [plan EXCEPT !.waiting = TRUE]
      BY <1>3 DEF Reconciled
    <2>2. plan'.status = plan.status /\ plan'.score = plan.score /\ plan'.rank = plan.rank
      BY <2>1 DEF PlanInv, PlanType
    <2>3. \A s \in Pilots : RanksDiffer(s)'
      BY <2>2 DEF RankInv, RanksDiffer, Active
    <2> QED BY <2>2, <2>3, StageStays DEF RankInv
  <1>4. CASE Decidable(plan) /\ ~(plan.stage = "pilot_3" /\ plan.controlled)
    <2>1. \/ plan' = [q EXCEPT !.stage = "full_pending_confirmation", !.work = {},
                               !.full = Kept(plan, "pilot_10"), !.waiting = FALSE]
          \/ plan' = [q EXCEPT !.work = {}, !.waiting = TRUE]
      BY <1>4 DEF Reconciled, Finished, Pilots
    <2> HIDE DEF q
    <2>2. plan'.status = q.status /\ plan'.score = q.score /\ plan'.rank = plan.rank
      BY <1>2, <2>1 DEF PlanType
    <2>3. \A s \in Pilots, x \in Trainees : q.status[<<s, x>>] # "active"
      BY <1>4, CutStatuses DEF q
    <2>4. \A s \in Pilots : Active(plan', s) = {}
      BY <2>2, <2>3 DEF Active, Trainees
    <2>5. \A s \in Pilots : RanksDiffer(s)'
      BY <2>4 DEF RanksDiffer
    <2>6. \A s \in Pilots : Outranked(s)'
      BY <1>4, <2>2, CutOutranks DEF q
    <2> QED BY <2>5, <2>6 DEF RankInv
  <1>5. CASE Decidable(plan) /\ plan.stage = "pilot_3" /\ plan.controlled
    <2> DEFINE kept == Kept(plan, "pilot_3")
               next == {"pilot_10"} \X (kept \cup {Control})
               rank == [n \in Nodes |-> IF n \in next /\ n[2] # Control THEN Place(plan, "pilot_3", n[2])
                                        ELSE plan.rank[n]]
    <2>1. plan' = Promoted(plan)
      BY <1>5 DEF Reconciled
    <2>2. /\ plan'.score = q.score
          /\ \A x \in Trainees : /\ plan'.status[<<"pilot_3", x>>] = q.status[<<"pilot_3", x>>]
                                 /\ plan'.status[<<"pilot_10", x>>] =
                                      IF x \in kept \cup {Control} THEN "active" ELSE q.status[<<"pilot_10", x>>]
      BY <1>5, <2>1, PromotionFacts DEF PlanInv
    <2>3. plan'.rank = rank
      <3>1. plan' = [q EXCEPT !.stage = "pilot_10",
                              !.status = [n \in Nodes |-> IF n \in next THEN "active" ELSE q.status[n]],
                              !.rank = rank, !.work = next, !.waiting = FALSE]
        BY <1>2, <2>1 DEF Promoted
      <3> HIDE DEF q, rank, next
      <3> QED BY <1>2, <3>1 DEF PlanType
    <2>4. \A x \in Trainees : /\ q.status[<<"pilot_10", x>>] = "none" /\ q.status[<<"pilot_3", x>>] # "active"
      <3>1. \A x \in Trainees : plan.status[<<"pilot_10", x>>] = "none"
        BY <1>5 DEF PlanInv
      <3>2. \A x \in Trainees : q.status[<<"pilot_10", x>>] = plan.status[<<"pilot_10", x>>]
        <4> SUFFICES ASSUME NEW x \in Trainees
                     PROVE  q.status[<<"pilot_10", x>>] = plan.status[<<"pilot_10", x>>]
          OBVIOUS
        <4>1. plan \in PlanType /\ evidence \in EvidenceType /\ plan.stage \in Pilots /\ "pilot_10" \in Pilots
          BY DEF PlanInv, Pilots
        <4>2. "pilot_10" # plan.stage
          BY <1>5
        <4> QED BY <4>1, <4>2, CutOfTheCohort
      <3>3. \A s \in Pilots, x \in Trainees : q.status[<<s, x>>] # "active"
        BY <1>5, CutStatuses
      <3> QED BY <3>1, <3>2, <3>3 DEF Pilots
    <2>5. kept \in SUBSET Active(plan, "pilot_3") /\ kept \in SUBSET Candidates
      BY DEF Kept, Active
    <2>6. Active(plan', "pilot_3") = {} /\ Active(plan', "pilot_10") = kept
      <3>1. \A c \in Candidates : /\ plan'.status[<<"pilot_3", c>>] # "active"
                                  /\ plan'.status[<<"pilot_10", c>>] = "active" <=> c \in kept
        <4> HIDE DEF q, kept
        <4>1. \A c \in Candidates : c \in Trainees /\ c # Control
          BY ControlAssumption DEF Trainees
        <4>2. \A c \in Candidates : plan'.status[<<"pilot_3", c>>] # "active"
          BY <2>2, <2>4, <4>1
        <4>3. \A c \in Candidates : plan'.status[<<"pilot_10", c>>] = IF c \in kept THEN "active" ELSE "none"
          BY <2>2, <2>4, <4>1
        <4> QED BY <4>2, <4>3
      <3> HIDE DEF kept
      <3> QED BY <2>5, <3>1 DEF Active
    <2>7. \A c \in kept : plan'.rank[<<"pilot_10", c>>] = Place(plan, "pilot_3", c)
      <3> SUFFICES ASSUME NEW c \in kept PROVE rank[<<"pilot_10", c>>] = Place(plan, "pilot_3", c)
        BY <2>3
      <3>1. <<"pilot_10", c>> \in Nodes /\ <<"pilot_10", c>> \in next /\ <<"pilot_10", c>>[2] = c
        BY <2>5, NodesArePairs DEF Pilots, Trainees
      <3> HIDE DEF next
      <3> QED BY <2>5, <3>1, ControlAssumption
    <2>8. "pilot_3" \in Pilots /\ "pilot_10" \in Pilots /\ Pilots = {"pilot_3", "pilot_10"}
      BY DEF Pilots
    <2>9. Measurable("pilot_3") /\ RanksDiffer("pilot_3")
      <3>1. \A c \in Active(plan, "pilot_3") :
              evidence[<<"pilot_3", c>>].metric \in Effects \cup {None} /\ evidence[<<"pilot_3", c>>].metric # None
        <4>1. \A c \in Active(plan, "pilot_3") : <<"pilot_3", c>> \in Nodes
          BY <2>8, NodesArePairs DEF Trainees, Active
        <4> QED BY <1>5, <4>1 DEF Decidable, Paired, PlanInv, EvidenceType
      <3> QED BY <2>8, <3>1, EffectsAssumption DEF Measurable, RankInv
    <2>10. RanksDiffer("pilot_10")'
      <3>1. \A c, d \in kept : c # d => Place(plan, "pilot_3", c) # Place(plan, "pilot_3", d)
        BY <2>5, <2>8, <2>9, PlacesFollowTheOrder
      <3> HIDE DEF kept
      <3> QED BY <2>6, <2>7, <3>1 DEF RanksDiffer
    <2>11. RanksDiffer("pilot_3")'
      BY <2>6 DEF RanksDiffer
    <2>12. Outranked("pilot_3")'
      BY <1>5, <2>2, <2>8, CutOutranks DEF Trainees
    <2>13. Outranked("pilot_10")'
      <3>1. DecidedAt("pilot_10")' = {}
        <4> HIDE DEF q, kept
        <4> QED BY <2>2, <2>4 DEF DecidedAt, Trainees
      <3> QED BY <3>1 DEF Outranked
    <2> QED BY <2>8, <2>10, <2>11, <2>12, <2>13 DEF RankInv
  <1> QED BY <1>3, <1>4, <1>5

(* The candidates of a new plan are numbered in their order.               *)
LEMMA NumbersDiffer ==
  ASSUME NEW selected \in SUBSET Candidates, NEW c \in selected, NEW d \in selected, c < d
  PROVE  Cardinality({e \in selected : e <= c}) < Cardinality({e \in selected : e <= d})
  <1> DEFINE below == {e \in selected : e <= c}
             upto == {e \in selected : e <= d}
  <1>1. selected \in SUBSET Nat
    BY CandidatesAssumption
  <1>2. below \in SUBSET Candidates /\ upto \in SUBSET Candidates
    OBVIOUS
  <1>3. below \in SUBSET upto /\ d \in upto /\ d \notin below
    <2>1. c \in Nat /\ d \in Nat
      BY <1>1
    <2>2. \A e \in selected : e <= c => e <= d
      BY <1>1, <2>1
    <2>3. d <= d /\ ~(d <= c)
      BY <2>1
    <2> QED BY <2>2, <2>3
  <1>4. IsFiniteSet(upto) /\ Cardinality(upto) \in Nat /\ Cardinality(below) \in Nat
    BY <1>2, CandidatesAreFinite
  <1> HIDE DEF below, upto
  <1>5. Cardinality(below) <= Cardinality(upto) /\ (Cardinality(upto) = Cardinality(below) => upto = below)
    BY <1>3, <1>4, FS_Subset
  <1>6. upto # below
    BY <1>3
  <1>7. Cardinality(below) < Cardinality(upto)
    BY <1>4, <1>5, <1>6
  <1> QED BY <1>7 DEF below, upto

LEMMA NewPlanRanks ==
  ASSUME PlanInv, plan = NoPlan, NEW selected \in SUBSET Candidates, NEW controlled \in BOOLEAN,
         plan' = NewPlan(selected, controlled)
  PROVE  RankInv'
  <1> DEFINE work == IF controlled /\ selected # {} THEN {"pilot_3"} \X (selected \cup {Control}) ELSE {}
             status == [n \in Nodes |-> IF n \in work THEN "active"
                                        ELSE IF n[1] = "pilot_3" /\ n[2] \in selected THEN "deferred" ELSE "none"]
             rank == [n \in Nodes |-> IF n[1] = "pilot_3" /\ n[2] \in selected
                                      THEN Cardinality({c \in selected : c <= n[2]}) ELSE 0]
  <1>1. plan'.status = status /\ plan'.rank = rank
    BY DEF NewPlan, NoPlan
  <1>2. ASSUME NEW s \in Pilots, NEW c \in Candidates
        PROVE  /\ plan'.status[<<s, c>>] \in {"active", "deferred", "none"}
               /\ plan'.status[<<s, c>>] = "active" => s = "pilot_3" /\ c \in selected
               /\ s = "pilot_3" /\ c \in selected => plan'.rank[<<s, c>>] = Cardinality({e \in selected : e <= c})
    <2>1. <<s, c>> \in Nodes /\ <<s, c>>[1] = s /\ <<s, c>>[2] = c
      BY NodesArePairs DEF Trainees
    <2>2. <<s, c>> \in work => s = "pilot_3" /\ c \in selected
      BY ControlAssumption
    <2> HIDE DEF work
    <2> QED BY <1>1, <2>1, <2>2
  <1>3. ASSUME NEW s \in Pilots PROVE RanksDiffer(s)'
    <2> SUFFICES ASSUME NEW c \in Active(plan', s), NEW d \in Active(plan', s), c # d
                 PROVE  plan'.rank[<<s, c>>] # plan'.rank[<<s, d>>]
      BY DEF RanksDiffer
    <2>1. c \in Candidates /\ d \in Candidates /\ c \in selected /\ d \in selected /\ s = "pilot_3"
      BY <1>2 DEF Active
    <2>2. c \in Nat /\ d \in Nat
      BY <2>1, CandidatesAssumption
    <2>3. /\ plan'.rank[<<s, c>>] = Cardinality({e \in selected : e <= c})
          /\ plan'.rank[<<s, d>>] = Cardinality({e \in selected : e <= d})
      BY <1>2, <2>1
    <2>4. /\ Cardinality({e \in selected : e <= c}) \in Nat
          /\ Cardinality({e \in selected : e <= d}) \in Nat
      BY CandidatesAreFinite
    <2>5. \/ Cardinality({e \in selected : e <= c}) < Cardinality({e \in selected : e <= d})
          \/ Cardinality({e \in selected : e <= d}) < Cardinality({e \in selected : e <= c})
      <3>1. CASE c < d
        BY <2>1, <3>1, NumbersDiffer
      <3>2. CASE d < c
        BY <2>1, <3>2, NumbersDiffer
      <3> QED BY <2>2, <3>1, <3>2
    <2> QED BY <2>3, <2>4, <2>5
  <1>4. ASSUME NEW s \in Pilots PROVE Outranked(s)'
    <2>1. DecidedAt(s)' = {}
      BY <1>2 DEF DecidedAt
    <2> QED BY <2>1 DEF Outranked
  <1> QED BY <1>3, <1>4 DEF RankInv

(* Whoever survives a cut measured at least what anybody it eliminates     *)
(* did, whatever ties there are, and exactly as many survive as the stage  *)
(* keeps.                                                                  *)
THEOREM CutsKeepTheBest == Spec => []SurvivorsOutrank
  <1>1. Init => RankInv
    <2> SUFFICES ASSUME Init, NEW s \in Pilots PROVE RanksDiffer(s) /\ Outranked(s)
      BY DEF RankInv
    <2>1. \A c \in Candidates : plan.status[<<s, c>>] = "none"
      BY NodesArePairs DEF Init, NoPlan, Trainees
    <2>2. Active(plan, s) = {} /\ DecidedAt(s) = {}
      BY <2>1 DEF Active, DecidedAt
    <2> QED BY <2>2 DEF RanksDiffer, Outranked
  <1>2. IInv /\ RankInv /\ [Next]_vars => RankInv'
    <2> SUFFICES ASSUME IInv, RankInv, [Next]_vars PROVE RankInv'
      OBVIOUS
    <2>1. CASE plan' = plan
      BY <2>1, StageStays DEF RankInv, RanksDiffer, Active, IInv
    <2>2. CASE Plan
      BY <2>2, NewPlanRanks DEF Plan, IInv
    <2>3. CASE Reconcile
      BY <2>3, ReconcileRanks DEF Reconcile, IInv
    <2> QED BY <2>1, <2>2, <2>3
         DEF Next, vars, Driver, Execute, Invoke, RecoverStaleRunning, Enqueue, WriteQueue, EndExecution, Project,
             Close, Start, SaveResult, Fail, Train, TrainInVain, Crash, RecoverEvidence
  <1>3. RankInv => SurvivorsOutrank
    BY DEF RankInv, Outranked, SurvivorsOutrank
  <1> QED BY <1>1, <1>2, <1>3, Invariance, PTL DEF Spec
=============================================================================
