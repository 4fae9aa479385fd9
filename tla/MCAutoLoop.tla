----------------------------- MODULE MCAutoLoop -----------------------------
(* Instances of AutoOptimizationLoop for TLC.  Deltas are in 1e-3.          *)
EXTENDS AutoOptimizationLoop
CONSTANTS p1, p2, n1,       \* candidate ids: adapter-backed and native
          f1, f2, f3,       \* fingerprints
          protocol          \* the one matched-control protocol

NoLoss == {}
PaperIsPaired == [i \in Ids |-> IF i \in Paper THEN protocol ELSE NoPlan]
OnePayloadEach == [i \in Ids |-> CASE i = p1 -> {f1} [] i = n1 -> {f2} [] OTHER -> {f3}]
(* One candidate evolves into the payload the other one has.                *)
OneEvolves == [i \in Ids |-> IF i = p1 THEN {f1, f2} ELSE {f2}]

DefaultFloor == -3
DefaultLossFloor == -10

Complete(d, gate) == [kind |-> "complete", delta |-> d, gate |-> gate, improved |-> TRUE]
Partial(d) == [kind |-> "partial", delta |-> d, gate |-> "pass", improved |-> TRUE]
(* Pilots that are eliminated at once.                                        *)
FailOnly == {Complete(-4, "pass")}
(* Pilots that are never promoted beyond pilot_10.                            *)
LowOrHighPilots == {Complete(1, "fail"), Complete(2, "fail"), Partial(2)}
GoodOrBad == {Complete(2, "pass"), Complete(-4, "pass")}
Varied == {Complete(1, "pass"), Complete(10, "pass"), Complete(2, "fail"),
           Complete(-2, "pass"), Partial(2)}
=============================================================================
