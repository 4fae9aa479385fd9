---------------------------- MODULE MCConfirmation ----------------------------
(* Instances of ConfirmationWorkflow for TLC: one capped metric, latency.   *)
EXTENDS ConfirmationWorkflow
CONSTANT none   \* a metric that was not recorded

Latency(ms) == [c \in {"latency_ms"} |-> ms]
Recording(primary, ms) == [primary |-> primary, cost |-> Latency(ms)]

(* Gains below, at and above a target of 2; a mean latency may regress by  *)
(* exactly 5%, by more, and beyond the absolute cap of 22 though by less;  *)
(* either metric may be missing.                                           *)
MixedMetrics == {Recording(0, 20), Recording(2, 21), Recording(3, 20), Recording(3, 23),
                 Recording(none, 20), Recording(3, none)}
PlainMetrics == {Recording(0, 10), Recording(1, 10), Recording(2, 10)}
FivePercent == [c \in {"latency_ms"} |-> 5]
Cap == [c \in {"latency_ms"} |-> 22]
=============================================================================
