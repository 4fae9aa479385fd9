------------------------------- MODULE MCQueue -------------------------------
(* Instances of ExecutionQueue for TLC.                                     *)
EXTENDS ExecutionQueue
CONSTANT a   \* the run

OneRun == [i \in Items |-> a]
=============================================================================
