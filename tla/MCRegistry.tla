------------------------------ MODULE MCRegistry ------------------------------
(* Instances of MaturityRegistry for TLC.                                   *)
EXTENDS MaturityRegistry
CONSTANTS c1, c2,       \* processes
          o1, o2,       \* overlays
          smoke, gpu    \* artifacts
=============================================================================
