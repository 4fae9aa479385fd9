----------------------------- MODULE MCRoundPlan -----------------------------
(* Instances of RoundPlan for TLC.                                          *)
EXTENDS RoundPlan
CONSTANT control, none
=============================================================================
