---------------------------- MODULE MCSupervisor ----------------------------
(* A pipeline of a stage with two workers and a stage with one. *)
EXTENDS Supervisor

TwoStages == <<2, 1>>
=============================================================================
