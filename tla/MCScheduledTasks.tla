-------------------------- MODULE MCScheduledTasks --------------------------
(***************************************************************************)
(* Instances of ScheduledTasks for TLC: a recurring task and one that runs  *)
(* once, so that a delivery of one can wait behind the other's.             *)
(***************************************************************************)
EXTENDS ScheduledTasks

(* The scope of the run: of the disturbances (failed writes and resets, a   *)
(* restart, a busy foreground) two at a time.                              *)
Scope == faults + restarts + (IF busy THEN 1 ELSE 0) <= 2
=============================================================================
