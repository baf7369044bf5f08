----------------------------- MODULE MCScheduler -----------------------------
(***************************************************************************)
(* The scheduler for TLC, with what it implements and where fibers are.    *)
(***************************************************************************)
EXTENDS SchedulerRefinement, SchedulerOwnership
=============================================================================
