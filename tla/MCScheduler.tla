----------------------------- MODULE MCScheduler -----------------------------
(* The scheduler with three overlapping firings and one RunOnce caller.     *)
EXTENDS Scheduler
=============================================================================
