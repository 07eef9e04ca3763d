------------------------------- MODULE MCLocks -------------------------------
(* A goroutine that works, one that serves a request, and the ticker.       *)
EXTENDS Locks, TLC
=============================================================================
