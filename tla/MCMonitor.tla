------------------------------ MODULE MCMonitor ------------------------------
(* Pages that connect and break while the ticker and the goroutines of the  *)
(* service broadcast.                                                       *)
EXTENDS Monitor
=============================================================================
