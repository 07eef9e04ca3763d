------------------------------ MODULE MCService ------------------------------
(* The service with one restart and two manual backups, with and without a  *)
(* dashboard, with and without --once.                                      *)
EXTENDS Service
=============================================================================
