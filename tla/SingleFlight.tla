---------------------------- MODULE SingleFlight ----------------------------
(***************************************************************************)
(* What the flag of internal/scheduler promises: of all the goroutines     *)
(* that ask to run the job, at most one is inside it at a time, and the    *)
(* one that leaves makes room for the next.                                *)
(***************************************************************************)
CONSTANT Workers        \* the goroutines that may ask to run the job

VARIABLE inside         \* the workers between taking and clearing the flag

Init == inside = {}

Enter(w) == inside = {} /\ inside' = {w}

Leave(w) == inside = {w} /\ inside' = {}

Next == \E w \in Workers : Enter(w) \/ Leave(w)

Spec == Init /\ [][Next]_inside
=============================================================================
