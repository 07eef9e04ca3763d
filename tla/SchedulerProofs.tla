--------------------------- MODULE SchedulerProofs ---------------------------
(***************************************************************************)
(* Theorems about the flag of internal/scheduler, for any number of        *)
(* firings and callers.  FlagMeansInside and MutualExclusion are inductive *)
(* together: a worker goes in only when the flag is clear, and the flag is *)
(* clear only when nobody is inside.                                       *)
(***************************************************************************)
EXTENDS Scheduler, TLAPS

IInv == TypeOK /\ FlagMeansInside /\ MutualExclusion

(* Two facts about the set of workers inside the job that the steps change: *)
(* taking the flag puts one worker in, clearing it takes one worker out.    *)
LEMMA EnterAdds ==
  ASSUME TypeOK, NEW w \in Workers, pc[w] \notin {"job", "clearing"},
         Goto(w, "job")
  PROVE  InsideJob' = InsideJob \cup {w}
  BY DEF TypeOK, Goto, InsideJob

LEMMA ClearRemoves ==
  ASSUME TypeOK, NEW w \in Workers, Goto(w, "idle")
  PROVE  InsideJob' = InsideJob \ {w}
  BY DEF TypeOK, Goto, InsideJob

LEMMA InsideIsKept ==
  ASSUME TypeOK, NEW w \in Workers, NEW place,
         Goto(w, place),
         place \in {"job", "clearing"} <=> pc[w] \in {"job", "clearing"}
  PROVE  InsideJob' = InsideJob
  BY DEF TypeOK, Goto, InsideJob

(* The invariant holds initially.                                           *)
LEMMA InitIInv == Init => IInv
  BY DEF Init, IInv, TypeOK, FlagMeansInside, MutualExclusion, InsideJob

(* Every step keeps the types.                                              *)
LEMMA StepTypes == TypeOK /\ [Next]_vars => TypeOK'
<1> SUFFICES ASSUME TypeOK, [Next]_vars PROVE TypeOK'
  OBVIOUS
<1> USE DEF TypeOK, Goto
<1>1. CASE AddJob
  BY <1>1 DEF AddJob
<1>2. CASE StartCron
  BY <1>2 DEF StartCron
<1>3. CASE StopCron
  BY <1>3 DEF StopCron
<1>4. CASE Cancel
  BY <1>4 DEF Cancel
<1>5. ASSUME NEW t \in Ticks, Fire(t) \/ Answer(t) PROVE TypeOK'
  BY <1>5 DEF Fire, Answer, Skip, TakeFlag, Workers
<1>6. ASSUME NEW c \in Callers, RunOnce(c) PROVE TypeOK'
  BY <1>6 DEF RunOnce, Workers
<1>7. ASSUME NEW w \in Workers, Finish(w) PROVE TypeOK'
  BY <1>7 DEF Finish, JobReturns, ClearFlag
<1>8. CASE UNCHANGED vars
  BY <1>8 DEF vars
<1>9. QED
  BY <1>1, <1>2, <1>3, <1>4, <1>5, <1>6, <1>7, <1>8 DEF Next

(* A worker goes in only past a clear flag; the others leave the set of the *)
(* workers inside as it is, but for the one that clears the flag.           *)
Enters(w) == ~running /\ running' = TRUE /\ InsideJob' = InsideJob \cup {w}

Leaves(w) == w \in InsideJob /\ running' = FALSE /\ InsideJob' = InsideJob \ {w}

Stays == running' = running /\ InsideJob' = InsideJob

LEMMA StepKinds ==
  ASSUME TypeOK, [Next]_vars
  PROVE  Stays \/ \E w \in Workers : Enters(w) \/ Leaves(w)
<1>1. CASE AddJob \/ StartCron \/ StopCron \/ Cancel \/ UNCHANGED vars
  BY <1>1 DEF AddJob, StartCron, StopCron, Cancel, vars, Stays, InsideJob
<1>2. ASSUME NEW t \in Ticks, Fire(t) PROVE Stays
  BY <1>2, InsideIsKept DEF Fire, Stays, Workers
<1>3. ASSUME NEW t \in Ticks, Skip(t) PROVE Stays
  BY <1>3, InsideIsKept DEF Skip, Stays, Workers
<1>4. ASSUME NEW t \in Ticks, TakeFlag(t) PROVE Enters(t)
  BY <1>4, EnterAdds DEF TakeFlag, Enters, Workers
<1>5. ASSUME NEW c \in Callers, RunOnce(c) PROVE Enters(c)
  BY <1>5, EnterAdds DEF RunOnce, Enters, Workers
<1>6. ASSUME NEW w \in Workers, JobReturns(w) PROVE Stays
  BY <1>6, InsideIsKept DEF JobReturns, Stays
<1>7. ASSUME NEW w \in Workers, ClearFlag(w) PROVE Leaves(w)
  <2>1. w \in InsideJob
    BY <1>7 DEF ClearFlag, InsideJob
  <2>2. QED
    BY <1>7, <2>1, ClearRemoves DEF ClearFlag, Leaves
<1>8. QED
  BY <1>1, <1>2, <1>3, <1>4, <1>5, <1>6, <1>7 DEF Next, Answer, Finish, Workers

(* Every step keeps the invariant.                                          *)
LEMMA StepIInv == IInv /\ [Next]_vars => IInv'
<1> SUFFICES ASSUME IInv, [Next]_vars PROVE IInv'
  OBVIOUS
<1>1. TypeOK'
  BY StepTypes DEF IInv
<1>2. (FlagMeansInside /\ MutualExclusion)'
  <2>1. CASE Stays
    BY <2>1 DEF IInv, Stays, FlagMeansInside, MutualExclusion
  <2>2. ASSUME NEW w \in Workers, Enters(w)
        PROVE  (FlagMeansInside /\ MutualExclusion)'
    <3>1. InsideJob' = {w}
      BY <2>2 DEF IInv, Enters, FlagMeansInside
    <3>2. QED
      BY <2>2, <3>1 DEF Enters, FlagMeansInside, MutualExclusion
  <2>3. ASSUME NEW w \in Workers, Leaves(w)
        PROVE  (FlagMeansInside /\ MutualExclusion)'
    <3>1. InsideJob' = {}
      BY <2>3 DEF IInv, Leaves, MutualExclusion
    <3>2. QED
      BY <2>3, <3>1 DEF Leaves, FlagMeansInside, MutualExclusion
  <2>4. QED
    BY <2>1, <2>2, <2>3, StepKinds DEF IInv
<1>3. QED
  BY <1>1, <1>2 DEF IInv

(* The invariant holds in every reachable state.                            *)
THEOREM Invariance == Spec => []IInv
  BY InitIInv, StepIInv, PTL DEF Spec

(* Every variable of the scheduler keeps its type.                          *)
THEOREM TypeCorrect == Spec => []TypeOK
<1>1. IInv => TypeOK
  BY DEF IInv
<1>2. QED
  BY <1>1, Invariance, PTL

(* At most one worker is inside the job, for any number of firings that     *)
(* overlap and of goroutines that call RunOnce.                             *)
THEOREM Exclusion == Spec => []MutualExclusion
<1>1. IInv => MutualExclusion
  BY DEF IInv
<1>2. QED
  BY <1>1, Invariance, PTL

(* The flag is never left set by a run that ended.                          *)
THEOREM FlagIsAccurate == Spec => []FlagMeansInside
<1>1. IInv => FlagMeansInside
  BY DEF IInv
<1>2. QED
  BY <1>1, Invariance, PTL

(* The scheduler implements the exclusive section: taking the flag is       *)
(* Enter, clearing it is Leave, and every other step is a stutter.          *)
THEOREM Refinement == Spec => ImplementsSingleFlight
<1>1. Init => Flight!Init
  BY DEF Init, Flight!Init, InsideJob
<1>2. IInv /\ [Next]_vars => [Flight!Next]_InsideJob
  <2> SUFFICES ASSUME IInv, [Next]_vars PROVE [Flight!Next]_InsideJob
    OBVIOUS
  <2>1. CASE Stays
    BY <2>1 DEF Stays
  <2>2. ASSUME NEW w \in Workers, Enters(w) PROVE Flight!Enter(w)
    BY <2>2 DEF IInv, Enters, FlagMeansInside, Flight!Enter
  <2>3. ASSUME NEW w \in Workers, Leaves(w) PROVE Flight!Leave(w)
    <3>1. InsideJob = {w}
      BY <2>3 DEF IInv, Leaves, MutualExclusion
    <3>2. QED
      BY <2>3, <3>1 DEF Leaves, Flight!Leave
  <2>4. QED
    BY <2>1, <2>2, <2>3, StepKinds DEF IInv, Flight!Next
<1>3. QED
  BY <1>1, <1>2, Invariance, PTL DEF Spec, ImplementsSingleFlight, Flight!Spec
=============================================================================
