------------------------------ MODULE Scheduler ------------------------------
(***************************************************************************)
(* internal/scheduler/scheduler.go: one Scheduler, its cron and the        *)
(* `running' flag that makes a run of the job exclusive.                   *)
(*                                                                         *)
(* robfig/cron starts every firing of an entry in a goroutine of its own   *)
(* and does not wait for the previous one, so that several firings may be  *)
(* between "started" and "asked for the flag" at once.  Each such          *)
(* goroutine is a member of Ticks, each goroutine that calls RunOnce a     *)
(* member of Callers; a member that has returned may be used again.        *)
(* The sections under s.mu read and write the flag without blocking, so    *)
(* each is one step.                                                       *)
(***************************************************************************)
CONSTANTS Ticks,        \* goroutines in which cron runs the entry
          Callers       \* goroutines that call RunOnce

ASSUME WorkersAssumption == Ticks \cap Callers = {}

Workers == Ticks \cup Callers

VARIABLES starter,      \* where the goroutine that calls Start is
          ctxDone,      \* the context given to Start is cancelled
          cron,         \* the cron's run loop: off, on, stopped
          running,      \* s.running
          pc            \* where each worker is

vars == <<starter, ctxDone, cron, running, pc>>

TypeOK ==
  /\ starter \in {"new", "added", "waiting", "returned", "refused"}
  /\ ctxDone \in BOOLEAN
  /\ cron \in {"off", "on", "stopped"}
  /\ running \in BOOLEAN
  /\ pc \in [Workers -> {"idle", "fired", "job", "clearing"}]

Init ==
  /\ starter = "new"
  /\ ctxDone = FALSE
  /\ cron = "off"
  /\ running = FALSE
  /\ pc = [w \in Workers |-> "idle"]

Goto(w, place) == pc' = [pc EXCEPT ![w] = place]

-----------------------------------------------------------------------------
(* Start: AddJob, which refuses a malformed schedule; then cron.Start; then *)
(* wait for the context; then cron.Stop, which does not wait for the        *)
(* firings already started.                                                 *)

AddJob ==
  /\ starter = "new"
  /\ starter' \in {"added", "refused"}
  /\ UNCHANGED <<ctxDone, cron, running, pc>>

StartCron ==
  /\ starter = "added"
  /\ starter' = "waiting"
  /\ cron' = "on"
  /\ UNCHANGED <<ctxDone, running, pc>>

(* Mutant: Start returns and leaves the cron on.                            *)
StopCronForgotten ==
  /\ starter = "waiting"
  /\ ctxDone
  /\ starter' = "returned"
  /\ UNCHANGED <<ctxDone, cron, running, pc>>

StopCron ==
  /\ starter = "waiting"
  /\ ctxDone
  /\ starter' = "returned"
  /\ cron' = "stopped"
  /\ UNCHANGED <<ctxDone, running, pc>>

(* The context of Start is cancelled by its owner, at any time.             *)
Cancel ==
  /\ ~ctxDone
  /\ ctxDone' = TRUE
  /\ UNCHANGED <<starter, cron, running, pc>>

-----------------------------------------------------------------------------
(* The cron entry.                                                          *)

(* cron's run loop starts a goroutine for a firing that is due.             *)
Fire(t) ==
  /\ cron = "on"
  /\ pc[t] = "idle"
  /\ Goto(t, "fired")
  /\ UNCHANGED <<starter, ctxDone, cron, running>>

(* The firing finds the flag set: it logs the skip and returns.             *)
Skip(t) ==
  /\ pc[t] = "fired"
  /\ running
  /\ Goto(t, "idle")
  /\ UNCHANGED <<starter, ctxDone, cron, running>>

(* Mutant: the flag is set without a look at it.                            *)
TakeFlagUnchecked(t) ==
  /\ pc[t] = "fired"
  /\ running' = TRUE
  /\ Goto(t, "job")
  /\ UNCHANGED <<starter, ctxDone, cron>>

(* The firing finds the flag clear, sets it and calls the job.              *)
TakeFlag(t) ==
  /\ pc[t] = "fired"
  /\ ~running
  /\ running' = TRUE
  /\ Goto(t, "job")
  /\ UNCHANGED <<starter, ctxDone, cron>>

(* Mutants: RunOnce does not look at the flag, or does not set it.          *)
RunOnceUnchecked(c) ==
  /\ pc[c] = "idle"
  /\ running' = TRUE
  /\ Goto(c, "job")
  /\ UNCHANGED <<starter, ctxDone, cron>>

RunOnceUnmarked(c) ==
  /\ pc[c] = "idle"
  /\ ~running
  /\ Goto(c, "job")
  /\ UNCHANGED <<starter, ctxDone, cron, running>>

(* RunOnce takes the flag and calls the job, or returns an error at once    *)
(* (a step that changes nothing).                                           *)
RunOnce(c) ==
  /\ pc[c] = "idle"
  /\ ~running
  /\ running' = TRUE
  /\ Goto(c, "job")
  /\ UNCHANGED <<starter, ctxDone, cron>>

(* Mutant: a job that panics takes its goroutine with it.                   *)
JobPanics(w) ==
  /\ pc[w] = "job"
  /\ Goto(w, "dead")
  /\ UNCHANGED <<starter, ctxDone, cron, running>>

(* The job returns, with or without an error.                               *)
JobReturns(w) ==
  /\ pc[w] = "job"
  /\ Goto(w, "clearing")
  /\ UNCHANGED <<starter, ctxDone, cron, running>>

(* Mutant: the worker leaves with the flag set.                             *)
ClearFlagNever(w) ==
  /\ pc[w] = "clearing"
  /\ Goto(w, "idle")
  /\ UNCHANGED <<starter, ctxDone, cron, running>>

(* The deferred function clears the flag.                                   *)
ClearFlag(w) ==
  /\ pc[w] = "clearing"
  /\ running' = FALSE
  /\ Goto(w, "idle")
  /\ UNCHANGED <<starter, ctxDone, cron>>

(* A firing asks for the flag once, and either way it gets an answer.       *)
Answer(t) == Skip(t) \/ TakeFlag(t)

Finish(w) == JobReturns(w) \/ ClearFlag(w)

Next ==
  \/ AddJob \/ StartCron \/ StopCron \/ Cancel
  \/ \E t \in Ticks : Fire(t) \/ Answer(t)
  \/ \E c \in Callers : RunOnce(c)
  \/ \E w \in Workers : Finish(w)

(* The goroutines of the service run; cron may fire or not, the context may *)
(* be cancelled or not, and RunOnce may be called or not.  Nothing bounds   *)
(* the time a job takes until its context is done (BackupJob says when it   *)
(* returns after that): for a firing that is the context of Start, while    *)
(* RunOnce has one of its own, of which nothing is assumed.                 *)
Fairness ==
  /\ WF_vars(StopCron)
  /\ \A t \in Ticks : WF_vars(Answer(t)) /\ WF_vars(ctxDone /\ JobReturns(t))
  /\ \A w \in Workers : WF_vars(ClearFlag(w))

Spec == Init /\ [][Next]_vars

FairSpec == Spec /\ Fairness
-----------------------------------------------------------------------------
InsideJob == {w \in Workers : pc[w] \in {"job", "clearing"}}

(* At most one worker is inside the job, whichever way it was started       *)
(* (scheduler.go:47-60 and 93-105).                                         *)
MutualExclusion == \A v, w \in InsideJob : v = w

(* The flag is set exactly while somebody is inside: no path leaves it set  *)
(* behind itself, which would make every later firing skip.                 *)
FlagMeansInside == running <=> InsideJob # {}

(* A job that has returned, with an error or without, gives the flag back,  *)
(* and so does a firing whose job runs with a cancelled context.  A job     *)
(* that hangs, with a context that nobody cancels, keeps it for ever, and   *)
(* every firing meanwhile skips (scheduler.go:49-60).                       *)
FlagIsReleased ==
  (\/ \E w \in Workers : pc[w] = "clearing"
   \/ ctxDone /\ \E t \in Ticks : pc[t] = "job") ~> ~running

(* cron.Stop (scheduler.go:83) does not wait for the firings it started,    *)
(* and a firing that is late may still take the flag and run the job with a *)
(* cancelled context; but after the cancellation the firings drain, and no  *)
(* new one follows.                                                         *)
FiringsDrain ==
  (starter = "waiting" /\ ctxDone) ~> [](\A t \in Ticks : pc[t] = "idle")

Flight == INSTANCE SingleFlight WITH inside <- InsideJob

(* The scheduler implements the abstract exclusive section.                 *)
ImplementsSingleFlight == Flight!Spec
=============================================================================
