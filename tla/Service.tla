------------------------------- MODULE Service -------------------------------
(***************************************************************************)
(* main and runService of cmd/backup/main.go with the handlers of          *)
(* internal/web/web.go that talk to them: the goroutines that share the    *)
(* variables ctx and cancel, and what ends the process.                    *)
(*                                                                         *)
(* A context is known by its generation: 1 is made by main, the others by  *)
(* restarts.  A job is the time between the call and the return of         *)
(* runBackup (BackupJob has the inside).  A generation has one scheduler,  *)
(* whose flag lets one firing at a time into the job (Scheduler); manual   *)
(* jobs do not ask for that flag.                                          *)
(*                                                                         *)
(* The supervisor assigns ctx and cancel while other goroutines read them  *)
(* without a lock: between the two ends of the assignment a reader may see *)
(* either generation.                                                      *)
(***************************************************************************)
EXTENDS Integers

CONSTANTS MaxGen,       \* bound on the generations: MaxGen - 1 restarts
          Manuals       \* the goroutines that run manual backups

ASSUME GenAssumption == MaxGen \in Nat \ {0}

Gens == 1 .. MaxGen

VARIABLES
  webOn,      \* WEB_PORT is configured
  once,       \* --once was given
  exit,       \* "no", or how the process ended: "ok" (0), "error" (1)
  gen,        \* the generation of the variables ctx and cancel
  cancelled,  \* the generations whose context is cancelled
  main,       \* main: starting, waiting for a context, closing
  waitGen,    \* the context that main read for its <-ctx.Done()
  sig,        \* the signal goroutine: starting, waiting, gone
  sigGen,     \* the context it read for its select
  signalled,  \* SIGINT or SIGTERM has come
  web,        \* the listener: off, starting, listening, failed, closing
  trigger,    \* the number of entries in triggerCh
  sup,        \* the goroutine that serves stopCh and restartCh
  svc,        \* runService of each generation
  tick,       \* the cron firing of each generation: idle, fired, job
  man,        \* the manual backups: idle, spawned, job
  manGen,     \* the context each of them was given
  backedUp    \* the backup of --once has ended without an error

config == <<webOn, once>>
ctxVars == <<gen, cancelled>>
mainVars == <<main, waitGen>>
sigVars == <<sig, sigGen, signalled>>
jobs == <<tick, man, manGen, backedUp>>
vars == <<config, exit, ctxVars, mainVars, sigVars, web, trigger, sup, svc, jobs>>

TypeOK ==
  /\ webOn \in BOOLEAN /\ once \in BOOLEAN /\ signalled \in BOOLEAN
  /\ backedUp \in BOOLEAN
  /\ exit \in {"no", "ok", "error"}
  /\ gen \in Gens /\ waitGen \in Gens /\ sigGen \in Gens
  /\ cancelled \subseteq Gens
  /\ main \in {"starting", "waiting", "closing"}
  /\ sig \in {"starting", "waiting", "gone"}
  /\ web \in {"off", "starting", "listening", "failed", "closing"}
  /\ trigger \in 0 .. 1
  /\ sup \in {"off", "select", "stopping", "gone", "restarting", "sleeping",
              "assigning"}
  /\ svc \in [Gens -> {"none", "new", "once", "scheduling", "returned", "ended"}]
  /\ tick \in [Gens -> {"idle", "fired", "job"}]
  /\ man \in [Manuals -> {"idle", "spawned", "job"}]
  /\ manGen \in [Manuals -> Gens]

Init ==
  /\ webOn \in BOOLEAN /\ once \in BOOLEAN
  /\ exit = "no"
  /\ gen = 1 /\ waitGen = 1 /\ sigGen = 1
  /\ cancelled = {}
  /\ main = "starting" /\ sig = "starting"
  /\ signalled = FALSE /\ backedUp = FALSE
  /\ web = IF webOn THEN "starting" ELSE "off"
  /\ sup = IF webOn THEN "select" ELSE "off"
  /\ trigger = 0
  /\ svc = [g \in Gens |-> IF g = 1 THEN "new" ELSE "none"]
  /\ tick = [g \in Gens |-> "idle"]
  /\ man = [m \in Manuals |-> "idle"]
  /\ manGen = [m \in Manuals |-> 1]

(* What a goroutine other than the supervisor may read from ctx and cancel. *)
Seen == IF sup = "assigning" THEN {gen, gen + 1} ELSE {gen}

Cancel(g) == cancelled' = cancelled \cup {g}

Exit(code) == exit' = code

-----------------------------------------------------------------------------
(* main and the signal goroutine.                                           *)

(* <-ctx.Done() reads ctx once.                                             *)
MainWaits ==
  /\ main = "starting"
  /\ main' = "waiting"
  /\ waitGen' \in Seen
  /\ UNCHANGED <<config, exit, ctxVars, sigVars, web, trigger, sup, svc, jobs>>

(* Shutdown closes the listener; requests under way go on.                  *)
MainWakes ==
  /\ main = "waiting"
  /\ waitGen \in cancelled
  /\ main' = "closing"
  /\ web' = IF web = "listening" THEN "closing" ELSE web
  /\ UNCHANGED <<config, exit, ctxVars, waitGen, sigVars, trigger, sup, svc, jobs>>

(* Shutdown is over, at the latest after 10 seconds: main returns, and the  *)
(* process ends whatever its other goroutines are doing.                    *)
MainReturns ==
  /\ main = "closing"
  /\ Exit("ok")
  /\ UNCHANGED <<config, ctxVars, mainVars, sigVars, web, trigger, sup, svc, jobs>>

SignalComes ==
  /\ ~signalled
  /\ signalled' = TRUE
  /\ UNCHANGED <<config, exit, ctxVars, mainVars, sig, sigGen, web, trigger, sup, svc, jobs>>

(* The select reads ctx once.                                               *)
SigWaits ==
  /\ sig = "starting"
  /\ sig' = "waiting"
  /\ sigGen' \in Seen
  /\ UNCHANGED <<config, exit, ctxVars, mainVars, signalled, web, trigger, sup, svc, jobs>>

(* Mutant: the signal is logged and nothing cancelled.                      *)
SigCancelsNothing ==
  /\ sig = "waiting"
  /\ signalled
  /\ sig' = "gone"
  /\ UNCHANGED <<config, exit, ctxVars, mainVars, sigGen, signalled, web, trigger, sup, svc, jobs>>

SigCancels ==
  /\ sig = "waiting"
  /\ signalled
  /\ sig' = "gone"
  /\ \E g \in Seen : Cancel(g)
  /\ UNCHANGED <<config, exit, gen, mainVars, sigGen, signalled, web, trigger, sup, svc, jobs>>

SigEnds ==
  /\ sig = "waiting"
  /\ sigGen \in cancelled
  /\ sig' = "gone"
  /\ UNCHANGED <<config, exit, ctxVars, mainVars, sigGen, signalled, web, trigger, sup, svc, jobs>>

-----------------------------------------------------------------------------
(* The web server and its handlers.                                         *)

WebListens ==
  /\ web = "starting"
  /\ main # "closing"
  /\ web' = "listening"
  /\ UNCHANGED <<config, exit, ctxVars, mainVars, sigVars, trigger, sup, svc, jobs>>

(* The port is taken: the goroutine that called Start cancels the service.  *)
WebFails ==
  /\ web = "starting"
  /\ web' = "failed"
  /\ \E g \in Seen : Cancel(g)
  /\ UNCHANGED <<config, exit, gen, mainVars, sigVars, trigger, sup, svc, jobs>>

Serving == web \in {"listening", "closing"}

(* Mutant: the request is queued however many there are.                    *)
BackupNowUnbounded ==
  /\ Serving
  /\ trigger' = trigger + 1
  /\ UNCHANGED <<config, exit, ctxVars, mainVars, sigVars, web, sup, svc, jobs>>

(* 202 "backup triggered".  With the channel full the answer is 429 "backup *)
(* already running", which changes nothing.                                 *)
BackupNow ==
  /\ Serving
  /\ trigger = 0
  /\ trigger' = 1
  /\ UNCHANGED <<config, exit, ctxVars, mainVars, sigVars, web, sup, svc, jobs>>

(* stopCh is unbuffered: the request meets the supervisor in its select, or *)
(* is answered 503 "already stopping".                                      *)
Stop ==
  /\ Serving
  /\ sup = "select"
  /\ sup' = "stopping"
  /\ UNCHANGED <<config, exit, ctxVars, mainVars, sigVars, web, trigger, svc, jobs>>

Restart ==
  /\ Serving
  /\ sup = "select"
  /\ gen < MaxGen
  /\ sup' = "restarting"
  /\ UNCHANGED <<config, exit, ctxVars, mainVars, sigVars, web, trigger, svc, jobs>>

-----------------------------------------------------------------------------
(* The supervisor.                                                          *)

StopCancels ==
  /\ sup = "stopping"
  /\ Cancel(gen)
  /\ sup' = "gone"
  /\ UNCHANGED <<config, exit, gen, mainVars, sigVars, web, trigger, svc, jobs>>

(* Mutant: the old service is left to itself.                               *)
RestartCancelsNothing ==
  /\ sup = "restarting"
  /\ sup' = "sleeping"
  /\ UNCHANGED <<config, exit, ctxVars, mainVars, sigVars, web, trigger, svc, jobs>>

RestartCancels ==
  /\ sup = "restarting"
  /\ Cancel(gen)
  /\ sup' = "sleeping"
  /\ UNCHANGED <<config, exit, gen, mainVars, sigVars, web, trigger, svc, jobs>>

(* The 500 milliseconds are over.  They are taken to be longer than main    *)
(* and the signal goroutine need to reach their first receive.              *)
Assigns ==
  /\ sup = "sleeping"
  /\ main # "starting" /\ sig # "starting"
  /\ sup' = "assigning"
  /\ UNCHANGED <<config, exit, ctxVars, mainVars, sigVars, web, trigger, svc, jobs>>

Launches ==
  /\ sup = "assigning"
  /\ gen' = gen + 1
  /\ svc' = [svc EXCEPT ![gen + 1] = "new"]
  /\ sup' = "select"
  /\ UNCHANGED <<config, exit, cancelled, mainVars, sigVars, web, trigger, jobs>>

-----------------------------------------------------------------------------
(* runService.                                                              *)

(* Mutant: the cron is started, and due, when --once runs its backup.       *)
RunOnceJobUnderCron(g) ==
  /\ svc[g] = "new"
  /\ once
  /\ svc' = [svc EXCEPT ![g] = "once"]
  /\ tick' = [tick EXCEPT ![g] = "fired"]
  /\ UNCHANGED <<config, exit, ctxVars, mainVars, sigVars, web, trigger, sup,
                 man, manGen, backedUp>>

(* The OAuth preflight has passed; with a dashboard it passes in any case.  *)
RunOnceJob(g) ==
  /\ svc[g] = "new"
  /\ once
  /\ svc' = [svc EXCEPT ![g] = "once"]
  /\ UNCHANGED <<config, exit, ctxVars, mainVars, sigVars, web, trigger, sup, jobs>>

RunScheduler(g) ==
  /\ svc[g] = "new"
  /\ ~once
  /\ svc' = [svc EXCEPT ![g] = "scheduling"]
  /\ UNCHANGED <<config, exit, ctxVars, mainVars, sigVars, web, trigger, sup, jobs>>

(* The preflight fails without a dashboard, or the timezone or the schedule *)
(* is refused.                                                              *)
ServiceFails(g) ==
  /\ svc[g] = "new"
  /\ ~webOn \/ ~once
  /\ Exit("error")
  /\ UNCHANGED <<config, ctxVars, mainVars, sigVars, web, trigger, sup, svc, jobs>>

OnceSucceeds(g) ==
  /\ svc[g] = "once"
  /\ svc' = [svc EXCEPT ![g] = "returned"]
  /\ backedUp' = TRUE
  /\ UNCHANGED <<config, exit, ctxVars, mainVars, sigVars, web, trigger, sup, tick, man, manGen>>

(* Mutant: runService returns after a failed backup, as after a good one.   *)
OnceFailsQuietly(g) ==
  /\ svc[g] = "once"
  /\ svc' = [svc EXCEPT ![g] = "returned"]
  /\ UNCHANGED <<config, exit, ctxVars, mainVars, sigVars, web, trigger, sup, jobs>>

OnceFails(g) ==
  /\ svc[g] = "once"
  /\ Exit("error")
  /\ UNCHANGED <<config, ctxVars, mainVars, sigVars, web, trigger, sup, svc, jobs>>

(* Mutant: with --once done, main is left waiting.                          *)
OnceCancelsNothing ==
  /\ once
  /\ svc[1] = "returned"
  /\ svc' = [svc EXCEPT ![1] = "ended"]
  /\ UNCHANGED <<config, exit, ctxVars, mainVars, sigVars, web, trigger, sup, jobs>>

(* The goroutine of the first runService cancels when --once is done.       *)
OnceCancels ==
  /\ once
  /\ svc[1] = "returned"
  /\ svc' = [svc EXCEPT ![1] = "ended"]
  /\ \E g \in Seen : Cancel(g)
  /\ UNCHANGED <<config, exit, gen, mainVars, sigVars, web, trigger, sup, jobs>>

(* Start returns; cron.Stop does not wait for a firing under way.           *)
SchedulerStops(g) ==
  /\ svc[g] = "scheduling"
  /\ g \in cancelled
  /\ svc' = [svc EXCEPT ![g] = "returned"]
  /\ UNCHANGED <<config, exit, ctxVars, mainVars, sigVars, web, trigger, sup, jobs>>

-----------------------------------------------------------------------------
(* The jobs.                                                                *)

MoveTick(g, from, to) ==
  /\ tick[g] = from
  /\ tick' = [tick EXCEPT ![g] = to]
  /\ UNCHANGED <<config, exit, ctxVars, mainVars, sigVars, web, trigger, sup, svc,
                 man, manGen, backedUp>>

Fire(g) == svc[g] = "scheduling" /\ MoveTick(g, "idle", "fired")

FiringBegins(g) == MoveTick(g, "fired", "job")

FiringReturns(g) == MoveTick(g, "job", "idle")

(* The loop over Trigger starts a goroutine for each entry.                 *)
TakeTrigger(m) ==
  /\ trigger = 1
  /\ man[m] = "idle"
  /\ trigger' = 0
  /\ man' = [man EXCEPT ![m] = "spawned"]
  /\ UNCHANGED <<config, exit, ctxVars, mainVars, sigVars, web, sup, svc, tick,
                 manGen, backedUp>>

(* backupJob(ctx) reads ctx in the new goroutine.                           *)
ManualBegins(m) ==
  /\ man[m] = "spawned"
  /\ man' = [man EXCEPT ![m] = "job"]
  /\ \E g \in Seen : manGen' = [manGen EXCEPT ![m] = g]
  /\ UNCHANGED <<config, exit, ctxVars, mainVars, sigVars, web, trigger, sup, svc,
                 tick, backedUp>>

ManualReturns(m) ==
  /\ man[m] = "job"
  /\ man' = [man EXCEPT ![m] = "idle"]
  /\ UNCHANGED <<config, exit, ctxVars, mainVars, sigVars, web, trigger, sup, svc,
                 tick, manGen, backedUp>>

-----------------------------------------------------------------------------
Main == MainWaits \/ MainWakes \/ MainReturns
Sig == SigWaits \/ SigCancels \/ SigEnds
Requests == BackupNow \/ Stop \/ Restart
Supervisor == StopCancels \/ RestartCancels \/ Assigns \/ Launches

RunService(g) ==
  \/ RunOnceJob(g) \/ RunScheduler(g) \/ ServiceFails(g)
  \/ OnceSucceeds(g) \/ OnceFails(g) \/ SchedulerStops(g)

Firing(g) == Fire(g) \/ FiringBegins(g) \/ FiringReturns(g)
Manual(m) == TakeTrigger(m) \/ ManualBegins(m) \/ ManualReturns(m)

Step ==
  \/ Main \/ Sig \/ SignalComes
  \/ WebListens \/ WebFails \/ Requests
  \/ Supervisor
  \/ OnceCancels
  \/ \E g \in Gens : RunService(g) \/ Firing(g)
  \/ \E m \in Manuals : Manual(m)

(* The process has ended, and nothing happens any more.                     *)
Exited == exit # "no" /\ UNCHANGED vars

Next == (exit = "no" /\ Step) \/ Exited

Spec == Init /\ [][Next]_vars

(* The goroutines of main.go run; requests, signals, firings and the ends   *)
(* of jobs may come or not.                                                 *)
Fairness ==
  /\ WF_vars(exit = "no" /\ Main)
  /\ WF_vars(exit = "no" /\ Sig)
  /\ WF_vars(exit = "no" /\ Supervisor)
  /\ WF_vars(exit = "no" /\ OnceCancels)

FairSpec == Spec /\ Fairness
-----------------------------------------------------------------------------
(* Properties.                                                              *)

FiringJobs == {g \in Gens : tick[g] = "job"}
OnceJobs == {g \in Gens : svc[g] = "once"}
ManualJobs == {m \in Manuals : man[m] = "job"}

(* The context of a job or of a service under way has been cancelled, or    *)
(* somebody can still cancel it through the variable cancel: a restart      *)
(* leaves no service behind that nothing can stop (main.go:251-257).        *)
NoOrphan ==
  LET Held == cancelled \cup Seen
  IN  /\ \A g \in Gens : svc[g] \in {"new", "once", "scheduling"} => g \in Held
      /\ \A m \in ManualJobs : manGen[m] \in Held

(* Without a dashboard at most one backup is under way, which is what       *)
(* BackupJob assumes when Overlap is FALSE: one generation, and either its  *)
(* scheduler or --once (main.go:264-269).                                   *)
NoOverlapWithoutDashboard ==
  ~webOn =>
    /\ gen = 1 /\ ManualJobs = {}
    /\ \A g, h \in FiringJobs \cup OnceJobs : g = h
    /\ FiringJobs = {} \/ OnceJobs = {}

Stopped == sup \in {"stopping", "gone"}
Restarted == gen > 1 \/ sup \in {"sleeping", "assigning"}

(* A status of 0 in --once mode means that the backup succeeded, or that    *)
(* something other than the backup ended the process: a backup that fails   *)
(* by itself is never reported as a success (main.go:298-304).              *)
OnceStatus ==
  once /\ exit = "ok" =>
    backedUp \/ signalled \/ web = "failed" \/ Stopped \/ Restarted

(* A signal, the Stop button and a port that is taken end the process,      *)
(* whatever restarts went before and whatever jobs do (main.go:210-232 and  *)
(* 246-252): no restart keeps main waiting for a context that is not the    *)
(* one they cancel.                                                         *)
ShutdownEnds == (signalled \/ sup = "gone" \/ web = "failed") ~> exit # "no"

(* --once ends the process when its backup has ended, even with a dashboard *)
(* (main.go:264-269).                                                       *)
OnceEnds == (once /\ svc[1] = "returned") ~> exit # "no"

(* What the documents say and the code does not do (see README.md).         *)

(* AGENT.md: at most one backup job is running at any time.                 *)
AtMostOneJob ==
  /\ \A g, h \in FiringJobs \cup OnceJobs : g = h
  /\ \A m, n \in ManualJobs : m = n
  /\ FiringJobs \cup OnceJobs = {} \/ ManualJobs = {}

(* web.go: a button restarts the service, and only Stop, a signal, --once   *)
(* or a failure end it.                                                     *)
RestartKeepsService ==
  exit # "no" =>
    signalled \/ Stopped \/ once \/ web = "failed" \/ exit = "error"
=============================================================================
