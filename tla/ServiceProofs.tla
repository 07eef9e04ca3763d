---------------------------- MODULE ServiceProofs ----------------------------
(***************************************************************************)
(* Theorems about the supervision in main.go, for any number of restarts   *)
(* and of manual backups.                                                  *)
(***************************************************************************)
EXTENDS Service, TLAPS

(* A restart is asked for only when there is a generation to come; that is  *)
(* the model's bound, and what keeps gen among the generations.             *)
RoomForNext ==
  sup \in {"restarting", "sleeping", "assigning"} => gen + 1 \in Gens

(* The supervisor cancels before it sleeps and assigns.                     *)
OldIsCancelled == sup \in {"sleeping", "assigning"} => gen \in cancelled

IInv == TypeOK /\ RoomForNext /\ OldIsCancelled /\ NoOrphan

LEMMA SeenIsGen == TypeOK /\ RoomForNext => Seen \subseteq Gens
  BY DEF TypeOK, RoomForNext, Seen

-----------------------------------------------------------------------------
(* Types.                                                                   *)

LEMMA InitTypes == Init => TypeOK
<1> SUFFICES ASSUME Init PROVE TypeOK
  OBVIOUS
<1>1. 1 \in Gens
  BY GenAssumption DEF Gens
<1>2. /\ svc \in [Gens -> {"none", "new", "once", "scheduling", "returned", "ended"}]
      /\ tick \in [Gens -> {"idle", "fired", "job"}]
      /\ man \in [Manuals -> {"idle", "spawned", "job"}]
      /\ manGen \in [Manuals -> Gens]
  BY <1>1 DEF Init
<1>3. /\ web \in {"off", "starting", "listening", "failed", "closing"}
      /\ sup \in {"off", "select", "stopping", "gone", "restarting", "sleeping",
                  "assigning"}
  BY DEF Init
<1>4. /\ signalled \in BOOLEAN /\ backedUp \in BOOLEAN
      /\ webOn \in BOOLEAN /\ once \in BOOLEAN
  BY Zenon DEF Init
<1>5. /\ cancelled \subseteq Gens /\ trigger \in 0 .. 1
      /\ gen \in Gens /\ waitGen \in Gens /\ sigGen \in Gens
  BY <1>1 DEF Init
<1>6. /\ exit \in {"no", "ok", "error"}
      /\ main \in {"starting", "waiting", "closing"}
      /\ sig \in {"starting", "waiting", "gone"}
  BY DEF Init
<1>7. QED
  BY <1>2, <1>3, <1>4, <1>5, <1>6, Zenon DEF TypeOK

LEMMA StepTypes ==
  ASSUME TypeOK, RoomForNext, [Next]_vars
  PROVE  TypeOK'
<1> USE DEF TypeOK
<1>S. Seen \subseteq Gens
  BY SeenIsGen
<1>1. CASE Exited \/ UNCHANGED vars
  BY <1>1
  DEF Exited, vars, config, ctxVars, mainVars, sigVars, jobs
<1>2. CASE Main
  <2>1. CASE MainWaits
    <3>1. waitGen' \in Gens
      BY <2>1, <1>S DEF MainWaits
    <3>2. QED
      BY <2>1, <3>1 DEF MainWaits, config, ctxVars, sigVars, jobs
  <2>2. CASE MainWakes
    BY <2>2 DEF MainWakes, config, ctxVars, sigVars, jobs
  <2>3. CASE MainReturns
    BY <2>3 DEF MainReturns, Exit, config, ctxVars, mainVars, sigVars, jobs
  <2>4. QED
    BY <1>2, <2>1, <2>2, <2>3 DEF Main
<1>3. CASE Sig \/ SignalComes
  <2>1. CASE SigWaits
    <3>1. sigGen' \in Gens
      BY <2>1, <1>S DEF SigWaits
    <3>2. QED
      BY <2>1, <3>1 DEF SigWaits, config, ctxVars, mainVars, jobs
  <2>2. CASE SigCancels
    <3>1. cancelled' \subseteq Gens
      BY <2>2, <1>S DEF SigCancels, Cancel
    <3>2. QED
      BY <2>2, <3>1 DEF SigCancels, config, mainVars, jobs
  <2>3. CASE SigEnds
    BY <2>3 DEF SigEnds, config, ctxVars, mainVars, jobs
  <2>4. CASE SignalComes
    BY <2>4 DEF SignalComes, config, ctxVars, mainVars, jobs
  <2>5. QED
    BY <1>3, <2>1, <2>2, <2>3, <2>4 DEF Sig
<1>4. CASE WebListens \/ WebFails
  BY <1>4, <1>S
  DEF WebListens, WebFails, Cancel, config, ctxVars, mainVars, sigVars, jobs
<1>5. CASE Requests
  BY <1>5
  DEF Requests, BackupNow, Stop, Restart, config, ctxVars, mainVars, sigVars, jobs
<1>6. CASE Supervisor
  <2>1. CASE StopCancels \/ RestartCancels
    BY <2>1 DEF StopCancels, RestartCancels, Cancel, config, mainVars, sigVars, jobs
  <2>2. CASE Assigns
    BY <2>2 DEF Assigns, config, ctxVars, mainVars, sigVars, jobs
  <2>3. CASE Launches
    BY <2>3 DEF Launches, RoomForNext, config, mainVars, sigVars, jobs
  <2>4. QED
    BY <1>6, <2>1, <2>2, <2>3 DEF Supervisor
<1>7. CASE OnceCancels
  <2>1. PICK g \in Gens : cancelled' = cancelled \cup {g}
    BY <1>7, <1>S DEF OnceCancels, Cancel
  <2>2. svc' \in [Gens -> {"none", "new", "once", "scheduling", "returned", "ended"}]
    BY <1>7 DEF OnceCancels
  <2>3. QED
    BY <1>7, <2>1, <2>2 DEF OnceCancels, config, mainVars, sigVars, jobs
<1>8. ASSUME NEW g \in Gens, RunService(g) PROVE TypeOK'
  <2>1. CASE RunOnceJob(g) \/ RunScheduler(g) \/ SchedulerStops(g)
    BY <2>1
    DEF RunOnceJob, RunScheduler, SchedulerStops, config, ctxVars, mainVars,
        sigVars, jobs
  <2>2. CASE ServiceFails(g) \/ OnceFails(g)
    BY <2>2
    DEF ServiceFails, OnceFails, Exit, config, ctxVars, mainVars, sigVars, jobs
  <2>3. CASE OnceSucceeds(g)
    BY <2>3 DEF OnceSucceeds, config, ctxVars, mainVars, sigVars
  <2>4. QED
    BY <1>8, <2>1, <2>2, <2>3 DEF RunService
<1>9. ASSUME NEW g \in Gens, Firing(g) PROVE TypeOK'
  BY <1>9
  DEF Firing, Fire, FiringBegins, FiringReturns, MoveTick, config, ctxVars,
      mainVars, sigVars
<1>10. ASSUME NEW m \in Manuals, Manual(m) PROVE TypeOK'
  BY <1>10, <1>S
  DEF Manual, TakeTrigger, ManualBegins, ManualReturns, config, ctxVars,
      mainVars, sigVars
<1>11. QED
  BY <1>1, <1>2, <1>3, <1>4, <1>5, <1>6, <1>7, <1>8, <1>9, <1>10 DEF Next, Step

-----------------------------------------------------------------------------
(* Contexts.                                                                *)

(* A restart goes through its places with the old generation cancelled.     *)
LEMMA StepPlaces ==
  ASSUME TypeOK, RoomForNext, OldIsCancelled, [Next]_vars
  PROVE  RoomForNext' /\ OldIsCancelled'
<1> USE DEF RoomForNext, OldIsCancelled
<1>1. CASE Supervisor
  BY <1>1
  DEF Supervisor, StopCancels, RestartCancels, Assigns, Launches, Cancel, ctxVars
<1>2. CASE Restart
  BY <1>2, GenAssumption DEF Restart, TypeOK, Gens, ctxVars
<1>3. CASE Stop
  BY <1>3 DEF Stop
<1>4. ASSUME UNCHANGED <<gen, sup>>, cancelled \subseteq cancelled'
      PROVE  RoomForNext' /\ OldIsCancelled'
  BY <1>4
<1>5. CASE Exited \/ UNCHANGED vars \/ Main \/ Sig \/ SignalComes
  BY <1>5, <1>4
  DEF Exited, vars, Main, MainWaits, MainWakes, MainReturns, Sig, SigWaits,
      SigCancels, SigEnds, SignalComes, Cancel, ctxVars
<1>6. CASE WebListens \/ WebFails \/ BackupNow \/ OnceCancels
  BY <1>6, <1>4 DEF WebListens, WebFails, BackupNow, OnceCancels, Cancel, ctxVars
<1>7. ASSUME NEW g \in Gens, RunService(g) \/ Firing(g)
      PROVE  RoomForNext' /\ OldIsCancelled'
  BY <1>7, <1>4
  DEF RunService, RunOnceJob, RunScheduler, ServiceFails, OnceSucceeds,
      OnceFails, SchedulerStops, Firing, Fire, FiringBegins, FiringReturns,
      MoveTick, ctxVars
<1>8. ASSUME NEW m \in Manuals, Manual(m) PROVE RoomForNext' /\ OldIsCancelled'
  BY <1>8, <1>4
  DEF Manual, TakeTrigger, ManualBegins, ManualReturns, ctxVars
<1>9. QED
  BY <1>1, <1>2, <1>3, <1>5, <1>6, <1>7, <1>8 DEF Next, Step, Requests

Live == {"new", "once", "scheduling"}

(* What is reachable through cancel, or cancelled, stays so.                *)
LEMMA HeldStays ==
  ASSUME TypeOK, OldIsCancelled, [Next]_vars
  PROVE  cancelled \cup Seen \subseteq cancelled' \cup Seen'
<1>1. CASE Supervisor
  BY <1>1
  DEF Supervisor, StopCancels, RestartCancels, Assigns, Launches, Cancel,
      ctxVars, Seen, OldIsCancelled
<1>2. CASE Stop \/ Restart
  BY <1>2 DEF Stop, Restart, ctxVars, Seen
<1>3. ASSUME UNCHANGED <<gen, sup>>, cancelled \subseteq cancelled'
      PROVE  cancelled \cup Seen \subseteq cancelled' \cup Seen'
  BY <1>3 DEF Seen
<1>4. CASE Exited \/ UNCHANGED vars \/ Main \/ Sig \/ SignalComes
  BY <1>4, <1>3
  DEF Exited, vars, Main, MainWaits, MainWakes, MainReturns, Sig, SigWaits,
      SigCancels, SigEnds, SignalComes, Cancel, ctxVars
<1>5. CASE WebListens \/ WebFails \/ BackupNow \/ OnceCancels
  BY <1>5, <1>3 DEF WebListens, WebFails, BackupNow, OnceCancels, Cancel, ctxVars
<1>6. ASSUME NEW g \in Gens, RunService(g) \/ Firing(g)
      PROVE  cancelled \cup Seen \subseteq cancelled' \cup Seen'
  BY <1>6, <1>3
  DEF RunService, RunOnceJob, RunScheduler, ServiceFails, OnceSucceeds,
      OnceFails, SchedulerStops, Firing, Fire, FiringBegins, FiringReturns,
      MoveTick, ctxVars
<1>7. ASSUME NEW m \in Manuals, Manual(m)
      PROVE  cancelled \cup Seen \subseteq cancelled' \cup Seen'
  BY <1>7, <1>3
  DEF Manual, TakeTrigger, ManualBegins, ManualReturns, ctxVars
<1>8. QED
  BY <1>1, <1>2, <1>4, <1>5, <1>6, <1>7 DEF Next, Step, Requests

(* A service comes to life only by a restart, with the new generation.      *)
LEMMA LivesAreHeld ==
  ASSUME TypeOK, [Next]_vars, NEW g \in Gens, svc'[g] \in Live
  PROVE  svc[g] \in Live \/ g \in Seen'
<1> USE DEF TypeOK, Live
<1>1. CASE Launches
  BY <1>1 DEF Launches, Seen
<1>2. CASE OnceCancels
  BY <1>2 DEF OnceCancels
<1>3. ASSUME NEW h \in Gens, RunService(h) PROVE svc[g] \in Live
  BY <1>3
  DEF RunService, RunOnceJob, RunScheduler, ServiceFails, OnceSucceeds,
      OnceFails, SchedulerStops
<1>4. CASE Exited \/ UNCHANGED vars \/ Main \/ Sig \/ SignalComes
  BY <1>4
  DEF Exited, vars, Main, MainWaits, MainWakes, MainReturns, Sig, SigWaits,
      SigCancels, SigEnds, SignalComes
<1>5. CASE WebListens \/ WebFails \/ Requests
  BY <1>5 DEF WebListens, WebFails, Requests, BackupNow, Stop, Restart
<1>6. CASE StopCancels \/ RestartCancels \/ Assigns
  BY <1>6 DEF StopCancels, RestartCancels, Assigns
<1>7. ASSUME NEW h \in Gens, Firing(h) PROVE svc[g] \in Live
  BY <1>7 DEF Firing, Fire, FiringBegins, FiringReturns, MoveTick
<1>8. ASSUME NEW m \in Manuals, Manual(m) PROVE svc[g] \in Live
  BY <1>8 DEF Manual, TakeTrigger, ManualBegins, ManualReturns
<1>9. QED
  BY <1>1, <1>2, <1>3, <1>4, <1>5, <1>6, <1>7, <1>8 DEF Next, Step, Supervisor

(* A manual backup is given a context that can be seen.                     *)
LEMMA ManualsAreHeld ==
  ASSUME TypeOK, [Next]_vars, NEW m \in ManualJobs'
  PROVE  \/ m \in ManualJobs /\ manGen'[m] = manGen[m]
         \/ manGen'[m] \in Seen /\ UNCHANGED <<gen, sup>>
<1> USE DEF TypeOK, ManualJobs
<1>1. ASSUME NEW k \in Manuals, Manual(k)
      PROVE  \/ m \in ManualJobs /\ manGen'[m] = manGen[m]
             \/ manGen'[m] \in Seen /\ UNCHANGED <<gen, sup>>
  BY <1>1 DEF Manual, TakeTrigger, ManualBegins, ManualReturns, ctxVars
<1>2. CASE UNCHANGED <<man, manGen>>
  BY <1>2
<1>3. CASE Exited \/ UNCHANGED vars \/ Main \/ Sig \/ SignalComes
  BY <1>2, <1>3
  DEF Exited, vars, jobs, Main, MainWaits, MainWakes, MainReturns, Sig,
      SigWaits, SigCancels, SigEnds, SignalComes
<1>4. CASE WebListens \/ WebFails \/ Requests \/ Supervisor \/ OnceCancels
  BY <1>2, <1>4
  DEF WebListens, WebFails, Requests, BackupNow, Stop, Restart, Supervisor,
      StopCancels, RestartCancels, Assigns, Launches, OnceCancels, jobs
<1>5. ASSUME NEW g \in Gens, RunService(g) \/ Firing(g)
      PROVE  UNCHANGED <<man, manGen>>
  BY <1>5
  DEF RunService, RunOnceJob, RunScheduler, ServiceFails, OnceSucceeds,
      OnceFails, SchedulerStops, Firing, Fire, FiringBegins, FiringReturns,
      MoveTick, jobs
<1>6. QED
  BY <1>1, <1>2, <1>3, <1>4, <1>5 DEF Next, Step

LEMMA StepNoOrphan ==
  ASSUME IInv, [Next]_vars
  PROVE  NoOrphan'
<1>1. cancelled \cup Seen \subseteq cancelled' \cup Seen'
  BY HeldStays DEF IInv
<1>2. ASSUME NEW g \in Gens, svc'[g] \in Live PROVE g \in cancelled' \cup Seen'
  BY <1>1, <1>2, LivesAreHeld DEF IInv, NoOrphan, Live
<1>3. ASSUME NEW m \in ManualJobs' PROVE manGen'[m] \in cancelled' \cup Seen'
  BY <1>1, <1>3, ManualsAreHeld DEF IInv, NoOrphan
<1>4. QED
  BY <1>2, <1>3 DEF NoOrphan, Live

THEOREM Invariance == Spec => []IInv
<1>1. Init => IInv
  <2> SUFFICES ASSUME Init PROVE IInv
    OBVIOUS
  <2>1. RoomForNext /\ OldIsCancelled
    BY DEF Init, RoomForNext, OldIsCancelled
  <2>2. NoOrphan
    BY DEF Init, NoOrphan, ManualJobs, Seen
  <2>3. QED
    BY <2>1, <2>2, InitTypes DEF IInv
<1>2. IInv /\ [Next]_vars => IInv'
  BY StepTypes, StepPlaces, StepNoOrphan DEF IInv
<1>3. QED
  BY <1>1, <1>2, PTL DEF Spec

(* Every variable of the service keeps its type.                            *)
THEOREM TypeCorrect == Spec => []TypeOK
<1>1. IInv => TypeOK
  BY DEF IInv
<1>2. QED
  BY <1>1, Invariance, PTL

(* However often the service is restarted, and whichever of the two         *)
(* contexts a reader sees during the assignment, no job or service runs     *)
(* under a context that nothing can cancel.                                 *)
THEOREM NoOrphanContext == Spec => []NoOrphan
<1>1. IInv => NoOrphan
  BY DEF IInv
<1>2. QED
  BY <1>1, Invariance, PTL

-----------------------------------------------------------------------------
(* Who runs a job, and what a status of 0 means.                            *)

(* Without a dashboard nobody asks for anything.                            *)
Unasked ==
  ~webOn =>
    /\ web = "off" /\ sup = "off" /\ trigger = 0 /\ gen = 1
    /\ \A m \in Manuals : man[m] = "idle"
    /\ \A g \in Gens : g # 1 => svc[g] = "none" /\ tick[g] = "idle"

(* The two modes of a service do not mix.                                   *)
OneMode ==
  \A g \in Gens :
    /\ svc[g] = "once" => once
    /\ svc[g] = "scheduling" => ~once
    /\ once => tick[g] = "idle"

Ended == backedUp \/ signalled \/ web = "failed" \/ Stopped \/ Restarted

(* With --once a context is cancelled, and main wakes, for one of the       *)
(* reasons of OnceStatus.                                                   *)
Reasoned ==
  once =>
    /\ \A g \in Gens : svc[g] = "returned" => backedUp
    /\ cancelled # {} \/ main = "closing" \/ exit = "ok" => Ended

LEMMA StepOneMode ==
  ASSUME TypeOK, OneMode, [Next]_vars
  PROVE  OneMode'
<1> USE DEF TypeOK, OneMode
<1>1. ASSUME NEW g \in Gens, RunService(g) PROVE OneMode'
  BY <1>1
  DEF RunService, RunOnceJob, RunScheduler, ServiceFails, OnceSucceeds,
      OnceFails, SchedulerStops, config, jobs
<1>2. ASSUME NEW g \in Gens, Firing(g) PROVE OneMode'
  BY <1>2 DEF Firing, Fire, FiringBegins, FiringReturns, MoveTick, config
<1>3. CASE OnceCancels \/ Launches
  BY <1>3 DEF OnceCancels, Launches, config, jobs
<1>4. CASE UNCHANGED <<once, svc, tick>>
  BY <1>4
<1>5. CASE Exited \/ UNCHANGED vars \/ Main \/ Sig \/ SignalComes
  BY <1>4, <1>5
  DEF Exited, vars, config, jobs, Main, MainWaits, MainWakes, MainReturns, Sig,
      SigWaits, SigCancels, SigEnds, SignalComes
<1>6. CASE \/ WebListens \/ WebFails \/ Requests
           \/ StopCancels \/ RestartCancels \/ Assigns
  BY <1>4, <1>6
  DEF WebListens, WebFails, Requests, BackupNow, Stop, Restart, StopCancels,
      RestartCancels, Assigns, config, jobs
<1>7. ASSUME NEW m \in Manuals, Manual(m) PROVE OneMode'
  BY <1>4, <1>7 DEF Manual, TakeTrigger, ManualBegins, ManualReturns, config
<1>8. QED
  BY <1>1, <1>2, <1>3, <1>5, <1>6, <1>7 DEF Next, Step, Supervisor

LEMMA StepUnasked ==
  ASSUME TypeOK, Unasked, [Next]_vars
  PROVE  Unasked'
<1> USE DEF TypeOK, Unasked
<1>0. webOn' = webOn
  <2>1. CASE Exited \/ UNCHANGED vars \/ Main \/ Sig \/ SignalComes
    BY <2>1
    DEF Exited, vars, config, Main, MainWaits, MainWakes, MainReturns, Sig,
        SigWaits, SigCancels, SigEnds, SignalComes
  <2>2. CASE WebListens \/ WebFails \/ Requests \/ Supervisor \/ OnceCancels
    BY <2>2
    DEF WebListens, WebFails, Requests, BackupNow, Stop, Restart, Supervisor,
        StopCancels, RestartCancels, Assigns, Launches, OnceCancels, config
  <2>3. ASSUME NEW g \in Gens, RunService(g) \/ Firing(g) PROVE webOn' = webOn
    BY <2>3
    DEF RunService, RunOnceJob, RunScheduler, ServiceFails, OnceSucceeds,
        OnceFails, SchedulerStops, Firing, Fire, FiringBegins, FiringReturns,
        MoveTick, config
  <2>4. ASSUME NEW m \in Manuals, Manual(m) PROVE webOn' = webOn
    BY <2>4 DEF Manual, TakeTrigger, ManualBegins, ManualReturns, config
  <2>5. QED
    BY <2>1, <2>2, <2>3, <2>4 DEF Next, Step
<1> SUFFICES ASSUME ~webOn PROVE Unasked'
  BY <1>0
<1>1. ASSUME NEW g \in Gens, RunService(g) PROVE Unasked'
  BY <1>1
  DEF RunService, RunOnceJob, RunScheduler, ServiceFails, OnceSucceeds,
      OnceFails, SchedulerStops, ctxVars, jobs
<1>2. ASSUME NEW g \in Gens, Firing(g) PROVE Unasked'
  BY <1>2 DEF Firing, Fire, FiringBegins, FiringReturns, MoveTick, ctxVars
<1>3. CASE OnceCancels
  BY <1>3 DEF OnceCancels, jobs
<1>4. CASE UNCHANGED <<web, sup, trigger, gen, svc, jobs>>
  BY <1>4 DEF jobs
<1>5. CASE Exited \/ UNCHANGED vars \/ Main \/ Sig \/ SignalComes
  BY <1>4, <1>5
  DEF Exited, vars, ctxVars, Main, MainWaits, MainWakes, MainReturns, Sig,
      SigWaits, SigCancels, SigEnds, SignalComes
<1>6. ~(WebListens \/ WebFails \/ Requests \/ Supervisor)
  BY DEF WebListens, WebFails, Requests, BackupNow, Stop, Restart, Serving,
         Supervisor, StopCancels, RestartCancels, Assigns, Launches
<1>7. ASSUME NEW m \in Manuals PROVE ~Manual(m)
  BY DEF Manual, TakeTrigger, ManualBegins, ManualReturns
<1>8. QED
  BY <1>1, <1>2, <1>3, <1>5, <1>6, <1>7 DEF Next, Step

(* A reason, once given, stays.                                             *)
LEMMA EndedStays ==
  ASSUME TypeOK, Ended, [Next]_vars
  PROVE  Ended'
<1> USE DEF TypeOK, Ended, Stopped, Restarted
<1>1. CASE Supervisor
  BY <1>1
  DEF Supervisor, StopCancels, RestartCancels, Assigns, Launches, ctxVars,
      sigVars, jobs, Gens
<1>2. CASE Requests
  BY <1>2 DEF Requests, BackupNow, Stop, Restart, ctxVars, sigVars, jobs
<1>3. CASE Exited \/ UNCHANGED vars \/ Main \/ Sig \/ SignalComes
  BY <1>3
  DEF Exited, vars, ctxVars, sigVars, jobs, Main, MainWaits, MainWakes,
      MainReturns, Sig, SigWaits, SigCancels, SigEnds, SignalComes
<1>4. CASE WebListens \/ WebFails \/ OnceCancels
  BY <1>4 DEF WebListens, WebFails, OnceCancels, ctxVars, sigVars, jobs
<1>5. ASSUME NEW g \in Gens, RunService(g) \/ Firing(g) PROVE Ended'
  BY <1>5
  DEF RunService, RunOnceJob, RunScheduler, ServiceFails, OnceSucceeds,
      OnceFails, SchedulerStops, Firing, Fire, FiringBegins, FiringReturns,
      MoveTick, ctxVars, sigVars, jobs
<1>6. ASSUME NEW m \in Manuals, Manual(m) PROVE Ended'
  BY <1>6
  DEF Manual, TakeTrigger, ManualBegins, ManualReturns, ctxVars, sigVars
<1>7. QED
  BY <1>1, <1>2, <1>3, <1>4, <1>5, <1>6 DEF Next, Step

LEMMA StepReasoned ==
  ASSUME TypeOK, OneMode, Reasoned, [Next]_vars
  PROVE  Reasoned'
<1> USE DEF TypeOK, OneMode, Reasoned
<1>1. Ended => Ended'
  BY EndedStays
<1>2. CASE UNCHANGED <<once, cancelled, main, exit, svc, backedUp>>
  BY <1>1, <1>2
<1>3. CASE Main
  BY <1>1, <1>3
  DEF Main, MainWaits, MainWakes, MainReturns, Exit, config, ctxVars, mainVars, jobs
<1>4. CASE SigCancels
  BY <1>4 DEF SigCancels, config, mainVars, sigVars, jobs, Ended
<1>5. CASE WebFails
  BY <1>5 DEF WebFails, config, mainVars, jobs, Ended
<1>6. CASE Supervisor
  BY <1>1, <1>6
  DEF Supervisor, StopCancels, RestartCancels, Assigns, Launches, config,
      ctxVars, mainVars, jobs, Ended, Stopped, Restarted
<1>7. CASE OnceCancels
  BY <1>7, GenAssumption DEF OnceCancels, Gens, config, mainVars, jobs, Ended
<1>8. ASSUME NEW g \in Gens, RunService(g) PROVE Reasoned'
  <2>1. CASE RunOnceJob(g) \/ RunScheduler(g)
    BY <1>1, <2>1 DEF RunOnceJob, RunScheduler, config, ctxVars, mainVars, jobs
  <2>2. CASE ServiceFails(g) \/ OnceFails(g)
    BY <1>1, <2>2
    DEF ServiceFails, OnceFails, Exit, config, ctxVars, mainVars, jobs
  <2>3. CASE OnceSucceeds(g)
    BY <2>3 DEF OnceSucceeds, config, ctxVars, mainVars, Ended
  <2>4. CASE SchedulerStops(g)
    BY <1>1, <2>4 DEF SchedulerStops, config, ctxVars, mainVars, jobs
  <2>5. QED
    BY <1>8, <2>1, <2>2, <2>3, <2>4 DEF RunService
<1>9. ASSUME NEW g \in Gens, Firing(g) PROVE Reasoned'
  BY <1>2, <1>9
  DEF Firing, Fire, FiringBegins, FiringReturns, MoveTick, config, ctxVars, mainVars
<1>10. ASSUME NEW m \in Manuals, Manual(m) PROVE Reasoned'
  BY <1>2, <1>10
  DEF Manual, TakeTrigger, ManualBegins, ManualReturns, config, ctxVars, mainVars
<1>11. CASE Exited \/ UNCHANGED vars \/ SigWaits \/ SigEnds \/ SignalComes
  BY <1>2, <1>11
  DEF Exited, vars, SigWaits, SigEnds, SignalComes, config, ctxVars, mainVars, jobs
<1>12. CASE WebListens \/ Requests
  BY <1>2, <1>12
  DEF WebListens, Requests, BackupNow, Stop, Restart, config, ctxVars, mainVars, jobs
<1>13. QED
  BY <1>3, <1>4, <1>5, <1>6, <1>7, <1>8, <1>9, <1>10, <1>11, <1>12
  DEF Next, Step, Sig

THEOREM Modes == Spec => [](TypeOK /\ Unasked /\ OneMode /\ Reasoned)
<1> DEFINE Inv == TypeOK /\ Unasked /\ OneMode /\ Reasoned
<1>1. Init => Inv
  <2> SUFFICES ASSUME Init PROVE Inv
    OBVIOUS
  <2>1. TypeOK
    BY InitTypes
  <2>2. Unasked /\ OneMode
    BY DEF Init, Unasked, OneMode
  <2>3. Reasoned
    BY DEF Init, Reasoned
  <2>4. QED
    BY <2>1, <2>2, <2>3
<1>2. IInv /\ Inv /\ [Next]_vars => Inv'
  BY StepTypes, StepUnasked, StepOneMode, StepReasoned DEF IInv
<1>3. QED
  BY <1>1, <1>2, Invariance, PTL DEF Spec

(* A service without a dashboard never runs two backups at a time, however  *)
(* many firings come: the case in which BackupJob needs no overlap.         *)
THEOREM SerialWithoutDashboard == Spec => []NoOverlapWithoutDashboard
<1>1. TypeOK /\ Unasked /\ OneMode => NoOverlapWithoutDashboard
  BY DEF TypeOK, Unasked, OneMode, NoOverlapWithoutDashboard, FiringJobs,
         OnceJobs, ManualJobs
<1>2. QED
  BY <1>1, Modes, PTL

(* With --once a status of 0 stands for a backup that was made, or for an   *)
(* end that somebody else brought about.                                    *)
THEOREM StatusOfOnce == Spec => []OnceStatus
<1>1. Reasoned => OnceStatus
  BY DEF Reasoned, Ended, OnceStatus
<1>2. QED
  BY <1>1, Modes, PTL
=============================================================================
