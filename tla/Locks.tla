-------------------------------- MODULE Locks --------------------------------
(***************************************************************************)
(* The locks of the dashboard and of the scheduler, and who takes them in  *)
(* which order: internal/web/status.go, websocket.go and the handlers of   *)
(* web.go, the log hook of internal/logger, and the mutex of               *)
(* internal/scheduler.                                                     *)
(*                                                                         *)
(* A call is the sequence of its steps that lock, touch shared data or     *)
(* wait for somebody outside; what the data says is in Monitor and         *)
(* Scheduler.  Every line that is logged runs the hook in the goroutine    *)
(* that logs it, so that a call that logs contains all of appendLog, and   *)
(* whoever lists backups may log.                                          *)
(***************************************************************************)
EXTENDS Integers, Sequences

CONSTANTS Workers,    \* goroutines of firings and jobs
          Handlers,   \* goroutines that serve requests
          ticker      \* the goroutine of StartTicker

Goroutines == Workers \cup Handlers \cup {ticker}
Nobody == "nobody"

ASSUME GoroutineAssumption ==
  /\ Workers \cap Handlers = {}
  /\ ticker \notin Workers \cup Handlers
  /\ Nobody \notin Goroutines

(* sync.RWMutex: statusMu, logsMu, wsMu, lastRunMu; sync.Mutex: the         *)
(* scheduler's mu, and the one in each WebSocket connection.                *)
Locks == {"status", "logs", "ws", "lastRun", "sched", "conn"}

(* What they guard, and lastRunTime, which is read without a lock.           *)
Fields == {"status", "logs", "listBackups", "wsConns", "running", "cron",
           "lastRunTime"}

-----------------------------------------------------------------------------
(* The steps of a call.                                                     *)

Step(op, what, mode, frees) ==
  [op |-> op, what |-> what, mode |-> mode, frees |-> frees]

(* A writer shuts out later writers and readers, and then waits for the     *)
(* readers that are there.                                                  *)
Lock(m) == <<Step("lock", m, "-", "-"), Step("enter", m, "-", "-")>>
RLock(m) == <<Step("rlock", m, "-", "-")>>
Unlock(m) == <<Step("use", "-", "-", m)>>
Await(who, orElse) == <<Step("await", who, orElse, "-")>>

(* An access, and the release of the lock m that follows it.                *)
Reads(v, m) == <<Step("use", v, "read", m)>>
Writes(v, m) == <<Step("use", v, "write", m)>>

Page == "page"          \* the client at the end of a WebSocket connection
Browser == "browser"    \* who has sent a request and reads the answer
End == "end"            \* the end of the connection: the page leaves it

-----------------------------------------------------------------------------
(* The calls.                                                               *)

copyStatus == RLock("status") \o Reads("status", "status")
copyLogs == RLock("logs") \o Reads("logs", "logs")

(* websocket.JSON.Send, and what is done about an error.                    *)
Send(orElse) == Lock("conn") \o Await(Page, orElse) \o Unlock("conn")

(* websocket.Conn.Close writes a frame of its own, as Send does.            *)
Close == Send("ignore")

ChangeConns == Lock("ws") \o Writes("wsConns", "ws")

broadcastMonitor == RLock("ws") \o Reads("wsConns", "ws") \o Send("forget")

broadcastStatus == copyStatus \o broadcastMonitor

appendLog ==
  Lock("logs") \o Writes("logs", "logs") \o copyLogs \o broadcastMonitor

(* Mutant: the backups are listed with logsMu held.                         *)
ListUnderLock ==
  RLock("logs") \o Reads("listBackups", "-") \o appendLog \o Unlock("logs")

(* The function is copied, and called without the lock.  It may log.        *)
ListBackups ==
  RLock("logs") \o Reads("listBackups", "logs") \o appendLog

(* Mutant: lastRunMu is not released.                                       *)
UpdateBackupResultLocked ==
  Lock("lastRun") \o Writes("lastRunTime", "-")
    \o Lock("status") \o Reads("lastRunTime", "-") \o Writes("status", "status")
    \o broadcastStatus
    \o ListBackups \o broadcastMonitor

UpdateBackupResult ==
  Lock("lastRun") \o Writes("lastRunTime", "lastRun")
    \o Lock("status") \o Reads("lastRunTime", "-") \o Writes("status", "status")
    \o broadcastStatus
    \o ListBackups \o broadcastMonitor

(* Scheduler.NextRun                                                        *)
NextRun == Lock("sched") \o Reads("cron", "sched")

(* Mutant: the new time is sent before statusMu is released.                *)
TickUnderLock ==
  Lock("status") \o NextRun \o Writes("status", "-") \o broadcastMonitor
    \o Unlock("status")

(* nextRunGetter is called with statusMu held.                              *)
updateTimeStatus ==
  Lock("status") \o NextRun \o Writes("status", "status") \o broadcastStatus

(* A firing that finds the flag set logs that, with the mutex released.     *)
SkipFiring == Lock("sched") \o Writes("running", "sched") \o appendLog

(* These two answer with the lock held until the client has the answer.     *)
handleStatus ==
  RLock("status") \o Reads("status", "-") \o Await(Browser, "ignore") \o Unlock("status")

(* Mutant: the log is read without logsMu.                                  *)
handleLogsUnlocked == Reads("logs", "-") \o Await(Browser, "ignore")

handleLogs ==
  RLock("logs") \o Reads("logs", "-") \o Await(Browser, "ignore") \o Unlock("logs")

handleBackups == ListBackups \o Await(Browser, "ignore")

(* The loop that reads until the page leaves.                               *)
ReadLoop == Await(End, "ignore")

handleWebSocket ==
  ChangeConns \o copyStatus \o Send("ignore") \o copyLogs \o Send("ignore")
    \o ListBackups \o Send("ignore") \o ReadLoop \o ChangeConns \o Close

Call(name, steps) == [name |-> name, steps |-> steps]
NoCall == Call("none", <<>>)

Calls(g) ==
  IF g \in Workers THEN {Call("skip", SkipFiring), Call("report", UpdateBackupResult)}
  ELSE IF g \in Handlers THEN {Call("status", handleStatus), Call("logs", handleLogs),
                               Call("backups", handleBackups),
                               Call("page", handleWebSocket)}
  ELSE {Call("tick", updateTimeStatus)}

-----------------------------------------------------------------------------
VARIABLES call,      \* what each goroutine does, and the steps it has left
          writer,    \* who has locked each lock, or waits for its readers
          readers    \* who reads under it

vars == <<call, writer, readers>>

Names == {"none", "skip", "report", "status", "logs", "backups", "page",
          "tick"}

Steps ==
  [op : {"lock", "enter", "rlock", "use", "await"},
   what : Locks \cup Fields \cup {Page, Browser, End, "-"},
   mode : {"read", "write", "forget", "ignore", "-"},
   frees : Locks \cup {"-"}]

TypeOK ==
  /\ call \in [Goroutines -> [name : Names, steps : Seq(Steps)]]
  /\ \A g \in Goroutines : call[g].name = "none" <=> call[g].steps = <<>>
  /\ writer \in [Locks -> Goroutines \cup {Nobody}]
  /\ readers \in [Locks -> SUBSET Goroutines]
  /\ \A m \in Locks : writer[m] # Nobody => call[writer[m]] # NoCall

Init ==
  /\ call = [g \in Goroutines |-> NoCall]
  /\ writer = [m \in Locks |-> Nobody]
  /\ readers = [m \in Locks |-> {}]

At(g, op) == call[g] # NoCall /\ Head(call[g].steps).op = op
What(g) == Head(call[g].steps).what

(* The step is done.                                                        *)
Go(g) ==
  LET rest == Tail(call[g].steps)
  IN  call' = [call EXCEPT ![g] = IF rest = <<>> THEN NoCall
                                  ELSE [@ EXCEPT !.steps = rest]]

Begin(g) ==
  /\ call[g] = NoCall
  /\ \E c \in Calls(g) : call' = [call EXCEPT ![g] = c]
  /\ UNCHANGED <<writer, readers>>

Announce(g) ==
  /\ At(g, "lock")
  /\ writer[What(g)] = Nobody
  /\ writer' = [writer EXCEPT ![What(g)] = g]
  /\ Go(g)
  /\ UNCHANGED readers

Enter(g) ==
  /\ At(g, "enter")
  /\ readers[What(g)] = {}
  /\ Go(g)
  /\ UNCHANGED <<writer, readers>>

EnterToRead(g) ==
  /\ At(g, "rlock")
  /\ writer[What(g)] = Nobody
  /\ readers' = [readers EXCEPT ![What(g)] = @ \cup {g}]
  /\ Go(g)
  /\ UNCHANGED writer

(* An access is over; a lock may be released after it.                      *)
Use(g) ==
  /\ At(g, "use")
  /\ LET m == Head(call[g].steps).frees
     IN  IF m = "-" THEN UNCHANGED <<writer, readers>>
         ELSE /\ readers' = [readers EXCEPT ![m] = @ \ {g}]
              /\ writer' = [writer EXCEPT ![m] = IF @ = g THEN Nobody ELSE @]
  /\ Go(g)

(* The client takes what it is sent, or leaves, or its connection breaks.   *)
Taken(g, client) ==
  /\ At(g, "await")
  /\ What(g) = client
  /\ Go(g)
  /\ UNCHANGED <<writer, readers>>

(* A broadcast that finds the connection broken forgets and closes it.      *)
Broken(g) ==
  /\ At(g, "await")
  /\ What(g) = Page
  /\ Head(call[g].steps).mode = "forget"
  /\ LET unlock == Head(Tail(call[g].steps))
         rest == Tail(Tail(call[g].steps))
     IN  call' = [call EXCEPT ![g].steps = <<unlock>> \o ChangeConns \o Close \o rest]
  /\ UNCHANGED <<writer, readers>>

PageTakes(g) == Taken(g, Page) \/ Broken(g)

BrowserReads(g) == Taken(g, Browser)

PageLeaves(g) == Taken(g, End)

Run(g) == Announce(g) \/ Enter(g) \/ EnterToRead(g) \/ Use(g)

Next ==
  \E g \in Goroutines :
    Begin(g) \/ Run(g) \/ BrowserReads(g) \/ PageTakes(g) \/ PageLeaves(g)

Spec == Init /\ [][Next]_vars

(* A goroutine that may go on does, and one that waits for a lock gets it   *)
(* in the end: Go hands a mutex over to whoever has waited for long.        *)
(* Nothing is assumed of browsers and pages: no timeout of the server makes *)
(* them take what they are sent, and what they are assumed to do is part of *)
(* the properties.                                                          *)
Fairness == \A g \in Goroutines : SF_vars(Run(g))

FairSpec == Spec /\ Fairness
-----------------------------------------------------------------------------
(* Properties.                                                              *)

(* Whom a goroutine waits for at a lock: itself too, if it has locked what  *)
(* it asks for.                                                             *)
WaitsFor(g) ==
  LET m == What(g)
  IN  IF At(g, "enter") THEN readers[m]
      ELSE IF At(g, "lock") \/ At(g, "rlock") THEN {writer[m]} \ {Nobody}
      ELSE {}

(* No goroutines wait for one another at locks, in whatever order they log, *)
(* report, tick, list and serve: statusMu is held while the scheduler's     *)
(* mutex is taken (status.go:142-145), and the log hook runs wherever       *)
(* something is logged (logger.go:68).                                      *)
NoCircularWait ==
  \A S \in (SUBSET Goroutines) \ {{}} :
    \E g \in S : WaitsFor(g) \cap S = {}

(* The fields that several goroutines use are not read or written while     *)
(* another one writes them.  (lastRunTime is: status.go:101 reads it        *)
(* without its lock.)                                                       *)
Conflict(g, h) ==
  /\ At(g, "use") /\ At(h, "use")
  /\ What(g) = What(h)
  /\ "write" \in {Head(call[g].steps).mode, Head(call[h].steps).mode}

FieldsAreGuarded ==
  \A g, h \in Goroutines :
    g # h /\ Conflict(g, h) => What(g) = "lastRunTime"

(* What the clients may be assumed to do: read the answer to a request, and *)
(* take what a page is sent.                                                *)
BrowsersRead == \A g \in Handlers : WF_vars(BrowserReads(g))
PagesTake == \A g \in Goroutines : WF_vars(PageTakes(g))

(* If browsers read their answers, the status and the log are answered even *)
(* when a page never takes what it is sent, and whoever sends to it waits   *)
(* for ever: a broadcast holds no lock but the connection's                 *)
(* (websocket.go:9-25).                                                     *)
StatusIsAnswered ==
  BrowsersRead =>
    \A g \in Handlers : call[g].name \in {"status", "logs"} ~> call[g] = NoCall

(* A page's handler is at the end of what it sends and listens to its page. *)
Listens(g) == At(g, "await") /\ What(g) = End

(* If pages also take what they are sent, every call returns, and that of a *)
(* page comes to its loop, where it stays until the page leaves, and then   *)
(* returns (websocket.go:43-66).                                            *)
CallsReturn ==
  BrowsersRead /\ PagesTake =>
    \A g \in Goroutines :
      call[g] # NoCall ~> (call[g] = NoCall \/ Listens(g))
=============================================================================
