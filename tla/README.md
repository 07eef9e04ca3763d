# TLA+ specifications of mongo-drive-backup

The program dumps a MongoDB database with `mongodump`, packs the dump into a
`.tar.gz`, uploads the archive to Google Drive and shows what it does on a web
dashboard. It runs once (`--once`) or on a cron schedule, and backups can be
started, and the service stopped or restarted, from the dashboard.

These modules model the parts where goroutines, failures and restarts meet, TLC
checks them on small instances, and TLAPS proves the central results for every
instance. Paths such as `main.go:76` are those of the repository.

## 1. The system

| Component | State | Operations | Talks to |
|---|---|---|---|
| backup job (`cmd/backup/main.go` `runBackup`, `internal/backup`) | temporary directory: dump directories and archives named by second | verify, dump, compress, verify archive, upload, clean up, report | mongodump (child process), Drive, the dashboard's status |
| scheduler (`internal/scheduler`) | cron, flag `running` under `mu` | Start, cron entry, RunOnce, NextRun | calls the job |
| supervision (`main`, `runService`) | variables `ctx`, `cancel`; five goroutines; exit status | signals, listener failure, trigger loop, stop, restart, `--once` | web channels `triggerCh`, `stopCh`, `restartCh` |
| Drive client (`internal/drive/drive.go`) | token file, inline token | Upload, ListFiles, Download, WaitForToken, SaveToken | Google, channel `oauthCodeCh` |
| OAuth handlers (`internal/web/oauth_handlers.go`) | channel `oauthCodeCh` (one code) | status, start, callback | the waiters in the Drive client |
| monitor (`internal/web/status.go`, `websocket.go`) | status, log ring, set of connections | report, log hook, ticker, connect, broadcast | every page; lists the Drive folder |
| restore (`internal/restore`, `restore_handlers.go`) | a workspace per restore | download, extract, find the database, mongorestore | Drive, MongoDB |
| login (`internal/web/auth.go`, `security.go`) | sessions with expiry | login, logout, request check | every handler |
| configuration, logger, pages, launch script, image | none that changes | | |

What makes it hard:

* **Concurrency.** cron starts each firing in a goroutine of its own; each
  manual backup is another; requests, the ticker and loggers all broadcast;
  `ctx` and `cancel` are reassigned by a restart while others read them
  unlocked.
* **Shared names.** A dump directory and an archive are named after the second
  they are started in, so that jobs of one second, and files left by a dead
  process, share paths.
* **Failure.** Each stage can fail after others left files; removals can fail
  unnoticed; Drive can store a file and its answer be lost; the process can end
  between any two steps, and `main` does not wait for its jobs.
* **Restoring.** `mongorestore --drop` is destructive, and restores run beside
  each other under a context nobody cancels.
* **Locks.** Every logged line runs the dashboard's log hook in the goroutine
  that logs, whatever it holds; the ticker calls into the scheduler's mutex with
  the status locked; no send to a browser has a deadline.
* **Waiting.** A job has no time limit of its own. An upload without a token
  waits for an authorization code, and holds the scheduler's flag meanwhile.

What makes each part correct is listed with its module in section 3, and every
hazard with its line in `PROJECT.json`.

## 2. Modules

| Module | What it is |
|---|---|
| `SingleFlight` | abstract: an exclusive section |
| `Scheduler` | `scheduler.go`: firings, RunOnce, cron.Stop, the flag |
| `SchedulerProofs` | its theorems |
| `BackupPromise` | abstract: what the outcome of a job says about Drive |
| `BackupJob` | `runBackup` and all its stages, several jobs at once |
| `BackupJobProofs` | its theorems |
| `Service` | `main`, `runService` and the stop, restart and backup handlers |
| `ServiceProofs` | its theorems |
| `OAuthFlow` | waiters, the code channel, the token file and the inline token |
| `OAuthFlowProofs` | its theorems |
| `Monitor` | broadcasts of status, log and backups to connected pages |
| `MonitorProofs` | its theorems |
| `Locks` | the mutexes of dashboard and scheduler, and the calls that take them |
| `LocksProofs` | its theorems |
| `DumpLayout` | archives and directory trees: Compress, extractArchive, findDatabaseDir as operators |
| `DumpLayoutProofs` | theorems about those operators |
| `Restore` | restores, their workspaces and mongorestore |
| `RestoreProofs` | its theorems |
| `MC...` | the modules TLC is run on |

How they compose: `Service` knows a job only as the time between its call and
its return, `BackupJob` is the inside of that time, and `Scheduler` is the
inside of one generation's firings. `Service` shows by
`NoOverlapWithoutDashboard` when `BackupJob`'s constant `Overlap` may be FALSE;
`BackupJob` shows by `CancelledJobsEnd` that a job returns once its context is
cancelled, which is all that `Scheduler` assumes of a firing's job. The upload of `BackupJob` that finds no token is a waiter of
`OAuthFlow`, and its reports are the `UpdateResult` of `Monitor`. The download of
`Restore` is a waiter too. `Restore` extends `DumpLayout`, whose `Compress` makes
the archive that `BackupJob` stores. `Monitor` says what is sent to whom, `Locks`
which mutexes the same calls, and the firings of `Scheduler` that skip, go
through.

A definition headed "Mutant:" changes the definition after it the way a
plausible mistake would. No specification uses it: put in the place of that
definition it makes TLC find a property violated (`mutants` in `PROJECT.json`),
which shows that the property can fail.

## 3. State, actions and properties

### Scheduler

`pc[w]` is where a goroutine is: `fired` before the first lock of the entry
(lines 46-54), `job` inside `s.job`, `clearing` before the deferred section
(56-60). `Answer` is the check-and-set under the mutex, `Skip` its early
return. `starter` follows `Start`; `Cancel` is the owner's cancellation. A
section under `s.mu` does not block and is one step.

* `MutualExclusion`, `FlagMeansInside`: one goroutine inside, and the flag is
  set exactly then.
* `FlagIsReleased`: a job that has returned gives the flag back, and so does a
  firing whose job runs with a cancelled context. Before that nothing ends a job
  that hangs, and every firing skips.
* `FiringsDrain`: after the cancellation the late firings end and no new one
  comes.
* `ImplementsSingleFlight`: refinement of `SingleFlight`, with `inside` mapped
  to the goroutines between taking and clearing the flag.

### BackupJob

`pc[j]` is how far `runBackup` is, `dir` and `arc` are the temporary directory
(contents `absent`, `partial`, `mixed`, `full` per second), `held[j]` what the job
found in the path it last opened or made, `drive` what Drive has
stored, `status` the result shown. Dump, compression and upload are long and
have a start and an outcome; an action that ends a job early contains the
removals and the report of that error path. `torn[j]` says that another job
wrote, truncated or removed what `j` is reading or writing, and then the outcome
is a choice. `Die` ends the process at any point and starts it again over the
same directory. It is PID 1 of its container (`Dockerfile`), so that no mongodump
outlives it.

* `SuccessIsStored`: a success, in the job and on the dashboard, names a file of
  that job on Drive.
* `FilesAreOwned`: which jobs may leave files behind, and no others. Two ways
  are known to: the death of the process, and a compression that fails.
* `StatusSettles`: "running" is shown only while a job is under way; the one way
  out of a job that leaves it there is the one without mongodump.
* `SerialIntegrity`: without overlap, what a successful job stored is the whole
  database, even when removals fail and names are used again. `MkdirAll`
  (`mongodb.go:59`) accepts a dump directory that is there, mongodump does not
  empty it and the archiver packs all it finds (`archive.go:56`), so that what an
  earlier dump left comes along (`mixed`); the property says that this happens
  only with a dump of the same second whose job died or could not remove it
  (`Inherits`), and that nothing cut is stored.
* `CancelledStoresNothing`, `CancelledJobsEnd`: after a cancellation the stage
  under way may still succeed, the job goes no further and ends. (An upload that
  waits at the terminal for a typed code, `Scan` of `OAuthFlow`, is not ended by
  its context; there is no dashboard then, and the process ends instead: `Die`.)
* `KeepsPromise`: refinement of `BackupPromise`: success implies stored; a
  failure may have stored all the same.

### Service

A context is a generation; `gen` is the one in the variables, `cancelled` the
cancelled ones. `Seen` is what a reader without a lock may get: both generations
while the supervisor is in the assignment of line 257. Each goroutine of `main`
has a variable for its place. With `exit` no longer `"no"` nothing happens any
more, whatever was under way, because `main` returns without waiting.

* `NoOrphan`: no service and no manual backup whose context neither is cancelled
  nor can be.
* `NoOverlapWithoutDashboard`: without one, backups are one at a time.
* `OnceStatus`: with `--once`, a status of 0 is not that of a failed backup.
* `ShutdownEnds`, `OnceEnds`: a signal, Stop, a port that is taken and the end of
  the backup of `--once` end the process, whatever restarts went before.

### OAuthFlow

Waiters differ in what ends their wait: nothing (a click, the download of a
restore), the backup's context (an upload), 30 seconds (a listing). `chan` is
`oauthCodeCh`, `file` the token file, `spent` the codes Google has exchanged.
`SaveToken` is two steps, because `os.Create` truncates before the token is
written. Without a dashboard the code is typed (`Scan`), which no context ends,
and the service waits for its check (`Check`, `ready`). `inline` is
`GOOGLE_OAUTH_TOKEN_JSON` as it is in memory, which a save replaces; `given` is
what a restart puts there again. `Finds` is what a reader gets who looks while
that string is assigned.

* `TornOnlyWhileSaving`: the token is unreadable only during a write or after
  one that was cut short.
* `SavedIsFound`: after the program has saved a token, nobody who looks for one is
  made to wait for a code, whatever the environment holds. It is an action
  property over what readers really do (`Finds`) and has two exceptions: the token
  is in the file only and a write has torn that; or it is inline, and another
  waiter is assigning that string without a lock (`drive.go:458`) at the moment of
  the look. Both occur in the model.
* `BoundedWait`: with a dashboard, a wait with a bounded context ends with it.

### Monitor

Topics have versions. A sender copies a topic (`Copy`), then the set of
connections (`Address`), then sends to one after the other (`Deliver`,
`Undelivered`); the handler of a client is a sender too, with its first three
messages. An empty list of backups says nothing to a
page: `omitempty` (`status.go:41`) leaves it out of the message, and the page
ignores a message without one (`web.go:1096`); a version of that topic stands for
a list with entries. The ticker, and with it `StatusConverges`, is that of the
scheduled mode: with `--once` nobody calls `StartTicker` (`main.go:300-323`).
`seen` is what a page shows, `best` the newest it was ever sent (used
by the property only).

* `NothingMissed`: registration before the first copy leaves no gap.
* `StatusConverges`: broadcasts overtake each other, and the ticker repairs it.
* `GoneIsForgotten`: broken connections leave the set and their handler ends.

### Locks

A call is the sequence of its steps: locking, touching shared data, waiting for
a client. Locking for writing is two steps, because a writer of a
`sync.RWMutex` shuts out new readers before it waits for the old ones; that is
how a reader that waits for itself can come about. A release belongs to the
access before it. `Broken` is a broadcast that finds the connection gone,
removes it from the set and closes it, which takes the connection's mutex like a
send. The call of a page goes on after its first three messages: it waits in its
read loop (`ReadLoop`, `websocket.go:61-65`) until the page leaves, then removes
and closes the connection. Each line of the source that logs contributes all of `appendLog`.

* `NoCircularWait`: no set of goroutines wait for one another.
* `FieldsAreGuarded`: no two accesses to a field, one of them a write, at the
  same time. `lastRunTime` is excepted, because `status.go:101` reads it after
  its lock is released. (`nextRunGetter` is assigned without a lock too; that
  happens before its ticker starts, or on a restart, and is left out. The
  repository's tests run with `-race`, README.md:197.)
* `StatusIsAnswered`: if browsers read the answers to their requests, a page that
  never takes what it is sent does not hold up the requests for status and log.
* `CallsReturn`: if pages also take what they are sent, every call returns, except
  that the call of a page comes to its read loop, stays there until the page
  leaves, and returns then.

The premises (`BrowsersRead`, `PagesTake`) are part of the two properties, since
nothing in the server bounds those waits. What happens without the first is a
hazard that no property covers: a browser that does not read its answer keeps
`statusMu` or `logsMu` (`web.go:1241`), and with it the ticker, the jobs that
report and everybody who logs.

### DumpLayout and Restore

A path is the sequence of its names, a tree a set of directories and files, an
archive a sequence of entries, whole or cut short. Of the loop of
`extractArchive`, `Refused` is what ends it at an entry, `Accepted` the entries it
gets through, `TreeOf` what these leave on disk and `Extract` the whole; `Clean`
is `filepath.Clean`. `Compress` lists a tree in the order of `filepath.Walk`.
`FindDatabaseDir` is the function of that name with `filepath.WalkDir` as the set
`Matches`.

`IsArchive` says what may be on Drive: any sequence of entries with any names, in
which the root stands for the slash in front of a path only. `IsDump` says what
`mongodump` may leave: finitely many directories and files with plain names, each
in a directory that is there. They are the assumptions on `Archives` and `Dumps`.

`pc[r]` is how far a restore is, `box` what each workspace holds, `target` the
backups whose documents each collection of the target holds. `mongorestore`
drops a collection (`Drop`) and fills it (`Fill`), several at a time and in any
order, and may fail anywhere. `EndWith` is every return with its deferred
removal, which may fail. `Die` ends the process; a mongorestore under way dies
with it, as in the container, or goes on (`orphan`). `sole[r]` is a history
variable: no other mongorestore has run since that of `r` began.

* `NothingLostToABadBackup`: a collection is touched only for a restore whose
  archive was whole and holds it.
* `SuccessMeansRestored`: "restore completed" means that the collections are
  those of the backup, if no other mongorestore has met this one, whatever
  earlier ones have left behind.
* `WorkspacesAreOwned`: no two share a workspace; the leftovers are known.
* `FindsTheDatabase`, `StaysInside`: against what the entries of the archive
  say (`Places`, `Says`), independently of `TreeOf` and `Matches`.
* `DumpsComeBack`: backup and restore fit together. The program's own archive of
  a dump is unpacked, its database is found, and a success puts back what was
  dumped.

**What is assumed of mongorestore.** `restore.go:77-82` passes `--db` for a flat dump
only. In the usual case it gives mongorestore the directory of one database without
`--db` and expects it to be restored, and `Restore` follows that expectation. The
tool itself may take such a directory for the root of a dump, skip the files in it
and exit with 0. `SuccessMeansRestored` and `DumpsComeBack` therefore say that the
program does its part: that it gives the right directory and does not take a
failure for a success. `FindsTheDatabase`, `StaysInside`,
`NothingLostToABadBackup` and `WorkspacesAreOwned` do not depend on it.

## 4. Runs

| Run | Bounds | Shows |
|---|---|---|
| `scheduler` | 3 firings, 1 caller | all properties of Scheduler |
| `job_overlap` | 2 jobs, seconds 0..2 | the properties of overlapping jobs |
| `job_serial` | 3 jobs, seconds 0..1, removals may fail | `SerialIntegrity` |
| `service` | 1 restart, 2 manual backups, with and without dashboard and `--once` | all properties of Service |
| `oauth` | one waiter of each kind, 2 codes, four inline tokens, with and without dashboard | all properties of OAuthFlow |
| `monitor` | 1 page, 1 writer, the ticker; 2 results, 1 log entry, 1 folder change | all properties of Monitor |
| `locks` | a goroutine of each kind: one that works, one that serves, the ticker | all properties of Locks |
| `restore` | 2 restores, 2 workspaces, 2 databases, 2 collections, 176 archives | all properties of Restore |

Why the bounds are enough: the flag needs two competitors and a third that comes
late. Jobs interfere in pairs through a shared name, and two seconds are needed
for a dump and an archive to be named differently, a third for a name that is
used after it was left; three serial jobs let one reuse what another left while
a third comes between. One restart gives two generations, and the supervisor
never refers to more than two. Two codes allow a code to be lost and replaced;
a code may be used twice. Overtaking on the status topic happens between the
writer, the ticker and the page's own handler. A circle of waiting goroutines
has as many members as locks that are held while another is asked for; only two
are (`statusMu` and the one of the connection), so that three goroutines are
enough, and a reader that is shut out by a writer needs two. The archives of the
first backup are all of up to two entries out of twelve that differ in what the
code tells apart (an entry at the top, below it or twice, directories, files and
others, names that leave the archive, dump files at the top), those of one
entry cut short, and those the program makes of eight dumps; two entries are needed
for a name met twice or for a file where a directory is needed. The second backup is
one the program has made. Where a theorem exists (section 5) the bound does not
matter. In `BackupJob` time stops at `MaxTime`
and names are used again as often as jobs want; `MaxGen` disables the restart
button; `MaxStatus`, `MaxLogs` and `MaxBackups` disable changes.

Four runs show disagreements between the code and what the repository says:

| Run | Property | What happens |
|---|---|---|
| `one_job` | `AtMostOneJob` (AGENT.md:417) | manual backups run beside others: `main.go:236` asks no flag |
| `restart_exits` | `RestartKeepsService` (web.go:934, 1283) | the restart cancels what `main` waits for, and the process exits |
| `callback_success` | `SuccessMeansToken` (oauth_handlers.go:38, README.md:159) | "successful" is answered for a code that may be lost |
| `restores_mix` | `CollectionsAreReplaced` (README.md:302) | two restores at the same time both succeed and leave a mixture |

Others were met while modelling; the models contain them, but no run is spent
on them:

* A compression that fails leaves its archive in the temporary directory
  (`main.go:60` removes the dump only; `CompressFail`, the place `stranded`),
  where AGENT.md:593-609 wants everything removed. `FilesAreOwned` names it as
  one of the two ways a file stays.
* Without mongodump the dashboard goes on showing the error "running"
  (`main.go:44` returns without a report; `NoMongodump`, which `StatusSettles`
  has to except).
* An older copy of the log may overtake a newer one and stay on the page until
  the next line (`websocket.go:37`); `StatusConverges` holds for the status only,
  because the ticker sends that again.
* A dump that is left in the temporary directory, by the death of the process or by
  a removal that failed, is packed into the next archive if that job dumps in the
  same second (`mongodb.go:59`, `archive.go:56`): a collection that was dropped in
  between comes back with that backup. `SerialIntegrity` names the case.
* A folder on Drive that becomes empty, or one that cannot be listed, leaves the old
  list on the page (`status.go:41`, `web.go:1096`).
* A flat dump is restored under any database name (`restore.go:102`), while
  README.md:89-91 says that a wrong name makes the restore fail.
* An invalid `BACKUP_SCHEDULE` ends the process with 1 (`main.go:315`), where
  AGENT.md:934 reserves 2 for configurations. A service account of
  blanks is none for `config.go:106` and is taken for one by `main.go:149`.
* After a restart a malformed `GOOGLE_OAUTH_TOKEN_JSON` hides the token that was
  saved before (`drive.go:424-428`).

Deadlock is checked in every run. `AllEnded` in `BackupJob` and `Exited` in
`Service` are the states in which a model stops by intention.

### Fairness

* Scheduler: goroutines run (a fired entry answers, a job that has returned clears
  the flag, `Start` wakes on a cancelled context). The job of a firing returns only
  once the context is cancelled, by `CancelledJobsEnd`; that of RunOnce has a
  context of its own, and nothing is assumed of it. Firing, cancelling and RunOnce
  carry none.
* BackupJob: a job's own steps; answers of mongodump and Drive only once the
  context is done, because the context then kills the one and aborts the other,
  and nothing bounds them before.
* Service: `main`, the signal goroutine, the supervisor and the end of `--once`.
  Requests, signals, firings and the ends of jobs carry none.
* OAuthFlow: waiters go on; an exchange is answered when its context is done,
  or, for the run `callback_success` alone, always (`Refusals` FALSE).
* Locks: strong fairness of a goroutine's own steps, because one that waits for
  a lock is enabled only now and then, and Go's mutexes hand themselves to whoever
  has waited for long. Nothing is assumed of browsers and pages, for which the server
  sets no time limit: what they do is a premise of the two properties.
* Restore has safety properties only: neither Drive nor mongorestore need ever
  answer, and nothing cancels a restore.
* Monitor: the ticker ticks, in the scheduled mode, and sends go on. The second assumes that a page
  reads or breaks: no send has a deadline, and a page that does neither holds up
  whoever broadcasts, a backup's report among them.

## 5. Proofs

`SchedulerProofs`. The invariant is `TypeOK /\ FlagMeansInside /\
MutualExclusion`: exclusion alone is not inductive, since only the flag says that
nobody is inside. Each step enters, leaves or keeps the set of goroutines
inside (`StepKinds`), which gives the invariant and the refinement of
`SingleFlight`.

`BackupJobProofs`. `Named` says that a job has named its dump and archive before
it works on them; without it the types of `dir`, `arc` and `drive` are not
inductive. `StoredByName` (a job past its upload has a file of its archive's
name on Drive, and the status is that of a job that ended well) gives
`SuccessIsStored`. `FilesAreOwned` is `DirIsOwned` and `ArcIsOwned`, kept because
every step either keeps the files of every job or removes them with the job that
leaves (`KeepsDumps`, `KeepsArchives`). `DirIsOwned` is stated over `Holders`, which
include the jobs whose removal may have failed, so that it holds with and without
`RemovalMayFail`. `SerialInv` says that one job is active, that nothing is torn
and that what the active job has made is whole at each stage (`WholeFor`): an
archive left behind is truncated before it is written, and a dump that is found has
a holder, which without overlap is a job that has ended, so that the dump is
inherited (`FoundIsInherited`) and stays so (`InheritanceStays`). The refinement of `BackupPromise` needs
`StoredByName`.

`ServiceProofs`. `NoOrphan` needs two facts beside it: a restart is asked for
only when there is a next generation (`RoomForNext`), and the old generation is
cancelled before the assignment begins (`OldIsCancelled`).
`NoOverlapWithoutDashboard` follows from `Unasked` (without a dashboard nothing
is requested, so that there is one generation and no manual backup) and
`OneMode` (a service runs one backup or a scheduler, never both). It leaves to
`Scheduler` what keeps the firings of one generation apart. `OnceStatus` follows
from `Reasoned`: with `--once` every cancelled context, and with it the way of
`main` to its end, has a reason, and a reason stays (`EndedStays`).

`StatusSettles` needs `Unstarted` (a job has no dump before it starts one).
`CancelledMeansNotStored` is an action argument: a job with nothing on Drive that
has ended, or is early with its context done, is `Hopeless`, and no step makes it
anything else (`Moves`, `StoredGrows`); `NothingSent` says that an early job has
nothing there.

`OAuthFlowProofs`. `TornOnlyWhileSaving` is inductive with the types.
`SavedIsFound` is an action property. A waiter begins to wait only in a step of its
own that has looked and found nothing (`BeginsToWait`); the invariant `Kept` says
that after a save no inline token is left that cannot be used (a saver that has
created the file has replaced it already) and that there is a file. What `Finds`
may still miss are the two exceptions: an inline token whose string is being
assigned, and a file that is torn.

`RestoreProofs`. `IInv` is the types and nine facts. `FileIsThere` and
`TreeIsThere` say that a workspace holds what its own restore put there, which
rests on `WorkspacesAreOwned` and `HousesExist`; with `DoesContent`
(mongorestore has to do only with what the backup holds) they give
`NothingLostToABadBackup`. `SuccessMeansRestored` follows from `OnItsWay`: of a
restore that is alone, each collection is still to be dropped, or empty and to
be filled, or as it should be; `Alone` keeps others away. Of `DumpLayout` these
use only that a cut archive is not `ok`. With `TreeIsThere`, which says that a
workspace holds what `Extract` makes of the archive, `StaysInside`,
`FindsTheDatabase` and `DumpsComeBack` become facts about the operators:

`DumpLayoutProofs`. The library's induction theorems cannot be used (they take an
operator as a parameter), so induction is done on sets of numbers: if something
fails for some prefix of a path or of an archive, take the shortest (`LeastNumber`,
from the well-founded order of the naturals) and look at the step that leads to it.

* `CleanCleans`: a cleaned path has no ".", has ".." only in front and the root only
  first. With the refusals of `Unsafe` this gives `ExtractionStaysInside`: every
  directory and file is at a plain path, also when the extraction ends with an error.
* `FindsThePlace`: the directories of a tree are the prefixes of the folders of the
  entries, so that the walk with its `SkipDir` meets a directory of that name exactly
  where an entry has it first (`MatchesArePlaces`).
* `RoundTrip`: `Extract` undoes `Compress`, for every dump. The walk visits each
  path once (`WalkVisitsAll`, from `Precedes` being a strict total order on plain
  paths); no entry is refused, because what has been unpacked before it is always
  part of the tree, and in the tree no path is both directory and file.

`MonitorProofs`. `NothingMissed` speaks of the moments when nothing is under way;
the inductive `Covered` says for every moment that a page whose connection is up
has had the current version, or that some sender is going to bring it
(`Brings`): it has still to copy the topic, or holds the current version and has
not yet chosen its receivers, or has this page left among them. It needs
`Registered` (such a page is in the set of connections when a broadcast is
addressed) and `NothingNewer` (nothing is newer than current, so that what is
brought is the best).

`LocksProofs`. The argument has two halves. The first is about one call by itself:
`Does(h, s, i)` says that a goroutine that holds `h` can go through the steps `s`, one
after the other, and holds `i` in the end, and that on the way it asks for a lock only
in order, releases only what it holds, and touches a field only under the field's
lock. It is shown fragment by fragment, in the way the calls are put together
(`DoesBoth`), and in the end for each call, from nothing held to nothing held. The
order is short: the scheduler's mutex under `statusMu`, and no other lock under
another (`MayTake`). The second half is about the goroutines together. The
invariant is `Typed`, `InOrder` (what a goroutine holds is what the rest of its
call starts from) and `Exclusive` (a lock with readers has no writer but one that
waits for them). A step of a goroutine leaves what the others hold alone.
`FieldsAreGuarded` follows because the two of a conflict would both hold the guard,
one of them for writing; `NoCircularWait` because who waits and holds something holds
`statusMu` and waits for the scheduler's mutex, whose holder asks for no other lock.

The assumptions are those on the constants: the kinds of goroutines are
disjoint, bounds are natural numbers, flags are Boolean, `Archives` are archives and
`Dumps` dumps, and the lexical order lists the names.

Every safety property of the passing runs is proved, the two refinements
included. Only model-checked are the liveness properties (the prover does not treat
fairness and ENABLED): `FlagIsReleased`, `FiringsDrain`, `CancelledJobsEnd`,
`ShutdownEnds`, `OnceEnds`, `BoundedWait`, `StatusConverges`, `GoneIsForgotten`,
`StatusIsAnswered` and `CallsReturn`; and what the four violated properties show.

## 6. Not modelled

* Login: the sessions are a map of which every access is one section under
  `authMu`, so that there is nothing to interleave; the rest is string handling.
* Configuration: a sequential function of the environment that runs once. What
  it decides is chosen in `Init` of `Service` and `OAuthFlow`.
* Pages, metrics, the launch script and the image: no state of their own.
* What mongorestore and mongodump do inside: `Restore` takes the one to restore
  the directory it is given, as `restore.go` expects also where it gives no
  `--db`, and nothing says what a dump holds that runs beside a restore.
* Two processes over one directory: the launch script starts one.
* A token that Google returns without a refresh token.
* The cap of the log, the values of the time fields, page contents, formatting.
* The startup of `main` before its goroutines: with OAuth, a dashboard and no
  token it waits out the 30 seconds of a listing (`main.go:187`).
* In `Service`, the 500 ms of a restart are taken to be longer than the start of
  `main`'s goroutines (`Assigns`), and data races on `ctx` and `cancel` give one
  of the two values.
* Retention: `BACKUP_RETENTION_DAYS` is read and used nowhere.

## 7. Plan

1. Done: `Scheduler`, `BackupJob`, `Service`, `OAuthFlow`, `Monitor`, `Locks`,
   `Restore`, with the theorems above.
2. Done: proofs about `Locks` and `DumpLayout`; with them every safety property
   that a run checks is a theorem.
3. A composition in which the firings of `Service` are those of `Scheduler`,
   one instance for each generation. Today the two meet by assumption and
   guarantee only: `Service` takes the firings of a generation to be one at a
   time, which is `MutualExclusion`.
