------------------------------ MODULE BackupJob ------------------------------
(***************************************************************************)
(* runBackup of cmd/backup/main.go with the stages it calls: the mongodump *)
(* of internal/backup/mongodb.go, the archiver of internal/backup/         *)
(* archive.go, the uploads of internal/drive/drive.go, and the result that *)
(* internal/web/status.go shows.                                           *)
(*                                                                         *)
(* Jobs run over one temporary directory.  Each names its dump directory   *)
(* and, later, its archive after the second it is in, so that two jobs of  *)
(* one second share a path: the contents of a path are "absent", "partial" *)
(* (still being written, truncated, or scrambled by two writers), "full",  *)
(* or "mixed": the whole dump and, beside it, what an earlier dump left in *)
(* the same directory.  A long read or write of a path that another job    *)
(* writes, truncates or removes meanwhile is torn: what comes of it is a   *)
(* choice.                                                                 *)
(*                                                                         *)
(* The dump, the archive and the upload take time and are two steps each   *)
(* (start, outcome).  An action that ends a job early holds the removals   *)
(* and the report of that error path.                                      *)
(***************************************************************************)
EXTENDS Integers

CONSTANTS Jobs,           \* the calls of runBackup
          MaxTime,        \* the last second that the model's clock reaches
          Overlap,        \* may a job begin while another is under way?
          RemovalMayFail  \* may os.RemoveAll, whose error is ignored, fail?

ASSUME TimeAssumption == MaxTime \in Nat
ASSUME FlagAssumption == Overlap \in BOOLEAN /\ RemovalMayFail \in BOOLEAN

Stamps == 0 .. MaxTime    \* what time.Now().UTC().Format tells apart
NoStamp == -1

Content == {"partial", "mixed", "full"}
State == Content \cup {"absent"}

VARIABLES pc,       \* how far each job is
          now,      \* the second the clock shows
          dumpAt,   \* the stamp in each job's dump directory name
          arcAt,    \* the stamp in each job's archive name
          held,     \* what each job found in the path it last opened or made
          torn,     \* was the read or write under way disturbed?
          dir,      \* the dump directories in the temporary directory
          arc,      \* the archives in the temporary directory
          drive,    \* what Drive has stored
          status,   \* the result the dashboard shows
          ctxDone   \* the context of the jobs is cancelled

files == <<dir, arc, torn>>
names == <<dumpAt, arcAt, held>>
vars == <<pc, now, names, files, drive, status, ctxDone>>

Active == {"begun", "ready", "dumping", "dumped", "compressing", "packed",
           "verified", "uploading", "stored", "cleaned"}
Ended == {"done", "failed", "stranded", "lost"}

Unknown == [state |-> "none", err |-> "none", file |-> NoStamp]
Running == [state |-> "failed", err |-> "running", file |-> NoStamp]
Failed == [state |-> "failed", err |-> "error", file |-> NoStamp]
Success(name) == [state |-> "success", err |-> "none", file |-> name]

TypeOK ==
  /\ pc \in [Jobs -> {"idle"} \cup Active \cup Ended]
  /\ now \in Stamps
  /\ dumpAt \in [Jobs -> Stamps \cup {NoStamp}]
  /\ arcAt \in [Jobs -> Stamps \cup {NoStamp}]
  /\ held \in [Jobs -> State]
  /\ torn \in [Jobs -> BOOLEAN]
  /\ dir \in [Stamps -> State]
  /\ arc \in [Stamps -> State]
  /\ drive \subseteq [job : Jobs, name : Stamps, content : Content]
  /\ status \in {Unknown, Running, Failed} \cup {Success(s) : s \in Stamps}
  /\ ctxDone \in BOOLEAN

Init ==
  /\ pc = [j \in Jobs |-> "idle"]
  /\ now = 0
  /\ dumpAt = [j \in Jobs |-> NoStamp]
  /\ arcAt = [j \in Jobs |-> NoStamp]
  /\ held = [j \in Jobs |-> "partial"]
  /\ torn = [j \in Jobs |-> FALSE]
  /\ dir = [s \in Stamps |-> "absent"]
  /\ arc = [s \in Stamps |-> "absent"]
  /\ drive = {}
  /\ status = Unknown
  /\ ctxDone = FALSE

-----------------------------------------------------------------------------
(* Who is using a path for a long time.                                     *)

Dumps(k, s) == pc[k] = "dumping" /\ dumpAt[k] = s
ReadsDir(k, s) == pc[k] = "compressing" /\ dumpAt[k] = s
WritesArc(k, s) == pc[k] = "compressing" /\ arcAt[k] = s
ReadsArc(k, s) == pc[k] = "uploading" /\ arcAt[k] = s

Others(j) == Jobs \ {j}

UsersOfDir(j, s) == {k \in Others(j) : Dumps(k, s) \/ ReadsDir(k, s)}
UsersOfArc(j, s) == {k \in Others(j) : WritesArc(k, s) \/ ReadsArc(k, s)}

(* Job j opens a path, undisturbed or not; the jobs of K are disturbed.     *)
Disturb(j, disturbed, K) ==
  torn' = [k \in Jobs |-> IF k = j THEN disturbed ELSE torn[k] \/ k \in K]

(* os.RemoveAll, whose error nobody looks at.                               *)
Removed(fs, s) == {[fs EXCEPT ![s] = "absent"]}
                    \cup (IF RemovalMayFail THEN {fs} ELSE {})

RemoveDump(j) ==
  /\ dir' \in Removed(dir, dumpAt[j])
  /\ Disturb(j, FALSE, UsersOfDir(j, dumpAt[j]))

RemoveArchive(j) == arc' \in Removed(arc, arcAt[j])

Goto(j, place) == pc' = [pc EXCEPT ![j] = place]

Report(result) == status' = result

-----------------------------------------------------------------------------
(* Begin, and the checks before the dump.                                   *)

Busy == \E k \in Jobs : pc[k] \in Active

(* A job is called: the dashboard shows "failed: running" meanwhile.        *)
Begin(j) ==
  /\ pc[j] = "idle"
  /\ Overlap \/ ~Busy
  /\ Goto(j, "begun")
  /\ Report(Running)
  /\ UNCHANGED <<now, names, files, drive, ctxDone>>

Preflight(j) ==
  /\ pc[j] = "begun"
  /\ Goto(j, "ready")
  /\ UNCHANGED <<now, names, files, drive, status, ctxDone>>

(* The temporary directory cannot be made.                                  *)
NoTempDir(j) ==
  /\ pc[j] = "begun"
  /\ Goto(j, "failed")
  /\ Report(Failed)
  /\ UNCHANGED <<now, names, files, drive, ctxDone>>

(* mongodump is not installed: this path returns without a report.          *)
NoMongodump(j) ==
  /\ pc[j] = "begun"
  /\ Goto(j, "failed")
  /\ UNCHANGED <<now, names, files, drive, status, ctxDone>>

-----------------------------------------------------------------------------
(* Dump.                                                                    *)

(* The directory is made, or found with what is in it, and mongodump        *)
(* started.                                                                 *)
DumpStart(j) ==
  /\ pc[j] = "ready"
  /\ ~ctxDone
  /\ dumpAt' = [dumpAt EXCEPT ![j] = now]
  /\ held' = [held EXCEPT ![j] = dir[now]]
  /\ dir' = [dir EXCEPT ![now] = "partial"]
  /\ Disturb(j, \E k \in Others(j) : Dumps(k, now), UsersOfDir(j, now))
  /\ Goto(j, "dumping")
  /\ UNCHANGED <<now, arcAt, arc, drive, status, ctxDone>>

(* The directory cannot be made: Dump returns before it removes anything.   *)
NoDumpDir(j) ==
  /\ pc[j] = "ready"
  /\ Goto(j, "failed")
  /\ Report(Failed)
  /\ UNCHANGED <<now, names, files, drive, ctxDone>>

(* With a context that is done mongodump is not started: the directory just *)
(* made, or found, is removed.                                              *)
DumpRefused(j) ==
  /\ pc[j] = "ready"
  /\ ctxDone
  /\ dumpAt' = [dumpAt EXCEPT ![j] = now]
  /\ LET found == IF dir[now] = "absent" THEN "partial" ELSE dir[now]
     IN  dir' \in Removed([dir EXCEPT ![now] = found], now)
  /\ Disturb(j, FALSE, UsersOfDir(j, now))
  /\ Goto(j, "failed")
  /\ Report(Failed)
  /\ UNCHANGED <<now, arcAt, held, arc, drive, ctxDone>>

(* mongodump exits with success, perhaps just before it would be killed.    *)
(* It writes the files of every collection, and removes no other: one of a  *)
(* collection that has been dropped since an earlier dump stays.            *)
DumpOk(j) ==
  /\ pc[j] = "dumping"
  /\ LET s == dumpAt[j]
         shared == \E k \in Others(j) : Dumps(k, s)
         outcomes == IF shared THEN {dir[s], "partial"}
                     ELSE IF torn[j] THEN Content \cup {dir[s]}
                     ELSE IF held[j] = "absent" THEN {"full"}
                     ELSE {"full", "mixed"}
     IN  \E c \in outcomes : dir' = [dir EXCEPT ![s] = c]
  /\ Goto(j, "dumped")
  /\ UNCHANGED <<now, names, arc, torn, drive, status, ctxDone>>

(* Mutant: the exit code of mongodump is ignored.                           *)
DumpFailIgnored(j) ==
  /\ pc[j] = "dumping"
  /\ Goto(j, "dumped")
  /\ UNCHANGED <<now, names, files, drive, status, ctxDone>>

(* mongodump fails, or is killed when the context is cancelled.             *)
DumpFail(j) ==
  /\ pc[j] = "dumping"
  /\ RemoveDump(j)
  /\ Goto(j, "failed")
  /\ Report(Failed)
  /\ UNCHANGED <<now, names, arc, drive, ctxDone>>

-----------------------------------------------------------------------------
(* Archive.                                                                 *)

(* The archive is named after the second the dump ended in; creating it     *)
(* truncates an archive of that name.                                       *)
CompressStart(j) ==
  /\ pc[j] = "dumped"
  /\ ~ctxDone
  /\ dir[dumpAt[j]] # "absent"
  /\ arcAt' = [arcAt EXCEPT ![j] = now]
  /\ held' = [held EXCEPT ![j] = dir[dumpAt[j]]]
  /\ arc' = [arc EXCEPT ![now] = "partial"]
  /\ Disturb(j,
             \E k \in Others(j) : Dumps(k, dumpAt[j]) \/ WritesArc(k, now),
             UsersOfArc(j, now))
  /\ Goto(j, "compressing")
  /\ UNCHANGED <<now, dumpAt, dir, drive, status, ctxDone>>

(* The dump is gone, or the archive cannot be created: nothing is written.  *)
NoArchive(j) ==
  /\ pc[j] = "dumped"
  /\ RemoveDump(j)
  /\ Goto(j, "failed")
  /\ Report(Failed)
  /\ UNCHANGED <<now, names, arc, drive, ctxDone>>

(* With a context that is done the walk ends at its first entry, with the   *)
(* archive created; only the dump is removed.                               *)
CompressRefused(j) ==
  /\ pc[j] = "dumped"
  /\ ctxDone
  /\ dir[dumpAt[j]] # "absent"
  /\ arcAt' = [arcAt EXCEPT ![j] = now]
  /\ arc' = [arc EXCEPT ![now] = "partial"]
  /\ dir' \in Removed(dir, dumpAt[j])
  /\ Disturb(j, FALSE, UsersOfDir(j, dumpAt[j]) \cup UsersOfArc(j, now))
  /\ Goto(j, "stranded")
  /\ Report(Failed)
  /\ UNCHANGED <<now, dumpAt, held, drive, ctxDone>>

(* Every file is read and the archive is closed.  When another job has      *)
(* removed the archive meanwhile, the writes went to a file without a name. *)
CompressOk(j) ==
  /\ pc[j] = "compressing"
  /\ LET s == arcAt[j]
         outcomes == IF arc[s] = "absent" THEN {"absent"}
                     ELSE IF torn[j] THEN Content
                     ELSE {held[j]}
     IN  \E c \in outcomes : arc' = [arc EXCEPT ![s] = c]
  /\ Goto(j, "packed")
  /\ UNCHANGED <<now, names, dir, torn, drive, status, ctxDone>>

(* A file cannot be read or written, or the context is cancelled between    *)
(* two entries: the dump is removed, the archive stays.                     *)
CompressFail(j) ==
  /\ pc[j] = "compressing"
  /\ RemoveDump(j)
  /\ Goto(j, "stranded")
  /\ Report(Failed)
  /\ UNCHANGED <<now, names, arc, drive, ctxDone>>

(* Mutant: a verified archive is taken for an uploaded one.                 *)
VerifyOkIsEnough(j) ==
  /\ pc[j] = "packed"
  /\ arc[arcAt[j]] # "absent"
  /\ Goto(j, "cleaned")
  /\ UNCHANGED <<now, names, files, drive, status, ctxDone>>

(* VerifyArchive reads the first header only: what is partial may pass.     *)
VerifyOk(j) ==
  /\ pc[j] = "packed"
  /\ arc[arcAt[j]] # "absent"
  /\ Goto(j, "verified")
  /\ UNCHANGED <<now, names, files, drive, status, ctxDone>>

(* Mutant: an archive that does not verify is left behind.                  *)
VerifyFailKeepsArchive(j) ==
  /\ pc[j] = "packed"
  /\ RemoveDump(j)
  /\ Goto(j, "failed")
  /\ Report(Failed)
  /\ UNCHANGED <<now, names, arc, drive, ctxDone>>

VerifyFail(j) ==
  /\ pc[j] = "packed"
  /\ RemoveDump(j)
  /\ RemoveArchive(j)
  /\ Goto(j, "failed")
  /\ Report(Failed)
  /\ UNCHANGED <<now, names, drive, ctxDone>>

-----------------------------------------------------------------------------
(* Upload.                                                                  *)

(* Mutant: nobody looks whether the archive could be opened.                *)
UploadStartUnchecked(j) ==
  /\ pc[j] = "verified"
  /\ ~ctxDone
  /\ held' = [held EXCEPT ![j] = arc[arcAt[j]]]
  /\ Disturb(j, \E k \in Others(j) : WritesArc(k, arcAt[j]), {})
  /\ Goto(j, "uploading")
  /\ UNCHANGED <<now, dumpAt, arcAt, dir, arc, drive, status, ctxDone>>

(* The archive is opened and the request sent.                              *)
UploadStart(j) ==
  /\ pc[j] = "verified"
  /\ ~ctxDone
  /\ arc[arcAt[j]] # "absent"
  /\ held' = [held EXCEPT ![j] = arc[arcAt[j]]]
  /\ Disturb(j, \E k \in Others(j) : WritesArc(k, arcAt[j]), {})
  /\ Goto(j, "uploading")
  /\ UNCHANGED <<now, dumpAt, arcAt, dir, arc, drive, status, ctxDone>>

Sent(j) ==
  [job : {j}, name : {arcAt[j]},
   content : IF torn[j] THEN Content ELSE {held[j]}]

(* Drive answers with the id of the file it has stored.                     *)
UploadOk(j) ==
  /\ pc[j] = "uploading"
  /\ \E r \in Sent(j) : drive' = drive \cup {r}
  /\ Goto(j, "stored")
  /\ UNCHANGED <<now, names, files, status, ctxDone>>

(* Mutant: the error path of the upload does not report.                    *)
GiveUpUploadSilently(j) ==
  /\ RemoveDump(j)
  /\ RemoveArchive(j)
  /\ Goto(j, "failed")
  /\ UNCHANGED <<now, names, status, ctxDone>>

(* The error path of the upload, at any of its steps.                       *)
GiveUpUpload(j) ==
  /\ RemoveDump(j)
  /\ RemoveArchive(j)
  /\ Goto(j, "failed")
  /\ Report(Failed)
  /\ UNCHANGED <<now, names, ctxDone>>

(* Mutant: the upload waits for its turn without a look at its context.     *)
UploadRefusedUnlessCancelled(j) ==
  /\ pc[j] = "verified"
  /\ ~ctxDone
  /\ GiveUpUpload(j)
  /\ UNCHANGED drive

(* No credentials, no archive, or a context that is done.                   *)
UploadRefused(j) ==
  /\ pc[j] = "verified"
  /\ GiveUpUpload(j)
  /\ UNCHANGED drive

(* Mutant: the error of the request is logged and forgotten.                *)
UploadFailIgnored(j) ==
  /\ pc[j] = "uploading"
  /\ Goto(j, "stored")
  /\ UNCHANGED <<now, names, files, drive, status, ctxDone>>

(* The request fails, or its answer is lost after Drive stored the file.    *)
UploadFail(j) ==
  /\ pc[j] = "uploading"
  /\ drive' \in {drive} \cup {drive \cup {r} : r \in Sent(j)}
  /\ GiveUpUpload(j)

Cleanup(j) ==
  /\ pc[j] = "stored"
  /\ RemoveDump(j)
  /\ RemoveArchive(j)
  /\ Goto(j, "cleaned")
  /\ UNCHANGED <<now, names, drive, status, ctxDone>>

ReportSuccess(j) ==
  /\ pc[j] = "cleaned"
  /\ Goto(j, "done")
  /\ Report(Success(arcAt[j]))
  /\ UNCHANGED <<now, names, files, drive, ctxDone>>

-----------------------------------------------------------------------------
(* The surroundings.                                                        *)

Tick ==
  /\ now < MaxTime
  /\ now' = now + 1
  /\ UNCHANGED <<pc, names, files, drive, status, ctxDone>>

(* A signal, Stop or Restart cancels the context of the jobs.               *)
CancelCtx ==
  /\ ~ctxDone
  /\ ctxDone' = TRUE
  /\ UNCHANGED <<pc, now, names, files, drive, status>>

(* Mutant: jobs use the variable ctx, which a restart replaces, instead of  *)
(* the context they were given.                                             *)
RenewCtx ==
  /\ ctxDone
  /\ ctxDone' = FALSE
  /\ UNCHANGED <<pc, now, names, files, drive, status>>

(* The process ends, killed or because main returned without waiting for    *)
(* its jobs, and is started again.  It is PID 1 of its container, so that   *)
(* its mongodump ends with it; the temporary directory stays.               *)
Die ==
  /\ Busy \/ ctxDone
  /\ pc' = [j \in Jobs |-> IF pc[j] \in Active THEN "lost" ELSE pc[j]]
  /\ torn' = [j \in Jobs |-> FALSE]
  /\ status' = Unknown
  /\ ctxDone' = FALSE
  /\ UNCHANGED <<now, names, dir, arc, drive>>

(* Every job has been used: the instance stops here.                        *)
AllEnded ==
  /\ \A j \in Jobs : pc[j] \in Ended
  /\ UNCHANGED vars

Refused(j) ==
  \/ NoTempDir(j) \/ NoMongodump(j) \/ NoDumpDir(j) \/ DumpRefused(j)
  \/ NoArchive(j) \/ CompressRefused(j) \/ UploadRefused(j)

Started(j) == DumpStart(j) \/ CompressStart(j) \/ UploadStart(j)

(* What the job does by itself, without waiting for another program.        *)
Local(j) ==
  \/ Preflight(j) \/ Started(j) \/ Refused(j)
  \/ CompressOk(j) \/ CompressFail(j) \/ VerifyOk(j) \/ VerifyFail(j)
  \/ Cleanup(j) \/ ReportSuccess(j)

(* What it does when mongodump or Drive answers.                            *)
Answered(j) == DumpOk(j) \/ DumpFail(j) \/ UploadOk(j) \/ UploadFail(j)

Next ==
  \/ Tick \/ CancelCtx \/ Die \/ AllEnded
  \/ \E j \in Jobs : Begin(j) \/ Local(j) \/ Answered(j)

(* A job goes on while it can.  Nothing bounds the time mongodump or Drive  *)
(* take, but a context that is done kills the one and aborts the other.     *)
Fairness ==
  \A j \in Jobs : /\ WF_vars(Local(j))
                  /\ WF_vars(ctxDone /\ Answered(j))

Spec == Init /\ [][Next]_vars

FairSpec == Spec /\ Fairness
-----------------------------------------------------------------------------
(* Properties.                                                              *)

Stored == {r.job : r \in drive}

(* A result shown as a success names a file that a job which ended well has *)
(* on Drive, whatever other jobs, cancellations and failures went before    *)
(* (main.go:76-102).                                                        *)
SuccessIsStored ==
  /\ \A j \in Jobs : pc[j] \in {"stored", "cleaned", "done"} => j \in Stored
  /\ status.state = "success" =>
       \E j \in Jobs : /\ pc[j] = "done"
                       /\ arcAt[j] = status.file
                       /\ \E r \in drive : r.job = j /\ r.name = status.file

(* Where the dump and the archive of a job may be.                          *)
HasDump == {"dumping", "dumped", "compressing", "packed", "verified",
            "uploading", "stored", "lost"}
HasArchive == {"compressing", "packed", "verified", "uploading", "stored",
               "stranded", "lost"}

(* The temporary directory holds nothing but what a job under way, one that *)
(* died with the process or one whose archiving failed has put there: no    *)
(* other path leaves a file behind, even when jobs share a path.            *)
FilesAreOwned ==
  ~RemovalMayFail =>
    \A s \in Stamps :
      /\ dir[s] # "absent" =>
           \E j \in Jobs : pc[j] \in HasDump /\ dumpAt[j] = s
      /\ arc[s] # "absent" =>
           \E j \in Jobs : pc[j] \in HasArchive /\ arcAt[j] = s

(* The dashboard shows "running" no longer than somebody is: of all the     *)
(* ways a job ends only the one without mongodump, before the job has made  *)
(* anything, leaves it there (main.go:35-104), and no report of a job that  *)
(* ends is hidden by an overlapping one that has ended before it.           *)
StatusSettles ==
  status = Running =>
    \/ Busy
    \/ \E j \in Jobs : pc[j] = "failed" /\ dumpAt[j] = NoStamp

(* A dump that may have been left in the directory job j dumps into: of the *)
(* same second, by a job that died or whose removal failed.                 *)
Inherits(j) ==
  \E k \in Others(j) :
    /\ dumpAt[k] = dumpAt[j]
    /\ pc[k] = "lost" \/ (RemovalMayFail /\ pc[k] \in Ended)

(* Without overlap a job that ends well has stored the whole database.      *)
(* MkdirAll (mongodb.go:59) accepts a directory that is there, mongodump    *)
(* does not empty it and the archiver packs all it finds (archive.go:56):   *)
(* what an earlier dump left may come along, but only one of the same       *)
(* second whose job died or could not remove it.  Leftover archives never   *)
(* do, and nothing is stored cut.                                           *)
SerialIntegrity ==
  ~Overlap =>
    \A j \in Jobs : pc[j] \in {"stored", "cleaned", "done"} =>
      \E r \in drive :
        /\ r.job = j /\ r.name = arcAt[j]
        /\ r.content = "full" \/ (r.content = "mixed" /\ Inherits(j))

(* A job whose context is cancelled before it has an archive stores nothing *)
(* any more: the stage under way may still succeed, the next one does not.  *)
CancelledStoresNothing ==
  \A j \in Jobs :
    [](ctxDone /\ pc[j] \in {"begun", "ready", "dumping", "dumped"}
         => [](j \notin Stored))

(* After the cancellation every job ends.                                   *)
CancelledJobsEnd ==
  \A j \in Jobs : (ctxDone /\ pc[j] \in Active) ~> (pc[j] \in Ended)

outcome ==
  [j \in Jobs |-> CASE pc[j] = "idle" -> "waiting"
                    [] pc[j] \in Active -> "running"
                    [] pc[j] = "done" -> "succeeded"
                    [] OTHER -> "failed"]

Promise == INSTANCE BackupPromise WITH stored <- Stored

(* The job keeps the promise of BackupPromise.                              *)
KeepsPromise == Promise!Spec
=============================================================================
