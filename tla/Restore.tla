------------------------------- MODULE Restore -------------------------------
(***************************************************************************)
(* Restore of internal/restore/restore.go and the handler that calls it,   *)
(* with the Download of internal/drive/drive.go.  Restores are requests of *)
(* the dashboard, which run concurrently, each under context.Background(): *)
(* nothing cancels one, and the process may end in the middle of it.       *)
(*                                                                         *)
(* Each restore has a workspace of its own in the temporary directory.     *)
(* mongorestore --drop takes the collections it finds one by one: it drops *)
(* one and then fills it, and several at a time.  The target database is   *)
(* the set of Drive files whose documents each collection holds.           *)
(***************************************************************************)
EXTENDS DumpLayout

CONSTANTS Restores,        \* the restore requests
          Workspaces,      \* the names os.MkdirTemp may choose
          Files,           \* the backups on Drive
          Archives,        \* what a backup on Drive may contain
          Drives,          \* the contents of Drive that a run begins with
          Dumps,           \* the trees that mongodump may leave
          Databases,       \* the names a request may give
          Collections      \* the names of the collections' files

Before == "what was there before"
NoFile == "no file"
NoName == "no name"

ASSUME ArchiveAssumption == \A a \in Archives : IsArchive(a)
ASSUME DumpAssumption == \A tree \in Dumps : IsDump(tree)
ASSUME DriveAssumption == Drives \subseteq [Files -> Archives]
ASSUME SourceAssumption == Before \notin Files /\ NoFile \notin Files

VARIABLES pc,       \* how far each restore is
          req,      \* what each one asks for
          ws,       \* the workspace of each one
          box,      \* what is in each workspace
          kept,     \* the workspaces whose removal has failed
          target,   \* the collections on the MongoDB server
          toDrop,   \* what mongorestore has still to drop
          toFill,   \* what it has dropped and not filled yet
          sole,     \* has no other mongorestore run since this one began?
          drive     \* what is on Drive

job == <<pc, req, ws>>
disk == <<box, kept>>
db == <<target, toDrop, toFill, sole>>
vars == <<job, disk, db, drive>>

Active == {"downloading", "downloaded", "extracted", "restoring"}
Ended == {"done", "failed", "dead"}
Loading == {"restoring", "orphan"}     \* where a mongorestore runs

NoRequest == [file |-> NoFile, database |-> NoName]
Requests == [file : Files, database : Databases]

Absent == [exists |-> FALSE, file |-> NoFile, tree |-> Empty]
Fresh == [Absent EXCEPT !.exists = TRUE]

Trees == {Empty} \cup {Extract(a) : a \in Archives}

TypeOK ==
  /\ pc \in [Restores -> {"idle", "orphan"} \cup Active \cup Ended]
  /\ req \in [Restores -> Requests \cup {NoRequest}]
  /\ ws \in [Restores -> Workspaces \cup {NoName}]
  /\ box \in [Workspaces -> [exists : BOOLEAN, file : Files \cup {NoFile},
                             tree : Trees]]
  /\ kept \in SUBSET Workspaces
  /\ target \in [Databases -> [Collections -> SUBSET (Files \cup {Before})]]
  /\ toDrop \in [Restores -> SUBSET Collections]
  /\ toFill \in [Restores -> SUBSET Collections]
  /\ sole \in [Restores -> BOOLEAN]
  /\ drive \in Drives

Init ==
  /\ pc = [r \in Restores |-> "idle"]
  /\ req = [r \in Restores |-> NoRequest]
  /\ ws = [r \in Restores |-> NoName]
  /\ box = [w \in Workspaces |-> Absent]
  /\ kept = {}
  /\ target = [d \in Databases |-> [c \in Collections |-> {Before}]]
  /\ toDrop = [r \in Restores |-> {}]
  /\ toFill = [r \in Restores |-> {}]
  /\ sole = [r \in Restores |-> FALSE]
  /\ drive \in Drives

-----------------------------------------------------------------------------
(* Where a restore is, and how it ends.                                     *)

Goto(r, place) == pc' = [pc EXCEPT ![r] = place]

Tree(r) == box[ws[r]].tree
Found(r) == FindDatabaseDir(Tree(r), req[r].database)
Held(r) == CollectionsIn(Tree(r), Found(r), Collections)

(* Mutant: the removal is not deferred, and a failure returns without it.   *)
EndUntidily(after, r, place) ==
  /\ Goto(r, place)
  /\ box' = IF place = "done" THEN [after EXCEPT ![ws[r]] = Absent] ELSE after
  /\ UNCHANGED kept

(* Return, and the deferred os.RemoveAll of the workspace: nobody looks at  *)
(* its error.  after is what the workspaces hold by then.                   *)
EndWith(after, r, place) ==
  /\ Goto(r, place)
  /\ \/ /\ box' = [after EXCEPT ![ws[r]] = Absent]
        /\ UNCHANGED kept
     \/ /\ box' = after
        /\ kept' = kept \cup {ws[r]}

End(r, place) == EndWith(box, r, place)

(* mongorestore is no more: what it has not done stays as it is.            *)
Forget(R) ==
  /\ toDrop' = [r \in Restores |-> IF r \in R THEN {} ELSE toDrop[r]]
  /\ toFill' = [r \in Restores |-> IF r \in R THEN {} ELSE toFill[r]]

Other(r) == Restores \ {r}

-----------------------------------------------------------------------------
(* A request, up to the extracted archive.                                  *)

(* A field or the confirmation is missing, the name is not one, there is no *)
(* mongorestore, or no directory can be made.                               *)
Refuse(r) ==
  /\ pc[r] = "idle"
  /\ Goto(r, "failed")
  /\ UNCHANGED <<req, ws, disk, db, drive>>

(* os.MkdirTemp makes a directory that did not exist.                       *)
MkdirTemp(r) ==
  \E w \in Workspaces :
    /\ ~box[w].exists
    /\ ws' = [ws EXCEPT ![r] = w]
    /\ box' = [box EXCEPT ![w] = Fresh]
    /\ UNCHANGED kept

(* Mutant: the database's name is not asked for.                            *)
BeginNameless(r) ==
  /\ pc[r] = "idle"
  /\ MkdirTemp(r)
  /\ \E f \in Files :
       req' = [req EXCEPT ![r] = [file |-> f, database |-> NoName]]
  /\ Goto(r, "downloading")
  /\ UNCHANGED <<db, drive>>

Begin(r) ==
  /\ pc[r] = "idle"
  /\ MkdirTemp(r)
  /\ \E q \in Requests : req' = [req EXCEPT ![r] = q]
  /\ Goto(r, "downloading")
  /\ UNCHANGED <<db, drive>>

Download(r) ==
  /\ pc[r] = "downloading"
  /\ box' = [box EXCEPT ![ws[r]].file = req[r].file]
  /\ Goto(r, "downloaded")
  /\ UNCHANGED <<req, ws, kept, db, drive>>

(* No token, no such file, a connection that breaks.                        *)
DownloadFails(r) ==
  /\ pc[r] = "downloading"
  /\ End(r, "failed")
  /\ UNCHANGED <<req, ws, db, drive>>

(* The archive is unpacked beside itself.  An empty download cannot be.     *)
ExtractArchive(r) ==
  /\ pc[r] = "downloaded"
  /\ LET tree == Extract(drive[box[ws[r]].file])
         after == [box EXCEPT ![ws[r]].tree = tree]
     IN  \/ /\ tree.ok
            /\ box' = after
            /\ Goto(r, "extracted")
            /\ UNCHANGED kept
         \/ /\ ~tree.ok
            /\ EndWith(after, r, "failed")
  /\ UNCHANGED <<req, ws, db, drive>>

(* The disk is full.                                                        *)
ExtractFails(r) ==
  /\ pc[r] = "downloaded"
  /\ End(r, "failed")
  /\ UNCHANGED <<req, ws, db, drive>>

-----------------------------------------------------------------------------
(* mongorestore.                                                            *)

(* The archive does not hold the database, or holds it twice.               *)
NotInBackup(r) ==
  /\ pc[r] = "extracted"
  /\ Found(r) = NotFound
  /\ End(r, "failed")
  /\ UNCHANGED <<req, ws, db, drive>>

StartMongorestore(r) ==
  /\ pc[r] = "extracted"
  /\ Found(r) # NotFound
  /\ toDrop' = [toDrop EXCEPT ![r] = Held(r)]
  /\ sole' = [k \in Restores |-> /\ k = r
                                 /\ \A o \in Other(r) : pc[o] \notin Loading]
  /\ Goto(r, "restoring")
  /\ UNCHANGED <<req, ws, disk, target, toFill, drive>>

Drop(r, c) ==
  /\ pc[r] \in Loading
  /\ c \in toDrop[r]
  /\ target' = [target EXCEPT ![req[r].database][c] = {}]
  /\ toDrop' = [toDrop EXCEPT ![r] = @ \ {c}]
  /\ toFill' = [toFill EXCEPT ![r] = @ \cup {c}]
  /\ UNCHANGED <<job, disk, sole, drive>>

(* The documents come from the files in the workspace.                      *)
Fill(r, c) ==
  /\ pc[r] \in Loading
  /\ c \in toFill[r]
  /\ c \in Held(r)
  /\ target' = [target EXCEPT ![req[r].database][c] = @ \cup {box[ws[r]].file}]
  /\ toFill' = [toFill EXCEPT ![r] = @ \ {c}]
  /\ UNCHANGED <<job, disk, toDrop, sole, drive>>

MongorestoreOk(r) ==
  /\ pc[r] = "restoring"
  /\ toDrop[r] = {} /\ toFill[r] = {}
  /\ End(r, "done")
  /\ UNCHANGED <<req, ws, db, drive>>

(* Mutant: the exit code of mongorestore is not looked at.                  *)
MongorestoreFailsUnseen(r) ==
  /\ pc[r] = "restoring"
  /\ End(r, "done")
  /\ Forget({r})
  /\ UNCHANGED <<req, ws, target, sole, drive>>

(* Wherever it is, it may lose its server, or a file it needs.              *)
MongorestoreFails(r) ==
  /\ pc[r] = "restoring"
  /\ End(r, "failed")
  /\ Forget({r})
  /\ UNCHANGED <<req, ws, target, sole, drive>>

-----------------------------------------------------------------------------
(* The process ends: Shutdown waits ten seconds for its requests, and a     *)
(* kill for nothing.  Workspaces stay.  A mongorestore under way dies too   *)
(* where the process is PID 1 of its container, and goes on elsewhere.      *)
Die ==
  /\ \E orphans \in SUBSET {r \in Restores : pc[r] = "restoring"} :
       LET lost == {r \in Restores : pc[r] \in Active} \ orphans
       IN  /\ pc' = [r \in Restores |-> IF r \in orphans THEN "orphan"
                                        ELSE IF r \in lost THEN "dead" ELSE pc[r]]
           /\ Forget(lost)
  /\ UNCHANGED <<req, ws, disk, target, sole, drive>>

OrphanEnds(r) ==
  /\ pc[r] = "orphan"
  /\ Goto(r, "dead")
  /\ Forget({r})
  /\ UNCHANGED <<req, ws, disk, target, sole, drive>>

Next ==
  \/ Die
  \/ \E r \in Restores :
       \/ Refuse(r) \/ Begin(r)
       \/ Download(r) \/ DownloadFails(r)
       \/ ExtractArchive(r) \/ ExtractFails(r)
       \/ NotInBackup(r) \/ StartMongorestore(r)
       \/ MongorestoreOk(r) \/ MongorestoreFails(r) \/ OrphanEnds(r)
       \/ \E c \in Collections : Drop(r, c) \/ Fill(r, c)

Spec == Init /\ [][Next]_vars
-----------------------------------------------------------------------------
(* Properties.                                                              *)

(* What a restore asks for, told from the program's own reading of it.      *)
Backup(r) == Extract(drive[req[r].file])
Content(r) ==
  CollectionsIn(Backup(r), FindDatabaseDir(Backup(r), req[r].database), Collections)

(* A collection is dropped or filled only for a restore whose archive was   *)
(* whole and named it: a backup that is cut short or does not hold the      *)
(* database costs the target nothing (restore.go:72-78 before :83).         *)
NothingLostToABadBackup ==
  \A d \in Databases, c \in Collections :
    target[d][c] # {Before} =>
      \E r \in Restores :
        /\ pc[r] \in Loading \cup Ended
        /\ req[r] # NoRequest
        /\ req[r].database = d
        /\ drive[req[r].file].whole
        /\ c \in Content(r)

(* "restore completed" (restore_handlers.go:38) means that every collection *)
(* of the backup is in the target as the backup has it, if no other         *)
(* mongorestore has run since this one began: whatever earlier restores,    *)
(* failed or lost with the process, have left in the temporary directory or *)
(* in the target.                                                           *)
SuccessMeansRestored ==
  \A r \in Restores :
    pc[r] = "done" /\ sole[r] =>
      \A c \in Content(r) : target[req[r].database][c] = {req[r].file}

(* A workspace is left behind only by a restore that died with the process, *)
(* or when it could not be removed (restore.go:52), and no two restores     *)
(* share one.                                                               *)
WorkspacesAreOwned ==
  LET uses(r) == pc[r] \in Active \cup {"orphan", "dead"}
  IN  /\ \A w \in Workspaces : box[w].exists =>
           w \in kept \/ \E r \in Restores : ws[r] = w /\ uses(r)
      /\ \A q, r \in Restores : q # r /\ uses(q) /\ uses(r) => ws[q] # ws[r]

(* A restore finds the one directory of that name: at the top of the        *)
(* archive, or else, unless dump files are there, below it; and in it the   *)
(* collections the archive has there (restore.go:93-127, README.md:89).     *)
FindsTheDatabase ==
  \A r \in Restores :
    pc[r] \in {"extracted"} \cup Loading =>
      LET archive == drive[req[r].file]
          places == Places(archive, req[r].database)
          top == <<req[r].database>>
          flat == \E n \in DumpFiles : Says(archive, <<n>>)
      IN  /\ Found(r).flat <=> top \notin places /\ flat
          /\ Found(r) = NotFound <=> top \notin places /\ ~flat /\ Cardinality(places) # 1
          /\ Found(r).dir # <<>> => Found(r).dir = top \/ places = {Found(r).dir}
          /\ top \in places => Found(r).dir = top
          /\ Held(r) = {c \in Collections : Says(archive, Append(Found(r).dir, c))}

(* What was dumped comes back: the program's own backup of a database is    *)
(* unpacked and found, and a success, unless another mongorestore has run   *)
(* since this one began, puts back each collection that the dump had        *)
(* (archive.go:56-98 against restore.go:142-196).                           *)
OwnBackups == [tree \in Dumps |-> [entries |-> Compress(tree), whole |-> TRUE]]

DumpsComeBack ==
  \A r \in Restores, tree \in Dumps :
    LET dir == <<req[r].database>>
    IN  req[r] # NoRequest /\ drive[req[r].file] = OwnBackups[tree] /\ dir \in tree.dirs =>
          /\ pc[r] = "downloaded" => Backup(r).ok
          /\ pc[r] = "extracted" => Found(r) # NotFound
          /\ pc[r] = "done" /\ sole[r] =>
               \A c \in Collections : Append(dir, c) \in tree.files =>
                 target[req[r].database][c] = {req[r].file}

(* Nothing is unpacked outside of the workspace (README.md:89).             *)
StaysInside ==
  \A w \in Workspaces :
    \A p \in box[w].tree.dirs \cup box[w].tree.files :
      p # <<>> /\ ToSet(p) \cap {".", "..", "/"} = {}

(* What the documents say and the code does not do (see README.md).         *)

(* README.md: matching collections are replaced before the import, so that  *)
(* after restores that all succeeded each holds the documents of one.       *)
CollectionsAreReplaced ==
  (\A r \in Restores : pc[r] \in {"idle", "done"}) =>
    \A d \in Databases, c \in Collections : Cardinality(target[d][c]) <= 1
=============================================================================
