---------------------------- MODULE RestoreProofs ----------------------------
(***************************************************************************)
(* Theorems about restores: for any number of requests, workspaces and     *)
(* collections, and whatever archives are on Drive.                        *)
(***************************************************************************)
EXTENDS Restore, DumpLayoutProofs, TLAPS

Housed == Active \cup {"orphan", "dead"}     \* restores with a workspace
Unpacked == {"extracted"} \cup Loading

Asked == \A r \in Restores : pc[r] \in Housed \cup {"done"} => req[r] \in Requests

HousesExist ==
  \A r \in Restores :
    pc[r] \in Housed => ws[r] \in Workspaces /\ box[ws[r]].exists

(* What a workspace holds is what its restore has put there.                *)
FileIsThere ==
  \A r \in Restores :
    pc[r] \in {"downloaded"} \cup Unpacked => box[ws[r]].file = req[r].file

TreeIsThere ==
  \A r \in Restores :
    pc[r] \in Unpacked => Tree(r) = Backup(r) /\ Backup(r).ok

(* mongorestore has to do with the content of its backup only.              *)
DoesContent ==
  \A r \in Restores :
    toDrop[r] \cup toFill[r] # {} =>
      pc[r] \in Loading /\ toDrop[r] \cup toFill[r] \subseteq Content(r)

Alone ==
  \A r \in Restores : sole[r] => \A o \in Other(r) : pc[o] \notin Loading

(* Of a restore that is alone, each collection is still to be dropped, or   *)
(* is empty and still to be filled, or is what it should be.                *)
OnItsWay ==
  \A r \in Restores :
    sole[r] /\ pc[r] \in Loading \cup {"done"} =>
      \A c \in Content(r) :
        \/ c \in toDrop[r]
        \/ c \in toFill[r] /\ target[req[r].database][c] = {}
        \/ target[req[r].database][c] = {req[r].file}

IInv ==
  /\ TypeOK /\ Asked /\ HousesExist /\ WorkspacesAreOwned
  /\ FileIsThere /\ TreeIsThere /\ DoesContent
  /\ NothingLostToABadBackup /\ Alone /\ OnItsWay
-----------------------------------------------------------------------------
(* Facts about the parts of a step.                                         *)

LEMMA DriveHasArchives ==
  ASSUME drive \in Drives, NEW f \in Files
  PROVE  drive[f] \in Archives
  BY DriveAssumption

LEMMA HeldAreCollections == \A r \in Restores : Held(r) \subseteq Collections
  BY DEF Held, CollectionsIn

LEMMA OkMeansWhole == \A a \in Archives : Extract(a).ok => a.whole
  BY DEF Extract, TreeOf

(* After the end of a restore a workspace is as it was, or is that          *)
(* restore's and has been removed.                                          *)
LEMMA EndChangesOne ==
  ASSUME TypeOK, NEW r \in Restores, NEW place, EndWith(box, r, place)
  PROVE  \A w \in Workspaces : box'[w] = box[w] \/ (w = ws[r] /\ box'[w] = Absent)
  BY DEF TypeOK, EndWith

-----------------------------------------------------------------------------
(* Types.                                                                   *)

LEMMA InitTypes == Init => TypeOK
  BY DEF Init, TypeOK, Absent, Trees

Boxes == [exists : BOOLEAN, file : Files \cup {NoFile}, tree : Trees]

LEMMA EndTypes ==
  ASSUME TypeOK, NEW r \in Restores, NEW place \in {"done", "failed"},
         NEW after \in [Workspaces -> Boxes], EndWith(after, r, place)
  PROVE  /\ pc' \in [Restores -> {"idle", "orphan"} \cup Active \cup Ended]
         /\ box' \in [Workspaces -> Boxes]
         /\ ws[r] \in Workspaces => kept' \in SUBSET Workspaces
<1>1. Absent \in Boxes
  BY DEF Absent, Boxes, Trees
<1>2. QED
  BY <1>1 DEF TypeOK, EndWith, Goto, Ended

LEMMA ExtractedIsBox ==
  ASSUME TypeOK, Asked, FileIsThere, NEW r \in Restores, ExtractArchive(r)
  PROVE  [box EXCEPT ![ws[r]].tree = Extract(drive[box[ws[r]].file])]
           \in [Workspaces -> Boxes]
<1>1. box[ws[r]].file \in Files
  BY DEF ExtractArchive, Asked, FileIsThere, Housed, Active, Requests
<1>2. Extract(drive[box[ws[r]].file]) \in Trees
  BY <1>1, DriveHasArchives DEF TypeOK, Trees
<1>3. QED
  BY <1>2 DEF TypeOK, Boxes

LEMMA StepTypes ==
  ASSUME TypeOK, Asked, HousesExist, FileIsThere, [Next]_vars
  PROVE  TypeOK'
<1> USE DEF Boxes
<1>1. CASE UNCHANGED vars
  BY <1>1 DEF TypeOK, vars, job, disk, db
<1>2. CASE Die
  BY <1>2 DEF TypeOK, Die, Forget, Ended, disk
<1>3. ASSUME NEW r \in Restores, Refuse(r) PROVE TypeOK'
  BY <1>3 DEF TypeOK, Refuse, Goto, Ended, disk, db
<1>4. ASSUME NEW r \in Restores, Begin(r) PROVE TypeOK'
  <2>1. Fresh \in Boxes
    BY DEF Fresh, Absent, Trees
  <2>2. QED
    BY <1>4, <2>1 DEF TypeOK, Begin, MkdirTemp, Goto, Active, db
<1>5. ASSUME NEW r \in Restores, Download(r) PROVE TypeOK'
  <2>1. req[r].file \in Files
    BY <1>5 DEF Download, Asked, Housed, Active, Requests
  <2>2. QED
    BY <1>5, <2>1 DEF TypeOK, Download, Goto, Active, db
<1>6. ASSUME NEW r \in Restores,
             DownloadFails(r) \/ ExtractFails(r) \/ NotInBackup(r) \/ MongorestoreOk(r)
      PROVE TypeOK'
  <2>1. EndWith(box, r, "failed") \/ EndWith(box, r, "done")
    BY <1>6 DEF DownloadFails, ExtractFails, NotInBackup, MongorestoreOk, End
  <2>2. ws[r] \in Workspaces
    BY <1>6 DEF DownloadFails, ExtractFails, NotInBackup, MongorestoreOk,
                HousesExist, Housed, Active
  <2>3. /\ pc' \in [Restores -> {"idle", "orphan"} \cup Active \cup Ended]
        /\ box' \in [Workspaces -> Boxes] /\ kept' \in SUBSET Workspaces
    BY <2>1, <2>2, EndTypes DEF TypeOK
  <2>4. QED
    BY <1>6, <2>3 DEF TypeOK, DownloadFails, ExtractFails, NotInBackup,
                      MongorestoreOk, db
<1>7. ASSUME NEW r \in Restores, ExtractArchive(r) PROVE TypeOK'
  <2> DEFINE tree == Extract(drive[box[ws[r]].file])
             after == [box EXCEPT ![ws[r]].tree = tree]
  <2>2. after \in [Workspaces -> Boxes]
    BY <1>7, ExtractedIsBox
  <2>3. ws[r] \in Workspaces
    BY <1>7 DEF ExtractArchive, HousesExist, Housed, Active
  <2>4. CASE box' = after /\ Goto(r, "extracted") /\ UNCHANGED kept
    BY <1>7, <2>2, <2>4 DEF TypeOK, ExtractArchive, Goto, Active, db
  <2>5. CASE EndWith(after, r, "failed")
    <3>1. /\ pc' \in [Restores -> {"idle", "orphan"} \cup Active \cup Ended]
          /\ box' \in [Workspaces -> Boxes] /\ kept' \in SUBSET Workspaces
      BY <2>2, <2>3, <2>5, EndTypes
    <3>2. QED
      BY <1>7, <3>1 DEF TypeOK, ExtractArchive, db
  <2>6. QED
    BY <1>7, <2>4, <2>5 DEF ExtractArchive
<1>8. ASSUME NEW r \in Restores, StartMongorestore(r) PROVE TypeOK'
  BY <1>8, HeldAreCollections DEF TypeOK, StartMongorestore, Goto, Active, disk
<1>9. ASSUME NEW r \in Restores, MongorestoreFails(r) PROVE TypeOK'
  <2>1. ws[r] \in Workspaces
    BY <1>9 DEF MongorestoreFails, HousesExist, Housed, Active
  <2>2. /\ pc' \in [Restores -> {"idle", "orphan"} \cup Active \cup Ended]
        /\ box' \in [Workspaces -> Boxes] /\ kept' \in SUBSET Workspaces
    BY <1>9, <2>1, EndTypes DEF TypeOK, MongorestoreFails, End
  <2>3. QED
    BY <1>9, <2>2 DEF TypeOK, MongorestoreFails, Forget
<1>10. ASSUME NEW r \in Restores, OrphanEnds(r) PROVE TypeOK'
  BY <1>10 DEF TypeOK, OrphanEnds, Goto, Forget, Ended, disk
<1>11. ASSUME NEW r \in Restores, NEW c \in Collections, Drop(r, c) PROVE TypeOK'
  BY <1>11 DEF TypeOK, Drop, job, disk
<1>12. ASSUME NEW r \in Restores, NEW c \in Collections, Fill(r, c) PROVE TypeOK'
  <2>1. box[ws[r]].file \in Files
    BY <1>12 DEF Fill, Asked, FileIsThere, Housed, Unpacked, Loading, Active, Requests
  <2>2. QED
    BY <1>12, <2>1 DEF TypeOK, Fill, job, disk
<1>13. QED
  BY <1>1, <1>2, <1>3, <1>4, <1>5, <1>6, <1>7, <1>8, <1>9, <1>10, <1>11, <1>12
  DEF Next
-----------------------------------------------------------------------------
(* Workspaces.                                                              *)

LEMMA StepAsked ==
  ASSUME TypeOK, Asked, [Next]_vars
  PROVE  Asked'
<1> USE DEF Asked, Housed, Active
<1>1. CASE UNCHANGED vars
  BY <1>1 DEF vars, job
<1>2. CASE Die
  BY <1>2 DEF TypeOK, Die
<1>3. ASSUME NEW r \in Restores, Begin(r) PROVE Asked'
  BY <1>3 DEF TypeOK, Begin, Goto
<1>4. ASSUME NEW r \in Restores, NEW c \in Collections, Drop(r, c) \/ Fill(r, c)
      PROVE  Asked'
  BY <1>4 DEF Drop, Fill, job
<1>5. ASSUME NEW r \in Restores,
             Refuse(r) \/ Download(r) \/ StartMongorestore(r) \/ OrphanEnds(r)
      PROVE  Asked'
  BY <1>5 DEF TypeOK, Refuse, Download, StartMongorestore, OrphanEnds, Goto
<1>6. ASSUME NEW r \in Restores,
             \/ DownloadFails(r) \/ ExtractArchive(r) \/ ExtractFails(r)
             \/ NotInBackup(r) \/ MongorestoreOk(r) \/ MongorestoreFails(r)
      PROVE  Asked'
  BY <1>6 DEF TypeOK, DownloadFails, ExtractArchive, ExtractFails, NotInBackup,
              MongorestoreOk, MongorestoreFails, End, EndWith, Goto
<1>7. QED
  BY <1>1, <1>2, <1>3, <1>4, <1>5, <1>6 DEF Next

(* A restore that ends gives up its own workspace, whose files may stay.    *)
LEMMA EndKeepsHouses ==
  ASSUME TypeOK, HousesExist, WorkspacesAreOwned,
         NEW r \in Restores, pc[r] \in Active, NEW place \in {"done", "failed"},
         NEW after \in [Workspaces -> Boxes], EndWith(after, r, place),
         \A w \in Workspaces : after[w].exists = box[w].exists,
         ws' = ws
  PROVE  HousesExist' /\ WorkspacesAreOwned'
<1> USE DEF Housed, Active
<1>1. /\ pc' = [pc EXCEPT ![r] = place]
      /\ box' \in [Workspaces -> Boxes]
      /\ kept \subseteq kept'
      /\ ws[r] \in Workspaces
      /\ ~box'[ws[r]].exists \/ ws[r] \in kept'
      /\ \A w \in Workspaces \ {ws[r]} : box'[w].exists = box[w].exists
  <2>1. Absent \in Boxes /\ ~Absent.exists
    BY DEF Absent, Boxes, Trees
  <2>2. ws[r] \in Workspaces
    BY DEF HousesExist
  <2>3. QED
    BY <2>1, <2>2 DEF EndWith, Goto, TypeOK
<1>2. HousesExist'
  BY <1>1 DEF TypeOK, HousesExist, WorkspacesAreOwned
<1>3. WorkspacesAreOwned'
  <2>1. \A q \in Restores :
          /\ q # r => pc'[q] = pc[q]
          /\ pc'[q] \in Housed => q # r
    BY <1>1 DEF TypeOK
  <2>2. ASSUME NEW w \in Workspaces, box'[w].exists, w \notin kept'
        PROVE  \E q \in Restores : ws'[q] = w /\ pc'[q] \in Housed
    <3>1. box[w].exists /\ w \notin kept /\ w # ws[r]
      BY <1>1, <2>2
    <3>2. PICK q \in Restores : ws[q] = w /\ pc[q] \in Housed
      BY <3>1 DEF WorkspacesAreOwned
    <3>3. QED
      BY <2>1, <3>1, <3>2
  <2>3. \A p, q \in Restores :
          p # q /\ pc'[p] \in Housed /\ pc'[q] \in Housed => ws'[p] # ws'[q]
    BY <2>1 DEF WorkspacesAreOwned
  <2>4. QED
    BY <2>2, <2>3 DEF WorkspacesAreOwned
<1>4. QED
  BY <1>2, <1>3

LEMMA StepHouses ==
  ASSUME TypeOK, Asked, HousesExist, WorkspacesAreOwned, FileIsThere, [Next]_vars
  PROVE  HousesExist' /\ WorkspacesAreOwned'
<1> DEFINE Goal == HousesExist' /\ WorkspacesAreOwned'
<1> USE DEF Housed, Active
<1>1. CASE UNCHANGED vars
  BY <1>1 DEF vars, job, disk, HousesExist, WorkspacesAreOwned
<1>2. CASE Die
  BY <1>2 DEF TypeOK, Die, disk, HousesExist, WorkspacesAreOwned
<1>3. ASSUME NEW r \in Restores, Begin(r) PROVE Goal
  <2>1. PICK w \in Workspaces :
          /\ ~box[w].exists
          /\ ws' = [ws EXCEPT ![r] = w] /\ box' = [box EXCEPT ![w] = Fresh]
          /\ kept' = kept
    BY <1>3 DEF Begin, MkdirTemp
  <2>2. Fresh.exists
    BY DEF Fresh, Absent
  <2>3. pc' = [pc EXCEPT ![r] = "downloading"]
    BY <1>3 DEF Begin, Goto
  <2>4. HousesExist'
    BY <2>1, <2>2, <2>3 DEF TypeOK, HousesExist
  <2>5. WorkspacesAreOwned'
    <3>1. \A v \in Workspaces : box'[v].exists => v = w \/ box[v].exists
      BY <2>1 DEF TypeOK
    <3>2. \A q \in Restores : pc[q] \in Housed => ws[q] # w
      BY <2>1 DEF HousesExist
    <3>3. QED
      BY <1>3, <2>1, <2>3, <3>1, <3>2 DEF TypeOK, Begin, WorkspacesAreOwned
  <2>6. QED
    BY <2>4, <2>5
<1>4. ASSUME NEW r \in Restores, NEW c \in Collections, Drop(r, c) \/ Fill(r, c)
      PROVE  Goal
  BY <1>4 DEF Drop, Fill, job, disk, HousesExist, WorkspacesAreOwned
<1>5. ASSUME NEW r \in Restores, Refuse(r) \/ StartMongorestore(r) \/ OrphanEnds(r)
      PROVE  Goal
  BY <1>5 DEF TypeOK, Refuse, StartMongorestore, OrphanEnds, Goto, disk,
              HousesExist, WorkspacesAreOwned
<1>6. ASSUME NEW r \in Restores, Download(r) PROVE Goal
  <2>1. \A w \in Workspaces : box'[w].exists = box[w].exists
    BY <1>6 DEF Download, TypeOK
  <2>2. QED
    BY <1>6, <2>1 DEF Download, Goto, TypeOK, HousesExist, WorkspacesAreOwned
<1>7. ASSUME NEW r \in Restores,
             \/ DownloadFails(r) \/ ExtractFails(r) \/ NotInBackup(r)
             \/ MongorestoreOk(r) \/ MongorestoreFails(r)
      PROVE  Goal
  <2>1. /\ pc[r] \in Active /\ ws' = ws
        /\ EndWith(box, r, "failed") \/ EndWith(box, r, "done")
    BY <1>7 DEF DownloadFails, ExtractFails, NotInBackup, MongorestoreOk,
                MongorestoreFails, End
  <2>2. QED
    BY <2>1, EndKeepsHouses DEF TypeOK, Boxes
<1>8. ASSUME NEW r \in Restores, ExtractArchive(r) PROVE Goal
  <2> DEFINE tree == Extract(drive[box[ws[r]].file])
             after == [box EXCEPT ![ws[r]].tree = tree]
  <2>1. after \in [Workspaces -> Boxes]
    BY <1>8, ExtractedIsBox
  <2>2. \A w \in Workspaces : after[w].exists = box[w].exists
    BY DEF TypeOK
  <2>3. CASE box' = after /\ Goto(r, "extracted") /\ UNCHANGED kept
    BY <1>8, <2>2, <2>3 DEF ExtractArchive, Goto, TypeOK, HousesExist, WorkspacesAreOwned
  <2>4. CASE EndWith(after, r, "failed")
    BY <1>8, <2>1, <2>2, <2>4, EndKeepsHouses DEF ExtractArchive
  <2>5. QED
    BY <1>8, <2>3, <2>4 DEF ExtractArchive
<1>9. QED
  BY <1>1, <1>2, <1>3, <1>4, <1>5, <1>6, <1>7, <1>8 DEF Next
-----------------------------------------------------------------------------
(* What workspaces hold.                                                    *)

HoldsItsOwn == FileIsThere /\ TreeIsThere

(* The restores that have a workspace and go on keep what is in it, unless  *)
(* the step writes to it.                                                   *)
LEMMA Untouched ==
  ASSUME TypeOK, HousesExist, WorkspacesAreOwned, HoldsItsOwn,
         NEW r \in Restores, req' = req, ws' = ws, drive' = drive,
         \A q \in Other(r) : pc'[q] \in {"downloaded"} \cup Unpacked => pc[q] = pc'[q],
         pc'[r] \notin {"downloaded"} \cup Unpacked,
         \A w \in Workspaces \ {ws[r]} : box'[w] = box[w], ws[r] \in Workspaces,
         pc[r] \in Housed
  PROVE  HoldsItsOwn'
<1>1. ASSUME NEW q \in Restores, pc'[q] \in {"downloaded"} \cup Unpacked
      PROVE  /\ pc[q] = pc'[q] /\ box'[ws'[q]] = box[ws[q]]
             /\ req'[q] = req[q] /\ ws'[q] = ws[q]
  <2>1. q \in Other(r) /\ pc[q] = pc'[q]
    BY <1>1 DEF Other
  <2>2. pc[q] \in Housed
    BY <1>1, <2>1 DEF Housed, Unpacked, Loading, Active
  <2>3. ws[q] \in Workspaces \ {ws[r]}
    BY <2>1, <2>2 DEF HousesExist, WorkspacesAreOwned, Housed, Other
  <2>4. QED
    BY <2>1, <2>3
<1>2. FileIsThere'
  BY <1>1 DEF FileIsThere, HoldsItsOwn
<1>3. TreeIsThere'
  BY <1>1 DEF TreeIsThere, HoldsItsOwn, Tree, Backup, Unpacked
<1>4. QED
  BY <1>2, <1>3 DEF HoldsItsOwn

LEMMA StepHolds ==
  ASSUME TypeOK, Asked, HousesExist, WorkspacesAreOwned, HoldsItsOwn, [Next]_vars
  PROVE  HoldsItsOwn'
<1> USE DEF Unpacked, Loading
<1>1. CASE UNCHANGED vars
  BY <1>1 DEF vars, job, disk, HoldsItsOwn, FileIsThere, TreeIsThere, Tree, Backup
<1>2. CASE Die
  BY <1>2 DEF TypeOK, Die, disk, Active, HoldsItsOwn, FileIsThere, TreeIsThere,
              Tree, Backup
<1>3. ASSUME NEW r \in Restores, Begin(r) PROVE HoldsItsOwn'
  <2>1. PICK w \in Workspaces :
          ~box[w].exists /\ ws' = [ws EXCEPT ![r] = w] /\ box' = [box EXCEPT ![w] = Fresh]
    BY <1>3 DEF Begin, MkdirTemp
  <2>2. PICK a \in Requests : req' = [req EXCEPT ![r] = a]
    BY <1>3 DEF Begin
  <2>3. pc' = [pc EXCEPT ![r] = "downloading"] /\ drive' = drive
    BY <1>3 DEF Begin, Goto
  <2>4. ASSUME NEW q \in Restores, pc'[q] \in {"downloaded"} \cup Unpacked
        PROVE  /\ pc[q] = pc'[q] /\ box'[ws'[q]] = box[ws[q]]
               /\ req'[q] = req[q] /\ ws'[q] = ws[q]
    <3>1. q # r /\ pc[q] = pc'[q]
      BY <2>3, <2>4 DEF TypeOK
    <3>2. ws[q] \in Workspaces /\ box[ws[q]].exists
      BY <2>4, <3>1 DEF HousesExist, Housed, Active
    <3>3. QED
      BY <2>1, <2>2, <3>1, <3>2 DEF TypeOK
  <2>5. QED
    BY <2>3, <2>4 DEF HoldsItsOwn, FileIsThere, TreeIsThere, Tree, Backup
<1>4. ASSUME NEW r \in Restores, NEW c \in Collections, Drop(r, c) \/ Fill(r, c)
      PROVE  HoldsItsOwn'
  BY <1>4 DEF Drop, Fill, job, disk, HoldsItsOwn, FileIsThere, TreeIsThere, Tree, Backup
<1>5. ASSUME NEW r \in Restores, Refuse(r) \/ StartMongorestore(r) \/ OrphanEnds(r)
      PROVE  HoldsItsOwn'
  BY <1>5 DEF TypeOK, Refuse, StartMongorestore, OrphanEnds, Goto, disk,
              HoldsItsOwn, FileIsThere, TreeIsThere, Tree, Backup
<1>6. ASSUME NEW r \in Restores, Download(r) PROVE HoldsItsOwn'
  <2>1. /\ pc' = [pc EXCEPT ![r] = "downloaded"]
        /\ box' = [box EXCEPT ![ws[r]].file = req[r].file]
        /\ req' = req /\ ws' = ws /\ drive' = drive /\ pc[r] = "downloading"
    BY <1>6 DEF Download, Goto
  <2>2. ws[r] \in Workspaces
    BY <2>1 DEF HousesExist, Housed, Active
  <2>3. box'[ws[r]].file = req[r].file
    BY <2>1, <2>2 DEF TypeOK
  <2>4. ASSUME NEW q \in Other(r), pc'[q] \in {"downloaded"} \cup Unpacked
        PROVE  pc[q] = pc'[q] /\ box'[ws[q]] = box[ws[q]]
    <3>1. pc[q] = pc'[q]
      BY <2>1 DEF TypeOK, Other
    <3>2. ws[q] # ws[r]
      BY <2>1, <2>4, <3>1 DEF WorkspacesAreOwned, Active, Other
    <3>3. QED
      BY <2>1, <3>1, <3>2 DEF TypeOK
  <2>5. FileIsThere'
    BY <2>1, <2>3, <2>4 DEF HoldsItsOwn, FileIsThere, Other, TypeOK
  <2>6. TreeIsThere'
    BY <2>1, <2>4 DEF HoldsItsOwn, TreeIsThere, Tree, Backup, Other, TypeOK
  <2>7. QED
    BY <2>5, <2>6 DEF HoldsItsOwn
<1>7. ASSUME NEW r \in Restores,
             \/ DownloadFails(r) \/ ExtractFails(r) \/ NotInBackup(r)
             \/ MongorestoreOk(r) \/ MongorestoreFails(r)
      PROVE  HoldsItsOwn'
  <2>1. /\ pc[r] \in Active /\ ws' = ws /\ req' = req /\ drive' = drive
        /\ EndWith(box, r, "failed") \/ EndWith(box, r, "done")
    BY <1>7 DEF DownloadFails, ExtractFails, NotInBackup, MongorestoreOk,
                MongorestoreFails, End, Active
  <2>2. /\ pc' = [pc EXCEPT ![r] = "failed"] \/ pc' = [pc EXCEPT ![r] = "done"]
        /\ \A w \in Workspaces \ {ws[r]} : box'[w] = box[w]
    BY <2>1 DEF EndWith, Goto, TypeOK
  <2>3. ws[r] \in Workspaces
    BY <2>1 DEF HousesExist, Housed
  <2>4. QED
    BY <2>1, <2>2, <2>3, Untouched DEF TypeOK, Other, Housed
<1>8. ASSUME NEW r \in Restores, ExtractArchive(r) PROVE HoldsItsOwn'
  <2> DEFINE tree == Extract(drive[box[ws[r]].file])
             after == [box EXCEPT ![ws[r]].tree = tree]
  <2>1. /\ pc[r] = "downloaded" /\ ws' = ws /\ req' = req /\ drive' = drive
        /\ ws[r] \in Workspaces /\ box[ws[r]].file = req[r].file
    BY <1>8 DEF ExtractArchive, HousesExist, Housed, Active, HoldsItsOwn, FileIsThere
  <2>2. CASE tree.ok /\ box' = after /\ Goto(r, "extracted")
    <3>1. pc' = [pc EXCEPT ![r] = "extracted"]
      BY <2>2 DEF Goto
    <3>2. /\ box'[ws[r]].file = req[r].file
          /\ box'[ws[r]].tree = Extract(drive[req[r].file])
          /\ Extract(drive[req[r].file]).ok
      BY <2>1, <2>2 DEF TypeOK
    <3>3. ASSUME NEW q \in Other(r), pc'[q] \in {"downloaded"} \cup Unpacked
          PROVE  pc[q] = pc'[q] /\ box'[ws[q]] = box[ws[q]]
      <4>1. pc[q] = pc'[q]
        BY <3>1 DEF TypeOK, Other
      <4>2. ws[q] # ws[r]
        BY <2>1, <3>3, <4>1 DEF WorkspacesAreOwned, Active, Other
      <4>3. QED
        BY <2>2, <4>1, <4>2 DEF TypeOK
    <3>4. FileIsThere'
      BY <2>1, <3>1, <3>2, <3>3 DEF HoldsItsOwn, FileIsThere, Other, TypeOK
    <3>5. TreeIsThere'
      BY <2>1, <3>1, <3>2, <3>3 DEF HoldsItsOwn, TreeIsThere, Tree, Backup, Other, TypeOK
    <3>6. QED
      BY <3>4, <3>5 DEF HoldsItsOwn
  <2>3. CASE EndWith(after, r, "failed")
    <3>1. /\ pc' = [pc EXCEPT ![r] = "failed"]
          /\ \A w \in Workspaces \ {ws[r]} : box'[w] = box[w]
      BY <2>1, <2>3 DEF EndWith, Goto, TypeOK
    <3>2. QED
      BY <2>1, <3>1, Untouched DEF TypeOK, Other, Housed, Active
  <2>4. QED
    BY <1>8, <2>2, <2>3 DEF ExtractArchive
<1>9. QED
  BY <1>1, <1>2, <1>3, <1>4, <1>5, <1>6, <1>7, <1>8 DEF Next
-----------------------------------------------------------------------------
(* mongorestore and the target.                                             *)

LEMMA StepContent ==
  ASSUME TypeOK, Asked, TreeIsThere, DoesContent, [Next]_vars
  PROVE  DoesContent'
<1> USE DEF Loading
<1>1. CASE UNCHANGED vars
  BY <1>1 DEF vars, job, db, DoesContent, Content, Backup
<1>2. CASE Die
  BY <1>2 DEF TypeOK, Die, Forget, Active, DoesContent, Content, Backup
<1>3. ASSUME NEW r \in Restores, Begin(r) PROVE DoesContent'
  BY <1>3 DEF TypeOK, Begin, Goto, db, DoesContent, Content, Backup
<1>4. ASSUME NEW r \in Restores, NEW c \in Collections, Drop(r, c) \/ Fill(r, c)
      PROVE  DoesContent'
  BY <1>4 DEF TypeOK, Drop, Fill, job, DoesContent, Content, Backup
<1>5. ASSUME NEW r \in Restores, StartMongorestore(r) PROVE DoesContent'
  <2>1. Held(r) = Content(r)
    BY <1>5 DEF StartMongorestore, TreeIsThere, Unpacked, Held, Found, Content
  <2>2. QED
    BY <1>5, <2>1 DEF TypeOK, StartMongorestore, Goto, DoesContent, Content, Backup
<1>6. ASSUME NEW r \in Restores, Refuse(r) \/ Download(r) PROVE DoesContent'
  BY <1>6 DEF TypeOK, Refuse, Download, Goto, db, DoesContent, Content, Backup
<1>7. ASSUME NEW r \in Restores,
             DownloadFails(r) \/ ExtractArchive(r) \/ ExtractFails(r) \/ NotInBackup(r)
      PROVE  DoesContent'
  BY <1>7 DEF TypeOK, DownloadFails, ExtractArchive, ExtractFails, NotInBackup, End,
              EndWith, Goto, db, DoesContent, Content, Backup
<1>8. ASSUME NEW r \in Restores,
             MongorestoreOk(r) \/ MongorestoreFails(r) \/ OrphanEnds(r)
      PROVE  DoesContent'
  BY <1>8 DEF TypeOK, MongorestoreOk, MongorestoreFails, OrphanEnds, End, EndWith,
              Goto, Forget, db, DoesContent, Content, Backup
<1>9. QED
  BY <1>1, <1>2, <1>3, <1>4, <1>5, <1>6, <1>7, <1>8 DEF Next

(* Why a collection may be touched.                                         *)
Vouches(r, d, c) ==
  /\ pc[r] \in Loading \cup Ended
  /\ req[r] # NoRequest
  /\ req[r].database = d
  /\ drive[req[r].file].whole
  /\ c \in Content(r)

LEMMA StepVouches ==
  ASSUME TypeOK, [Next]_vars, NEW q \in Restores, NEW d, NEW c, Vouches(q, d, c)
  PROVE  Vouches(q, d, c)'
<1> USE DEF Vouches, Loading, Ended
<1>1. req'[q] = req[q] /\ drive' = drive /\ pc'[q] \in Loading \cup Ended
  <2>1. CASE UNCHANGED vars
    BY <2>1 DEF vars, job
  <2>2. CASE Die
    BY <2>2 DEF TypeOK, Die, Active
  <2>3. ASSUME NEW r \in Restores, NEW k \in Collections, Drop(r, k) \/ Fill(r, k)
        PROVE  req'[q] = req[q] /\ drive' = drive /\ pc'[q] \in Loading \cup Ended
    BY <2>3 DEF Drop, Fill, job
  <2>4. ASSUME NEW r \in Restores,
               \/ Refuse(r) \/ Begin(r) \/ Download(r) \/ StartMongorestore(r)
               \/ OrphanEnds(r)
        PROVE  req'[q] = req[q] /\ drive' = drive /\ pc'[q] \in Loading \cup Ended
    BY <2>4 DEF TypeOK, Refuse, Begin, Download, StartMongorestore, OrphanEnds, Goto
  <2>5. ASSUME NEW r \in Restores,
               \/ DownloadFails(r) \/ ExtractArchive(r) \/ ExtractFails(r)
               \/ NotInBackup(r) \/ MongorestoreOk(r) \/ MongorestoreFails(r)
        PROVE  req'[q] = req[q] /\ drive' = drive /\ pc'[q] \in Loading \cup Ended
    BY <2>5 DEF TypeOK, DownloadFails, ExtractArchive, ExtractFails, NotInBackup,
                MongorestoreOk, MongorestoreFails, End, EndWith, Goto
  <2>6. QED
    BY <2>1, <2>2, <2>3, <2>4, <2>5 DEF Next
<1>2. QED
  BY <1>1 DEF Content, Backup

(* A collection that mongorestore works on is vouched for.                  *)
LEMMA WorkIsVouchedFor ==
  ASSUME TypeOK, Asked, TreeIsThere, DoesContent,
         NEW r \in Restores, NEW c \in toDrop[r] \cup toFill[r]
  PROVE  Vouches(r, req[r].database, c)
<1>1. pc[r] \in Loading /\ c \in Content(r)
  BY DEF DoesContent
<1>2. req[r] \in Requests
  BY <1>1 DEF Asked, Housed, Loading, Active
<1>3. req[r] # NoRequest
  BY <1>2, SourceAssumption DEF Requests, NoRequest
<1>4. drive[req[r].file].whole
  <2>1. Extract(drive[req[r].file]).ok
    BY <1>1 DEF TreeIsThere, Unpacked, Backup
  <2>2. QED
    BY <1>2, <2>1, DriveHasArchives, OkMeansWhole DEF TypeOK, Requests
<1>5. QED
  BY <1>1, <1>3, <1>4 DEF Vouches

LEMMA OnlyTwoTouchTheTarget ==
  ASSUME TypeOK, [Next]_vars,
         ~\E r \in Restores : \E c \in Collections : Drop(r, c) \/ Fill(r, c)
  PROVE  target' = target
  BY DEF Next, Die, Refuse, Begin, Download, DownloadFails, ExtractArchive,
         ExtractFails, NotInBackup, StartMongorestore, MongorestoreOk,
         MongorestoreFails, OrphanEnds, vars, db

LEMMA StepNothingLost ==
  ASSUME TypeOK, Asked, TreeIsThere, DoesContent, NothingLostToABadBackup,
         [Next]_vars
  PROVE  NothingLostToABadBackup'
<1> SUFFICES ASSUME NEW d \in Databases, NEW c \in Collections,
                    target'[d][c] # {Before}
             PROVE  \E r \in Restores : Vouches(r, d, c)'
  BY DEF NothingLostToABadBackup, Vouches
<1>1. CASE target[d][c] # {Before}
  BY <1>1, StepVouches DEF NothingLostToABadBackup, Vouches
<1>2. CASE target[d][c] = {Before}
  <2>1. PICK r \in Restores, k \in Collections : Drop(r, k) \/ Fill(r, k)
    BY <1>2, OnlyTwoTouchTheTarget
  <2>2. k \in toDrop[r] \cup toFill[r]
    BY <2>1 DEF Drop, Fill
  <2>3. d = req[r].database /\ c = k
    BY <1>2, <2>1 DEF TypeOK, Drop, Fill
  <2>4. QED
    BY <2>2, <2>3, WorkIsVouchedFor, StepVouches
<1>3. QED
  BY <1>1, <1>2
-----------------------------------------------------------------------------
(* What a mongorestore that runs alone leaves behind.                       *)

LEMMA StepAlone ==
  ASSUME TypeOK, Alone, [Next]_vars
  PROVE  Alone'
<1> USE DEF Loading, Other, Alone
<1>1. CASE UNCHANGED vars
  BY <1>1 DEF vars, job, db
<1>2. CASE Die
  BY <1>2 DEF TypeOK, Die, Active
<1>3. ASSUME NEW r \in Restores, StartMongorestore(r) PROVE Alone'
  BY <1>3 DEF TypeOK, StartMongorestore, Goto
<1>4. ASSUME NEW r \in Restores, NEW c \in Collections, Drop(r, c) \/ Fill(r, c)
      PROVE  Alone'
  BY <1>4 DEF Drop, Fill, job
<1>5. ASSUME NEW r \in Restores, Refuse(r) \/ Begin(r) \/ Download(r) \/ OrphanEnds(r)
      PROVE  Alone'
  BY <1>5 DEF TypeOK, Refuse, Begin, Download, OrphanEnds, Goto, db
<1>6. ASSUME NEW r \in Restores,
             \/ DownloadFails(r) \/ ExtractArchive(r) \/ ExtractFails(r)
             \/ NotInBackup(r) \/ MongorestoreOk(r) \/ MongorestoreFails(r)
      PROVE  Alone'
  BY <1>6 DEF TypeOK, DownloadFails, ExtractArchive, ExtractFails, NotInBackup,
              MongorestoreOk, MongorestoreFails, End, EndWith, Goto, db
<1>7. QED
  BY <1>1, <1>2, <1>3, <1>4, <1>5, <1>6 DEF Next

(* A collection of a restore that is alone.                                 *)
Placed(r, c) ==
  \/ c \in toDrop[r]
  \/ c \in toFill[r] /\ target[req[r].database][c] = {}
  \/ target[req[r].database][c] = {req[r].file}

LEMMA StepOnItsWay ==
  ASSUME TypeOK, Asked, FileIsThere, TreeIsThere, DoesContent, Alone, OnItsWay,
         [Next]_vars
  PROVE  OnItsWay'
<1> USE DEF Loading
<1> SUFFICES ASSUME NEW r \in Restores, sole'[r], pc'[r] \in Loading \cup {"done"},
                    NEW c \in Content(r)'
             PROVE  Placed(r, c)'
  BY DEF OnItsWay, Placed
<1>1. CASE StartMongorestore(r)
  <2>1. Held(r) = Content(r)
    BY <1>1 DEF StartMongorestore, TreeIsThere, Unpacked, Held, Found, Content
  <2>2. Content(r)' = Content(r)
    BY <1>1 DEF StartMongorestore, Content, Backup
  <2>3. toDrop'[r] = Held(r)
    BY <1>1 DEF TypeOK, StartMongorestore
  <2>4. QED
    BY <2>1, <2>2, <2>3 DEF Placed
<1>2. CASE ~StartMongorestore(r)
  <2>1. /\ sole[r] /\ pc[r] \in Loading \cup {"done"}
        /\ req'[r] = req[r] /\ drive' = drive
    <3>1. CASE UNCHANGED vars
      BY <3>1 DEF vars, job, db
    <3>2. CASE Die
      BY <3>2 DEF TypeOK, Die, Active
    <3>3. ASSUME NEW q \in Restores,
                 \/ Refuse(q) \/ Begin(q) \/ Download(q) \/ OrphanEnds(q)
                 \/ StartMongorestore(q)
          PROVE  /\ sole[r] /\ pc[r] \in Loading \cup {"done"}
                 /\ req'[r] = req[r] /\ drive' = drive
      BY <1>2, <3>3
      DEF TypeOK, Refuse, Begin, Download, OrphanEnds, StartMongorestore, Goto, db
    <3>4. ASSUME NEW q \in Restores,
                 \/ DownloadFails(q) \/ ExtractArchive(q) \/ ExtractFails(q)
                 \/ NotInBackup(q) \/ MongorestoreOk(q) \/ MongorestoreFails(q)
          PROVE  /\ sole[r] /\ pc[r] \in Loading \cup {"done"}
                 /\ req'[r] = req[r] /\ drive' = drive
      BY <3>4 DEF TypeOK, DownloadFails, ExtractArchive, ExtractFails, NotInBackup,
                  MongorestoreOk, MongorestoreFails, End, EndWith, Goto, db
    <3>5. ASSUME NEW q \in Restores, NEW k \in Collections, Drop(q, k) \/ Fill(q, k)
          PROVE  /\ sole[r] /\ pc[r] \in Loading \cup {"done"}
                 /\ req'[r] = req[r] /\ drive' = drive
      BY <3>5 DEF Drop, Fill, job
    <3>6. QED
      BY <3>1, <3>2, <3>3, <3>4, <3>5 DEF Next
  <2>2. Placed(r, c) /\ c \in Content(r)
    BY <2>1 DEF OnItsWay, Placed, Content, Backup
  <2>3. ASSUME NEW q \in Restores, NEW k \in Collections, Drop(q, k) \/ Fill(q, k)
        PROVE  Placed(r, c)'
    <3>1. q = r /\ pc[r] \in Loading
      BY <2>1, <2>3 DEF Drop, Fill, Alone, Other
    <3>2. /\ box[ws[r]].file = req[r].file
          /\ req[r].database \in Databases
      BY <3>1 DEF FileIsThere, Unpacked, Asked, Housed, Active, Requests
    <3>3. CASE Drop(r, k)
      BY <2>2, <3>2, <3>3 DEF TypeOK, Drop, job, Placed
    <3>4. CASE Fill(r, k)
      BY <2>2, <3>2, <3>4 DEF TypeOK, Fill, job, Placed
    <3>5. QED
      BY <2>3, <3>1, <3>3, <3>4
  <2>4. CASE ~\E q \in Restores : \E k \in Collections : Drop(q, k) \/ Fill(q, k)
    <3>1. target' = target
      BY <2>4, OnlyTwoTouchTheTarget
    <3>2. toDrop'[r] = toDrop[r] /\ toFill'[r] = toFill[r]
      <4>1. CASE UNCHANGED vars
        BY <4>1 DEF vars, db
      <4>2. CASE Die
        BY <2>1, <4>2 DEF TypeOK, Die, Forget, Active
      <4>3. ASSUME NEW q \in Restores,
                   \/ Refuse(q) \/ Begin(q) \/ Download(q) \/ DownloadFails(q)
                   \/ ExtractArchive(q) \/ ExtractFails(q) \/ NotInBackup(q)
                   \/ MongorestoreOk(q)
            PROVE  toDrop'[r] = toDrop[r] /\ toFill'[r] = toFill[r]
        BY <4>3 DEF Refuse, Begin, Download, DownloadFails, ExtractArchive,
                    ExtractFails, NotInBackup, MongorestoreOk, db
      <4>4. ASSUME NEW q \in Restores,
                   StartMongorestore(q) \/ MongorestoreFails(q) \/ OrphanEnds(q)
            PROVE  toDrop'[r] = toDrop[r] /\ toFill'[r] = toFill[r]
        <5>1. q # r
          BY <1>2, <4>4 DEF TypeOK, MongorestoreFails, OrphanEnds, End, EndWith, Goto
        <5>2. QED
          BY <4>4, <5>1 DEF TypeOK, StartMongorestore, MongorestoreFails, OrphanEnds,
                            Forget
      <4>5. QED
        BY <2>4, <4>1, <4>2, <4>3, <4>4 DEF Next
    <3>3. QED
      BY <2>1, <2>2, <3>1, <3>2 DEF Placed
  <2>5. QED
    BY <2>3, <2>4
<1>3. QED
  BY <1>1, <1>2

-----------------------------------------------------------------------------
(* The theorems.                                                            *)

LEMMA InitIInv == Init => IInv
<1> SUFFICES ASSUME Init PROVE IInv
  OBVIOUS
<1>1. TypeOK
  BY InitTypes
<1>2. Asked /\ HousesExist /\ FileIsThere /\ TreeIsThere /\ Alone /\ OnItsWay
  BY DEF Init, Asked, HousesExist, FileIsThere, TreeIsThere, Alone, OnItsWay,
         Housed, Unpacked, Loading, Active
<1>3. WorkspacesAreOwned
  BY DEF Init, WorkspacesAreOwned, Absent, Active
<1>4. DoesContent
  BY DEF Init, DoesContent
<1>5. NothingLostToABadBackup
  BY DEF Init, NothingLostToABadBackup
<1>6. QED
  BY <1>1, <1>2, <1>3, <1>4, <1>5 DEF IInv

LEMMA StepIInv == IInv /\ [Next]_vars => IInv'
  BY StepTypes, StepAsked, StepHouses, StepHolds, StepContent, StepNothingLost,
     StepAlone, StepOnItsWay
  DEF IInv, HoldsItsOwn

LEMMA Invariance == Spec => []IInv
  BY InitIInv, StepIInv, PTL DEF Spec

(* The variables of restore.go and of its surroundings keep their types.    *)
THEOREM RestoreTypes == Spec => []TypeOK
<1>1. IInv => TypeOK
  BY DEF IInv
<1>2. QED
  BY <1>1, Invariance, PTL

(* A restore touches only the collections of the database that it was asked *)
(* for, and only after it has the whole of an archive that holds them.      *)
THEOREM BadBackupsCostNothing == Spec => []NothingLostToABadBackup
<1>1. IInv => NothingLostToABadBackup
  BY DEF IInv
<1>2. QED
  BY <1>1, Invariance, PTL

(* A workspace belongs to one restore, and is left behind only by a death   *)
(* or a removal that fails.                                                 *)
THEOREM WorkspacesHaveOwners == Spec => []WorkspacesAreOwned
<1>1. IInv => WorkspacesAreOwned
  BY DEF IInv
<1>2. QED
  BY <1>1, Invariance, PTL

LEMMA OnItsWayIsRestored == IInv => SuccessMeansRestored
<1> SUFFICES ASSUME IInv, NEW r \in Restores, pc[r] = "done", sole[r],
                    NEW c \in Content(r)
             PROVE  target[req[r].database][c] = {req[r].file}
  BY DEF SuccessMeansRestored
<1>1. toDrop[r] \cup toFill[r] = {}
  BY DEF IInv, DoesContent, Loading
<1>2. QED
  BY <1>1 DEF IInv, OnItsWay

(* A restore that reports success, and was the only one at work since its   *)
(* mongorestore began, has made each collection of its backup what it was.  *)
THEOREM SuccessIsRestored == Spec => []SuccessMeansRestored
  BY OnItsWayIsRestored, Invariance, PTL

LEMMA DriveIsArchives ==
  ASSUME TypeOK, NEW f \in Files
  PROVE  IsArchive(drive[f])
  BY DriveHasArchives, ArchiveAssumption DEF TypeOK

(* A restore takes the directory of its database that the archive has at    *)
(* the top or, alone of that name, below it, and the collections in it.     *)
THEOREM RestoresFindTheDatabase == Spec => []FindsTheDatabase
<1>1. ASSUME IInv, NEW r \in Restores, pc[r] \in Unpacked
      PROVE  LET archive == drive[req[r].file]
             IN  /\ IsRightPlace(Found(r), Places(archive, req[r].database),
                                 <<req[r].database>>,
                                 \E n \in DumpFiles : Says(archive, <<n>>))
                 /\ Held(r) = {c \in Collections :
                                 Says(archive, Append(Found(r).dir, c))}
  <2> DEFINE archive == drive[req[r].file]
             files == Extract(archive).files
  <2>1. Tree(r) = Extract(archive) /\ Extract(archive).ok
    BY <1>1 DEF IInv, TreeIsThere, Backup
  <2>2. IsArchive(archive)
    <3>1. req[r] \in Requests
      BY <1>1 DEF IInv, Asked, Unpacked, Loading, Housed, Active
    <3>2. QED
      BY <1>1, <3>1, DriveIsArchives DEF IInv, Requests
  <2>3. Found(r) = FindDatabaseDir(Extract(archive), req[r].database)
    BY <2>1 DEF Found
  <2>4. Held(r) = {c \in Collections : Append(Found(r).dir, c) \in files}
    BY <2>1 DEF Held, CollectionsIn
  <2> HIDE DEF archive
  <2>5. ASSUME NEW c PROVE Append(Found(r).dir, c) \in files
                             <=> Says(archive, Append(Found(r).dir, c))
    BY <2>1, <2>2, FilesAreSaid
  <2>6. Held(r) = {c \in Collections : Says(archive, Append(Found(r).dir, c))}
    BY <2>4, <2>5
  <2>7. IsRightPlace(Found(r), Places(archive, req[r].database), <<req[r].database>>,
                     \E n \in DumpFiles : Says(archive, <<n>>))
    BY <2>1, <2>2, <2>3, FindsThePlace
  <2>8. QED
    BY <2>6, <2>7 DEF archive
<1>2. IInv => FindsTheDatabase
  BY <1>1 DEF FindsTheDatabase, IsRightPlace, Unpacked
<1>3. QED
  BY <1>2, Invariance, PTL

(* No archive makes a restore write outside of its workspace.               *)
THEOREM RestoresStayInside == Spec => []StaysInside
<1>1. ASSUME IInv, NEW w \in Workspaces,
             NEW p \in box[w].tree.dirs \cup box[w].tree.files
      PROVE  Inside(p)
  <2>1. box[w].tree \in Trees
    BY <1>1 DEF IInv, TypeOK
  <2>2. CASE box[w].tree = Empty
    BY <1>1, <2>2 DEF Empty
  <2>3. CASE \E a \in Archives : box[w].tree = Extract(a)
    BY <1>1, <2>3, ArchiveAssumption, ExtractionStaysInside
  <2>4. QED
    BY <2>1, <2>2, <2>3 DEF Trees
<1>2. IInv => StaysInside
  BY <1>1 DEF StaysInside, Inside
<1>3. QED
  BY <1>2, Invariance, PTL
(* The program's own backup of a database is unpacked and found, and a      *)
(* success of a restore that runs alone puts back what mongodump left.      *)
THEOREM BackupsComeBack == Spec => []DumpsComeBack
<1>1. ASSUME IInv, NEW r \in Restores, NEW tree \in Dumps,
             drive[req[r].file] = OwnBackups[tree], <<req[r].database>> \in tree.dirs
      PROVE  /\ Backup(r).ok
             /\ pc[r] = "extracted" => Found(r) # NotFound
             /\ pc[r] = "done" /\ sole[r] =>
                  \A c \in Collections : Append(<<req[r].database>>, c) \in tree.files =>
                    target[req[r].database][c] = {req[r].file}
  <2> DEFINE dir == <<req[r].database>>
  <2>1. Backup(r) = tree /\ tree.ok
    <3>1. IsDump(tree)
      BY DumpAssumption
    <3>2. drive[req[r].file] = [entries |-> Compress(tree), whole |-> TRUE]
      BY <1>1 DEF OwnBackups
    <3>3. Extract(drive[req[r].file]) = tree
      BY <3>1, <3>2, RoundTrip
    <3>4. QED
      BY <3>1, <3>3 DEF Backup, IsDump
  <2>2. FindDatabaseDir(tree, req[r].database) = Place(dir, FALSE)
    BY <1>1 DEF FindDatabaseDir
  <2>3. Place(dir, FALSE) # NotFound
    BY DEF Place, NotFound
  <2>4. ASSUME pc[r] = "extracted" PROVE Found(r) # NotFound
    <3>1. Tree(r) = Backup(r)
      BY <1>1, <2>4 DEF IInv, TreeIsThere, Unpacked
    <3>2. QED
      BY <2>1, <2>2, <2>3, <3>1 DEF Found
  <2>5. ASSUME pc[r] = "done", sole[r], NEW c \in Collections, Append(dir, c) \in tree.files
        PROVE  target[req[r].database][c] = {req[r].file}
    <3>1. c \in Content(r)
      BY <2>1, <2>2, <2>5 DEF Content, CollectionsIn, Place
    <3>2. SuccessMeansRestored
      BY <1>1, OnItsWayIsRestored
    <3>3. QED
      BY <2>5, <3>1, <3>2 DEF SuccessMeansRestored
  <2>6. QED
    BY <2>1, <2>4, <2>5
<1>2. IInv => DumpsComeBack
  BY <1>1 DEF DumpsComeBack
<1>3. QED
  BY <1>2, Invariance, PTL
=============================================================================
