--------------------------- MODULE BackupJobProofs ---------------------------
(***************************************************************************)
(* Theorems about runBackup, for any number of jobs and any clock.         *)
(***************************************************************************)
EXTENDS BackupJob, TLAPS

-----------------------------------------------------------------------------
(* Types.                                                                   *)

(* A job has named its dump, and its archive, before it works on them, and  *)
(* what it reads was there when it opened it: without this the types of     *)
(* dir, arc and drive are not inductive.                                    *)
DumpNamed == {"dumping", "dumped", "compressing", "packed", "verified",
              "uploading", "stored", "cleaned", "done"}
ArcNamed == {"compressing", "packed", "verified", "uploading", "stored",
             "cleaned", "done"}

Named ==
  \A j \in Jobs : /\ pc[j] \in DumpNamed => dumpAt[j] \in Stamps
                  /\ pc[j] \in ArcNamed => arcAt[j] \in Stamps
                  /\ pc[j] \in {"compressing", "uploading"} => held[j] \in Content

LEMMA InitType == Init => TypeOK
<1>1. 0 \in Stamps
  BY TimeAssumption DEF Stamps
<1>2. "absent" \in State /\ "partial" \in State
  BY DEF State, Content
<1>3. ASSUME Init
      PROVE  /\ pc \in [Jobs -> {"idle"} \cup Active \cup Ended]
             /\ held \in [Jobs -> State]
             /\ torn \in [Jobs -> BOOLEAN]
             /\ dir \in [Stamps -> State]
             /\ arc \in [Stamps -> State]
  BY <1>2, <1>3 DEF Init
<1>4. ASSUME Init
      PROVE  /\ dumpAt \in [Jobs -> Stamps \cup {NoStamp}]
             /\ arcAt \in [Jobs -> Stamps \cup {NoStamp}]
             /\ status \in {Unknown, Running, Failed} \cup {Success(s) : s \in Stamps}
  BY <1>4 DEF Init
<1>5. QED
  BY <1>1, <1>3, <1>4 DEF Init, TypeOK

LEMMA InitNamed == Init => Named
  BY DEF Init, Named, DumpNamed, ArcNamed

(* The helpers that remove files and disturb other jobs keep the types.     *)
LEMMA RemovalTypes ==
  ASSUME NEW fs \in [Stamps -> State], NEW s, NEW gs \in Removed(fs, s)
  PROVE  gs \in [Stamps -> State]
  BY DEF Removed, State

LEMMA DisturbTypes ==
  ASSUME NEW j, NEW b \in BOOLEAN, NEW K,
         torn \in [Jobs -> BOOLEAN], Disturb(j, b, K)
  PROVE  torn' \in [Jobs -> BOOLEAN]
<1>1. \A k \in Jobs : (IF k = j THEN b ELSE torn[k] \/ k \in K) \in BOOLEAN
  OBVIOUS
<1>2. QED
  BY <1>1 DEF Disturb

LEMMA StepTypes == TypeOK /\ Named /\ [Next]_vars => TypeOK'
<1> SUFFICES ASSUME TypeOK, Named, [Next]_vars PROVE TypeOK'
  OBVIOUS
<1>T. /\ pc \in [Jobs -> {"idle"} \cup Active \cup Ended]
      /\ now \in Stamps
      /\ dumpAt \in [Jobs -> Stamps \cup {NoStamp}]
      /\ arcAt \in [Jobs -> Stamps \cup {NoStamp}]
      /\ held \in [Jobs -> State]
      /\ torn \in [Jobs -> BOOLEAN]
      /\ dir \in [Stamps -> State]
      /\ arc \in [Stamps -> State]
      /\ drive \subseteq [job : Jobs, name : Stamps, content : Content]
      /\ status \in {Unknown, Running, Failed} \cup {Success(s) : s \in Stamps}
      /\ ctxDone \in BOOLEAN
  BY DEF TypeOK
<1>G. ASSUME NEW j \in Jobs, NEW p \in Active \cup Ended, Goto(j, p)
      PROVE  pc' \in [Jobs -> {"idle"} \cup Active \cup Ended]
  BY <1>T, <1>G DEF Goto
<1>R. ASSUME NEW j \in Jobs, RemoveDump(j)
      PROVE  dir' \in [Stamps -> State] /\ torn' \in [Jobs -> BOOLEAN]
  BY <1>T, <1>R, RemovalTypes, DisturbTypes DEF RemoveDump
<1>A. ASSUME NEW j \in Jobs, RemoveArchive(j) PROVE arc' \in [Stamps -> State]
  BY <1>T, <1>A, RemovalTypes DEF RemoveArchive
<1>S. /\ {"begun", "ready", "dumping", "dumped", "compressing", "packed",
          "verified", "uploading", "stored", "cleaned", "done", "failed",
          "stranded", "lost"} \subseteq Active \cup Ended
      /\ Content \subseteq State
      /\ "partial" \in Content /\ "full" \in Content /\ "mixed" \in Content
      /\ "absent" \in State
  BY DEF Active, Ended, Content, State
<1>1. CASE Tick
  BY <1>T, <1>1, TimeAssumption DEF Tick, names, files, TypeOK, Stamps
<1>2. CASE CancelCtx
  BY <1>T, <1>2 DEF CancelCtx, names, files, TypeOK
<1>3. CASE Die
  BY <1>T, <1>3, <1>S DEF Die, names, TypeOK
<1>4. CASE AllEnded \/ UNCHANGED vars
  BY <1>T, <1>4 DEF AllEnded, vars, names, files, TypeOK
<1>5. ASSUME NEW j \in Jobs, Begin(j) PROVE TypeOK'
  BY <1>T, <1>5, <1>G, <1>S DEF Begin, Report, names, files, TypeOK
<1>6. ASSUME NEW j \in Jobs, Preflight(j) PROVE TypeOK'
  BY <1>T, <1>6, <1>G, <1>S DEF Preflight, names, files, TypeOK
<1>7. ASSUME NEW j \in Jobs, NoTempDir(j) \/ NoDumpDir(j) PROVE TypeOK'
  BY <1>T, <1>7, <1>G, <1>S DEF NoTempDir, NoDumpDir, Report, names, files, TypeOK
<1>8. ASSUME NEW j \in Jobs, NoMongodump(j) PROVE TypeOK'
  BY <1>T, <1>8, <1>G, <1>S DEF NoMongodump, names, files, TypeOK
<1>9. ASSUME NEW j \in Jobs, DumpStart(j) PROVE TypeOK'
  <2>1. torn' \in [Jobs -> BOOLEAN]
    BY <1>T, <1>9, DisturbTypes DEF DumpStart
  <2>2. pc' \in [Jobs -> {"idle"} \cup Active \cup Ended]
    BY <1>9, <1>G, <1>S DEF DumpStart
  <2>3. QED
    BY <1>T, <1>9, <1>S, <2>1, <2>2 DEF DumpStart, TypeOK
<1>10. ASSUME NEW j \in Jobs, DumpRefused(j) PROVE TypeOK'
  <2>1. torn' \in [Jobs -> BOOLEAN]
    BY <1>T, <1>10, DisturbTypes DEF DumpRefused
  <2>2. pc' \in [Jobs -> {"idle"} \cup Active \cup Ended]
    BY <1>10, <1>G, <1>S DEF DumpRefused
  <2>3. PICK c \in State : dir' \in Removed([dir EXCEPT ![now] = c], now)
    BY <1>T, <1>S, <1>10 DEF DumpRefused
  <2>4. dir' \in [Stamps -> State]
    <3>1. [dir EXCEPT ![now] = c] \in [Stamps -> State]
      BY <1>T
    <3>2. QED
      BY <2>3, <3>1, RemovalTypes
  <2>5. QED
    BY <1>T, <1>10, <1>S, <2>1, <2>2, <2>4 DEF DumpRefused, Report, TypeOK
<1>11. ASSUME NEW j \in Jobs, DumpOk(j) PROVE TypeOK'
  <2>1. PICK c \in State \cup {dir[dumpAt[j]]} :
               dir' = [dir EXCEPT ![dumpAt[j]] = c]
    BY <1>11, <1>S DEF DumpOk
  <2>2. dir' \in [Stamps -> State]
    BY <1>T, <2>1
  <2>3. pc' \in [Jobs -> {"idle"} \cup Active \cup Ended]
    BY <1>11, <1>G, <1>S DEF DumpOk
  <2>4. QED
    BY <1>T, <1>11, <2>2, <2>3 DEF DumpOk, names, TypeOK
<1>12. ASSUME NEW j \in Jobs, DumpFail(j) \/ NoArchive(j) \/ CompressFail(j)
       PROVE  TypeOK'
  BY <1>T, <1>12, <1>G, <1>R, <1>S
  DEF DumpFail, NoArchive, CompressFail, Report, names, TypeOK
<1>13. ASSUME NEW j \in Jobs, CompressStart(j) PROVE TypeOK'
  <2>1. torn' \in [Jobs -> BOOLEAN]
    BY <1>T, <1>13, DisturbTypes DEF CompressStart
  <2>2. pc' \in [Jobs -> {"idle"} \cup Active \cup Ended]
    BY <1>13, <1>G, <1>S DEF CompressStart
  <2>3. dir[dumpAt[j]] \in State
    BY <1>T, <1>13 DEF CompressStart, Named, DumpNamed
  <2>4. QED
    BY <1>T, <1>13, <1>S, <2>1, <2>2, <2>3 DEF CompressStart, TypeOK
<1>14. ASSUME NEW j \in Jobs, CompressRefused(j) PROVE TypeOK'
  <2>1. torn' \in [Jobs -> BOOLEAN]
    BY <1>T, <1>14, DisturbTypes DEF CompressRefused
  <2>2. pc' \in [Jobs -> {"idle"} \cup Active \cup Ended]
    BY <1>14, <1>G, <1>S DEF CompressRefused
  <2>3. dir' \in [Stamps -> State]
    BY <1>T, <1>14, RemovalTypes DEF CompressRefused
  <2>4. QED
    BY <1>T, <1>14, <1>S, <2>1, <2>2, <2>3 DEF CompressRefused, Report, TypeOK
<1>15. ASSUME NEW j \in Jobs, CompressOk(j) PROVE TypeOK'
  <2>1. PICK c \in State \cup {arc[arcAt[j]], held[j]} :
               arc' = [arc EXCEPT ![arcAt[j]] = c]
    BY <1>15, <1>S DEF CompressOk
  <2>2. arc' \in [Stamps -> State]
    BY <1>T, <1>S, <2>1
  <2>3. pc' \in [Jobs -> {"idle"} \cup Active \cup Ended]
    BY <1>15, <1>G, <1>S DEF CompressOk
  <2>4. QED
    BY <1>T, <1>15, <2>2, <2>3 DEF CompressOk, names, TypeOK
<1>16. ASSUME NEW j \in Jobs, VerifyOk(j) PROVE TypeOK'
  BY <1>T, <1>16, <1>G, <1>S DEF VerifyOk, names, files, TypeOK
<1>17. ASSUME NEW j \in Jobs, VerifyFail(j) PROVE TypeOK'
  BY <1>T, <1>17, <1>G, <1>R, <1>A, <1>S DEF VerifyFail, Report, names, TypeOK
<1>18. ASSUME NEW j \in Jobs, UploadStart(j) PROVE TypeOK'
  <2>1. torn' \in [Jobs -> BOOLEAN]
    BY <1>T, <1>18, DisturbTypes DEF UploadStart
  <2>2. pc' \in [Jobs -> {"idle"} \cup Active \cup Ended]
    BY <1>18, <1>G, <1>S DEF UploadStart
  <2>3. arc[arcAt[j]] \in State
    BY <1>T, <1>18 DEF UploadStart, Named, ArcNamed
  <2>4. held' \in [Jobs -> State]
    BY <1>T, <1>18, <2>3 DEF UploadStart
  <2>5. QED
    BY <1>T, <1>18, <2>1, <2>2, <2>4 DEF UploadStart, TypeOK
<1>D. ASSUME NEW j \in Jobs, pc[j] = "uploading"
      PROVE  Sent(j) \subseteq [job : Jobs, name : Stamps, content : Content]
  BY <1>T, <1>S, <1>D DEF Sent, Named, ArcNamed
<1>19. ASSUME NEW j \in Jobs, UploadOk(j) PROVE TypeOK'
  <2>1. drive' \subseteq [job : Jobs, name : Stamps, content : Content]
    BY <1>T, <1>19, <1>D DEF UploadOk
  <2>2. pc' \in [Jobs -> {"idle"} \cup Active \cup Ended]
    BY <1>19, <1>G, <1>S DEF UploadOk
  <2>3. QED
    BY <1>T, <1>19, <2>1, <2>2 DEF UploadOk, names, files, TypeOK
<1>20. ASSUME NEW j \in Jobs, UploadFail(j) \/ UploadRefused(j) PROVE TypeOK'
  <2>1. drive' \subseteq [job : Jobs, name : Stamps, content : Content]
    BY <1>T, <1>20, <1>D DEF UploadFail, UploadRefused
  <2>2. GiveUpUpload(j)
    BY <1>20 DEF UploadFail, UploadRefused
  <2>3. QED
    BY <1>T, <1>G, <1>R, <1>A, <1>S, <2>1, <2>2
    DEF GiveUpUpload, Report, names, TypeOK
<1>21. ASSUME NEW j \in Jobs, Cleanup(j) PROVE TypeOK'
  BY <1>T, <1>21, <1>G, <1>R, <1>A, <1>S DEF Cleanup, names, TypeOK
<1>22. ASSUME NEW j \in Jobs, ReportSuccess(j) PROVE TypeOK'
  BY <1>T, <1>22, <1>G, <1>S
  DEF ReportSuccess, Report, names, files, TypeOK, Named, ArcNamed
<1>23. QED
  BY <1>1, <1>2, <1>3, <1>4, <1>5, <1>6, <1>7, <1>8, <1>9, <1>10, <1>11,
     <1>12, <1>13, <1>14, <1>15, <1>16, <1>17, <1>18, <1>19, <1>20, <1>21,
     <1>22
  DEF Next, Local, Answered, Started, Refused

(* How a step changes a job's place and names.                              *)
LEMMA StepNamed == TypeOK /\ Named /\ [Next]_vars => Named'
<1> SUFFICES ASSUME TypeOK, Named, [Next]_vars PROVE Named'
  OBVIOUS
<1> USE DEF Named, DumpNamed, ArcNamed, Goto
<1>T. /\ pc \in [Jobs -> {"idle"} \cup Active \cup Ended]
      /\ now \in Stamps
      /\ dumpAt \in [Jobs -> Stamps \cup {NoStamp}]
      /\ arcAt \in [Jobs -> Stamps \cup {NoStamp}]
      /\ held \in [Jobs -> State]
      /\ dir \in [Stamps -> State]
      /\ arc \in [Stamps -> State]
      /\ \A c \in State : c # "absent" => c \in Content
  BY DEF TypeOK, State
<1>1. CASE Tick \/ CancelCtx \/ AllEnded \/ UNCHANGED vars
  BY <1>1 DEF Tick, CancelCtx, AllEnded, vars, names
<1>2. CASE Die
  BY <1>2, <1>T DEF Die, names
<1>3. ASSUME NEW j \in Jobs, DumpStart(j) PROVE Named'
  BY <1>3, <1>T DEF DumpStart
<1>4. ASSUME NEW j \in Jobs, CompressStart(j) PROVE Named'
  BY <1>4, <1>T DEF CompressStart
<1>5. ASSUME NEW j \in Jobs, UploadStart(j) PROVE Named'
  BY <1>5, <1>T DEF UploadStart
<1>6. ASSUME NEW j \in Jobs, DumpRefused(j) \/ CompressRefused(j) PROVE Named'
  BY <1>6, <1>T DEF DumpRefused, CompressRefused
<1>7. ASSUME NEW j \in Jobs,
             \/ Begin(j) \/ Preflight(j) \/ NoTempDir(j) \/ NoMongodump(j)
             \/ NoDumpDir(j) \/ NoArchive(j) \/ DumpFail(j) \/ CompressFail(j)
             \/ VerifyFail(j) \/ UploadRefused(j) \/ UploadFail(j)
      PROVE  Named'
  BY <1>7, <1>T
  DEF Begin, Preflight, NoTempDir, NoMongodump, NoDumpDir, NoArchive, DumpFail,
      CompressFail, VerifyFail, UploadRefused, UploadFail, GiveUpUpload, names
<1>8. ASSUME NEW j \in Jobs,
             \/ DumpOk(j) \/ CompressOk(j) \/ VerifyOk(j) \/ UploadOk(j)
             \/ Cleanup(j) \/ ReportSuccess(j)
      PROVE  Named'
  BY <1>8, <1>T
  DEF DumpOk, CompressOk, VerifyOk, UploadOk, Cleanup, ReportSuccess, names
<1>9. QED
  BY <1>1, <1>2, <1>3, <1>4, <1>5, <1>6, <1>7, <1>8
  DEF Next, Local, Answered, Started, Refused

(* Every variable keeps its type, and the names come before their use.      *)
THEOREM TypeCorrect == Spec => [](TypeOK /\ Named)
  BY InitType, InitNamed, StepTypes, StepNamed, PTL DEF Spec
-----------------------------------------------------------------------------
(* A success is stored.                                                     *)

AfterUpload == {"stored", "cleaned", "done"}

HasRecord(j) == \E r \in drive : r.job = j /\ r.name = arcAt[j]

(* SuccessIsStored with the name of the record for every job that has       *)
(* uploaded, which is what ReportSuccess needs.                             *)
StoredByName ==
  /\ \A j \in Jobs : pc[j] \in AfterUpload => HasRecord(j)
  /\ status.state = "success" =>
       \E j \in Jobs : pc[j] = "done" /\ arcAt[j] = status.file

LEMMA StoredByNameSuffices == StoredByName => SuccessIsStored
  BY DEF StoredByName, SuccessIsStored, HasRecord, Stored, AfterUpload

(* Only UploadOk brings a job among those that have uploaded; no step takes *)
(* anything from Drive or renames an archive that is there.                 *)
LEMMA StepStoredByName ==
  ASSUME TypeOK, StoredByName, [Next]_vars
  PROVE  StoredByName'
<1>T. /\ pc \in [Jobs -> {"idle"} \cup Active \cup Ended]
      /\ arcAt \in [Jobs -> Stamps \cup {NoStamp}]
  BY DEF TypeOK
<1> USE DEF StoredByName, HasRecord, AfterUpload, Goto, Report
<1>1. CASE Tick \/ CancelCtx \/ AllEnded \/ UNCHANGED vars
  BY <1>1 DEF Tick, CancelCtx, AllEnded, vars, names
<1>2. CASE Die
  BY <1>2, <1>T DEF Die, names, Active, Unknown
<1>3. ASSUME NEW j \in Jobs, NEW p, p \notin AfterUpload,
             pc[j] \notin AfterUpload, Goto(j, p), drive \subseteq drive',
             UNCHANGED arcAt \/ arcAt' = [arcAt EXCEPT ![j] = now],
             status' \in {Failed, Running} \/ UNCHANGED status
      PROVE  StoredByName'
  <2>1. \A k \in Jobs : pc'[k] \in AfterUpload =>
          /\ pc'[k] = pc[k]
          /\ arcAt'[k] = arcAt[k]
          /\ HasRecord(k)
    BY <1>3, <1>T
  <2>2. \A k \in Jobs : pc[k] = "done" => pc'[k] = "done" /\ arcAt'[k] = arcAt[k]
    BY <1>3, <1>T
  <2>3. status'.state = "success" => UNCHANGED status
    BY <1>3 DEF Failed, Running
  <2>4. QED
    BY <1>3, <2>1, <2>2, <2>3
<1>4. ASSUME NEW j \in Jobs,
             \/ Begin(j) \/ NoTempDir(j) \/ NoMongodump(j) \/ NoDumpDir(j)
             \/ NoArchive(j) \/ DumpFail(j) \/ CompressFail(j)
      PROVE  StoredByName'
  BY <1>4, <1>3
  DEF Begin, NoTempDir, NoMongodump, NoDumpDir, NoArchive, DumpFail,
      CompressFail, names
<1>5. ASSUME NEW j \in Jobs, VerifyFail(j) \/ UploadRefused(j) \/ UploadFail(j)
      PROVE  StoredByName'
  BY <1>5, <1>3 DEF VerifyFail, UploadRefused, UploadFail, GiveUpUpload, names
<1>6. ASSUME NEW j \in Jobs, DumpRefused(j) \/ CompressRefused(j)
      PROVE  StoredByName'
  BY <1>6, <1>3 DEF DumpRefused, CompressRefused
<1>7. ASSUME NEW j \in Jobs, DumpStart(j) \/ CompressStart(j) \/ UploadStart(j)
      PROVE  StoredByName'
  BY <1>7, <1>3 DEF DumpStart, CompressStart, UploadStart
<1>8. ASSUME NEW j \in Jobs,
             \/ Preflight(j) \/ DumpOk(j) \/ CompressOk(j) \/ VerifyOk(j)
             \/ Cleanup(j)
      PROVE  StoredByName'
  BY <1>8, <1>T DEF Preflight, DumpOk, CompressOk, VerifyOk, Cleanup, names
<1>9. ASSUME NEW j \in Jobs, UploadOk(j) PROVE StoredByName'
  <2>1. PICK r \in Sent(j) : drive' = drive \cup {r}
    BY <1>9 DEF UploadOk
  <2>2. r.job = j /\ r.name = arcAt[j]
    BY <2>1 DEF Sent
  <2>3. QED
    BY <1>9, <1>T, <2>1, <2>2 DEF UploadOk, names
<1>10. ASSUME NEW j \in Jobs, ReportSuccess(j) PROVE StoredByName'
  BY <1>10, <1>T DEF ReportSuccess, names, Success
<1>11. QED
  BY <1>1, <1>2, <1>4, <1>5, <1>6, <1>7, <1>8, <1>9, <1>10
  DEF Next, Local, Answered, Started, Refused

(* Every job that has uploaded has its record.                              *)
LEMMA StoredByNameHolds == Spec => []StoredByName
<1>1. Init => StoredByName
  BY DEF Init, StoredByName, AfterUpload, Unknown
<1>2. TypeOK /\ StoredByName /\ [Next]_vars => StoredByName'
  BY StepStoredByName
<1>3. QED
  BY <1>1, <1>2, TypeCorrect, PTL DEF Spec

(* A success names a file on Drive, however jobs overlap, fail, are         *)
(* cancelled or die.                                                        *)
THEOREM SuccessImpliesStored == Spec => []SuccessIsStored
  BY StoredByNameHolds, StoredByNameSuffices, PTL
-----------------------------------------------------------------------------
(* Files are owned.                                                         *)

(* The jobs whose dump may be there: when a removal may fail, whoever has   *)
(* ended may have left one.                                                 *)
Holders == HasDump \cup (IF RemovalMayFail THEN Ended \cup {"cleaned"} ELSE {})

DirIsOwned ==
  \A s \in Stamps : dir[s] # "absent" =>
    \E j \in Jobs : pc[j] \in Holders /\ dumpAt[j] = s

ArcIsOwned ==
  \A s \in Stamps : arc[s] # "absent" =>
    \E j \in Jobs : pc[j] \in HasArchive /\ arcAt[j] = s

LEMMA RemovedIsAbsent ==
  ASSUME ~RemovalMayFail, NEW fs \in [Stamps -> State], NEW s \in Stamps,
         NEW gs \in Removed(fs, s)
  PROVE  gs = [fs EXCEPT ![s] = "absent"]
  BY DEF Removed

(* The three ways in which a step leaves the dumps owned: it takes no dump  *)
(* from its owner; the owner writes, or fails to remove; the owner, or a    *)
(* job that has none, removes.                                              *)
KeepsDumps ==
  /\ UNCHANGED <<dir, dumpAt>>
  /\ \A k \in Jobs : pc[k] \in Holders => pc'[k] \in Holders

OthersKeepDumps(j) ==
  \A k \in Others(j) : pc'[k] = pc[k] /\ dumpAt'[k] = dumpAt[k]

WritesDump(j) ==
  /\ pc'[j] \in Holders
  /\ pc[j] \notin Holders \/ dumpAt'[j] = dumpAt[j]
  /\ \A s \in Stamps : dir'[s] \in {dir[s], "absent"} \/ s = dumpAt'[j]
  /\ OthersKeepDumps(j)

RemovesDump(j) ==
  /\ \A s \in Stamps : dir'[s] = dir[s] \/ dir'[s] = "absent"
  /\ pc[j] \in Holders => dumpAt[j] \in Stamps /\ dir'[dumpAt[j]] = "absent"
  /\ OthersKeepDumps(j)

LEMMA DumpSteps ==
  ASSUME DirIsOwned,
         KeepsDumps \/ \E j \in Jobs : WritesDump(j) \/ RemovesDump(j)
  PROVE  DirIsOwned'
<1>1. CASE KeepsDumps
  BY <1>1 DEF KeepsDumps, DirIsOwned
<1>2. ASSUME NEW j \in Jobs, WritesDump(j) PROVE DirIsOwned'
  BY <1>2 DEF WritesDump, OthersKeepDumps, Others, DirIsOwned
<1>3. ASSUME NEW j \in Jobs, RemovesDump(j) PROVE DirIsOwned'
  BY <1>3 DEF RemovesDump, OthersKeepDumps, Others, DirIsOwned
<1>4. QED
  BY <1>1, <1>2, <1>3

KeepsArchives ==
  /\ UNCHANGED arc
  /\ \A k \in Jobs : pc[k] \in HasArchive =>
       pc'[k] \in HasArchive /\ arcAt'[k] = arcAt[k]

OthersKeepArchives(j) ==
  \A k \in Others(j) : pc'[k] = pc[k] /\ arcAt'[k] = arcAt[k]

WritesArchive(j) ==
  /\ pc'[j] \in HasArchive
  /\ pc[j] \notin HasArchive \/ arcAt'[j] = arcAt[j]
  /\ \A s \in Stamps : arc'[s] = arc[s] \/ s = arcAt'[j]
  /\ OthersKeepArchives(j)

RemovesArchive(j) ==
  /\ \A s \in Stamps : arc'[s] = arc[s] \/ arc'[s] = "absent"
  /\ pc[j] \in HasArchive => arcAt[j] \in Stamps /\ arc'[arcAt[j]] = "absent"
  /\ OthersKeepArchives(j)

LEMMA ArchiveSteps ==
  ASSUME ArcIsOwned,
         KeepsArchives \/ \E j \in Jobs : WritesArchive(j) \/ RemovesArchive(j)
  PROVE  ArcIsOwned'
<1>1. CASE KeepsArchives
  BY <1>1 DEF KeepsArchives, ArcIsOwned
<1>2. ASSUME NEW j \in Jobs, WritesArchive(j) PROVE ArcIsOwned'
  BY <1>2 DEF WritesArchive, OthersKeepArchives, Others, ArcIsOwned
<1>3. ASSUME NEW j \in Jobs, RemovesArchive(j) PROVE ArcIsOwned'
  BY <1>3 DEF RemovesArchive, OthersKeepArchives, Others, ArcIsOwned
<1>4. QED
  BY <1>1, <1>2, <1>3

LEMMA StepDumps ==
  ASSUME TypeOK, Named, [Next]_vars
  PROVE  KeepsDumps \/ \E j \in Jobs : WritesDump(j) \/ RemovesDump(j)
<1>T. /\ pc \in [Jobs -> {"idle"} \cup Active \cup Ended]
      /\ now \in Stamps
      /\ dumpAt \in [Jobs -> Stamps \cup {NoStamp}]
      /\ dir \in [Stamps -> State]
  BY DEF TypeOK
<1>H. /\ HasDump \subseteq Holders
      /\ RemovalMayFail =>
           {"done", "failed", "stranded", "lost", "cleaned"} \subseteq Holders
      /\ ~RemovalMayFail => Holders = HasDump
      /\ \A p \in Holders : p \notin {"idle", "begun", "ready"}
      /\ {"dumping", "dumped", "compressing", "packed", "verified", "uploading",
          "stored", "lost"} \subseteq Holders
      /\ "cleaned" \in Holders => "done" \in Holders
  BY DEF Holders, HasDump, Ended
<1>K. CASE Tick \/ CancelCtx \/ Die \/ AllEnded \/ UNCHANGED vars
  <2>1. CASE Die
    BY <2>1, <1>T, <1>H DEF Die, names, KeepsDumps
  <2>2. CASE Tick \/ CancelCtx \/ AllEnded \/ UNCHANGED vars
    BY <2>2 DEF Tick, CancelCtx, AllEnded, vars, names, files, KeepsDumps
  <2>3. QED
    BY <1>K, <2>1, <2>2
<1>M. ASSUME NEW j \in Jobs, NEW p, Goto(j, p), UNCHANGED <<dir, dumpAt>>,
             pc[j] \in Holders => p \in Holders
      PROVE  KeepsDumps
  BY <1>M, <1>T DEF Goto, KeepsDumps
<1>1. ASSUME NEW j \in Jobs,
             \/ Begin(j) \/ Preflight(j) \/ NoTempDir(j) \/ NoMongodump(j)
             \/ NoDumpDir(j) \/ VerifyOk(j) \/ UploadOk(j) \/ ReportSuccess(j)
      PROVE  KeepsDumps
  <2>1. UNCHANGED <<dir, dumpAt>>
    BY <1>1
    DEF Begin, Preflight, NoTempDir, NoMongodump, NoDumpDir, VerifyOk, UploadOk,
        ReportSuccess, names, files
  <2>2. \E p : Goto(j, p) /\ (pc[j] \in Holders => p \in Holders)
    BY <1>1, <1>H
    DEF Begin, Preflight, NoTempDir, NoMongodump, NoDumpDir, VerifyOk, UploadOk,
        ReportSuccess
  <2>3. QED
    BY <2>1, <2>2, <1>M
<1>2. ASSUME NEW j \in Jobs, CompressStart(j) \/ CompressOk(j) \/ UploadStart(j)
      PROVE  KeepsDumps
  <2>1. UNCHANGED <<dir, dumpAt>>
    BY <1>2 DEF CompressStart, CompressOk, UploadStart, names
  <2>2. \E p : Goto(j, p) /\ (pc[j] \in Holders => p \in Holders)
    BY <1>2, <1>H DEF CompressStart, CompressOk, UploadStart
  <2>3. QED
    BY <2>1, <2>2, <1>M
<1>W. ASSUME NEW j \in Jobs, NEW p \in Holders, Goto(j, p),
             \/ UNCHANGED dumpAt
             \/ pc[j] \notin Holders /\ dumpAt' = [dumpAt EXCEPT ![j] = now],
             \A s \in Stamps : dir'[s] \in {dir[s], "absent"} \/ s = dumpAt'[j]
      PROVE  WritesDump(j)
  BY <1>W, <1>T DEF Goto, WritesDump, OthersKeepDumps, Others
<1>3. ASSUME NEW j \in Jobs, DumpStart(j) PROVE WritesDump(j)
  <2>1. dumpAt'[j] = now /\ \A s \in Stamps : dir'[s] = dir[s] \/ s = now
    BY <1>3, <1>T DEF DumpStart
  <2>2. QED
    BY <1>3, <1>W, <1>H, <2>1 DEF DumpStart
<1>4. ASSUME NEW j \in Jobs, DumpOk(j) PROVE WritesDump(j)
  <2>1. PICK c : dir' = [dir EXCEPT ![dumpAt[j]] = c]
    BY <1>4 DEF DumpOk
  <2>2. UNCHANGED dumpAt /\ Goto(j, "dumped")
    BY <1>4 DEF DumpOk, names
  <2>3. QED
    BY <1>T, <1>W, <1>H, <2>1, <2>2
<1>R. ASSUME NEW j \in Jobs, NEW s \in Stamps, NEW fs \in [Stamps -> State],
             dir' \in Removed(fs, s), s = dumpAt'[j],
             \A u \in Stamps : fs[u] = dir[u] \/ u = s,
             \/ s = dumpAt[j] /\ UNCHANGED dumpAt
             \/ pc[j] \notin Holders /\ dumpAt' = [dumpAt EXCEPT ![j] = now],
             NEW p \in {"failed", "stranded", "cleaned"}, Goto(j, p)
      PROVE  WritesDump(j) \/ RemovesDump(j)
  <2>1. CASE RemovalMayFail
    <3>1. dir' \in {fs, [fs EXCEPT ![s] = "absent"]}
      BY <1>R DEF Removed
    <3>2. \A u \in Stamps : dir'[u] = dir[u] \/ u = s
      BY <1>R, <3>1
    <3>3. p \in Holders
      BY <1>H, <2>1
    <3>4. QED
      BY <1>R, <1>W, <3>2, <3>3
  <2>2. CASE ~RemovalMayFail
    <3>1. dir' = [fs EXCEPT ![s] = "absent"]
      BY <1>R, <2>2, RemovedIsAbsent
    <3>2. dir'[s] = "absent" /\ \A u \in Stamps : dir'[u] = dir[u] \/ u = s
      BY <1>R, <3>1
    <3>3. OthersKeepDumps(j)
      BY <1>R, <1>T DEF Goto, OthersKeepDumps, Others
    <3>4. QED
      BY <1>R, <3>2, <3>3 DEF RemovesDump
  <2>3. QED
    BY <2>1, <2>2
<1>D. ASSUME NEW j \in Jobs, pc[j] \in DumpNamed, RemoveDump(j), UNCHANGED dumpAt,
             NEW p \in {"failed", "stranded", "cleaned"}, Goto(j, p)
      PROVE  WritesDump(j) \/ RemovesDump(j)
  <2>1. dumpAt[j] \in Stamps
    BY <1>D DEF Named
  <2>2. dir' \in Removed(dir, dumpAt[j])
    BY <1>D DEF RemoveDump
  <2>3. QED
    BY <1>D, <1>R, <1>T, <2>1, <2>2
<1>5. ASSUME NEW j \in Jobs, DumpRefused(j) PROVE WritesDump(j) \/ RemovesDump(j)
  <2>1. PICK c \in State : dir' \in Removed([dir EXCEPT ![now] = c], now)
    BY <1>5, <1>T DEF DumpRefused, State, Content
  <2>2. [dir EXCEPT ![now] = c] \in [Stamps -> State]
    BY <1>T
  <2>3. dumpAt'[j] = now /\ \A u \in Stamps : [dir EXCEPT ![now] = c][u] = dir[u] \/ u = now
    BY <1>5, <1>T DEF DumpRefused
  <2>4. /\ pc[j] \notin Holders
        /\ dumpAt' = [dumpAt EXCEPT ![j] = now]
        /\ Goto(j, "failed")
    BY <1>5, <1>H DEF DumpRefused
  <2>5. QED
    BY <1>R, <1>T, <2>1, <2>2, <2>3, <2>4
<1>6. ASSUME NEW j \in Jobs,
             \/ DumpFail(j) \/ NoArchive(j) \/ CompressFail(j) \/ VerifyFail(j)
             \/ Cleanup(j)
      PROVE  WritesDump(j) \/ RemovesDump(j)
  BY <1>6, <1>D
  DEF DumpFail, NoArchive, CompressFail, VerifyFail, Cleanup, names, DumpNamed
<1>7. ASSUME NEW j \in Jobs, UploadRefused(j) \/ UploadFail(j)
      PROVE  WritesDump(j) \/ RemovesDump(j)
  BY <1>7, <1>D DEF UploadRefused, UploadFail, GiveUpUpload, names, DumpNamed
<1>8. ASSUME NEW j \in Jobs, CompressRefused(j) PROVE WritesDump(j) \/ RemovesDump(j)
  <2>1. dumpAt[j] \in Stamps
    BY <1>8 DEF Named, DumpNamed, CompressRefused
  <2>2. /\ dir' \in Removed(dir, dumpAt[j])
        /\ UNCHANGED dumpAt
        /\ Goto(j, "stranded")
    BY <1>8 DEF CompressRefused
  <2>3. QED
    BY <1>R, <1>T, <2>1, <2>2
<1>9. QED
  BY <1>K, <1>1, <1>2, <1>3, <1>4, <1>5, <1>6, <1>7, <1>8
  DEF Next, Local, Answered, Started, Refused

LEMMA StepArchives ==
  ASSUME ~RemovalMayFail, TypeOK, Named, [Next]_vars
  PROVE  KeepsArchives \/ \E j \in Jobs : WritesArchive(j) \/ RemovesArchive(j)
<1>T. /\ pc \in [Jobs -> {"idle"} \cup Active \cup Ended]
      /\ now \in Stamps
      /\ arcAt \in [Jobs -> Stamps \cup {NoStamp}]
      /\ arc \in [Stamps -> State]
  BY DEF TypeOK
<1>K. CASE Tick \/ CancelCtx \/ Die \/ AllEnded \/ UNCHANGED vars
  BY <1>K, <1>T
  DEF Tick, CancelCtx, Die, AllEnded, vars, names, files, KeepsArchives,
      HasArchive, Active
<1>1. ASSUME NEW j \in Jobs,
             \/ Begin(j) \/ Preflight(j) \/ NoTempDir(j) \/ NoMongodump(j)
             \/ NoDumpDir(j) \/ VerifyOk(j) \/ UploadOk(j) \/ ReportSuccess(j)
      PROVE  KeepsArchives
  BY <1>1, <1>T
  DEF Begin, Preflight, NoTempDir, NoMongodump, NoDumpDir, VerifyOk, UploadOk,
      ReportSuccess, Goto, names, files, KeepsArchives, HasArchive
<1>2. ASSUME NEW j \in Jobs,
             \/ DumpStart(j) \/ DumpRefused(j) \/ DumpOk(j) \/ DumpFail(j)
             \/ NoArchive(j) \/ CompressFail(j) \/ UploadStart(j)
      PROVE  KeepsArchives
  BY <1>2, <1>T
  DEF DumpStart, DumpRefused, DumpOk, DumpFail, NoArchive, CompressFail,
      UploadStart, Goto, names, KeepsArchives, HasArchive
<1>3. ASSUME NEW j \in Jobs, CompressStart(j) \/ CompressRefused(j)
      PROVE  WritesArchive(j)
  BY <1>3, <1>T
  DEF CompressStart, CompressRefused, Goto, WritesArchive, OthersKeepArchives,
      Others, HasArchive
<1>4. ASSUME NEW j \in Jobs, CompressOk(j) PROVE WritesArchive(j)
  <2>1. PICK c : arc' = [arc EXCEPT ![arcAt[j]] = c]
    BY <1>4 DEF CompressOk
  <2>2. QED
    BY <1>4, <1>T, <2>1
    DEF CompressOk, Goto, names, WritesArchive, OthersKeepArchives, Others,
        HasArchive
<1>R. ASSUME NEW j \in Jobs, pc[j] \in ArcNamed, RemoveArchive(j),
             NEW p, Goto(j, p), UNCHANGED arcAt
      PROVE  RemovesArchive(j)
  <2>1. arcAt[j] \in Stamps
    BY <1>R DEF Named
  <2>2. arc' = [arc EXCEPT ![arcAt[j]] = "absent"]
    BY <1>R, <1>T, <2>1, RemovedIsAbsent DEF RemoveArchive
  <2>3. QED
    BY <1>R, <1>T, <2>1, <2>2
    DEF Goto, RemovesArchive, OthersKeepArchives, Others
<1>5. ASSUME NEW j \in Jobs, VerifyFail(j) \/ Cleanup(j)
      PROVE  RemovesArchive(j)
  BY <1>5, <1>R DEF VerifyFail, Cleanup, names, ArcNamed
<1>6. ASSUME NEW j \in Jobs, UploadRefused(j) \/ UploadFail(j)
      PROVE  RemovesArchive(j)
  BY <1>6, <1>R DEF UploadRefused, UploadFail, GiveUpUpload, names, ArcNamed
<1>7. QED
  BY <1>K, <1>1, <1>2, <1>3, <1>4, <1>5, <1>6
  DEF Next, Local, Answered, Started, Refused

(* When removals succeed, what is in the temporary directory belongs to a   *)
(* job under way, to one that died with the process, or to one whose        *)
(* archiving failed.                                                        *)
THEOREM FilesHaveOwners == Spec => []FilesAreOwned
<1>1. Init => DirIsOwned /\ ArcIsOwned
  BY DEF Init, DirIsOwned, ArcIsOwned
<1>2. TypeOK /\ Named /\ DirIsOwned /\ [Next]_vars => DirIsOwned'
  BY StepDumps, DumpSteps
<1>3. CASE RemovalMayFail
  <2>1. FilesAreOwned
    BY <1>3 DEF FilesAreOwned
  <2>2. QED
    BY <2>1, PTL
<1>4. CASE ~RemovalMayFail
  <2>1. TypeOK /\ Named /\ ArcIsOwned /\ [Next]_vars => ArcIsOwned'
    BY <1>4, StepArchives, ArchiveSteps
  <2>2. DirIsOwned /\ ArcIsOwned => FilesAreOwned
    BY <1>4 DEF DirIsOwned, ArcIsOwned, FilesAreOwned, Holders
  <2>3. QED
    BY <1>1, <1>2, <2>1, <2>2, TypeCorrect, PTL DEF Spec
<1>5. QED
  BY <1>3, <1>4
-----------------------------------------------------------------------------
(* Without overlap, what is stored is whole.                                *)

Alone == \A j, k \in Jobs : pc[j] \in Active /\ pc[k] \in Active => j = k

Undisturbed == \A j \in Jobs : ~torn[j]

(* The whole dump, perhaps with what job j has inherited.                   *)
WholeFor(j, c) == c = "full" \/ (c = "mixed" /\ Inherits(j))

HasWholeRecord(j) ==
  \E r \in drive : /\ r.job = j /\ r.name = arcAt[j]
                   /\ WholeFor(j, r.content)

(* What a job that is alone knows about its files at each stage.            *)
Whole(j) ==
  /\ pc[j] = "dumping" => held[j] = "absent" \/ Inherits(j)
  /\ pc[j] = "dumped" => WholeFor(j, dir[dumpAt[j]])
  /\ pc[j] = "compressing" => WholeFor(j, held[j]) /\ arc[arcAt[j]] # "absent"
  /\ pc[j] \in {"packed", "verified"} => WholeFor(j, arc[arcAt[j]])
  /\ pc[j] = "uploading" => WholeFor(j, held[j])
  /\ pc[j] \in AfterUpload => HasWholeRecord(j)

SerialInv == Alone /\ Undisturbed /\ \A j \in Jobs : Whole(j)

(* Jobs that have ended stay as they are, and so does what they have left.  *)
LEMMA InheritanceStays ==
  ASSUME NEW j \in Jobs, dumpAt'[j] = dumpAt[j],
         \A k \in Others(j) : pc[k] \in Ended =>
            pc'[k] = pc[k] /\ dumpAt'[k] = dumpAt[k]
  PROVE  /\ Inherits(j) => Inherits(j)'
         /\ \A c : WholeFor(j, c) => WholeFor(j, c)'
  BY DEF Inherits, WholeFor, Ended, Others

(* Nobody else is under way, so no other job uses a path.                   *)
LEMMA AloneMeans ==
  ASSUME Alone, NEW j \in Jobs, pc[j] \in Active
  PROVE  /\ \A k \in Others(j) : pc[k] \notin Active
         /\ \A s : UsersOfDir(j, s) = {} /\ UsersOfArc(j, s) = {}
         /\ \A k \in Others(j) : \A s : ~Dumps(k, s) /\ ~WritesArc(k, s)
  BY DEF Alone, Others, Active, UsersOfDir, UsersOfArc, Dumps, ReadsDir,
     WritesArc, ReadsArc

LEMMA CalmStays ==
  ASSUME Undisturbed, NEW j \in Jobs,
         UNCHANGED torn \/ Disturb(j, FALSE, {})
  PROVE  Undisturbed'
  BY DEF Undisturbed, Disturb

(* A dump that is found by a job that is alone has been left by one that    *)
(* has ended.                                                               *)
LEMMA FoundIsInherited ==
  ASSUME Alone, DirIsOwned, NEW j \in Jobs, pc[j] = "ready",
         NEW s \in Stamps, dir[s] # "absent"
  PROVE  \E k \in Others(j) :
           /\ dumpAt[k] = s
           /\ pc[k] = "lost" \/ (RemovalMayFail /\ pc[k] \in Ended)
<1>1. PICK k \in Jobs : pc[k] \in Holders /\ dumpAt[k] = s
  BY DEF DirIsOwned
<1>2. k \in Others(j)
  BY <1>1 DEF Others, Holders, HasDump, Ended
<1>3. pc[k] \notin Active
  BY <1>2, AloneMeans DEF Active
<1>4. pc[k] = "lost" \/ (RemovalMayFail /\ pc[k] \in Ended)
  BY <1>1, <1>3 DEF Holders, HasDump, Active
<1>5. QED
  BY <1>1, <1>2, <1>4

(* A step of a job leaves the others as they were.                          *)
LEMMA OthersStayWhole ==
  ASSUME SerialInv, TypeOK, NEW j \in Jobs, pc[j] \in Active,
         NEW p, Goto(j, p), drive \subseteq drive',
         \A k \in Others(j) : arcAt'[k] = arcAt[k] /\ dumpAt'[k] = dumpAt[k]
  PROVE  /\ \A k \in Others(j) : Whole(k)'
         /\ Alone'
         /\ \A k \in Others(j) : pc[k] \in Ended => pc'[k] = pc[k]
<1>1. \A k \in Others(j) : pc'[k] = pc[k] /\ pc[k] \notin Active
  BY AloneMeans DEF SerialInv, TypeOK, Goto, Others
<1>2. Alone'
  BY <1>1 DEF Alone, Others
<1>3. ASSUME NEW k \in Others(j) PROVE Whole(k)'
  <2>1. ASSUME pc'[k] \in AfterUpload PROVE HasWholeRecord(k)'
    <3>1. PICK r \in drive : r.job = k /\ r.name = arcAt[k] /\ WholeFor(k, r.content)
      BY <1>1, <2>1 DEF SerialInv, Whole, HasWholeRecord, Others
    <3>2. \A l \in Others(k) : pc[l] \in Ended =>
             pc'[l] = pc[l] /\ dumpAt'[l] = dumpAt[l]
      BY <1>1 DEF Others, Ended, Active
    <3>3. WholeFor(k, r.content)'
      BY <3>1, <3>2, InheritanceStays DEF Others
    <3>4. r \in drive' /\ r.job = k /\ r.name = arcAt'[k]
      BY <3>1
    <3>5. QED
      BY <3>3, <3>4 DEF HasWholeRecord
  <2>2. pc'[k] \notin {"dumping", "dumped", "compressing", "packed", "verified",
                       "uploading"}
    BY <1>1 DEF Active
  <2>3. QED
    BY <2>1, <2>2 DEF Whole
<1>4. QED
  BY <1>1, <1>2, <1>3

LEMMA StepSerial ==
  ASSUME ~Overlap, TypeOK, Named, DirIsOwned, SerialInv, [Next]_vars
  PROVE  SerialInv'
<1>T. /\ pc \in [Jobs -> {"idle"} \cup Active \cup Ended]
      /\ now \in Stamps
      /\ dumpAt \in [Jobs -> Stamps \cup {NoStamp}]
      /\ arcAt \in [Jobs -> Stamps \cup {NoStamp}]
      /\ held \in [Jobs -> State]
      /\ dir \in [Stamps -> State]
      /\ arc \in [Stamps -> State]
  BY DEF TypeOK
<1>F. ASSUME UNCHANGED <<names, drive, dir, arc>>,
             \A k \in Jobs : pc[k] \in Ended => pc'[k] = pc[k],
             \A k \in Jobs : pc'[k] = pc[k] \/ pc'[k] \in {"begun", "lost"}
      PROVE  \A k \in Jobs : Whole(k)'
  <2> SUFFICES ASSUME NEW k \in Jobs PROVE Whole(k)'
    OBVIOUS
  <2>1. UNCHANGED <<dumpAt, arcAt, held>>
    BY <1>F DEF names
  <2>2. CASE pc'[k] \in {"begun", "lost"}
    BY <2>2 DEF Whole, AfterUpload
  <2>3. CASE pc'[k] = pc[k]
    <3>1. /\ Inherits(k) => Inherits(k)'
          /\ \A c : WholeFor(k, c) => WholeFor(k, c)'
      BY <1>F, <2>1, InheritanceStays DEF Others
    <3>2. HasWholeRecord(k) => HasWholeRecord(k)'
      BY <1>F, <2>1, <3>1 DEF HasWholeRecord
    <3>3. /\ pc'[k] = "dumping" => held'[k] = "absent" \/ Inherits(k)'
          /\ pc'[k] = "dumped" => WholeFor(k, dir[dumpAt[k]])'
          /\ pc'[k] = "compressing" => WholeFor(k, held[k])' /\ arc'[arcAt'[k]] # "absent"
          /\ pc'[k] \in {"packed", "verified"} => WholeFor(k, arc[arcAt[k]])'
          /\ pc'[k] = "uploading" => WholeFor(k, held[k])'
          /\ pc'[k] \in AfterUpload => HasWholeRecord(k)'
      <4>1. Whole(k)
        BY DEF SerialInv
      <4>2. UNCHANGED <<dir[dumpAt[k]], arc[arcAt[k]], held[k]>>
        BY <1>F, <2>1
      <4>3. QED
        BY <2>1, <2>3, <3>1, <3>2, <4>1, <4>2, <1>F DEF Whole, WholeFor
    <3>4. QED
      BY <3>3 DEF Whole
  <2>4. QED
    BY <1>F, <2>2, <2>3
<1>S. SUFFICES ASSUME NEW j \in Jobs, Begin(j) \/ Local(j) \/ Answered(j)
               PROVE  SerialInv'
  <2>1. CASE Tick \/ CancelCtx \/ AllEnded \/ UNCHANGED vars
    <3>1. UNCHANGED <<pc, names, files, drive, dir, arc, torn>>
      BY <2>1 DEF Tick, CancelCtx, AllEnded, vars, files
    <3>2. \A k \in Jobs : Whole(k)'
      BY <3>1, <1>F
    <3>3. QED
      BY <3>1, <3>2 DEF SerialInv, Alone, Undisturbed
  <2>2. CASE Die
    <3>1. \A k \in Jobs : pc'[k] = IF pc[k] \in Active THEN "lost" ELSE pc[k]
      BY <2>2, <1>T DEF Die
    <3>2. \A k \in Jobs : Whole(k)'
      BY <2>2, <3>1, <1>F DEF Die, Active, Ended
    <3>3. Alone' /\ Undisturbed'
      BY <2>2, <3>1 DEF Die, Alone, Undisturbed, Active
    <3>4. QED
      BY <3>2, <3>3 DEF SerialInv
  <2>3. QED
    BY <2>1, <2>2, <1>S DEF Next
<1>1. CASE Begin(j)
  <2>1. \A k \in Jobs : pc[k] \notin Active
    BY <1>1 DEF Begin, Busy
  <2>2. \A k \in Jobs : pc'[k] = IF k = j THEN "begun" ELSE pc[k]
    BY <1>1, <1>T DEF Begin, Goto
  <2>3. Alone'
    BY <2>1, <2>2 DEF Alone, Active
  <2>4. Undisturbed'
    BY <1>1 DEF Begin, files, SerialInv, Undisturbed
  <2>5. \A k \in Jobs : Whole(k)'
    BY <1>1, <2>2, <1>F DEF Begin, files, Ended
  <2>6. QED
    BY <2>3, <2>4, <2>5 DEF SerialInv
<1>A. SUFFICES ASSUME Local(j) \/ Answered(j), pc[j] \in Active PROVE SerialInv'
  BY <1>1, <1>S
  DEF Local, Answered, Started, Refused, Preflight, NoTempDir, NoMongodump,
      NoDumpDir, DumpStart, DumpRefused, DumpOk, DumpFail, CompressStart,
      NoArchive, CompressRefused, CompressOk, CompressFail, VerifyOk,
      VerifyFail, UploadStart, UploadRefused, UploadOk, UploadFail, Cleanup,
      ReportSuccess, Active
<1>N. /\ \A s : UsersOfDir(j, s) = {} /\ UsersOfArc(j, s) = {}
      /\ \A k \in Others(j) : \A s : ~Dumps(k, s) /\ ~WritesArc(k, s)
      /\ ~torn[j]
      /\ Whole(j)
  BY <1>A, AloneMeans DEF SerialInv, Undisturbed
<1>I. ASSUME NEW p, Goto(j, p), UNCHANGED dumpAt
      PROVE  /\ Inherits(j) => Inherits(j)'
             /\ \A c : WholeFor(j, c) => WholeFor(j, c)'
  <2>1. \A k \in Others(j) : pc'[k] = pc[k]
    BY <1>I, <1>T DEF Goto, Others
  <2>2. QED
    BY <2>1, <1>I, InheritanceStays
<1>W. ASSUME NEW p, Goto(j, p), drive \subseteq drive',
             UNCHANGED arcAt \/ arcAt' = [arcAt EXCEPT ![j] = now],
             UNCHANGED dumpAt \/ dumpAt' = [dumpAt EXCEPT ![j] = now],
             UNCHANGED torn \/ Disturb(j, FALSE, {}),
             Whole(j)'
      PROVE  SerialInv'
  <2>1. \A k \in Others(j) : arcAt'[k] = arcAt[k] /\ dumpAt'[k] = dumpAt[k]
    BY <1>W, <1>T DEF Others
  <2>2. Alone' /\ \A k \in Others(j) : Whole(k)'
    BY <1>W, <1>A, <2>1, OthersStayWhole
  <2>3. Undisturbed'
    BY <1>W, CalmStays DEF SerialInv
  <2>4. QED
    BY <1>W, <2>2, <2>3 DEF SerialInv, Others
<1>E. ASSUME NEW p \in {"failed", "stranded", "ready"},
             Goto(j, p), drive \subseteq drive',
             UNCHANGED arcAt \/ arcAt' = [arcAt EXCEPT ![j] = now],
             UNCHANGED dumpAt \/ dumpAt' = [dumpAt EXCEPT ![j] = now],
             UNCHANGED torn \/ Disturb(j, FALSE, {})
      PROVE  SerialInv'
  <2>1. pc'[j] = p
    BY <1>E, <1>T DEF Goto
  <2>2. Whole(j)'
    BY <1>E, <2>1 DEF Whole, AfterUpload
  <2>3. QED
    BY <1>E, <1>W, <2>2
<1>2. CASE \/ Preflight(j) \/ NoTempDir(j) \/ NoMongodump(j) \/ NoDumpDir(j)
           \/ DumpFail(j) \/ NoArchive(j) \/ CompressFail(j) \/ VerifyFail(j)
  BY <1>2, <1>E, <1>N
  DEF Preflight, NoTempDir, NoMongodump, NoDumpDir, DumpFail, NoArchive,
      CompressFail, VerifyFail, RemoveDump, names, files
<1>3. CASE DumpRefused(j) \/ CompressRefused(j)
  <2>1. \E p \in {"failed", "stranded"} : Goto(j, p)
    BY <1>3 DEF DumpRefused, CompressRefused
  <2>2. Disturb(j, FALSE, {})
    BY <1>3, <1>N DEF DumpRefused, CompressRefused, Disturb
  <2>3. /\ UNCHANGED arcAt \/ arcAt' = [arcAt EXCEPT ![j] = now]
        /\ UNCHANGED dumpAt \/ dumpAt' = [dumpAt EXCEPT ![j] = now]
    BY <1>3 DEF DumpRefused, CompressRefused
  <2>4. UNCHANGED drive
    BY <1>3 DEF DumpRefused, CompressRefused
  <2>5. QED
    BY <2>1, <2>2, <2>3, <2>4, <1>E
<1>4. CASE UploadRefused(j) \/ UploadFail(j)
  <2>1. GiveUpUpload(j) /\ drive \subseteq drive'
    BY <1>4 DEF UploadRefused, UploadFail
  <2>2. QED
    BY <2>1, <1>E, <1>N DEF GiveUpUpload, RemoveDump, names
<1>4a. CASE DumpStart(j)
  <2>1. pc'[j] = "dumping" /\ held'[j] = dir[now] /\ dumpAt'[j] = now
    BY <1>4a, <1>T DEF DumpStart, Goto
  <2>2. \A k \in Others(j) : pc'[k] = pc[k] /\ dumpAt'[k] = dumpAt[k]
    BY <1>4a, <1>T DEF DumpStart, Goto, Others
  <2>3. ASSUME dir[now] # "absent" PROVE Inherits(j)'
    <3>1. PICK k \in Others(j) :
            /\ dumpAt[k] = now
            /\ pc[k] = "lost" \/ (RemovalMayFail /\ pc[k] \in Ended)
      BY <1>4a, <1>T, <2>3, FoundIsInherited DEF DumpStart, SerialInv
    <3>2. QED
      BY <2>1, <2>2, <3>1 DEF Inherits, Others
  <2>4. Whole(j)'
    BY <2>1, <2>3 DEF Whole, AfterUpload
  <2>5. Disturb(j, FALSE, {})
    BY <1>4a, <1>N DEF DumpStart, Disturb
  <2>6. QED
    BY <1>4a, <2>4, <2>5, <1>W DEF DumpStart
<1>5. CASE DumpOk(j)
  <2>1. /\ dumpAt[j] \in Stamps /\ pc'[j] = "dumped"
        /\ Goto(j, "dumped") /\ UNCHANGED dumpAt
    BY <1>5, <1>T DEF DumpOk, Goto, names, Named, DumpNamed
  <2>2. PICK c : /\ dir' = [dir EXCEPT ![dumpAt[j]] = c]
                 /\ c = "full" \/ (c = "mixed" /\ held[j] # "absent")
    BY <1>5, <1>N DEF DumpOk
  <2>3. WholeFor(j, c)
    BY <1>5, <1>N, <2>2 DEF DumpOk, Whole, WholeFor
  <2>4. dir'[dumpAt'[j]] = c
    BY <1>T, <2>1, <2>2
  <2>5. WholeFor(j, dir[dumpAt[j]])'
    BY <2>1, <2>3, <2>4, <1>I DEF WholeFor
  <2>6. Whole(j)'
    BY <2>1, <2>5 DEF Whole, AfterUpload
  <2>7. QED
    BY <1>5, <2>6, <1>W DEF DumpOk, names
<1>6. CASE CompressStart(j)
  <2>1. /\ pc'[j] = "compressing" /\ arcAt'[j] = now /\ arc'[now] = "partial"
        /\ held'[j] = dir[dumpAt[j]] /\ UNCHANGED dumpAt
        /\ Goto(j, "compressing")
    BY <1>6, <1>T DEF CompressStart, Goto
  <2>2. WholeFor(j, dir[dumpAt[j]])
    BY <1>6, <1>N DEF CompressStart, Whole
  <2>3. WholeFor(j, held[j])'
    BY <2>1, <2>2, <1>I DEF WholeFor
  <2>4. Whole(j)'
    BY <2>1, <2>3 DEF Whole, AfterUpload
  <2>5. Disturb(j, FALSE, {})
    BY <1>6, <1>N DEF CompressStart, Disturb
  <2>6. QED
    BY <1>6, <2>4, <2>5, <1>W DEF CompressStart
<1>7. CASE CompressOk(j)
  <2>1. /\ arcAt[j] \in Stamps /\ pc'[j] = "packed"
        /\ Goto(j, "packed") /\ UNCHANGED <<dumpAt, arcAt>>
    BY <1>7, <1>T DEF CompressOk, Goto, names, Named, ArcNamed
  <2>2. WholeFor(j, held[j]) /\ arc[arcAt[j]] # "absent"
    BY <1>7, <1>N DEF CompressOk, Whole
  <2>3. arc' = [arc EXCEPT ![arcAt[j]] = held[j]]
    BY <1>7, <1>N, <2>2 DEF CompressOk
  <2>4. arc'[arcAt'[j]] = held[j]
    BY <1>T, <2>1, <2>3
  <2>5. WholeFor(j, arc[arcAt[j]])'
    BY <2>1, <2>2, <2>4, <1>I DEF WholeFor
  <2>6. Whole(j)'
    BY <2>1, <2>5 DEF Whole, AfterUpload
  <2>7. QED
    BY <1>7, <2>6, <1>W DEF CompressOk, names
<1>8. CASE VerifyOk(j)
  <2>1. /\ pc'[j] = "verified" /\ Goto(j, "verified")
        /\ UNCHANGED <<dumpAt, arcAt, arc>>
    BY <1>8, <1>T DEF VerifyOk, Goto, names, files
  <2>2. WholeFor(j, arc[arcAt[j]])
    BY <1>8, <1>N DEF VerifyOk, Whole
  <2>3. WholeFor(j, arc[arcAt[j]])'
    BY <2>1, <2>2, <1>I DEF WholeFor
  <2>4. Whole(j)'
    BY <2>1, <2>3 DEF Whole, AfterUpload
  <2>5. QED
    BY <1>8, <2>4, <1>W DEF VerifyOk, names, files
<1>9. CASE UploadStart(j)
  <2>1. /\ pc'[j] = "uploading" /\ held'[j] = arc[arcAt[j]]
        /\ Goto(j, "uploading") /\ UNCHANGED dumpAt
    BY <1>9, <1>T DEF UploadStart, Goto
  <2>2. WholeFor(j, arc[arcAt[j]])
    BY <1>9, <1>N DEF UploadStart, Whole
  <2>3. WholeFor(j, held[j])'
    BY <2>1, <2>2, <1>I DEF WholeFor
  <2>4. Whole(j)'
    BY <2>1, <2>3 DEF Whole, AfterUpload
  <2>5. Disturb(j, FALSE, {})
    BY <1>9, <1>N DEF UploadStart, Disturb
  <2>6. QED
    BY <1>9, <2>4, <2>5, <1>W DEF UploadStart
<1>10. CASE UploadOk(j)
  <2>1. WholeFor(j, held[j])
    BY <1>10, <1>N DEF UploadOk, Whole
  <2>2. PICK r \in Sent(j) : drive' = drive \cup {r}
    BY <1>10 DEF UploadOk
  <2>3. r.job = j /\ r.name = arcAt[j] /\ r.content = held[j]
    BY <2>2, <1>N DEF Sent
  <2>4. pc'[j] = "stored" /\ Goto(j, "stored") /\ UNCHANGED <<dumpAt, arcAt>>
    BY <1>10, <1>T DEF UploadOk, Goto, names
  <2>5. WholeFor(j, r.content)'
    BY <2>1, <2>3, <2>4, <1>I
  <2>6. HasWholeRecord(j)'
    BY <2>2, <2>3, <2>4, <2>5 DEF HasWholeRecord
  <2>7. Whole(j)'
    BY <2>4, <2>6 DEF Whole
  <2>8. QED
    BY <1>10, <2>2, <2>7, <1>W DEF UploadOk, names, files
<1>11. CASE Cleanup(j) \/ ReportSuccess(j)
  <2>1. /\ pc[j] \in AfterUpload /\ pc'[j] \in AfterUpload
        /\ UNCHANGED <<dumpAt, arcAt, drive>>
        /\ \E p \in AfterUpload : Goto(j, p)
    BY <1>11, <1>T DEF Cleanup, ReportSuccess, Goto, names, AfterUpload
  <2>2. \A c : WholeFor(j, c) => WholeFor(j, c)'
    BY <2>1, <1>I
  <2>3. HasWholeRecord(j)'
    BY <2>1, <2>2, <1>N DEF HasWholeRecord, Whole
  <2>4. Whole(j)'
    BY <2>1, <2>3 DEF Whole, AfterUpload
  <2>5. UNCHANGED torn \/ Disturb(j, FALSE, {})
    BY <1>11, <1>N DEF Cleanup, ReportSuccess, RemoveDump, files
  <2>6. QED
    BY <2>1, <2>4, <2>5, <1>W
<1>12. QED
  BY <1>A, <1>2, <1>3, <1>4, <1>5, <1>6, <1>7, <1>8, <1>9, <1>10, <1>11, <1>4a
  DEF Local, Answered, Started, Refused

(* Without overlap, a job that ends well has stored the whole database,     *)
(* even after jobs that failed, were cancelled or died in the same second;  *)
(* what comes along can only be the dump of one that died, or could not     *)
(* remove it, in the second in which the job's own dump began.              *)
THEOREM SerialStoresWhole == Spec => []SerialIntegrity
<1>1. CASE Overlap
  <2>1. SerialIntegrity
    BY <1>1 DEF SerialIntegrity
  <2>2. QED
    BY <2>1, PTL
<1>2. CASE ~Overlap
  <2>1. Init => DirIsOwned /\ SerialInv
    BY DEF Init, DirIsOwned, SerialInv, Alone, Undisturbed, Whole, AfterUpload,
           Active
  <2>2. TypeOK /\ Named /\ DirIsOwned /\ SerialInv /\ [Next]_vars
          => (DirIsOwned /\ SerialInv)'
    BY <1>2, StepDumps, DumpSteps, StepSerial
  <2>3. SerialInv => SerialIntegrity
    BY DEF SerialInv, Whole, HasWholeRecord, WholeFor, AfterUpload, SerialIntegrity
  <2>4. QED
    BY <2>1, <2>2, <2>3, TypeCorrect, PTL DEF Spec
<1>3. QED
  BY <1>1, <1>2
-----------------------------------------------------------------------------
(* The job keeps its promise.                                               *)

OutcomeOf(p) == CASE p = "idle" -> "waiting"
                  [] p \in Active -> "running"
                  [] p = "done" -> "succeeded"
                  [] OTHER -> "failed"

LEMMA OutcomeStep ==
  ASSUME TypeOK, NEW j \in Jobs, NEW p, Goto(j, p)
  PROVE  /\ outcome[j] = OutcomeOf(pc[j])
         /\ outcome' = [outcome EXCEPT ![j] = OutcomeOf(p)]
<1>1. outcome = [k \in Jobs |-> OutcomeOf(pc[k])]
  BY DEF outcome, OutcomeOf
<1>2. outcome' = [k \in Jobs |-> OutcomeOf(pc'[k])]
  BY DEF outcome, OutcomeOf
<1>3. \A k \in Jobs : pc'[k] = IF k = j THEN p ELSE pc[k]
  BY DEF TypeOK, Goto
<1>4. QED
  BY <1>1, <1>2, <1>3

LEMMA OutcomeValues ==
  /\ OutcomeOf("idle") = "waiting"
  /\ OutcomeOf("done") = "succeeded"
  /\ OutcomeOf("failed") = "failed" /\ OutcomeOf("stranded") = "failed"
  /\ \A p \in Active : OutcomeOf(p) = "running"
  BY DEF OutcomeOf, Active

LEMMA StepPromise ==
  ASSUME TypeOK, StoredByName, [Next]_vars
  PROVE  [Promise!Next]_<<outcome, Stored>>
<1>T. pc \in [Jobs -> {"idle"} \cup Active \cup Ended]
  BY DEF TypeOK
<1>1. CASE Tick \/ CancelCtx \/ AllEnded \/ UNCHANGED vars
  BY <1>1 DEF Tick, CancelCtx, AllEnded, vars, outcome, Stored
<1>2. CASE Die
  <2>1. outcome = [j \in Jobs |-> OutcomeOf(pc[j])]
    BY DEF outcome, OutcomeOf
  <2>2. outcome' = [j \in Jobs |-> OutcomeOf(pc'[j])]
    BY DEF outcome, OutcomeOf
  <2>3. \A j \in Jobs :
          OutcomeOf(pc'[j]) = IF OutcomeOf(pc[j]) = "running" THEN "failed"
                              ELSE OutcomeOf(pc[j])
    BY <1>2, <1>T DEF Die, OutcomeOf, Active, Ended
  <2>4. UNCHANGED Stored
    BY <1>2 DEF Die, Stored
  <2>5. Promise!Crash
    BY <2>1, <2>2, <2>3, <2>4 DEF Promise!Crash
  <2>6. QED
    BY <2>5 DEF Promise!Next
<1>3. ASSUME NEW j \in Jobs, Begin(j) PROVE Promise!Start(j)
  BY <1>3, OutcomeStep, OutcomeValues
  DEF Begin, Stored, Promise!Start, Active
<1>4. ASSUME NEW j \in Jobs, NEW p \in Active, pc[j] \in Active, Goto(j, p)
      PROVE  outcome[j] = "running" /\ UNCHANGED outcome
  <2>1. outcome[j] = "running" /\ outcome' = [outcome EXCEPT ![j] = outcome[j]]
    BY <1>4, OutcomeStep, OutcomeValues
  <2>2. QED
    BY <2>1 DEF outcome
<1>5. ASSUME NEW j \in Jobs,
             \/ Preflight(j) \/ DumpStart(j) \/ DumpOk(j) \/ CompressStart(j)
             \/ CompressOk(j) \/ VerifyOk(j) \/ UploadStart(j) \/ Cleanup(j)
      PROVE  UNCHANGED <<outcome, Stored>>
  <2>1. /\ pc[j] \in Active /\ UNCHANGED drive
        /\ \E p \in Active : Goto(j, p)
    BY <1>5
    DEF Preflight, DumpStart, DumpOk, CompressStart, CompressOk, VerifyOk,
        UploadStart, Cleanup, Active
  <2>2. QED
    BY <2>1, <1>4 DEF Stored
<1>6. ASSUME NEW j \in Jobs, UploadOk(j) PROVE Promise!Store(j)
  <2>1. PICK r \in Sent(j) : drive' = drive \cup {r}
    BY <1>6 DEF UploadOk
  <2>2. Stored' = Stored \cup {j}
    BY <2>1 DEF Sent, Stored
  <2>3. outcome[j] = "running" /\ UNCHANGED outcome
    BY <1>6, <1>4 DEF UploadOk, Active
  <2>4. QED
    BY <2>2, <2>3 DEF Promise!Store
<1>7. ASSUME NEW j \in Jobs, ReportSuccess(j) PROVE Promise!Succeed(j)
  <2>1. j \in Stored
    BY <1>7 DEF ReportSuccess, StoredByName, AfterUpload, HasRecord, Stored
  <2>2. outcome[j] = "running" /\ outcome' = [outcome EXCEPT ![j] = "succeeded"]
    BY <1>7, OutcomeStep, OutcomeValues DEF ReportSuccess, Active
  <2>3. UNCHANGED Stored
    BY <1>7 DEF ReportSuccess, Stored
  <2>4. QED
    BY <2>1, <2>2, <2>3 DEF Promise!Succeed
<1>F. ASSUME NEW j \in Jobs, NEW p \in {"failed", "stranded"},
             pc[j] \in Active, Goto(j, p),
             drive' \in {drive} \cup {drive \cup {r} : r \in Sent(j)}
      PROVE  Promise!Fail(j)
  <2>1. outcome[j] = "running" /\ outcome' = [outcome EXCEPT ![j] = "failed"]
    BY <1>F, OutcomeStep, OutcomeValues
  <2>2. Stored' \in {Stored, Stored \cup {j}}
    BY <1>F DEF Sent, Stored
  <2>3. QED
    BY <2>1, <2>2 DEF Promise!Fail
<1>8. ASSUME NEW j \in Jobs,
             \/ NoTempDir(j) \/ NoMongodump(j) \/ NoDumpDir(j) \/ DumpRefused(j)
             \/ DumpFail(j) \/ NoArchive(j) \/ CompressRefused(j)
             \/ CompressFail(j) \/ VerifyFail(j)
      PROVE  Promise!Fail(j)
  <2>1. /\ pc[j] \in Active /\ UNCHANGED drive
        /\ \E p \in {"failed", "stranded"} : Goto(j, p)
    BY <1>8
    DEF NoTempDir, NoMongodump, NoDumpDir, DumpRefused, DumpFail, NoArchive,
        CompressRefused, CompressFail, VerifyFail, Active
  <2>2. QED
    BY <2>1, <1>F
<1>9. ASSUME NEW j \in Jobs, UploadRefused(j) \/ UploadFail(j)
      PROVE  Promise!Fail(j)
  BY <1>9, <1>F DEF UploadRefused, UploadFail, GiveUpUpload, Active
<1>10. QED
  BY <1>1, <1>2, <1>3, <1>5, <1>6, <1>7, <1>8, <1>9
  DEF Next, Local, Answered, Started, Refused, Promise!Next

(* Every behaviour of the jobs is one of BackupPromise: a success is never  *)
(* reported before the archive is on Drive, nor after a failure.            *)
THEOREM JobsKeepPromise == Spec => KeepsPromise
<1>1. Init => Promise!Init
  <2> SUFFICES ASSUME Init PROVE Promise!Init
    OBVIOUS
  <2>1. \A j \in Jobs : pc[j] = "idle"
    BY DEF Init
  <2>2. outcome = [j \in Jobs |-> "waiting"]
    <3>1. outcome = [j \in Jobs |-> OutcomeOf(pc[j])]
      BY DEF outcome, OutcomeOf
    <3>2. QED
      BY <2>1, <3>1, OutcomeValues
  <2>3. Stored = {}
    BY DEF Init, Stored
  <2>4. QED
    BY <2>2, <2>3 DEF Promise!Init
<1>2. TypeOK /\ StoredByName /\ [Next]_vars => [Promise!Next]_<<outcome, Stored>>
  BY StepPromise
<1>3. QED
  BY <1>1, <1>2, StoredByNameHolds, TypeCorrect, PTL
  DEF Spec, KeepsPromise, Promise!Spec, Promise!vars
-----------------------------------------------------------------------------
(* A cancelled job stores nothing.                                          *)

Early == {"begun", "ready", "dumping", "dumped"}
Unsent == {"idle", "compressing", "packed", "verified", "uploading"} \cup Early

(* Nothing of a job is on Drive before its upload is answered.              *)
NothingSent == \A j \in Jobs : pc[j] \in Unsent => j \notin Stored

(* Job j has stored nothing and will not: it has ended without, or it has   *)
(* no archive yet and its context is done.                                  *)
Hopeless(j) ==
  /\ j \notin Stored
  /\ pc[j] \in {"failed", "stranded", "lost"} \/ (ctxDone /\ pc[j] \in Early)

(* Only the answer to an upload brings anything to Drive.                   *)
LEMMA StoredGrows ==
  ASSUME [Next]_vars
  PROVE  \/ UNCHANGED Stored
         \/ \E j \in Jobs : /\ pc[j] = "uploading"
                            /\ UploadOk(j) \/ UploadFail(j)
                            /\ Stored' \subseteq Stored \cup {j}
<1>1. ASSUME NEW j \in Jobs, UploadOk(j) \/ UploadFail(j)
      PROVE  pc[j] = "uploading" /\ Stored' \subseteq Stored \cup {j}
  <2>1. \A r \in Sent(j) : r.job = j
    BY DEF Sent
  <2>2. QED
    BY <1>1, <2>1 DEF UploadOk, UploadFail, Stored
<1>2. ASSUME UNCHANGED drive PROVE UNCHANGED Stored
  BY <1>2 DEF Stored
<1>3. CASE Tick \/ CancelCtx \/ Die \/ AllEnded \/ UNCHANGED vars
  BY <1>2, <1>3 DEF Tick, CancelCtx, Die, AllEnded, vars
<1>4. ASSUME NEW j \in Jobs, Begin(j) \/ Started(j) \/ Refused(j)
      PROVE  UNCHANGED drive
  BY <1>4
  DEF Begin, Started, Refused, DumpStart, CompressStart, UploadStart, NoTempDir,
      NoMongodump, NoDumpDir, DumpRefused, NoArchive, CompressRefused, UploadRefused
<1>5. ASSUME NEW j \in Jobs,
             \/ Preflight(j) \/ CompressOk(j) \/ CompressFail(j) \/ VerifyOk(j)
             \/ VerifyFail(j) \/ Cleanup(j) \/ ReportSuccess(j) \/ DumpOk(j)
             \/ DumpFail(j)
      PROVE  UNCHANGED drive
  BY <1>5
  DEF Preflight, CompressOk, CompressFail, VerifyOk, VerifyFail, Cleanup,
      ReportSuccess, DumpOk, DumpFail
<1>6. QED
  BY <1>1, <1>2, <1>3, <1>4, <1>5 DEF Next, Local, Answered

(* Where a step takes a job: no job comes back from its end, and one that   *)
(* is early stays so or ends, once its context is done.                     *)
Moved(k) ==
  /\ pc'[k] \in Unsent => pc[k] \in Unsent
  /\ pc[k] \in {"failed", "stranded", "lost"} => pc'[k] = pc[k]
  /\ pc[k] \in Early /\ ctxDone =>
       \/ pc'[k] \in {"failed", "stranded", "lost"}
       \/ pc'[k] \in Early /\ ctxDone'

LEMMA Moves == ASSUME TypeOK, [Next]_vars, NEW k \in Jobs PROVE Moved(k)
<1>T. pc \in [Jobs -> {"idle"} \cup Active \cup Ended]
  BY DEF TypeOK
<1> USE DEF Moved, Unsent, Early, Goto
<1>1. CASE Tick \/ CancelCtx \/ AllEnded \/ UNCHANGED vars
  BY <1>1 DEF Tick, CancelCtx, AllEnded, vars
<1>2. CASE Die
  BY <1>2, <1>T DEF Die, Active
<1>3. ASSUME NEW j \in Jobs, NEW p, Goto(j, p), UNCHANGED ctxDone,
             pc[j] \notin {"failed", "stranded", "lost"},
             p \in Unsent => pc[j] \in Unsent,
             pc[j] \in Early /\ ctxDone =>
               p \in {"failed", "stranded", "lost"} \cup Early
      PROVE  Moved(k)
  BY <1>3, <1>T
<1>4. ASSUME NEW j \in Jobs, Begin(j) \/ NoTempDir(j) \/ NoMongodump(j)
      PROVE  Moved(k)
  BY <1>3, <1>4 DEF Begin, NoTempDir, NoMongodump
<1>5. ASSUME NEW j \in Jobs, DumpStart(j) \/ NoDumpDir(j) \/ DumpRefused(j)
      PROVE  Moved(k)
  BY <1>3, <1>5 DEF DumpStart, NoDumpDir, DumpRefused
<1>6. ASSUME NEW j \in Jobs, CompressStart(j) \/ NoArchive(j) \/ CompressRefused(j)
      PROVE  Moved(k)
  BY <1>3, <1>6 DEF CompressStart, NoArchive, CompressRefused
<1>7. ASSUME NEW j \in Jobs, UploadStart(j) \/ UploadRefused(j)
      PROVE  Moved(k)
  BY <1>3, <1>7 DEF UploadStart, UploadRefused, GiveUpUpload
<1>8. ASSUME NEW j \in Jobs,
             \/ Preflight(j) \/ CompressOk(j) \/ CompressFail(j) \/ VerifyOk(j)
             \/ VerifyFail(j) \/ Cleanup(j) \/ ReportSuccess(j) \/ DumpOk(j)
             \/ DumpFail(j) \/ UploadOk(j) \/ UploadFail(j)
      PROVE  Moved(k)
  BY <1>8, <1>T
  DEF Preflight, CompressOk, CompressFail, VerifyOk, VerifyFail, Cleanup,
      ReportSuccess, DumpOk, DumpFail, UploadOk, UploadFail, GiveUpUpload
<1>9. QED
  BY <1>1, <1>2, <1>4, <1>5, <1>6, <1>7, <1>8
  DEF Next, Local, Answered, Started, Refused

LEMMA NothingSentHolds == Spec => []NothingSent
<1>1. Init => NothingSent
  BY DEF Init, NothingSent, Stored
<1>2. ASSUME TypeOK, NothingSent, [Next]_vars PROVE NothingSent'
  <2>1. ASSUME NEW j \in Jobs, UploadOk(j) \/ UploadFail(j)
        PROVE  pc'[j] \notin Unsent
    BY <1>2, <2>1
    DEF TypeOK, UploadOk, UploadFail, GiveUpUpload, Goto, Unsent, Early
  <2>2. ASSUME NEW k \in Jobs, pc'[k] \in Unsent PROVE k \notin Stored'
    BY <1>2, <2>1, <2>2, Moves, StoredGrows DEF NothingSent, Moved
  <2>3. QED
    BY <2>2 DEF NothingSent
<1>3. QED
  BY <1>1, <1>2, TypeCorrect, PTL DEF Spec

LEMMA StepHopeless ==
  ASSUME NEW k \in Jobs, TypeOK, Hopeless(k), [Next]_vars
  PROVE  Hopeless(k)'
<1>1. pc[k] # "uploading"
  BY DEF Hopeless, Early
<1>2. k \notin Stored'
  BY <1>1, StoredGrows DEF Hopeless
<1>3. QED
  BY <1>2, Moves DEF Hopeless, Moved

(* A job whose context is cancelled before it has an archive stores nothing *)
(* any more, whatever other jobs do and even if the process dies.           *)
THEOREM CancelledMeansNotStored == Spec => CancelledStoresNothing
<1>1. ASSUME NEW j \in Jobs
      PROVE  Spec => [](ctxDone /\ pc[j] \in Early => [](j \notin Stored))
  <2>1. NothingSent /\ ctxDone /\ pc[j] \in Early => Hopeless(j)
    BY DEF NothingSent, Hopeless, Unsent
  <2>2. TypeOK /\ Hopeless(j) /\ [Next]_vars => Hopeless(j)'
    BY StepHopeless
  <2>3. Hopeless(j) => j \notin Stored
    BY DEF Hopeless
  <2>4. QED
    BY <2>1, <2>2, <2>3, NothingSentHolds, TypeCorrect, PTL DEF Spec
<1>2. QED
  BY <1>1 DEF CancelledStoresNothing, Early
-----------------------------------------------------------------------------
(* The status settles.                                                      *)

(* A job has no dump before it starts one.                                  *)
Unstarted == \A j \in Jobs : pc[j] \in {"idle", "begun"} => dumpAt[j] = NoStamp

(* A job ends with a report, or by Die, or before it has a dump.            *)
LEMMA StepSettles ==
  ASSUME TypeOK, Unstarted, StatusSettles, [Next]_vars
  PROVE  StatusSettles'
<1>T. /\ pc \in [Jobs -> {"idle"} \cup Active \cup Ended]
      /\ dumpAt \in [Jobs -> Stamps \cup {NoStamp}]
  BY DEF TypeOK
<1>N. Failed # Running /\ Unknown # Running /\ \A s : Success(s) # Running
  BY DEF Failed, Unknown, Success, Running
<1> USE DEF StatusSettles
<1>1. CASE Tick \/ CancelCtx \/ AllEnded \/ UNCHANGED vars
  BY <1>1 DEF Tick, CancelCtx, AllEnded, Busy, names, vars
<1>2. CASE Die
  BY <1>2, <1>N DEF Die
<1>3. ASSUME status' # Running PROVE StatusSettles'
  BY <1>3
<1>4. ASSUME NEW j \in Jobs, NEW p \in Active, Goto(j, p) PROVE StatusSettles'
  <2>1. pc'[j] \in Active
    BY <1>4, <1>T DEF Goto
  <2>2. QED
    BY <2>1 DEF Busy
<1>5. ASSUME NEW j \in Jobs, NoMongodump(j) PROVE StatusSettles'
  <2>1. pc'[j] = "failed" /\ dumpAt'[j] = NoStamp
    BY <1>5, <1>T DEF NoMongodump, Goto, names, Unstarted
  <2>2. QED
    BY <2>1
<1>6. ASSUME NEW j \in Jobs, Begin(j) \/ Preflight(j) \/ Started(j)
      PROVE  StatusSettles'
  BY <1>4, <1>6
  DEF Begin, Preflight, Started, DumpStart, CompressStart, UploadStart, Active
<1>7. ASSUME NEW j \in Jobs,
             \/ DumpOk(j) \/ CompressOk(j) \/ VerifyOk(j) \/ UploadOk(j) \/ Cleanup(j)
      PROVE  StatusSettles'
  BY <1>4, <1>7 DEF DumpOk, CompressOk, VerifyOk, UploadOk, Cleanup, Active
<1>8. ASSUME NEW j \in Jobs,
             \/ NoTempDir(j) \/ NoDumpDir(j) \/ DumpRefused(j) \/ NoArchive(j)
             \/ CompressRefused(j) \/ UploadRefused(j) \/ DumpFail(j)
             \/ CompressFail(j) \/ VerifyFail(j) \/ UploadFail(j)
      PROVE  StatusSettles'
  <2>1. status' = Failed
    BY <1>8
    DEF NoTempDir, NoDumpDir, DumpRefused, NoArchive, CompressRefused,
        UploadRefused, DumpFail, CompressFail, VerifyFail, UploadFail,
        GiveUpUpload, Report
  <2>2. QED
    BY <1>3, <1>N, <2>1
<1>9. ASSUME NEW j \in Jobs, ReportSuccess(j) PROVE StatusSettles'
  BY <1>3, <1>9, <1>N DEF ReportSuccess, Report
<1>10. QED
  BY <1>1, <1>2, <1>5, <1>6, <1>7, <1>8, <1>9
  DEF Next, Local, Answered, Refused

LEMMA StepUnstarted ==
  ASSUME TypeOK, Unstarted, [Next]_vars
  PROVE  Unstarted'
<1>T. /\ pc \in [Jobs -> {"idle"} \cup Active \cup Ended]
      /\ dumpAt \in [Jobs -> Stamps \cup {NoStamp}]
  BY DEF TypeOK
<1> USE DEF Unstarted, Goto
<1>1. CASE Tick \/ CancelCtx \/ AllEnded \/ UNCHANGED vars
  BY <1>1 DEF Tick, CancelCtx, AllEnded, names, vars
<1>2. CASE Die
  BY <1>2, <1>T DEF Die, names
<1>3. ASSUME NEW j \in Jobs, NEW p, Goto(j, p),
             p \in {"idle", "begun"} => pc[j] = "idle",
             \/ UNCHANGED dumpAt
             \/ p \notin {"idle", "begun"} /\ dumpAt' = [dumpAt EXCEPT ![j] = now]
      PROVE  Unstarted'
  BY <1>3, <1>T
<1>4. ASSUME NEW j \in Jobs, Begin(j) \/ Preflight(j) \/ NoTempDir(j) \/ NoMongodump(j)
      PROVE  Unstarted'
  BY <1>3, <1>4 DEF Begin, Preflight, NoTempDir, NoMongodump, names
<1>5. ASSUME NEW j \in Jobs, DumpStart(j) \/ NoDumpDir(j) \/ DumpRefused(j)
      PROVE  Unstarted'
  BY <1>3, <1>5 DEF DumpStart, NoDumpDir, DumpRefused, names
<1>6. ASSUME NEW j \in Jobs, DumpOk(j) \/ DumpFail(j) PROVE Unstarted'
  BY <1>3, <1>6 DEF DumpOk, DumpFail, names
<1>7. ASSUME NEW j \in Jobs, CompressStart(j) \/ NoArchive(j) \/ CompressRefused(j)
      PROVE  Unstarted'
  BY <1>3, <1>7 DEF CompressStart, NoArchive, CompressRefused, names
<1>8. ASSUME NEW j \in Jobs,
             \/ CompressOk(j) \/ CompressFail(j) \/ VerifyOk(j) \/ VerifyFail(j)
      PROVE  Unstarted'
  BY <1>3, <1>8 DEF CompressOk, CompressFail, VerifyOk, VerifyFail, names
<1>9. ASSUME NEW j \in Jobs,
             \/ UploadStart(j) \/ UploadRefused(j) \/ UploadOk(j) \/ UploadFail(j)
             \/ Cleanup(j) \/ ReportSuccess(j)
      PROVE  Unstarted'
  BY <1>3, <1>9
  DEF UploadStart, UploadRefused, UploadOk, UploadFail, GiveUpUpload, Cleanup,
      ReportSuccess, names
<1>10. QED
  BY <1>1, <1>2, <1>4, <1>5, <1>6, <1>7, <1>8, <1>9
  DEF Next, Local, Answered, Started, Refused

(* The dashboard shows "running" only while a job is under way, or after    *)
(* one that found no mongodump, however jobs overlap, fail or die.          *)
THEOREM RunningEnds == Spec => []StatusSettles
<1>1. Init => Unstarted /\ StatusSettles
  BY DEF Init, Unstarted, StatusSettles, Unknown, Running
<1>2. TypeOK /\ Unstarted /\ StatusSettles /\ [Next]_vars
        => (Unstarted /\ StatusSettles)'
  BY StepUnstarted, StepSettles
<1>3. QED
  BY <1>1, <1>2, TypeCorrect, PTL DEF Spec
=============================================================================
