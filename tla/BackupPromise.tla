---------------------------- MODULE BackupPromise ----------------------------
(***************************************************************************)
(* What a backup job promises whoever reads its outcome: a job that is     *)
(* reported as a success has put an archive on Drive.  The converse is not *)
(* promised: a job that failed may have stored one, when Drive stored it   *)
(* and the answer was lost, or when the process died before the report.    *)
(***************************************************************************)
CONSTANT Jobs

VARIABLES outcome,      \* what is known of each job
          stored        \* the jobs that have an archive on Drive

vars == <<outcome, stored>>

Init ==
  /\ outcome = [j \in Jobs |-> "waiting"]
  /\ stored = {}

Start(j) ==
  /\ outcome[j] = "waiting"
  /\ outcome' = [outcome EXCEPT ![j] = "running"]
  /\ UNCHANGED stored

(* The archive is on Drive, and the job knows it.                           *)
Store(j) ==
  /\ outcome[j] = "running"
  /\ stored' = stored \cup {j}
  /\ UNCHANGED outcome

Succeed(j) ==
  /\ outcome[j] = "running"
  /\ j \in stored
  /\ outcome' = [outcome EXCEPT ![j] = "succeeded"]
  /\ UNCHANGED stored

(* The job gives up; Drive may have stored the archive all the same.        *)
Fail(j) ==
  /\ outcome[j] = "running"
  /\ outcome' = [outcome EXCEPT ![j] = "failed"]
  /\ stored' \in {stored, stored \cup {j}}

(* The process dies, and every job under way with it.                       *)
Crash ==
  /\ outcome' = [j \in Jobs |-> IF outcome[j] = "running" THEN "failed"
                                                          ELSE outcome[j]]
  /\ UNCHANGED stored

Next == Crash \/ \E j \in Jobs : Start(j) \/ Store(j) \/ Succeed(j) \/ Fail(j)

Spec == Init /\ [][Next]_vars
=============================================================================
