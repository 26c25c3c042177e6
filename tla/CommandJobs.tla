---------------------------- MODULE CommandJobs ----------------------------
(***************************************************************************)
(* The command jobs of the server (main.rs): requests that start and       *)
(* cancel jobs, a thread for each job that launches its process and waits  *)
(* for it, threads that read what the process prints, one mutex around the *)
(* registry, a durable record of each job, and a server that may crash at  *)
(* any point and read its records again.                                   *)
(*                                                                         *)
(* Whatever a thread does under the registry's lock is one action.  A      *)
(* record on disk is replaced as a whole (write_durable_json renames a     *)
(* synced file), or, when the write fails, not at all.  Of a record on     *)
(* disk the model keeps the status; progress and output are in no property *)
(* and appear as the writes they cause.                                    *)
(***************************************************************************)
EXTENDS Naturals, FiniteSets

CONSTANTS
  Job,                \* job ids, each given to one request
  MAX_ACTIVE_JOBS,
  MaxFailures,        \* bound: writes of records that fail
  MaxCrashes          \* bound: crashes of the server

ASSUME ConstantsAssumption ==
  /\ IsFiniteSet(Job) /\ MAX_ACTIVE_JOBS \in Nat \ {0}
  /\ {MaxFailures, MaxCrashes} \subseteq Nat

VARIABLES
  up, crashes,       \* the server runs; how often it crashed
  request,           \* job -> "new", "admitted", "answered": the request that starts it
  job,               \* job -> its JobRecord in the registry
  disk,              \* job -> the status in its durable record, or "none"
  failures,
  thread,            \* job -> where run_job_process is
  judged,            \* job -> the status it has decided on
  process,           \* job -> "none", "running", "succeeded", "failed", "killed"
  reader,            \* job -> "none" or "reading": its output reader
  canceller,         \* job -> "none", "killing", "answered": cancel_job
  verdict,           \* job -> the status finish_job gave it, or "none" (history)
  lost,              \* jobs whose last write failed (history)
  skipped            \* jobs whose record could not be read at the last start (history)

server == <<up, crashes, skipped>>
vars == <<server, request, job, disk, failures, thread, judged, process, reader,
          canceller, verdict, lost>>

Status == {"Running", "Succeeded", "Failed", "Canceled"}
JobRecord == [status : Status \cup {"none"}, cancel_requested : BOOLEAN, child : BOOLEAN]
NoJob == [status |-> "none", cancel_requested |-> FALSE, child |-> FALSE]

Init ==
  /\ up = TRUE /\ crashes = 0
  /\ request = [j \in Job |-> "new"]
  /\ job = [j \in Job |-> NoJob]
  /\ disk = [j \in Job |-> "none"]
  /\ failures = 0
  /\ thread = [j \in Job |-> "none"]
  /\ judged = [j \in Job |-> "none"]
  /\ process = [j \in Job |-> "none"]
  /\ reader = [j \in Job |-> "none"]
  /\ canceller = [j \in Job |-> "none"]
  /\ verdict = [j \in Job |-> "none"]
  /\ lost = {} /\ skipped = {}

\* persist_job_record: the whole record is written, or nothing.
Persist(j, r) ==
  \/ /\ disk' = [disk EXCEPT ![j] = r.status]
     /\ lost' = lost \ {j}
     /\ UNCHANGED failures
  \/ /\ failures < MaxFailures
     /\ failures' = failures + 1
     /\ lost' = lost \cup {j}
     /\ UNCHANGED disk

\* A change of the record under the lock, and its write, whose failure is only printed.
Update(j, r) == job' = [job EXCEPT ![j] = r] /\ Persist(j, r)

-----------------------------------------------------------------------------
\* start_job: the running jobs are counted under one lock, the job is inserted under
\* the next.

Running == {j \in Job : job[j].status = "Running"}

Admit(j) ==
  /\ request[j] = "new"
  /\ Cardinality(Running) < MAX_ACTIVE_JOBS
  /\ request' = [request EXCEPT ![j] = "admitted"]
  /\ UNCHANGED <<job, disk, failures, lost, thread>>

\* Mutant: the first record is left to the thread's first change of the progress.
Insert_InMemory(j) ==
  /\ request[j] = "admitted"
  /\ request' = [request EXCEPT ![j] = "answered"]
  /\ job' = [job EXCEPT ![j] = [NoJob EXCEPT !.status = "Running"]]
  /\ thread' = [thread EXCEPT ![j] = "launch"]
  /\ UNCHANGED <<disk, failures, lost>>

\* A job whose record cannot be written is removed again.
Insert(j) ==
  /\ request[j] = "admitted"
  /\ request' = [request EXCEPT ![j] = "answered"]
  /\ LET r == [NoJob EXCEPT !.status = "Running"] IN
     \/ /\ job' = [job EXCEPT ![j] = r]
        /\ disk' = [disk EXCEPT ![j] = r.status]
        /\ thread' = [thread EXCEPT ![j] = "launch"]
        /\ UNCHANGED <<failures, lost>>
     \/ /\ failures < MaxFailures
        /\ failures' = failures + 1
        /\ UNCHANGED <<job, disk, lost, thread>>

StartJob(j) ==
  /\ up
  /\ Admit(j) \/ Insert(j)
  /\ UNCHANGED <<server, judged, process, reader, canceller, verdict>>

-----------------------------------------------------------------------------
\* run_job_process

Launch(j) ==
  /\ thread[j] = "launch"
  /\ Update(j, job[j])
  /\ thread' = [thread EXCEPT ![j] = "spawn"]
  /\ UNCHANGED <<judged, process, reader>>

\* Command::spawn, and the line that says that it failed.
Spawn(j) ==
  /\ thread[j] = "spawn"
  /\ \/ /\ process' = [process EXCEPT ![j] = "running"]
        /\ thread' = [thread EXCEPT ![j] = "attach"]
        /\ UNCHANGED <<job, disk, failures, lost, judged>>
     \/ /\ Update(j, job[j])
        /\ thread' = [thread EXCEPT ![j] = "finish"]
        /\ judged' = [judged EXCEPT ![j] = "Failed"]
        /\ UNCHANGED process
  /\ UNCHANGED reader

Attach(j) ==
  /\ thread[j] = "attach"
  /\ job' = [job EXCEPT ![j].child = TRUE]
  /\ thread' = [thread EXCEPT ![j] = "poll"]
  /\ reader' = [reader EXCEPT ![j] = "reading"]
  /\ UNCHANGED <<disk, failures, lost, judged, process>>

\* try_wait, every 250 ms.  The guard of the child's lock lives as long as the match on
\* what try_wait gave, and so the thread sleeps with the lock held, and gives up with it.
Poll(j) ==
  /\ thread[j] = "poll"
  /\ \/ /\ thread' = [thread EXCEPT ![j] = IF process[j] = "running" THEN "asleep" ELSE "judge"]
        /\ UNCHANGED <<job, disk, failures, lost, judged>>
     \/ /\ Update(j, job[j])
        /\ thread' = [thread EXCEPT ![j] = "giveup"]
        /\ judged' = [judged EXCEPT ![j] = "Failed"]
  /\ UNCHANGED <<process, reader>>

Wake(j) ==
  /\ thread[j] = "asleep"
  /\ thread' = [thread EXCEPT ![j] = "poll"]
  /\ UNCHANGED <<job, disk, failures, lost, judged, process, reader>>

\* Mutant: the exit status is not looked at.
Judge_AnyExit(j) ==
  /\ thread[j] = "judge"
  /\ judged' = [judged EXCEPT ![j] =
       IF job[j].cancel_requested THEN "Canceled" ELSE "Succeeded"]
  /\ thread' = [thread EXCEPT ![j] = "finish"]
  /\ UNCHANGED <<job, disk, failures, lost, process, reader>>

\* Mutant: a cancelled job is left to cancel_job, which does not finish it.
Judge_CancelReturns(j) ==
  /\ thread[j] = "judge"
  /\ judged' = [judged EXCEPT ![j] =
       IF process[j] = "succeeded" THEN "Succeeded" ELSE "Failed"]
  /\ thread' = [thread EXCEPT ![j] = IF job[j].cancel_requested THEN "none" ELSE "finish"]
  /\ UNCHANGED <<job, disk, failures, lost, process, reader>>

\* The status depends on whether a cancel was requested by now, not on whether it is
\* what ended the process.
Judge(j) ==
  /\ thread[j] = "judge"
  /\ judged' = [judged EXCEPT ![j] =
       IF job[j].cancel_requested THEN "Canceled"
       ELSE IF process[j] = "succeeded" THEN "Succeeded" ELSE "Failed"]
  /\ thread' = [thread EXCEPT ![j] = "finish"]
  /\ UNCHANGED <<job, disk, failures, lost, process, reader>>

Finished(r, status) == [r EXCEPT !.status = status, !.child = FALSE]

\* Mutant: the final status is not written.
FinishJob_Unsaved(j) ==
  /\ thread[j] \in {"finish", "giveup"}
  /\ job' = [job EXCEPT ![j] = Finished(job[j], judged[j])]
  /\ verdict' = [verdict EXCEPT ![j] = judged[j]]
  /\ thread' = [thread EXCEPT ![j] = "none"]
  /\ UNCHANGED <<disk, lost, failures, judged, process, reader>>

FinishJob(j) ==
  /\ thread[j] \in {"finish", "giveup"}
  /\ Update(j, Finished(job[j], judged[j]))
  /\ verdict' = [verdict EXCEPT ![j] = judged[j]]
  /\ thread' = [thread EXCEPT ![j] = "none"]
  /\ UNCHANGED <<judged, process, reader>>

RunJob(j) ==
  /\ up
  /\ \/ (Launch(j) \/ Spawn(j) \/ Attach(j) \/ Poll(j) \/ Wake(j) \/ Judge(j)) /\ UNCHANGED verdict
     \/ FinishJob(j)
  /\ UNCHANGED <<server, request, canceller>>

-----------------------------------------------------------------------------
\* spawn_output_reader: a line is appended to the output, and what can be inferred from it
\* becomes the progress, of a finished job too; each is a write of the whole record.  One
\* reader stands for the two of the code, which do the same.

Read(j) ==
  /\ up
  /\ reader[j] = "reading"
  /\ Update(j, job[j])
  /\ UNCHANGED <<server, request, thread, judged, process, reader, canceller, verdict>>

-----------------------------------------------------------------------------
\* cancel_job.  The flag is set under the registry's lock, the process is killed under
\* the child's; a job that has no child yet keeps the flag, and the client is told that
\* the job is unknown or finished.

RequestCancel(j) ==
  /\ canceller[j] = "none"
  /\ job[j].status = "Running"
  /\ job' = [job EXCEPT ![j].cancel_requested = TRUE]
  /\ canceller' = [canceller EXCEPT ![j] = IF job[j].child THEN "killing" ELSE "none"]
  /\ UNCHANGED <<disk, failures, lost, process>>

\* Killing a process that has exited is no error.
Kill(j) ==
  /\ canceller[j] = "killing"
  /\ thread[j] \notin {"asleep", "giveup"}
  /\ process' = [process EXCEPT ![j] = IF @ = "running" THEN "killed" ELSE @]
  /\ canceller' = [canceller EXCEPT ![j] = "answered"]
  /\ Update(j, job[j])

CancelJob(j) ==
  /\ up
  /\ RequestCancel(j) \/ Kill(j)
  /\ UNCHANGED <<server, request, thread, judged, reader, verdict>>

-----------------------------------------------------------------------------
ProcessExits(j) ==
  /\ process[j] = "running"
  /\ \E how \in {"succeeded", "failed"} : process' = [process EXCEPT ![j] = how]
  /\ UNCHANGED <<server, request, job, disk, failures, thread, judged, reader,
                 canceller, verdict, lost>>

\* The server's memory and threads are gone; its child processes are not.
Crash ==
  /\ up /\ crashes < MaxCrashes
  /\ up' = FALSE /\ crashes' = crashes + 1
  /\ job' = [j \in Job |-> NoJob]
  /\ request' = [j \in Job |-> IF request[j] = "new" THEN "new" ELSE "answered"]
  /\ thread' = [j \in Job |-> "none"]
  /\ judged' = [j \in Job |-> "none"]
  /\ reader' = [j \in Job |-> "none"]
  /\ canceller' = [j \in Job |-> "none"]
  /\ UNCHANGED <<disk, failures, process, verdict, lost, skipped>>

\* Mutant: records are loaded as they are.
Restored_AsIs(status) == status

\* A job that was running when its last record was written is restored as failed.
Restored(status) == IF status = "Running" THEN "Failed" ELSE status

\* load_job_registry.  A record that cannot be read is skipped, as it is and for this time;
\* each other one is written again.  A write that fails leaves the old record, to be
\* reconciled at the next restart.
Restart ==
  /\ ~up /\ up' = TRUE
  /\ skipped' \in SUBSET {j \in Job : disk[j] # "none"}
  /\ job' = [j \in Job |-> IF j \in skipped' THEN NoJob
                           ELSE [NoJob EXCEPT !.status = Restored(disk[j])]]
  /\ \E unwritten \in SUBSET {j \in Job \ skipped' : disk[j] # "none"} :
       /\ failures + Cardinality(unwritten) <= MaxFailures
       /\ failures' = failures + Cardinality(unwritten)
       /\ disk' = [j \in Job |-> IF j \in unwritten \cup skipped' THEN disk[j]
                                 ELSE Restored(disk[j])]
  /\ UNCHANGED <<crashes, request, thread, judged, process, reader, canceller,
                 verdict, lost>>

Work(j) == StartJob(j) \/ RunJob(j) \/ Read(j) \/ CancelJob(j) \/ ProcessExits(j)

Next == (\E j \in Job : Work(j)) \/ Crash \/ Restart

\* The thread of a job runs on; nobody has to start or cancel a job, no process has to end
\* by itself, and no server has to crash or restart.
Spec ==
  /\ Init /\ [][Next]_vars
  /\ \A j \in Job : WF_vars(RunJob(j))

-----------------------------------------------------------------------------
\* Types of the variables.
TypeOK ==
  /\ up \in BOOLEAN /\ crashes \in Nat /\ failures \in Nat
  /\ request \in [Job -> {"new", "admitted", "answered"}]
  /\ job \in [Job -> JobRecord]
  /\ disk \in [Job -> Status \cup {"none"}]
  /\ thread \in [Job -> {"none", "launch", "spawn", "attach", "poll", "asleep", "judge",
                      "finish", "giveup"}]
  /\ judged \in [Job -> Status \cup {"none"}]
  /\ process \in [Job -> {"none", "running", "succeeded", "failed", "killed"}]
  /\ reader \in [Job -> {"none", "reading"}]
  /\ canceller \in [Job -> {"none", "killing", "answered"}]
  /\ verdict \in [Job -> Status \cup {"none"}]
  /\ lost \subseteq Job /\ skipped \subseteq Job

\* docs/speech-workspace-navigation.md:48-49: a job's record is created "before the
\* process launches".  A process the server has launched is never unknown to the disk,
\* wherever the server crashes and whichever writes fail.
RecordBeforeProcess == \A j \in Job : process[j] # "none" => disk[j] # "none"

\* A job that is shown as running has a thread of this server that will finish it: no
\* job stays running for good, not in a server that came back from a crash either, and
\* none that has a thread is shown as finished.
RunningIsServed ==
  \A j \in Job : up => (job[j].status = "Running" <=> thread[j] # "none")

\* A final status is final: whatever readers, cancels and restarts do after it, it stays on
\* disk, unless its record could not be written, and the job is shown with it, unless the
\* server has skipped that record at its last start and does not show the job at all.
FinalForGood ==
  \A j \in Job :
    up /\ verdict[j] # "none" /\ j \notin lost =>
      /\ disk[j] = verdict[j]
      /\ job[j].status = IF j \in skipped THEN "none" ELSE verdict[j]

\* What is shown as succeeded did succeed: no cancel, restart, late line of output or failed
\* write makes a success of a job that was killed, failed, or was interrupted ("Tongues
\* never presents it as completed", docs/speech-workspace-navigation.md:53).
SucceededDid ==
  \A j \in Job : job[j].status = "Succeeded" \/ disk[j] = "Succeeded" =>
    process[j] = "succeeded"

\* A cancel that is answered ok ends the job, with no help of the process, unless the
\* server crashes.  (Whether it is ever answered is left to the fairness of the child's
\* lock, which the polling thread frees only to take it again.)
CancelEnds ==
  \A j \in Job : canceller[j] = "answered" ~> (~up \/ job[j].status # "Running")
=============================================================================
