-------------------------- MODULE ServerWorkProofs --------------------------
(***************************************************************************)
(* What CommandJobs guarantees for every set of jobs and every number of   *)
(* crashes and failed writes, what PipelineRuns guarantees for every set   *)
(* of runs, every graph, every channel and any number of failed writes,    *)
(* and that both hold in the server that has both: to the jobs the steps   *)
(* of a run are stuttering steps, and the other way round, and a crash is  *)
(* one for both.                                                           *)
(*                                                                         *)
(* The invariants of the runs of TLC are not inductive: that a job is      *)
(* shown with its verdict, say, needs that no reader or canceller can      *)
(* write an older status over it.  JobInv adds what the threads of a job   *)
(* know of each other.                                                     *)
(***************************************************************************)
EXTENDS ServerWork, FiniteSetTheorems, TLAPS

USE ConstantsAssumption

\* The changes of a record keep it a record, and what they make of its status.
LEMMA RecordFacts ==
  /\ NoJob \in JobRecord /\ NoJob.status = "none"
  /\ \A s \in Status \cup {"none"} :
       [NoJob EXCEPT !.status = s] \in JobRecord /\ [NoJob EXCEPT !.status = s].status = s
  /\ \A r \in JobRecord :
       /\ r.status \in Status \cup {"none"} /\ r.child \in BOOLEAN
       /\ [r EXCEPT !.child = TRUE] \in JobRecord
       /\ [r EXCEPT !.child = TRUE].status = r.status
       /\ [r EXCEPT !.cancel_requested = TRUE] \in JobRecord
       /\ [r EXCEPT !.cancel_requested = TRUE].status = r.status
BY DEF JobRecord, NoJob

\* What is recorded of a job.
LEMMA JobFacts ==
  ASSUME TypeOK, NEW j \in Job
  PROVE  job[j] \in JobRecord /\ job[j].status \in Status \cup {"none"}
<1>1. job[j] \in JobRecord
  BY DEF TypeOK
<1>2. \A r \in JobRecord : r.status \in Status \cup {"none"}
  BY DEF JobRecord
<1> QED
  BY <1>1, <1>2, Zenon

\* finish_job gives a record the decided status and takes its child.
LEMMA FinishedFacts ==
  ASSUME NEW r \in JobRecord, NEW s \in Status \cup {"none"}
  PROVE  Finished(r, s) \in JobRecord /\ Finished(r, s).status = s
BY DEF JobRecord, Finished

\* The first state has the types.
LEMMA TypeOKInit == Init => TypeOK
BY RecordFacts DEF Init, TypeOK

(* The type invariant: no request, thread, crash or restart takes a variable out of its
   type. *)
THEOREM TypeCorrect == Spec => []TypeOK
<1>1. Init => TypeOK
  BY TypeOKInit
<1>2. TypeOK /\ [Next]_vars => TypeOK'
  <2> SUFFICES ASSUME TypeOK, [Next]_vars PROVE TypeOK'
    OBVIOUS
  <2> USE DEF TypeOK
  <2>1. ASSUME NEW j \in Job, NEW r \in JobRecord, Update(j, r)
        PROVE /\ job' \in [Job -> JobRecord] /\ disk' \in [Job -> Status \cup {"none"}]
              /\ failures' \in Nat /\ lost' \subseteq Job
    <3>1. r.status \in Status \cup {"none"}
      BY DEF JobRecord
    <3>2. failures + 1 \in Nat
      OBVIOUS
    <3> QED
      BY <2>1, <3>1, <3>2 DEF Update, Persist
  <2>2. \A j \in Job : job[j] \in JobRecord
    OBVIOUS
  <2>3. ASSUME NEW j \in Job, StartJob(j) PROVE TypeOK'
    <3> USE <2>3 DEF StartJob, server
    <3>1. CASE Admit(j)
      BY <3>1 DEF Admit
    <3>2. CASE Insert(j)
      BY <3>2, RecordFacts DEF Insert, Status
    <3> QED
      BY <3>1, <3>2
  <2>4. ASSUME NEW j \in Job, RunJob(j) PROVE TypeOK'
    <3>1. UNCHANGED <<up, crashes, skipped, request, canceller>>
      BY <2>4 DEF RunJob, server
    <3>2. CASE Launch(j) /\ UNCHANGED verdict
      BY <3>1, <3>2, <2>1, <2>2 DEF Launch
    <3>3. CASE Spawn(j) /\ UNCHANGED verdict
      BY <3>1, <3>3, <2>1, <2>2 DEF Spawn, Status
    <3>4. CASE Attach(j) /\ UNCHANGED verdict
      BY <3>1, <3>4, <2>2, RecordFacts DEF Attach
    <3>5. CASE Poll(j) /\ UNCHANGED verdict
      BY <3>1, <3>5, <2>1, <2>2 DEF Poll, Status
    <3>6. CASE Wake(j) /\ UNCHANGED verdict
      BY <3>1, <3>6 DEF Wake
    <3>7. CASE Judge(j) /\ UNCHANGED verdict
      BY <3>1, <3>7 DEF Judge, Status
    <3>8. CASE FinishJob(j)
      <4>1. judged[j] \in Status \cup {"none"}
        OBVIOUS
      <4> QED
        BY <3>1, <3>8, <4>1, <2>1, <2>2, FinishedFacts DEF FinishJob
    <3> QED
      BY <2>4, <3>2, <3>3, <3>4, <3>5, <3>6, <3>7, <3>8 DEF RunJob
  <2>5. ASSUME NEW j \in Job, Read(j) PROVE TypeOK'
    BY <2>5, <2>1, <2>2 DEF Read, server
  <2>6. ASSUME NEW j \in Job, CancelJob(j) PROVE TypeOK'
    <3> USE <2>6 DEF CancelJob, server
    <3>1. CASE RequestCancel(j)
      BY <3>1, <2>2, RecordFacts DEF RequestCancel
    <3>2. CASE Kill(j)
      BY <3>2, <2>1, <2>2 DEF Kill
    <3> QED
      BY <3>1, <3>2
  <2>7. ASSUME NEW j \in Job, ProcessExits(j) PROVE TypeOK'
    <3>1. process' \in [Job -> {"none", "running", "succeeded", "failed", "killed"}]
      BY <2>7 DEF ProcessExits
    <3> QED
      BY <2>7, <3>1 DEF ProcessExits, server
  <2>8. CASE Crash
    <3>1. job' \in [Job -> JobRecord]
      BY <2>8, RecordFacts DEF Crash
    <3>2. request' \in [Job -> {"new", "admitted", "answered"}]
      BY <2>8 DEF Crash
    <3>3. crashes' = crashes + 1
      BY <2>8 DEF Crash
    <3>4. crashes' \in Nat
      BY <3>3
    <3> QED
      BY <2>8, <3>1, <3>2, <3>4 DEF Crash
  <2>9. CASE Restart
    <3>1. failures' \in Nat
      <4>1. PICK S \in SUBSET Job : failures' = failures + Cardinality(S)
        BY <2>9 DEF Restart
      <4>2. Cardinality(S) \in Nat
        BY FS_Subset, FS_CardinalityType
      <4> QED
        BY <4>1, <4>2
    <3> QED
      <4>1. \A j \in Job : Restored(disk[j]) \in Status \cup {"none"}
        BY DEF Restored, Status
      <4>2. job' \in [Job -> JobRecord] /\ skipped' \subseteq Job
        BY <2>9, <4>1, RecordFacts DEF Restart
      <4>3. disk' \in [Job -> Status \cup {"none"}]
        BY <2>9, <4>1 DEF Restart
      <4> QED
        BY <2>9, <3>1, <4>2, <4>3 DEF Restart
  <2>10. CASE UNCHANGED vars
    BY <2>10 DEF vars, server
  <2> QED
    BY <2>3, <2>4, <2>5, <2>6, <2>7, <2>8, <2>9, <2>10 DEF Next, Work
<1> QED
  BY <1>1, <1>2, PTL DEF Spec

Final == Status \ {"Running"}

\* What the threads of job j, its records and its history know of each other.
JobInv(j) ==
  /\ up => (job[j].status = "Running" <=> thread[j] # "none")
  /\ ~up => job[j] = NoJob
  /\ job[j].status = "none" =>
       thread[j] = "none" /\ reader[j] = "none" /\ canceller[j] # "killing"
  /\ job[j].status # "none" => disk[j] # "none"
  /\ request[j] # "answered" =>
       job[j].status = "none" /\ disk[j] = "none" /\ process[j] = "none" /\ verdict[j] = "none"
  /\ thread[j] \in {"launch", "spawn"} => process[j] = "none"
  /\ process[j] # "none" => disk[j] # "none"
  /\ thread[j] \in {"finish", "giveup"} =>
       judged[j] \in Final /\ (judged[j] = "Succeeded" => process[j] = "succeeded")
  /\ verdict[j] # "none" => verdict[j] \in Final /\ thread[j] = "none"
  /\ verdict[j] # "none" /\ j \notin lost => disk[j] = verdict[j]
  /\ /\ up /\ verdict[j] # "none"
     /\ j \notin lost \/ reader[j] # "none" \/ canceller[j] = "killing"
     => job[j].status = IF j \in skipped THEN "none" ELSE verdict[j]
  /\ j \in skipped => request[j] = "answered" /\ job[j].status = "none"
  /\ job[j].status = "Succeeded" \/ disk[j] = "Succeeded" => process[j] = "succeeded"

\* A job that a step does not touch keeps what is known of it.
LEMMA Untouched ==
  ASSUME NEW k \in Job, JobInv(k), up' = up, job'[k] = job[k], disk'[k] = disk[k],
         request'[k] = request[k], thread'[k] = thread[k], judged'[k] = judged[k],
         process'[k] = process[k], reader'[k] = reader[k], canceller'[k] = canceller[k],
         verdict'[k] = verdict[k], k \in lost' <=> k \in lost, skipped' = skipped
  PROVE  JobInv(k)'
BY DEF JobInv

\* The two outcomes of a change of j's record, for j and for the other jobs.
LEMMA UpdateFacts ==
  ASSUME TypeOK, NEW j \in Job, NEW r \in JobRecord, Update(j, r)
  PROVE  /\ job'[j] = r
         /\ \/ disk'[j] = r.status /\ j \notin lost'
            \/ disk'[j] = disk[j] /\ j \in lost'
         /\ \A k \in Job \ {j} :
              job'[k] = job[k] /\ disk'[k] = disk[k] /\ (k \in lost' <=> k \in lost)
BY DEF Update, Persist, TypeOK

\* start_job keeps what is known of every job, whether the record could be written or not.
LEMMA StartStep ==
  ASSUME TypeOK, NEW j \in Job, StartJob(j), \A k \in Job : JobInv(k)
  PROVE  \A k \in Job : JobInv(k)'
<1> USE DEF StartJob, server, TypeOK
<1>1. ASSUME NEW k \in Job, k # j PROVE JobInv(k)'
  BY <1>1, Untouched DEF Admit, Insert
<1>2. JobInv(j)'
  <2>1. CASE Admit(j)
    BY <2>1 DEF Admit, JobInv
  <2>2. CASE Insert(j)
    <3>1. job[j].status = "none" /\ process[j] = "none" /\ verdict[j] = "none"
      BY <2>2 DEF Insert, JobInv
    <3> DEFINE r == [NoJob EXCEPT !.status = "Running"]
    <3>r. r.status = "Running"
      BY RecordFacts DEF Status
    <3> HIDE DEF r
    <3>2. CASE UNCHANGED <<job, disk, lost, thread>>
      BY <2>2, <3>1, <3>2 DEF Insert, JobInv
    <3>3. CASE job'[j].status = "Running" /\ disk'[j] = "Running" /\ thread'[j] = "launch"
      BY <2>2, <3>1, <3>3 DEF Insert, JobInv
    <3> QED
      <4>1. \/ UNCHANGED <<job, disk, lost, thread>>
            \/ /\ job' = [job EXCEPT ![j] = r] /\ disk' = [disk EXCEPT ![j] = r.status]
               /\ thread' = [thread EXCEPT ![j] = "launch"]
        BY <2>2 DEF Insert, r
      <4> QED
        BY <3>r, <3>2, <3>3, <4>1
  <2> QED
    BY <2>1, <2>2
<1> QED
  BY <1>1, <1>2

\* So does every step of run_job_process, for the thread's own job and the others.
LEMMA RunStep ==
  ASSUME TypeOK, NEW j \in Job, RunJob(j), \A k \in Job : JobInv(k)
  PROVE  \A k \in Job : JobInv(k)'
<1>a. job[j] \in JobRecord /\ job[j].status \in Status \cup {"none"}
  BY JobFacts
<1>1. /\ up /\ up' = up /\ UNCHANGED <<request, canceller, skipped>>
      /\ job[j] \in JobRecord /\ job[j].status \in Status \cup {"none"}
  BY <1>a DEF RunJob, server
<1> USE DEF TypeOK
<1>2. CASE Launch(j) /\ UNCHANGED verdict
  <2>1. ASSUME NEW k \in Job, k # j PROVE JobInv(k)'
    BY <1>1, <1>2, <2>1, UpdateFacts, Untouched DEF Launch
  <2>2. JobInv(j)'
    BY <1>1, <1>2, UpdateFacts DEF Launch, JobInv
  <2> QED
    BY <2>1, <2>2
<1>3. CASE Spawn(j) /\ UNCHANGED verdict
  <2>1. CASE process' = [process EXCEPT ![j] = "running"] /\ UNCHANGED <<job, disk, lost>>
    <3>1. ASSUME NEW k \in Job, k # j PROVE JobInv(k)'
      BY <1>1, <1>3, <2>1, <3>1, Untouched DEF Spawn
    <3>2. thread'[j] \in {"attach", "finish"} /\ process'[j] = "running"
      BY <1>3, <2>1 DEF Spawn
    <3> QED
      BY <1>1, <1>3, <2>1, <3>1, <3>2 DEF Spawn, JobInv
  <2>2. CASE /\ Update(j, job[j]) /\ UNCHANGED process
             /\ thread'[j] = "finish" /\ judged'[j] = "Failed"
    <3>1. ASSUME NEW k \in Job, k # j PROVE JobInv(k)'
      BY <1>1, <1>3, <2>2, <3>1, UpdateFacts, Untouched DEF Spawn
    <3>2. JobInv(j)'
      BY <1>1, <1>3, <2>2, UpdateFacts DEF Spawn, JobInv, Final, Status
    <3> QED
      BY <3>1, <3>2
  <2> QED
    BY <1>3, <2>1, <2>2 DEF Spawn
<1>4. CASE Attach(j) /\ UNCHANGED verdict
  <2>1. ASSUME NEW k \in Job, k # j PROVE JobInv(k)'
    BY <1>1, <1>4, <2>1, Untouched DEF Attach
  <2>2. job'[j].status = job[j].status
    BY <1>1, <1>4, RecordFacts DEF Attach
  <2>3. JobInv(j)'
    BY <1>1, <1>4, <2>2 DEF Attach, JobInv
  <2> QED
    BY <2>1, <2>3
<1>5. CASE Poll(j) /\ UNCHANGED verdict
  <2>1. CASE UNCHANGED <<job, disk, lost, judged>> /\ thread'[j] \in {"asleep", "judge"}
    <3>1. ASSUME NEW k \in Job, k # j PROVE JobInv(k)'
      BY <1>1, <1>5, <2>1, <3>1, Untouched DEF Poll
    <3>2. JobInv(j)'
      BY <1>1, <1>5, <2>1 DEF Poll, JobInv
    <3> QED
      BY <3>1, <3>2
  <2>2. CASE Update(j, job[j]) /\ thread'[j] = "giveup" /\ judged'[j] = "Failed"
    <3>1. ASSUME NEW k \in Job, k # j PROVE JobInv(k)'
      BY <1>1, <1>5, <2>2, <3>1, UpdateFacts, Untouched DEF Poll
    <3>2. JobInv(j)'
      BY <1>1, <1>5, <2>2, UpdateFacts DEF Poll, JobInv, Final, Status
    <3> QED
      BY <3>1, <3>2
  <2> QED
    BY <1>5, <2>1, <2>2 DEF Poll
<1>6. CASE Wake(j) /\ UNCHANGED verdict
  <2>1. ASSUME NEW k \in Job, k # j PROVE JobInv(k)'
    BY <1>1, <1>6, <2>1, Untouched DEF Wake
  <2>2. JobInv(j)'
    BY <1>1, <1>6 DEF Wake, JobInv
  <2> QED
    BY <2>1, <2>2
<1>7. CASE Judge(j) /\ UNCHANGED verdict
  <2>1. ASSUME NEW k \in Job, k # j PROVE JobInv(k)'
    BY <1>1, <1>7, <2>1, Untouched DEF Judge
  <2>2. judged'[j] \in Final /\ (judged'[j] = "Succeeded" => process[j] = "succeeded")
    BY <1>7 DEF Judge, Final, Status
  <2>3. JobInv(j)'
    BY <1>1, <1>7, <2>2 DEF Judge, JobInv
  <2> QED
    BY <2>1, <2>3
<1>8. CASE FinishJob(j)
  <2>1. judged[j] \in Final /\ (judged[j] = "Succeeded" => process[j] = "succeeded")
    BY <1>8 DEF FinishJob, JobInv
  <2>2. /\ Finished(job[j], judged[j]) \in JobRecord
        /\ Finished(job[j], judged[j]).status = judged[j]
    <3>1. judged[j] \in Status \cup {"none"}
      OBVIOUS
    <3> QED
      BY <1>1, <3>1, FinishedFacts
  <2>3. ASSUME NEW k \in Job, k # j PROVE JobInv(k)'
    BY <1>1, <1>8, <2>2, <2>3, UpdateFacts, Untouched DEF FinishJob
  <2>4. /\ job'[j].status = judged[j] /\ thread'[j] = "none" /\ verdict'[j] = judged[j]
        /\ disk'[j] = judged[j] \/ (disk'[j] = disk[j] /\ j \in lost')
    BY <1>8, <2>2, UpdateFacts DEF FinishJob
  <2>5. JobInv(j)'
    BY <1>1, <1>8, <2>1, <2>4 DEF FinishJob, JobInv, Final, Status
  <2> QED
    BY <2>3, <2>5
<1> QED
  BY <1>2, <1>3, <1>4, <1>5, <1>6, <1>7, <1>8 DEF RunJob

\* So does a reader, that of a finished job too.
LEMMA ReadStep ==
  ASSUME TypeOK, NEW j \in Job, Read(j), \A k \in Job : JobInv(k)
  PROVE  \A k \in Job : JobInv(k)'
<1>1. job[j] \in JobRecord /\ job[j].status \in Status \cup {"none"}
  BY JobFacts
<1>2. ASSUME NEW k \in Job, k # j PROVE JobInv(k)'
  BY <1>1, <1>2, UpdateFacts, Untouched DEF Read, server
<1>3. JobInv(j)'
  BY <1>1, UpdateFacts DEF Read, server, JobInv
<1> QED
  BY <1>2, <1>3

\* So does cancel_job, which leaves the status to the thread.
LEMMA CancelStep ==
  ASSUME TypeOK, NEW j \in Job, CancelJob(j), \A k \in Job : JobInv(k)
  PROVE  \A k \in Job : JobInv(k)'
<1>1. job[j] \in JobRecord /\ job[j].status \in Status \cup {"none"}
  BY JobFacts
<1> USE DEF TypeOK
<1>2. CASE RequestCancel(j)
  <2>1. ASSUME NEW k \in Job, k # j PROVE JobInv(k)'
    BY <1>2, <2>1, Untouched DEF CancelJob, RequestCancel, server
  <2>2. job'[j].status = "Running" /\ job[j].status = "Running"
    BY <1>1, <1>2, RecordFacts DEF RequestCancel
  <2>3. JobInv(j)'
    BY <1>2, <2>2 DEF CancelJob, RequestCancel, server, JobInv, Status
  <2> QED
    BY <2>1, <2>3
<1>3. CASE Kill(j)
  <2>1. ASSUME NEW k \in Job, k # j PROVE JobInv(k)'
    BY <1>1, <1>3, <2>1, UpdateFacts, Untouched DEF CancelJob, Kill, server
  <2>2. /\ process[j] = "none" <=> process'[j] = "none"
        /\ process[j] = "succeeded" <=> process'[j] = "succeeded"
    BY <1>3 DEF Kill
  <2>3. JobInv(j)'
    BY <1>1, <1>3, <2>2, UpdateFacts DEF CancelJob, Kill, server, JobInv
  <2> QED
    BY <2>1, <2>3
<1> QED
  BY <1>2, <1>3 DEF CancelJob

\* So does a process that exits by itself.
LEMMA ExitStep ==
  ASSUME TypeOK, NEW j \in Job, ProcessExits(j), \A k \in Job : JobInv(k)
  PROVE  \A k \in Job : JobInv(k)'
<1>1. ASSUME NEW k \in Job, k # j PROVE JobInv(k)'
  BY <1>1, Untouched DEF ProcessExits, server, TypeOK
<1>2. process[j] = "running" /\ process'[j] \in {"succeeded", "failed"}
  BY DEF ProcessExits, TypeOK
<1>3. JobInv(j)'
  BY <1>2 DEF ProcessExits, server, JobInv
<1> QED
  BY <1>1, <1>3

\* So does a crash, which leaves disk and processes.
LEMMA CrashStep ==
  ASSUME TypeOK, Crash, NEW k \in Job, JobInv(k)
  PROVE  JobInv(k)'
<1>1. /\ up' = FALSE /\ job'[k] = NoJob /\ thread'[k] = "none" /\ reader'[k] = "none"
      /\ canceller'[k] = "none" /\ (request'[k] # "answered" => request[k] # "answered")
      /\ disk'[k] = disk[k] /\ process'[k] = process[k] /\ verdict'[k] = verdict[k]
      /\ lost' = lost /\ skipped' = skipped
  BY DEF Crash
<1> QED
  BY <1>1, RecordFacts DEF JobInv

\* So does a restart, which shows no job as running, whatever it could write.
LEMMA RestartStep ==
  ASSUME TypeOK, Restart, NEW k \in Job, JobInv(k)
  PROVE  JobInv(k)'
<1>1. Restored(disk[k]) \in Status \cup {"none"}
  BY DEF Restored, TypeOK, Status
<1>2. /\ job'[k].status = IF k \in skipped' THEN "none" ELSE Restored(disk[k])
      /\ k \in skipped' => disk[k] # "none"
  BY <1>1, RecordFacts DEF Restart
<1>3. disk'[k] = disk[k] \/ disk'[k] = Restored(disk[k])
  BY DEF Restart
<1>4. /\ ~up /\ up' = TRUE /\ job[k] = NoJob
      /\ thread[k] = "none" /\ reader[k] = "none" /\ canceller[k] # "killing"
  BY RecordFacts DEF Restart, JobInv
<1> QED
  BY <1>1, <1>2, <1>3, <1>4 DEF Restart, JobInv, Restored, Final, Status

\* The inductive invariant: types, and what is known of each job.
LEMMA JobInvariant == Spec => [](TypeOK /\ \A j \in Job : JobInv(j))
<1>1. Init => TypeOK /\ \A j \in Job : JobInv(j)
  BY TypeOKInit, RecordFacts DEF Init, JobInv
<1>2. TypeOK /\ (\A j \in Job : JobInv(j)) /\ [Next]_vars => (\A j \in Job : JobInv(j))'
  <2> SUFFICES ASSUME TypeOK, \A j \in Job : JobInv(j), [Next]_vars
               PROVE  (\A j \in Job : JobInv(j))'
    OBVIOUS
  <2>1. CASE UNCHANGED vars
    BY <2>1 DEF vars, server, JobInv
  <2> QED
    BY <2>1, StartStep, RunStep, ReadStep, CancelStep, ExitStep, CrashStep, RestartStep
       DEF Next, Work
<1>3. Spec => []TypeOK
  BY TypeCorrect
<1> QED
  BY <1>1, <1>2, <1>3, PTL DEF Spec

(* A process of the server is never unknown to the disk, wherever the server crashes and
   whichever writes fail. *)
THEOREM RecordedBeforeProcess == Spec => []RecordBeforeProcess
<1>1. (\A j \in Job : JobInv(j)) => RecordBeforeProcess
  BY DEF JobInv, RecordBeforeProcess
<1> QED
  BY <1>1, JobInvariant, PTL

(* The jobs shown as running are those that a thread of this server will finish, in a server
   that came back from a crash too. *)
THEOREM RunningServed == Spec => []RunningIsServed
<1>1. (\A j \in Job : JobInv(j)) => RunningIsServed
  BY DEF JobInv, RunningIsServed
<1> QED
  BY <1>1, JobInvariant, PTL

(* Unless that write failed, the status finish_job gave a job is on disk for good, and every
   server that can read it there shows the job with it. *)
THEOREM VerdictIsFinal == Spec => []FinalForGood
<1>1. (\A j \in Job : JobInv(j)) => FinalForGood
  BY DEF JobInv, FinalForGood
<1> QED
  BY <1>1, JobInvariant, PTL

(* No job is shown as succeeded, in the registry or on disk, whose process did not. *)
THEOREM NoFalseSuccess == Spec => []SucceededDid
<1>1. (\A j \in Job : JobInv(j)) => SucceededDid
  BY DEF JobInv, SucceededDid
<1> QED
  BY <1>1, JobInvariant, PTL

-----------------------------------------------------------------------------
(* The server with jobs and runs implements the one with jobs alone, with the same fairness. *)
THEOREM JobsUndisturbed == WorkSpec => Spec
<1>1. WorkInit => Init
  BY DEF WorkInit
<1>2. [WorkNext]_<<vars, runs>> => [Next]_vars
  BY DEF WorkNext, Next
<1> QED
  BY <1>1, <1>2, PTL DEF WorkSpec, Spec

(* A process of the server is never unknown to the disk, with pipeline runs beside it too. *)
THEOREM WorkRecordedFirst == WorkSpec => []RecordBeforeProcess
BY JobsUndisturbed, RecordedBeforeProcess, PTL

-----------------------------------------------------------------------------
\* The pipeline runs of the server, as they are by themselves and then in the server.
USE RunConstantsAssumption DEF Runs!RunsAssumption

\* Wherever an event was sent, the task goes on; it does not end there.
LEMMA AfterFacts ==
  \A k \in Runs!Kind :
    Runs!After[k] \in Runs!Place \ {"new", "prepare", "refuse", "dropped", "cleanup", "ended",
                                  "send", "emit"}
BY DEF Runs!Kind, Runs!After, Runs!Place

\* Whatever event was the last, the status a run ends with is a terminal one.
LEMMA EndStatusFacts == \A k : Runs!EndStatus(k) \in Runs!Terminal
BY DEF Runs!EndStatus, Runs!Terminal

\* The first state has the types.
LEMMA RunTypesInit == Runs!Init => Runs!TypeOK
BY DEF Runs!Init, Runs!TypeOK, Runs!Place, Runs!Statuses

\* What a step of a task leaves of the types: its place, its event, and what it has written.
LEMMA RunTypesStep ==
  ASSUME Runs!TypeOK, NEW r \in Run, Runs!Step(r),
         task[r] \in {"emit", "send"} => event[r] \in Runs!Kind
  PROVE  Runs!TypeOK'
<1> USE DEF Runs!TypeOK
<1>1. ASSUME NEW s \in Runs!Statuses, Runs!Written(r, s) \/ Runs!NotWritten(r)
      PROVE  /\ record' \in [Run -> Runs!Statuses \cup {"none"}]
             /\ faults' \in 0 .. MaxFailures /\ unwritten' \subseteq Run
  BY <1>1 DEF Runs!Written, Runs!NotWritten
<1>2. ASSUME NEW p \in Runs!Place, Runs!GoTo(r, p) PROVE task' \in [Run -> Runs!Place]
  BY <1>2 DEF Runs!GoTo
<1>3. ASSUME NEW k \in Runs!Kind, Runs!EmitNext(r, k)
      PROVE task' \in [Run -> Runs!Place] /\ event' \in [Run -> Runs!Kind \cup {"none"}]
  BY <1>3 DEF Runs!EmitNext, Runs!GoTo, Runs!Place
<1>4. ASSUME NEW s \in Runs!Statuses, Runs!Mark(r, s)
      PROVE  /\ status' \in [Run -> Runs!Statuses]
             /\ record' \in [Run -> Runs!Statuses \cup {"none"}]
             /\ faults' \in 0 .. MaxFailures /\ unwritten' \subseteq Run
  <2>1. status' \in [Run -> Runs!Statuses] /\ (Runs!Written(r, s) \/ Runs!NotWritten(r))
    BY <1>4 DEF Runs!Mark
  <2> QED
    BY <2>1, <1>1
<1>5. ASSUME Runs!Cleanup(r) PROVE active' \in Run \cup {"none"} /\ controls' \subseteq Run
  BY <1>5 DEF Runs!Cleanup
<1>6. ASSUME Runs!Return(r)
      PROVE  /\ task' \in [Run -> Runs!Place] /\ step' \in [Run -> Nat]
             /\ event' \in [Run -> Runs!Kind \cup {"none"}] /\ status' \in [Run -> Runs!Statuses]
             /\ command' \in [Run -> {"Continue", "Stop", "Panic"}]
             /\ queue' \in [Run -> 0 .. Capacity] /\ client' \in [Run -> {"here", "gone"}]
  BY <1>6 DEF Runs!Return, Runs!GoTo, Runs!Place, Runs!Statuses
<1> USE DEF Runs!slot, Runs!disk, Runs!outside
<1>7. CASE Runs!Claim(r)
  BY <1>7, <1>2 DEF Runs!Claim, Runs!Place
<1>8. CASE Runs!Proceed(r)
  <2>1. CASE Runs!Prepare(r) /\ UNCHANGED Runs!outside
    BY <2>1, <1>1, <1>2 DEF Runs!Prepare, Runs!Place, Runs!Statuses
  <2>11. CASE Runs!Refuse(r) /\ UNCHANGED Runs!outside
    BY <2>11, <1>2, <1>5 DEF Runs!Refuse, Runs!Place
  <2>2. CASE Runs!InsertControl(r) /\ UNCHANGED Runs!outside
    BY <2>2, <1>2 DEF Runs!InsertControl, Runs!Place
  <2>3. CASE Runs!Check(r) /\ UNCHANGED Runs!outside
    BY <2>3, <1>3, <1>4 DEF Runs!Check, Runs!Kind, Runs!Statuses
  <2>4. CASE Runs!Emit(r) /\ UNCHANGED Runs!outside
    BY <2>4, <1>1, <1>2 DEF Runs!Emit, Runs!Place
  <2>5. CASE Runs!Send(r) /\ UNCHANGED Runs!outside
    <3>1. CASE task' = [task EXCEPT ![r] = "end"] /\ UNCHANGED <<queue, step>>
      BY <2>5, <3>1 DEF Runs!Send, Runs!Place
    <3>2. CASE queue[r] < Capacity /\ queue' = [queue EXCEPT ![r] = @ + 1]
               /\ Runs!GoTo(r, Runs!After[event[r]])
               /\ step' = [step EXCEPT ![r] = IF event[r] = "completed" THEN @ + 1 ELSE @]
      <4>1. queue' \in [Run -> 0 .. Capacity] /\ step' \in [Run -> Nat]
        BY <3>2
      <4>2. Runs!After[event[r]] \in Runs!Place
        BY <2>5, AfterFacts DEF Runs!Send
      <4> QED
        BY <2>5, <3>2, <4>1, <4>2, <1>2 DEF Runs!Send
    <3> QED
      BY <2>5, <3>1, <3>2 DEF Runs!Send, Runs!GoTo
  <2>6. CASE Runs!Open(r) /\ UNCHANGED Runs!outside
    BY <2>6, <1>2, <1>3, <1>4 DEF Runs!Open, Runs!Kind, Runs!Statuses, Runs!Place
  <2>7. CASE Runs!CompleteStep(r) /\ UNCHANGED Runs!outside
    BY <2>7, <1>3 DEF Runs!CompleteStep, Runs!Kind
  <2>8. CASE Runs!Monitor(r) /\ UNCHANGED Runs!outside
    BY <2>8, <1>2, <1>3, <1>4 DEF Runs!Monitor, Runs!Kind, Runs!Statuses, Runs!Place
  <2>9. CASE Runs!Finish(r) /\ UNCHANGED Runs!outside
    BY <2>9, <1>2, <1>4, EndStatusFacts DEF Runs!Finish, Runs!Statuses, Runs!Terminal,
       Runs!Place
  <2>10. CASE Runs!Release(r)
    BY <2>10, <1>5, <1>6 DEF Runs!Release
  <2> QED
    BY <1>8, <2>1, <2>11, <2>2, <2>3, <2>4, <2>5, <2>6, <2>7, <2>8, <2>9, <2>10 DEF Runs!Proceed
<1>9. CASE Runs!Obey(r)
  BY <1>9, <1>3 DEF Runs!Obey, Runs!ObeyCommand, Runs!Kind
<1>10. CASE Runs!SourceGives(r) /\ UNCHANGED Runs!outside
  BY <1>10, <1>3 DEF Runs!SourceGives, Runs!Kind
<1>11. CASE Runs!Read(r)
  <2>1. queue' \in [Run -> 0 .. Capacity]
    BY <1>11 DEF Runs!Read
  <2> QED
    BY <1>11, <2>1 DEF Runs!Read
<1>12. CASE Runs!Leave(r) \/ Runs!DropHandler(r)
  BY <1>12, <1>2 DEF Runs!Leave, Runs!DropHandler, Runs!Place
<1>13. CASE Runs!TakeSender(r)
  BY <1>13 DEF Runs!TakeSender
<1>14. CASE Runs!SendCommand(r)
  <2>1. PICK c \in {"Stop", "Panic"} :
          command' = [command EXCEPT ![r] = IF Runs!Alive(r) THEN c ELSE @]
    BY <1>14 DEF Runs!SendCommand
  <2>2. command' \in [Run -> {"Continue", "Stop", "Panic"}]
    BY <2>1
  <2> QED
    BY <1>14, <2>2 DEF Runs!SendCommand
<1> QED
  BY <1>7, <1>8, <1>9, <1>10, <1>11, <1>12, <1>13, <1>14 DEF Runs!Step
-----------------------------------------------------------------------------
\* What is known of run r in every state.
RunInv(r) ==
  /\ active = r <=> Runs!Alive(r) \/ task[r] = "dropped"
  /\ task[r] \in {"emit", "send"} => event[r] \in Runs!Kind
  /\ task[r] \in {"new", "prepare", "refuse"} => record[r] = "none"
  /\ task[r] = "cleanup" /\ r \notin unwritten => record[r] \in Runs!Terminal
  /\ task[r] = "ended" /\ record[r] # "none" /\ r \notin unwritten \cup interrupted =>
       record[r] \in Runs!Terminal

\* A run that a step of another run does not touch.
LEMMA RunUntouched ==
  ASSUME NEW k \in Run, RunInv(k), active' = k <=> active = k, task'[k] = task[k],
         event'[k] = event[k], record'[k] = record[k], k \in unwritten' <=> k \in unwritten,
         k \in interrupted' <=> k \in interrupted
  PROVE  RunInv(k)'
BY DEF RunInv, Runs!Alive

\* A step of r touches r only; the slot it takes was free, and the one it frees was its own.
LEMMA OtherRunsUntouched ==
  ASSUME Runs!TypeOK, \A k \in Run : RunInv(k), NEW r \in Run, Runs!Step(r)
  PROVE  \A k \in Run \ {r} : RunInv(k)'
<1> SUFFICES ASSUME NEW k \in Run, k # r PROVE RunInv(k)'
  OBVIOUS
<1> USE DEF Runs!TypeOK, Runs!slot, Runs!disk, Runs!outside, Runs!GoTo, Runs!EmitNext,
   Runs!Mark, Runs!Written, Runs!NotWritten
<1>1. /\ task'[k] = task[k] /\ event'[k] = event[k] /\ record'[k] = record[k]
      /\ k \in unwritten' <=> k \in unwritten
      /\ interrupted' = interrupted
  <2>1. CASE Runs!Claim(r)
    BY <2>1 DEF Runs!Claim
  <2>2. CASE Runs!Proceed(r)
    <3>1. CASE (Runs!Prepare(r) \/ Runs!Refuse(r)) /\ UNCHANGED Runs!outside
      BY <3>1 DEF Runs!Prepare, Runs!Refuse
    <3>2. CASE Runs!InsertControl(r) /\ UNCHANGED Runs!outside
      BY <3>2 DEF Runs!InsertControl
    <3>3. CASE Runs!Check(r) /\ UNCHANGED Runs!outside
      BY <3>3 DEF Runs!Check
    <3>4. CASE Runs!Emit(r) /\ UNCHANGED Runs!outside
      BY <3>4 DEF Runs!Emit
    <3>5. CASE Runs!Send(r) /\ UNCHANGED Runs!outside
      BY <3>5 DEF Runs!Send
    <3>6. CASE Runs!Open(r) /\ UNCHANGED Runs!outside
      BY <3>6 DEF Runs!Open
    <3>7. CASE Runs!CompleteStep(r) /\ UNCHANGED Runs!outside
      BY <3>7 DEF Runs!CompleteStep
    <3>8. CASE Runs!Monitor(r) /\ UNCHANGED Runs!outside
      BY <3>8 DEF Runs!Monitor
    <3>9. CASE Runs!Finish(r) /\ UNCHANGED Runs!outside
      BY <3>9 DEF Runs!Finish
    <3>10. CASE Runs!Release(r)
      BY <3>10 DEF Runs!Release, Runs!Return
    <3> QED
      BY <2>2, <3>1, <3>2, <3>3, <3>4, <3>5, <3>6, <3>7, <3>8, <3>9, <3>10 DEF Runs!Proceed
  <2>3. CASE Runs!Obey(r)
    BY <2>3 DEF Runs!Obey, Runs!ObeyCommand
  <2>4. CASE Runs!SourceGives(r) /\ UNCHANGED Runs!outside
    BY <2>4 DEF Runs!SourceGives
  <2>5. CASE Runs!Read(r) \/ Runs!Leave(r) \/ Runs!TakeSender(r) \/ Runs!SendCommand(r)
             \/ Runs!DropHandler(r)
    BY <2>5 DEF Runs!Read, Runs!Leave, Runs!TakeSender, Runs!SendCommand, Runs!DropHandler
  <2> QED
    BY <2>1, <2>2, <2>3, <2>4, <2>5 DEF Runs!Step
<1>2. active' = k <=> active = k
  <2>1. CASE Runs!Claim(r)
    BY <2>1 DEF Runs!Claim
  <2>2. CASE Runs!Cleanup(r)
    BY <2>2 DEF Runs!Cleanup
  <2>3. CASE active' = active
    BY <2>3
  <2>4. ASSUME Runs!Proceed(r) PROVE Runs!Cleanup(r) \/ active' = active
    BY <2>4 DEF Runs!Proceed, Runs!Prepare, Runs!Refuse, Runs!InsertControl, Runs!Check,
       Runs!Emit, Runs!Send, Runs!Open, Runs!CompleteStep, Runs!Monitor, Runs!Finish,
       Runs!Release
  <2>5. ASSUME Runs!Step(r), ~Runs!Claim(r), ~Runs!Proceed(r) PROVE active' = active
    BY <2>5 DEF Runs!Step, Runs!DropHandler, Runs!Obey, Runs!ObeyCommand, Runs!SourceGives,
       Runs!Read, Runs!Leave, Runs!TakeSender, Runs!SendCommand
  <2> QED
    BY <2>1, <2>2, <2>3, <2>4, <2>5
<1> QED
  BY <1>1, <1>2, RunUntouched

\* A step of r keeps what is known of r, one action after the other.
LEMMA RunOwnStep ==
  ASSUME Runs!TypeOK, NEW r \in Run, RunInv(r), Runs!Step(r) PROVE RunInv(r)'
<1> USE DEF Runs!TypeOK, Runs!slot, Runs!disk, Runs!outside, Runs!GoTo, RunInv, Runs!Alive
<1>1. ASSUME NEW s, Runs!Written(r, s) \/ Runs!NotWritten(r)
      PROVE  r \notin unwritten' => record'[r] = s
  BY <1>1 DEF Runs!Written, Runs!NotWritten
<1>2. CASE Runs!Claim(r)
  BY <1>2 DEF Runs!Claim
<1>3. CASE Runs!Proceed(r)
  <2>1. CASE Runs!Prepare(r) /\ UNCHANGED Runs!outside
    BY <2>1 DEF Runs!Prepare, Runs!Written, Runs!NotWritten
  <2>11. CASE Runs!Refuse(r) /\ UNCHANGED Runs!outside
    BY <2>11 DEF Runs!Refuse, Runs!Cleanup
  <2>2. CASE Runs!InsertControl(r) /\ UNCHANGED Runs!outside
    BY <2>2 DEF Runs!InsertControl
  <2>3. CASE Runs!Check(r) /\ UNCHANGED Runs!outside
    <3>1. task'[r] = "emit" /\ event'[r] \in Runs!Kind /\ active' = active
      BY <2>3 DEF Runs!Check, Runs!EmitNext, Runs!Kind
    <3> QED
      BY <2>3, <3>1 DEF Runs!Check
  <2>4. CASE Runs!Emit(r) /\ UNCHANGED Runs!outside
    <3>1. task'[r] \in {"send", "end"} /\ event' = event /\ active' = active
      BY <2>4 DEF Runs!Emit
    <3> QED
      BY <2>4, <3>1 DEF Runs!Emit
  <2>5. CASE Runs!Send(r) /\ UNCHANGED Runs!outside
    <3>1. task'[r] \in Runs!Place \ {"new", "prepare", "refuse", "dropped", "cleanup", "ended",
                                  "send", "emit"}
      <4>1. Runs!After[event[r]] \in Runs!Place \ {"new", "prepare", "refuse", "dropped",
                                                 "cleanup", "ended", "send", "emit"}
        BY <2>5, AfterFacts DEF Runs!Send
      <4> QED
        BY <2>5, <4>1 DEF Runs!Send, Runs!Place
    <3> QED
      BY <2>5, <3>1 DEF Runs!Send
  <2>6. CASE Runs!Open(r) /\ UNCHANGED Runs!outside
    <3>1. /\ task'[r] = "stream" \/ (task'[r] = "emit" /\ event'[r] \in Runs!Kind)
          /\ active' = active
      BY <2>6 DEF Runs!Open, Runs!EmitNext, Runs!Kind
    <3> QED
      BY <2>6, <3>1 DEF Runs!Open
  <2>7. CASE Runs!CompleteStep(r) /\ UNCHANGED Runs!outside
    BY <2>7 DEF Runs!CompleteStep, Runs!EmitNext, Runs!Kind
  <2>8. CASE Runs!Monitor(r) /\ UNCHANGED Runs!outside
    <3>1. /\ task'[r] = "complete" \/ (task'[r] = "emit" /\ event'[r] \in Runs!Kind)
          /\ active' = active
      BY <2>8 DEF Runs!Monitor, Runs!EmitNext, Runs!Kind
    <3> QED
      BY <2>8, <3>1 DEF Runs!Monitor
  <2>9. CASE Runs!Finish(r) /\ UNCHANGED Runs!outside
    <3>1. PICK s \in Runs!Terminal : Runs!Mark(r, s)
      BY <2>9, EndStatusFacts DEF Runs!Finish, Runs!Terminal
    <3>2. r \notin unwritten' => record'[r] = s
      BY <3>1, <1>1 DEF Runs!Mark
    <3> QED
      BY <2>9, <3>2 DEF Runs!Finish
  <2>10. CASE Runs!Release(r)
    BY <2>10 DEF Runs!Release, Runs!Return, Runs!Cleanup
  <2> QED
    BY <1>3, <2>1, <2>11, <2>2, <2>3, <2>4, <2>5, <2>6, <2>7, <2>8, <2>9, <2>10 DEF Runs!Proceed
<1>4. CASE Runs!Obey(r)
  BY <1>4 DEF Runs!Obey, Runs!ObeyCommand, Runs!EmitNext, Runs!Kind
<1>5. CASE Runs!SourceGives(r) /\ UNCHANGED Runs!outside
  BY <1>5 DEF Runs!SourceGives, Runs!EmitNext, Runs!Kind
<1>6. CASE Runs!Read(r) \/ Runs!Leave(r) \/ Runs!TakeSender(r) \/ Runs!SendCommand(r)
           \/ Runs!DropHandler(r)
  BY <1>6 DEF Runs!Read, Runs!Leave, Runs!TakeSender, Runs!SendCommand, Runs!DropHandler
<1> QED
  BY <1>2, <1>3, <1>4, <1>5, <1>6 DEF Runs!Step

\* A crash ends every run and empties the slot.
LEMMA RunsCrashStep ==
  ASSUME Runs!TypeOK, \A k \in Run : RunInv(k), Runs!LoseMemory
  PROVE  Runs!TypeOK' /\ \A k \in Run : RunInv(k)'
<1>1. Runs!TypeOK'
  BY DEF Runs!LoseMemory, Runs!TypeOK, Runs!disk, Runs!Place, Runs!Statuses
<1>2. ASSUME NEW k \in Run PROVE RunInv(k)'
  BY <1>2 DEF Runs!LoseMemory, Runs!TypeOK, Runs!disk, RunInv, Runs!Alive
<1> QED
  BY <1>1, <1>2

\* The inductive invariant: types, and what is known of each run.
RunsInv == Runs!TypeOK /\ \A r \in Run : RunInv(r)

\* It holds at first,
LEMMA RunsInvInit == Runs!Init => RunsInv
BY RunTypesInit DEF RunsInv, Runs!Init, RunInv, Runs!Alive

\* and every step keeps it.
LEMMA RunsInvNext ==
  ASSUME RunsInv, Runs!Next \/ UNCHANGED Runs!vars PROVE RunsInv'
<1> USE DEF RunsInv
<1>1. ASSUME NEW r \in Run, Runs!Step(r) PROVE RunsInv'
  <2>1. Runs!TypeOK'
    BY <1>1, RunTypesStep DEF RunInv
  <2>2. \A k \in Run \ {r} : RunInv(k)'
    BY <1>1, OtherRunsUntouched
  <2>3. RunInv(r)'
    BY <1>1, RunOwnStep
  <2> QED
    BY <2>1, <2>2, <2>3
<1>2. CASE Runs!LoseMemory
  BY <1>2, RunsCrashStep
<1>3. CASE UNCHANGED Runs!vars
  BY <1>3 DEF Runs!vars, Runs!slot, Runs!disk, Runs!outside, Runs!TypeOK, RunInv, Runs!Alive
<1> QED
  BY <1>1, <1>2, <1>3 DEF Runs!Next

\* What it says of the slot and of the records.
LEMMA RunsInvMeans == RunsInv => Runs!TypeOK /\ Runs!SlotIsServed /\ Runs!EndIsRecorded
BY DEF RunsInv, RunInv, Runs!SlotIsServed, Runs!EndIsRecorded

\* It is an invariant of the specification.
LEMMA RunInvariant == Runs!Spec => []RunsInv
<1>1. RunsInv /\ [Runs!Next]_Runs!vars => RunsInv'
  BY RunsInvNext
<1> QED
  BY <1>1, RunsInvInit, PTL DEF Runs!Spec

(* The types of the runs' variables. *)
THEOREM RunTypes == Runs!Spec => []Runs!TypeOK
BY RunsInvMeans, RunInvariant, PTL

(* No two runs share the slot, and no way out of a run leaks it but one: a handler that is
   dropped at its second await keeps it. *)
THEOREM SlotServed == Runs!Spec => []Runs!SlotIsServed
BY RunsInvMeans, RunInvariant, PTL

(* A run whose task is over is on record as completed, cancelled or failed, unless that write
   failed or a crash ended it. *)
THEOREM EndRecorded == Runs!Spec => []Runs!EndIsRecorded
BY RunsInvMeans, RunInvariant, PTL

-----------------------------------------------------------------------------
(* What runs are known to be, through the server's crashes and restarts. *)
LEMMA RunsInvariant == WorkSpec => []RunsInv
<1>1. WorkInit => RunsInv
  BY RunsInvInit DEF WorkInit
<1>2. RunsInv /\ [WorkNext]_<<vars, runs>> => RunsInv'
  <2>1. [WorkNext]_<<vars, runs>> => Runs!Next \/ UNCHANGED runs
    BY DEF WorkNext, Runs!Next
  <2>2. UNCHANGED runs => UNCHANGED Runs!vars
    BY DEF runs, Runs!vars, Runs!slot, Runs!disk, Runs!outside
  <2> QED
    BY <2>1, <2>2, RunsInvNext
<1> QED
  BY <1>1, <1>2, PTL DEF WorkSpec

(* In the server that crashes and restarts, no two runs share the slot, only a dropped handler
   keeps it, and it is free after a restart. *)
THEOREM WorkSlotServed == WorkSpec => []SlotIsServed
BY RunsInvMeans, RunsInvariant, PTL DEF SlotIsServed

(* In that server, a run whose task is over is on record as completed, cancelled or failed,
   unless that write failed or a crash ended it. *)
THEOREM WorkEndRecorded == WorkSpec => []EndIsRecorded
BY RunsInvMeans, RunsInvariant, PTL DEF EndIsRecorded
=============================================================================
