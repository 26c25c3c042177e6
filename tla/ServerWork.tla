----------------------------- MODULE ServerWork -----------------------------
(***************************************************************************)
(* The two kinds of recorded work of one server, command jobs and pipeline *)
(* runs, through its crashes and restarts: both lose their memory at once, *)
(* and only the jobs are read back (load_job_registry).                    *)
(***************************************************************************)
EXTENDS CommandJobs

CONSTANTS Run, Steps, Capacity

VARIABLES active, controls, task, step, event, status, record, faults, unwritten, queue,
          client, command, operator, interrupted

runs == <<active, controls, task, step, event, status, record, faults, unwritten, queue,
          client, command, operator, interrupted>>

Runs == INSTANCE PipelineRuns WITH MaxFaults <- MaxFailures

ASSUME RunConstantsAssumption == Runs!RunsAssumption

\* Bound: jobs and runs share nothing but the server, and a behaviour has one kind of them.
JobsStarted == \E j \in Job : request[j] # "new"
RunsStarted == \E r \in Run : task[r] # "new"

WorkInit == Init /\ Runs!Init

WorkNext ==
  \/ ~RunsStarted /\ (\E j \in Job : Work(j)) /\ UNCHANGED runs
  \/ ~JobsStarted /\ up /\ (\E r \in Run : Runs!Step(r)) /\ UNCHANGED vars
  \/ Crash /\ Runs!LoseMemory
  \/ Restart /\ UNCHANGED runs

WorkSpec ==
  /\ WorkInit /\ [][WorkNext]_<<vars, runs>>
  /\ \A j \in Job : WF_vars(RunJob(j))
  /\ \A r \in Run : /\ WF_runs(up /\ Runs!Proceed(r))
                    /\ SF_runs(up /\ Runs!Obey(r))
                    /\ WF_runs(up /\ Runs!Read(r))

-----------------------------------------------------------------------------
\* Two runs never meet in the slot, and only one whose handler was dropped keeps it when it
\* is gone, until the server crashes.
SlotIsServed == Runs!SlotIsServed

\* A run whose task is over is on record as completed, cancelled or failed, unless that very
\* write failed or a crash ended it.
EndIsRecorded == Runs!EndIsRecorded

\* A run that was told to stop comes to an end, though its source may have none.
StopEnds == Runs!StopEnds
=============================================================================
