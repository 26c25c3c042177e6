SPECIFICATION WorkSpec
CONSTANTS
  Job = {j1, j2}
  MAX_ACTIVE_JOBS = 1
  MaxFailures = 1
  MaxCrashes = 1
  Run = {r1, r2}
  Steps = 1
  Capacity = 1
INVARIANTS RecordBeforeProcess RunningIsServed FinalForGood SucceededDid
INVARIANTS SlotIsServed EndIsRecorded
PROPERTIES CancelEnds StopEnds
\* Jobs, runs and crashes are bounded, and a server that is down may stay so.
CHECK_DEADLOCK FALSE
