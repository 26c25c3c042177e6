---------------------------- MODULE PipelineRuns ----------------------------
(***************************************************************************)
(* The pipeline runs of the server (main.rs, run_pipeline_graph): one slot *)
(* for the active run, a durable record of each run, a task that takes the *)
(* steps of its graph one by one and tells the client of them through a    *)
(* bounded channel, and an operator who may stop or panic it through a     *)
(* watch channel, which keeps the last command only.                       *)
(*                                                                         *)
(* Each action is what happens between two awaits.  Of a record the model  *)
(* keeps the status: every event is a write of the whole record, with the  *)
(* status the run has by then.  A failed write leaves the record as it is. *)
(* The handler of a request is dropped with its connection, at an await.   *)
(***************************************************************************)
EXTENDS Naturals

CONSTANTS
  Run,                \* run ids, each given to one request
  Steps,              \* the steps of a graph
  Capacity,           \* of the channel to the client
  MaxFaults           \* bound: writes of records that fail

\* What is assumed of them; ServerWork states it of its own.
RunsAssumption ==
  /\ "none" \notin Run
  /\ {Steps, Capacity, MaxFaults} \subseteq Nat

VARIABLES
  active,             \* the run that has the slot, or "none"
  controls,           \* runs whose command sender is in the registry
  task,               \* run -> where its handler, and then its task, is
  step,               \* run -> the step it is at; Steps + 1 when all are done
  event,              \* run -> the kind of the event it emits or has emitted last
  status, record,     \* run -> the status it has, and the one on disk
  faults,
  unwritten,          \* runs whose last write failed (history)
  queue, client,      \* run -> events in its channel; "here" or "gone"
  command, operator,  \* run -> the last command it was given; "none" or "holding" a sender
  interrupted         \* runs that a crash has ended (history)

slot == <<active, controls>>
disk == <<record, faults, unwritten>>
outside == <<client, command, operator, interrupted>>
vars == <<slot, task, step, event, status, disk, queue, outside>>

Init ==
  /\ active = "none" /\ controls = {}
  /\ task = [r \in Run |-> "new"]
  /\ step = [r \in Run |-> 1]
  /\ event = [r \in Run |-> "none"]
  /\ status = [r \in Run |-> "preparing"]
  /\ record = [r \in Run |-> "none"]
  /\ faults = 0 /\ unwritten = {}
  /\ queue = [r \in Run |-> 0]
  /\ client = [r \in Run |-> "here"]
  /\ command = [r \in Run |-> "Continue"]
  /\ operator = [r \in Run |-> "none"]
  /\ interrupted = {}

Terminal == {"completed", "cancelled", "failed"}
Alive(r) == task[r] \notin {"new", "ended", "dropped"}
GoTo(r, where) == task' = [task EXCEPT ![r] = where]

\* write_durable_json of the record with status s.
Written(r, s) ==
  /\ record' = [record EXCEPT ![r] = s]
  /\ unwritten' = unwritten \ {r}
  /\ UNCHANGED faults

NotWritten(r) ==
  /\ faults < MaxFaults /\ faults' = faults + 1
  /\ unwritten' = unwritten \cup {r}
  /\ UNCHANGED record

\* mark_pipeline_run_status, which ignores whether the record was written.
Mark(r, s) ==
  /\ status' = [status EXCEPT ![r] = s]
  /\ Written(r, s) \/ NotWritten(r)

\* cleanup_active_pipeline_run: both maps, with the first one locked to the end.
Cleanup(r) ==
  /\ active' = IF active = r THEN "none" ELSE active
  /\ controls' = controls \ {r}

\* The task returns: its variables are gone, and the receiver of its commands.  What is left
\* in the channel is the client's affair.
Return(r) ==
  /\ GoTo(r, "ended")
  /\ step' = [step EXCEPT ![r] = 1]
  /\ event' = [event EXCEPT ![r] = "none"]
  /\ status' = [status EXCEPT ![r] = "preparing"]
  /\ command' = [command EXCEPT ![r] = "Continue"]
  /\ queue' = [queue EXCEPT ![r] = 0]
  /\ client' = [client EXCEPT ![r] = "gone"]

-----------------------------------------------------------------------------
\* run_pipeline_graph up to the spawn of the task.

Claim(r) ==
  /\ task[r] = "new"
  /\ IF active = "none" THEN active' = r /\ GoTo(r, "prepare")
                        ELSE GoTo(r, "ended") /\ UNCHANGED active
  /\ UNCHANGED <<controls, step, event, status, disk, queue, outside>>

\* Mutant: a run that cannot be recorded is refused with the slot in its name.
Prepare_KeepsSlot(r) ==
  /\ task[r] = "prepare"
  /\ \/ Written(r, "preparing") /\ GoTo(r, "control")
     \/ NotWritten(r) /\ GoTo(r, "ended")
  /\ UNCHANGED <<slot, step, event, status, queue>>

Prepare(r) ==
  /\ task[r] = "prepare"
  /\ \/ Written(r, "preparing") /\ GoTo(r, "control")
     \/ NotWritten(r) /\ GoTo(r, "refuse")
  /\ UNCHANGED <<slot, step, event, status, queue>>

Refuse(r) ==
  /\ task[r] = "refuse"
  /\ Cleanup(r) /\ GoTo(r, "ended")
  /\ UNCHANGED <<step, event, status, disk, queue>>

InsertControl(r) ==
  /\ task[r] = "control"
  /\ controls' = controls \cup {r} /\ GoTo(r, "check")
  /\ UNCHANGED <<active, step, event, status, disk, queue>>

\* The client is gone while the handler waits for the lock of the slot or of the controls:
\* the handler is dropped there, and nothing of what it did is undone.
DropHandler(r) ==
  /\ task[r] \in {"refuse", "control"}
  /\ GoTo(r, "dropped")
  /\ client' = [client EXCEPT ![r] = "gone"]
  /\ UNCHANGED <<slot, step, event, status, disk, queue, command, operator, interrupted>>

-----------------------------------------------------------------------------
\* Where the task goes on when an event has been sent, and the status it ends with when an
\* event was the last, or did not get through.

Kind == {"started", "output", "contract", "completed", "artifact", "stop", "panic", "fail"}
After == [started |-> "open", output |-> "stream", contract |-> "done", completed |-> "check",
          artifact |-> "complete", stop |-> "end", panic |-> "end", fail |-> "end"]
EndStatus(kind) == IF kind \in {"panic", "fail"} THEN "failed" ELSE "cancelled"

EmitNext(r, kind) == event' = [event EXCEPT ![r] = kind] /\ GoTo(r, "emit")

\* The head of the loop: the command is read, then the step is begun.
Check(r) ==
  /\ task[r] = "check" /\ step[r] <= Steps
  /\ \/ command[r] = "Stop" /\ EmitNext(r, "stop") /\ UNCHANGED <<status, disk>>
     \/ command[r] = "Panic" /\ EmitNext(r, "panic") /\ UNCHANGED <<status, disk>>
     \/ command[r] = "Continue" /\ EmitNext(r, "started") /\ Mark(r, "loading")
  /\ UNCHANGED <<slot, step, queue>>

\* emit_pipeline_run_event: an event that cannot be written to the record is not sent.
Emit(r) ==
  /\ task[r] = "emit"
  /\ \/ Written(r, status[r]) /\ GoTo(r, "send")
     \/ NotWritten(r) /\ GoTo(r, "end")
  /\ UNCHANGED <<slot, step, event, status, queue>>

\* Mutant: a run whose client is gone leaves without a final status.
Send_Leaves(r) ==
  /\ task[r] = "send"
  /\ \/ /\ client[r] = "gone" /\ GoTo(r, "cleanup")
        /\ UNCHANGED <<queue, step>>
     \/ /\ client[r] = "here" /\ queue[r] < Capacity
        /\ queue' = [queue EXCEPT ![r] = @ + 1]
        /\ GoTo(r, After[event[r]])
        /\ step' = [step EXCEPT ![r] = IF event[r] = "completed" THEN @ + 1 ELSE @]
  /\ UNCHANGED <<slot, event, status, disk>>

\* It waits for room in the channel, and fails when the client is gone.
Send(r) ==
  /\ task[r] = "send"
  /\ \/ /\ client[r] = "gone" /\ GoTo(r, "end")
        /\ UNCHANGED <<queue, step>>
     \/ /\ client[r] = "here" /\ queue[r] < Capacity
        /\ queue' = [queue EXCEPT ![r] = @ + 1]
        /\ GoTo(r, After[event[r]])
        /\ step' = [step EXCEPT ![r] = IF event[r] = "completed" THEN @ + 1 ELSE @]
  /\ UNCHANGED <<slot, event, status, disk>>

\* The step's source is opened: it fails, or is a stream, or the step has none and gives
\* one output of its own.
Open(r) ==
  /\ task[r] = "open"
  /\ Mark(r, "running")
  /\ \/ EmitNext(r, "fail") \/ EmitNext(r, "contract")
     \/ GoTo(r, "stream") /\ UNCHANGED event
  /\ UNCHANGED <<slot, step, queue>>

\* The select of a step with a source: what the source gives, if anything,
SourceGives(r) ==
  /\ task[r] = "stream"
  /\ \E kind \in {"output", "fail", "completed"} : EmitNext(r, kind)
  /\ UNCHANGED <<slot, step, status, disk, queue>>

\* Mutant: a step that streams obeys a panic only.
ObeyCommand_PanicOnly(r) ==
  /\ task[r] = "stream"
  /\ command[r] = "Panic" /\ EmitNext(r, "panic")
  /\ UNCHANGED <<slot, step, status, disk, queue>>

\* or a command.
ObeyCommand(r) ==
  /\ task[r] = "stream"
  /\ \/ command[r] = "Stop" /\ EmitNext(r, "stop")
     \/ command[r] = "Panic" /\ EmitNext(r, "panic")
  /\ UNCHANGED <<slot, step, status, disk, queue>>

CompleteStep(r) ==
  /\ task[r] = "done" /\ EmitNext(r, "completed")
  /\ UNCHANGED <<slot, step, status, disk, queue>>

\* Behind the last step no command is read.
Monitor(r) ==
  /\ task[r] = "check" /\ step[r] = Steps + 1
  /\ Mark(r, "monitoring")
  /\ \/ EmitNext(r, "artifact")
     \/ GoTo(r, "complete") /\ UNCHANGED event
  /\ UNCHANGED <<slot, step, queue>>

Finish(r) ==
  /\ \/ task[r] = "complete" /\ Mark(r, "completed")
     \/ task[r] = "end" /\ Mark(r, EndStatus(event[r]))
  /\ GoTo(r, "cleanup")
  /\ UNCHANGED <<slot, step, event, queue>>

Release(r) ==
  /\ task[r] = "cleanup"
  /\ Cleanup(r) /\ Return(r)
  /\ UNCHANGED <<disk, operator, interrupted>>

Proceed(r) ==
  \/ /\ \/ Prepare(r) \/ Refuse(r) \/ InsertControl(r) \/ Check(r) \/ Emit(r) \/ Send(r)
        \/ Open(r) \/ CompleteStep(r) \/ Monitor(r) \/ Finish(r)
     /\ UNCHANGED outside
  \/ Release(r)
Obey(r) == ObeyCommand(r) /\ UNCHANGED outside

-----------------------------------------------------------------------------
\* The client reads its stream or goes away.

Read(r) ==
  /\ client[r] = "here" /\ queue[r] > 0
  /\ queue' = [queue EXCEPT ![r] = @ - 1]
  /\ UNCHANGED <<slot, task, step, event, status, disk, outside>>

Leave(r) ==
  /\ client[r] = "here" /\ task[r] \notin {"new", "prepare", "refuse", "control"}
  /\ client' = [client EXCEPT ![r] = "gone"]
  /\ UNCHANGED <<slot, task, step, event, status, disk, queue, command, operator, interrupted>>

\* control_pipeline_run: the sender is taken from the registry while the run is active, and
\* used behind the lock.  It takes a command as long as the task has the other end.
TakeSender(r) ==
  /\ active = r /\ r \in controls
  /\ operator' = [operator EXCEPT ![r] = "holding"]
  /\ UNCHANGED <<slot, task, step, event, status, disk, queue, client, command, interrupted>>

SendCommand(r) ==
  /\ operator[r] = "holding"
  /\ operator' = [operator EXCEPT ![r] = "none"]
  /\ \E c \in {"Stop", "Panic"} :
       command' = [command EXCEPT ![r] = IF Alive(r) THEN c ELSE @]
  /\ UNCHANGED <<slot, task, step, event, status, disk, queue, client, interrupted>>

\* A crash of the server: memory and channels are gone, the records stay as they are, and
\* nothing reads them when the server starts.
LoseMemory ==
  /\ active' = "none" /\ controls' = {}
  /\ interrupted' = interrupted \cup {r \in Run : task[r] \notin {"new", "ended"}}
  /\ task' = [r \in Run |-> IF task[r] = "new" THEN "new" ELSE "ended"]
  /\ queue' = [r \in Run |-> 0]
  /\ operator' = [r \in Run |-> "none"]
  /\ step' = [r \in Run |-> 1]
  /\ event' = [r \in Run |-> "none"]
  /\ status' = [r \in Run |-> "preparing"]
  /\ command' = [r \in Run |-> "Continue"]
  /\ client' = [r \in Run |-> IF task[r] = "new" THEN client[r] ELSE "gone"]
  /\ UNCHANGED disk

Step(r) ==
  \/ Claim(r) \/ Proceed(r) \/ Obey(r) \/ DropHandler(r)
  \/ SourceGives(r) /\ UNCHANGED outside
  \/ Read(r) \/ Leave(r) \/ TakeSender(r) \/ SendCommand(r)

Next == (\E r \in Run : Step(r)) \/ LoseMemory

\* A task runs on, and the select of a step is fair to its two sides.  Clients read what
\* they are sent.  No source has to give anything, no client to leave, no operator to act.
Fairness ==
  \A r \in Run : WF_vars(Proceed(r)) /\ SF_vars(Obey(r)) /\ WF_vars(Read(r))

Spec == Init /\ [][Next]_vars /\ Fairness

-----------------------------------------------------------------------------
Place == {"new", "prepare", "refuse", "control", "dropped", "check", "emit", "send", "open",
          "stream", "done", "complete", "end", "cleanup", "ended"}
Statuses == {"preparing", "loading", "running", "monitoring"} \cup Terminal

\* Types of the variables.
TypeOK ==
  /\ active \in Run \cup {"none"} /\ controls \subseteq Run
  /\ task \in [Run -> Place]
  /\ step \in [Run -> Nat]
  /\ event \in [Run -> Kind \cup {"none"}]
  /\ status \in [Run -> Statuses] /\ record \in [Run -> Statuses \cup {"none"}]
  /\ faults \in 0 .. MaxFaults /\ unwritten \subseteq Run
  /\ queue \in [Run -> 0 .. Capacity]
  /\ client \in [Run -> {"here", "gone"}]
  /\ command \in [Run -> {"Continue", "Stop", "Panic"}]
  /\ operator \in [Run -> {"none", "holding"}]
  /\ interrupted \subseteq Run

\* Two runs never meet, and a run that is gone keeps the others out in one case only: its
\* handler was dropped before it could spawn the task or give the slot back.  On every other
\* way out, failed writes, stops, clients that leave and crashes included, the slot is free.
SlotIsServed == \A r \in Run : active = r <=> Alive(r) \/ task[r] = "dropped"

\* docs/speech-workspace-navigation.md:106-107, "Completion, cancellation, and failure are
\* terminal": a run whose task is over is on record with one of them, unless that very write
\* failed or a crash ended the run.  (One whose handler was dropped never had a task, and its
\* record stays as the handler left it.)
EndIsRecorded ==
  \A r \in Run :
    task[r] = "ended" /\ record[r] # "none" /\ r \notin unwritten \cup interrupted =>
      record[r] \in Terminal

\* A run that was told to stop comes to an end, though its source may have none.
StopEnds == \A r \in Run : command[r] # "Continue" ~> task[r] = "ended"
=============================================================================
