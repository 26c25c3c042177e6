----------------------------- MODULE SpokenTurn -----------------------------
(***************************************************************************)
(* What a live turn promises whoever listens to it, without tasks, queues  *)
(* or cancellation: segments are committed one by one, each is spoken      *)
(* after it was committed and in that order, and the turn is complete only *)
(* when the text is finished and all of it has been spoken.                *)
(***************************************************************************)
EXTENDS Naturals, Sequences

CONSTANT Segment

VARIABLES
  phase,       \* "writing", "written", "complete"
  committed,   \* the segments the listener was told, in order
  spoken       \* the segments the listener has the audio of, in order

vars == <<phase, committed, spoken>>

Init ==
  /\ phase = "writing"
  /\ committed = << >>
  /\ spoken = << >>

Commit ==
  /\ phase = "writing"
  /\ \E s \in Segment : committed' = Append(committed, s)
  /\ UNCHANGED <<phase, spoken>>

FinishText ==
  /\ phase = "writing"
  /\ phase' = "written"
  /\ UNCHANGED <<committed, spoken>>

Speak ==
  /\ phase # "complete"
  /\ Len(spoken) < Len(committed)
  /\ spoken' = Append(spoken, committed[Len(spoken) + 1])
  /\ UNCHANGED <<phase, committed>>

Complete ==
  /\ phase = "written"
  /\ spoken = committed
  /\ phase' = "complete"
  /\ UNCHANGED <<committed, spoken>>

Next == Commit \/ FinishText \/ Speak \/ Complete

Spec == Init /\ [][Next]_vars
=============================================================================
