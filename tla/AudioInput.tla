------------------------------ MODULE AudioInput ------------------------------
(***************************************************************************)
(* The bounded audio input of crates/tongues-audio/src/source.rs: clones   *)
(* of one BoundedAudioInputSender feed a sync_channel, BoundedAudioInput   *)
(* turns what it receives into audio, discontinuities and an end.  The     *)
(* producer numbers its chunks whether they fit or not, as the capture     *)
(* callbacks of system_input.rs and the browser do.                        *)
(*                                                                         *)
(* A chunk is its header and its length in frames, with its place among    *)
(* all that were captured for the history; its samples are not modelled.   *)
(* The sender and the receiver of the channel run concurrently.            *)
(***************************************************************************)
EXTENDS Integers, Sequences, SequencesExt

CONSTANTS
  capacity,      \* of the channel
  Steps,         \* increments between the numbers of two chunks: 1, and others
                 \* where a transport loses (2), repeats (0) or reorders (-1)
  Holes,         \* frames missing between two chunks: 0, and others
  Lengths,       \* frames in a chunk
  Restarts,      \* numbers a producer may go on with when it reconnects
  MaxChunks,     \* bound: chunks captured
  MaxReconnects  \* bound: reconnects

ASSUME InputAssumption ==
  /\ capacity \in Nat \ {0}
  /\ Steps \subseteq Int /\ Holes \subseteq Nat /\ Lengths \subseteq Nat \ {0}
  /\ Restarts \subseteq Nat /\ MaxChunks \in Nat /\ MaxReconnects \in Nat

VARIABLES
  channel, connected,                        \* sync_channel: content, some sender alive
  cancelled,                                 \* the flag sender and receiver share
  expected_sequence, pending_chunk, ended,   \* BoundedAudioInput
  sequence, start_frame,                     \* the producer's counters
  era,                                       \* times it has reconnected (history)
  captured,                                  \* chunks captured so far
  accepted,                                  \* the chunks try_send took (history)
  end_sent,                                  \* end() was called (history)
  given                                      \* the events next_event has returned (history)

\* pending_chunk: None, as a chunk with a number that no chunk has.
NoChunk == [sequence |-> -1]

receiver == <<expected_sequence, pending_chunk, ended>>
producer == <<sequence, start_frame, era, captured>>
history == <<accepted, end_sent, given>>
inputvars == <<channel, connected, cancelled, receiver, producer, history>>

InputInit ==
  /\ channel = << >> /\ connected = TRUE /\ cancelled = FALSE
  /\ expected_sequence = 0 /\ pending_chunk = NoChunk /\ ended = FALSE
  /\ sequence = 0 /\ start_frame = 0 /\ era = 0 /\ captured = 0
  /\ accepted = {} /\ end_sent = FALSE /\ given = << >>

Full == Len(channel) >= capacity

-----------------------------------------------------------------------------
\* Producers

\* try_send
TrySend(chunk) ==
  IF cancelled \/ Full
  THEN UNCHANGED <<channel, accepted>>
  ELSE /\ channel' = Append(channel, [type |-> "Chunk", chunk |-> chunk])
       /\ accepted' = accepted \cup {chunk}

\* push_callback_chunk: the counters go on whether try_send takes the chunk or not.
Capture == \E step \in Steps, hole \in Holes, length \in Lengths :
  LET chunk == [sequence |-> sequence + step - 1, start_frame |-> start_frame + hole,
                frames |-> length, era |-> era, place |-> captured] IN
  /\ connected /\ captured < MaxChunks /\ chunk.sequence >= 0
  /\ TrySend(chunk)
  /\ sequence' = chunk.sequence + 1
  /\ start_frame' = chunk.start_frame + length
  /\ captured' = captured + 1
  /\ UNCHANGED <<connected, cancelled, receiver, era, end_sent, given>>

\* end, whose error its callers ignore (system_input.rs:197, audio_input_ws.rs:442)
End ==
  /\ connected /\ ~end_sent
  /\ end_sent' = TRUE
  /\ channel' = IF Full THEN channel ELSE Append(channel, [type |-> "End"])
  /\ UNCHANGED <<connected, cancelled, receiver, producer, accepted, given>>

\* reconnect, before the first chunk of the new connection
Reconnect == \E next_sequence \in Restarts, next_frame \in {0, start_frame} :
  /\ connected /\ ~Full /\ era < MaxReconnects
  /\ channel' = Append(channel, [type |-> "Reconnected", next_sequence |-> next_sequence])
  /\ sequence' = next_sequence
  /\ start_frame' = next_frame
  /\ era' = era + 1
  /\ UNCHANGED <<connected, cancelled, receiver, captured, history>>

\* The last sender is dropped.
Disconnect ==
  /\ connected
  /\ connected' = FALSE
  /\ UNCHANGED <<channel, cancelled, receiver, producer, history>>

-----------------------------------------------------------------------------
\* next_event

Audio(chunk) == [type |-> "Audio", sequence |-> chunk.sequence, chunk |-> chunk]
Gap(received) == [type |-> "Discontinuity", expected |-> expected_sequence, received |-> received]

\* Mutant: recv waits for a message though nobody can send one.
Ready_Waits == ~cancelled /\ ~ended /\ (pending_chunk # NoChunk \/ channel # << >>)

\* recv returns: there is a message, or nobody is left to send one.
Ready == ~cancelled /\ ~ended /\ (pending_chunk # NoChunk \/ channel # << >> \/ ~connected)

Deliver(chunk) == expected_sequence' = chunk.sequence + 1

\* Mutant: the chunk after a gap is lost with it.
Hold_Forgets(chunk) == UNCHANGED pending_chunk

Hold(chunk) == pending_chunk' = chunk

\* Mutant: only a step forward is a gap.
Continues_Backwards(chunk) == chunk.sequence <= expected_sequence

Continues(chunk) == chunk.sequence = expected_sequence

\* The event next_event returns, as a sequence of one.
Returned ==
  IF pending_chunk # NoChunk THEN <<Audio(pending_chunk)>>
  ELSE IF channel = << >> \/ Head(channel).type = "End" THEN <<[type |-> "EndOfStream"]>>
  ELSE LET m == Head(channel) IN
       CASE m.type = "Reconnected" -> <<Gap(m.next_sequence)>>
         [] m.type = "Chunk" /\ Continues(m.chunk) -> <<Audio(m.chunk)>>
         [] m.type = "Chunk" /\ ~Continues(m.chunk) -> <<Gap(m.chunk.sequence)>>

\* What it leaves behind.
Advance ==
  IF pending_chunk # NoChunk
  THEN Deliver(pending_chunk) /\ pending_chunk' = NoChunk /\ UNCHANGED <<channel, ended>>
  ELSE IF channel = << >>
  THEN ended' = TRUE /\ UNCHANGED <<channel, expected_sequence, pending_chunk>>
  ELSE LET m == Head(channel) IN
       /\ channel' = Tail(channel)
       /\ \/ m.type = "End" /\ ended' = TRUE /\ UNCHANGED <<expected_sequence, pending_chunk>>
          \/ /\ m.type = "Reconnected"
             /\ expected_sequence' = m.next_sequence /\ UNCHANGED <<pending_chunk, ended>>
          \/ /\ m.type = "Chunk" /\ Continues(m.chunk)
             /\ Deliver(m.chunk) /\ UNCHANGED <<pending_chunk, ended>>
          \/ /\ m.type = "Chunk" /\ ~Continues(m.chunk)
             /\ Hold(m.chunk) /\ UNCHANGED <<expected_sequence, ended>>

Receive ==
  /\ Ready
  /\ Advance
  /\ given' = given \o Returned
  /\ UNCHANGED <<connected, cancelled, producer, accepted, end_sent>>

Cancel ==
  /\ ~cancelled
  /\ cancelled' = TRUE
  /\ UNCHANGED <<channel, connected, receiver, producer, history>>

-----------------------------------------------------------------------------
\* "Sequence gaps are events, never silently compressed away" (source.rs:4), and
\* "reconnects never look continuous" (source.rs:582): two chunks that come one
\* after the other are neighbours of one connection.
GapsAnnounced ==
  \A i \in DOMAIN given : given[i].type = "Audio" =>
    LET chunk == given[i].chunk IN
    \/ i = 1 /\ chunk.sequence = 0 /\ chunk.era = 0
    \/ i > 1 /\ given[i - 1].type = "Discontinuity" /\ given[i - 1].received = chunk.sequence
    \/ i > 1 /\ given[i - 1].type = "Audio" /\ given[i - 1].chunk.era = chunk.era
         /\ given[i - 1].sequence + 1 = chunk.sequence

\* Every chunk whose sender was told Ok, and no other, is given once, held back or still
\* queued, and on the whole way the chunks stay in the order in which they were captured.
AcceptedConserved ==
  LET Played == {i \in DOMAIN given : given[i].type = "Audio"}
      Queued == {i \in DOMAIN channel : channel[i].type = "Chunk"}
      played == {given[i].chunk : i \in Played}
      held == {pending_chunk} \ {NoChunk}
      queued == {channel[i].chunk : i \in Queued} IN
  /\ accepted = played \cup held \cup queued
  /\ \A i, j \in Played : i < j => given[i].chunk.place < given[j].chunk.place
  /\ \A i, j \in Queued : i < j => channel[i].chunk.place < channel[j].chunk.place
  /\ \A c \in played, d \in held \cup queued : c.place < d.place
  /\ \A c \in held, d \in queued : c.place < d.place
===============================================================================
