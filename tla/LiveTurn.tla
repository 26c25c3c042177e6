------------------------------ MODULE LiveTurn ------------------------------
(***************************************************************************)
(* One turn of a live conversation: a provider streams text, the generator *)
(* of live.rs cuts it into segments, the coordinator of main.rs tells them *)
(* to the client and queues them for the synthesis worker, and merges the  *)
(* worker's audio into the same stream.  Five tasks, five queues, one      *)
(* cancellation flag that three of them set and that each task reads at    *)
(* its own time.                                                           *)
(*                                                                         *)
(* A token is what the provider sends, and a provider is any of the two of *)
(* live.rs: it sends a growing text and nothing else, so the generator's   *)
(* branches for a revised text and for other events are left out.  Which   *)
(* segments a token completes is a choice (find_boundary).                 *)
(***************************************************************************)
EXTENDS Naturals, Sequences

CONSTANTS
  provider_capacity, turn_capacity, audio_capacity, stream_capacity,
  NoEvent,
  MaxTokens,      \* bound: tokens of the provider
  MaxSegments     \* bound: segments the tokens are cut into

\* The events of a turn's stream, of generator and worker.
Events ==
  [type : {"SessionStarted", "PartialHypothesis", "CommittedSegment", "TextCompleted",
           "OutputRequested", "OutputStarted", "AudioChunk", "OutputFinished",
           "Completed", "Cancelled", "Error"},
   segment : Nat]

ASSUME ConstantsAssumption ==
  /\ {provider_capacity, turn_capacity, audio_capacity, stream_capacity} \subseteq Nat \ {0}
  /\ {MaxTokens, MaxSegments} \subseteq Nat
  /\ NoEvent \notin Events

VARIABLES
  registered,                  \* the turn id is in live_turns
  cancelled,                   \* the flag shared by all tasks
  asked,                       \* somebody called cancel_live_turn (history)
  provider, tokens, provider_queue,
  generator, generated,        \* generated: events it has yet to send
  segment_id,
  turn_queue,                  \* generator to coordinator
  coordinator, telling,        \* telling: the event it is sending
  source_open, audio_open, generation_done,
  synthesis_queue,             \* coordinator to worker, unbounded
  worker, speaking, voiced,    \* the worker, its segment and the events it has yet to send
  audio_queue,                 \* worker to coordinator
  client, unread,              \* events in the response stream
  told                         \* the events put into it, Started and the like left out (history)

tasks == <<registered, cancelled, asked>>
gen_vars == <<generator, generated, segment_id>>
prov_vars == <<provider, tokens, provider_queue>>
coord_vars == <<coordinator, telling, source_open, audio_open, generation_done>>
work_vars == <<worker, speaking, voiced>>
client_vars == <<client, unread, told>>
vars == <<tasks, prov_vars, gen_vars, turn_queue, coord_vars, synthesis_queue, work_vars,
          audio_queue, client_vars>>

Event(type) == [type |-> type, segment |-> 0]
Of(type, s) == [type |-> type, segment |-> s]
Segments(n) == [i \in 1 .. n |-> Of("CommittedSegment", segment_id + i)]

Init ==
  /\ registered = TRUE /\ cancelled = FALSE /\ asked = FALSE
  /\ provider = "none" /\ tokens = 0 /\ provider_queue = 0
  /\ generator = "open" /\ generated = <<Event("SessionStarted")>> /\ segment_id = 0
  /\ turn_queue = << >>
  /\ coordinator = "select" /\ telling = NoEvent
  /\ source_open = TRUE /\ audio_open = TRUE /\ generation_done = FALSE
  /\ synthesis_queue = << >>
  /\ worker = "recv" /\ speaking = 0 /\ voiced = << >> /\ audio_queue = << >>
  /\ client = "reading" /\ unread = 0 /\ told = << >>

-----------------------------------------------------------------------------
\* The provider's task.  It looks at the flag when it likes (between the chunks of
\* a response), never while it waits for room in its queue.

ProviderWrites ==
  /\ provider = "streaming" /\ tokens < MaxTokens
  /\ provider' = "sending" /\ tokens' = tokens + 1
  /\ UNCHANGED provider_queue

ProviderSends ==
  /\ provider = "sending" /\ generator # "done"
  /\ provider_queue < provider_capacity
  /\ provider' = "streaming" /\ provider_queue' = provider_queue + 1
  /\ UNCHANGED tokens

ProviderEnds ==
  /\ \/ provider = "streaming" /\ provider' \in {"ok", "failed"}
     \/ provider = "sending" /\ generator = "done" /\ provider' = "ok"
  /\ UNCHANGED <<tokens, provider_queue>>

Provider ==
  /\ ProviderWrites \/ ProviderSends \/ ProviderEnds
  /\ UNCHANGED <<tasks, gen_vars, turn_queue, coord_vars, synthesis_queue, work_vars,
                 audio_queue, client_vars>>

ProviderOver == provider \in {"ok", "failed"}

-----------------------------------------------------------------------------
\* spawn_turn

\* The coordinator's end of the queue is dropped when it is done; in the loop a
\* failed send cancels the turn.
GeneratorSends ==
  /\ generated # << >>
  /\ IF coordinator # "done"
     THEN /\ Len(turn_queue) < turn_capacity
          /\ turn_queue' = Append(turn_queue, Head(generated))
          /\ generated' = Tail(generated)
          /\ generator' = IF generator = "last" /\ Len(generated) = 1 THEN "done" ELSE generator
          /\ UNCHANGED cancelled
     ELSE /\ generator' = "done" /\ generated' = << >>
          /\ cancelled' = (cancelled \/ generator = "recv")
          /\ UNCHANGED turn_queue
  /\ UNCHANGED <<segment_id, prov_vars>>

OpenProvider ==
  /\ generator = "open" /\ generated = << >>
  /\ \/ provider' = "streaming" /\ generator' = "recv" /\ UNCHANGED generated
     \/ generator' = "last" /\ generated' = <<Event("Error")>> /\ UNCHANGED provider
  /\ UNCHANGED <<cancelled, segment_id, turn_queue, tokens, provider_queue>>

\* A cancelled turn leaves the loop with the provider's queue open and unread.
TakeToken ==
  /\ generator = "recv" /\ generated = << >>
  /\ provider_queue > 0
  /\ provider_queue' = provider_queue - 1
  /\ \/ cancelled /\ generator' = "await" /\ UNCHANGED <<generated, segment_id>>
     \/ /\ ~cancelled
        /\ \E n \in 0 .. MaxSegments - segment_id :
             /\ generated' = <<Event("PartialHypothesis")>> \o Segments(n)
             /\ segment_id' = segment_id + n
        /\ UNCHANGED generator
  /\ UNCHANGED <<cancelled, turn_queue, provider, tokens>>

SourceEnds ==
  /\ generator = "recv" /\ generated = << >>
  /\ provider_queue = 0 /\ ProviderOver
  /\ generator' = "await"
  /\ UNCHANGED <<cancelled, generated, segment_id, turn_queue, prov_vars>>

\* The provider's result; what is left of the text is the last segment.
JoinProvider ==
  /\ generator = "await" /\ ProviderOver
  /\ generator' = "last"
  /\ IF cancelled THEN generated' = <<Event("Cancelled")>> /\ UNCHANGED segment_id
     ELSE IF provider = "failed" THEN generated' = <<Event("Error")>> /\ UNCHANGED segment_id
     ELSE \E n \in {m \in {0, 1} : m <= tokens /\ segment_id + m <= MaxSegments} :
            /\ generated' = Append(Segments(n), Event("TextCompleted"))
            /\ segment_id' = segment_id + n
  /\ UNCHANGED <<cancelled, turn_queue, prov_vars>>

Generator ==
  /\ \/ GeneratorSends \/ OpenProvider \/ TakeToken \/ SourceEnds \/ JoinProvider
  /\ UNCHANGED <<registered, asked, coord_vars, synthesis_queue, work_vars, audio_queue,
                 client_vars>>

-----------------------------------------------------------------------------
\* The synthesis worker.  Its sends cannot fail: the coordinator keeps audio_rx until
\* it has joined the worker.

\* Mutant: the coordinator keeps its end of the queue when the text is complete.
SynthesisOpen_Kept == coordinator = "select"

\* synthesis_tx is dropped with the source, or when the loop is left.
SynthesisOpen == coordinator = "select" /\ source_open

TakeSegment ==
  /\ worker = "recv" /\ voiced = << >>
  /\ IF synthesis_queue # << >>
     THEN LET s == Head(synthesis_queue) IN
          /\ synthesis_queue' = Tail(synthesis_queue)
          /\ speaking' = s
          /\ IF cancelled THEN worker' = "done" /\ UNCHANGED voiced
             ELSE worker' = "busy" /\ voiced' = <<Of("OutputRequested", s), Of("OutputStarted", s)>>
     ELSE ~SynthesisOpen /\ worker' = "done" /\ UNCHANGED <<speaking, voiced, synthesis_queue>>
  /\ UNCHANGED <<cancelled, audio_queue>>

WorkerSends ==
  /\ voiced # << >>
  /\ Len(audio_queue) < audio_capacity
  /\ audio_queue' = Append(audio_queue, Head(voiced))
  /\ voiced' = Tail(voiced)
  /\ UNCHANGED <<cancelled, worker, speaking, synthesis_queue>>

\* synthesize_live_speech, and what is made of its result.
Synthesize ==
  /\ worker = "busy" /\ voiced = << >>
  /\ \/ /\ ~cancelled
        /\ voiced' = <<Of("AudioChunk", speaking), Of("OutputFinished", speaking)>>
        /\ worker' = "recv"
     \/ cancelled /\ worker' = "done" /\ UNCHANGED voiced
     \/ voiced' = <<Event("Error")>> /\ worker' = "failed"
  /\ UNCHANGED <<cancelled, speaking, synthesis_queue, audio_queue>>

GiveUp ==
  /\ worker = "failed" /\ voiced = << >>
  /\ cancelled' = TRUE
  /\ worker' = "done"
  /\ UNCHANGED <<speaking, voiced, synthesis_queue, audio_queue>>

Worker ==
  /\ \/ TakeSegment \/ WorkerSends \/ Synthesize \/ GiveUp
  /\ UNCHANGED <<registered, asked, prov_vars, gen_vars, turn_queue, coord_vars, client_vars>>

-----------------------------------------------------------------------------
\* The coordinator

\* The end of a pass through the select loop.
NextPass(source, audio) ==
  LET open == audio /\ (source \/ worker # "done" \/ audio_queue # << >>) IN
  /\ source_open' = source
  /\ audio_open' = open
  /\ coordinator' = IF source \/ open THEN "select" ELSE "join"

HearGenerator ==
  /\ coordinator = "select" /\ telling = NoEvent /\ source_open
  /\ IF turn_queue # << >>
     THEN /\ telling' = Head(turn_queue)
          /\ turn_queue' = Tail(turn_queue)
          /\ UNCHANGED <<coordinator, source_open, audio_open>>
     ELSE /\ generator = "done"
          /\ NextPass(FALSE, audio_open)
          /\ UNCHANGED <<telling, turn_queue>>
  /\ UNCHANGED <<generation_done, audio_queue, synthesis_queue, tasks, client_vars>>

HearWorker ==
  /\ telling = NoEvent
  /\ coordinator = "drain" \/ (coordinator = "select" /\ audio_open)
  /\ IF audio_queue # << >>
     THEN /\ telling' = Head(audio_queue)
          /\ audio_queue' = Tail(audio_queue)
          /\ UNCHANGED <<coordinator, source_open, audio_open>>
     ELSE /\ coordinator = "select" /\ worker = "done"
          /\ NextPass(source_open, FALSE)
          /\ UNCHANGED <<telling, audio_queue>>
  /\ UNCHANGED <<generation_done, turn_queue, synthesis_queue, tasks, client_vars>>

Quiet == {"SessionStarted", "PartialHypothesis", "OutputRequested", "OutputStarted",
          "OutputFinished"}

\* send_live_event, and what follows it.  The text's completion ends the source whether
\* the client is there to hear it or not; a segment whose worker is gone leaves the loop.
Tell ==
  /\ telling # NoEvent
  /\ client = "reading" /\ unread < stream_capacity
  /\ told' = IF telling.type \in Quiet THEN told ELSE Append(told, telling)
  /\ unread' = unread + 1
  /\ UNCHANGED client

Follow ==
  IF coordinator = "select" /\ telling.type = "TextCompleted"
  THEN generation_done' = TRUE /\ NextPass(FALSE, audio_open) /\ UNCHANGED synthesis_queue
  ELSE IF coordinator = "select" /\ telling.type = "CommittedSegment" /\ worker = "done"
  THEN /\ coordinator' = "join"
       /\ UNCHANGED <<source_open, audio_open, generation_done, synthesis_queue>>
  ELSE IF coordinator = "select"
  THEN /\ synthesis_queue' = IF telling.type = "CommittedSegment"
                             THEN Append(synthesis_queue, telling.segment) ELSE synthesis_queue
       /\ NextPass(source_open, audio_open)
       /\ UNCHANGED generation_done
  ELSE /\ coordinator' = IF coordinator = "verdict" THEN "release" ELSE coordinator
       /\ UNCHANGED <<source_open, audio_open, generation_done, synthesis_queue>>

Told ==
  /\ Tell /\ Follow
  /\ telling' = NoEvent
  /\ UNCHANGED <<tasks, turn_queue, audio_queue>>

NotTold ==
  /\ telling # NoEvent /\ client = "gone"
  /\ telling' = NoEvent
  /\ IF coordinator # "select" \/ telling.type = "TextCompleted"
     THEN Follow /\ UNCHANGED tasks
     ELSE /\ cancelled' = TRUE /\ coordinator' = "join"
          /\ UNCHANGED <<registered, asked, source_open, audio_open, generation_done,
                         synthesis_queue>>
  /\ UNCHANGED <<turn_queue, audio_queue, client_vars>>

\* Mutant: what the worker left in its queue is not sent.
JoinWorker_NoDrain ==
  /\ coordinator = "join" /\ worker = "done"
  /\ coordinator' = "drain"
  /\ audio_queue' = << >>
  /\ UNCHANGED <<telling, source_open, audio_open, generation_done, turn_queue,
                 synthesis_queue, tasks, client_vars>>

\* The join keeps the worker's queue alive and does not read it.
JoinWorker ==
  /\ coordinator = "join" /\ worker = "done"
  /\ coordinator' = "drain"
  /\ UNCHANGED <<telling, source_open, audio_open, generation_done, turn_queue,
                 synthesis_queue, audio_queue, tasks, client_vars>>

\* Mutant: a cancelled turn whose text is finished is completed, too.
Conclude_EvenCancelled ==
  /\ coordinator = "drain" /\ telling = NoEvent /\ audio_queue = << >>
  /\ IF generation_done
     THEN telling' = Event("Completed") /\ coordinator' = "verdict"
     ELSE coordinator' = "release" /\ UNCHANGED telling
  /\ UNCHANGED <<source_open, audio_open, generation_done, turn_queue, synthesis_queue,
                 audio_queue, tasks, client_vars>>

Conclude ==
  /\ coordinator = "drain" /\ telling = NoEvent /\ audio_queue = << >>
  /\ IF generation_done /\ ~cancelled
     THEN telling' = Event("Completed") /\ coordinator' = "verdict"
     ELSE coordinator' = "release" /\ UNCHANGED telling
  /\ UNCHANGED <<source_open, audio_open, generation_done, turn_queue, synthesis_queue,
                 audio_queue, tasks, client_vars>>

Release ==
  /\ coordinator = "release"
  /\ registered' = FALSE
  /\ coordinator' = "done"
  /\ UNCHANGED <<cancelled, asked, telling, source_open, audio_open, generation_done,
                 turn_queue, synthesis_queue, audio_queue, client_vars>>

Coordinator ==
  /\ \/ HearGenerator \/ HearWorker \/ Told \/ NotTold
     \/ JoinWorker \/ Conclude \/ Release
  /\ UNCHANGED <<prov_vars, gen_vars, work_vars>>

-----------------------------------------------------------------------------
\* cancel_live_turn finds the turn as long as it is registered.
CancelTurn ==
  /\ registered /\ ~asked
  /\ cancelled' = TRUE /\ asked' = TRUE
  /\ UNCHANGED <<registered, prov_vars, gen_vars, turn_queue, coord_vars, synthesis_queue,
                 work_vars, audio_queue, client_vars>>

ClientReads ==
  /\ client = "reading" /\ unread > 0
  /\ unread' = unread - 1
  /\ UNCHANGED <<client, told>>
  /\ UNCHANGED <<tasks, prov_vars, gen_vars, turn_queue, coord_vars, synthesis_queue,
                 work_vars, audio_queue>>

ClientLeaves ==
  /\ client = "reading"
  /\ client' = "gone" /\ unread' = 0
  /\ UNCHANGED told
  /\ UNCHANGED <<tasks, prov_vars, gen_vars, turn_queue, coord_vars, synthesis_queue,
                 work_vars, audio_queue>>

Next ==
  \/ Provider \/ Generator \/ Coordinator \/ Worker
  \/ CancelTurn \/ ClientReads \/ ClientLeaves

\* Each task runs when what it waits for is there: the provider's request has a
\* timeout, synthesis comes to an end, a client reads or is gone.
Spec ==
  /\ Init /\ [][Next]_vars
  /\ WF_vars(Provider) /\ WF_vars(Generator) /\ WF_vars(Coordinator) /\ WF_vars(Worker)
  /\ WF_vars(ClientReads)

-----------------------------------------------------------------------------
Terminal == {"Completed", "Cancelled", "Error"}

\* The segments that the events of one type in q name, in their order.
SegmentsIn(q, type) ==
  LET upTo[n \in 0 .. Len(q)] ==
        IF n = 0 THEN << >>
        ELSE IF q[n].type = type THEN Append(upTo[n - 1], q[n].segment) ELSE upTo[n - 1]
  IN upTo[Len(q)]

ToldOf(type) == \E i \in DOMAIN told : told[i].type = type

\* What the client knows of the turn.
phase == IF ToldOf("Completed") THEN "complete"
         ELSE IF ToldOf("TextCompleted") THEN "written" ELSE "writing"
committed == SegmentsIn(told, "CommittedSegment")
spoken == SegmentsIn(told, "AudioChunk")

\* Whatever is cancelled, fails or leaves when it likes, the stream of a turn speaks
\* each segment after it was committed and in that order, and says completed only if
\* the text is finished and all of it was spoken, with nothing behind it.
Spoken == INSTANCE SpokenTurn WITH
  Segment <- 1 .. MaxSegments, phase <- phase, committed <- committed, spoken <- spoken

TurnPromise == Spoken!Spec

\* A client that stays and did not cancel is told how the turn ended, also when the
\* worker fails while the coordinator is busy with the generator: the stream does
\* not just close.
VerdictTold ==
  coordinator = "done" /\ client = "reading" /\ ~asked =>
    \E i \in DOMAIN told : told[i].type \in Terminal

\* docs/streaming-event-contract.md:81-83: "cancelled, completed, and non-recoverable
\* error are terminal; events after them are malformed."
TerminalIsLast == \A i \in 1 .. Len(told) - 1 : told[i].type \notin Terminal

\* The two ways a turn can hang: the coordinator joins a worker that waits for room in
\* the queue the coordinator does not read any more, and the generator joins a
\* provider that waits for room in the queue the generator does not read any more.
JoinBlocked ==
  coordinator = "join" /\ voiced # << >> /\ Len(audio_queue) = audio_capacity
ProviderBlocked ==
  generator = "await" /\ provider = "sending" /\ provider_queue = provider_capacity

\* Every turn ends: its id is free again and none of its tasks is left, whatever was
\* cancelled, failed or hung up, but for these two deadlocks.
TurnEnds ==
  <>[](\/ ~registered /\ generator = "done" /\ provider \in {"none", "ok", "failed"}
       \/ JoinBlocked \/ ProviderBlocked)
=============================================================================
