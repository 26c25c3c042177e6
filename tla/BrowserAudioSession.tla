-------------------------- MODULE BrowserAudioSession --------------------------
(***************************************************************************)
(* The browser microphone of crates/tongues-server/src/audio_input_ws.rs:  *)
(* the session, an async task that selects between the client's socket and *)
(* a queue of probes; the consumer, a blocking task that runs the VAD      *)
(* pipeline over the bounded audio input and sends probes; and, when the   *)
(* client asks for language routing, a worker thread that routes segments  *)
(* and sends probes of its own.                                            *)
(*                                                                         *)
(* What the pipeline reports of an event is a choice here (VadPipeline has *)
(* it in detail); the dropped segments and the events a client only        *)
(* watches are all the probe Level.  Messages that are answered at once    *)
(* and change nothing, a chunk that cannot be decoded among them, are left *)
(* out.                                                                    *)
(***************************************************************************)
EXTENDS AudioInput, FiniteSets

CONSTANTS
  probe_capacity,      \* of the probe queue (64)
  segment_capacity,    \* of the language worker's queue (2)
  MaxSegments          \* bound: segments the pipeline reports

ASSUME SessionAssumption ==
  /\ probe_capacity \in Nat \ {0} /\ segment_capacity \in Nat \ {0} /\ MaxSegments \in Nat

VARIABLES
  session,        \* "loop", then "closing": it awaits the consumer, then "done"
  input_open,
  client_gone,    \* the client has closed the connection, or lost it
  delivered,      \* the probes sent to the client (history)
  probes,         \* the queue of probes
  consumer,       \* "running", "joining", "ending", "leaving", "done"
  outbox,         \* what it still has to do for the last event of the pipeline
  reported,       \* how many segments the pipeline has reported
  language_open,  \* language_tx has not been dropped
  segments,       \* the queue of segments for the worker
  worker,         \* "off" (no routing asked for), "starting", "failing", "ready",
                  \* "routing", "done"
  routed          \* the segment the worker has taken

session_side == <<session, input_open, client_gone, delivered>>
consumer_side == <<consumer, outbox, reported>>
worker_side == <<worker, routed>>
vars == <<inputvars, session_side, probes, consumer_side, language_open, segments, worker_side>>

Level == [type |-> "Level"]
SegmentFinal(n) == [type |-> "SegmentFinal", segment |-> n]
Route(n) == [type |-> "Route", segment |-> n]               \* not a probe: try_send
LanguageRouted(n) == [type |-> "LanguageRouted", segment |-> n]
Error(n) == [type |-> "Error", segment |-> n]               \* 0: of no segment
Leave == [type |-> "Leave"]                                 \* not a probe: break
EndOfStream == [type |-> "EndOfStream"]                     \* not a probe
Ended == [type |-> "Ended"]

\* A pipeline that cannot be built is reported; it has no worker.
Init ==
  /\ InputInit
  /\ session = "loop" /\ input_open = TRUE /\ client_gone = FALSE /\ delivered = << >>
  /\ probes = << >>
  /\ consumer = "running" /\ reported = 0
  /\ \/ outbox = << >> /\ worker \in {"off", "starting"}
     \/ outbox = <<Error(0), Leave>> /\ worker = "off"
  /\ language_open = (worker = "starting")
  /\ segments = << >> /\ routed = 0

-----------------------------------------------------------------------------
\* Session

\* A chunk, answered with an error when it does not fit.
ClientChunk ==
  /\ session = "loop" /\ input_open /\ ~client_gone /\ consumer # "done"
  /\ Capture
  /\ UNCHANGED <<session_side, probes, consumer_side, language_open, segments, worker_side>>

\* The end control; the socket is not read again.
ClientEnd ==
  /\ session = "loop" /\ input_open /\ ~client_gone
  /\ \/ consumer # "done" /\ End
     \/ consumer = "done" /\ UNCHANGED inputvars
  /\ input_open' = FALSE
  /\ UNCHANGED <<session, client_gone, delivered, probes, consumer_side, language_open,
                 segments, worker_side>>

ClientGone ==
  /\ ~client_gone /\ session # "done"
  /\ client_gone' = TRUE
  /\ UNCHANGED <<inputvars, session, input_open, delivered, probes, consumer_side,
                 language_open, segments, worker_side>>

\* break, and drop(source_tx)
StopLoop == session' = "closing" /\ Disconnect

SeeClose ==
  /\ session = "loop" /\ input_open /\ client_gone
  /\ StopLoop
  /\ UNCHANGED <<input_open, client_gone, delivered, probes, consumer_side, language_open,
                 segments, worker_side>>

\* A probe is sent to the client; the send fails when the client is gone.
ForwardProbe ==
  /\ session = "loop" /\ probes # << >>
  /\ probes' = Tail(probes)
  /\ IF client_gone
     THEN UNCHANGED delivered /\ StopLoop
     ELSE /\ delivered' = Append(delivered, Head(probes))
          /\ IF Head(probes) = Ended THEN StopLoop ELSE UNCHANGED <<session, inputvars>>
  /\ UNCHANGED <<input_open, client_gone, consumer_side, language_open, segments, worker_side>>

\* Every sender of the probe queue is gone.
ProbesClosed ==
  /\ session = "loop" /\ probes = << >> /\ consumer = "done" /\ worker \in {"off", "done"}
  /\ StopLoop
  /\ UNCHANGED <<input_open, client_gone, delivered, probes, consumer_side, language_open,
                 segments, worker_side>>

\* consumer.await returns; probe_rx is only dropped now.
Finish ==
  /\ session = "closing" /\ consumer = "done"
  /\ session' = "done"
  /\ UNCHANGED <<inputvars, input_open, client_gone, delivered, probes, consumer_side,
                 language_open, segments, worker_side>>

-----------------------------------------------------------------------------
\* Consumer

Room == Len(probes) < probe_capacity
Send(probe) == Room /\ probes' = Append(probes, probe)

\* Mutant: a segment goes to the worker before the client is told of it.
Segment_RoutedFirst(n) == <<Route(n), SegmentFinal(n)>>

\* A finalized segment: the client is told, then the worker.
Segment(n) == <<SegmentFinal(n), Route(n)>>

\* pipeline.next_event; the pipeline may fail, too.
Pull ==
  /\ consumer = "running" /\ outbox = << >>
  /\ Receive
  /\ \E closes \in BOOLEAN :
       LET flushed == IF closes THEN Segment(reported + 1) ELSE << >>
           type == Returned[1].type IN
       /\ closes => reported < MaxSegments
       /\ \/ type = "Audio" /\ outbox' \in {<<Level>> \o flushed, flushed, <<Error(0), Leave>>}
          \/ type = "Discontinuity" /\ outbox' = flushed \o <<Level>>
          \/ type = "EndOfStream" /\ outbox' = flushed \o <<EndOfStream>>
       /\ reported' = IF closes THEN reported + 1 ELSE reported
  /\ UNCHANGED <<session_side, probes, consumer, language_open, segments, worker_side>>

SendProbe ==
  /\ consumer = "running" /\ outbox # << >>
  /\ Head(outbox).type \in {"Level", "SegmentFinal", "Error"}
  /\ Send(Head(outbox))
  /\ outbox' = Tail(outbox)
  /\ UNCHANGED <<inputvars, session_side, consumer, reported, language_open, segments, worker_side>>

\* sender.try_send(segment), which fails when the queue is full or the worker gone
RouteSegment ==
  /\ consumer = "running" /\ outbox # << >> /\ Head(outbox).type = "Route"
  /\ LET n == Head(outbox).segment IN
     IF ~language_open
     THEN outbox' = Tail(outbox) /\ UNCHANGED segments
     ELSE IF worker = "done" \/ Len(segments) >= segment_capacity
     THEN outbox' = <<Error(n)>> \o Tail(outbox) /\ UNCHANGED segments
     ELSE outbox' = Tail(outbox) /\ segments' = Append(segments, n)
  /\ UNCHANGED <<inputvars, session_side, probes, consumer, reported, language_open, worker_side>>

\* The end of the stream, or a failure: language_tx is dropped.
StopPulling ==
  /\ consumer = "running" /\ outbox # << >> /\ Head(outbox).type \in {"EndOfStream", "Leave"}
  /\ consumer' = IF Head(outbox).type = "EndOfStream" THEN "joining" ELSE "leaving"
  /\ outbox' = Tail(outbox)
  /\ language_open' = FALSE
  /\ UNCHANGED <<inputvars, session_side, probes, reported, segments, worker_side>>

\* Mutant: the worker is not waited for.
Joined_AtOnce == TRUE

\* worker.join() returns
Joined == worker \in {"off", "done"}

JoinWorker ==
  /\ consumer \in {"joining", "leaving"} /\ Joined
  /\ consumer' = IF consumer = "joining" THEN "ending" ELSE "done"
  /\ UNCHANGED <<inputvars, session_side, probes, outbox, reported, language_open, segments,
                 worker_side>>

SendEnded ==
  /\ consumer = "ending"
  /\ Send(Ended)
  /\ consumer' = "done"
  /\ UNCHANGED <<inputvars, session_side, outbox, reported, language_open, segments, worker_side>>

Consume == Pull \/ SendProbe \/ RouteSegment \/ StopPulling \/ JoinWorker \/ SendEnded

-----------------------------------------------------------------------------
\* Language worker

\* The router or the detector may not be available.
StartWorker ==
  /\ worker = "starting"
  /\ worker' \in {"ready", "failing"}
  /\ UNCHANGED <<inputvars, session_side, probes, consumer_side, language_open, segments, routed>>

\* Its error, and return: the segments in its queue are dropped with it.
FailWorker ==
  /\ worker = "failing"
  /\ Send(Error(0))
  /\ worker' = "done" /\ segments' = << >>
  /\ UNCHANGED <<inputvars, session_side, consumer_side, language_open, routed>>

TakeSegment ==
  /\ worker = "ready" /\ segments # << >>
  /\ routed' = Head(segments) /\ segments' = Tail(segments)
  /\ worker' = "routing"
  /\ UNCHANGED <<inputvars, session_side, probes, consumer_side, language_open>>

\* route_audio_segment, and the probe for what it returns
RouteTaken ==
  /\ worker = "routing"
  /\ Send(LanguageRouted(routed)) \/ Send(Error(routed))
  /\ worker' = "ready"
  /\ UNCHANGED <<inputvars, session_side, consumer_side, language_open, segments, routed>>

\* Mutant: the worker does not see that language_tx was dropped.
NoMoreSegments_Never == FALSE

\* segment_rx has nothing left and its sender is gone
NoMoreSegments == ~language_open /\ segments = << >>

StopWorker ==
  /\ worker = "ready" /\ NoMoreSegments
  /\ worker' = "done"
  /\ UNCHANGED <<inputvars, session_side, probes, consumer_side, language_open, segments, routed>>

Work == StartWorker \/ FailWorker \/ TakeSegment \/ RouteTaken \/ StopWorker

Next ==
  \/ ClientChunk \/ ClientEnd \/ ClientGone
  \/ SeeClose \/ ForwardProbe \/ ProbesClosed \/ Finish
  \/ Consume \/ Work

\* Threads and ready branches of the select are scheduled; the client does as it likes.
Spec ==
  /\ Init /\ [][Next]_vars
  /\ WF_vars(SeeClose) /\ WF_vars(ForwardProbe) /\ WF_vars(ProbesClosed) /\ WF_vars(Finish)
  /\ WF_vars(Consume) /\ WF_vars(Work)

-----------------------------------------------------------------------------
At(probe) == {i \in DOMAIN delivered : delivered[i] = probe}

\* "Ended" closes what the client is told: it comes once, last, and every segment
\* announced before it has been answered by its language or by an error, whatever the
\* worker and the consumer were doing when the stream ended.
EndedIsLast ==
  \A i \in At(Ended) :
    /\ i = Len(delivered)
    /\ worker # "off" /\ At(Error(0)) = {} =>
         \A n \in 1 .. reported : At(LanguageRouted(n)) \cup At(Error(n)) # {}

\* The worker and the consumer send to one queue: the client hears of a segment
\* before it hears of its language.
LanguageFollowsSegment ==
  \A i \in DOMAIN delivered :
    delivered[i].type = "LanguageRouted" =>
      \E k \in 1 .. i - 1 : delivered[k] = SegmentFinal(delivered[i].segment)

EndQueued == \E i \in DOMAIN channel : channel[i].type = "End"

\* Three queues and a join: an end that has been queued runs through all of them, and
\* the session ends, unless the client goes away meanwhile.
SessionEnds == EndQueued ~> (session = "done" \/ client_gone)

\* A client that goes away while it is listened to ends the session, unless the probe
\* queue fills up: the consumer then waits for room in a queue nobody reads any more.
CloseEnds ==
  client_gone /\ session = "loop" /\ input_open
    ~> (session = "done" \/ Len(probes) = probe_capacity)

\* Every adapter yields the "end of stream" (docs/audio-input.md:4-11): once the
\* client has ended the stream the pipeline comes to its end.
EndArrives == end_sent ~> (ended \/ session = "done" \/ client_gone)
================================================================================
