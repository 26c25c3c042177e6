------------------------------ MODULE VadPipeline ------------------------------
(***************************************************************************)
(* VadSegmentationPipeline of crates/tongues-audio/src/speech_pipeline.rs: *)
(* it pulls chunks from a bounded audio input, cuts them into the frames   *)
(* of the detector and feeds an UtteranceSegmenter.                        *)
(*                                                                         *)
(* A sample is its place on the source's timeline and the connection it    *)
(* came by.  What the detector says of a frame is a choice.  Events that   *)
(* wait in "queued" count as returned: nothing else happens before they    *)
(* are popped.                                                             *)
(***************************************************************************)
EXTENDS AudioInput, UtteranceSegmenter

CONSTANT samples_per_vad_frame

ASSUME FrameAssumption == samples_per_vad_frame \in Nat \ {0}

VARIABLES
  segmenter,
  pending_samples, pending_start_frame, expected_source_chunk_sequence,
  finished,      \* the pipeline's "ended"
  framed         \* the frames given to the detector (history)

Unknown == -1    \* pending_start_frame: None

framing == <<pending_samples, pending_start_frame>>
vars == <<inputvars, segmenter, framing, expected_source_chunk_sequence, finished, framed>>

Init ==
  /\ InputInit
  /\ segmenter = NewSegmenter
  /\ pending_samples = << >> /\ pending_start_frame = Unknown
  /\ expected_source_chunk_sequence = 0
  /\ finished = FALSE /\ framed = << >>

Produce ==
  /\ Capture \/ End \/ Reconnect \/ Disconnect
  /\ UNCHANGED <<segmenter, framing, expected_source_chunk_sequence, finished, framed>>

Samples(chunk) ==
  [i \in 1 .. chunk.frames |-> [at |-> chunk.start_frame + i - 1, era |-> chunk.era]]

-----------------------------------------------------------------------------
\* accept_source_chunk, in two checks

Noted(chunk) ==
  chunk.sequence # expected_source_chunk_sequence

\* The chunk does not start where the pending samples end.
Misplaced(chunk) ==
  /\ ~Noted(chunk) /\ pending_start_frame # Unknown
  /\ pending_start_frame + Len(pending_samples) # chunk.start_frame

\* Mutant: samples from before a gap are joined to those after it.
AcceptChunk_KeepsSamples(chunk) ==
  LET starts_over == Misplaced(chunk) \/ pending_samples = << >> IN
  /\ segmenter' =
       IF Noted(chunk)
       THEN note_source_discontinuity(segmenter, expected_source_chunk_sequence, chunk.sequence)
       ELSE IF Misplaced(chunk)
       THEN note_source_discontinuity(segmenter, chunk.sequence, chunk.sequence)
       ELSE segmenter
  /\ expected_source_chunk_sequence' = chunk.sequence + 1
  /\ pending_start_frame' = IF starts_over THEN chunk.start_frame ELSE pending_start_frame
  /\ pending_samples' = pending_samples \o Samples(chunk)
  /\ UNCHANGED <<finished, framed>>

\* Mutant: a chunk with a hole before it goes the way of the samples before the hole.
AcceptChunk_DropsMisplaced(chunk) ==
  LET starts_over == Noted(chunk) \/ pending_samples = << >> IN
  /\ segmenter' =
       IF Noted(chunk)
       THEN note_source_discontinuity(segmenter, expected_source_chunk_sequence, chunk.sequence)
       ELSE IF Misplaced(chunk)
       THEN note_source_discontinuity(segmenter, chunk.sequence, chunk.sequence)
       ELSE segmenter
  /\ expected_source_chunk_sequence' = chunk.sequence + 1
  /\ pending_start_frame' =
       IF Misplaced(chunk) THEN Unknown
       ELSE IF starts_over THEN chunk.start_frame ELSE pending_start_frame
  /\ pending_samples' =
       IF Misplaced(chunk) THEN << >>
       ELSE (IF starts_over THEN << >> ELSE pending_samples) \o Samples(chunk)
  /\ UNCHANGED <<finished, framed>>

AcceptChunk(chunk) ==
  LET starts_over == Noted(chunk) \/ Misplaced(chunk) \/ pending_samples = << >> IN
  /\ segmenter' =
       IF Noted(chunk)
       THEN note_source_discontinuity(segmenter, expected_source_chunk_sequence, chunk.sequence)
       ELSE IF Misplaced(chunk)
       THEN note_source_discontinuity(segmenter, chunk.sequence, chunk.sequence)
       ELSE segmenter
  /\ expected_source_chunk_sequence' = chunk.sequence + 1
  /\ pending_start_frame' = IF starts_over THEN chunk.start_frame ELSE pending_start_frame
  /\ pending_samples' = (IF starts_over THEN << >> ELSE pending_samples) \o Samples(chunk)
  /\ UNCHANGED <<finished, framed>>

\* Mutant: the segmenter is not told of the gap.
AcceptGap_Quiet(gap) ==
  /\ pending_samples' = << >> /\ pending_start_frame' = Unknown
  /\ expected_source_chunk_sequence' = gap.received
  /\ UNCHANGED <<segmenter, finished, framed>>

AcceptGap(gap) ==
  /\ segmenter' = note_source_discontinuity(segmenter, gap.expected, gap.received)
  /\ pending_samples' = << >> /\ pending_start_frame' = Unknown
  /\ expected_source_chunk_sequence' = gap.received
  /\ UNCHANGED <<finished, framed>>

\* emit_vad_frame: the frame as the code places it, and its samples.
Frame(samples, speech) == [at |-> pending_start_frame, speech |-> speech, samples |-> samples]

EmitCompleteVadFrame == \E speech \in BOOLEAN :
  LET n == samples_per_vad_frame
      frame == Frame(SubSeq(pending_samples, 1, n), speech) IN
  /\ ~finished /\ Len(pending_samples) >= n
  /\ pending_samples' = SubSeq(pending_samples, n + 1, Len(pending_samples))
  /\ pending_start_frame' = pending_start_frame + n
  /\ segmenter' = process_vad(segmenter, frame)
  /\ framed' = Append(framed, frame)
  /\ UNCHANGED <<inputvars, expected_source_chunk_sequence, finished>>

\* finish_source: the last frame is padded, then everything is flushed.
FinishSource ==
  /\ IF pending_samples = << >>
     THEN /\ segmenter' = force_flush(segmenter, "EndOfStream")
          /\ UNCHANGED framed
     ELSE \E speech \in BOOLEAN :
          LET frame == Frame(pending_samples, speech) IN
          /\ segmenter' = force_flush(process_vad(segmenter, frame), "EndOfStream")
          /\ framed' = Append(framed, frame)
  /\ pending_samples' = << >>
  /\ finished' = TRUE
  /\ UNCHANGED <<pending_start_frame, expected_source_chunk_sequence>>

\* next_event, when a full frame is not at hand
Pull ==
  /\ ~finished /\ Len(pending_samples) < samples_per_vad_frame
  /\ Receive
  /\ LET event == Returned[1] IN
     \/ event.type = "Audio" /\ AcceptChunk(event.chunk)
     \/ event.type = "Discontinuity" /\ AcceptGap(event)
     \/ event.type = "EndOfStream" /\ FinishSource

\* cancel, between two calls of next_event
CancelPipeline ==
  /\ ~finished
  /\ Cancel
  /\ segmenter' = force_flush(segmenter, "Cancelled")
  /\ pending_samples' = << >> /\ pending_start_frame' = Unknown
  /\ finished' = TRUE
  /\ UNCHANGED <<expected_source_chunk_sequence, framed>>

Next == Produce \/ Pull \/ EmitCompleteVadFrame \/ CancelPipeline

\* The consumer is a loop around next_event.
Spec == Init /\ [][Next]_vars /\ WF_vars(Pull) /\ WF_vars(EmitCompleteVadFrame)

-----------------------------------------------------------------------------
Stretch(samples) ==
  \A i \in 1 .. Len(samples) - 1 :
    samples[i + 1].at = samples[i].at + 1 /\ samples[i + 1].era = samples[i].era

\* A frame goes on with the sample behind the last one of the frame before.
Adjoins(f, g) ==
  LET last == f.samples[Len(f.samples)] IN
  g.samples[1].at = last.at + 1 /\ g.samples[1].era = last.era

\* The detector never sees audio from both sides of a gap in one frame, and the place
\* a frame is given on the timeline is the place of its samples.
FramesTrue ==
  \A i \in DOMAIN framed :
    Stretch(framed[i].samples) /\ framed[i].at = framed[i].samples[1].at

\* "Source sequence or frame-timeline gaps explicitly close the active segment ...
\* instead of silently joining unrelated audio" (docs/vad-segmentation.md:95-97):
\* whatever is lost on the way, a segment is one stretch of one connection.
SegmentsAreStretches ==
  \A i \in Closings(segmenter) :
    LET frames == Reported(segmenter)[i].frames IN
    /\ \A k \in DOMAIN frames : Stretch(frames[k].samples)
    /\ \A k \in 1 .. Len(frames) - 1 : Adjoins(frames[k], frames[k + 1])

IsAudio(i) == given[i].type = "Audio"
EndOf(i) == given[i].chunk.start_frame + given[i].chunk.frames

\* The events from the i-th to the j-th are chunks, each starting where the last one ends.
Joined(i, j) ==
  \A k \in i .. j : IsAudio(k) /\ (k > i => given[k].chunk.start_frame = EndOf(k - 1))

\* Of the chunks the pipeline was given, only what did not fill a frame before a gap
\* is not heard by the detector: a sample that a frame's worth of its stretch begins with is.
FramesHeard ==
  LET heard == (UNION {ToSet(framed[i].samples) : i \in DOMAIN framed})
                 \cup ToSet(pending_samples) IN
  ~cancelled =>
    \A i, j \in DOMAIN given : i <= j /\ Joined(i, j) =>
      \A x \in ToSet(Samples(given[i].chunk)) :
        x.at + samples_per_vad_frame <= EndOf(j) => x \in heard

EndFlushes ==
  finished => /\ pending_samples = << >>
              /\ ~Active(segmenter) /\ segmenter.pending_speech = << >>

\* No frame's worth of adjacent samples is lost on the way, and at the end, where "a
\* partial 10 ms frame is zero-padded before the final boundary is evaluated"
\* (docs/vad-segmentation.md:98-99), nothing is left to report.
NoAudioLost == FramesHeard /\ EndFlushes

\* A stream whose producers are gone comes to its end, and so does the pipeline.
PipelineEnds == ~connected ~> finished
=============================================================================
