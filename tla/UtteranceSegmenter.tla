-------------------------- MODULE UtteranceSegmenter --------------------------
(***************************************************************************)
(* UtteranceSegmenter of crates/tongues-audio/src/segmentation.rs: from    *)
(* frames marked speech or silence, by a detector (VAD) or by a provider   *)
(* that knows, to segments with pre-roll, endpoints and a close reason.    *)
(*                                                                         *)
(* The segmenter is one record s and every method an operator on it, so    *)
(* that the pipeline can call several in a step; s.log is the history of   *)
(* the events they returned.  A frame is the time it starts at and whether *)
(* it is speech.  Durations are the code's, in ms.                         *)
(***************************************************************************)
EXTENDS Integers, Sequences, SequencesExt

CONSTANT config    \* SegmentationConfig

ASSUME ConfigAssumption ==
  \* SegmentationConfig::validate
  /\ config \in [frame_ms : Nat \ {0}, speech_start_ms : Nat \ {0},
                 acoustic_end_silence_ms : Nat \ {0}, segment_end_silence_ms : Nat,
                 minimum_speech_ms : Nat, pre_roll_ms : Nat, maximum_segment_ms : Nat]
  /\ config.segment_end_silence_ms >= config.acoustic_end_silence_ms
  /\ config.maximum_segment_ms >= config.frame_ms

duration_frames(ms) == (ms + config.frame_ms - 1) \div config.frame_ms

speech_start_frames    == duration_frames(config.speech_start_ms)
acoustic_end_frames    == duration_frames(config.acoustic_end_silence_ms)
segment_end_frames     == duration_frames(config.segment_end_silence_ms)
pre_roll_frames        == duration_frames(config.pre_roll_ms)
maximum_segment_frames == duration_frames(config.maximum_segment_ms)

\* active: None, as a segment with an id that no segment has.
NoSegment == [id |-> -1]

NewSegmenter ==
  [next_segment |-> 0, pre_roll |-> << >>, pending_speech |-> << >>, active |-> NoSegment,
   opened |-> 0, finalized |-> 0, dropped |-> 0, dropped_source_chunks |-> 0,
   forced_flushes |-> 0, log |-> << >>]

Active(s) == s.active # NoSegment
Emit(s, event) == [s EXCEPT !.log = Append(@, event)]

\* The last n elements of q, all of it if it is shorter.
LastN(q, n) == IF Len(q) <= n THEN q ELSE SubSeq(q, Len(q) - n + 1, Len(q))

push_pre_roll(s, frames) ==
  [s EXCEPT !.pre_roll = LastN(@ \o frames, pre_roll_frames)]

\* Mutant: speech that was too short is not reported at all.
Report_ForgetsShort(s, segment) ==
  IF segment.speech_frames * config.frame_ms < config.minimum_speech_ms
  THEN [s EXCEPT !.dropped = @ + 1]
  ELSE Emit([s EXCEPT !.finalized = @ + 1],
            [kind |-> "Finalized", id |-> segment.id, segment |-> segment])

Report(s, segment) ==
  IF segment.speech_frames * config.frame_ms < config.minimum_speech_ms
  THEN Emit([s EXCEPT !.dropped = @ + 1],
            [kind |-> "Dropped", id |-> segment.id, segment |-> segment])
  ELSE Emit([s EXCEPT !.finalized = @ + 1],
            [kind |-> "Finalized", id |-> segment.id, segment |-> segment])

\* Mutant: the whole end of the segment, speech included, is kept as pre-roll.
finish_segment_KeepsSpeech(s, reason) ==
  LET a == s.active IN
  Report([s EXCEPT !.active = NoSegment, !.pre_roll = LastN(a.frames, pre_roll_frames)],
         [id |-> a.id, frames |-> a.frames, close_reason |-> reason,
          pre_roll_frames |-> a.pre_roll_frames, speech_frames |-> a.speech_frames])

\* finish_segment of the active segment.  Its post-roll, the frames after its last
\* speech, is the pre-roll of the next one.
finish_segment(s, reason) ==
  LET a == s.active
      post_roll == SubSeq(a.frames, a.last_speech_len + 1, Len(a.frames)) IN
  Report([s EXCEPT !.active = NoSegment, !.pre_roll = LastN(post_roll, pre_roll_frames)],
         [id |-> a.id, frames |-> a.frames, close_reason |-> reason,
          pre_roll_frames |-> a.pre_roll_frames, speech_frames |-> a.speech_frames])

drop_pending(s, reason) ==
  Emit([s EXCEPT !.pending_speech = << >>, !.next_segment = @ + 1, !.dropped = @ + 1],
       [kind |-> "Dropped", id |-> s.next_segment,
        segment |-> [id |-> s.next_segment, frames |-> s.pending_speech, close_reason |-> reason,
                     pre_roll_frames |-> 0, speech_frames |-> Len(s.pending_speech)]])

\* Mutant: the id of a segment is not used up.
open_active_ReusesId(s) ==
  LET frames == s.pre_roll \o s.pending_speech IN
  Emit([s EXCEPT !.opened = @ + 1,
                 !.pre_roll = << >>, !.pending_speech = << >>,
                 !.active = [id |-> s.next_segment, frames |-> frames,
                             pre_roll_frames |-> Len(s.pre_roll),
                             speech_frames |-> Len(s.pending_speech),
                             last_speech_len |-> Len(frames),
                             consecutive_silence |-> 0, acoustic_ended |-> FALSE]],
       [kind |-> "Opened", id |-> s.next_segment])

open_active(s) ==
  LET frames == s.pre_roll \o s.pending_speech IN
  Emit([s EXCEPT !.next_segment = @ + 1, !.opened = @ + 1,
                 !.pre_roll = << >>, !.pending_speech = << >>,
                 !.active = [id |-> s.next_segment, frames |-> frames,
                             pre_roll_frames |-> Len(s.pre_roll),
                             speech_frames |-> Len(s.pending_speech),
                             last_speech_len |-> Len(frames),
                             consecutive_silence |-> 0, acoustic_ended |-> FALSE]],
       [kind |-> "Opened", id |-> s.next_segment])

-----------------------------------------------------------------------------
\* process, one operator per branch

SpeechInSegment(s, frame) ==
  LET a == s.active
      frames == Append(a.frames, frame)
      next == [s EXCEPT !.active = [a EXCEPT !.frames = frames, !.speech_frames = @ + 1,
                                             !.last_speech_len = Len(frames),
                                             !.consecutive_silence = 0,
                                             !.acoustic_ended = FALSE]] IN
  IF a.acoustic_ended THEN Emit(next, [kind |-> "Resumed", id |-> a.id]) ELSE next

SpeechOutside(s, frame, authoritative) ==
  LET next == [s EXCEPT !.pending_speech = Append(@, frame)] IN
  IF authoritative \/ Len(next.pending_speech) >= speech_start_frames
  THEN open_active(next) ELSE next

SilenceInSegment(s, frame) ==
  LET a == s.active
      silence == a.consecutive_silence + 1
      ends == ~a.acoustic_ended /\ silence >= acoustic_end_frames
      next == [s EXCEPT !.active = [a EXCEPT !.frames = Append(@, frame),
                                             !.consecutive_silence = silence,
                                             !.acoustic_ended = @ \/ ends]]
      said == IF ends THEN Emit(next, [kind |-> "Ended", id |-> a.id]) ELSE next IN
  IF silence >= segment_end_frames THEN finish_segment(said, "Silence") ELSE said

SilenceOutside(s, frame) ==
  push_pre_roll([s EXCEPT !.pending_speech = << >>], Append(s.pending_speech, frame))

Overlong(s) ==
  Active(s) /\ Len(s.active.frames) - s.active.pre_roll_frames >= maximum_segment_frames

process(s, frame, authoritative) ==
  LET next == CASE Active(s) /\ frame.speech   -> SpeechInSegment(s, frame)
                []  Active(s) /\ ~frame.speech  -> SilenceInSegment(s, frame)
                []  ~Active(s) /\ frame.speech  -> SpeechOutside(s, frame, authoritative)
                []  ~Active(s) /\ ~frame.speech -> SilenceOutside(s, frame) IN
  IF Overlong(next)
  THEN [finish_segment(next, "MaximumDuration") EXCEPT !.pre_roll = << >>]
  ELSE next

process_vad(s, frame) == process(s, frame, FALSE)

\* Ends whatever is going on, before the frame at the boundary.
segment_end(s, frame) ==
  push_pre_roll(
    CASE Active(s) -> finish_segment(s, "AuthoritativeBoundary")
      [] ~Active(s) /\ s.pending_speech # << >> -> drop_pending(s, "AuthoritativeBoundary")
      [] OTHER -> s,
    <<frame>>)

\* Mutant: what was heard before the gap stays in the pre-roll.
note_source_discontinuity_KeepsPreRoll(s, expected, received) ==
  LET lost == IF received - expected > 1 THEN received - expected ELSE 1
      next == [s EXCEPT !.dropped_source_chunks = @ + lost, !.pending_speech = << >>] IN
  IF Active(s) THEN finish_segment(next, "Discontinuity") ELSE next

note_source_discontinuity(s, expected, received) ==
  LET lost == IF received - expected > 1 THEN received - expected ELSE 1
      next == [s EXCEPT !.dropped_source_chunks = @ + lost, !.pending_speech = << >>] IN
  [IF Active(s) THEN finish_segment(next, "Discontinuity") ELSE next EXCEPT !.pre_roll = << >>]

force_flush(s, reason) ==
  LET next == [s EXCEPT !.forced_flushes = @ + 1] IN
  CASE Active(s) -> finish_segment(next, reason)
    [] ~Active(s) /\ s.pending_speech # << >> -> drop_pending(next, reason)
    [] OTHER -> s

-----------------------------------------------------------------------------
(* What can be said of a segmenter and the events it has returned.          *)

Closings(s) == {i \in DOMAIN s.log : s.log[i].kind \in {"Dropped", "Finalized"}}
Reported(s) == [i \in Closings(s) |-> s.log[i].segment]

\* The buffers stay within their bounds and an open segment is the only one that buffers.
SegmenterOK(s) ==
  /\ Len(s.pre_roll) <= pre_roll_frames
  /\ Len(s.pending_speech) < speech_start_frames
  /\ Active(s) => /\ s.pending_speech = << >> /\ s.pre_roll = << >>
                  /\ s.active.consecutive_silence = Len(s.active.frames) - s.active.last_speech_len
                  /\ s.active.consecutive_silence < segment_end_frames
                  /\ s.active.acoustic_ended <=> s.active.consecutive_silence >= acoustic_end_frames

Adjacent(frames, length) ==
  \A i \in 1 .. Len(frames) - 1 : frames[i + 1].at = frames[i].at + length

SpeechOf(frames) == {frames[i].at : i \in {j \in DOMAIN frames : frames[j].speech}}

\* The speech frames that are in a reported segment or may still get into one.
Kept(s) ==
  (UNION {SpeechOf(Reported(s)[i].frames) : i \in Closings(s)})
    \cup (IF Active(s) THEN SpeechOf(s.active.frames) ELSE {})
    \cup SpeechOf(s.pending_speech) \cup SpeechOf(s.pre_roll)

\* What may follow what in the log: the events of a segment come together, its end
\* is said once per silence, and only a silence that was said closes it as one.
MayFollow(e, f) ==
  CASE f.kind = "Opened"  -> e.kind \in {"Dropped", "Finalized"} /\ f.id = e.id + 1
    [] f.kind = "Ended"   -> e.kind \in {"Opened", "Resumed"} /\ f.id = e.id
    [] f.kind = "Resumed" -> e.kind = "Ended" /\ f.id = e.id
    [] OTHER -> \/ /\ e.kind \in {"Opened", "Ended", "Resumed"} /\ f.id = e.id
                   /\ f.segment.close_reason = "Silence" => e.kind = "Ended"
                \/ /\ e.kind \in {"Dropped", "Finalized"} /\ f.id = e.id + 1
                   /\ f.kind = "Dropped" /\ f.segment.pre_roll_frames = 0
=============================================================================
