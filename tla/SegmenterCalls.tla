---------------------------- MODULE SegmenterCalls ----------------------------
(* An UtteranceSegmenter under any sequence of calls by its owners.           *)
EXTENDS UtteranceSegmenter

CONSTANTS
  Missing,     \* how many frames may be lost at a discontinuity
  MaxFrames    \* bound: frames, those lost included

ASSUME CallsAssumption == Missing \subseteq Nat /\ MaxFrames \in Nat

VARIABLES
  owner,       \* who calls: "pipeline", a VAD pipeline, or "any", a program that uses
               \* every method
  callee,      \* the segmenter
  now,         \* when the next frame starts
  heard        \* the frames given to the segmenter, and Pause (history)

callvars == <<owner, callee, now, heard>>

CallsInit ==
  /\ owner \in {"pipeline", "any"}
  /\ callee = NewSegmenter /\ now = 0 /\ heard = << >>

Pause == [at |-> -1, speech |-> FALSE]
NextFrame(speech) == [at |-> now, speech |-> speech]

Take(frame, s) ==
  /\ now < MaxFrames
  /\ callee' = s
  /\ now' = now + 1
  /\ heard' = Append(heard, frame)
  /\ UNCHANGED owner

ProcessVad == \E speech \in BOOLEAN :
  Take(NextFrame(speech), process_vad(callee, NextFrame(speech)))

ProcessAuthoritative == \E speech \in BOOLEAN :
  /\ owner = "any"
  /\ Take(NextFrame(speech), process(callee, NextFrame(speech), TRUE))

SegmentEnd ==
  /\ owner = "any"
  /\ Take(NextFrame(FALSE), segment_end(callee, NextFrame(FALSE)))

NoteSourceDiscontinuity == \E lost \in Missing :
  /\ now + lost <= MaxFrames /\ Len(heard) < MaxFrames
  /\ callee' = note_source_discontinuity(callee, now, now + lost)
  /\ now' = now + lost
  /\ heard' = Append(heard, Pause)
  /\ UNCHANGED owner

ForceFlush ==
  /\ owner = "any"
  /\ callee' = force_flush(callee, "ForcedFlush")
  /\ UNCHANGED <<owner, now, heard>>

CallsNext == ProcessVad \/ ProcessAuthoritative \/ SegmentEnd \/ NoteSourceDiscontinuity \/ ForceFlush

CallsSpec == CallsInit /\ [][CallsNext]_callvars

-----------------------------------------------------------------------------
\* As a pipeline calls it a segment is one stretch of the input: "explicitly close the
\* active segment with a discontinuity reason instead of silently joining unrelated
\* audio" (docs/vad-segmentation.md:97).
SegmentsContiguous ==
  owner = "pipeline" => \A i \in Closings(callee) : Adjacent(Reported(callee)[i].frames, 1)

\* No speech is reported in two segments, although the silence after one may be the
\* pre-roll of the next.
SpeechReportedOnce ==
  \A i, j \in Closings(callee) : i < j =>
    SpeechOf(Reported(callee)[i].frames) \cap SpeechOf(Reported(callee)[j].frames) = {}

\* No run of speech long enough to open a segment is missing from all of them.  (At
\* most speech_start_frames - 1 frames are: a run that short, or what is left of a
\* longer one after its segment was closed for its length.)
NoSpeechRunLost ==
  \A i \in 1 .. Len(heard) - speech_start_frames + 1 :
    LET run == SubSeq(heard, i, i + speech_start_frames - 1) IN
    (\A k \in DOMAIN run : run[k].speech)
      => \E k \in DOMAIN run : run[k].at \in Kept(callee)

\* Every segment has an id of its own and a lawful life, as the events tell it: it
\* opens, its silence is counted and said when it should be, speech ends and resumes in
\* turn, and it is reported once.  "Continuous speech is force-closed"
\* (docs/vad-segmentation.md:21): its pre-roll apart, it is no longer than the maximum, or
\* than what it takes to open one.
LifecycleLawful ==
  /\ SegmenterOK(callee)
  /\ \A i \in 1 .. Len(callee.log) - 1 : MayFollow(callee.log[i], callee.log[i + 1])
  /\ callee.next_segment =
       callee.finalized + callee.dropped + (IF Active(callee) THEN 1 ELSE 0)
  /\ \A i \in Closings(callee) :
       LET segment == Reported(callee)[i]
           length == Len(segment.frames) - segment.pre_roll_frames IN
       length <= maximum_segment_frames \/ length <= speech_start_frames
===============================================================================
