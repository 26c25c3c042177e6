-------------------------- MODULE SegmentationProofs --------------------------
(***************************************************************************)
(* What is proved of the segmenter, of the bounded audio input and of the  *)
(* pipeline between them.  The first part is about one call of a segmenter *)
(* whose frames are of any kind; it is used twice, for the segmenter under *)
(* any calls (SegmenterCalls, CallsInv) and for the one that a pipeline    *)
(* feeds (VadPipeline, HearingInv).                                        *)
(***************************************************************************)
EXTENDS SegmenterCalls, VadPipeline, SequenceTheorems, TLAPS

\* Division rounds down, and keeps the order.
LEMMA DivFacts ==
  \A f \in Nat \ {0} : \A a, b \in Nat :
    /\ a \div f \in Nat
    /\ a >= f => a \div f >= 1
    /\ a <= b => a \div f <= b \div f
OBVIOUS

\* Rounding up to frames keeps the order, and what is more than nothing.
LEMMA DurationFacts ==
  \A a, b \in Nat :
    /\ duration_frames(a) \in Nat
    /\ a >= 1 => duration_frames(a) >= 1
    /\ a <= b => duration_frames(a) <= duration_frames(b)
<1> SUFFICES ASSUME NEW a \in Nat, NEW b \in Nat
             PROVE  /\ duration_frames(a) \in Nat
                    /\ a >= 1 => duration_frames(a) >= 1
                    /\ a <= b => duration_frames(a) <= duration_frames(b)
  OBVIOUS
<1>1. config.frame_ms \in Nat \ {0}
  BY ConfigAssumption
<1> DEFINE f == config.frame_ms
           x == a + f - 1
           y == b + f - 1
<1>2. /\ f \in Nat \ {0} /\ x \in Nat /\ y \in Nat
      /\ a >= 1 => x >= f
      /\ a <= b => x <= y
  BY <1>1
<1>3. duration_frames(a) = x \div f /\ duration_frames(b) = y \div f
  BY DEF duration_frames
<1> HIDE DEF f, x, y
<1> QED
  BY <1>2, <1>3, DivFacts

\* The thresholds in frames.
LEMMA Thresholds ==
  /\ speech_start_frames \in Nat \ {0} /\ acoustic_end_frames \in Nat \ {0}
  /\ segment_end_frames \in Nat /\ acoustic_end_frames <= segment_end_frames
  /\ pre_roll_frames \in Nat /\ maximum_segment_frames \in Nat \ {0}
<1>1. /\ config.speech_start_ms \in Nat \ {0} /\ config.acoustic_end_silence_ms \in Nat \ {0}
      /\ config.segment_end_silence_ms \in Nat /\ config.pre_roll_ms \in Nat
      /\ config.maximum_segment_ms \in Nat \ {0}
      /\ config.acoustic_end_silence_ms <= config.segment_end_silence_ms
  BY ConfigAssumption
<1> QED
  BY <1>1, DurationFacts DEF speech_start_frames, acoustic_end_frames,
     segment_end_frames, pre_roll_frames, maximum_segment_frames

-----------------------------------------------------------------------------
\* What a segmenter is made of, whatever the frames F are.

OpenSegment(F) ==
  [id : Nat, frames : Seq(F), pre_roll_frames : Nat, speech_frames : Nat,
   last_speech_len : Nat, consecutive_silence : Nat, acoustic_ended : BOOLEAN]

Reason == {"Silence", "MaximumDuration", "AuthoritativeBoundary", "Discontinuity",
           "ForcedFlush", "Cancelled", "EndOfStream"}

Segment(F) ==
  [id : Nat, frames : Seq(F), close_reason : Reason, pre_roll_frames : Nat, speech_frames : Nat]

Event(F) ==
  [kind : {"Opened", "Ended", "Resumed"}, id : Nat]
    \cup [kind : {"Dropped", "Finalized"}, id : Nat, segment : Segment(F)]

Segmenter(F) ==
  [next_segment : Nat, pre_roll : Seq(F), pending_speech : Seq(F),
   active : OpenSegment(F) \cup {NoSegment}, opened : Nat, finalized : Nat, dropped : Nat,
   dropped_source_chunks : Int, forced_flushes : Nat, log : Seq(Event(F))]


\* The frames that may still get into a segment, in the order they were heard in.
Buffered(s) == IF Active(s) THEN s.active.frames ELSE s.pre_roll \o s.pending_speech

LastEvent(s) == s.log[Len(s.log)]

\* What the log of s says, whatever s is doing.
LogLawful(s) ==
  /\ \A i \in 1 .. Len(s.log) - 1 : MayFollow(s.log[i], s.log[i + 1])
  /\ s.next_segment = s.finalized + s.dropped + (IF Active(s) THEN 1 ELSE 0)
  /\ \A i \in Closings(s) :
       LET length == Len(s.log[i].segment.frames) - s.log[i].segment.pre_roll_frames IN
       length <= maximum_segment_frames \/ length <= speech_start_frames

\* An open segment, which may have to be closed yet.
OpenLawful(s) ==
  LET a == s.active IN
  /\ Active(s) /\ s.pre_roll = << >> /\ s.pending_speech = << >>
  /\ s.log # << >> /\ LastEvent(s).kind \in {"Opened", "Ended", "Resumed"}
  /\ LastEvent(s).id = a.id /\ a.id + 1 = s.next_segment
  /\ a.acoustic_ended <=> LastEvent(s).kind = "Ended"
  /\ a.last_speech_len <= Len(a.frames)
  /\ \A k \in a.last_speech_len + 1 .. Len(a.frames) : ~a.frames[k].speech
  /\ a.consecutive_silence = Len(a.frames) - a.last_speech_len
  /\ a.acoustic_ended <=> a.consecutive_silence >= acoustic_end_frames
  /\ \/ Len(a.frames) - a.pre_roll_frames <= maximum_segment_frames
     \/ Len(a.frames) - a.pre_roll_frames <= speech_start_frames

\* No open segment.
ClosedLawful(s) ==
  /\ ~Active(s)
  /\ Len(s.pre_roll) <= pre_roll_frames /\ Len(s.pending_speech) < speech_start_frames
  /\ s.log # << >> => /\ LastEvent(s).kind \in {"Dropped", "Finalized"}
                      /\ LastEvent(s).id + 1 = s.next_segment

\* A segmenter between two calls.
Lawful(s) ==
  /\ LogLawful(s)
  /\ Active(s) => /\ OpenLawful(s)
                  /\ s.active.consecutive_silence < segment_end_frames
                  /\ Len(s.active.frames) - s.active.pre_roll_frames < maximum_segment_frames
  /\ ~Active(s) => ClosedLawful(s)

EndsWith(q, p) ==
  Len(p) <= Len(q) /\ \A i \in 1 .. Len(p) : p[i] = q[Len(q) - Len(p) + i]

\* The last frames of a sequence.
LEMMA SuffixFacts ==
  ASSUME NEW F, NEW q \in Seq(F), NEW k \in Nat, k <= Len(q)
  PROVE  /\ SubSeq(q, k + 1, Len(q)) \in Seq(F)
         /\ Len(SubSeq(q, k + 1, Len(q))) = Len(q) - k
         /\ EndsWith(q, SubSeq(q, k + 1, Len(q)))
<1> DEFINE p == SubSeq(q, k + 1, Len(q))
<1>1. \A i \in k + 1 .. Len(q) : q[i] \in F
  BY ElementOfSeq
<1>2. Len(q) \in Nat
  OBVIOUS
<1>3. /\ p \in Seq(F)
      /\ Len(p) = IF k + 1 <= Len(q) THEN Len(q) - (k + 1) + 1 ELSE 0
      /\ \A i \in 1 .. Len(q) - (k + 1) + 1 : p[i] = q[(k + 1) + i - 1]
  BY <1>1, <1>2, SubSeqProperties
<1> HIDE DEF p
<1>4. Len(p) = Len(q) - k
  BY <1>2, <1>3
<1>5. ASSUME NEW i \in 1 .. Len(p) PROVE p[i] = q[Len(q) - Len(p) + i]
  <2>1. i \in 1 .. Len(q) - (k + 1) + 1 /\ (k + 1) + i - 1 = Len(q) - Len(p) + i
    BY <1>2, <1>4
  <2> QED
    BY <1>3, <2>1, Zenon
<1>6. Len(p) <= Len(q)
  BY <1>2, <1>4
<1>7. EndsWith(q, p)
  BY <1>5, <1>6, Zenon DEF EndsWith
<1> QED
  BY <1>3, <1>4, <1>7, Zenon DEF p

LEMMA LastNFacts ==
  ASSUME NEW F, NEW q \in Seq(F), NEW n \in Nat
  PROVE  /\ LastN(q, n) \in Seq(F) /\ Len(LastN(q, n)) <= n
         /\ EndsWith(q, LastN(q, n))
<1>1. CASE Len(q) <= n
  BY <1>1 DEF LastN, EndsWith
<1>2. CASE ~(Len(q) <= n)
  <2> DEFINE k == Len(q) - n
  <2>1. k \in Nat /\ k <= Len(q) /\ Len(q) - k = n /\ LastN(q, n) = SubSeq(q, k + 1, Len(q))
    BY <1>2 DEF LastN
  <2> HIDE DEF k
  <2> QED
    BY <2>1, SuffixFacts
<1> QED
  BY <1>1, <1>2

LEMMA EndsWithTrans ==
  ASSUME NEW F, NEW q \in Seq(F), NEW p \in Seq(F), NEW r \in Seq(F),
         EndsWith(q, p), EndsWith(p, r)
  PROVE  EndsWith(q, r)
BY DEF EndsWith

-----------------------------------------------------------------------------
\* What the operators make of the fields of a segmenter.

\* NoSegment is no segment, and an open one is.
LEMMA ActiveFacts ==
  ASSUME NEW F, NEW s \in Segmenter(F)
  PROVE  /\ NoSegment \notin OpenSegment(F)
         /\ Active(s) <=> s.active \in OpenSegment(F)
<1>1. \A a \in OpenSegment(F) : a.id # -1
  BY DEF OpenSegment
<1>2. NoSegment.id = -1
  BY DEF NoSegment
<1>3. s.active \in OpenSegment(F) \cup {NoSegment}
  BY DEF Segmenter
<1> QED
  BY <1>1, <1>2, <1>3 DEF Active

\* The types of the fields,
LEMMA Fields ==
  ASSUME NEW F, NEW s \in Segmenter(F)
  PROVE  /\ s.next_segment \in Nat /\ s.opened \in Nat /\ s.finalized \in Nat
         /\ s.dropped \in Nat /\ s.forced_flushes \in Nat /\ s.dropped_source_chunks \in Int
         /\ s.pre_roll \in Seq(F) /\ s.pending_speech \in Seq(F) /\ s.log \in Seq(Event(F))
         /\ s.active \in OpenSegment(F) \cup {NoSegment}
BY DEF Segmenter

\* of which each may be given any value.
LEMMA FieldFacts ==
  ASSUME NEW F, NEW s \in Segmenter(F)
  PROVE  /\ \A l \in Seq(Event(F)) : [s EXCEPT !.log = l] \in Segmenter(F)
         /\ \A q \in Seq(F) : /\ [s EXCEPT !.pre_roll = q] \in Segmenter(F)
                             /\ [s EXCEPT !.pending_speech = q] \in Segmenter(F)
         /\ \A a \in OpenSegment(F) \cup {NoSegment} : [s EXCEPT !.active = a] \in Segmenter(F)
         /\ \A n \in Nat : /\ [s EXCEPT !.finalized = n] \in Segmenter(F)
                         /\ [s EXCEPT !.dropped = n] \in Segmenter(F)
                         /\ [s EXCEPT !.forced_flushes = n] \in Segmenter(F)
         /\ \A n \in Int : [s EXCEPT !.dropped_source_chunks = n] \in Segmenter(F)
BY DEF Segmenter

LEMMA EmitFacts ==
  ASSUME NEW F, NEW s \in Segmenter(F), NEW e \in Event(F)
  PROVE  /\ Emit(s, e) \in Segmenter(F)
         /\ Emit(s, e).log = Append(s.log, e)
         /\ Emit(s, e).active = s.active /\ Emit(s, e).pre_roll = s.pre_roll
         /\ Emit(s, e).pending_speech = s.pending_speech
         /\ Emit(s, e).next_segment = s.next_segment
         /\ Emit(s, e).finalized = s.finalized /\ Emit(s, e).dropped = s.dropped
<1> DEFINE l == Append(s.log, e)
           t == [s EXCEPT !.log = l]
<1>1. s.log \in Seq(Event(F)) /\ l \in Seq(Event(F))
  BY Fields, AppendProperties
<1>2. Emit(s, e) = t
  BY DEF Emit
<1> HIDE DEF l
<1>3. t \in Segmenter(F)
  BY <1>1, FieldFacts
<1>4. /\ t.log = l /\ t.active = s.active /\ t.pre_roll = s.pre_roll
      /\ t.pending_speech = s.pending_speech /\ t.next_segment = s.next_segment
      /\ t.finalized = s.finalized /\ t.dropped = s.dropped
  BY DEF Segmenter
<1> QED
  BY <1>2, <1>3, <1>4, Zenon DEF l

\* A segment is closed: it is reported once, and what follows its last speech is kept.
Closes(s, t, frames, reason) ==
  /\ ~Active(t) /\ t.next_segment = s.next_segment
  /\ t.finalized + t.dropped = s.finalized + s.dropped + 1
  /\ t.log = Append(s.log, LastEvent(t))
  /\ LastEvent(t).kind \in {"Dropped", "Finalized"} /\ LastEvent(t).segment.frames = frames
  /\ LastEvent(t).segment.close_reason = reason

LEMMA FinishFacts ==
  ASSUME NEW F, NEW s \in Segmenter(F), Active(s), NEW reason \in Reason
  PROVE  LET t == finish_segment(s, reason)
             a == s.active IN
         /\ t \in Segmenter(F)
         /\ Closes(s, t, a.frames, reason)
         /\ LastEvent(t) \in Event(F) /\ LastEvent(t).id = a.id
         /\ LastEvent(t).segment.pre_roll_frames = a.pre_roll_frames
         /\ t.pending_speech = s.pending_speech
         /\ t.pre_roll = LastN(SubSeq(a.frames, a.last_speech_len + 1, Len(a.frames)), pre_roll_frames)
<1> DEFINE t == finish_segment(s, reason)
           a == s.active
           roll == LastN(SubSeq(a.frames, a.last_speech_len + 1, Len(a.frames)), pre_roll_frames)
           segment == [id |-> a.id, frames |-> a.frames, close_reason |-> reason,
                       pre_roll_frames |-> a.pre_roll_frames, speech_frames |-> a.speech_frames]
           u == [s EXCEPT !.active = NoSegment, !.pre_roll = roll]
           d == [kind |-> "Dropped", id |-> a.id, segment |-> segment]
           f == [kind |-> "Finalized", id |-> a.id, segment |-> segment]
<1>1. a \in OpenSegment(F)
  BY ActiveFacts
<1>2. segment \in Segment(F) /\ d \in Event(F) /\ f \in Event(F)
  BY <1>1 DEF OpenSegment, Segment, Event
<1>3. roll \in Seq(F)
  <2>1. \A i \in a.last_speech_len + 1 .. Len(a.frames) : a.frames[i] \in F
    BY <1>1, ElementOfSeq DEF OpenSegment
  <2>2. SubSeq(a.frames, a.last_speech_len + 1, Len(a.frames)) \in Seq(F)
    BY <1>1, <2>1, SubSeqProperties DEF OpenSegment
  <2> QED
    BY <2>2, LastNFacts, Thresholds
<1> HIDE DEF roll
<1>4. /\ u \in Segmenter(F) /\ u.log = s.log /\ u.active = NoSegment /\ u.pre_roll = roll
      /\ u.pending_speech = s.pending_speech /\ u.next_segment = s.next_segment
      /\ u.finalized = s.finalized /\ u.dropped = s.dropped
  BY <1>3 DEF Segmenter
<1> HIDE DEF u
<1>5. t = IF a.speech_frames * config.frame_ms < config.minimum_speech_ms
          THEN Emit([u EXCEPT !.dropped = @ + 1], d) ELSE Emit([u EXCEPT !.finalized = @ + 1], f)
  BY DEF finish_segment, Report, roll, u
<1>6. PICK v \in {[u EXCEPT !.dropped = @ + 1], [u EXCEPT !.finalized = @ + 1]}, e \in {d, f} :
        t = Emit(v, e)
  BY <1>5
<1>7. /\ v \in Segmenter(F) /\ v.log = s.log /\ v.active = NoSegment /\ v.pre_roll = roll
      /\ v.pending_speech = s.pending_speech /\ v.next_segment = s.next_segment
      /\ v.finalized + v.dropped = s.finalized + s.dropped + 1
  <2>1. CASE v = [u EXCEPT !.dropped = @ + 1]
    <3> DEFINE n == u.dropped + 1
    <3>1. n \in Nat /\ v = [u EXCEPT !.dropped = n]
      BY <1>4, <2>1, Fields
    <3>2. n + s.finalized = s.finalized + s.dropped + 1
      BY <1>4, Fields
    <3> HIDE DEF n
    <3>3. v \in Segmenter(F)
      BY <1>4, <3>1, FieldFacts
    <3>4. v.log = u.log /\ v.active = u.active /\ v.pre_roll = u.pre_roll
          /\ v.pending_speech = u.pending_speech /\ v.next_segment = u.next_segment
          /\ v.dropped = n /\ v.finalized = u.finalized
      BY <1>4, <3>1 DEF Segmenter
    <3> QED
      BY <1>4, <3>2, <3>3, <3>4, Fields
  <2>2. CASE v = [u EXCEPT !.finalized = @ + 1]
    <3> DEFINE n == u.finalized + 1
    <3>1. n \in Nat /\ v = [u EXCEPT !.finalized = n]
      BY <1>4, <2>2, Fields
    <3>2. n + s.dropped = s.finalized + s.dropped + 1
      BY <1>4, Fields
    <3> HIDE DEF n
    <3>3. v \in Segmenter(F)
      BY <1>4, <3>1, FieldFacts
    <3>4. v.log = u.log /\ v.active = u.active /\ v.pre_roll = u.pre_roll
          /\ v.pending_speech = u.pending_speech /\ v.next_segment = u.next_segment
          /\ v.finalized = n /\ v.dropped = u.dropped
      BY <1>4, <3>1 DEF Segmenter
    <3> QED
      BY <1>4, <3>2, <3>3, <3>4, Fields
  <2> QED
    BY <1>6, <2>1, <2>2
<1>8. /\ e \in Event(F) /\ e.kind \in {"Dropped", "Finalized"} /\ e.id = a.id
      /\ e.segment = segment
  BY <1>2, <1>6
<1>9. t \in Segmenter(F) /\ t.log = Append(s.log, e) /\ t.active = NoSegment /\ t.pre_roll = roll
      /\ t.pending_speech = s.pending_speech /\ t.next_segment = s.next_segment
      /\ t.finalized + t.dropped = s.finalized + s.dropped + 1
  BY <1>6, <1>7, <1>8, EmitFacts
<1>10. LastEvent(t) = e
  BY <1>8, <1>9, AppendProperties DEF LastEvent, Segmenter
<1> QED
  BY <1>8, <1>9, <1>10 DEF Closes, Active, roll

LEMMA DropFacts ==
  ASSUME NEW F, NEW s \in Segmenter(F), NEW reason \in Reason
  PROVE  LET t == drop_pending(s, reason) IN
         /\ t \in Segmenter(F)
         /\ t.active = s.active /\ t.pre_roll = s.pre_roll /\ t.pending_speech = << >>
         /\ t.next_segment = s.next_segment + 1
         /\ t.finalized + t.dropped = s.finalized + s.dropped + 1
         /\ LastEvent(t) \in Event(F) /\ t.log = Append(s.log, LastEvent(t))
         /\ LastEvent(t).kind = "Dropped" /\ LastEvent(t).id = s.next_segment
         /\ LastEvent(t).segment.frames = s.pending_speech
         /\ LastEvent(t).segment.pre_roll_frames = 0
         /\ LastEvent(t).segment.close_reason = reason
<1> DEFINE t == drop_pending(s, reason)
           n == s.next_segment + 1
           d == s.dropped + 1
           z == << >>
           u == [s EXCEPT !.pending_speech = z, !.next_segment = n, !.dropped = d]
           segment == [id |-> s.next_segment, frames |-> s.pending_speech,
                       close_reason |-> reason, pre_roll_frames |-> 0,
                       speech_frames |-> Len(s.pending_speech)]
           e == [kind |-> "Dropped", id |-> s.next_segment, segment |-> segment]
<1>0. /\ s.next_segment \in Nat /\ s.dropped \in Nat /\ s.finalized \in Nat
      /\ s.pending_speech \in Seq(F)
  BY Fields
<1>1. n \in Nat /\ d \in Nat /\ z \in Seq(F) /\ s.finalized + d = s.finalized + s.dropped + 1
  BY <1>0
<1>2. e \in Event(F)
  <2>1. segment \in Segment(F)
    BY <1>0 DEF Segment
  <2> HIDE DEF segment
  <2> QED
    BY <1>0, <2>1 DEF Event
<1>3. t = Emit(u, e)
  BY DEF drop_pending
<1> HIDE DEF n, d, z
<1>4. /\ u \in Segmenter(F) /\ u.active = s.active /\ u.pre_roll = s.pre_roll
      /\ u.pending_speech = z /\ u.next_segment = n /\ u.dropped = d
      /\ u.finalized = s.finalized /\ u.log = s.log
  BY <1>1 DEF Segmenter
<1> HIDE DEF u
<1>5. /\ t \in Segmenter(F) /\ t.active = s.active /\ t.pre_roll = s.pre_roll
      /\ t.pending_speech = z /\ t.next_segment = n
      /\ t.finalized + t.dropped = s.finalized + s.dropped + 1 /\ t.log = Append(s.log, e)
  BY <1>1, <1>2, <1>3, <1>4, EmitFacts
<1>6. LastEvent(t) = e
  BY <1>2, <1>5, Fields, AppendProperties DEF LastEvent
<1> QED
  BY <1>2, <1>5, <1>6 DEF n, z

LEMMA OpenFacts ==
  ASSUME NEW F, NEW s \in Segmenter(F)
  PROVE  LET t == open_active(s)
             frames == s.pre_roll \o s.pending_speech IN
         /\ t \in Segmenter(F) /\ Active(t)
         /\ t.active.frames = frames /\ t.active.id = s.next_segment
         /\ t.active.pre_roll_frames = Len(s.pre_roll) /\ t.active.last_speech_len = Len(frames)
         /\ t.active.consecutive_silence = 0 /\ t.active.acoustic_ended = FALSE
         /\ t.pre_roll = << >> /\ t.pending_speech = << >>
         /\ t.next_segment = s.next_segment + 1
         /\ t.finalized = s.finalized /\ t.dropped = s.dropped
         /\ LastEvent(t) \in Event(F) /\ t.log = Append(s.log, LastEvent(t))
         /\ LastEvent(t) = [kind |-> "Opened", id |-> s.next_segment]
<1> DEFINE t == open_active(s)
           frames == s.pre_roll \o s.pending_speech
           n == s.next_segment + 1
           o == s.opened + 1
           a == [id |-> s.next_segment, frames |-> frames, pre_roll_frames |-> Len(s.pre_roll),
                 speech_frames |-> Len(s.pending_speech), last_speech_len |-> Len(frames),
                 consecutive_silence |-> 0, acoustic_ended |-> FALSE]
           z == << >>
           u == [s EXCEPT !.next_segment = n, !.opened = o, !.pre_roll = z,
                          !.pending_speech = z, !.active = a]
           e == [kind |-> "Opened", id |-> s.next_segment]
<1>1. n \in Nat /\ o \in Nat /\ z \in Seq(F)
  BY Fields
<1>2. frames \in Seq(F)
  BY Fields, ConcatProperties
<1>3. e \in Event(F)
  BY Fields DEF Event
<1>4. t = Emit(u, e)
  BY DEF open_active
<1> HIDE DEF frames
<1>5. a \in OpenSegment(F)
  BY <1>2, Fields DEF OpenSegment
<1> HIDE DEF n, o, a, z
<1>6. /\ u \in Segmenter(F) /\ u.active = a /\ u.pre_roll = z
      /\ u.pending_speech = z /\ u.next_segment = n /\ u.dropped = s.dropped
      /\ u.finalized = s.finalized /\ u.log = s.log
  BY <1>1, <1>5 DEF Segmenter
<1> HIDE DEF u
<1>7. /\ t \in Segmenter(F) /\ t.active = a /\ t.pre_roll = z
      /\ t.pending_speech = z /\ t.next_segment = n /\ t.dropped = s.dropped
      /\ t.finalized = s.finalized /\ t.log = Append(s.log, e)
  BY <1>3, <1>4, <1>6, EmitFacts
<1>8. LastEvent(t) = e
  BY <1>3, <1>7, Fields, AppendProperties DEF LastEvent
<1>9. Active(t)
  BY <1>5, <1>7, ActiveFacts
<1>10. /\ a.frames = frames /\ a.id = s.next_segment /\ a.pre_roll_frames = Len(s.pre_roll)
       /\ a.last_speech_len = Len(frames) /\ a.consecutive_silence = 0
       /\ a.acoustic_ended = FALSE
  BY DEF a
<1> QED
  BY <1>3, <1>7, <1>8, <1>9, <1>10, Zenon DEF n, z, frames

-----------------------------------------------------------------------------
\* What a call adds to the log: nothing that closes a segment, or one that does, at its end.

Prolongs(s, t) ==
  Len(s.log) <= Len(t.log) /\ \A i \in 1 .. Len(s.log) : t.log[i] = s.log[i]

NoneClosed(s, t) ==
  /\ Prolongs(s, t)
  /\ \A i \in Len(s.log) + 1 .. Len(t.log) : t.log[i].kind \in {"Opened", "Ended", "Resumed"}

OneClosed(s, t, frames) ==
  /\ Prolongs(s, t) /\ Len(s.log) < Len(t.log)
  /\ \A i \in Len(s.log) + 1 .. Len(t.log) - 1 : t.log[i].kind \in {"Opened", "Ended", "Resumed"}
  /\ LastEvent(t).kind \in {"Dropped", "Finalized"} /\ LastEvent(t).segment.frames = frames

LEMMA ClosedAfter ==
  ASSUME NEW F, NEW s \in Segmenter(F), NEW u \in Segmenter(F), NEW t \in Segmenter(F),
         NoneClosed(s, u)
  PROVE  /\ NoneClosed(u, t) => NoneClosed(s, t)
         /\ \A frames : OneClosed(u, t, frames) => OneClosed(s, t, frames)
<1>1. s.log \in Seq(Event(F)) /\ u.log \in Seq(Event(F)) /\ t.log \in Seq(Event(F))
  BY Fields
<1>2. /\ Len(s.log) \in Nat /\ Len(u.log) \in Nat /\ Len(t.log) \in Nat
      /\ Len(s.log) <= Len(u.log)
      /\ \A i \in 1 .. Len(s.log) : u.log[i] = s.log[i]
      /\ \A i \in Len(s.log) + 1 .. Len(u.log) : u.log[i].kind \in {"Opened", "Ended", "Resumed"}
  BY <1>1 DEF NoneClosed, Prolongs
<1>3. ASSUME Prolongs(u, t)
      PROVE  /\ Prolongs(s, t)
             /\ \A i \in Len(s.log) + 1 .. Len(u.log) :
                  t.log[i].kind \in {"Opened", "Ended", "Resumed"}
  <2>1. Len(u.log) <= Len(t.log) /\ \A i \in 1 .. Len(u.log) : t.log[i] = u.log[i]
    BY <1>3 DEF Prolongs
  <2>2. \A i \in 1 .. Len(s.log) : i \in 1 .. Len(u.log)
    BY <1>2
  <2>3. \A i \in Len(s.log) + 1 .. Len(u.log) : i \in 1 .. Len(u.log)
    BY <1>2
  <2>4. Len(s.log) <= Len(t.log)
    BY <1>2, <2>1
  <2> QED
    BY <1>2, <2>1, <2>2, <2>3, <2>4, Zenon DEF Prolongs
<1>4. \A n \in Nat : \A i \in Len(s.log) + 1 .. n :
        i \in Len(s.log) + 1 .. Len(u.log) \/ i \in Len(u.log) + 1 .. n
  BY <1>2
<1>5. NoneClosed(u, t) => NoneClosed(s, t)
  BY <1>2, <1>3, <1>4, Zenon DEF NoneClosed
<1>6. ASSUME NEW frames, OneClosed(u, t, frames) PROVE OneClosed(s, t, frames)
  <2>1. Len(s.log) < Len(t.log) /\ Len(t.log) - 1 \in Nat
    BY <1>2, <1>6 DEF OneClosed
  <2> QED
    BY <1>3, <1>4, <1>6, <2>1, Zenon DEF OneClosed
<1> QED
  BY <1>5, <1>6

\* One more event.
LEMMA LogAppend ==
  ASSUME NEW F, NEW s \in Segmenter(F), NEW t \in Segmenter(F), LogLawful(s),
         NEW e \in Event(F), t.log = Append(s.log, e),
         s.log # << >> => MayFollow(LastEvent(s), e),
         t.next_segment = t.finalized + t.dropped + (IF Active(t) THEN 1 ELSE 0),
         e.kind \in {"Dropped", "Finalized"} =>
           \/ Len(e.segment.frames) - e.segment.pre_roll_frames <= maximum_segment_frames
           \/ Len(e.segment.frames) - e.segment.pre_roll_frames <= speech_start_frames
  PROVE  /\ LogLawful(t) /\ LastEvent(t) = e /\ t.log # << >>
         /\ e.kind \in {"Opened", "Ended", "Resumed"} => NoneClosed(s, t)
         /\ e.kind \in {"Dropped", "Finalized"} => OneClosed(s, t, e.segment.frames)
<1>1. s.log \in Seq(Event(F)) /\ t.log \in Seq(Event(F))
  BY Fields
<1>2. /\ Len(t.log) = Len(s.log) + 1 /\ t.log[Len(t.log)] = e
      /\ \A i \in 1 .. Len(s.log) : t.log[i] = s.log[i]
  BY <1>1, AppendProperties
<1>3. LastEvent(t) = e /\ t.log # << >>
  BY <1>1, <1>2 DEF LastEvent
<1>4. \A i \in 1 .. Len(t.log) - 1 : MayFollow(t.log[i], t.log[i + 1])
  <2> SUFFICES ASSUME NEW i \in 1 .. Len(t.log) - 1 PROVE MayFollow(t.log[i], t.log[i + 1])
    OBVIOUS
  <2>1. CASE i = Len(s.log)
    <3>1. t.log[i] = LastEvent(s) /\ t.log[i + 1] = e /\ s.log # << >>
      BY <1>1, <1>2, <2>1 DEF LastEvent
    <3> QED
      BY <3>1
  <2>2. CASE i \in 1 .. Len(s.log) - 1
    <3>1. t.log[i] = s.log[i] /\ t.log[i + 1] = s.log[i + 1] /\ MayFollow(s.log[i], s.log[i + 1])
      BY <1>1, <1>2, <2>2 DEF LogLawful
    <3> QED
      BY <3>1
  <2> QED
    BY <1>1, <1>2, <2>1, <2>2
<1>5. \A i \in Closings(t) :
        \/ Len(t.log[i].segment.frames) - t.log[i].segment.pre_roll_frames <= maximum_segment_frames
        \/ Len(t.log[i].segment.frames) - t.log[i].segment.pre_roll_frames <= speech_start_frames
  <2> SUFFICES ASSUME NEW i \in Closings(t)
               PROVE  LET g == t.log[i].segment IN
                      \/ Len(g.frames) - g.pre_roll_frames <= maximum_segment_frames
                      \/ Len(g.frames) - g.pre_roll_frames <= speech_start_frames
    OBVIOUS
  <2>1. i \in 1 .. Len(t.log) /\ t.log[i].kind \in {"Dropped", "Finalized"}
    BY <1>1 DEF Closings
  <2>2. CASE i \in 1 .. Len(s.log)
    <3>1. t.log[i] = s.log[i] /\ i \in Closings(s)
      BY <1>1, <1>2, <2>1, <2>2 DEF Closings
    <3> QED
      BY <3>1, Zenon DEF LogLawful
  <2>3. CASE t.log[i] = e
    BY <2>1, <2>3, Zenon
  <2> QED
    BY <1>1, <1>2, <2>1, <2>2, <2>3
<1>6. LogLawful(t)
  BY <1>4, <1>5 DEF LogLawful
<1> QED
  BY <1>1, <1>2, <1>3, <1>6 DEF NoneClosed, OneClosed, Prolongs

-----------------------------------------------------------------------------
\* What the operators make of a lawful segmenter.

Silent(q) == \A i \in 1 .. Len(q) : ~q[i].speech

\* A segment is over: it is in the log, and the silence behind it is kept.
Over(s, t, frames) ==
  /\ LogLawful(t) /\ ClosedLawful(t) /\ OneClosed(s, t, frames)
  /\ t.pending_speech = << >> /\ EndsWith(frames, t.pre_roll) /\ Silent(t.pre_roll)

LEMMA FinishLawful ==
  ASSUME NEW F, NEW s \in Segmenter(F), LogLawful(s), OpenLawful(s), NEW reason \in Reason,
         reason = "Silence" => s.active.acoustic_ended
  PROVE  LET t == finish_segment(s, reason) IN
         t \in Segmenter(F) /\ Over(s, t, s.active.frames)
<1> DEFINE t == finish_segment(s, reason)
           a == s.active
           post_roll == SubSeq(a.frames, a.last_speech_len + 1, Len(a.frames))
           e == LastEvent(t)
<1>1. a \in OpenSegment(F) /\ Active(s)
  BY ActiveFacts DEF OpenLawful
<1>2. /\ a.frames \in Seq(F) /\ a.last_speech_len \in Nat /\ a.pre_roll_frames \in Nat
      /\ a.last_speech_len <= Len(a.frames)
  BY <1>1 DEF OpenSegment, OpenLawful
<1>3. /\ t \in Segmenter(F) /\ Closes(s, t, a.frames, reason)
      /\ e \in Event(F) /\ e.id = a.id
      /\ e.segment.pre_roll_frames = a.pre_roll_frames /\ t.pending_speech = s.pending_speech
      /\ t.pre_roll = LastN(post_roll, pre_roll_frames)
  BY <1>1, FinishFacts
<1>4. /\ post_roll \in Seq(F) /\ Len(post_roll) = Len(a.frames) - a.last_speech_len
      /\ EndsWith(a.frames, post_roll)
  BY <1>2, SuffixFacts
<1>5. /\ t.pre_roll \in Seq(F) /\ Len(t.pre_roll) <= pre_roll_frames
      /\ EndsWith(post_roll, t.pre_roll)
  BY <1>3, <1>4, LastNFacts, Thresholds
<1> HIDE DEF post_roll, t
<1>6. EndsWith(a.frames, t.pre_roll)
  BY <1>2, <1>4, <1>5, EndsWithTrans
<1>7. Silent(t.pre_roll)
  <2> SUFFICES ASSUME NEW i \in 1 .. Len(t.pre_roll) PROVE ~t.pre_roll[i].speech
    BY DEF Silent
  <2>1. /\ Len(t.pre_roll) <= Len(a.frames) - a.last_speech_len /\ Len(t.pre_roll) \in Nat
        /\ Len(a.frames) \in Nat
    <3>1. Len(t.pre_roll) <= Len(post_roll)
      BY <1>5, Zenon DEF EndsWith
    <3>2. Len(t.pre_roll) \in Nat /\ Len(a.frames) \in Nat
      BY <1>2, <1>5, LenProperties
    <3> QED
      BY <1>4, <3>1, <3>2
  <2>2. Len(a.frames) - Len(t.pre_roll) + i \in a.last_speech_len + 1 .. Len(a.frames)
    <3>1. \A l, p, n \in Nat : \A k \in 1 .. p : p <= n - l => n - p + k \in l + 1 .. n
      OBVIOUS
    <3> QED
      BY <1>2, <2>1, <3>1, Zenon
  <2>3. t.pre_roll[i] = a.frames[Len(a.frames) - Len(t.pre_roll) + i]
    BY <1>6 DEF EndsWith
  <2> QED
    BY <2>2, <2>3 DEF OpenLawful
<1>8. /\ e \in Event(F) /\ t.log = Append(s.log, e)
      /\ e.kind \in {"Dropped", "Finalized"} /\ e.segment.frames = a.frames
      /\ e.segment.close_reason = reason
  BY <1>3 DEF Closes
<1>9. MayFollow(LastEvent(s), e)
  BY <1>3, <1>8 DEF MayFollow, OpenLawful
<1>10. LogLawful(t) /\ OneClosed(s, t, a.frames) /\ t.log # << >>
  <2>1. t.next_segment = t.finalized + t.dropped + (IF Active(t) THEN 1 ELSE 0)
    <3>1. s.next_segment = s.finalized + s.dropped + 1
      BY <1>1 DEF LogLawful
    <3> QED
      BY <1>3, <3>1, Fields DEF Closes
  <2>2. \/ Len(a.frames) - a.pre_roll_frames <= maximum_segment_frames
        \/ Len(a.frames) - a.pre_roll_frames <= speech_start_frames
    BY DEF OpenLawful
  <2> QED
    BY <1>3, <1>8, <1>9, <2>1, <2>2, LogAppend
<1>11. ClosedLawful(t) /\ t.pending_speech = << >>
  <2>1. ~Active(t) /\ t.pending_speech = << >> /\ e.id + 1 = t.next_segment
    BY <1>3 DEF Closes, OpenLawful
  <2>2. Len(t.pending_speech) < speech_start_frames
    BY <2>1, Thresholds
  <2> QED
    BY <1>5, <1>8, <2>1, <2>2 DEF ClosedLawful
<1> QED
  BY <1>3, <1>6, <1>7, <1>10, <1>11 DEF Over, t

\* The open segment has changed, and nothing was said.
LEMMA OpenChanged ==
  ASSUME NEW F, NEW s \in Segmenter(F), LogLawful(s), Active(s), NEW b \in OpenSegment(F)
  PROVE  LET u == [s EXCEPT !.active = b] IN
         /\ u \in Segmenter(F) /\ LogLawful(u) /\ Active(u) /\ NoneClosed(s, u)
         /\ u.active = b /\ u.log = s.log /\ u.pre_roll = s.pre_roll
         /\ u.pending_speech = s.pending_speech /\ u.next_segment = s.next_segment
         /\ u.finalized = s.finalized /\ u.dropped = s.dropped /\ LastEvent(u) = LastEvent(s)
<1> DEFINE u == [s EXCEPT !.active = b]
<1>1. u \in Segmenter(F)
  BY FieldFacts
<1>2. /\ u.active = b /\ u.log = s.log /\ u.pre_roll = s.pre_roll
      /\ u.pending_speech = s.pending_speech /\ u.next_segment = s.next_segment
      /\ u.finalized = s.finalized /\ u.dropped = s.dropped
  BY DEF Segmenter
<1> HIDE DEF u
<1>3. Active(u)
  BY <1>1, <1>2, ActiveFacts
<1>4. LogLawful(u)
  BY <1>2, <1>3 DEF LogLawful, Closings
<1>5. s.log \in Seq(Event(F))
  BY Fields
<1>6. NoneClosed(s, u)
  BY <1>2, <1>5 DEF NoneClosed, Prolongs
<1> QED
  BY <1>1, <1>2, <1>3, <1>4, <1>6 DEF LastEvent, u

\* A length that is below the maximum can grow by a frame.
LEMMA LengthFacts ==
  ASSUME NEW F, NEW q \in Seq(F), NEW p \in Seq(F), NEW f \in F, NEW k \in Nat,
         Len(q) - k < maximum_segment_frames, p = Append(q, f)
  PROVE  Len(p) = Len(q) + 1 /\ Len(p) - k <= maximum_segment_frames
<1>1. Len(p) = Len(q) + 1
  BY AppendProperties
<1>2. maximum_segment_frames \in Nat /\ Len(q) \in Nat
  BY Thresholds, LenProperties
<1> QED
  BY <1>1, <1>2

LEMMA SpeechInside ==
  ASSUME NEW F, NEW s \in Segmenter(F), Lawful(s), Active(s), NEW f \in F
  PROVE  LET t == SpeechInSegment(s, f) IN
         /\ t \in Segmenter(F) /\ LogLawful(t) /\ OpenLawful(t) /\ NoneClosed(s, t)
         /\ t.active.frames = Append(s.active.frames, f)
         /\ t.active.consecutive_silence = 0
<1> DEFINE t == SpeechInSegment(s, f)
           a == s.active
           frames == Append(a.frames, f)
           n == a.speech_frames + 1
           length == Len(frames)
           b == [a EXCEPT !.frames = frames, !.speech_frames = n,
                          !.last_speech_len = length, !.consecutive_silence = 0,
                          !.acoustic_ended = FALSE]
           u == [s EXCEPT !.active = b]
           e == [kind |-> "Resumed", id |-> a.id]
<1>1. a \in OpenSegment(F) /\ LogLawful(s) /\ OpenLawful(s)
      /\ Len(a.frames) - a.pre_roll_frames < maximum_segment_frames
  BY ActiveFacts DEF Lawful
<1>2. /\ a.frames \in Seq(F) /\ a.pre_roll_frames \in Nat /\ a.id \in Nat
  BY <1>1 DEF OpenSegment
<1>3. frames \in Seq(F) /\ length \in Nat /\ n \in Nat
  BY <1>1, <1>2, AppendProperties, LenProperties DEF OpenSegment
<1>4. length - a.pre_roll_frames <= maximum_segment_frames
  BY <1>1, <1>2, <1>3, LengthFacts, Zenon
<1>5. t = IF a.acoustic_ended THEN Emit(u, e) ELSE u
  BY DEF SpeechInSegment
<1> HIDE DEF n, length
<1>6. /\ b \in OpenSegment(F) /\ b.frames = frames /\ b.last_speech_len = length
      /\ b.consecutive_silence = 0 /\ b.acoustic_ended = FALSE /\ b.id = a.id
      /\ b.pre_roll_frames = a.pre_roll_frames
  <2> HIDE DEF frames
  <2> QED
    BY <1>1, <1>3 DEF OpenSegment
<1> HIDE DEF b, frames
<1>7. /\ u \in Segmenter(F) /\ LogLawful(u) /\ Active(u) /\ NoneClosed(s, u)
      /\ u.active = b /\ u.log = s.log /\ u.pre_roll = s.pre_roll
      /\ u.pending_speech = s.pending_speech /\ u.next_segment = s.next_segment
      /\ u.finalized = s.finalized /\ u.dropped = s.dropped /\ LastEvent(u) = LastEvent(s)
  BY <1>1, <1>6, OpenChanged
<1> HIDE DEF u
<1>8. /\ b.last_speech_len <= Len(b.frames)
      /\ \A k \in b.last_speech_len + 1 .. Len(b.frames) : ~b.frames[k].speech
      /\ b.consecutive_silence = Len(b.frames) - b.last_speech_len
      /\ ~(b.consecutive_silence >= acoustic_end_frames)
      /\ Len(b.frames) - b.pre_roll_frames <= maximum_segment_frames
  <2>1. length = Len(b.frames)
    BY <1>6 DEF length
  <2> QED
    BY <1>3, <1>4, <1>6, <2>1, Thresholds
<1>9. CASE a.acoustic_ended
  <2>1. t = Emit(u, e) /\ e \in Event(F) /\ e.kind = "Resumed"
    BY <1>2, <1>5, <1>9 DEF Event
  <2>2. /\ t \in Segmenter(F) /\ t.log = Append(u.log, e) /\ t.active = b
        /\ t.pre_roll = s.pre_roll /\ t.pending_speech = s.pending_speech
        /\ t.next_segment = s.next_segment /\ t.finalized = s.finalized /\ t.dropped = s.dropped
    BY <1>7, <2>1, EmitFacts
  <2>3. MayFollow(LastEvent(u), e)
    BY <1>1, <1>7, <1>9 DEF MayFollow, OpenLawful
  <2>4. Active(t) /\ t.next_segment = t.finalized + t.dropped + (IF Active(t) THEN 1 ELSE 0)
    BY <1>6, <1>7, <2>2, ActiveFacts DEF LogLawful
  <2>5. LogLawful(t) /\ LastEvent(t) = e /\ t.log # << >> /\ NoneClosed(u, t)
    <3> HIDE DEF e, t
    <3> QED
      BY <1>7, <2>1, <2>2, <2>3, <2>4, LogAppend
  <2>6. OpenLawful(t)
    BY <1>1, <1>6, <1>8, <2>2, <2>4, <2>5 DEF OpenLawful
  <2>7. NoneClosed(s, t)
    BY <1>7, <2>2, <2>5, ClosedAfter
  <2> QED
    BY <1>6, <2>2, <2>5, <2>6, <2>7 DEF frames
<1>10. CASE ~a.acoustic_ended
  <2>1. t = u
    BY <1>5, <1>10
  <2>2. OpenLawful(u)
    BY <1>1, <1>6, <1>7, <1>8, <1>10 DEF OpenLawful
  <2> QED
    BY <1>6, <1>7, <2>1, <2>2 DEF frames
<1> QED
  BY <1>9, <1>10

LEMMA SilenceInside ==
  ASSUME NEW F, NEW s \in Segmenter(F), Lawful(s), Active(s), NEW f \in F, ~f.speech
  PROVE  LET t == SilenceInSegment(s, f) IN
         /\ t \in Segmenter(F)
         /\ \/ /\ LogLawful(t) /\ OpenLawful(t) /\ NoneClosed(s, t)
               /\ t.active.frames = Append(s.active.frames, f)
               /\ t.active.consecutive_silence < segment_end_frames
            \/ Over(s, t, Append(s.active.frames, f))
<1> DEFINE t == SilenceInSegment(s, f)
           a == s.active
           frames == Append(a.frames, f)
           silence == a.consecutive_silence + 1
           ends == ~a.acoustic_ended /\ silence >= acoustic_end_frames
           b == [a EXCEPT !.frames = frames, !.consecutive_silence = silence,
                          !.acoustic_ended = a.acoustic_ended \/ ends]
           u == [s EXCEPT !.active = b]
           e == [kind |-> "Ended", id |-> a.id]
           said == IF ends THEN Emit(u, e) ELSE u
<1>1. a \in OpenSegment(F) /\ LogLawful(s) /\ OpenLawful(s)
      /\ Len(a.frames) - a.pre_roll_frames < maximum_segment_frames
  BY ActiveFacts DEF Lawful
<1>2. /\ a.frames \in Seq(F) /\ a.pre_roll_frames \in Nat /\ a.id \in Nat
      /\ a.consecutive_silence \in Nat /\ a.acoustic_ended \in BOOLEAN /\ a.last_speech_len \in Nat
  BY <1>1 DEF OpenSegment
<1>3. /\ frames \in Seq(F) /\ silence \in Nat /\ Len(frames) = Len(a.frames) + 1
      /\ frames[Len(a.frames) + 1] = f /\ \A k \in 1 .. Len(a.frames) : frames[k] = a.frames[k]
      /\ Len(a.frames) \in Nat
  BY <1>2, AppendProperties, LenProperties
<1>4. Len(frames) - a.pre_roll_frames <= maximum_segment_frames
  BY <1>1, <1>2, <1>3, LengthFacts, Zenon
<1>5. t = IF silence >= segment_end_frames THEN finish_segment(said, "Silence") ELSE said
  BY DEF SilenceInSegment
<1>6. /\ b \in OpenSegment(F) /\ b.frames = frames /\ b.last_speech_len = a.last_speech_len
      /\ b.consecutive_silence = silence /\ b.acoustic_ended = (a.acoustic_ended \/ ends)
      /\ b.id = a.id /\ b.pre_roll_frames = a.pre_roll_frames
  <2> HIDE DEF frames, silence, ends
  <2> QED
    BY <1>1, <1>2, <1>3 DEF OpenSegment
<1> HIDE DEF b, frames
<1>7. /\ u \in Segmenter(F) /\ LogLawful(u) /\ Active(u) /\ NoneClosed(s, u)
      /\ u.active = b /\ u.log = s.log /\ u.pre_roll = s.pre_roll
      /\ u.pending_speech = s.pending_speech /\ u.next_segment = s.next_segment
      /\ u.finalized = s.finalized /\ u.dropped = s.dropped /\ LastEvent(u) = LastEvent(s)
  BY <1>1, <1>6, OpenChanged
<1> HIDE DEF u
<1>8. /\ b.last_speech_len <= Len(b.frames)
      /\ b.consecutive_silence = Len(b.frames) - b.last_speech_len
      /\ b.acoustic_ended <=> b.consecutive_silence >= acoustic_end_frames
      /\ Len(b.frames) - b.pre_roll_frames <= maximum_segment_frames
  <2>1. /\ a.last_speech_len <= Len(a.frames)
        /\ a.consecutive_silence = Len(a.frames) - a.last_speech_len
        /\ a.acoustic_ended <=> a.consecutive_silence >= acoustic_end_frames
    BY <1>1 DEF OpenLawful
  <2>2. acoustic_end_frames \in Nat
    BY Thresholds
  <2>3. (a.acoustic_ended \/ ends) <=> silence >= acoustic_end_frames
    <3>1. a.consecutive_silence >= acoustic_end_frames => silence >= acoustic_end_frames
      BY <1>2, <2>2
    <3> QED
      BY <2>1, <3>1, Zenon
  <2>4. b.acoustic_ended <=> b.consecutive_silence >= acoustic_end_frames
    BY <1>6, <2>3, Zenon
  <2>5. b.consecutive_silence = a.consecutive_silence + 1
    BY <1>6
  <2>6. Len(b.frames) = Len(a.frames) + 1
    BY <1>3, <1>6, Zenon
  <2>8. b.last_speech_len = a.last_speech_len
    BY <1>6
  <2>9. Len(b.frames) - b.pre_roll_frames <= maximum_segment_frames
    BY <1>4, <1>6, Zenon
  <2>7. /\ b.last_speech_len <= Len(b.frames)
        /\ b.consecutive_silence = Len(b.frames) - b.last_speech_len
    <3> DEFINE l == a.last_speech_len  p == Len(a.frames)  m == a.consecutive_silence
               k == b.last_speech_len  q == Len(b.frames)  n == b.consecutive_silence
    <3>1. l \in Nat /\ p \in Nat /\ m \in Nat /\ l <= p /\ m = p - l
      BY <1>2, <1>3, <2>1
    <3>2. k = l /\ q = p + 1 /\ n = m + 1
      BY <2>5, <2>6, <2>8, Zenon
    <3> HIDE DEF l, p, m, k, q, n
    <3>3. k <= q /\ n = q - k
      BY <3>1, <3>2
    <3> QED
      BY <3>3, Zenon DEF k, q, n
  <2> QED
    BY <2>4, <2>7, <2>9, Zenon
<1>9. \A k \in b.last_speech_len + 1 .. Len(b.frames) : ~b.frames[k].speech
  <2>1. \A k \in a.last_speech_len + 1 .. Len(a.frames) : ~a.frames[k].speech
    BY <1>1 DEF OpenLawful
  <2>2. \A k \in a.last_speech_len + 1 .. Len(a.frames) + 1 :
          \/ k = Len(a.frames) + 1
          \/ k \in a.last_speech_len + 1 .. Len(a.frames) /\ k \in 1 .. Len(a.frames)
    BY <1>2, <1>3
  <2> QED
    BY <1>3, <1>6, <2>1, <2>2, Zenon
<1>10. /\ said \in Segmenter(F) /\ LogLawful(said) /\ OpenLawful(said) /\ NoneClosed(s, said)
       /\ said.active = b
  <2>1. CASE ends
    <3>1. said = Emit(u, e) /\ e \in Event(F) /\ e.kind = "Ended"
      BY <1>2, <2>1 DEF Event
    <3>2. /\ said \in Segmenter(F) /\ said.log = Append(u.log, e) /\ said.active = b
          /\ said.pre_roll = s.pre_roll /\ said.pending_speech = s.pending_speech
          /\ said.next_segment = s.next_segment /\ said.finalized = s.finalized
          /\ said.dropped = s.dropped
      BY <1>7, <3>1, EmitFacts
    <3>3. MayFollow(LastEvent(u), e)
      BY <1>1, <1>7, <2>1 DEF MayFollow, OpenLawful
    <3>4. Active(said) /\ said.next_segment = said.finalized + said.dropped + (IF Active(said) THEN 1 ELSE 0)
      BY <1>6, <1>7, <3>2, ActiveFacts DEF LogLawful
    <3>5. LogLawful(said) /\ LastEvent(said) = e /\ said.log # << >> /\ NoneClosed(u, said)
      <4> HIDE DEF e, said
      <4> QED
        BY <1>7, <3>1, <3>2, <3>3, <3>4, LogAppend
    <3>6. OpenLawful(said)
      <4>1. b.acoustic_ended = TRUE
        BY <1>6, <2>1
      <4> HIDE DEF said, ends, silence
      <4> QED
        BY <1>1, <1>6, <1>8, <1>9, <3>2, <3>4, <3>5, <4>1 DEF OpenLawful
    <3>7. NoneClosed(s, said)
      <4> HIDE DEF said
      <4> QED
        BY <1>7, <3>2, <3>5, ClosedAfter
    <3> QED
      BY <3>2, <3>5, <3>6, <3>7
  <2>2. CASE ~ends
    <3>1. said = u /\ b.acoustic_ended = a.acoustic_ended
      BY <1>2, <1>6, <2>2
    <3> HIDE DEF said, ends, silence
    <3>2. OpenLawful(u)
      BY <1>1, <1>6, <1>7, <1>8, <1>9, <3>1 DEF OpenLawful
    <3> QED
      BY <1>7, <3>1, <3>2
  <2> QED
    BY <2>1, <2>2
<1> HIDE DEF said
<1>11. CASE silence >= segment_end_frames
  <2>1. b.acoustic_ended /\ "Silence" \in Reason
    BY <1>3, <1>6, <1>8, <1>11, Thresholds DEF Reason
  <2>2. t = finish_segment(said, "Silence")
    BY <1>5, <1>11
  <2>3. t \in Segmenter(F) /\ Over(said, t, frames)
    BY <1>6, <1>10, <2>1, <2>2, FinishLawful
  <2> HIDE DEF t
  <2>4. OneClosed(s, t, frames)
    BY <1>10, <2>3, ClosedAfter DEF Over
  <2>5. Over(s, t, frames)
    BY <2>3, <2>4 DEF Over
  <2> QED
    BY <2>3, <2>5 DEF frames, t
<1>12. CASE ~(silence >= segment_end_frames)
  <2>1. t = said
    BY <1>5, <1>12
  <2>2. silence < segment_end_frames
    BY <1>3, <1>12, Thresholds
  <2>3. t.active.frames = frames /\ t.active.consecutive_silence < segment_end_frames
    BY <1>6, <1>10, <2>1, <2>2
  <2> HIDE DEF t
  <2> QED
    BY <1>10, <2>1, <2>3 DEF frames, t
<1> QED
  BY <1>11, <1>12
\* A step that does not touch the log nor the open segment.
LEMMA SameLog ==
  ASSUME NEW F, NEW u \in Segmenter(F), NEW t \in Segmenter(F),
         t.log = u.log, t.active = u.active, t.next_segment = u.next_segment,
         t.finalized = u.finalized, t.dropped = u.dropped
  PROVE  /\ Active(t) <=> Active(u)
         /\ LastEvent(t) = LastEvent(u) /\ NoneClosed(u, t)
         /\ LogLawful(u) => LogLawful(t)
         /\ \A s : NoneClosed(s, u) => NoneClosed(s, t)
         /\ \A s, frames : OneClosed(s, u, frames) => OneClosed(s, t, frames)
         /\ /\ ClosedLawful(u) /\ Len(t.pre_roll) <= pre_roll_frames
            /\ Len(t.pending_speech) < speech_start_frames
            => ClosedLawful(t)
         /\ /\ OpenLawful(u) /\ t.pre_roll = u.pre_roll /\ t.pending_speech = u.pending_speech
            => OpenLawful(t)
<1>1. (Active(t) <=> Active(u)) /\ LastEvent(t) = LastEvent(u) /\ Closings(t) = Closings(u)
  BY DEF Active, LastEvent, Closings
<1>2. NoneClosed(u, t)
  BY Fields DEF NoneClosed, Prolongs
<1>3. LogLawful(u) => LogLawful(t)
  BY <1>1 DEF LogLawful
<1>4. /\ \A s : NoneClosed(s, u) => NoneClosed(s, t)
      /\ \A s, frames : OneClosed(s, u, frames) => OneClosed(s, t, frames)
  BY <1>1 DEF NoneClosed, OneClosed, Prolongs
<1>5. /\ ClosedLawful(u) /\ Len(t.pre_roll) <= pre_roll_frames
      /\ Len(t.pending_speech) < speech_start_frames
      => ClosedLawful(t)
  BY <1>1 DEF ClosedLawful
<1>6. /\ OpenLawful(u) /\ t.pre_roll = u.pre_roll /\ t.pending_speech = u.pending_speech
      => OpenLawful(t)
  BY <1>1 DEF OpenLawful
<1> QED
  BY <1>1, <1>2, <1>3, <1>4, <1>5, <1>6, Zenon

LEMMA ConcatAppend ==
  ASSUME NEW F, NEW q \in Seq(F), NEW p \in Seq(F), NEW f \in F
  PROVE  q \o Append(p, f) = Append(q \o p, f)
<1> DEFINE z == <<f>>
<1>1. z \in Seq(F) /\ q \o p \in Seq(F)
  BY ConcatProperties
<1>2. Append(p, f) = p \o z /\ Append(q \o p, f) = (q \o p) \o z
  BY <1>1, AppendIsConcat
<1> HIDE DEF z
<1> QED
  BY <1>1, <1>2, ConcatAssociative

LEMMA SpeechOutsideFacts ==
  ASSUME NEW F, NEW s \in Segmenter(F), Lawful(s), ~Active(s), NEW f \in F, NEW authoritative
  PROVE  LET t == SpeechOutside(s, f, authoritative) IN
         /\ t \in Segmenter(F) /\ LogLawful(t) /\ NoneClosed(s, t)
         /\ \/ /\ OpenLawful(t) /\ t.active.frames = Append(Buffered(s), f)
               /\ t.active.consecutive_silence = 0
            \/ /\ ClosedLawful(t) /\ t.pre_roll = s.pre_roll
               /\ t.pending_speech = Append(s.pending_speech, f)
<1> DEFINE t == SpeechOutside(s, f, authoritative)
           p == Append(s.pending_speech, f)
           u == [s EXCEPT !.pending_speech = p]
<1>1. LogLawful(s) /\ ClosedLawful(s)
  BY DEF Lawful
<1>2. /\ s.pending_speech \in Seq(F) /\ s.pre_roll \in Seq(F)
      /\ p \in Seq(F) /\ Len(p) = Len(s.pending_speech) + 1
  BY Fields, AppendProperties
<1>3. t = IF authoritative \/ Len(u.pending_speech) >= speech_start_frames
          THEN open_active(u) ELSE u
  BY DEF SpeechOutside
<1> HIDE DEF p
<1>4. /\ u \in Segmenter(F) /\ u.pending_speech = p /\ u.pre_roll = s.pre_roll
      /\ u.log = s.log /\ u.active = s.active /\ u.next_segment = s.next_segment
      /\ u.finalized = s.finalized /\ u.dropped = s.dropped
  BY <1>2 DEF Segmenter
<1> HIDE DEF u
<1>5. LogLawful(u) /\ NoneClosed(s, u) /\ ~Active(u) /\ LastEvent(u) = LastEvent(s)
  BY <1>1, <1>4, SameLog
<1>6. CASE t = open_active(u)
  <2> DEFINE frames == u.pre_roll \o u.pending_speech
             e == LastEvent(t)
  <2>1. /\ t \in Segmenter(F) /\ Active(t)
        /\ t.active.frames = frames /\ t.active.id = u.next_segment
        /\ t.active.pre_roll_frames = Len(u.pre_roll) /\ t.active.last_speech_len = Len(frames)
        /\ t.active.consecutive_silence = 0 /\ t.active.acoustic_ended = FALSE
        /\ t.pre_roll = << >> /\ t.pending_speech = << >>
        /\ t.next_segment = u.next_segment + 1
        /\ t.finalized = u.finalized /\ t.dropped = u.dropped
        /\ e \in Event(F) /\ t.log = Append(u.log, e)
        /\ e = [kind |-> "Opened", id |-> u.next_segment]
    <3>1. u \in Segmenter(F)
      BY <1>4
    <3> HIDE DEF t
    <3> QED
      BY <1>6, <3>1, OpenFacts, Zenon
  <2>2. frames = s.pre_roll \o p /\ frames \in Seq(F)
    BY <1>2, <1>4, ConcatProperties, Zenon
  <2>3. Len(frames) = Len(s.pre_roll) + Len(p) /\ Len(p) \in Nat /\ Len(s.pre_roll) \in Nat
    BY <1>2, <2>2, ConcatProperties, LenProperties
  <2>10. frames = Append(Buffered(s), f)
    <3>1. s.pre_roll \o p = Append(s.pre_roll \o s.pending_speech, f)
      <4>1. s.pending_speech \in Seq(F) /\ s.pre_roll \in Seq(F)
        BY <1>2
      <4>2. \A q, r \in Seq(F) : q \o Append(r, f) = Append(q \o r, f)
        BY ConcatAppend
      <4> QED
        BY <4>1, <4>2, Zenon DEF p
    <3>2. Buffered(s) = s.pre_roll \o s.pending_speech
      BY DEF Buffered
    <3> QED
      BY <2>2, <3>1, <3>2, Zenon
  <2> HIDE DEF frames, e, t
  <2>4. u.log # << >> => MayFollow(LastEvent(u), e)
    <3>1. e.kind = "Opened" /\ e.id = s.next_segment
      BY <1>4, <2>1
    <3> QED
      BY <1>1, <1>4, <1>5, <3>1 DEF MayFollow, ClosedLawful
  <2>5. t.next_segment = t.finalized + t.dropped + (IF Active(t) THEN 1 ELSE 0)
    BY <1>4, <1>5, <2>1, Fields DEF LogLawful
  <2>6. LogLawful(t) /\ t.log # << >> /\ NoneClosed(u, t)
    <3>1. e.kind = "Opened"
      BY <2>1
    <3> QED
      BY <1>4, <1>5, <2>1, <2>4, <2>5, <3>1, LogAppend
  <2>7. NoneClosed(s, t)
    BY <1>4, <1>5, <2>1, <2>6, ClosedAfter
  <2>8. Len(frames) - Len(s.pre_roll) <= speech_start_frames
    BY <1>1, <1>2, <2>3, Thresholds DEF ClosedLawful
  <2>9. OpenLawful(t)
    <3>1. /\ e.kind = "Opened" /\ e.id = u.next_segment /\ LastEvent(t) = e
      BY <2>1 DEF e
    <3>3. t.active.pre_roll_frames = Len(s.pre_roll)
      BY <1>4, <2>1, Zenon
    <3>2. 0 = Len(frames) - Len(frames) /\ Len(frames) <= Len(frames) /\ ~(0 >= acoustic_end_frames)
          /\ Len(frames) + 1 .. Len(frames) = {}
      BY <2>2, Thresholds
    <3> QED
      BY <2>1, <2>6, <2>8, <3>1, <3>2, <3>3 DEF OpenLawful
  <2> QED
    BY <2>1, <2>6, <2>7, <2>9, <2>10 DEF t
<1>7. CASE t = u /\ ~(Len(p) >= speech_start_frames)
  <2>1. ClosedLawful(u)
    BY <1>1, <1>2, <1>4, <1>5, <1>7, Thresholds DEF ClosedLawful
  <2> QED
    BY <1>4, <1>5, <1>7, <2>1 DEF p
<1> QED
  BY <1>3, <1>4, <1>6, <1>7
LEMMA SilenceOutsideFacts ==
  ASSUME NEW F, NEW s \in Segmenter(F), Lawful(s), ~Active(s), NEW f \in F
  PROVE  LET t == SilenceOutside(s, f) IN
         /\ t \in Segmenter(F) /\ LogLawful(t) /\ ClosedLawful(t) /\ NoneClosed(s, t)
         /\ t.pending_speech = << >> /\ EndsWith(Append(Buffered(s), f), t.pre_roll)
<1> DEFINE t == SilenceOutside(s, f)
           z == << >>
           p == Append(s.pending_speech, f)
           all == s.pre_roll \o p
           q == LastN(all, pre_roll_frames)
           u == [s EXCEPT !.pending_speech = z]
           v == [s EXCEPT !.pre_roll = q, !.pending_speech = z]
<1>1. /\ s.pending_speech \in Seq(F) /\ s.pre_roll \in Seq(F) /\ z \in Seq(F) /\ p \in Seq(F)
  BY Fields, AppendProperties
<1> HIDE DEF p
<1>2. all \in Seq(F)
  BY <1>1, ConcatProperties
<1> HIDE DEF all
<1>3. q \in Seq(F) /\ Len(q) <= pre_roll_frames /\ EndsWith(all, q)
  BY <1>2, LastNFacts, Thresholds
<1> HIDE DEF q, z
<1>4. t = v
  <2>1. t = [u EXCEPT !.pre_roll = LastN(u.pre_roll \o p, pre_roll_frames)]
    BY DEF SilenceOutside, push_pre_roll, p, z
  <2>2. u.pre_roll = s.pre_roll
    BY DEF Segmenter
  <2>3. LastN(u.pre_roll \o p, pre_roll_frames) = q
    BY <2>2, Zenon DEF q, all
  <2>4. [u EXCEPT !.pre_roll = q] = v
    BY DEF Segmenter
  <2> HIDE DEF t, u, v
  <2> QED
    BY <2>1, <2>3, <2>4, Zenon
<1>5. /\ v \in Segmenter(F) /\ v.pre_roll = q /\ v.pending_speech = z
      /\ v.log = s.log /\ v.active = s.active /\ v.next_segment = s.next_segment
      /\ v.finalized = s.finalized /\ v.dropped = s.dropped
  BY <1>1, <1>3 DEF Segmenter
<1> HIDE DEF v
<1>6. Len(z) < speech_start_frames
  BY Thresholds DEF z
<1>7. LogLawful(v) /\ ClosedLawful(v) /\ NoneClosed(s, v)
  BY <1>3, <1>5, <1>6, SameLog DEF Lawful
<1>8. all = Append(Buffered(s), f)
  <2>1. \A r, w \in Seq(F) : r \o Append(w, f) = Append(r \o w, f)
    BY ConcatAppend
  <2>2. Buffered(s) = s.pre_roll \o s.pending_speech
    BY DEF Buffered
  <2> QED
    BY <1>1, <2>1, <2>2, Zenon DEF all, p
<1> QED
  BY <1>3, <1>4, <1>5, <1>7, <1>8, Zenon DEF z, t

-----------------------------------------------------------------------------
\* What a frame does: it goes on with the open segment or opens one, it ends one, it waits
\* for more speech, or it ends that wait.
Handled(s, t, f) ==
  LET frames == Append(Buffered(s), f) IN
  \/ NoneClosed(s, t) /\ Active(t) /\ t.active.frames = frames
  \/ Over(s, t, frames)
  \/ /\ NoneClosed(s, t) /\ ~Active(s) /\ ~Active(t) /\ f.speech
     /\ t.pre_roll = s.pre_roll /\ t.pending_speech = Append(s.pending_speech, f)
  \/ /\ NoneClosed(s, t) /\ ~Active(s) /\ ~Active(t) /\ ~f.speech
     /\ t.pending_speech = << >> /\ EndsWith(frames, t.pre_roll)

\* A segment that has become too long is closed, and nothing of it is kept.
LEMMA Cleared ==
  ASSUME NEW F, NEW s \in Segmenter(F), NEW u \in Segmenter(F), NEW reason \in Reason,
         NoneClosed(s, u), LogLawful(u), OpenLawful(u), reason # "Silence"
  PROVE  LET t == [finish_segment(u, reason) EXCEPT !.pre_roll = << >>] IN
         t \in Segmenter(F) /\ Over(s, t, u.active.frames) /\ t.pre_roll = << >>
<1> DEFINE v == finish_segment(u, reason)
           z == << >>
           t == [v EXCEPT !.pre_roll = z]
           frames == u.active.frames
<1>1. v \in Segmenter(F) /\ Over(u, v, frames)
  BY FinishLawful
<1>2. z \in Seq(F) /\ Len(z) <= pre_roll_frames /\ EndsWith(frames, z) /\ Silent(z)
  <2>1. frames \in Seq(F)
    BY ActiveFacts DEF OpenLawful, OpenSegment
  <2>2. Len(z) = 0 /\ Len(frames) \in Nat
    BY <2>1, LenProperties
  <2> QED
    BY <2>2, Thresholds DEF EndsWith, Silent
<1> HIDE DEF v, z
<1>3. /\ t \in Segmenter(F) /\ t.pre_roll = z /\ t.pending_speech = v.pending_speech
      /\ t.log = v.log /\ t.active = v.active /\ t.next_segment = v.next_segment
      /\ t.finalized = v.finalized /\ t.dropped = v.dropped
  BY <1>1, <1>2 DEF Segmenter
<1> HIDE DEF t, frames
<1>4. LogLawful(v) /\ ClosedLawful(v) /\ OneClosed(s, v, frames) /\ v.pending_speech = << >>
  BY <1>1, ClosedAfter DEF Over
<1>5. LogLawful(t) /\ OneClosed(s, t, frames) /\ ClosedLawful(t)
  <2>1. Len(v.pending_speech) < speech_start_frames
    BY <1>4 DEF ClosedLawful
  <2> QED
    BY <1>1, <1>2, <1>3, <1>4, <2>1, SameLog
<1>6. Over(s, t, frames)
  BY <1>2, <1>3, <1>4, <1>5 DEF Over
<1> QED
  <2>1. t \in Segmenter(F) /\ t.pre_roll = z
    BY <1>3
  <2> QED
    BY <1>6, <2>1, Zenon DEF t, z, v, frames
LEMMA ProcessHandles ==
  ASSUME NEW F, NEW s \in Segmenter(F), Lawful(s), NEW f \in F, NEW authoritative
  PROVE  LET t == process(s, f, authoritative) IN
         t \in Segmenter(F) /\ Lawful(t) /\ Handled(s, t, f)
<1> DEFINE t == process(s, f, authoritative)
           frames == Append(Buffered(s), f)
           next == CASE Active(s) /\ f.speech   -> SpeechInSegment(s, f)
                    []  Active(s) /\ ~f.speech  -> SilenceInSegment(s, f)
                    []  ~Active(s) /\ f.speech  -> SpeechOutside(s, f, authoritative)
                    []  ~Active(s) /\ ~f.speech -> SilenceOutside(s, f)
           cleared == [finish_segment(next, "MaximumDuration") EXCEPT !.pre_roll = << >>]
<1>1. t = IF Overlong(next) THEN cleared ELSE next
  BY DEF process
\* What each branch leaves for the check of the length.
<1>2. /\ next \in Segmenter(F) /\ LogLawful(next)
      /\ \/ /\ OpenLawful(next) /\ NoneClosed(s, next) /\ next.active.frames = frames
            /\ next.active.consecutive_silence < segment_end_frames
         \/ ClosedLawful(next) /\ Handled(s, next, f)
  <2>1. CASE Active(s) /\ f.speech
    <3>1. next = SpeechInSegment(s, f) /\ Buffered(s) = s.active.frames
      BY <2>1 DEF Buffered
    <3> HIDE DEF next
    <3>2. /\ next \in Segmenter(F) /\ LogLawful(next) /\ OpenLawful(next) /\ NoneClosed(s, next)
          /\ next.active.frames = Append(s.active.frames, f)
          /\ next.active.consecutive_silence = 0
      BY <2>1, <3>1, SpeechInside, Zenon
    <3>3. 0 < segment_end_frames
      BY Thresholds
    <3> QED
      BY <3>1, <3>2, <3>3
  <2>2. CASE Active(s) /\ ~f.speech
    <3>1. next = SilenceInSegment(s, f) /\ Buffered(s) = s.active.frames
      BY <2>2 DEF Buffered
    <3> HIDE DEF next
    <3>2. /\ next \in Segmenter(F)
          /\ \/ /\ LogLawful(next) /\ OpenLawful(next) /\ NoneClosed(s, next)
                /\ next.active.frames = Append(s.active.frames, f)
                /\ next.active.consecutive_silence < segment_end_frames
             \/ Over(s, next, Append(s.active.frames, f))
      BY <2>2, <3>1, SilenceInside, Zenon
    <3>3. Over(s, next, frames) => LogLawful(next) /\ ClosedLawful(next) /\ Handled(s, next, f)
      BY DEF Over, Handled
    <3> QED
      BY <3>1, <3>2, <3>3, Zenon
  <2>3. CASE ~Active(s) /\ f.speech
    <3> DEFINE v == SpeechOutside(s, f, authoritative)
    <3>1. next = v
      BY <2>3
    <3>6. /\ v \in Segmenter(F) /\ LogLawful(v) /\ NoneClosed(s, v)
          /\ \/ /\ OpenLawful(v) /\ v.active.frames = Append(Buffered(s), f)
                /\ v.active.consecutive_silence = 0
             \/ /\ ClosedLawful(v) /\ v.pre_roll = s.pre_roll
                /\ v.pending_speech = Append(s.pending_speech, f)
      BY <2>3, SpeechOutsideFacts
    <3> HIDE DEF next, v
    <3>2. /\ next \in Segmenter(F) /\ LogLawful(next) /\ NoneClosed(s, next)
          /\ \/ /\ OpenLawful(next) /\ next.active.frames = Append(Buffered(s), f)
                /\ next.active.consecutive_silence = 0
             \/ /\ ClosedLawful(next) /\ next.pre_roll = s.pre_roll
                /\ next.pending_speech = Append(s.pending_speech, f)
      BY <3>1, <3>6
    <3>3. 0 < segment_end_frames
      BY Thresholds
    <3>4. CASE OpenLawful(next) /\ next.active.frames = frames /\ next.active.consecutive_silence = 0
      BY <3>2, <3>3, <3>4
    <3>5. CASE /\ ClosedLawful(next) /\ next.pre_roll = s.pre_roll
               /\ next.pending_speech = Append(s.pending_speech, f)
      <4>1. Handled(s, next, f)
        BY <2>3, <3>2, <3>5, Zenon DEF Handled, ClosedLawful
      <4> QED
        BY <3>2, <3>5, <4>1
    <3> QED
      BY <3>2, <3>4, <3>5, Zenon
  <2>4. CASE ~Active(s) /\ ~f.speech
    <3>1. next = SilenceOutside(s, f)
      BY <2>4
    <3> HIDE DEF next
    <3>2. /\ next \in Segmenter(F) /\ LogLawful(next) /\ ClosedLawful(next) /\ NoneClosed(s, next)
          /\ next.pending_speech = << >> /\ EndsWith(Append(Buffered(s), f), next.pre_roll)
      BY <2>4, <3>1, SilenceOutsideFacts, Zenon
    <3>3. Handled(s, next, f)
      BY <2>4, <3>2, Zenon DEF Handled, ClosedLawful
    <3> QED
      BY <3>2, <3>3
  <2> QED
    BY <2>1, <2>2, <2>3, <2>4, Zenon
<1> HIDE DEF next
<1>3. CASE Overlong(next)
  <2>1. OpenLawful(next) /\ NoneClosed(s, next) /\ next.active.frames = frames
    BY <1>2, <1>3 DEF Overlong, ClosedLawful
  <2>2. "MaximumDuration" \in Reason /\ "MaximumDuration" # "Silence"
    BY DEF Reason
  <2>3. cleared \in Segmenter(F) /\ Over(s, cleared, frames)
    <3> HIDE DEF frames
    <3> QED
      BY <1>2, <2>1, <2>2, Cleared
  <2>4. t = cleared
    BY <1>1, <1>3
  <2> HIDE DEF t, cleared
  <2>5. Lawful(t) /\ Handled(s, t, f)
    BY <2>3, <2>4 DEF Over, Lawful, Handled, ClosedLawful
  <2> QED
    BY <2>3, <2>4, <2>5 DEF t
<1>4. CASE ~Overlong(next)
  <2>1. t = next
    BY <1>1, <1>4
  <2> HIDE DEF t
  <2>2. CASE /\ OpenLawful(next) /\ NoneClosed(s, next) /\ next.active.frames = frames
             /\ next.active.consecutive_silence < segment_end_frames
    <3>1. Active(next)
      BY <2>2 DEF OpenLawful
    <3>2. Len(next.active.frames) - next.active.pre_roll_frames < maximum_segment_frames
      <4>1. next.active.frames \in Seq(F) /\ next.active.pre_roll_frames \in Nat
        BY <1>2, <3>1, ActiveFacts DEF OpenSegment
      <4> QED
        BY <1>4, <3>1, <4>1, Thresholds DEF Overlong
    <3>3. Lawful(next) /\ Handled(s, next, f)
      BY <1>2, <2>2, <3>1, <3>2 DEF Lawful, Handled
    <3> QED
      BY <1>2, <2>1, <3>3 DEF t
  <2>3. CASE ClosedLawful(next) /\ Handled(s, next, f)
    <3>1. Lawful(next)
      BY <1>2, <2>3 DEF Lawful, ClosedLawful
    <3> QED
      BY <1>2, <2>1, <2>3, <3>1 DEF t
  <2> QED
    BY <1>2, <2>2, <2>3, Zenon
<1> QED
  BY <1>3, <1>4
-----------------------------------------------------------------------------
\* The reported segments after a call.

\* The speech that is in a reported segment.
Told(s) == UNION {SpeechOf(s.log[i].segment.frames) : i \in Closings(s)}

\* No speech is in two of them.
Apart(s) == \A i, j \in Closings(s) : i < j =>
  SpeechOf(s.log[i].segment.frames) \cap SpeechOf(s.log[j].segment.frames) = {}

\* The frames of each are one of the sequences in C.
Reports(s, C) == \A i \in Closings(s) : s.log[i].segment.frames \in C

LEMMA NoneClosedFacts ==
  ASSUME NEW F, NEW s \in Segmenter(F), NEW t \in Segmenter(F), NoneClosed(s, t)
  PROVE  /\ Told(t) = Told(s) /\ (Apart(s) => Apart(t))
         /\ \A C : Reports(s, C) => Reports(t, C)
<1>1. s.log \in Seq(Event(F)) /\ t.log \in Seq(Event(F))
  BY Fields
<1>2. /\ DOMAIN s.log = 1 .. Len(s.log) /\ DOMAIN t.log = 1 .. Len(t.log)
      /\ Len(s.log) \in Nat /\ Len(t.log) \in Nat /\ Len(s.log) <= Len(t.log)
      /\ \A i \in DOMAIN s.log : t.log[i] = s.log[i]
  BY <1>1 DEF NoneClosed, Prolongs
<1>3. \A i \in DOMAIN t.log : i \in DOMAIN s.log \/ t.log[i].kind \in {"Opened", "Ended", "Resumed"}
  BY <1>2 DEF NoneClosed
<1>4. DOMAIN s.log \subseteq DOMAIN t.log
  BY <1>2
<1>5. Closings(t) = Closings(s) /\ \A i \in Closings(s) : t.log[i] = s.log[i]
  BY <1>2, <1>3, <1>4 DEF Closings
<1> QED
  BY <1>5 DEF Told, Apart, Reports

LEMMA OneClosedFacts ==
  ASSUME NEW F, NEW s \in Segmenter(F), NEW t \in Segmenter(F), NEW q, OneClosed(s, t, q)
  PROVE  /\ Told(t) = Told(s) \cup SpeechOf(q)
         /\ Apart(s) /\ Told(s) \cap SpeechOf(q) = {} => Apart(t)
         /\ \A C : Reports(s, C) /\ q \in C => Reports(t, C)
<1> DEFINE n == Len(t.log)
<1>1. s.log \in Seq(Event(F)) /\ t.log \in Seq(Event(F))
  BY Fields
<1>2. /\ DOMAIN s.log = 1 .. Len(s.log) /\ DOMAIN t.log = 1 .. n
      /\ Len(s.log) \in Nat /\ n \in Nat /\ Len(s.log) < n
      /\ \A i \in DOMAIN s.log : t.log[i] = s.log[i]
  BY <1>1 DEF OneClosed, Prolongs
<1>3. n \in DOMAIN t.log /\ t.log[n].kind \in {"Dropped", "Finalized"} /\ t.log[n].segment.frames = q
  BY <1>2 DEF OneClosed, LastEvent
<1>4. \A i \in DOMAIN t.log :
        i \in DOMAIN s.log \/ i = n \/ t.log[i].kind \in {"Opened", "Ended", "Resumed"}
  BY <1>2 DEF OneClosed
<1>5. DOMAIN s.log \subseteq DOMAIN t.log /\ \A i \in DOMAIN s.log : i < n /\ ~(n < i)
  BY <1>2
<1> HIDE DEF n
<1>6. /\ Closings(t) = Closings(s) \cup {n} /\ \A i \in Closings(s) : t.log[i] = s.log[i] /\ i < n
      /\ \A i \in Closings(s) : ~(n < i)
  BY <1>2, <1>3, <1>4, <1>5 DEF Closings
<1>7. Told(t) = Told(s) \cup SpeechOf(q)
  BY <1>3, <1>6 DEF Told
<1>8. ASSUME Apart(s), Told(s) \cap SpeechOf(q) = {} PROVE Apart(t)
  <2> SUFFICES ASSUME NEW i \in Closings(t), NEW j \in Closings(t), i < j
               PROVE  SpeechOf(t.log[i].segment.frames) \cap SpeechOf(t.log[j].segment.frames) = {}
    BY DEF Apart
  <2>1. i \in Closings(s)
    <3>1. n \in Nat
      BY <1>2
    <3> QED
      BY <1>6, <3>1
  <2>2. CASE j \in Closings(s)
    BY <1>6, <1>8, <2>1, <2>2 DEF Apart
  <2>3. CASE j = n
    BY <1>3, <1>6, <1>8, <2>1, <2>3 DEF Told
  <2> QED
    BY <1>6, <2>2, <2>3
<1>9. \A C : Reports(s, C) /\ q \in C => Reports(t, C)
  BY <1>3, <1>6 DEF Reports
<1> QED
  BY <1>7, <1>8, <1>9

LEMMA SpeechMember ==
  \A q, x : x \in SpeechOf(q) <=> \E i \in DOMAIN q : q[i].speech /\ q[i].at = x
BY DEF SpeechOf

\* The speech in sequences of frames.
LEMMA SpeechFacts ==
  ASSUME NEW F, NEW q \in Seq(F), NEW p \in Seq(F)
  PROVE  /\ \A f \in F : SpeechOf(Append(q, f)) = SpeechOf(q) \cup (IF f.speech THEN {f.at} ELSE {})
         /\ SpeechOf(q \o p) = SpeechOf(q) \cup SpeechOf(p)
         /\ EndsWith(q, p) => SpeechOf(p) \subseteq SpeechOf(q)
         /\ Silent(q) => SpeechOf(q) = {}
         /\ SpeechOf(<< >>) = {}
<1>1. /\ DOMAIN q = 1 .. Len(q) /\ Len(q) \in Nat /\ DOMAIN p = 1 .. Len(p) /\ Len(p) \in Nat
  BY LenProperties
<1>2. ASSUME NEW f \in F
      PROVE  SpeechOf(Append(q, f)) = SpeechOf(q) \cup (IF f.speech THEN {f.at} ELSE {})
  <2> DEFINE r == Append(q, f)
             n == Len(q) + 1
  <2>1. r \in Seq(F) /\ Len(r) = n /\ r[n] = f /\ \A i \in 1 .. Len(q) : r[i] = q[i]
    BY AppendProperties
  <2> HIDE DEF r
  <2>2. DOMAIN r = DOMAIN q \cup {n} /\ \A i \in DOMAIN q : r[i] = q[i]
    BY <1>1, <2>1, LenProperties
  <2> HIDE DEF n
  <2>3. SpeechOf(r) = SpeechOf(q) \cup (IF f.speech THEN {f.at} ELSE {})
    BY <2>1, <2>2 DEF SpeechOf
  <2> QED
    BY <2>3 DEF r
<1>3. SpeechOf(q \o p) = SpeechOf(q) \cup SpeechOf(p)
  <2> DEFINE r == q \o p
  <2>1. /\ r \in Seq(F) /\ Len(r) = Len(q) + Len(p)
        /\ \A i \in 1 .. Len(q) + Len(p) : r[i] = IF i <= Len(q) THEN q[i] ELSE p[i - Len(q)]
    BY ConcatProperties
  <2> HIDE DEF r
  <2>2. DOMAIN r = 1 .. Len(q) + Len(p)
    BY <2>1, LenProperties
  <2>3. /\ \A i \in DOMAIN q : i \in DOMAIN r /\ r[i] = q[i]
        /\ \A i \in DOMAIN p : i + Len(q) \in DOMAIN r /\ r[i + Len(q)] = p[i]
        /\ \A i \in DOMAIN r : \/ i \in DOMAIN q /\ r[i] = q[i]
                               \/ i - Len(q) \in DOMAIN p /\ r[i] = p[i - Len(q)]
    <3>1. \A i \in DOMAIN q : i \in 1 .. Len(q) + Len(p) /\ i <= Len(q)
      BY <1>1
    <3>2. \A i \in DOMAIN p : /\ i + Len(q) \in 1 .. Len(q) + Len(p) /\ ~(i + Len(q) <= Len(q))
                              /\ i + Len(q) - Len(q) = i
      BY <1>1
    <3>3. \A i \in 1 .. Len(q) + Len(p) :
            IF i <= Len(q) THEN i \in DOMAIN q ELSE i - Len(q) \in DOMAIN p
      BY <1>1
    <3>4. \A i \in DOMAIN q : i \in DOMAIN r /\ r[i] = q[i]
      BY <2>1, <2>2, <3>1
    <3>6. ASSUME NEW i \in DOMAIN r
          PROVE  \/ i \in DOMAIN q /\ r[i] = q[i]
                 \/ i - Len(q) \in DOMAIN p /\ r[i] = p[i - Len(q)]
      <4>1. CASE i <= Len(q)
        BY <2>1, <2>2, <3>3, <4>1
      <4>2. CASE ~(i <= Len(q))
        BY <2>1, <2>2, <3>3, <4>2
      <4> QED
        BY <4>1, <4>2
    <3>5. \A i \in DOMAIN p : i + Len(q) \in DOMAIN r /\ r[i + Len(q)] = p[i]
      <4> SUFFICES ASSUME NEW i \in DOMAIN p
                   PROVE  i + Len(q) \in DOMAIN r /\ r[i + Len(q)] = p[i]
        OBVIOUS
      <4> DEFINE k == i + Len(q)
      <4>1. k \in 1 .. Len(q) + Len(p) /\ ~(k <= Len(q)) /\ k - Len(q) = i
        BY <3>2
      <4> HIDE DEF k
      <4>2. k \in DOMAIN r /\ r[k] = p[i]
        BY <2>1, <2>2, <4>1
      <4> QED
        BY <4>2 DEF k
    <3> QED
      BY <3>4, <3>5, <3>6
  <2>4. ASSUME NEW x PROVE x \in SpeechOf(r) => x \in SpeechOf(q) \/ x \in SpeechOf(p)
    BY <2>3, SpeechMember
  <2>5. ASSUME NEW x PROVE x \in SpeechOf(q) => x \in SpeechOf(r)
    BY <2>3, SpeechMember
  <2>6. ASSUME NEW x, x \in SpeechOf(p) PROVE x \in SpeechOf(r)
    <3>1. PICK i \in DOMAIN p : p[i].speech /\ p[i].at = x
      BY <2>6, SpeechMember
    <3> DEFINE k == i + Len(q)
    <3>2. k \in DOMAIN r /\ r[k] = p[i]
      BY <2>3
    <3> HIDE DEF k
    <3> QED
      BY <3>1, <3>2, SpeechMember
  <2> QED
    BY <2>4, <2>5, <2>6 DEF r
<1>4. ASSUME EndsWith(q, p) PROVE SpeechOf(p) \subseteq SpeechOf(q)
  <2>1. Len(p) <= Len(q) /\ \A i \in 1 .. Len(p) : p[i] = q[Len(q) - Len(p) + i]
    BY <1>4 DEF EndsWith
  <2>2. \A i \in DOMAIN p : Len(q) - Len(p) + i \in DOMAIN q /\ p[i] = q[Len(q) - Len(p) + i]
    BY <1>1, <2>1
  <2> QED
    BY <2>2, Zenon DEF SpeechOf
<1>5. Silent(q) => SpeechOf(q) = {}
  BY <1>1 DEF Silent, SpeechOf
<1>6. SpeechOf(<< >>) = {}
  BY DEF SpeechOf
<1> QED
  BY <1>2, <1>3, <1>4, <1>5, <1>6
-----------------------------------------------------------------------------
\* The calls that end whatever is going on.

\* Nothing is open and nothing waits; at most what was is reported.
Interrupted(s, t) ==
  /\ LogLawful(t) /\ ClosedLawful(t) /\ t.pending_speech = << >>
  /\ SpeechOf(t.pre_roll) \subseteq SpeechOf(s.pre_roll)
  /\ \/ ~Active(s) /\ NoneClosed(s, t)
     \/ OneClosed(s, t, IF Active(s) THEN s.active.frames ELSE s.pending_speech)

\* What waits is dropped.
LEMMA DropLawful ==
  ASSUME NEW F, NEW s \in Segmenter(F), LogLawful(s), ClosedLawful(s), NEW reason \in Reason,
         reason # "Silence"
  PROVE  LET t == drop_pending(s, reason) IN
         /\ t \in Segmenter(F) /\ LogLawful(t) /\ ClosedLawful(t)
         /\ OneClosed(s, t, s.pending_speech)
         /\ t.pre_roll = s.pre_roll /\ t.pending_speech = << >>
<1> DEFINE t == drop_pending(s, reason)
           e == LastEvent(t)
<1>1. /\ t \in Segmenter(F)
      /\ t.active = s.active /\ t.pre_roll = s.pre_roll /\ t.pending_speech = << >>
      /\ t.next_segment = s.next_segment + 1
      /\ t.finalized + t.dropped = s.finalized + s.dropped + 1
      /\ e \in Event(F) /\ t.log = Append(s.log, e)
      /\ e.kind = "Dropped" /\ e.id = s.next_segment
      /\ e.segment.frames = s.pending_speech
      /\ e.segment.pre_roll_frames = 0
      /\ e.segment.close_reason = reason
  BY DropFacts
<1> HIDE DEF t, e
<1>2. ~Active(s) /\ ~Active(t)
  BY <1>1 DEF ClosedLawful, Active
<1>3. s.log # << >> => MayFollow(LastEvent(s), e)
  BY <1>1 DEF MayFollow, ClosedLawful
<1>4. t.next_segment = t.finalized + t.dropped + (IF Active(t) THEN 1 ELSE 0)
  BY <1>1, <1>2, Fields DEF LogLawful
<1>5. Len(e.segment.frames) - e.segment.pre_roll_frames <= speech_start_frames
  <2>1. Len(s.pending_speech) \in Nat /\ Len(s.pending_speech) < speech_start_frames
    BY Fields, LenProperties DEF ClosedLawful
  <2> QED
    BY <1>1, <2>1, Thresholds
<1>6. LogLawful(t) /\ LastEvent(t) = e /\ OneClosed(s, t, e.segment.frames)
  BY <1>1, <1>3, <1>4, <1>5, LogAppend
<1>7. ClosedLawful(t)
  <2>1. Len(t.pending_speech) < speech_start_frames
    BY <1>1, Thresholds
  <2>2. e.id + 1 = t.next_segment
    BY <1>1
  <2> QED
    BY <1>1, <1>2, <1>6, <2>1, <2>2 DEF ClosedLawful
<1> QED
  BY <1>1, <1>6, <1>7, Zenon DEF t

LEMMA DiscontinuityInterrupts ==
  ASSUME NEW F, NEW s \in Segmenter(F), Lawful(s), NEW expected \in Int, NEW received \in Int
  PROVE  LET t == note_source_discontinuity(s, expected, received) IN
         /\ t \in Segmenter(F) /\ Lawful(t) /\ Interrupted(s, t) /\ t.pre_roll = << >>
<1> DEFINE t == note_source_discontinuity(s, expected, received)
           lost == IF received - expected > 1 THEN received - expected ELSE 1
           n == s.dropped_source_chunks + lost
           z == << >>
           next == [s EXCEPT !.dropped_source_chunks = n, !.pending_speech = z]
           cleared == [finish_segment(next, "Discontinuity") EXCEPT !.pre_roll = z]
           quiet == [next EXCEPT !.pre_roll = z]
<1>1. n \in Int /\ z \in Seq(F)
  BY Fields
<1>2. t = IF Active(s) THEN cleared ELSE quiet
  BY DEF note_source_discontinuity
<1> HIDE DEF n, z
<1>3. /\ next \in Segmenter(F) /\ next.pending_speech = z /\ next.pre_roll = s.pre_roll
      /\ next.log = s.log /\ next.active = s.active /\ next.next_segment = s.next_segment
      /\ next.finalized = s.finalized /\ next.dropped = s.dropped
  BY <1>1 DEF Segmenter
<1>4. /\ quiet \in Segmenter(F) /\ quiet.pending_speech = z /\ quiet.pre_roll = z
      /\ quiet.log = s.log /\ quiet.active = s.active /\ quiet.next_segment = s.next_segment
      /\ quiet.finalized = s.finalized /\ quiet.dropped = s.dropped
  BY <1>1 DEF Segmenter
<1> HIDE DEF next, quiet
<1>5. LogLawful(next) /\ NoneClosed(s, next)
  BY <1>3, SameLog DEF Lawful
<1>6. CASE Active(s)
  <2>1. OpenLawful(next) /\ next.active.frames = s.active.frames
    BY <1>3, <1>6, SameLog DEF Lawful, OpenLawful, z
  <2>2. "Discontinuity" \in Reason /\ "Discontinuity" # "Silence"
    BY DEF Reason
  <2>3. cleared \in Segmenter(F) /\ Over(s, cleared, next.active.frames) /\ cleared.pre_roll = z
    BY <1>3, <1>5, <2>1, <2>2, Cleared DEF z
  <2>4. t = cleared
    BY <1>2, <1>6
  <2> HIDE DEF t, cleared
  <2>5. Lawful(t) /\ t.pre_roll = << >>
    BY <2>3, <2>4 DEF Over, Lawful, ClosedLawful, z
  <2>6. SpeechOf(t.pre_roll) = {}
    BY <2>5, SpeechMember
  <2>7. Interrupted(s, t)
    BY <1>6, <2>1, <2>3, <2>4, <2>6 DEF Over, Interrupted
  <2> QED
    BY <2>3, <2>4, <2>5, <2>7 DEF t
<1>7. CASE ~Active(s)
  <2>1. t = quiet
    BY <1>2, <1>7
  <2>2. Len(z) <= pre_roll_frames /\ Len(z) < speech_start_frames
    BY Thresholds DEF z
  <2>3. LogLawful(quiet) /\ ClosedLawful(quiet) /\ NoneClosed(s, quiet)
    BY <1>4, <1>7, <2>2, SameLog DEF Lawful
  <2>4. SpeechOf(quiet.pre_roll) = {}
    BY <1>4, SpeechMember DEF z
  <2>5. Lawful(quiet) /\ Interrupted(s, quiet)
    BY <1>4, <1>7, <2>3, <2>4 DEF Lawful, Interrupted, ClosedLawful, z
  <2> HIDE DEF t
  <2> QED
    BY <1>4, <2>1, <2>5 DEF t, z
<1> QED
  BY <1>6, <1>7

LEMMA FlushInterrupts ==
  ASSUME NEW F, NEW s \in Segmenter(F), Lawful(s), NEW reason \in Reason, reason # "Silence"
  PROVE  LET t == force_flush(s, reason) IN
         /\ t \in Segmenter(F) /\ Lawful(t) /\ Interrupted(s, t)
         /\ t = s \/ OneClosed(s, t, IF Active(s) THEN s.active.frames ELSE s.pending_speech)
<1> DEFINE t == force_flush(s, reason)
           n == s.forced_flushes + 1
           next == [s EXCEPT !.forced_flushes = n]
<1>1. n \in Nat
  BY Fields
<1>2. t = CASE Active(s) -> finish_segment(next, reason)
            [] ~Active(s) /\ s.pending_speech # << >> -> drop_pending(next, reason)
            [] OTHER -> s
  BY DEF force_flush
<1> HIDE DEF n
<1>3. /\ next \in Segmenter(F) /\ next.pending_speech = s.pending_speech
      /\ next.pre_roll = s.pre_roll
      /\ next.log = s.log /\ next.active = s.active /\ next.next_segment = s.next_segment
      /\ next.finalized = s.finalized /\ next.dropped = s.dropped
  BY <1>1 DEF Segmenter
<1> HIDE DEF next
<1>4. LogLawful(next) /\ NoneClosed(s, next)
  BY <1>3, SameLog DEF Lawful
<1>5. CASE Active(s)
  <2>1. OpenLawful(next) /\ next.active.frames = s.active.frames
    BY <1>3, <1>5, SameLog DEF Lawful
  <2>2. t = finish_segment(next, reason)
    BY <1>2, <1>5
  <2> HIDE DEF t
  <2>3. t \in Segmenter(F) /\ Over(next, t, s.active.frames)
    BY <1>3, <1>4, <2>1, <2>2, FinishLawful
  <2>4. OneClosed(s, t, s.active.frames)
    BY <1>3, <1>4, <2>3, ClosedAfter DEF Over
  <2>5. SpeechOf(t.pre_roll) = {}
    <3>1. Silent(t.pre_roll) /\ t.pre_roll \in Seq(F)
      BY <2>3, Fields DEF Over
    <3> QED
      BY <3>1, SpeechFacts
  <2>6. Lawful(t) /\ Interrupted(s, t)
    BY <1>5, <2>3, <2>4, <2>5 DEF Over, Lawful, Interrupted, ClosedLawful
  <2> QED
    BY <1>5, <2>3, <2>4, <2>6 DEF t
<1>6. CASE ~Active(s) /\ s.pending_speech # << >>
  <2>1. ClosedLawful(next)
    BY <1>3, <1>6, SameLog DEF Lawful, ClosedLawful
  <2>2. t = drop_pending(next, reason)
    BY <1>2, <1>6
  <2> HIDE DEF t
  <2>3. /\ t \in Segmenter(F) /\ LogLawful(t) /\ ClosedLawful(t)
        /\ OneClosed(next, t, next.pending_speech)
        /\ t.pre_roll = next.pre_roll /\ t.pending_speech = << >>
    BY <1>3, <1>4, <2>1, <2>2, DropLawful
  <2>4. OneClosed(s, t, s.pending_speech)
    BY <1>3, <1>4, <2>3, ClosedAfter
  <2>5. Lawful(t) /\ Interrupted(s, t)
    BY <1>3, <1>6, <2>3, <2>4 DEF Lawful, Interrupted, ClosedLawful
  <2> QED
    BY <1>6, <2>3, <2>4, <2>5 DEF t
<1>7. CASE ~Active(s) /\ s.pending_speech = << >>
  <2>1. t = s
    BY <1>2, <1>7
  <2>2. NoneClosed(s, s)
    BY Fields DEF NoneClosed, Prolongs
  <2>3. Interrupted(s, s)
    BY <1>7, <2>2 DEF Interrupted, Lawful
  <2> QED
    BY <2>1, <2>3
<1> QED
  BY <1>5, <1>6, <1>7
LEMMA BoundaryInterrupts ==
  ASSUME NEW F, NEW s \in Segmenter(F), Lawful(s), NEW f \in F, ~f.speech
  PROVE  LET t == segment_end(s, f) IN
         /\ t \in Segmenter(F) /\ Lawful(t) /\ Interrupted(s, t)
         /\ \/ s.pending_speech = << >> /\ ~Active(s)
            \/ OneClosed(s, t, IF Active(s) THEN s.active.frames ELSE s.pending_speech)
<1> DEFINE r == "AuthoritativeBoundary"
           v == CASE Active(s) -> finish_segment(s, r)
                  [] ~Active(s) /\ s.pending_speech # << >> -> drop_pending(s, r)
                  [] OTHER -> s
           z == <<f>>
           all == v.pre_roll \o z
           q == LastN(all, pre_roll_frames)
           t == [v EXCEPT !.pre_roll = q]
<1>1. segment_end(s, f) = t
  BY DEF segment_end, push_pre_roll
<1>2. r \in Reason /\ r # "Silence" /\ z \in Seq(F) /\ SpeechOf(z) = {}
  <2>1. z \in Seq(F) /\ DOMAIN z = {1} /\ z[1] = f
    OBVIOUS
  <2>2. r \in Reason /\ r # "Silence"
    BY DEF Reason
  <2> HIDE DEF z, r
  <2> QED
    BY <2>1, <2>2, SpeechMember
<1> HIDE DEF r, z
<1>3. /\ v \in Segmenter(F) /\ Interrupted(s, v)
      /\ \/ s.pending_speech = << >> /\ ~Active(s)
         \/ OneClosed(s, v, IF Active(s) THEN s.active.frames ELSE s.pending_speech)
  <2>1. CASE Active(s)
    <3>1. v = finish_segment(s, r) /\ LogLawful(s) /\ OpenLawful(s)
      BY <2>1 DEF Lawful
    <3> HIDE DEF v
    <3>2. v \in Segmenter(F) /\ Over(s, v, s.active.frames)
      BY <1>2, <3>1, FinishLawful
    <3>3. SpeechOf(v.pre_roll) = {}
      <4>1. Silent(v.pre_roll) /\ v.pre_roll \in Seq(F)
        BY <3>2, Fields DEF Over
      <4> QED
        BY <4>1, SpeechFacts
    <3> QED
      BY <2>1, <3>2, <3>3 DEF Over, Interrupted
  <2>2. CASE ~Active(s) /\ s.pending_speech # << >>
    <3>1. v = drop_pending(s, r) /\ LogLawful(s) /\ ClosedLawful(s)
      BY <2>2 DEF Lawful
    <3> HIDE DEF v
    <3>2. /\ v \in Segmenter(F) /\ LogLawful(v) /\ ClosedLawful(v)
          /\ OneClosed(s, v, s.pending_speech)
          /\ v.pre_roll = s.pre_roll /\ v.pending_speech = << >>
      BY <1>2, <3>1, DropLawful
    <3> QED
      BY <2>2, <3>2 DEF Interrupted
  <2>3. CASE ~Active(s) /\ s.pending_speech = << >>
    <3>1. v = s /\ LogLawful(s) /\ ClosedLawful(s)
      BY <2>3 DEF Lawful
    <3> HIDE DEF v
    <3>2. NoneClosed(s, s)
      BY Fields DEF NoneClosed, Prolongs
    <3> QED
      BY <2>3, <3>1, <3>2 DEF Interrupted
  <2> QED
    BY <2>1, <2>2, <2>3, Zenon
<1> HIDE DEF v
<1>4. v.pre_roll \in Seq(F) /\ LogLawful(v) /\ ClosedLawful(v) /\ v.pending_speech = << >>
      /\ ~Active(v)
  BY <1>3, Fields DEF Interrupted, ClosedLawful
<1>5. /\ all \in Seq(F) /\ SpeechOf(all) = SpeechOf(v.pre_roll)
  <2>1. \A a, b \in Seq(F) : a \o b \in Seq(F) /\ SpeechOf(a \o b) = SpeechOf(a) \cup SpeechOf(b)
    <3> SUFFICES ASSUME NEW a \in Seq(F), NEW b \in Seq(F)
                 PROVE  a \o b \in Seq(F) /\ SpeechOf(a \o b) = SpeechOf(a) \cup SpeechOf(b)
      OBVIOUS
    <3>1. a \o b \in Seq(F)
      BY ConcatProperties
    <3>2. SpeechOf(a \o b) = SpeechOf(a) \cup SpeechOf(b)
      BY SpeechFacts
    <3> QED
      BY <3>1, <3>2
  <2>2. all \in Seq(F) /\ SpeechOf(all) = SpeechOf(v.pre_roll) \cup SpeechOf(z)
    BY <1>2, <1>4, <2>1, Zenon
  <2> HIDE DEF all
  <2> QED
    BY <1>2, <2>2
<1> HIDE DEF all
<1>6. q \in Seq(F) /\ Len(q) <= pre_roll_frames /\ EndsWith(all, q)
  BY <1>5, LastNFacts, Thresholds
<1> HIDE DEF q
<1>7. SpeechOf(q) \subseteq SpeechOf(s.pre_roll)
  <2>1. SpeechOf(q) \subseteq SpeechOf(all)
    BY <1>5, <1>6, SpeechFacts
  <2> QED
    BY <1>3, <1>5, <2>1 DEF Interrupted
<1>8. /\ t \in Segmenter(F) /\ t.pre_roll = q /\ t.pending_speech = v.pending_speech
      /\ t.log = v.log /\ t.active = v.active /\ t.next_segment = v.next_segment
      /\ t.finalized = v.finalized /\ t.dropped = v.dropped
  BY <1>3, <1>6 DEF Segmenter
<1> HIDE DEF t
<1>9. /\ LogLawful(t) /\ ClosedLawful(t) /\ (Active(t) <=> Active(v))
      /\ NoneClosed(s, v) => NoneClosed(s, t)
      /\ \A frames : OneClosed(s, v, frames) => OneClosed(s, t, frames)
  <2>1. Len(v.pending_speech) < speech_start_frames
    BY <1>4 DEF ClosedLawful
  <2> QED
    BY <1>3, <1>4, <1>6, <1>8, <2>1, SameLog
<1>10. Interrupted(s, t)
  BY <1>3, <1>4, <1>7, <1>8, <1>9 DEF Interrupted
<1>11. Lawful(t)
  BY <1>4, <1>9 DEF Lawful
<1> QED
  <2>1. \/ s.pending_speech = << >> /\ ~Active(s)
        \/ OneClosed(s, t, IF Active(s) THEN s.active.frames ELSE s.pending_speech)
    BY <1>3, <1>9
  <2>2. t \in Segmenter(F) /\ Lawful(t) /\ Interrupted(s, t)
    BY <1>8, <1>10, <1>11
  <2> QED
    BY <1>1, <2>1, <2>2, Zenon
-----------------------------------------------------------------------------
\* Where speech is after a call.

\* The speech that is in a segment, reported or open.
Safe(s) == Told(s) \cup (IF Active(s) THEN SpeechOf(s.active.frames) ELSE {})

\* Before a time, every speech frame is in one place.
Once(s, time) ==
  /\ Apart(s)
  /\ Told(s) \cap SpeechOf(Buffered(s)) = {}
  /\ ~Active(s) => SpeechOf(s.pre_roll) \cap SpeechOf(s.pending_speech) = {}
  /\ \A x \in Told(s) \cup SpeechOf(Buffered(s)) : x \in Nat /\ x < time

LEMMA BufferedFacts ==
  ASSUME NEW F, NEW s \in Segmenter(F)
  PROVE  /\ Buffered(s) \in Seq(F)
         /\ Active(s) => Buffered(s) = s.active.frames
         /\ ~Active(s) =>
              SpeechOf(Buffered(s)) = SpeechOf(s.pre_roll) \cup SpeechOf(s.pending_speech)
<1>1. s.pre_roll \in Seq(F) /\ s.pending_speech \in Seq(F)
  BY Fields
<1>2. CASE Active(s)
  BY <1>2, ActiveFacts DEF Buffered, OpenSegment
<1>3. CASE ~Active(s)
  <2>1. Buffered(s) = s.pre_roll \o s.pending_speech
    BY <1>3 DEF Buffered
  <2>2. \A a, b \in Seq(F) : a \o b \in Seq(F)
    BY ConcatProperties
  <2>3. \A a, b \in Seq(F) : SpeechOf(a \o b) = SpeechOf(a) \cup SpeechOf(b)
    BY SpeechFacts
  <2> QED
    BY <1>1, <1>3, <2>1, <2>2, <2>3, Zenon
<1> QED
  BY <1>2, <1>3

\* What a frame does to the speech there is.
LEMMA FrameSpeech ==
  ASSUME NEW F, NEW s \in Segmenter(F), NEW t \in Segmenter(F), NEW f \in F,
         Lawful(s), Lawful(t), Handled(s, t, f)
  PROVE  LET new == IF f.speech THEN {f.at} ELSE {} IN
         /\ \/ /\ Told(t) = Told(s) /\ (Apart(s) => Apart(t))
               /\ SpeechOf(Buffered(t)) \subseteq SpeechOf(Buffered(s)) \cup new
               /\ \/ Active(t) /\ SpeechOf(Buffered(t)) = SpeechOf(Buffered(s)) \cup new
                  \/ ~Active(s) /\ ~Active(t) /\ t.pending_speech = << >>
                  \/ /\ ~Active(s) /\ ~Active(t) /\ t.pre_roll = s.pre_roll
                     /\ SpeechOf(t.pending_speech) = SpeechOf(s.pending_speech) \cup new
            \/ /\ Told(t) = Told(s) \cup SpeechOf(Buffered(s)) \cup new
               /\ Apart(s) /\ Told(s) \cap (SpeechOf(Buffered(s)) \cup new) = {} => Apart(t)
               /\ SpeechOf(Buffered(t)) = {} /\ ~Active(t) /\ t.pending_speech = << >>
         /\ f.speech => f.at \in Safe(t) \/ t.pending_speech = Append(s.pending_speech, f)
         /\ ~f.speech => t.pending_speech = << >>
         /\ t.pending_speech \in {<< >>, Append(s.pending_speech, f)}
<1> DEFINE new == IF f.speech THEN {f.at} ELSE {}
           frames == Append(Buffered(s), f)
<1>1. Buffered(s) \in Seq(F) /\ frames \in Seq(F) /\ SpeechOf(frames) = SpeechOf(Buffered(s)) \cup new
  <2>1. Buffered(s) \in Seq(F)
    BY BufferedFacts
  <2>2. \A q \in Seq(F) : Append(q, f) \in Seq(F) /\ SpeechOf(Append(q, f)) = SpeechOf(q) \cup new
    BY SpeechFacts, AppendProperties
  <2> QED
    BY <2>1, <2>2, Zenon
<1>2. s.pending_speech \in Seq(F) /\ t.pre_roll \in Seq(F) /\ t.pending_speech \in Seq(F)
  BY Fields
<1>3. /\ Active(t) => Buffered(t) = t.active.frames
      /\ ~Active(t) =>
           SpeechOf(Buffered(t)) = SpeechOf(t.pre_roll) \cup SpeechOf(t.pending_speech)
      /\ ~Active(s) =>
           SpeechOf(Buffered(s)) = SpeechOf(s.pre_roll) \cup SpeechOf(s.pending_speech)
      /\ SpeechOf(<< >>) = {}
  BY BufferedFacts, SpeechMember
<1> HIDE DEF frames
<1>4. CASE NoneClosed(s, t) /\ Active(t) /\ t.active.frames = frames
  <2>2. SpeechOf(Buffered(t)) = SpeechOf(Buffered(s)) \cup new
    BY <1>1, <1>3, <1>4, Zenon
  <2>3. t.pending_speech = << >>
    BY <1>4 DEF Lawful, OpenLawful
  <2>4. f.speech => f.at \in Safe(t)
    <3>1. SpeechOf(t.active.frames) = SpeechOf(Buffered(s)) \cup new
      BY <1>1, <1>4, Zenon
    <3> QED
      BY <1>4, <3>1 DEF Safe
  <2>5. Told(t) = Told(s) /\ (Apart(s) => Apart(t))
    BY <1>4, NoneClosedFacts
  <2> QED
    BY <1>4, <2>2, <2>3, <2>4, <2>5
<1>5. CASE Over(s, t, frames)
  <2>1. OneClosed(s, t, frames) /\ ~Active(t) /\ t.pending_speech = << >> /\ Silent(t.pre_roll)
    BY <1>5 DEF Over, ClosedLawful
  <2>2. /\ Told(t) = Told(s) \cup SpeechOf(frames)
        /\ Apart(s) /\ Told(s) \cap SpeechOf(frames) = {} => Apart(t)
    BY <2>1, OneClosedFacts
  <2>3. SpeechOf(t.pre_roll) = {}
    BY <1>2, <2>1, SpeechFacts
  <2>4. SpeechOf(Buffered(t)) = {}
    BY <1>3, <2>1, <2>3
  <2>5. f.speech => f.at \in Safe(t)
    BY <1>1, <2>2 DEF Safe
  <2>6. /\ Told(t) = Told(s) \cup SpeechOf(Buffered(s)) \cup new
        /\ Apart(s) /\ Told(s) \cap (SpeechOf(Buffered(s)) \cup new) = {} => Apart(t)
    <3> HIDE DEF new
    <3> QED
      BY <1>1, <2>2
  <2> QED
    BY <2>1, <2>4, <2>5, <2>6
<1>6. CASE /\ NoneClosed(s, t) /\ ~Active(s) /\ ~Active(t) /\ f.speech
           /\ t.pre_roll = s.pre_roll /\ t.pending_speech = Append(s.pending_speech, f)
  <2>1. Told(t) = Told(s) /\ (Apart(s) => Apart(t))
    BY <1>6, NoneClosedFacts
  <2>2. SpeechOf(t.pending_speech) = SpeechOf(s.pending_speech) \cup new
    <3>1. \A q \in Seq(F) : SpeechOf(Append(q, f)) = SpeechOf(q) \cup new
      BY SpeechFacts
    <3> QED
      BY <1>2, <1>6, <3>1, Zenon
  <2>3. SpeechOf(Buffered(t)) = SpeechOf(Buffered(s)) \cup new
    BY <1>3, <1>6, <2>2
  <2> QED
    BY <1>6, <2>1, <2>2, <2>3
<1>7. CASE /\ NoneClosed(s, t) /\ ~Active(s) /\ ~Active(t) /\ ~f.speech
           /\ t.pending_speech = << >> /\ EndsWith(frames, t.pre_roll)
  <2>1. Told(t) = Told(s) /\ (Apart(s) => Apart(t))
    BY <1>7, NoneClosedFacts
  <2>2. SpeechOf(t.pre_roll) \subseteq SpeechOf(frames)
    BY <1>1, <1>2, <1>7, SpeechFacts
  <2>3. SpeechOf(Buffered(t)) \subseteq SpeechOf(Buffered(s)) \cup new
    BY <1>1, <1>3, <1>7, <2>2
  <2> QED
    BY <1>7, <2>1, <2>3
<1> QED
  BY <1>4, <1>5, <1>6, <1>7 DEF Handled, frames
\* No speech that is safe gets lost.
LEMMA FrameSafe ==
  ASSUME NEW F, NEW s \in Segmenter(F), NEW t \in Segmenter(F), NEW f \in F,
         Lawful(s), Handled(s, t, f)
  PROVE  Safe(s) \subseteq Safe(t)
<1> DEFINE frames == Append(Buffered(s), f)
<1>1. Buffered(s) \in Seq(F) /\ (Active(s) => Buffered(s) = s.active.frames)
  BY BufferedFacts
<1>2. SpeechOf(Buffered(s)) \subseteq SpeechOf(frames)
  BY <1>1, SpeechFacts
<1>3. Active(s) => SpeechOf(s.active.frames) \subseteq SpeechOf(frames)
  BY <1>1, <1>2
<1> HIDE DEF frames
<1>4. CASE NoneClosed(s, t) /\ Active(t) /\ t.active.frames = frames
  <2>1. Told(t) = Told(s)
    BY <1>4, NoneClosedFacts
  <2> QED
    BY <1>3, <1>4, <2>1 DEF Safe
<1>5. CASE OneClosed(s, t, frames)
  <2>1. Told(t) = Told(s) \cup SpeechOf(frames)
    BY <1>5, OneClosedFacts
  <2> QED
    BY <1>3, <2>1 DEF Safe
<1>6. CASE NoneClosed(s, t) /\ ~Active(s)
  <2>1. Told(t) = Told(s)
    BY <1>6, NoneClosedFacts
  <2> QED
    BY <1>6, <2>1 DEF Safe
<1> QED
  BY <1>4, <1>5, <1>6 DEF Handled, Over, frames

LEMMA OnceAfterFrame ==
  ASSUME NEW F, NEW s \in Segmenter(F), NEW t \in Segmenter(F), NEW f \in F, NEW time \in Nat,
         Lawful(s), Lawful(t), Handled(s, t, f), Once(s, time), f.at = time
  PROVE  Once(t, time + 1)
<1> DEFINE new == IF f.speech THEN {f.at} ELSE {}
           B == SpeechOf(Buffered(s))
<1>1. /\ \/ /\ Told(t) = Told(s) /\ (Apart(s) => Apart(t))
            /\ SpeechOf(Buffered(t)) \subseteq B \cup new
            /\ \/ Active(t) /\ SpeechOf(Buffered(t)) = B \cup new
               \/ ~Active(s) /\ ~Active(t) /\ t.pending_speech = << >>
               \/ /\ ~Active(s) /\ ~Active(t) /\ t.pre_roll = s.pre_roll
                  /\ SpeechOf(t.pending_speech) = SpeechOf(s.pending_speech) \cup new
         \/ /\ Told(t) = Told(s) \cup B \cup new
            /\ Apart(s) /\ Told(s) \cap (B \cup new) = {} => Apart(t)
            /\ SpeechOf(Buffered(t)) = {} /\ ~Active(t) /\ t.pending_speech = << >>
  BY FrameSpeech
<1>2. /\ Apart(s) /\ Told(s) \cap B = {}
      /\ ~Active(s) => SpeechOf(s.pre_roll) \cap SpeechOf(s.pending_speech) = {}
      /\ \A x \in Told(s) \cup B : x \in Nat /\ x < time
  BY DEF Once
<1>3. /\ \A x \in new : x = time
      /\ \A x \in Told(s) \cup B \cup new : x \in Nat /\ x < time + 1
      /\ Told(s) \cap new = {} /\ B \cap new = {}
  BY <1>2
<1>4. ~Active(s) => SpeechOf(s.pre_roll) \subseteq B
  BY BufferedFacts
<1>5. SpeechOf(<< >>) = {}
  BY SpeechMember
<1> HIDE DEF new, B
<1>6. Apart(t) /\ Told(t) \cap SpeechOf(Buffered(t)) = {}
  BY <1>1, <1>2, <1>3
<1>7. ~Active(t) => SpeechOf(t.pre_roll) \cap SpeechOf(t.pending_speech) = {}
  BY <1>1, <1>2, <1>3, <1>4, <1>5
<1>8. Told(t) \cup SpeechOf(Buffered(t)) \subseteq Told(s) \cup B \cup new
  BY <1>1
<1> QED
  BY <1>3, <1>6, <1>7, <1>8 DEF Once

LEMMA InterruptSpeech ==
  ASSUME NEW F, NEW s \in Segmenter(F), NEW t \in Segmenter(F), Lawful(s), Interrupted(s, t)
  PROVE  /\ Safe(s) \subseteq Safe(t)
         /\ \A time, later \in Nat : time <= later /\ Once(s, time) => Once(t, later)
         /\ OneClosed(s, t, IF Active(s) THEN s.active.frames ELSE s.pending_speech)
              => SpeechOf(s.pending_speech) \subseteq Safe(t)
<1> DEFINE B == SpeechOf(Buffered(s))
           q == IF Active(s) THEN s.active.frames ELSE s.pending_speech
<1>1. /\ ~Active(t) /\ t.pending_speech = << >>
      /\ SpeechOf(t.pre_roll) \subseteq SpeechOf(s.pre_roll)
      /\ (~Active(s) /\ NoneClosed(s, t)) \/ OneClosed(s, t, q)
  BY DEF Interrupted, ClosedLawful
<1>2. /\ ~Active(s) => B = SpeechOf(s.pre_roll) \cup SpeechOf(s.pending_speech)
      /\ Active(s) => /\ B = SpeechOf(s.active.frames) /\ SpeechOf(s.pre_roll) = {}
                      /\ SpeechOf(s.pending_speech) = {}
      /\ SpeechOf(Buffered(t)) = SpeechOf(t.pre_roll)
  <2>1. SpeechOf(<< >>) = {}
    BY SpeechMember
  <2>2. Active(s) => s.pre_roll = << >> /\ s.pending_speech = << >>
    BY DEF Lawful, OpenLawful
  <2>3. SpeechOf(Buffered(t)) = SpeechOf(t.pre_roll) \cup SpeechOf(t.pending_speech)
    BY <1>1, BufferedFacts
  <2> QED
    BY <1>1, <2>1, <2>2, <2>3, BufferedFacts
<1>3. SpeechOf(q) \subseteq B /\ (Active(s) => SpeechOf(q) = B)
  BY <1>2
<1>6. ASSUME OneClosed(s, t, q) PROVE SpeechOf(s.pending_speech) \subseteq Safe(t)
  <2>1. SpeechOf(s.pending_speech) \subseteq SpeechOf(q)
    BY <1>2
  <2> HIDE DEF q
  <2>2. Told(t) = Told(s) \cup SpeechOf(q)
    BY <1>6, OneClosedFacts
  <2> QED
    BY <2>1, <2>2 DEF Safe
<1>4. CASE ~Active(s) /\ NoneClosed(s, t)
  <2>1. Told(t) = Told(s) /\ (Apart(s) => Apart(t))
    BY <1>4, NoneClosedFacts
  <2>2. Safe(s) \subseteq Safe(t)
    BY <1>4, <2>1 DEF Safe
  <2>3. ASSUME NEW time \in Nat, NEW later \in Nat, time <= later, Once(s, time)
        PROVE  Once(t, later)
    <3>1. /\ Apart(s) /\ Told(s) \cap B = {}
          /\ \A x \in Told(s) \cup B : x \in Nat /\ x < time
      BY <2>3 DEF Once
    <3>2. /\ SpeechOf(Buffered(t)) \subseteq B
          /\ SpeechOf(t.pre_roll) \cap SpeechOf(t.pending_speech) = {}
      BY <1>1, <1>2, <1>4, SpeechMember
    <3> HIDE DEF B
    <3>3. \A x \in Told(t) \cup SpeechOf(Buffered(t)) : x \in Nat /\ x < later
      BY <2>1, <2>3, <3>1, <3>2
    <3> QED
      BY <2>1, <3>1, <3>2, <3>3 DEF Once
  <2> QED
    BY <1>6, <2>2, <2>3 DEF q
<1>5. CASE OneClosed(s, t, q)
  <2> HIDE DEF q
  <2>1. /\ Told(t) = Told(s) \cup SpeechOf(q)
        /\ Apart(s) /\ Told(s) \cap SpeechOf(q) = {} => Apart(t)
    BY <1>5, OneClosedFacts
  <2>2. Safe(s) \subseteq Safe(t)
    BY <1>2, <1>3, <2>1 DEF Safe
  <2>3. ASSUME NEW time \in Nat, NEW later \in Nat, time <= later, Once(s, time)
        PROVE  Once(t, later)
    <3>1. /\ Apart(s) /\ Told(s) \cap B = {}
          /\ ~Active(s) => SpeechOf(s.pre_roll) \cap SpeechOf(s.pending_speech) = {}
          /\ \A x \in Told(s) \cup B : x \in Nat /\ x < time
      BY <2>3 DEF Once
    <3>2. /\ SpeechOf(Buffered(t)) \subseteq B
          /\ SpeechOf(t.pre_roll) \cap SpeechOf(t.pending_speech) = {}
      BY <1>1, <1>2, SpeechMember
    <3>3. SpeechOf(Buffered(t)) \cap SpeechOf(q) = {}
      BY <1>1, <1>2, <3>1 DEF q
    <3> HIDE DEF B
    <3>4. \A x \in Told(t) \cup SpeechOf(Buffered(t)) : x \in Nat /\ x < later
      BY <1>3, <2>1, <2>3, <3>1, <3>2
    <3> QED
      BY <1>3, <2>1, <3>1, <3>2, <3>3, <3>4 DEF Once
  <2> QED
    BY <1>6, <2>2, <2>3 DEF q
<1> QED
  BY <1>1, <1>4, <1>5, <1>6
\* The runs of speech at the end of what was heard are waiting, or safe in part, and
\* every one that is long enough to open a segment is safe in part.
RunsSafe(s, said) ==
  /\ s.pending_speech # << >> =>
       said # << >> /\ s.pending_speech[Len(s.pending_speech)] = said[Len(said)]
  /\ \A m \in 1 .. Len(said) :
       (\A k \in Len(said) - m + 1 .. Len(said) : said[k].speech) =>
         \/ Len(s.pending_speech) >= m
         \/ \E k \in Len(said) - m + 1 .. Len(said) : said[k].at \in Safe(s)
  /\ \A i \in 1 .. Len(said) - speech_start_frames + 1 :
       (\A k \in i .. i + speech_start_frames - 1 : said[k].speech) =>
         \E k \in i .. i + speech_start_frames - 1 : said[k].at \in Safe(s)

LEMMA RunsAfterFrame ==
  ASSUME NEW F, NEW s \in Segmenter(F), NEW t \in Segmenter(F), Lawful(t),
         NEW G, NEW said \in Seq(G), NEW g \in G, RunsSafe(s, said), Safe(s) \subseteq Safe(t),
         \/ t.pending_speech = << >>
         \/ g \in F /\ g.speech /\ t.pending_speech = Append(s.pending_speech, g),
         \/ ~g.speech
         \/ g.at \in Safe(t)
         \/ g \in F /\ t.pending_speech = Append(s.pending_speech, g)
  PROVE  RunsSafe(t, Append(said, g))
<1> DEFINE h == Append(said, g)
           n == Len(said)
           S == speech_start_frames
           l == Len(s.pending_speech)
<1>1. /\ h \in Seq(G) /\ Len(h) = n + 1 /\ h[n + 1] = g /\ \A k \in 1 .. n : h[k] = said[k]
      /\ n \in Nat
  BY AppendProperties, LenProperties
<1>2. S \in Nat \ {0} /\ l \in Nat /\ s.pending_speech \in Seq(F) /\ Len(t.pending_speech) \in Nat
  BY Thresholds, Fields, LenProperties
<1>3. Len(t.pending_speech) < S
  BY Thresholds DEF Lawful, OpenLawful, ClosedLawful
<1>4. ASSUME g \in F, t.pending_speech = Append(s.pending_speech, g)
      PROVE  /\ Len(t.pending_speech) = l + 1
             /\ t.pending_speech[Len(t.pending_speech)] = g
  BY <1>2, <1>4, AppendProperties
<1> HIDE DEF h, n, S, l
<1>5. t.pending_speech # << >> =>
        h # << >> /\ t.pending_speech[Len(t.pending_speech)] = h[Len(h)]
  BY <1>1, <1>4
<1>6. ASSUME NEW m \in 1 .. Len(h), \A k \in Len(h) - m + 1 .. Len(h) : h[k].speech
      PROVE  \/ Len(t.pending_speech) >= m
             \/ \E k \in Len(h) - m + 1 .. Len(h) : h[k].at \in Safe(t)
  <2>1. n + 1 \in Len(h) - m + 1 .. Len(h)
    BY <1>1
  <2>2. g.speech
    BY <1>1, <1>6, <2>1
  <2>3. CASE g.at \in Safe(t)
    BY <1>1, <2>1, <2>3
  <2>4. CASE g \in F /\ t.pending_speech = Append(s.pending_speech, g)
    <3>1. CASE m = 1
      BY <1>2, <1>4, <2>4, <3>1
    <3>2. CASE m # 1
      <4>1. m - 1 \in 1 .. n /\ n - (m - 1) + 1 = Len(h) - m + 1
        BY <1>1, <3>2
      <4>2. \A k \in n - (m - 1) + 1 .. n : k \in Len(h) - m + 1 .. Len(h) /\ k \in 1 .. n
        BY <1>1, <3>2
      <4>3. \A k \in n - (m - 1) + 1 .. n : said[k].speech
        BY <1>1, <1>6, <4>2
      <4>4. \/ l >= m - 1
            \/ \E k \in n - (m - 1) + 1 .. n : said[k].at \in Safe(s)
        BY <4>1, <4>3 DEF RunsSafe, n, l
      <4>5. CASE l >= m - 1
        BY <1>2, <1>4, <2>4, <4>5
      <4>6. CASE \E k \in n - (m - 1) + 1 .. n : said[k].at \in Safe(s)
        BY <1>1, <4>2, <4>6
      <4> QED
        BY <4>4, <4>5, <4>6
    <3> QED
      BY <3>1, <3>2
  <2> QED
    BY <2>2, <2>3, <2>4
<1>7. ASSUME NEW i \in 1 .. Len(h) - S + 1, \A k \in i .. i + S - 1 : h[k].speech
      PROVE  \E k \in i .. i + S - 1 : h[k].at \in Safe(t)
  <2>1. CASE i \in 1 .. n - S + 1
    <3>1. \A k \in i .. i + S - 1 : k \in 1 .. n
      BY <1>1, <1>2, <2>1
    <3>2. \A k \in i .. i + S - 1 : said[k].speech
      BY <1>1, <1>7, <3>1
    <3>3. \E k \in i .. i + S - 1 : said[k].at \in Safe(s)
      BY <2>1, <3>2 DEF RunsSafe, n, S
    <3> QED
      BY <1>1, <3>1, <3>3
  <2>2. CASE ~(i \in 1 .. n - S + 1)
    <3>1. i = Len(h) - S + 1 /\ i + S - 1 = Len(h) /\ S \in 1 .. Len(h)
      BY <1>1, <1>2, <2>2
    <3>2. \A k \in Len(h) - S + 1 .. Len(h) : h[k].speech
      BY <1>7, <3>1
    <3>3. ~(Len(t.pending_speech) >= S)
      BY <1>2, <1>3 DEF S
    <3>4. \E k \in Len(h) - S + 1 .. Len(h) : h[k].at \in Safe(t)
      BY <1>6, <3>1, <3>2, <3>3
    <3> QED
      BY <3>1, <3>4
  <2> QED
    BY <2>1, <2>2
<1> QED
  BY <1>5, <1>6, <1>7 DEF RunsSafe, S, h

LEMMA RunsAfterFlush ==
  ASSUME NEW F, NEW s \in Segmenter(F), NEW t \in Segmenter(F), NEW G, NEW said \in Seq(G),
         RunsSafe(s, said), Safe(s) \subseteq Safe(t), t.pending_speech = << >>,
         SpeechOf(s.pending_speech) \subseteq Safe(t)
  PROVE  RunsSafe(t, said)
<1> DEFINE n == Len(said)
           p == s.pending_speech
<1>1. n \in Nat /\ p \in Seq(F) /\ Len(p) \in Nat /\ DOMAIN p = 1 .. Len(p)
  BY Fields, LenProperties
<1>2. p # << >> => Len(p) \in DOMAIN p
  BY <1>1, EmptySeq
<1> HIDE DEF p
<1>3. ASSUME NEW m \in 1 .. n, \A k \in n - m + 1 .. n : said[k].speech
      PROVE  \E k \in n - m + 1 .. n : said[k].at \in Safe(t)
  <2>1. \/ Len(p) >= m
        \/ \E k \in n - m + 1 .. n : said[k].at \in Safe(s)
    BY <1>3 DEF RunsSafe, p
  <2>2. CASE Len(p) >= m
    <3>1. Len(p) \in DOMAIN p /\ p # << >> /\ n \in n - m + 1 .. n
      BY <1>1, <2>2
    <3>2. p[Len(p)] = said[n] /\ said[n].speech
      BY <1>3, <3>1 DEF RunsSafe, p
    <3>3. said[n].at \in SpeechOf(p)
      BY <3>1, <3>2, SpeechMember
    <3> QED
      BY <3>1, <3>3 DEF p
  <2> QED
    BY <2>1, <2>2
<1>4. \A i \in 1 .. n - speech_start_frames + 1 :
        (\A k \in i .. i + speech_start_frames - 1 : said[k].speech) =>
          \E k \in i .. i + speech_start_frames - 1 : said[k].at \in Safe(t)
  BY DEF RunsSafe
<1> QED
  BY <1>3, <1>4 DEF RunsSafe
-----------------------------------------------------------------------------
\* Frames in a row.

Chain(R, q) == \A k \in 1 .. Len(q) - 1 : <<q[k], q[k + 1]>> \in R
Chains(F, R) == {q \in Seq(F) : Chain(R, q)}

LEMMA ChainFacts ==
  ASSUME NEW F, NEW R, NEW q \in Seq(F), Chain(R, q)
  PROVE  /\ \A f \in F : (q # << >> => <<q[Len(q)], f>> \in R) => Chain(R, Append(q, f))
         /\ \A p \in Seq(F) : EndsWith(q, p) =>
              Chain(R, p) /\ (p # << >> => p[Len(p)] = q[Len(q)])
<1>1. Len(q) \in Nat
  BY LenProperties
<1>2. ASSUME NEW f \in F, q # << >> => <<q[Len(q)], f>> \in R
      PROVE  Chain(R, Append(q, f))
  <2> DEFINE r == Append(q, f)
  <2>1. Len(r) = Len(q) + 1 /\ r[Len(q) + 1] = f /\ \A i \in 1 .. Len(q) : r[i] = q[i]
    BY AppendProperties
  <2> HIDE DEF r
  <2>2. ASSUME NEW k \in 1 .. Len(r) - 1 PROVE <<r[k], r[k + 1]>> \in R
    <3>1. CASE k = Len(q)
      <4>1. q # << >> /\ r[k] = q[Len(q)] /\ r[k + 1] = f
        BY <1>1, <2>1, <3>1
      <4> QED
        BY <1>2, <4>1
    <3>2. CASE k # Len(q)
      <4>1. k \in 1 .. Len(q) - 1 /\ r[k] = q[k] /\ r[k + 1] = q[k + 1]
        BY <1>1, <2>1, <3>2
      <4> QED
        BY <4>1 DEF Chain
    <3> QED
      BY <3>1, <3>2
  <2> QED
    BY <2>2 DEF Chain, r
<1>3. ASSUME NEW p \in Seq(F), EndsWith(q, p)
      PROVE  Chain(R, p) /\ (p # << >> => p[Len(p)] = q[Len(q)])
  <2>1. /\ Len(p) \in Nat /\ Len(p) <= Len(q)
        /\ \A i \in 1 .. Len(p) : p[i] = q[Len(q) - Len(p) + i]
    BY <1>3, LenProperties DEF EndsWith
  <2>2. ASSUME NEW k \in 1 .. Len(p) - 1 PROVE <<p[k], p[k + 1]>> \in R
    <3> DEFINE i == Len(q) - Len(p) + k
    <3>1. /\ i \in 1 .. Len(q) - 1 /\ i + 1 = Len(q) - Len(p) + (k + 1)
          /\ k \in 1 .. Len(p) /\ k + 1 \in 1 .. Len(p)
      BY <1>1, <2>1
    <3>2. p[k] = q[i] /\ p[k + 1] = q[i + 1]
      BY <2>1, <3>1
    <3> HIDE DEF i
    <3> QED
      BY <3>1, <3>2 DEF Chain
  <2>3. ASSUME p # << >> PROVE p[Len(p)] = q[Len(q)]
    <3>1. Len(p) \in 1 .. Len(p) /\ Len(q) - Len(p) + Len(p) = Len(q)
      BY <1>1, <2>1, <2>3, EmptySeq
    <3> QED
      BY <2>1, <3>1
  <2> QED
    BY <2>2, <2>3 DEF Chain
<1> QED
  BY <1>2, <1>3

\* A part of a sequence at its end.
LEMMA ConcatEnds ==
  ASSUME NEW F, NEW q \in Seq(F), NEW p \in Seq(F)
  PROVE  EndsWith(q \o p, p)
<1> DEFINE r == q \o p
<1>1. /\ r \in Seq(F) /\ Len(r) = Len(q) + Len(p)
      /\ \A i \in 1 .. Len(q) + Len(p) : r[i] = IF i <= Len(q) THEN q[i] ELSE p[i - Len(q)]
  BY ConcatProperties
<1>2. Len(q) \in Nat /\ Len(p) \in Nat
  BY LenProperties
<1> HIDE DEF r
<1>3. ASSUME NEW i \in 1 .. Len(p) PROVE p[i] = r[Len(r) - Len(p) + i]
  <2> DEFINE k == Len(r) - Len(p) + i
  <2>1. k \in 1 .. Len(q) + Len(p) /\ ~(k <= Len(q)) /\ k - Len(q) = i
    BY <1>1, <1>2
  <2> HIDE DEF k
  <2>2. r[k] = p[i]
    BY <1>1, <2>1
  <2> QED
    BY <2>2 DEF k
<1>4. Len(p) <= Len(r)
  BY <1>1, <1>2
<1> QED
  BY <1>3, <1>4 DEF EndsWith, r

\* Frames that come in a row are reported, and buffered, in a row.
LEMMA FrameChains ==
  ASSUME NEW F, NEW R, NEW s \in Segmenter(F), NEW t \in Segmenter(F), NEW f \in F,
         Handled(s, t, f), Reports(s, Chains(F, R)), Chain(R, Append(Buffered(s), f))
  PROVE  /\ Reports(t, Chains(F, R)) /\ Chain(R, Buffered(t))
         /\ Buffered(t) # << >> => Buffered(t)[Len(Buffered(t))] = f
<1> DEFINE frames == Append(Buffered(s), f)
<1>1. Buffered(s) \in Seq(F) /\ Buffered(t) \in Seq(F)
  BY BufferedFacts
<1>2. frames \in Seq(F) /\ frames[Len(frames)] = f
  BY <1>1, AppendProperties
<1>3. Chain(R, frames) /\ frames \in Chains(F, R)
  BY <1>2 DEF Chains
<1>4. s.pre_roll \in Seq(F) /\ s.pending_speech \in Seq(F) /\ t.pre_roll \in Seq(F)
  BY Fields
<1>5. Handled(s, t, f) /\ frames = Append(Buffered(s), f)
  OBVIOUS
<1> HIDE DEF frames
\* What is buffered ends the frames,
<1>6. EndsWith(frames, Buffered(t))
  <2>1. CASE Active(t) /\ t.active.frames = frames
    BY <1>2, <2>1 DEF EndsWith, Buffered
  <2>2. CASE ~Active(t) /\ t.pending_speech = << >> /\ EndsWith(frames, t.pre_roll)
    <3>1. Buffered(t) = t.pre_roll \o << >>
      BY <2>2, Zenon DEF Buffered
    <3>2. t.pre_roll \o << >> = t.pre_roll
      BY <1>4, ConcatEmptySeq
    <3> QED
      BY <2>2, <3>1, <3>2
  <2>3. CASE /\ ~Active(s) /\ ~Active(t) /\ t.pre_roll = s.pre_roll
             /\ t.pending_speech = Append(s.pending_speech, f)
    <3>1. Buffered(t) = s.pre_roll \o Append(s.pending_speech, f)
      BY <2>3, Zenon DEF Buffered
    <3>2. Buffered(s) = s.pre_roll \o s.pending_speech
      BY <2>3, Zenon DEF Buffered
    <3>3. \A q, p \in Seq(F) : q \o Append(p, f) = Append(q \o p, f)
      BY ConcatAppend
    <3>4. Buffered(t) = frames
      BY <1>4, <1>5, <3>1, <3>2, <3>3, Zenon
    <3> QED
      BY <1>2, <3>4 DEF EndsWith
  <2> QED
    BY <1>5, <2>1, <2>2, <2>3 DEF Handled, Over, ClosedLawful
\* and what is reported is them.
<1>7. NoneClosed(s, t) \/ OneClosed(s, t, frames)
  BY <1>5 DEF Handled, Over
<1>8. Reports(t, Chains(F, R))
  <2>1. CASE NoneClosed(s, t)
    BY <2>1, NoneClosedFacts
  <2>2. CASE OneClosed(s, t, frames)
    BY <1>3, <2>2, OneClosedFacts
  <2> QED
    BY <1>7, <2>1, <2>2
<1> QED
  BY <1>1, <1>2, <1>3, <1>6, <1>8, ChainFacts

LEMMA InterruptChains ==
  ASSUME NEW F, NEW R, NEW s \in Segmenter(F), NEW t \in Segmenter(F), Interrupted(s, t),
         Reports(s, Chains(F, R)), Chain(R, Buffered(s))
  PROVE  /\ Reports(t, Chains(F, R))
         /\ t.pre_roll = << >> => Buffered(t) = << >>
<1> DEFINE q == IF Active(s) THEN s.active.frames ELSE s.pending_speech
<1>1. Buffered(s) \in Seq(F) /\ s.pre_roll \in Seq(F) /\ s.pending_speech \in Seq(F)
  BY BufferedFacts, Fields
<1>2. q \in Chains(F, R)
  <2>1. CASE Active(s)
    BY <1>1, <2>1, BufferedFacts DEF Chains
  <2>2. CASE ~Active(s)
    <3>1. Buffered(s) = s.pre_roll \o s.pending_speech
      BY <2>2 DEF Buffered
    <3>2. \A a, b \in Seq(F) : EndsWith(a \o b, b)
      BY ConcatEnds
    <3>3. EndsWith(Buffered(s), s.pending_speech)
      BY <1>1, <3>1, <3>2, Zenon
    <3> QED
      BY <1>1, <2>2, <3>3, ChainFacts DEF Chains
  <2> QED
    BY <2>1, <2>2
<1>3. NoneClosed(s, t) \/ OneClosed(s, t, q)
  BY DEF Interrupted
<1> HIDE DEF q
<1>4. Reports(t, Chains(F, R))
  <2>1. CASE NoneClosed(s, t)
    BY <2>1, NoneClosedFacts
  <2>2. CASE OneClosed(s, t, q)
    BY <1>2, <2>2, OneClosedFacts
  <2> QED
    BY <1>3, <2>1, <2>2
<1>5. ASSUME t.pre_roll = << >> PROVE Buffered(t) = << >>
  <2>1. ~Active(t) /\ t.pending_speech = << >>
    BY DEF Interrupted, ClosedLawful
  <2>2. Buffered(t) = << >> \o << >>
    BY <1>5, <2>1 DEF Buffered
  <2>3. << >> \in Seq(F)
    OBVIOUS
  <2> QED
    BY <2>2, <2>3, ConcatEmptySeq
<1> QED
  BY <1>4, <1>5
LEMMA NewFacts ==
  ASSUME NEW F
  PROVE  LET s == NewSegmenter IN
         /\ s \in Segmenter(F) /\ Lawful(s) /\ ~Active(s) /\ Closings(s) = {}
         /\ Buffered(s) = << >> /\ s.pending_speech = << >> /\ s.pre_roll = << >>
<1> DEFINE z == << >>
           s == NewSegmenter
<1>1. /\ z \in Seq(F) /\ z \in Seq(Event(F)) /\ Len(z) = 0 /\ DOMAIN z = {}
  OBVIOUS
<1>2. z \o z = z
  BY <1>1, ConcatEmptySeq
<1>3. /\ s.next_segment = 0 /\ s.pre_roll = z /\ s.pending_speech = z /\ s.active = NoSegment
      /\ s.finalized = 0 /\ s.dropped = 0 /\ s.log = z
  BY DEF NewSegmenter
<1> HIDE DEF z
<1>4. s \in Segmenter(F)
  BY <1>1 DEF Segmenter, NewSegmenter, z
<1> HIDE DEF s
<1>5. ~Active(s) /\ Buffered(s) = z
  BY <1>2, <1>3 DEF Active, Buffered
<1>6. Closings(s) = {}
  BY <1>1, <1>3 DEF Closings
<1>7. LogLawful(s) /\ ClosedLawful(s)
  BY <1>1, <1>3, <1>5, <1>6, Thresholds DEF LogLawful, ClosedLawful, z
<1> QED
  BY <1>3, <1>4, <1>5, <1>6, <1>7 DEF Lawful, s, z

-----------------------------------------------------------------------------
\* SegmenterCalls

CallFrame == [at : Nat, speech : BOOLEAN]

\* Frames that come one after the other.
Follows == {pair \in CallFrame \X CallFrame : pair[2].at = pair[1].at + 1}

CallsTypes ==
  /\ owner \in {"pipeline", "any"} /\ now \in Nat
  /\ callee \in Segmenter(CallFrame)
  /\ heard \in Seq(CallFrame \cup {Pause})

\* A pipeline buffers the frames up to now, without a hole.
Joins ==
  owner = "pipeline" =>
    /\ Reports(callee, Chains(CallFrame, Follows)) /\ Chain(Follows, Buffered(callee))
    /\ Buffered(callee) # << >> => Buffered(callee)[Len(Buffered(callee))].at + 1 = now

CallsInv ==
  CallsTypes /\ Lawful(callee) /\ Once(callee, now) /\ RunsSafe(callee, heard) /\ Joins

LEMMA CallsInvInit == CallsInit => CallsInv
<1> SUFFICES ASSUME CallsInit PROVE CallsInv
  OBVIOUS
<1> DEFINE z == << >>
           s == callee
<1>1. /\ s \in Segmenter(CallFrame) /\ Lawful(s) /\ ~Active(s) /\ Closings(s) = {}
      /\ Buffered(s) = z /\ s.pending_speech = z /\ s.pre_roll = z
  BY NewFacts DEF CallsInit
<1>2. /\ z \in Seq(CallFrame \cup {Pause}) /\ Len(z) = 0 /\ SpeechOf(z) = {}
  BY SpeechMember
<1>3. heard = z /\ now = 0 /\ owner \in {"pipeline", "any"}
  BY DEF CallsInit
<1> HIDE DEF z
<1>4. CallsTypes
  BY <1>1, <1>2, <1>3 DEF CallsTypes
<1>5. Told(s) = {} /\ Apart(s) /\ Reports(s, Chains(CallFrame, Follows))
  BY <1>1 DEF Told, Apart, Reports
<1>6. Once(s, now)
  BY <1>1, <1>2, <1>5 DEF Once
<1>7. RunsSafe(s, heard)
  BY <1>1, <1>2, <1>3, Thresholds DEF RunsSafe, z
<1>8. Joins
  BY <1>1, <1>2, <1>5 DEF Joins, Chain
<1> QED
  BY <1>1, <1>4, <1>6, <1>7, <1>8 DEF CallsInv

\* A frame is heard.
LEMMA CallsFrame ==
  ASSUME CallsInv, NEW speech \in BOOLEAN, NEW authoritative,
         Take(NextFrame(speech), process(callee, NextFrame(speech), authoritative))
  PROVE  CallsInv'
<1> DEFINE s == callee
           f == NextFrame(speech)
           t == process(s, f, authoritative)
<1>1. f \in CallFrame /\ f.at = now /\ f.speech = speech
  BY DEF NextFrame, CallFrame, CallsInv, CallsTypes
<1>2. s \in Segmenter(CallFrame) /\ Lawful(s) /\ Once(s, now) /\ RunsSafe(s, heard)
      /\ now \in Nat /\ heard \in Seq(CallFrame \cup {Pause})
  BY DEF CallsInv, CallsTypes
<1>3. callee' = t /\ now' = now + 1 /\ heard' = Append(heard, f) /\ owner' = owner
  BY DEF Take
<1> HIDE DEF f
<1>4. t \in Segmenter(CallFrame) /\ Lawful(t) /\ Handled(s, t, f)
  BY <1>1, <1>2, ProcessHandles
<1> HIDE DEF t
<1>5. CallsTypes'
  <2>1. heard' \in Seq(CallFrame \cup {Pause}) /\ now' \in Nat
    BY <1>1, <1>2, <1>3, AppendProperties
  <2> QED
    BY <1>3, <1>4, <2>1 DEF CallsTypes, CallsInv
<1>6. Once(t, now + 1)
  BY <1>1, <1>2, <1>4, OnceAfterFrame
<1>7. Safe(s) \subseteq Safe(t)
  BY <1>1, <1>2, <1>4, FrameSafe
<1>8. RunsSafe(t, heard')
  <2>1. /\ f.speech => f.at \in Safe(t) \/ t.pending_speech = Append(s.pending_speech, f)
        /\ ~f.speech => t.pending_speech = << >>
        /\ t.pending_speech \in {<< >>, Append(s.pending_speech, f)}
    BY <1>1, <1>2, <1>4, FrameSpeech
  <2>2. \/ t.pending_speech = << >>
        \/ f \in CallFrame /\ f.speech /\ t.pending_speech = Append(s.pending_speech, f)
    BY <1>1, <2>1
  <2>3. \/ ~f.speech
        \/ f.at \in Safe(t)
        \/ f \in CallFrame /\ t.pending_speech = Append(s.pending_speech, f)
    BY <1>1, <2>1
  <2>4. f \in CallFrame \cup {Pause}
    BY <1>1
  <2> QED
    BY <1>2, <1>3, <1>4, <1>7, <2>2, <2>3, <2>4, RunsAfterFrame
<1>9. Joins'
  <2> SUFFICES ASSUME owner = "pipeline"
               PROVE  /\ Reports(t, Chains(CallFrame, Follows)) /\ Chain(Follows, Buffered(t))
                      /\ Buffered(t) # << >> => Buffered(t)[Len(Buffered(t))].at + 1 = now + 1
    BY <1>3 DEF Joins
  <2>1. /\ Reports(s, Chains(CallFrame, Follows)) /\ Chain(Follows, Buffered(s))
        /\ Buffered(s) # << >> => Buffered(s)[Len(Buffered(s))].at + 1 = now
    BY DEF CallsInv, Joins
  <2>2. Buffered(s) \in Seq(CallFrame)
    BY <1>2, BufferedFacts
  <2>3. Buffered(s) # << >> => <<Buffered(s)[Len(Buffered(s))], f>> \in Follows
    <3>1. Buffered(s) # << >> => Buffered(s)[Len(Buffered(s))] \in CallFrame
      BY <2>2, ElementOfSeq, EmptySeq, LenProperties
    <3> QED
      BY <1>1, <2>1, <3>1 DEF Follows
  <2>4. Chain(Follows, Append(Buffered(s), f))
    BY <1>1, <2>1, <2>2, <2>3, ChainFacts
  <2>5. /\ Reports(t, Chains(CallFrame, Follows)) /\ Chain(Follows, Buffered(t))
        /\ Buffered(t) # << >> => Buffered(t)[Len(Buffered(t))] = f
    BY <1>1, <1>2, <1>4, <2>1, <2>4, FrameChains
  <2> QED
    BY <1>1, <2>5
<1> QED
  BY <1>3, <1>4, <1>5, <1>6, <1>8, <1>9 DEF CallsInv
LEMMA CallsBoundary == CallsInv /\ SegmentEnd => CallsInv'
<1> SUFFICES ASSUME CallsInv, SegmentEnd PROVE CallsInv'
  OBVIOUS
<1> DEFINE s == callee
           f == NextFrame(FALSE)
           t == segment_end(s, f)
<1>1. f \in CallFrame /\ ~f.speech
  BY DEF NextFrame, CallFrame, CallsInv, CallsTypes
<1>2. s \in Segmenter(CallFrame) /\ Lawful(s) /\ Once(s, now) /\ RunsSafe(s, heard)
      /\ now \in Nat /\ heard \in Seq(CallFrame \cup {Pause}) /\ owner = "any"
  BY DEF CallsInv, CallsTypes, SegmentEnd
<1>3. callee' = t /\ now' = now + 1 /\ heard' = Append(heard, f) /\ owner' = owner
  BY DEF SegmentEnd, Take
<1> HIDE DEF f
<1>4. t \in Segmenter(CallFrame) /\ Lawful(t) /\ Interrupted(s, t)
  BY <1>1, <1>2, BoundaryInterrupts
<1> HIDE DEF t
<1>5. CallsTypes'
  <2>1. heard' \in Seq(CallFrame \cup {Pause}) /\ now' \in Nat
    BY <1>1, <1>2, <1>3, AppendProperties
  <2> QED
    BY <1>2, <1>3, <1>4, <2>1 DEF CallsTypes
<1>6. Once(t, now + 1) /\ Safe(s) \subseteq Safe(t)
  <2>1. now + 1 \in Nat /\ now <= now + 1
    BY <1>2
  <2> QED
    BY <1>2, <1>4, <2>1, InterruptSpeech
<1>7. RunsSafe(t, heard')
  <2>1. t.pending_speech = << >> /\ f \in CallFrame \cup {Pause}
    BY <1>1, <1>4 DEF Interrupted
  <2> QED
    BY <1>1, <1>2, <1>3, <1>4, <1>6, <2>1, RunsAfterFrame
<1>8. Joins'
  BY <1>2, <1>3 DEF Joins
<1> QED
  BY <1>3, <1>4, <1>5, <1>6, <1>7, <1>8 DEF CallsInv

LEMMA CallsDiscontinuity == CallsInv /\ NoteSourceDiscontinuity => CallsInv'
<1> SUFFICES ASSUME CallsInv, NoteSourceDiscontinuity PROVE CallsInv'
  OBVIOUS
<1>1. PICK lost \in Missing :
        /\ callee' = note_source_discontinuity(callee, now, now + lost)
        /\ now' = now + lost
        /\ heard' = Append(heard, Pause)
        /\ owner' = owner
  BY DEF NoteSourceDiscontinuity
<1> DEFINE s == callee
           t == note_source_discontinuity(s, now, now + lost)
           later == now + lost
<1>2. s \in Segmenter(CallFrame) /\ Lawful(s) /\ Once(s, now) /\ RunsSafe(s, heard)
      /\ now \in Nat /\ heard \in Seq(CallFrame \cup {Pause})
  BY DEF CallsInv, CallsTypes
<1>3. lost \in Nat /\ now \in Int /\ later \in Int /\ later \in Nat /\ now <= later
  BY <1>2, CallsAssumption
<1>4. t \in Segmenter(CallFrame) /\ Lawful(t) /\ Interrupted(s, t) /\ t.pre_roll = << >>
  BY <1>2, <1>3, DiscontinuityInterrupts
<1>5. callee' = t /\ now' = later
  BY <1>1
<1> HIDE DEF t, later
<1>6. CallsTypes'
  <2>1. heard' \in Seq(CallFrame \cup {Pause})
    BY <1>1, <1>2, AppendProperties
  <2> QED
    BY <1>1, <1>3, <1>4, <1>5, <2>1 DEF CallsTypes, CallsInv
<1>7. Once(t, later) /\ Safe(s) \subseteq Safe(t)
  BY <1>2, <1>3, <1>4, InterruptSpeech
<1>8. RunsSafe(t, heard')
  <2>1. t.pending_speech = << >> /\ Pause \in CallFrame \cup {Pause} /\ ~Pause.speech
    BY <1>4 DEF Interrupted, Pause
  <2> HIDE DEF Pause
  <2> QED
    BY <1>1, <1>2, <1>4, <1>7, <2>1, RunsAfterFrame
<1>9. Joins'
  <2> SUFFICES ASSUME owner = "pipeline"
               PROVE  /\ Reports(t, Chains(CallFrame, Follows)) /\ Chain(Follows, Buffered(t))
                      /\ Buffered(t) # << >> => Buffered(t)[Len(Buffered(t))].at + 1 = later
    BY <1>1, <1>5 DEF Joins
  <2>1. Reports(s, Chains(CallFrame, Follows)) /\ Chain(Follows, Buffered(s))
    BY DEF CallsInv, Joins
  <2>2. Reports(t, Chains(CallFrame, Follows)) /\ Buffered(t) = << >>
    BY <1>2, <1>4, <2>1, InterruptChains
  <2>3. Chain(Follows, << >>)
    BY DEF Chain
  <2> QED
    BY <2>2, <2>3
<1> QED
  BY <1>4, <1>5, <1>6, <1>7, <1>8, <1>9 DEF CallsInv

LEMMA CallsFlush == CallsInv /\ ForceFlush => CallsInv'
<1> SUFFICES ASSUME CallsInv, ForceFlush PROVE CallsInv'
  OBVIOUS
<1> DEFINE s == callee
           t == force_flush(s, "ForcedFlush")
<1>1. s \in Segmenter(CallFrame) /\ Lawful(s) /\ Once(s, now) /\ RunsSafe(s, heard)
      /\ now \in Nat /\ heard \in Seq(CallFrame \cup {Pause}) /\ owner = "any"
  BY DEF CallsInv, CallsTypes, ForceFlush
<1>2. callee' = t /\ now' = now /\ heard' = heard /\ owner' = owner
  BY DEF ForceFlush
<1>3. "ForcedFlush" \in Reason /\ "ForcedFlush" # "Silence"
  BY DEF Reason
<1>4. t \in Segmenter(CallFrame) /\ Lawful(t) /\ Interrupted(s, t)
      /\ (t = s \/ OneClosed(s, t, IF Active(s) THEN s.active.frames ELSE s.pending_speech))
  BY <1>1, <1>3, FlushInterrupts
<1> HIDE DEF t
<1>5. CallsTypes' /\ Joins'
  BY <1>1, <1>2, <1>4 DEF CallsTypes, Joins
<1>6. Once(t, now) /\ Safe(s) \subseteq Safe(t)
  BY <1>1, <1>4, InterruptSpeech
<1>7. RunsSafe(t, heard)
  <2>1. CASE t = s
    BY <1>1, <2>1
  <2>2. CASE OneClosed(s, t, IF Active(s) THEN s.active.frames ELSE s.pending_speech)
    <3>1. t.pending_speech = << >> /\ SpeechOf(s.pending_speech) \subseteq Safe(t)
      BY <1>1, <1>4, <2>2, InterruptSpeech DEF Interrupted
    <3> QED
      BY <1>1, <1>4, <1>6, <3>1, RunsAfterFlush
  <2> QED
    BY <1>4, <2>1, <2>2
<1> QED
  BY <1>2, <1>4, <1>5, <1>6, <1>7 DEF CallsInv

LEMMA CallsInvNext == CallsInv /\ [CallsNext]_callvars => CallsInv'
<1> SUFFICES ASSUME CallsInv, [CallsNext]_callvars PROVE CallsInv'
  OBVIOUS
<1>1. CASE ProcessVad
  BY <1>1, CallsFrame DEF ProcessVad, process_vad
<1>2. CASE ProcessAuthoritative
  BY <1>2, CallsFrame DEF ProcessAuthoritative
<1>3. CASE UNCHANGED callvars
  BY <1>3 DEF callvars, CallsInv, CallsTypes, Joins
<1> QED
  BY <1>1, <1>2, <1>3, CallsBoundary, CallsDiscontinuity, CallsFlush DEF CallsNext

\* What the invariant says of the segments.
LEMMA CallsInvMeans ==
  CallsInv => SegmentsContiguous /\ SpeechReportedOnce /\ NoSpeechRunLost /\ LifecycleLawful
<1> SUFFICES ASSUME CallsInv
             PROVE  SegmentsContiguous /\ SpeechReportedOnce /\ NoSpeechRunLost /\ LifecycleLawful
  OBVIOUS
<1> DEFINE s == callee
<1>1. s \in Segmenter(CallFrame) /\ Lawful(s) /\ Once(s, now) /\ RunsSafe(s, heard) /\ Joins
      /\ heard \in Seq(CallFrame \cup {Pause})
  BY DEF CallsInv, CallsTypes
<1>2. \A i \in Closings(s) : Reported(s)[i] = s.log[i].segment
  BY DEF Reported
<1>3. SegmentsContiguous
  <2> SUFFICES ASSUME owner = "pipeline", NEW i \in Closings(s)
               PROVE  Adjacent(s.log[i].segment.frames, 1)
    BY <1>2 DEF SegmentsContiguous
  <2>1. Chain(Follows, s.log[i].segment.frames)
    BY <1>1 DEF Joins, Reports, Chains
  <2> QED
    BY <2>1 DEF Chain, Follows, Adjacent
<1>4. SpeechReportedOnce
  BY <1>1, <1>2 DEF SpeechReportedOnce, Once, Apart
<1>5. NoSpeechRunLost
  <2> DEFINE S == speech_start_frames
  <2> SUFFICES ASSUME NEW i \in 1 .. Len(heard) - S + 1,
                      \A k \in DOMAIN SubSeq(heard, i, i + S - 1) :
                        SubSeq(heard, i, i + S - 1)[k].speech
               PROVE  \E k \in DOMAIN SubSeq(heard, i, i + S - 1) :
                        SubSeq(heard, i, i + S - 1)[k].at \in Kept(s)
    BY DEF NoSpeechRunLost
  <2> DEFINE run == SubSeq(heard, i, i + S - 1)
  <2>1. S \in Nat \ {0} /\ Len(heard) \in Nat /\ i \in Nat
        /\ \A k \in i .. i + S - 1 : k \in 1 .. Len(heard)
    BY <1>1, Thresholds
  <2>2. \A k \in i .. i + S - 1 : heard[k] \in CallFrame \cup {Pause}
    BY <1>1, <2>1, ElementOfSeq
  <2>3. /\ Len(run) = S /\ run \in Seq(CallFrame \cup {Pause})
        /\ \A k \in 1 .. S : run[k] = heard[i + k - 1]
    <3> DEFINE n == i + S - 1
    <3>1. n \in Nat /\ i <= n /\ n - i + 1 = S
      BY <2>1
    <3> HIDE DEF S, n
    <3>2. \A k \in i .. n : heard[k] \in CallFrame \cup {Pause}
      BY <2>2 DEF n
    <3> DEFINE r == SubSeq(heard, i, n)
    <3>3. /\ r \in Seq(CallFrame \cup {Pause})
          /\ Len(r) = IF i <= n THEN n - i + 1 ELSE 0
          /\ \A k \in 1 .. n - i + 1 : r[k] = heard[i + k - 1]
      BY <1>1, <2>1, <3>1, <3>2, SubSeqProperties
    <3> HIDE DEF r
    <3>4. r = run
      BY Zenon DEF r, run, n
    <3> QED
      BY <3>1, <3>3, <3>4
  <2> HIDE DEF run
  <2>4. DOMAIN run = 1 .. S
    BY <2>3, LenProperties
  <2>5. \A k \in i .. i + S - 1 : k - i + 1 \in 1 .. S /\ i + (k - i + 1) - 1 = k
    BY <2>1
  <2>6. \A k \in i .. i + S - 1 : heard[k] = run[k - i + 1]
    BY <2>3, <2>5
  <2>7. \A k \in i .. i + S - 1 : heard[k].speech
    BY <2>4, <2>5, <2>6 DEF run
  <2>8. PICK k \in i .. i + S - 1 : heard[k].at \in Safe(s)
    BY <1>1, <2>7 DEF RunsSafe
  <2>9. Safe(s) \subseteq Kept(s)
    <3>1. \A j \in Closings(s) : Reported(s)[j].frames = s.log[j].segment.frames
      BY <1>2
    <3>2. ASSUME NEW x \in Told(s) PROVE x \in Kept(s)
      <4>1. PICK j \in Closings(s) : x \in SpeechOf(s.log[j].segment.frames)
        BY DEF Told
      <4>2. x \in UNION {SpeechOf(Reported(s)[l].frames) : l \in Closings(s)}
        BY <3>1, <4>1
      <4> QED
        BY <4>2, Zenon DEF Kept
    <3>3. ASSUME Active(s), NEW x \in SpeechOf(s.active.frames) PROVE x \in Kept(s)
      <4> DEFINE A == UNION {SpeechOf(Reported(s)[l].frames) : l \in Closings(s)}
                 B == IF Active(s) THEN SpeechOf(s.active.frames) ELSE {}
      <4>1. Kept(s) = A \cup B \cup SpeechOf(s.pending_speech) \cup SpeechOf(s.pre_roll)
        BY DEF Kept
      <4>2. x \in B
        BY <3>3
      <4> HIDE DEF A, B
      <4> QED
        BY <4>1, <4>2
    <3> QED
      BY <3>2, <3>3 DEF Safe
  <2> QED
    BY <2>4, <2>5, <2>6, <2>8, <2>9 DEF run
<1>6. LifecycleLawful
  <2>1. SegmenterOK(s)
    <3>1. CASE Active(s)
      BY <1>1, <3>1, Thresholds DEF Lawful, OpenLawful, SegmenterOK
    <3>2. CASE ~Active(s)
      BY <1>1, <3>2 DEF Lawful, ClosedLawful, SegmenterOK
    <3> QED
      BY <3>1, <3>2
  <2> QED
    BY <1>1, <1>2, <2>1 DEF Lawful, LogLawful, LifecycleLawful
<1> QED
  BY <1>3, <1>4, <1>5, <1>6

\* Under any sequence of calls, whatever the configuration, the events of the segmenter
\* tell of one lawful life after the other: ids in order, one end per silence, a report
\* for every segment that was opened or announced, no segment longer than the maximum or
\* than what opens one, and no buffer beyond its bound.
THEOREM SegmentLives == CallsSpec => []LifecycleLawful
<1> QED
  BY CallsInvInit, CallsInvNext, CallsInvMeans, PTL DEF CallsSpec

\* Called as a VAD pipeline calls it, the segmenter joins no audio across a gap.
THEOREM SegmentsJoined == CallsSpec => []SegmentsContiguous
<1> QED
  BY CallsInvInit, CallsInvNext, CallsInvMeans, PTL DEF CallsSpec

\* No frame of speech is reported twice, although the silence behind a segment may be
\* the pre-roll of the next.
THEOREM SpeechOnce == CallsSpec => []SpeechReportedOnce
<1> QED
  BY CallsInvInit, CallsInvNext, CallsInvMeans, PTL DEF CallsSpec

\* Of every run of speech that is long enough to open a segment some frame is in one.
THEOREM SpeechKept == CallsSpec => []NoSpeechRunLost
<1> QED
  BY CallsInvInit, CallsInvNext, CallsInvMeans, PTL DEF CallsSpec

-----------------------------------------------------------------------------
\* The bounded audio input, as the pipeline reads it.

InputChunk == [sequence : Nat, start_frame : Nat, frames : Nat \ {0}, era : Nat, place : Nat]

Message ==
  [type : {"Chunk"}, chunk : InputChunk]
    \cup [type : {"End"}] \cup [type : {"Reconnected"}, next_sequence : Nat]

SourceEvent ==
  [type : {"Audio"}, sequence : Nat, chunk : InputChunk]
    \cup [type : {"Discontinuity"}, expected : Nat, received : Nat] \cup [type : {"EndOfStream"}]

InputTypes ==
  /\ channel \in Seq(Message) /\ given \in Seq(SourceEvent) /\ accepted \in SUBSET InputChunk
  /\ connected \in BOOLEAN /\ cancelled \in BOOLEAN /\ ended \in BOOLEAN /\ end_sent \in BOOLEAN
  /\ expected_sequence \in Nat /\ pending_chunk \in InputChunk \cup {NoChunk}
  /\ sequence \in Nat /\ start_frame \in Nat /\ era \in Nat /\ captured \in Nat

LastGiven == given[Len(given)]

\* What expected_sequence stands for, and when a chunk is held back.
InputInStep ==
  /\ given = << >> => expected_sequence = 0
  /\ \A i \in DOMAIN given : given[i].type = "Audio" => given[i].sequence = given[i].chunk.sequence
  /\ given # << >> /\ LastGiven.type = "Audio" => expected_sequence = LastGiven.sequence + 1
  /\ given # << >> /\ LastGiven.type = "Discontinuity" =>
       LastGiven.received = IF pending_chunk = NoChunk THEN expected_sequence
                            ELSE pending_chunk.sequence
  /\ given # << >> /\ LastGiven.type = "EndOfStream" => ended
  /\ pending_chunk # NoChunk => given # << >> /\ LastGiven.type = "Discontinuity" /\ ~ended

\* The connection of what the receiver took last, of each chunk in the channel and, behind
\* them, of the producer.
EraKnown(i) ==
  CASE i = 0 -> pending_chunk # NoChunk \/ given = << >> \/ LastGiven.type = "Audio"
    [] i \in DOMAIN channel -> channel[i].type = "Chunk"
    [] OTHER -> TRUE

EraAt(i) ==
  CASE i = 0 -> IF pending_chunk # NoChunk THEN pending_chunk.era
                ELSE IF given = << >> THEN 0 ELSE LastGiven.chunk.era
    [] i \in DOMAIN channel -> channel[i].chunk.era
    [] OTHER -> era

\* A change of connection is announced between the chunks of the two.
ErasAnnounced ==
  \A i, j \in 0 .. Len(channel) + 1 :
    i < j /\ EraKnown(i) /\ EraKnown(j) /\ EraAt(i) # EraAt(j) =>
      \E k \in i + 1 .. j - 1 : channel[k].type = "Reconnected"

Before(c, d) == c.era < d.era \/ (c.era = d.era /\ c.start_frame + c.frames <= d.start_frame)

\* The chunks lie on the timeline in the order in which they were captured.
ChunksInOrder ==
  /\ \A c \in accepted :
       /\ c.place < captured
       /\ c.era < era \/ (c.era = era /\ c.start_frame + c.frames <= start_frame)
  /\ \A c, d \in accepted : c.place < d.place => Before(c, d)

InputInv ==
  InputTypes /\ InputInStep /\ ErasAnnounced /\ ChunksInOrder /\ AcceptedConserved /\ GapsAnnounced

-----------------------------------------------------------------------------
Sample == [at : Nat, era : Nat]

VadFrame ==
  {f \in [at : Nat, speech : BOOLEAN, samples : Seq(Sample)] :
     f.samples # << >> /\ Stretch(f.samples) /\ f.at = f.samples[1].at}

Adjoining == {pair \in VadFrame \X VadFrame : Adjoins(pair[1], pair[2])}

PipelineTypes ==
  /\ segmenter \in Segmenter(VadFrame) /\ framed \in Seq(VadFrame)
  /\ pending_samples \in Seq(Sample) /\ pending_start_frame \in Nat \cup {Unknown}
  /\ expected_source_chunk_sequence \in Nat /\ finished \in BOOLEAN

\* The pipeline expects the chunk that comes: it never finds a gap itself.
PipelineInStep ==
  expected_source_chunk_sequence =
    IF pending_chunk = NoChunk THEN expected_sequence ELSE pending_chunk.sequence

\* Samples that come one after the other.
Run(q, at, connection) ==
  \A i \in 1 .. Len(q) : q[i].at = at + i - 1 /\ q[i].era = connection

\* What waits is the end of the last chunk.
PendingTrue ==
  /\ pending_samples # << >> => pending_start_frame # Unknown
  /\ pending_start_frame # Unknown =>
       /\ given # << >> /\ LastGiven.type = "Audio"
       /\ pending_start_frame + Len(pending_samples) =
            LastGiven.chunk.start_frame + LastGiven.chunk.frames
  /\ Run(pending_samples, pending_start_frame, LastGiven.chunk.era)

LastSample(f) == f.samples[Len(f.samples)]

\* A segmenter whose segments are stretches, the one it may still close included.
Sound(s) ==
  /\ s \in Segmenter(VadFrame) /\ Lawful(s) /\ Reports(s, Chains(VadFrame, Adjoining))
  /\ Chain(Adjoining, Buffered(s))

\* The sample at place at of a connection goes on with what is buffered.
GoesOn(s, at, connection) ==
  LET frames == Buffered(s) IN
  frames # << >> => /\ LastSample(frames[Len(frames)]).at + 1 = at
                    /\ LastSample(frames[Len(frames)]).era = connection

\* What the segmenter buffers ends where the pending samples start.
BufferTrue ==
  /\ Sound(segmenter)
  /\ Buffered(segmenter) # << >> => pending_start_frame # Unknown
  /\ GoesOn(segmenter, pending_start_frame, LastGiven.chunk.era)

Heard ==
  (UNION {ToSet(framed[i].samples) : i \in DOMAIN framed}) \cup ToSet(pending_samples)

\* Of the stretch that goes on, everything was heard or waits.
StretchHeard ==
  \A i \in DOMAIN given : Joined(i, Len(given)) => ToSet(Samples(given[i].chunk)) \subseteq Heard

PipelineInv ==
  /\ InputInv /\ PipelineTypes
  /\ Lawful(segmenter) /\ Reports(segmenter, Chains(VadFrame, Adjoining))
  /\ ~finished => PipelineInStep /\ PendingTrue /\ BufferTrue
  /\ EndFlushes

HearingInv == PipelineInv /\ FramesHeard /\ (~cancelled => StretchHeard)

-----------------------------------------------------------------------------
\* An element behind a sequence.
LEMMA Behind ==
  ASSUME NEW F, NEW q \in Seq(F), NEW e \in F
  PROVE  /\ q \o <<e>> = Append(q, e) /\ Append(q, e) \in Seq(F) /\ Append(q, e) # << >>
         /\ Len(Append(q, e)) = Len(q) + 1 /\ Append(q, e)[Len(q) + 1] = e
         /\ \A i \in 1 .. Len(q) : Append(q, e)[i] = q[i]
<1>1. <<e>> \in Seq(F) /\ Len(<<e>>) = 1 /\ <<e>>[1] = e
  OBVIOUS
<1>2. q \o <<e>> \in Seq(F) /\ Append(q, e) \in Seq(F)
  BY <1>1, ConcatProperties, AppendProperties
<1>3. Len(q \o <<e>>) = Len(q) + 1 /\ Len(Append(q, e)) = Len(q) + 1
  BY <1>1, ConcatProperties, AppendProperties
<1>4. \A i \in 1 .. Len(q) + 1 : (q \o <<e>>)[i] = Append(q, e)[i]
  BY <1>1, ConcatProperties, AppendProperties
<1>5. q \o <<e>> = Append(q, e)
  BY <1>2, <1>3, <1>4, SeqEqual
<1> QED
  BY <1>2, <1>3, <1>5, AppendProperties

\* What is left of a sequence without its first element.
LEMMA Rest ==
  ASSUME NEW F, NEW q \in Seq(F), q # << >>
  PROVE  /\ Head(q) \in F /\ Head(q) = q[1] /\ Len(q) >= 1
         /\ Tail(q) \in Seq(F) /\ Len(Tail(q)) = Len(q) - 1
         /\ \A i \in 1 .. Len(q) - 1 : Tail(q)[i] = q[i + 1]
BY HeadTailProperties, EmptySeq, LenProperties

-----------------------------------------------------------------------------
\* What next_event does, one event at a time.

Quiet == UNCHANGED <<connected, cancelled, producer, accepted, end_sent>>

HeldComes ==
  /\ pending_chunk # NoChunk
  /\ given' = Append(given, Audio(pending_chunk))
  /\ expected_sequence' = pending_chunk.sequence + 1 /\ pending_chunk' = NoChunk
  /\ UNCHANGED <<channel, ended>>

StreamEnds ==
  /\ pending_chunk = NoChunk
  /\ \/ channel = << >> /\ channel' = channel
     \/ channel # << >> /\ channel' = Tail(channel) /\ Head(channel).type = "End"
  /\ given' = Append(given, [type |-> "EndOfStream"])
  /\ ended' = TRUE
  /\ UNCHANGED <<expected_sequence, pending_chunk>>

Comes(type) ==
  /\ pending_chunk = NoChunk
  /\ channel # << >> /\ channel' = Tail(channel) /\ Head(channel).type = type
  /\ UNCHANGED ended

ReconnectComes ==
  /\ Comes("Reconnected")
  /\ given' = Append(given, Gap(Head(channel).next_sequence))
  /\ expected_sequence' = Head(channel).next_sequence
  /\ UNCHANGED pending_chunk

ChunkComes ==
  /\ Comes("Chunk") /\ Head(channel).chunk.sequence = expected_sequence
  /\ given' = Append(given, Audio(Head(channel).chunk))
  /\ expected_sequence' = Head(channel).chunk.sequence + 1
  /\ UNCHANGED pending_chunk

GapComes ==
  /\ Comes("Chunk") /\ Head(channel).chunk.sequence # expected_sequence
  /\ given' = Append(given, Gap(Head(channel).chunk.sequence))
  /\ pending_chunk' = Head(channel).chunk
  /\ UNCHANGED expected_sequence

LEMMA MessageTypes ==
  ASSUME NEW m \in Message
  PROVE  /\ m.type \in {"Chunk", "End", "Reconnected"}
         /\ m.type = "Chunk" => m.chunk \in InputChunk
         /\ m.type = "Reconnected" => m.next_sequence \in Nat
BY DEF Message

LEMMA ReceiveCases ==
  ASSUME InputTypes, Receive
  PROVE  /\ ~cancelled /\ ~ended /\ Quiet
         /\ Len(Returned) = 1 /\ Returned[1] \in SourceEvent
         /\ given' = Append(given, Returned[1])
         /\ HeldComes \/ StreamEnds \/ ReconnectComes \/ ChunkComes \/ GapComes
<1>1. /\ ~cancelled /\ ~ended /\ Quiet /\ Advance /\ given' = given \o Returned
  BY DEF Receive, Ready, Quiet
<1>2. /\ given \in Seq(SourceEvent) /\ expected_sequence \in Nat
      /\ channel # << >> => Head(channel) \in Message
  BY Rest DEF InputTypes
<1>3. ASSUME NEW e, e \in SourceEvent, Returned = <<e>>
      PROVE  /\ Len(Returned) = 1 /\ Returned[1] = e /\ Returned[1] \in SourceEvent
             /\ given' = Append(given, e)
  BY <1>1, <1>2, <1>3, Behind
<1>4. CASE pending_chunk # NoChunk
  <2>1. Returned = <<Audio(pending_chunk)>> /\ Audio(pending_chunk) \in SourceEvent
    BY <1>4 DEF Returned, Audio, SourceEvent, InputTypes, InputChunk
  <2>2. HeldComes
    BY <1>1, <1>3, <1>4, <2>1 DEF Advance, Deliver, HeldComes
  <2> QED
    BY <1>1, <1>3, <2>1, <2>2
<1>5. CASE pending_chunk = NoChunk /\ channel = << >>
  <2>1. Returned = <<[type |-> "EndOfStream"]>> /\ [type |-> "EndOfStream"] \in SourceEvent
    BY <1>5 DEF Returned, SourceEvent
  <2>2. StreamEnds
    BY <1>1, <1>3, <1>5, <2>1 DEF Advance, StreamEnds
  <2> QED
    BY <1>1, <1>3, <2>1, <2>2
<1>6. CASE pending_chunk = NoChunk /\ channel # << >> /\ Head(channel).type = "End"
  <2>1. Returned = <<[type |-> "EndOfStream"]>> /\ [type |-> "EndOfStream"] \in SourceEvent
    BY <1>6 DEF Returned, SourceEvent
  <2>2. StreamEnds
    BY <1>1, <1>3, <1>6, <2>1 DEF Advance, StreamEnds
  <2> QED
    BY <1>1, <1>3, <2>1, <2>2
<1>7. CASE pending_chunk = NoChunk /\ channel # << >> /\ Head(channel).type = "Reconnected"
  <2>1. /\ Returned = <<Gap(Head(channel).next_sequence)>>
        /\ Gap(Head(channel).next_sequence) \in SourceEvent
    BY <1>2, <1>7, MessageTypes DEF Returned, Gap, SourceEvent
  <2>2. ReconnectComes
    BY <1>1, <1>3, <1>7, <2>1 DEF Advance, ReconnectComes, Comes
  <2> QED
    BY <1>1, <1>3, <2>1, <2>2
<1>8. CASE pending_chunk = NoChunk /\ channel # << >> /\ Head(channel).type = "Chunk"
           /\ Head(channel).chunk.sequence = expected_sequence
  <2>1. /\ Returned = <<Audio(Head(channel).chunk)>>
        /\ Audio(Head(channel).chunk) \in SourceEvent
    BY <1>2, <1>8, MessageTypes DEF Returned, Audio, SourceEvent, Continues, InputChunk
  <2>2. ChunkComes
    BY <1>1, <1>3, <1>8, <2>1 DEF Advance, ChunkComes, Comes, Continues, Deliver
  <2> QED
    BY <1>1, <1>3, <2>1, <2>2
<1>9. CASE pending_chunk = NoChunk /\ channel # << >> /\ Head(channel).type = "Chunk"
           /\ Head(channel).chunk.sequence # expected_sequence
  <2>1. /\ Returned = <<Gap(Head(channel).chunk.sequence)>>
        /\ Gap(Head(channel).chunk.sequence) \in SourceEvent
    BY <1>2, <1>9, MessageTypes DEF Returned, Gap, SourceEvent, Continues, InputChunk
  <2>2. GapComes
    BY <1>1, <1>3, <1>9, <2>1 DEF Advance, GapComes, Comes, Continues, Hold
  <2> QED
    BY <1>1, <1>3, <2>1, <2>2
<1> QED
  BY <1>2, <1>4, <1>5, <1>6, <1>7, <1>8, <1>9, MessageTypes
-----------------------------------------------------------------------------
\* The chunk a producer captures next.
LEMMA CaptureFacts ==
  ASSUME InputTypes, Capture
  PROVE  \E chunk \in InputChunk :
           /\ chunk.era = era /\ chunk.place = captured /\ start_frame <= chunk.start_frame
           /\ \/ channel' = channel /\ accepted' = accepted
              \/ /\ channel' = Append(channel, [type |-> "Chunk", chunk |-> chunk])
                 /\ accepted' = accepted \cup {chunk}
           /\ sequence' = chunk.sequence + 1 /\ start_frame' = chunk.start_frame + chunk.frames
           /\ captured' = captured + 1
           /\ UNCHANGED <<connected, cancelled, receiver, era, end_sent, given>>
<1>1. PICK step \in Steps, hole \in Holes, length \in Lengths :
        LET chunk == [sequence |-> sequence + step - 1, start_frame |-> start_frame + hole,
                      frames |-> length, era |-> era, place |-> captured] IN
        /\ chunk.sequence >= 0
        /\ TrySend(chunk)
        /\ sequence' = chunk.sequence + 1
        /\ start_frame' = chunk.start_frame + length
        /\ captured' = captured + 1
        /\ UNCHANGED <<connected, cancelled, receiver, era, end_sent, given>>
  BY DEF Capture
<1> DEFINE chunk == [sequence |-> sequence + step - 1, start_frame |-> start_frame + hole,
                     frames |-> length, era |-> era, place |-> captured]
<1>2. /\ sequence \in Nat /\ start_frame \in Nat /\ era \in Nat /\ captured \in Nat
      /\ step \in Int /\ hole \in Nat /\ length \in Nat \ {0}
  BY InputAssumption DEF InputTypes
<1>3. /\ chunk \in InputChunk /\ chunk.era = era /\ chunk.place = captured
      /\ start_frame <= chunk.start_frame /\ chunk.frames = length
  <2>1. sequence + step - 1 \in Nat /\ start_frame + hole \in Nat
    BY <1>1, <1>2
  <2>2. start_frame <= start_frame + hole
    BY <1>2
  <2> QED
    BY <1>2, <2>1, <2>2 DEF InputChunk
<1>4. /\ TrySend(chunk) /\ sequence' = chunk.sequence + 1 /\ captured' = captured + 1
      /\ start_frame' = chunk.start_frame + length
      /\ UNCHANGED <<connected, cancelled, receiver, era, end_sent, given>>
  BY <1>1
<1> HIDE DEF chunk
<1>5. \/ channel' = channel /\ accepted' = accepted
      \/ /\ channel' = Append(channel, [type |-> "Chunk", chunk |-> chunk])
         /\ accepted' = accepted \cup {chunk}
  BY <1>4 DEF TrySend
<1>6. start_frame' = chunk.start_frame + chunk.frames
  BY <1>3, <1>4
<1> QED
  BY <1>3, <1>4, <1>5, <1>6

InputMoves == Capture \/ End \/ Reconnect \/ Disconnect \/ Receive \/ Cancel \/ UNCHANGED inputvars

\* A message behind those in the channel.
LEMMA Sent ==
  ASSUME InputTypes, NEW m \in Message, channel' = Append(channel, m)
  PROVE  /\ channel' \in Seq(Message) /\ Len(channel') = Len(channel) + 1
         /\ channel'[Len(channel) + 1] = m
         /\ \A i \in 1 .. Len(channel) : channel'[i] = channel[i]
BY Behind DEF InputTypes

LEMMA InputTypesKept == InputTypes /\ InputMoves => InputTypes'
<1> SUFFICES ASSUME InputTypes, InputMoves PROVE InputTypes'
  OBVIOUS
<1>1. CASE Capture
  <2>1. PICK chunk \in InputChunk :
           /\ \/ channel' = channel /\ accepted' = accepted
              \/ /\ channel' = Append(channel, [type |-> "Chunk", chunk |-> chunk])
                 /\ accepted' = accepted \cup {chunk}
           /\ sequence' = chunk.sequence + 1 /\ start_frame' = chunk.start_frame + chunk.frames
           /\ captured' = captured + 1
           /\ UNCHANGED <<connected, cancelled, receiver, era, end_sent, given>>
    BY <1>1, CaptureFacts
  <2>2. [type |-> "Chunk", chunk |-> chunk] \in Message
    BY DEF Message
  <2>3. channel' \in Seq(Message) /\ accepted' \in SUBSET InputChunk
    BY <2>1, <2>2, Sent DEF InputTypes
  <2>4. sequence' \in Nat /\ start_frame' \in Nat /\ captured' \in Nat
    BY <2>1 DEF InputTypes, InputChunk
  <2> QED
    BY <2>1, <2>3, <2>4 DEF InputTypes, receiver
<1>2. CASE End
  <2>1. [type |-> "End"] \in Message
    BY DEF Message
  <2>2. channel' \in Seq(Message)
    BY <1>2, <2>1, Sent DEF End, InputTypes
  <2> QED
    BY <1>2, <2>2 DEF End, InputTypes, receiver, producer
<1>3. CASE Reconnect
  <2>1. PICK next_sequence \in Restarts, next_frame \in {0, start_frame} :
          /\ channel' = Append(channel, [type |-> "Reconnected", next_sequence |-> next_sequence])
          /\ sequence' = next_sequence /\ start_frame' = next_frame /\ era' = era + 1
          /\ UNCHANGED <<connected, cancelled, receiver, captured, history>>
    BY <1>3 DEF Reconnect
  <2>2. next_sequence \in Nat /\ next_frame \in Nat
    BY InputAssumption DEF InputTypes
  <2>3. [type |-> "Reconnected", next_sequence |-> next_sequence] \in Message
    BY <2>2 DEF Message
  <2>4. channel' \in Seq(Message)
    BY <2>1, <2>3, Sent
  <2>5. era' \in Nat
    BY <2>1 DEF InputTypes
  <2> QED
    BY <2>1, <2>2, <2>4, <2>5 DEF InputTypes, receiver, history
<1>4. CASE Receive
  <2>1. /\ Quiet /\ Returned[1] \in SourceEvent /\ given' = Append(given, Returned[1])
        /\ HeldComes \/ StreamEnds \/ ReconnectComes \/ ChunkComes \/ GapComes
    BY <1>4, ReceiveCases
  <2>2. given' \in Seq(SourceEvent)
    BY <2>1, Behind DEF InputTypes
  <2>3. channel # << >> => Head(channel) \in Message /\ Tail(channel) \in Seq(Message)
    BY Rest DEF InputTypes
  <2>4. channel' \in Seq(Message)
    BY <2>1, <2>3 DEF HeldComes, StreamEnds, ReconnectComes, ChunkComes, GapComes, Comes,
       InputTypes
  <2>5. /\ expected_sequence' \in Nat /\ pending_chunk' \in InputChunk \cup {NoChunk}
        /\ ended' \in BOOLEAN
    <3>1. CASE HeldComes
      BY <3>1 DEF HeldComes, InputTypes, InputChunk
    <3>2. CASE StreamEnds
      BY <3>2 DEF StreamEnds, InputTypes
    <3>3. CASE ReconnectComes
      BY <2>3, <3>3, MessageTypes DEF ReconnectComes, Comes, InputTypes
    <3>4. CASE ChunkComes
      <4>1. Head(channel).chunk \in InputChunk
        BY <2>3, <3>4, MessageTypes DEF ChunkComes, Comes
      <4> QED
        BY <3>4, <4>1 DEF ChunkComes, Comes, InputTypes, InputChunk
    <3>5. CASE GapComes
      BY <2>3, <3>5, MessageTypes DEF GapComes, Comes, InputTypes
    <3> QED
      BY <2>1, <3>1, <3>2, <3>3, <3>4, <3>5
  <2> QED
    BY <2>1, <2>2, <2>4, <2>5 DEF Quiet, InputTypes, producer
<1> QED
  BY <1>1, <1>2, <1>3, <1>4 DEF InputMoves, Disconnect, Cancel, inputvars, InputTypes,
     receiver, producer, history
-----------------------------------------------------------------------------
\* The last event, when another is given.
LEMMA Given ==
  ASSUME InputTypes, NEW e \in SourceEvent, given' = Append(given, e)
  PROVE  /\ given' \in Seq(SourceEvent) /\ given' # << >> /\ Len(given') = Len(given) + 1
         /\ LastGiven' = e /\ given'[Len(given) + 1] = e
         /\ \A i \in 1 .. Len(given) : given'[i] = given[i]
         /\ DOMAIN given = 1 .. Len(given) /\ DOMAIN given' = 1 .. Len(given) + 1
         /\ Len(given) \in Nat
BY Behind, LenProperties DEF InputTypes, LastGiven

\* What a receiver's state says of the last event, after the next one.
LEMMA InStepKept == InputTypes /\ InputInStep /\ InputMoves => InputInStep'
<1> SUFFICES ASSUME InputTypes, InputInStep, InputMoves PROVE InputInStep'
  OBVIOUS
<1>1. CASE Receive
  <2>1. /\ ~ended /\ Returned[1] \in SourceEvent /\ given' = Append(given, Returned[1])
        /\ HeldComes \/ StreamEnds \/ ReconnectComes \/ ChunkComes \/ GapComes
    BY <1>1, ReceiveCases
  <2> DEFINE e == Returned[1]
  <2>2. /\ e \in SourceEvent /\ given' = Append(given, e)
    BY <2>1
  <2> HIDE DEF e
  <2>3. /\ given' # << >> /\ Len(given') = Len(given) + 1 /\ LastGiven' = e
        /\ given'[Len(given) + 1] = e /\ \A i \in 1 .. Len(given) : given'[i] = given[i]
        /\ DOMAIN given = 1 .. Len(given) /\ DOMAIN given' = 1 .. Len(given) + 1
        /\ Len(given) \in Nat
    BY <2>2, Given
  <2>4. ASSUME NEW d \in SourceEvent, given' = Append(given, d) PROVE e = d
    BY <2>3, <2>4, Given
  <2>5. channel # << >> => Head(channel) \in Message
    BY Rest DEF InputTypes
  <2>6. ASSUME e.type = "Audio" => e.sequence = e.chunk.sequence
        PROVE  \A i \in DOMAIN given' :
                 given'[i].type = "Audio" => given'[i].sequence = given'[i].chunk.sequence
    BY <2>3, <2>6 DEF InputInStep
  <2>7. CASE HeldComes
    <3>1. e = Audio(pending_chunk)
      BY <2>4, <2>7 DEF HeldComes, Audio, SourceEvent, InputTypes, InputChunk
    <3>2. /\ e.type = "Audio" /\ e.sequence = e.chunk.sequence
          /\ expected_sequence' = e.sequence + 1 /\ pending_chunk' = NoChunk
      BY <2>7, <3>1 DEF Audio, HeldComes
    <3> QED
      BY <2>3, <2>6, <3>2 DEF InputInStep
  <2>8. CASE StreamEnds
    <3>1. e = [type |-> "EndOfStream"]
      BY <2>4, <2>8 DEF StreamEnds, SourceEvent
    <3>2. e.type = "EndOfStream" /\ ended' = TRUE /\ pending_chunk' = NoChunk
      BY <2>8, <3>1 DEF StreamEnds
    <3> QED
      BY <2>3, <2>6, <3>2 DEF InputInStep
  <2>9. CASE ReconnectComes
    <3>1. Head(channel).next_sequence \in Nat
      BY <2>5, <2>9, MessageTypes DEF ReconnectComes, Comes
    <3>2. e = Gap(Head(channel).next_sequence)
      BY <2>4, <2>9, <3>1 DEF ReconnectComes, Gap, SourceEvent, InputTypes
    <3>3. /\ e.type = "Discontinuity" /\ e.received = expected_sequence' /\ pending_chunk' = NoChunk
      BY <2>9, <3>2 DEF ReconnectComes, Comes, Gap
    <3> QED
      BY <2>3, <2>6, <3>3 DEF InputInStep
  <2>10. CASE ChunkComes
    <3> DEFINE c == Head(channel).chunk
    <3>1. c \in InputChunk
      BY <2>5, <2>10, MessageTypes DEF ChunkComes, Comes
    <3>2. /\ given' = Append(given, Audio(c)) /\ expected_sequence' = c.sequence + 1
          /\ pending_chunk' = NoChunk
      BY <2>10 DEF ChunkComes, Comes
    <3> HIDE DEF c
    <3>3. e = Audio(c)
      BY <2>4, <3>1, <3>2 DEF Audio, SourceEvent, InputChunk
    <3>4. /\ e.type = "Audio" /\ e.sequence = e.chunk.sequence
          /\ expected_sequence' = e.sequence + 1 /\ pending_chunk' = NoChunk
      BY <3>2, <3>3 DEF Audio
    <3> QED
      BY <2>3, <2>6, <3>4 DEF InputInStep
  <2>11. CASE GapComes
    <3> DEFINE c == Head(channel).chunk
    <3>1. c \in InputChunk
      BY <2>5, <2>11, MessageTypes DEF GapComes, Comes
    <3>2. /\ given' = Append(given, Gap(c.sequence)) /\ pending_chunk' = c /\ ended' = ended
      BY <2>11 DEF GapComes, Comes
    <3> HIDE DEF c
    <3>3. e = Gap(c.sequence)
      BY <2>4, <3>1, <3>2 DEF Gap, SourceEvent, InputTypes, InputChunk
    <3>4. /\ e.type = "Discontinuity" /\ e.received = c.sequence
      BY <3>3 DEF Gap
    <3>5. c # NoChunk
      BY <3>1 DEF InputChunk, NoChunk
    <3> QED
      BY <2>1, <2>3, <2>6, <3>2, <3>4, <3>5 DEF InputInStep
  <2> QED
    BY <2>1, <2>7, <2>8, <2>9, <2>10, <2>11
<1>2. CASE ~Receive
  <2>1. UNCHANGED <<expected_sequence, pending_chunk, ended, given>>
    BY <1>2, CaptureFacts DEF InputMoves, End, Reconnect, Disconnect, Cancel, inputvars, receiver, history
  <2> QED
    BY <2>1 DEF InputInStep, LastGiven
<1> QED
  BY <1>1, <1>2

\* An event that audio or a gap is made of.
LEMMA EventTypes ==
  ASSUME NEW e \in SourceEvent
  PROVE  /\ e.type \in {"Audio", "Discontinuity", "EndOfStream"}
         /\ e.type = "Audio" => e.chunk \in InputChunk /\ e.sequence \in Nat
         /\ e.type = "Discontinuity" => e.expected \in Nat /\ e.received \in Nat
BY DEF SourceEvent

\* The connections, one place at a time.
EraMeaning ==
  /\ Len(channel) \in Nat
  /\ EraKnown(0) <=> pending_chunk # NoChunk \/ given = << >> \/ LastGiven.type = "Audio"
  /\ EraAt(0) = IF pending_chunk # NoChunk THEN pending_chunk.era
                ELSE IF given = << >> THEN 0 ELSE LastGiven.chunk.era
  /\ \A i \in 1 .. Len(channel) :
       (EraKnown(i) <=> channel[i].type = "Chunk") /\ EraAt(i) = channel[i].chunk.era
  /\ EraKnown(Len(channel) + 1) /\ EraAt(Len(channel) + 1) = era

LEMMA EraFacts == InputTypes => EraMeaning
<1> SUFFICES ASSUME InputTypes PROVE EraMeaning
  OBVIOUS
<1>1. DOMAIN channel = 1 .. Len(channel) /\ Len(channel) \in Nat
  BY LenProperties DEF InputTypes
<1> QED
  BY <1>1 DEF EraMeaning, EraKnown, EraAt

LEMMA ErasFacts == InputTypes' => EraMeaning'
BY EraFacts, PTL
\* The receiver takes a message: every place moves up by one.
LEMMA ErasShift ==
  ASSUME InputTypes, InputTypes', ErasAnnounced, channel # << >>, channel' = Tail(channel), era' = era,
         EraKnown(0)' => channel[1].type = "Chunk" /\ EraAt(0)' = channel[1].chunk.era
  PROVE  ErasAnnounced'
<1>0. PICK L \in Nat : L = Len(channel)
  BY LenProperties DEF InputTypes
<1>1. /\ L \in Nat /\ L >= 1 /\ Len(channel') = L - 1
      /\ \A i \in 1 .. L - 1 : channel'[i] = channel[i + 1]
  BY <1>0, Rest, LenProperties DEF InputTypes
<1>2. EraMeaning /\ EraMeaning'
  BY EraFacts, ErasFacts
<1>3. ASSUME NEW i \in 0 .. L, EraKnown(i)' PROVE EraKnown(i + 1) /\ EraAt(i)' = EraAt(i + 1)
  <2>1. CASE i = 0
    BY <1>0, <1>1, <1>2, <1>3, <2>1 DEF EraMeaning
  <2>2. CASE i \in 1 .. L - 1
    BY <1>0, <1>1, <1>2, <1>3, <2>2 DEF EraMeaning
  <2>3. CASE i = L
    BY <1>0, <1>1, <1>2, <2>3 DEF EraMeaning
  <2> QED
    BY <1>0, <1>1, <2>1, <2>2, <2>3
<1> SUFFICES ASSUME NEW i \in 0 .. L, NEW j \in 0 .. L, i < j,
                    EraKnown(i)', EraKnown(j)', EraAt(i)' # EraAt(j)'
             PROVE  \E k \in i + 1 .. j - 1 : channel'[k].type = "Reconnected"
  BY <1>0, <1>1 DEF ErasAnnounced
<1>4. /\ EraKnown(i + 1) /\ EraKnown(j + 1) /\ EraAt(i + 1) # EraAt(j + 1)
      /\ i + 1 \in 0 .. L + 1 /\ j + 1 \in 0 .. L + 1 /\ i + 1 < j + 1
  BY <1>0, <1>1, <1>3
<1>5. PICK k \in (i + 1) + 1 .. (j + 1) - 1 : channel[k].type = "Reconnected"
  <2>1. i + 1 \in 0 .. Len(channel) + 1 /\ j + 1 \in 0 .. Len(channel) + 1
    BY <1>0, <1>4
  <2> QED
    BY <1>4, <2>1 DEF ErasAnnounced
<1>6. k - 1 \in i + 1 .. j - 1 /\ channel'[k - 1] = channel[k]
  BY <1>0, <1>1, <1>5
<1> QED
  BY <1>5, <1>6

\* Nothing moves in the channel.
LEMMA ErasStay ==
  ASSUME InputTypes, InputTypes', ErasAnnounced, channel' = channel, era' = era,
         EraKnown(0)' => EraKnown(0) /\ EraAt(0)' = EraAt(0)
  PROVE  ErasAnnounced'
<1>1. EraMeaning /\ EraMeaning'
  BY EraFacts, ErasFacts
<1>2. ASSUME NEW i \in 0 .. Len(channel) + 1, EraKnown(i)'
      PROVE  EraKnown(i) /\ EraAt(i)' = EraAt(i)
  <2>1. CASE i = 0
    BY <1>2, <2>1
  <2>2. CASE i \in 1 .. Len(channel)
    BY <1>1, <1>2, <2>2 DEF EraMeaning
  <2>3. CASE i = Len(channel) + 1
    BY <1>1, <1>2, <2>3 DEF EraMeaning
  <2> QED
    BY <1>1, <2>1, <2>2, <2>3 DEF EraMeaning
<1> QED
  BY <1>2 DEF ErasAnnounced

\* A producer sends a message.
LEMMA ErasAppend ==
  ASSUME InputTypes, InputTypes', ErasAnnounced, NEW m \in Message, channel' = Append(channel, m),
         UNCHANGED <<pending_chunk, given>>,
         \/ m.type = "Chunk" /\ m.chunk.era = era /\ era' = era
         \/ m.type = "End" /\ era' = era
         \/ m.type = "Reconnected"
  PROVE  ErasAnnounced'
<1>0. PICK L \in Nat : L = Len(channel)
  BY LenProperties DEF InputTypes
<1>1. /\ L \in Nat /\ Len(channel') = L + 1 /\ channel'[L + 1] = m
      /\ \A i \in 1 .. L : channel'[i] = channel[i]
  BY <1>0, Sent, LenProperties DEF InputTypes
<1>2. EraMeaning /\ EraMeaning'
  BY EraFacts, ErasFacts
<1>3. ASSUME NEW i \in 0 .. L PROVE (EraKnown(i)' <=> EraKnown(i)) /\ EraAt(i)' = EraAt(i)
  <2>1. CASE i = 0
    BY <1>2, <2>1 DEF EraMeaning, LastGiven
  <2>2. CASE i \in 1 .. L
    BY <1>0, <1>1, <1>2, <2>2 DEF EraMeaning
  <2> QED
    BY <1>0, <1>1, <2>1, <2>2
<1>4. /\ EraKnown(L + 1) /\ EraAt(L + 1) = era /\ EraAt(L + 2)' = era'
      /\ EraKnown(L + 1)' => m.type = "Chunk"
      /\ m.type = "Chunk" => EraAt(L + 1)' = m.chunk.era
  BY <1>0, <1>1, <1>2 DEF EraMeaning
<1> SUFFICES ASSUME NEW i \in 0 .. L + 2, NEW j \in 0 .. L + 2, i < j,
                    EraKnown(i)', EraKnown(j)', EraAt(i)' # EraAt(j)'
             PROVE  \E k \in i + 1 .. j - 1 : channel'[k].type = "Reconnected"
  BY <1>0, <1>1 DEF ErasAnnounced
<1>5. CASE j <= L
  <2>1. PICK k \in i + 1 .. j - 1 : channel[k].type = "Reconnected"
    BY <1>0, <1>1, <1>3, <1>5 DEF ErasAnnounced
  <2> QED
    BY <1>0, <1>1, <1>5, <2>1
<1>6. CASE i <= L /\ j > L /\ m.type = "Reconnected"
  <2>1. L + 1 \in i + 1 .. j - 1
    BY <1>0, <1>1, <1>4, <1>6
  <2> QED
    BY <1>0, <1>1, <1>6, <2>1
<1>7. CASE i <= L /\ j > L /\ m.type # "Reconnected"
  <2>1. EraAt(j)' = era
    BY <1>0, <1>1, <1>4, <1>7
  <2>2. EraKnown(i) /\ EraKnown(L + 1) /\ EraAt(i) # EraAt(L + 1) /\ i < L + 1
    BY <1>0, <1>1, <1>3, <1>4, <1>7, <2>1
  <2>3. PICK k \in i + 1 .. (L + 1) - 1 : channel[k].type = "Reconnected"
    BY <1>0, <1>1, <2>2 DEF ErasAnnounced
  <2> QED
    BY <1>0, <1>1, <1>7, <2>3
<1>8. CASE i > L
  BY <1>0, <1>1, <1>4, <1>8
<1> QED
  BY <1>0, <1>1, <1>5, <1>6, <1>7, <1>8
LEMMA ErasKept == InputTypes /\ InputInStep /\ ErasAnnounced /\ InputMoves => ErasAnnounced'
<1> SUFFICES ASSUME InputTypes, InputInStep, ErasAnnounced, InputMoves PROVE ErasAnnounced'
  OBVIOUS
<1>0. InputTypes' /\ EraMeaning /\ EraMeaning'
  BY InputTypesKept, EraFacts, ErasFacts
<1>1. CASE Capture
  <2>1. PICK chunk \in InputChunk :
           /\ chunk.era = era
           /\ \/ channel' = channel
              \/ channel' = Append(channel, [type |-> "Chunk", chunk |-> chunk])
           /\ UNCHANGED <<receiver, era, given>>
    BY <1>1, CaptureFacts
  <2> DEFINE m == [type |-> "Chunk", chunk |-> chunk]
  <2>2. m \in Message /\ m.type = "Chunk" /\ m.chunk = chunk
    BY DEF Message
  <2>3. UNCHANGED <<pending_chunk, given, era>> /\ (channel' = channel \/ channel' = Append(channel, m))
    BY <2>1 DEF receiver
  <2> HIDE DEF m
  <2>4. CASE channel' = channel
    BY <1>0, <2>3, <2>4, ErasStay DEF EraMeaning, LastGiven
  <2>5. CASE channel' = Append(channel, m)
    BY <1>0, <2>1, <2>2, <2>3, <2>5, ErasAppend
  <2> QED
    BY <2>3, <2>4, <2>5
<1>2. CASE End
  <2> DEFINE m == [type |-> "End"]
  <2>2. m \in Message /\ m.type = "End"
    BY DEF Message
  <2>3. UNCHANGED <<pending_chunk, given, era>> /\ (channel' = channel \/ channel' = Append(channel, m))
    BY <1>2 DEF End, receiver, producer
  <2> HIDE DEF m
  <2>4. CASE channel' = channel
    BY <1>0, <2>3, <2>4, ErasStay DEF EraMeaning, LastGiven
  <2>5. CASE channel' = Append(channel, m)
    BY <1>0, <2>2, <2>3, <2>5, ErasAppend
  <2> QED
    BY <2>3, <2>4, <2>5
<1>3. CASE Reconnect
  <2>1. PICK next_sequence \in Restarts :
          channel' = Append(channel, [type |-> "Reconnected", next_sequence |-> next_sequence])
    BY <1>3 DEF Reconnect
  <2> DEFINE m == [type |-> "Reconnected", next_sequence |-> next_sequence]
  <2>2. m \in Message /\ m.type = "Reconnected"
    BY InputAssumption DEF Message
  <2>3. UNCHANGED <<pending_chunk, given>> /\ channel' = Append(channel, m)
    BY <1>3, <2>1 DEF Reconnect, receiver, history
  <2> HIDE DEF m
  <2> QED
    BY <1>0, <2>2, <2>3, ErasAppend
<1>4. CASE Receive
  <2>1. /\ Quiet /\ Returned[1] \in SourceEvent /\ given' = Append(given, Returned[1])
        /\ HeldComes \/ StreamEnds \/ ReconnectComes \/ ChunkComes \/ GapComes
    BY <1>4, ReceiveCases
  <2>2. given' # << >> /\ LastGiven' = Returned[1] /\ era' = era
    BY <2>1, Given DEF Quiet, producer
  <2>3. channel # << >> => Head(channel) = channel[1] /\ Head(channel) \in Message
    BY Rest DEF InputTypes
  <2>4. CASE HeldComes
    <3>1. given' = Append(given, Audio(pending_chunk)) /\ Audio(pending_chunk) \in SourceEvent
      BY <2>4 DEF HeldComes, Audio, SourceEvent, InputTypes, InputChunk
    <3>2. LastGiven' = Audio(pending_chunk)
      BY <3>1, Given
    <3>3. EraKnown(0) /\ EraAt(0) = pending_chunk.era /\ EraAt(0)' = pending_chunk.era
      BY <1>0, <2>2, <2>4, <3>2 DEF EraMeaning, HeldComes, Audio
    <3> QED
      BY <1>0, <2>2, <2>4, <3>3, ErasStay DEF HeldComes
  <2>5. CASE StreamEnds
    <3>1. /\ given' = Append(given, [type |-> "EndOfStream"])
          /\ [type |-> "EndOfStream"] \in SourceEvent
      BY <2>5 DEF StreamEnds, SourceEvent
    <3>2. LastGiven' = [type |-> "EndOfStream"]
      BY <3>1, Given
    <3>3. ~EraKnown(0)'
      BY <1>0, <2>2, <2>5, <3>2 DEF EraMeaning, StreamEnds
    <3> QED
      BY <1>0, <2>2, <2>5, <3>3, ErasStay, ErasShift DEF StreamEnds
  <2>6. CASE ReconnectComes
    <3>1. Gap(Head(channel).next_sequence) \in SourceEvent
      BY <2>3, <2>6, MessageTypes DEF ReconnectComes, Comes, Gap, SourceEvent, InputTypes
    <3>2. LastGiven' = Gap(Head(channel).next_sequence)
      BY <2>6, <3>1, Given DEF ReconnectComes
    <3>3. ~EraKnown(0)'
      BY <1>0, <2>2, <2>6, <3>2 DEF EraMeaning, ReconnectComes, Comes, Gap
    <3> QED
      BY <1>0, <2>2, <2>6, <3>3, ErasShift DEF ReconnectComes, Comes
  <2>7. CASE ChunkComes
    <3>1. Head(channel).chunk \in InputChunk
      BY <2>3, <2>7, MessageTypes DEF ChunkComes, Comes
    <3>2. Audio(Head(channel).chunk) \in SourceEvent
      BY <3>1 DEF Audio, SourceEvent, InputChunk
    <3>3. LastGiven' = Audio(Head(channel).chunk)
      BY <2>7, <3>2, Given DEF ChunkComes
    <3>4. EraAt(0)' = channel[1].chunk.era /\ channel[1].type = "Chunk"
      BY <1>0, <2>2, <2>3, <2>7, <3>3 DEF EraMeaning, ChunkComes, Comes, Audio
    <3> QED
      BY <1>0, <2>2, <2>7, <3>4, ErasShift DEF ChunkComes, Comes
  <2>8. CASE GapComes
    <3>1. Head(channel).chunk \in InputChunk
      BY <2>3, <2>8, MessageTypes DEF GapComes, Comes
    <3>2. pending_chunk' = channel[1].chunk /\ pending_chunk' # NoChunk
      BY <2>3, <2>8, <3>1 DEF GapComes, Comes, NoChunk, InputChunk
    <3>4. EraAt(0)' = channel[1].chunk.era /\ channel[1].type = "Chunk"
      BY <1>0, <2>3, <2>8, <3>2 DEF EraMeaning, GapComes, Comes
    <3> QED
      BY <1>0, <2>2, <2>8, <3>4, ErasShift DEF GapComes, Comes
  <2> QED
    BY <2>1, <2>4, <2>5, <2>6, <2>7, <2>8
<1>5. CASE Disconnect \/ Cancel \/ UNCHANGED inputvars
  <2>1. UNCHANGED <<channel, era, pending_chunk, given>>
    BY <1>5 DEF Disconnect, Cancel, inputvars, receiver, producer, history
  <2> QED
    BY <1>0, <2>1, ErasStay DEF EraMeaning, LastGiven
<1> QED
  BY <1>1, <1>2, <1>3, <1>4, <1>5 DEF InputMoves

\* A chunk comes after all that are accepted.
LEMMA OrderKept == InputTypes /\ ChunksInOrder /\ InputMoves => ChunksInOrder'
<1> SUFFICES ASSUME InputTypes, ChunksInOrder, InputMoves PROVE ChunksInOrder'
  OBVIOUS
<1>1. CASE Capture
  <2>1. PICK chunk \in InputChunk :
           /\ chunk.era = era /\ chunk.place = captured /\ start_frame <= chunk.start_frame
           /\ accepted' = accepted \/ accepted' = accepted \cup {chunk}
           /\ start_frame' = chunk.start_frame + chunk.frames
           /\ captured' = captured + 1 /\ era' = era
    BY <1>1, CaptureFacts
  <2>2. \A c \in accepted : c \in InputChunk
    BY DEF InputTypes
  <2>3. /\ chunk.start_frame \in Nat /\ chunk.frames \in Nat \ {0} /\ captured \in Nat
        /\ start_frame \in Nat /\ era \in Nat
    BY DEF InputTypes, InputChunk
  <2>4. ASSUME NEW c \in accepted
        PROVE  /\ c.place < captured /\ c.place < captured' /\ Before(c, chunk)
               /\ c.era < era \/ (c.era = era /\ c.start_frame + c.frames <= start_frame')
    <3>1. /\ c.place \in Nat /\ c.era \in Nat /\ c.start_frame \in Nat /\ c.frames \in Nat
          /\ c.place < captured
          /\ c.era < era \/ (c.era = era /\ c.start_frame + c.frames <= start_frame)
      BY <2>2 DEF ChunksInOrder, InputChunk
    <3> QED
      BY <2>1, <2>3, <3>1 DEF Before
  <2>5. ASSUME NEW c \in accepted', NEW d \in accepted', c.place < d.place PROVE Before(c, d)
    <3>1. c \in accepted \/ c = chunk
      BY <2>1
    <3>2. d \in accepted \/ d = chunk
      BY <2>1
    <3>3. ~(c = chunk /\ d = chunk)
      BY <2>1, <2>3, <2>5
    <3>4. ~(c = chunk /\ d \in accepted)
      <4>1. ASSUME c = chunk, d \in accepted PROVE FALSE
        <5>1. d.place \in Nat /\ d.place < captured
          BY <2>2, <2>4, <4>1 DEF InputChunk
        <5> QED
          BY <2>1, <2>3, <2>5, <4>1, <5>1
      <4> QED
        BY <4>1
    <3> QED
      BY <2>4, <2>5, <3>1, <3>2, <3>3, <3>4 DEF ChunksInOrder
  <2>6. chunk.place < captured' /\ chunk.era = era' /\ chunk.start_frame + chunk.frames <= start_frame'
    BY <2>1, <2>3
  <2> QED
    BY <2>1, <2>4, <2>5, <2>6 DEF ChunksInOrder
<1>2. CASE Reconnect
  <2>1. era' = era + 1 /\ UNCHANGED <<captured, accepted>>
    BY <1>2 DEF Reconnect, history
  <2>2. \A c \in accepted : c.era \in Nat
    BY DEF InputTypes, InputChunk
  <2>3. era \in Nat
    BY DEF InputTypes
  <2> QED
    BY <2>1, <2>2, <2>3 DEF ChunksInOrder
<1>3. CASE ~Capture /\ ~Reconnect
  <2>1. UNCHANGED <<start_frame, era, captured, accepted>>
    BY <1>3 DEF InputMoves, End, Disconnect, Cancel, Receive, inputvars, producer, history
  <2> QED
    BY <2>1 DEF ChunksInOrder
<1> QED
  BY <1>1, <1>2, <1>3
-----------------------------------------------------------------------------
\* AcceptedConserved, one chunk at a time.

Played(i) == given[i].type = "Audio"
Queued(i) == channel[i].type = "Chunk"
Held == pending_chunk # NoChunk

Somewhere(c) ==
  \/ \E i \in 1 .. Len(given) : Played(i) /\ given[i].chunk = c
  \/ Held /\ pending_chunk = c
  \/ \E i \in 1 .. Len(channel) : Queued(i) /\ channel[i].chunk = c

Placed ==
  /\ \A c \in accepted : Somewhere(c)
  /\ \A i \in 1 .. Len(given) : Played(i) => given[i].chunk \in accepted
  /\ Held => pending_chunk \in accepted
  /\ \A i \in 1 .. Len(channel) : Queued(i) => channel[i].chunk \in accepted

Ordered ==
  /\ \A i, j \in 1 .. Len(given) : Played(i) /\ Played(j) /\ i < j =>
       given[i].chunk.place < given[j].chunk.place
  /\ \A i, j \in 1 .. Len(channel) : Queued(i) /\ Queued(j) /\ i < j =>
       channel[i].chunk.place < channel[j].chunk.place
  /\ \A i \in 1 .. Len(given) : Played(i) /\ Held => given[i].chunk.place < pending_chunk.place
  /\ \A i \in 1 .. Len(given), j \in 1 .. Len(channel) : Played(i) /\ Queued(j) =>
       given[i].chunk.place < channel[j].chunk.place
  /\ \A j \in 1 .. Len(channel) : Queued(j) /\ Held =>
       pending_chunk.place < channel[j].chunk.place

LEMMA ConservedMeans == InputTypes => (AcceptedConserved <=> Placed /\ Ordered)
<1> SUFFICES ASSUME InputTypes PROVE AcceptedConserved <=> Placed /\ Ordered
  OBVIOUS
<1> DEFINE PlayedSet == {i \in DOMAIN given : given[i].type = "Audio"}
           QueuedSet == {i \in DOMAIN channel : channel[i].type = "Chunk"}
           played == {given[i].chunk : i \in PlayedSet}
           held == {pending_chunk} \ {NoChunk}
           queued == {channel[i].chunk : i \in QueuedSet}
<1>1. /\ \A i : i \in PlayedSet <=> i \in 1 .. Len(given) /\ Played(i)
      /\ \A i : i \in QueuedSet <=> i \in 1 .. Len(channel) /\ Queued(i)
      /\ \A c : c \in held <=> Held /\ pending_chunk = c
  BY LenProperties DEF InputTypes, Played, Queued, Held
<1>2. AcceptedConserved <=>
        /\ accepted = played \cup held \cup queued
        /\ \A i, j \in PlayedSet : i < j => given[i].chunk.place < given[j].chunk.place
        /\ \A i, j \in QueuedSet : i < j => channel[i].chunk.place < channel[j].chunk.place
        /\ \A c \in played, d \in held \cup queued : c.place < d.place
        /\ \A c \in held, d \in queued : c.place < d.place
  BY DEF AcceptedConserved
<1>3. /\ \A c : c \in played <=> \E i \in PlayedSet : given[i].chunk = c
      /\ \A c : c \in queued <=> \E i \in QueuedSet : channel[i].chunk = c
  OBVIOUS
<1> HIDE DEF PlayedSet, QueuedSet, played, held, queued
<1>4. accepted = played \cup held \cup queued <=> Placed
  <2>1. ASSUME accepted = played \cup held \cup queued PROVE Placed
    BY <1>1, <1>3, <2>1 DEF Placed, Somewhere
  <2>2. ASSUME Placed PROVE accepted = played \cup held \cup queued
    <3>1. \A c \in accepted : c \in played \cup held \cup queued
      BY <1>1, <1>3, <2>2 DEF Placed, Somewhere
    <3>2. \A c \in played \cup held \cup queued : c \in accepted
      BY <1>1, <1>3, <2>2 DEF Placed
    <3> QED
      BY <3>1, <3>2
  <2> QED
    BY <2>1, <2>2
<1>5. /\ (\A i, j \in PlayedSet : i < j => given[i].chunk.place < given[j].chunk.place) <=>
           (\A i, j \in 1 .. Len(given) : Played(i) /\ Played(j) /\ i < j =>
              given[i].chunk.place < given[j].chunk.place)
      /\ (\A i, j \in QueuedSet : i < j => channel[i].chunk.place < channel[j].chunk.place) <=>
           (\A i, j \in 1 .. Len(channel) : Queued(i) /\ Queued(j) /\ i < j =>
              channel[i].chunk.place < channel[j].chunk.place)
  BY <1>1, Zenon
<1>6. (\A c \in played, d \in held \cup queued : c.place < d.place) <=>
        /\ \A i \in 1 .. Len(given) : Played(i) /\ Held =>
             given[i].chunk.place < pending_chunk.place
        /\ \A i \in 1 .. Len(given), j \in 1 .. Len(channel) : Played(i) /\ Queued(j) =>
             given[i].chunk.place < channel[j].chunk.place
  BY <1>1, <1>3
<1>7. (\A c \in held, d \in queued : c.place < d.place) <=>
        (\A j \in 1 .. Len(channel) : Queued(j) /\ Held =>
           pending_chunk.place < channel[j].chunk.place)
  BY <1>1, <1>3
<1> QED
  BY <1>2, <1>4, <1>5, <1>6, <1>7, Zenon DEF Ordered

\* What is given is no audio, and no chunk moves.
LEMMA ConservedStay ==
  ASSUME InputTypes, InputTypes', Placed, Ordered, NEW e \in SourceEvent, e.type # "Audio",
         \/ given' = given
         \/ given' = Append(given, e),
         \/ channel' = channel
         \/ channel # << >> /\ Head(channel).type # "Chunk" /\ channel' = Tail(channel)
         \/ \E m \in Message : m.type # "Chunk" /\ channel' = Append(channel, m),
         accepted' = accepted, pending_chunk' = pending_chunk
  PROVE  Placed' /\ Ordered'
<1>0. PICK g \in Nat, h \in Nat, K \in Nat, L \in Nat :
        /\ g = Len(given) /\ h = Len(given') /\ K = Len(channel) /\ L = Len(channel')
  BY LenProperties DEF InputTypes
<1>1. /\ \A i \in 1 .. g : i \in 1 .. h /\ given'[i] = given[i]
      /\ \A i \in 1 .. h : Played(i)' => i \in 1 .. g
  <2>1. CASE given' = given
    BY <1>0, <2>1
  <2>2. CASE given' = Append(given, e)
    BY <1>0, <2>2, Given DEF Played
  <2> QED
    BY <2>1, <2>2
<1>2. PICK d \in {0, 1} :
        /\ \A i \in 1 .. L : Queued(i)' => i + d \in 1 .. K /\ channel'[i] = channel[i + d]
        /\ \A i \in 1 .. K : Queued(i) => i - d \in 1 .. L /\ channel'[i - d] = channel[i]
  <2>1. CASE channel' = channel
    <3> WITNESS 0 \in {0, 1}
    <3> QED
      BY <1>0, <2>1
  <2>2. CASE channel # << >> /\ Head(channel).type # "Chunk" /\ channel' = Tail(channel)
    <3>1. /\ Head(channel) = channel[1] /\ L = K - 1 /\ K >= 1
          /\ \A i \in 1 .. K - 1 : channel'[i] = channel[i + 1]
      BY <1>0, <2>2, Rest DEF InputTypes
    <3> WITNESS 1 \in {0, 1}
    <3> QED
      BY <1>0, <2>2, <3>1 DEF Queued
  <2>3. ASSUME NEW m \in Message, m.type # "Chunk", channel' = Append(channel, m)
        PROVE  \E d \in {0, 1} :
        /\ \A i \in 1 .. L : Queued(i)' => i + d \in 1 .. K /\ channel'[i] = channel[i + d]
        /\ \A i \in 1 .. K : Queued(i) => i - d \in 1 .. L /\ channel'[i - d] = channel[i]
    <3>1. L = K + 1 /\ channel'[K + 1] = m /\ \A i \in 1 .. K : channel'[i] = channel[i]
      BY <1>0, <2>3, Sent
    <3> WITNESS 0 \in {0, 1}
    <3> QED
      BY <1>0, <2>3, <3>1 DEF Queued
  <2> QED
    BY <2>1, <2>2, <2>3
<1>3. /\ \A i \in 1 .. g : Played(i)' <=> Played(i)
      /\ \A i \in 1 .. L : Queued(i)' => Queued(i + d)
      /\ \A i \in 1 .. K : Queued(i) => Queued(i - d)'
      /\ Held' <=> Held
  BY <1>1, <1>2 DEF Played, Queued, Held
<1>4. \A c : Somewhere(c) => Somewhere(c)'
  BY <1>0, <1>1, <1>2, <1>3 DEF Somewhere
<1>5. Placed'
  <2>1. \A c \in accepted' : Somewhere(c)'
    BY <1>4 DEF Placed
  <2>2. \A i \in 1 .. h : Played(i)' => given'[i].chunk \in accepted'
    BY <1>0, <1>1, <1>3 DEF Placed
  <2>3. \A i \in 1 .. L : Queued(i)' => channel'[i].chunk \in accepted'
    BY <1>0, <1>2, <1>3 DEF Placed
  <2> QED
    BY <1>0, <1>3, <2>1, <2>2, <2>3 DEF Placed
<1>6. \A i, j \in 1 .. h : Played(i)' /\ Played(j)' /\ i < j =>
        given'[i].chunk.place < given'[j].chunk.place
  BY <1>0, <1>1, <1>3 DEF Ordered
<1>7. \A i, j \in 1 .. L : Queued(i)' /\ Queued(j)' /\ i < j =>
        channel'[i].chunk.place < channel'[j].chunk.place
  BY <1>0, <1>2, <1>3 DEF Ordered
<1>8. \A i \in 1 .. h : Played(i)' /\ Held' => given'[i].chunk.place < pending_chunk'.place
  BY <1>0, <1>1, <1>3 DEF Ordered
<1>9. \A i \in 1 .. h, j \in 1 .. L : Played(i)' /\ Queued(j)' =>
        given'[i].chunk.place < channel'[j].chunk.place
  BY <1>0, <1>1, <1>2, <1>3 DEF Ordered
<1>10. \A j \in 1 .. L : Queued(j)' /\ Held' => pending_chunk'.place < channel'[j].chunk.place
  BY <1>0, <1>2, <1>3 DEF Ordered
<1> QED
  BY <1>0, <1>5, <1>6, <1>7, <1>8, <1>9, <1>10 DEF Ordered
\* A chunk is sent: it was captured after all the others.
LEMMA ConservedSent ==
  ASSUME InputTypes, InputTypes', Placed, Ordered, ChunksInOrder,
         NEW c \in InputChunk, c.place = captured,
         channel' = Append(channel, [type |-> "Chunk", chunk |-> c]),
         accepted' = accepted \cup {c}, UNCHANGED <<given, pending_chunk>>
  PROVE  Placed' /\ Ordered'
<1>0. PICK g \in Nat, K \in Nat : g = Len(given) /\ K = Len(channel)
  BY LenProperties DEF InputTypes
<1> DEFINE m == [type |-> "Chunk", chunk |-> c]
<1>1. m \in Message /\ m.type = "Chunk" /\ m.chunk = c
  BY DEF Message
<1>2. channel' = Append(channel, m)
  OBVIOUS
<1> HIDE DEF m
<1>3. /\ Len(channel') = K + 1 /\ channel'[K + 1] = m /\ \A i \in 1 .. K : channel'[i] = channel[i]
  BY <1>0, <1>1, <1>2, Sent
<1>4. /\ \A i \in 1 .. g : Played(i)' <=> Played(i)
      /\ \A i \in 1 .. K : Queued(i)' <=> Queued(i)
      /\ Queued(K + 1)' /\ channel'[K + 1].chunk = c
      /\ Held' <=> Held
  <2>1. \A i : Queued(i)' <=> channel'[i].type = "Chunk"
    BY DEF Queued
  <2> QED
    BY <1>1, <1>3, <2>1 DEF Played, Queued, Held
<1>5. \A d \in accepted : d.place < c.place
  BY DEF ChunksInOrder
<1>6. \A d \in accepted' : Somewhere(d)'
  <2>1. \A d : Somewhere(d) => Somewhere(d)'
    BY <1>0, <1>3, <1>4 DEF Somewhere
  <2>2. Somewhere(c)'
    BY <1>0, <1>3, <1>4 DEF Somewhere
  <2> QED
    BY <2>1, <2>2 DEF Placed
<1>7. Placed'
  <2>1. \A i \in 1 .. K + 1 : Queued(i)' => channel'[i].chunk \in accepted'
    BY <1>0, <1>3, <1>4 DEF Placed
  <2>2. \A i \in 1 .. g : Played(i)' => given'[i].chunk \in accepted'
    BY <1>0, <1>4 DEF Placed
  <2> QED
    BY <1>0, <1>3, <1>4, <1>6, <2>1, <2>2 DEF Placed
<1>8. \A i, j \in 1 .. K + 1 : Queued(i)' /\ Queued(j)' /\ i < j =>
        channel'[i].chunk.place < channel'[j].chunk.place
  <2> SUFFICES ASSUME NEW i \in 1 .. K + 1, NEW j \in 1 .. K + 1, Queued(i)', Queued(j)', i < j
               PROVE  channel'[i].chunk.place < channel'[j].chunk.place
    OBVIOUS
  <2>1. CASE j \in 1 .. K
    BY <1>0, <1>3, <1>4, <2>1 DEF Ordered
  <2>2. CASE j = K + 1
    BY <1>0, <1>3, <1>4, <1>5, <2>2 DEF Placed
  <2> QED
    BY <1>0, <2>1, <2>2
<1>9. \A i \in 1 .. g, j \in 1 .. K + 1 : Played(i)' /\ Queued(j)' =>
        given'[i].chunk.place < channel'[j].chunk.place
  BY <1>0, <1>3, <1>4, <1>5 DEF Placed, Ordered
<1>10. \A j \in 1 .. K + 1 : Queued(j)' /\ Held' => pending_chunk'.place < channel'[j].chunk.place
  BY <1>0, <1>3, <1>4, <1>5 DEF Placed, Ordered
<1> QED
  BY <1>0, <1>3, <1>4, <1>7, <1>8, <1>9, <1>10 DEF Ordered

\* The chunk that was held back is given.
LEMMA ConservedHeld ==
  ASSUME InputTypes, InputTypes', Placed, Ordered, HeldComes, accepted' = accepted
  PROVE  Placed' /\ Ordered'
<1>0. PICK g \in Nat, K \in Nat : g = Len(given) /\ K = Len(channel)
  BY LenProperties DEF InputTypes
<1> DEFINE e == Audio(pending_chunk)
<1>1. /\ e \in SourceEvent /\ e.type = "Audio" /\ e.chunk = pending_chunk /\ given' = Append(given, e)
  BY DEF HeldComes, Audio, SourceEvent, InputTypes, InputChunk
<1> HIDE DEF e
<1>2. Len(given') = g + 1 /\ given'[g + 1] = e /\ \A i \in 1 .. g : given'[i] = given[i]
  BY <1>0, <1>1, Given
<1>3. /\ \A i \in 1 .. g : Played(i)' <=> Played(i)
      /\ Played(g + 1)' /\ given'[g + 1].chunk = pending_chunk
      /\ \A i \in 1 .. K : (Queued(i)' <=> Queued(i)) /\ channel'[i] = channel[i]
      /\ Held /\ ~Held' /\ Len(channel') = K
  <2>1. \A i : Played(i)' <=> given'[i].type = "Audio"
    BY DEF Played
  <2> QED
    BY <1>0, <1>1, <1>2, <2>1 DEF Played, Queued, Held, HeldComes
<1>4. Placed'
  <2>1. \A d : Somewhere(d) => Somewhere(d)'
    BY <1>0, <1>2, <1>3 DEF Somewhere
  <2>2. \A i \in 1 .. g + 1 : Played(i)' => given'[i].chunk \in accepted'
    BY <1>0, <1>2, <1>3 DEF Placed
  <2>3. \A i \in 1 .. K : Queued(i)' => channel'[i].chunk \in accepted'
    BY <1>0, <1>3 DEF Placed
  <2> QED
    BY <1>0, <1>2, <1>3, <2>1, <2>2, <2>3 DEF Placed
<1>5. \A i, j \in 1 .. g + 1 : Played(i)' /\ Played(j)' /\ i < j =>
        given'[i].chunk.place < given'[j].chunk.place
  <2> SUFFICES ASSUME NEW i \in 1 .. g + 1, NEW j \in 1 .. g + 1, Played(i)', Played(j)', i < j
               PROVE  given'[i].chunk.place < given'[j].chunk.place
    OBVIOUS
  <2>1. CASE j \in 1 .. g
    BY <1>0, <1>2, <1>3, <2>1 DEF Ordered
  <2>2. CASE j = g + 1
    BY <1>0, <1>2, <1>3, <2>2 DEF Ordered
  <2> QED
    BY <1>0, <2>1, <2>2
<1>6. \A i \in 1 .. g + 1, j \in 1 .. K : Played(i)' /\ Queued(j)' =>
        given'[i].chunk.place < channel'[j].chunk.place
  BY <1>0, <1>2, <1>3 DEF Ordered
<1>7. \A i, j \in 1 .. K : Queued(i)' /\ Queued(j)' /\ i < j =>
        channel'[i].chunk.place < channel'[j].chunk.place
  BY <1>0, <1>3 DEF Ordered
<1> QED
  BY <1>2, <1>3, <1>4, <1>5, <1>6, <1>7 DEF Ordered

\* The first chunk of the channel is given, or held back.
LEMMA ConservedTaken ==
  ASSUME InputTypes, InputTypes', Placed, Ordered, ChunkComes \/ GapComes, accepted' = accepted
  PROVE  Placed' /\ Ordered'
<1>0. PICK g \in Nat, K \in Nat : g = Len(given) /\ K = Len(channel)
  BY LenProperties DEF InputTypes
<1> DEFINE c == Head(channel).chunk
<1>1. /\ Head(channel) \in Message /\ Head(channel) = channel[1] /\ K >= 1 /\ Len(channel') = K - 1
      /\ \A i \in 1 .. K - 1 : channel'[i] = channel[i + 1]
      /\ Queued(1) /\ ~Held
  <2>1. /\ channel \in Seq(Message) /\ channel # << >> /\ channel' = Tail(channel)
        /\ Head(channel).type = "Chunk" /\ pending_chunk = NoChunk
    BY DEF InputTypes, ChunkComes, GapComes, Comes
  <2>2. /\ Head(channel) \in Message /\ Head(channel) = channel[1] /\ K >= 1
        /\ Len(channel') = K - 1 /\ \A i \in 1 .. K - 1 : channel'[i] = channel[i + 1]
    BY <1>0, <2>1, Rest
  <2> QED
    BY <2>1, <2>2 DEF Queued, Held
<1>2. c \in InputChunk /\ c = channel[1].chunk
  BY <1>1, MessageTypes DEF Queued
<1>3. /\ ChunkComes => given' = Append(given, Audio(c)) /\ pending_chunk' = NoChunk
      /\ GapComes => given' = Append(given, Gap(c.sequence)) /\ pending_chunk' = c
  BY DEF ChunkComes, GapComes, Comes
<1> HIDE DEF c
<1>4. \A i \in 1 .. K - 1 : Queued(i)' <=> Queued(i + 1)
  BY <1>1 DEF Queued
<1>5. \A i \in 1 .. K - 1 : Queued(i + 1) => c.place < channel[i + 1].chunk.place
  BY <1>0, <1>1, <1>2 DEF Ordered
<1>6. \A i, j \in 1 .. K - 1 : Queued(i)' /\ Queued(j)' /\ i < j =>
        channel'[i].chunk.place < channel'[j].chunk.place
  BY <1>0, <1>1, <1>4 DEF Ordered
<1>7. \A i \in 1 .. K - 1 : Queued(i)' => channel'[i].chunk \in accepted'
  BY <1>0, <1>1, <1>4 DEF Placed
<1>8. c \in accepted /\ \A i \in 1 .. g : Played(i) => given[i].chunk.place < c.place
  BY <1>0, <1>1, <1>2 DEF Placed, Ordered
<1>9. \A j \in 1 .. K : Queued(j) => j = 1 \/ (j - 1 \in 1 .. K - 1 /\ Queued(j - 1)'
                                             /\ channel'[j - 1] = channel[j])
  BY <1>1, <1>4
<1>10. CASE ChunkComes
  <2>1. /\ Audio(c) \in SourceEvent /\ Audio(c).type = "Audio" /\ Audio(c).chunk = c
    BY <1>2 DEF Audio, SourceEvent, InputChunk
  <2>2. Len(given') = g + 1 /\ given'[g + 1] = Audio(c) /\ \A i \in 1 .. g : given'[i] = given[i]
    BY <1>0, <1>3, <1>10, <2>1, Given
  <2>3. /\ \A i \in 1 .. g : Played(i)' <=> Played(i)
        /\ Played(g + 1)' /\ given'[g + 1].chunk = c /\ ~Held'
    <3>1. \A i : Played(i)' <=> given'[i].type = "Audio"
      BY DEF Played
    <3> QED
      BY <1>3, <1>10, <2>1, <2>2, <3>1 DEF Played, Held
  <2>4. Placed'
    <3>1. \A d : Somewhere(d) => Somewhere(d)'
      <4> SUFFICES ASSUME NEW d, Somewhere(d) PROVE Somewhere(d)'
        OBVIOUS
      <4>1. \/ \E i \in 1 .. g : Played(i) /\ given[i].chunk = d
            \/ \E j \in 1 .. K : Queued(j) /\ channel[j].chunk = d
        BY <1>0, <1>1 DEF Somewhere
      <4>2. CASE \E i \in 1 .. g : Played(i) /\ given[i].chunk = d
        BY <2>2, <2>3, <4>2 DEF Somewhere
      <4>3. CASE \E j \in 1 .. K : Queued(j) /\ channel[j].chunk = d
        BY <1>1, <1>2, <1>9, <2>2, <2>3, <4>3 DEF Somewhere
      <4> QED
        BY <4>1, <4>2, <4>3
    <3>2. \A i \in 1 .. g + 1 : Played(i)' => given'[i].chunk \in accepted'
      BY <1>0, <1>8, <2>2, <2>3 DEF Placed
    <3> QED
      BY <1>1, <1>7, <2>2, <2>3, <3>1, <3>2 DEF Placed
  <2>5. \A i, j \in 1 .. g + 1 : Played(i)' /\ Played(j)' /\ i < j =>
          given'[i].chunk.place < given'[j].chunk.place
    <3> SUFFICES ASSUME NEW i \in 1 .. g + 1, NEW j \in 1 .. g + 1, Played(i)', Played(j)', i < j
                 PROVE  given'[i].chunk.place < given'[j].chunk.place
      OBVIOUS
    <3>1. CASE j \in 1 .. g
      BY <1>0, <2>2, <2>3, <3>1 DEF Ordered
    <3>2. CASE j = g + 1
      BY <1>0, <1>8, <2>2, <2>3, <3>2
    <3> QED
      BY <1>0, <3>1, <3>2
  <2>6. \A i \in 1 .. g + 1, j \in 1 .. K - 1 : Played(i)' /\ Queued(j)' =>
          given'[i].chunk.place < channel'[j].chunk.place
    <3> SUFFICES ASSUME NEW i \in 1 .. g + 1, NEW j \in 1 .. K - 1, Played(i)', Queued(j)'
                 PROVE  given'[i].chunk.place < channel'[j].chunk.place
      OBVIOUS
    <3>1. Queued(j + 1) /\ channel'[j] = channel[j + 1] /\ j + 1 \in 1 .. K
      BY <1>1, <1>4
    <3>2. CASE i \in 1 .. g
      BY <1>0, <2>2, <2>3, <3>1, <3>2 DEF Ordered
    <3>3. CASE i = g + 1
      BY <1>5, <2>3, <3>1, <3>3
    <3> QED
      BY <3>2, <3>3
  <2> QED
    BY <1>1, <1>6, <2>2, <2>3, <2>4, <2>5, <2>6 DEF Ordered
<1>11. CASE GapComes
  <2>1. /\ Gap(c.sequence) \in SourceEvent /\ Gap(c.sequence).type # "Audio"
    BY <1>2 DEF Gap, SourceEvent, InputChunk, InputTypes
  <2>2. /\ Len(given') = g + 1 /\ given'[g + 1] = Gap(c.sequence)
        /\ \A i \in 1 .. g : given'[i] = given[i]
    BY <1>0, <1>3, <1>11, <2>1, Given
  <2>3. /\ \A i \in 1 .. g : Played(i)' <=> Played(i)
        /\ ~Played(g + 1)' /\ Held' /\ pending_chunk' = c
    <3>1. \A i : Played(i)' <=> given'[i].type = "Audio"
      BY DEF Played
    <3>2. c # NoChunk
      BY <1>2 DEF InputChunk, NoChunk
    <3> QED
      BY <1>3, <1>11, <2>1, <2>2, <3>1, <3>2 DEF Played, Held
  <2>4. Placed'
    <3>1. \A d : Somewhere(d) => Somewhere(d)'
      <4> SUFFICES ASSUME NEW d, Somewhere(d) PROVE Somewhere(d)'
        OBVIOUS
      <4>1. \/ \E i \in 1 .. g : Played(i) /\ given[i].chunk = d
            \/ \E j \in 1 .. K : Queued(j) /\ channel[j].chunk = d
        BY <1>0, <1>1 DEF Somewhere
      <4>2. CASE \E i \in 1 .. g : Played(i) /\ given[i].chunk = d
        BY <2>2, <2>3, <4>2 DEF Somewhere
      <4>3. CASE \E j \in 1 .. K : Queued(j) /\ channel[j].chunk = d
        BY <1>1, <1>2, <1>9, <2>2, <2>3, <4>3 DEF Somewhere
      <4> QED
        BY <4>1, <4>2, <4>3
    <3>2. \A i \in 1 .. g + 1 : Played(i)' => given'[i].chunk \in accepted'
      BY <1>0, <2>2, <2>3 DEF Placed
    <3> QED
      BY <1>1, <1>7, <1>8, <2>2, <2>3, <3>1, <3>2 DEF Placed
  <2>5. \A i, j \in 1 .. g + 1 : Played(i)' /\ Played(j)' /\ i < j =>
          given'[i].chunk.place < given'[j].chunk.place
    BY <1>0, <2>2, <2>3 DEF Ordered
  <2>6. \A i \in 1 .. g + 1, j \in 1 .. K - 1 : Played(i)' /\ Queued(j)' =>
          given'[i].chunk.place < channel'[j].chunk.place
    <3> SUFFICES ASSUME NEW i \in 1 .. g + 1, NEW j \in 1 .. K - 1, Played(i)', Queued(j)'
                 PROVE  given'[i].chunk.place < channel'[j].chunk.place
      OBVIOUS
    <3>1. Queued(j + 1) /\ channel'[j] = channel[j + 1] /\ j + 1 \in 1 .. K
      BY <1>1, <1>4
    <3>2. i \in 1 .. g
      BY <2>3
    <3> QED
      BY <1>0, <2>2, <2>3, <3>1, <3>2 DEF Ordered
  <2>7. /\ \A i \in 1 .. g + 1 : Played(i)' => given'[i].chunk.place < pending_chunk'.place
        /\ \A j \in 1 .. K - 1 : Queued(j)' => pending_chunk'.place < channel'[j].chunk.place
    BY <1>1, <1>4, <1>5, <1>8, <2>2, <2>3
  <2> QED
    BY <1>1, <1>6, <2>2, <2>3, <2>4, <2>5, <2>6, <2>7 DEF Ordered
<1> QED
  BY <1>10, <1>11
LEMMA ConservedKept ==
  InputTypes /\ ChunksInOrder /\ AcceptedConserved /\ InputMoves => AcceptedConserved'
<1> SUFFICES ASSUME InputTypes, ChunksInOrder, AcceptedConserved, InputMoves
             PROVE  AcceptedConserved'
  OBVIOUS
<1>0. InputTypes' /\ Placed /\ Ordered
  BY InputTypesKept, ConservedMeans
<1> SUFFICES Placed' /\ Ordered'
  <2>1. InputTypes' => (AcceptedConserved' <=> Placed' /\ Ordered')
    BY ConservedMeans, PTL
  <2> QED
    BY <1>0, <2>1
<1>1. \E e \in SourceEvent : e.type # "Audio"
  <2>1. [type |-> "EndOfStream"] \in SourceEvent
    BY DEF SourceEvent
  <2> QED
    BY <2>1
<1>2. CASE Capture
  <2>1. PICK chunk \in InputChunk :
           /\ chunk.place = captured
           /\ \/ channel' = channel /\ accepted' = accepted
              \/ /\ channel' = Append(channel, [type |-> "Chunk", chunk |-> chunk])
                 /\ accepted' = accepted \cup {chunk}
           /\ UNCHANGED <<receiver, given>>
    BY <1>2, CaptureFacts
  <2>2. UNCHANGED <<given, pending_chunk>>
    BY <2>1 DEF receiver
  <2>3. CASE channel' = channel /\ accepted' = accepted
    BY <1>0, <1>1, <2>2, <2>3, ConservedStay
  <2>4. CASE /\ channel' = Append(channel, [type |-> "Chunk", chunk |-> chunk])
             /\ accepted' = accepted \cup {chunk}
    BY <1>0, <2>1, <2>2, <2>4, ConservedSent
  <2> QED
    BY <2>1, <2>3, <2>4
<1>3. CASE End
  <2>1. [type |-> "End"] \in Message /\ [type |-> "End"].type # "Chunk"
    BY DEF Message
  <2>2. UNCHANGED <<given, accepted, pending_chunk>>
    BY <1>3 DEF End, receiver
  <2>3. channel' = channel \/ \E m \in Message : m.type # "Chunk" /\ channel' = Append(channel, m)
    BY <1>3, <2>1 DEF End
  <2> QED
    BY <1>0, <1>1, <2>2, <2>3, ConservedStay
<1>4. CASE Reconnect
  <2>1. UNCHANGED <<given, accepted, pending_chunk>>
    BY <1>4 DEF Reconnect, receiver, history
  <2>2. PICK next \in Restarts : channel' = Append(channel, [type |-> "Reconnected", next_sequence |-> next])
    BY <1>4 DEF Reconnect
  <2>3. /\ [type |-> "Reconnected", next_sequence |-> next] \in Message
        /\ [type |-> "Reconnected", next_sequence |-> next].type # "Chunk"
    BY InputAssumption DEF Message
  <2>4. \E m \in Message : m.type # "Chunk" /\ channel' = Append(channel, m)
    BY <2>2, <2>3
  <2> QED
    BY <1>0, <1>1, <2>1, <2>4, ConservedStay
<1>5. CASE Receive
  <2>1. /\ Quiet /\ Returned[1] \in SourceEvent /\ given' = Append(given, Returned[1])
        /\ HeldComes \/ StreamEnds \/ ReconnectComes \/ ChunkComes \/ GapComes
    BY <1>5, ReceiveCases
  <2>2. accepted' = accepted /\ (channel # << >> => Head(channel) \in Message)
    BY <2>1, Rest DEF Quiet, InputTypes
  <2>3. CASE StreamEnds
    <3>1. /\ given' = Append(given, [type |-> "EndOfStream"])
          /\ [type |-> "EndOfStream"] \in SourceEvent /\ [type |-> "EndOfStream"].type # "Audio"
      BY <2>3 DEF StreamEnds, SourceEvent
    <3>2. \/ channel' = channel
          \/ channel # << >> /\ Head(channel).type # "Chunk" /\ channel' = Tail(channel)
      BY <2>3 DEF StreamEnds
    <3> QED
      BY <1>0, <2>2, <2>3, <3>1, <3>2, ConservedStay DEF StreamEnds
  <2>4. CASE ReconnectComes
    <3> DEFINE e == Gap(Head(channel).next_sequence)
    <3>1. given' = Append(given, e) /\ e \in SourceEvent /\ e.type # "Audio"
      BY <2>2, <2>4, MessageTypes DEF ReconnectComes, Comes, Gap, SourceEvent, InputTypes
    <3>2. channel # << >> /\ Head(channel).type # "Chunk" /\ channel' = Tail(channel)
          /\ pending_chunk' = pending_chunk
      BY <2>4 DEF ReconnectComes, Comes
    <3> HIDE DEF e
    <3> QED
      BY <1>0, <2>2, <3>1, <3>2, ConservedStay
  <2> QED
    BY <1>0, <2>1, <2>2, <2>3, <2>4, ConservedHeld, ConservedTaken
<1>6. CASE Disconnect \/ Cancel \/ UNCHANGED inputvars
  <2>1. UNCHANGED <<channel, accepted, pending_chunk, given>>
    BY <1>6 DEF Disconnect, Cancel, inputvars, receiver, producer, history
  <2> QED
    BY <1>0, <1>1, <2>1, ConservedStay
<1> QED
  BY <1>2, <1>3, <1>4, <1>5, <1>6 DEF InputMoves

-----------------------------------------------------------------------------
\* A chunk that comes is of the connection the last one was of, unless a gap was given.
LEMMA SameEra ==
  ASSUME InputTypes, ErasAnnounced, channel # << >>, channel[1].type = "Chunk", EraKnown(0)
  PROVE  EraAt(0) = channel[1].chunk.era
<1>1. Len(channel) \in Nat /\ Len(channel) >= 1
  BY Rest, LenProperties DEF InputTypes
<1>2. EraKnown(1) /\ EraAt(1) = channel[1].chunk.era
  BY <1>1, EraFacts DEF EraMeaning
<1>3. 0 \in 0 .. Len(channel) + 1 /\ 1 \in 0 .. Len(channel) + 1 /\ 0 < 1
  BY <1>1
<1>4. ~\E k \in 0 + 1 .. 1 - 1 : channel[k].type = "Reconnected"
  OBVIOUS
<1>5. EraAt(0) = EraAt(1)
  BY <1>2, <1>3, <1>4 DEF ErasAnnounced
<1> QED
  BY <1>2, <1>5

LEMMA GapsKept ==
  InputTypes /\ InputInStep /\ ErasAnnounced /\ GapsAnnounced /\ InputMoves => GapsAnnounced'
<1> SUFFICES ASSUME InputTypes, InputInStep, ErasAnnounced, GapsAnnounced, InputMoves
             PROVE  GapsAnnounced'
  OBVIOUS
<1>1. CASE Receive
  <2>1. /\ ~ended /\ Returned[1] \in SourceEvent /\ given' = Append(given, Returned[1])
        /\ HeldComes \/ StreamEnds \/ ReconnectComes \/ ChunkComes \/ GapComes
    BY <1>1, ReceiveCases
  <2>0. PICK g \in Nat : g = Len(given)
    BY LenProperties DEF InputTypes
  <2>2. ASSUME NEW e \in SourceEvent, given' = Append(given, e),
               e.type = "Audio" =>
                 \/ g = 0 /\ e.chunk.sequence = 0 /\ e.chunk.era = 0
                 \/ g > 0 /\ LastGiven.type = "Discontinuity" /\ LastGiven.received = e.chunk.sequence
                 \/ g > 0 /\ LastGiven.type = "Audio" /\ LastGiven.chunk.era = e.chunk.era
                      /\ LastGiven.sequence + 1 = e.chunk.sequence
        PROVE  GapsAnnounced'
    <3>1. /\ DOMAIN given = 1 .. g /\ DOMAIN given' = 1 .. g + 1
          /\ given'[g + 1] = e /\ \A i \in 1 .. g : given'[i] = given[i]
      BY <2>0, <2>2, Given
    <3> SUFFICES ASSUME NEW i \in 1 .. g + 1, given'[i].type = "Audio"
                 PROVE  LET chunk == given'[i].chunk IN
                        \/ i = 1 /\ chunk.sequence = 0 /\ chunk.era = 0
                        \/ i > 1 /\ given'[i - 1].type = "Discontinuity"
                             /\ given'[i - 1].received = chunk.sequence
                        \/ i > 1 /\ given'[i - 1].type = "Audio" /\ given'[i - 1].chunk.era = chunk.era
                             /\ given'[i - 1].sequence + 1 = chunk.sequence
      BY <3>1 DEF GapsAnnounced
    <3>2. CASE i \in 1 .. g
      <4>1. i > 1 => i - 1 \in 1 .. g
        BY <3>2
      <4> QED
        BY <3>1, <3>2, <4>1 DEF GapsAnnounced
    <3>3. CASE i = g + 1
      <4>1. g > 0 => LastGiven = given'[g]
        BY <2>0, <3>1 DEF LastGiven
      <4>2. (g + 1) - 1 = g
        BY <2>0
      <4> QED
        BY <2>2, <3>1, <3>3, <4>1, <4>2
    <3> QED
      BY <3>2, <3>3
  <2>3. channel # << >> => Head(channel) = channel[1] /\ Head(channel) \in Message
    BY Rest DEF InputTypes
  <2>4. given # << >> => g > 0 /\ LastGiven \in SourceEvent
    BY <2>0, EmptySeq, LenProperties, ElementOfSeq DEF InputTypes, LastGiven
  <2>5. given = << >> => g = 0
    BY <2>0
  <2>6. CASE HeldComes
    <3> DEFINE e == Audio(pending_chunk)
    <3>1. e \in SourceEvent /\ e.chunk = pending_chunk /\ given' = Append(given, e)
      BY <2>6 DEF HeldComes, Audio, SourceEvent, InputTypes, InputChunk
    <3>2. /\ given # << >> /\ LastGiven.type = "Discontinuity"
          /\ LastGiven.received = pending_chunk.sequence
      BY <2>6 DEF HeldComes, InputInStep
    <3> HIDE DEF e
    <3> QED
      BY <2>2, <2>4, <3>1, <3>2
  <2>7. CASE ChunkComes
    <3> DEFINE c == Head(channel).chunk
               e == Audio(c)
    <3>1. c \in InputChunk /\ c = channel[1].chunk /\ channel[1].type = "Chunk" /\ channel # << >>
      BY <2>3, <2>7, MessageTypes DEF ChunkComes, Comes
    <3>2. /\ given' = Append(given, e) /\ c.sequence = expected_sequence /\ pending_chunk = NoChunk
      BY <2>7 DEF ChunkComes, Comes
    <3> HIDE DEF c
    <3>3. e \in SourceEvent /\ e.chunk = c
      BY <3>1 DEF Audio, SourceEvent, InputChunk
    <3> HIDE DEF e
    <3>4. EraKnown(0) => EraAt(0) = c.era
      BY <3>1, SameEra
    <3>5. CASE given = << >>
      <4>1. EraKnown(0) /\ EraAt(0) = 0
        BY <3>2, <3>5, EraFacts DEF EraMeaning
      <4> QED
        BY <2>2, <2>5, <3>2, <3>3, <3>4, <3>5, <4>1 DEF InputInStep
    <3>6. CASE given # << >> /\ LastGiven.type = "Audio"
      <4>1. EraKnown(0) /\ EraAt(0) = LastGiven.chunk.era
        BY <3>2, <3>6, EraFacts DEF EraMeaning
      <4> QED
        BY <2>2, <2>4, <3>2, <3>3, <3>4, <3>6, <4>1 DEF InputInStep
    <3>7. CASE given # << >> /\ LastGiven.type = "Discontinuity"
      BY <2>2, <2>4, <3>2, <3>3, <3>7 DEF InputInStep
    <3>8. given # << >> => LastGiven.type # "EndOfStream"
      BY <2>1 DEF InputInStep
    <3> QED
      BY <2>4, <3>5, <3>6, <3>7, <3>8, EventTypes
  <2>8. CASE StreamEnds
    <3>1. /\ given' = Append(given, [type |-> "EndOfStream"])
          /\ [type |-> "EndOfStream"] \in SourceEvent /\ [type |-> "EndOfStream"].type # "Audio"
      BY <2>8 DEF StreamEnds, SourceEvent
    <3> QED
      BY <2>2, <3>1
  <2>9. CASE ReconnectComes
    <3> DEFINE e == Gap(Head(channel).next_sequence)
    <3>1. given' = Append(given, e) /\ e \in SourceEvent /\ e.type # "Audio"
      BY <2>3, <2>9, MessageTypes DEF ReconnectComes, Comes, Gap, SourceEvent, InputTypes
    <3> HIDE DEF e
    <3> QED
      BY <2>2, <3>1
  <2>10. CASE GapComes
    <3> DEFINE e == Gap(Head(channel).chunk.sequence)
    <3>1. Head(channel).chunk \in InputChunk
      BY <2>3, <2>10, MessageTypes DEF GapComes, Comes
    <3>2. given' = Append(given, e) /\ e \in SourceEvent /\ e.type # "Audio"
      BY <2>10, <3>1 DEF GapComes, Gap, SourceEvent, InputTypes, InputChunk
    <3> HIDE DEF e
    <3> QED
      BY <2>2, <3>2
  <2> QED
    BY <2>1, <2>6, <2>7, <2>8, <2>9, <2>10
<1>2. CASE ~Receive
  <2>1. UNCHANGED given
    BY <1>2, CaptureFacts DEF InputMoves, End, Reconnect, Disconnect, Cancel, inputvars, history
  <2> QED
    BY <2>1 DEF GapsAnnounced
<1> QED
  BY <1>1, <1>2

LEMMA InputInvInit == InputInit => InputInv
<1> SUFFICES ASSUME InputInit PROVE InputInv
  OBVIOUS
<1>1. InputTypes
  <2>1. << >> \in Seq(Message) /\ << >> \in Seq(SourceEvent)
    BY EmptySeq
  <2> QED
    BY <2>1 DEF InputInit, InputTypes
<1>2. InputInStep /\ ChunksInOrder /\ GapsAnnounced
  BY DEF InputInit, InputInStep, ChunksInOrder, GapsAnnounced
<1>3. ErasAnnounced
  <2>1. Len(channel) = 0 /\ EraAt(0) = 0 /\ EraAt(1) = 0
    BY <1>1, EraFacts DEF InputInit, EraMeaning
  <2> QED
    BY <2>1 DEF ErasAnnounced
<1>4. AcceptedConserved
  <2>1. Len(channel) = 0 /\ Len(given) = 0 /\ ~Held /\ accepted = {}
    BY DEF InputInit, Held
  <2>2. Placed /\ Ordered
    BY <2>1 DEF Placed, Ordered
  <2> QED
    BY <1>1, <2>2, ConservedMeans
<1> QED
  BY <1>1, <1>2, <1>3, <1>4 DEF InputInv

LEMMA InputInvKept == InputInv /\ InputMoves => InputInv'
BY InputTypesKept, InStepKept, ErasKept, OrderKept, ConservedKept, GapsKept DEF InputInv
-----------------------------------------------------------------------------
LEMMA RunFacts ==
  ASSUME NEW q \in Seq(Sample), NEW at \in Nat, NEW e \in Nat, Run(q, at, e), q # << >>
  PROVE  /\ Stretch(q) /\ q[1].at = at /\ q[1].era = e
         /\ q[Len(q)].at + 1 = at + Len(q) /\ q[Len(q)].era = e
<1>1. Len(q) \in Nat /\ Len(q) >= 1
  BY EmptySeq, LenProperties
<1>2. \A i \in 1 .. Len(q) : q[i].at = at + i - 1 /\ q[i].era = e
  BY DEF Run
<1>3. Stretch(q)
  <2> SUFFICES ASSUME NEW i \in 1 .. Len(q) - 1
               PROVE  q[i + 1].at = q[i].at + 1 /\ q[i + 1].era = q[i].era
    BY DEF Stretch
  <2>1. i \in 1 .. Len(q) /\ i + 1 \in 1 .. Len(q) /\ i \in Nat
    BY <1>1
  <2>2. (at + (i + 1)) - 1 = (at + i - 1) + 1
    BY <2>1
  <2> QED
    BY <1>2, <2>1, <2>2
<1>4. 1 \in 1 .. Len(q) /\ Len(q) \in 1 .. Len(q)
  BY <1>1
<1>5. at + 1 - 1 = at /\ (at + Len(q) - 1) + 1 = at + Len(q)
  BY <1>1
<1> QED
  BY <1>2, <1>3, <1>4, <1>5

\* Its first samples, and those behind them.
LEMMA RunParts ==
  ASSUME NEW q \in Seq(Sample), NEW at \in Nat, NEW e \in Nat, Run(q, at, e),
         NEW n \in Nat, n <= Len(q)
  PROVE  /\ SubSeq(q, 1, n) \in Seq(Sample) /\ Len(SubSeq(q, 1, n)) = n
         /\ Run(SubSeq(q, 1, n), at, e)
         /\ \A i \in 1 .. n : SubSeq(q, 1, n)[i] = q[i]
         /\ SubSeq(q, n + 1, Len(q)) \in Seq(Sample) /\ Len(SubSeq(q, n + 1, Len(q))) = Len(q) - n
         /\ Run(SubSeq(q, n + 1, Len(q)), at + n, e)
         /\ \A i \in n + 1 .. Len(q) : SubSeq(q, n + 1, Len(q))[i - n] = q[i]
<1> DEFINE p == SubSeq(q, 1, n)
           r == SubSeq(q, n + 1, Len(q))
<1>1. Len(q) \in Nat /\ \A i \in 1 .. Len(q) : q[i] \in Sample
  BY LenProperties, ElementOfSeq
<1>2. /\ p \in Seq(Sample) /\ Len(p) = n /\ \A i \in 1 .. n : p[i] = q[i]
  <2>1. \A i \in 1 .. n : q[i] \in Sample
    BY <1>1
  <2>2. /\ p \in Seq(Sample)
        /\ Len(p) = IF 1 <= n THEN n - 1 + 1 ELSE 0
        /\ \A i \in 1 .. n - 1 + 1 : p[i] = q[1 + i - 1]
    BY <2>1, SubSeqProperties
  <2> HIDE DEF p
  <2> QED
    BY <2>2
<1>3. /\ r \in Seq(Sample) /\ Len(r) = Len(q) - n
      /\ \A i \in 1 .. Len(q) - n : r[i] = q[n + i]
  <2>1. r \in Seq(Sample) /\ Len(r) = Len(q) - n /\ EndsWith(q, r)
    BY SuffixFacts
  <2> HIDE DEF r
  <2> QED
    BY <1>1, <2>1 DEF EndsWith
<1> HIDE DEF p, r
<1>4. Run(p, at, e)
  <2> SUFFICES ASSUME NEW i \in 1 .. n PROVE p[i].at = at + i - 1 /\ p[i].era = e
    BY <1>2 DEF Run
  <2>1. i \in 1 .. Len(q) /\ p[i] = q[i]
    BY <1>1, <1>2
  <2> QED
    BY <2>1 DEF Run
<1>5. Run(r, at + n, e)
  <2> SUFFICES ASSUME NEW i \in 1 .. Len(q) - n
               PROVE  r[i].at = (at + n) + i - 1 /\ r[i].era = e
    BY <1>3 DEF Run
  <2>1. n + i \in 1 .. Len(q) /\ at + (n + i) - 1 = (at + n) + i - 1
    BY <1>1
  <2> QED
    BY <1>3, <2>1 DEF Run
<1>6. \A i \in n + 1 .. Len(q) : r[i - n] = q[i]
  <2> SUFFICES ASSUME NEW i \in n + 1 .. Len(q) PROVE r[i - n] = q[i]
    OBVIOUS
  <2>1. i - n \in 1 .. Len(q) - n /\ n + (i - n) = i
    BY <1>1
  <2> QED
    BY <1>3, <2>1
<1> QED
  BY <1>2, <1>3, <1>4, <1>5, <1>6 DEF p, r

\* The samples of a chunk, and behind those that wait.
LEMMA SampleFacts ==
  ASSUME NEW c \in InputChunk
  PROVE  /\ Samples(c) \in Seq(Sample) /\ Len(Samples(c)) = c.frames /\ Samples(c) # << >>
         /\ Run(Samples(c), c.start_frame, c.era)
         /\ \A x \in ToSet(Samples(c)) :
              /\ x.era = c.era /\ x.at \in Nat
              /\ c.start_frame <= x.at /\ x.at < c.start_frame + c.frames
<1>1. c.start_frame \in Nat /\ c.frames \in Nat \ {0} /\ c.era \in Nat
  BY DEF InputChunk
<1> DEFINE value(i) == [at |-> c.start_frame + i - 1, era |-> c.era]
<1>2. ASSUME NEW i \in 1 .. c.frames
      PROVE  /\ value(i) \in Sample /\ value(i).at \in Nat /\ value(i).era = c.era
             /\ c.start_frame <= value(i).at /\ value(i).at < c.start_frame + c.frames
  BY <1>1 DEF Sample
<1>3. Samples(c) = [i \in 1 .. c.frames |-> value(i)]
  BY DEF Samples
<1> HIDE DEF value
<1>4. Samples(c) \in Seq(Sample)
  BY <1>1, <1>2, <1>3, IsASeq
<1>5. Len(Samples(c)) = c.frames /\ \A i \in 1 .. c.frames : Samples(c)[i] = value(i)
  BY <1>1, <1>3, <1>4, LenProperties
<1>6. Samples(c) # << >>
  BY <1>1, <1>5
<1>7. Run(Samples(c), c.start_frame, c.era)
  <2> SUFFICES ASSUME NEW i \in 1 .. c.frames
               PROVE  Samples(c)[i].at = c.start_frame + i - 1 /\ Samples(c)[i].era = c.era
    BY <1>5 DEF Run
  <2>1. Samples(c)[i] = value(i)
    BY <1>5
  <2> QED
    BY <2>1 DEF value
<1>8. ASSUME NEW x \in ToSet(Samples(c)) PROVE \E i \in 1 .. c.frames : x = value(i)
  BY <1>3, <1>5, <1>8 DEF ToSet
<1> QED
  BY <1>2, <1>4, <1>5, <1>6, <1>7, <1>8

LEMMA RunJoined ==
  ASSUME NEW q \in Seq(Sample), NEW at \in Nat, NEW e \in Nat, Run(q, at, e),
         NEW p \in Seq(Sample), Run(p, at + Len(q), e)
  PROVE  q \o p \in Seq(Sample) /\ Len(q \o p) = Len(q) + Len(p) /\ Run(q \o p, at, e)
<1> DEFINE r == q \o p
<1>1. /\ r \in Seq(Sample) /\ Len(r) = Len(q) + Len(p) /\ Len(q) \in Nat /\ Len(p) \in Nat
      /\ \A i \in 1 .. Len(q) + Len(p) : r[i] = IF i <= Len(q) THEN q[i] ELSE p[i - Len(q)]
  BY ConcatProperties, LenProperties
<1> HIDE DEF r
<1>2. ASSUME NEW i \in 1 .. Len(q) + Len(p) PROVE r[i].at = at + i - 1 /\ r[i].era = e
  <2>1. CASE i <= Len(q)
    BY <1>1, <2>1 DEF Run
  <2>2. CASE i > Len(q)
    <3>1. i - Len(q) \in 1 .. Len(p) /\ (at + Len(q)) + (i - Len(q)) - 1 = at + i - 1
      BY <1>1, <2>2
    <3> QED
      BY <1>1, <2>2, <3>1 DEF Run
  <2> QED
    BY <1>1, <2>1, <2>2
<1>3. Run(r, at, e)
  BY <1>1, <1>2 DEF Run
<1> QED
  BY <1>1, <1>3 DEF r
-----------------------------------------------------------------------------
\* A frame of samples that come one after the other.
LEMMA FrameMade ==
  ASSUME NEW q \in Seq(Sample), NEW e \in Nat, pending_start_frame \in Nat,
         Run(q, pending_start_frame, e), q # << >>, NEW speech \in BOOLEAN
  PROVE  LET f == Frame(q, speech) IN
         /\ f \in VadFrame /\ f.samples = q
         /\ f.samples[1].at = pending_start_frame /\ f.samples[1].era = e
         /\ LastSample(f).at + 1 = pending_start_frame + Len(q) /\ LastSample(f).era = e
<1> DEFINE f == Frame(q, speech)
<1>1. f.samples = q /\ f.at = pending_start_frame /\ f \in [at : Nat, speech : BOOLEAN, samples : Seq(Sample)]
  BY DEF Frame
<1> HIDE DEF f
<1>2. /\ Stretch(q) /\ q[1].at = pending_start_frame /\ q[1].era = e
      /\ q[Len(q)].at + 1 = pending_start_frame + Len(q) /\ q[Len(q)].era = e
  BY RunFacts
<1>3. f \in VadFrame
  BY <1>1, <1>2 DEF VadFrame
<1>4. LastSample(f) = q[Len(q)]
  BY <1>1 DEF LastSample
<1> QED
  BY <1>1, <1>2, <1>3, <1>4 DEF f

\* Of a frame that goes on with what is buffered, the segmenter makes stretches.
LEMMA FrameSound ==
  ASSUME NEW s, Sound(s), NEW f \in VadFrame, GoesOn(s, f.samples[1].at, f.samples[1].era)
  PROVE  LET t == process_vad(s, f) IN
         Sound(t) /\ (Buffered(t) # << >> => Buffered(t)[Len(Buffered(t))] = f)
<1> DEFINE t == process(s, f, FALSE)
<1>1. s \in Segmenter(VadFrame) /\ Lawful(s) /\ Reports(s, Chains(VadFrame, Adjoining))
      /\ Chain(Adjoining, Buffered(s))
  BY DEF Sound
<1>2. t \in Segmenter(VadFrame) /\ Lawful(t) /\ Handled(s, t, f)
  BY <1>1, ProcessHandles
<1> HIDE DEF t
<1>3. Buffered(s) \in Seq(VadFrame)
  BY <1>1, BufferedFacts
<1>4. Buffered(s) # << >> => <<Buffered(s)[Len(Buffered(s))], f>> \in Adjoining
  <2> SUFFICES ASSUME Buffered(s) # << >>
               PROVE  <<Buffered(s)[Len(Buffered(s))], f>> \in Adjoining
    OBVIOUS
  <2> DEFINE g == Buffered(s)[Len(Buffered(s))]
  <2>1. g \in VadFrame
    BY <1>3, ElementOfSeq, EmptySeq, LenProperties
  <2>2. LastSample(g).at + 1 = f.samples[1].at /\ LastSample(g).era = f.samples[1].era
    BY DEF GoesOn
  <2> HIDE DEF g
  <2>3. Adjoins(g, f)
    BY <2>2 DEF Adjoins, LastSample
  <2>4. <<g, f>> \in VadFrame \X VadFrame /\ <<g, f>>[1] = g /\ <<g, f>>[2] = f
    BY <2>1
  <2>5. <<g, f>> \in Adjoining
    BY <2>3, <2>4, Zenon DEF Adjoining
  <2> QED
    BY <2>5 DEF g
<1>5. Chain(Adjoining, Append(Buffered(s), f))
  BY <1>1, <1>3, <1>4, ChainFacts
<1>6. /\ Reports(t, Chains(VadFrame, Adjoining)) /\ Chain(Adjoining, Buffered(t))
      /\ Buffered(t) # << >> => Buffered(t)[Len(Buffered(t))] = f
  BY <1>1, <1>2, <1>5, FrameChains
<1>7. Sound(t)
  BY <1>2, <1>6 DEF Sound
<1> QED
  BY <1>6, <1>7 DEF t, process_vad

\* A gap ends whatever was going on.
LEMMA GapSound ==
  ASSUME NEW s, Sound(s), NEW expected \in Int, NEW received \in Int
  PROVE  LET t == note_source_discontinuity(s, expected, received) IN
         Sound(t) /\ Buffered(t) = << >>
<1> DEFINE t == note_source_discontinuity(s, expected, received)
<1>1. s \in Segmenter(VadFrame) /\ Lawful(s) /\ Reports(s, Chains(VadFrame, Adjoining))
      /\ Chain(Adjoining, Buffered(s))
  BY DEF Sound
<1>2. t \in Segmenter(VadFrame) /\ Lawful(t) /\ Interrupted(s, t) /\ t.pre_roll = << >>
  BY <1>1, DiscontinuityInterrupts
<1> HIDE DEF t
<1>3. Reports(t, Chains(VadFrame, Adjoining)) /\ Buffered(t) = << >>
  BY <1>1, <1>2, InterruptChains
<1>4. Chain(Adjoining, Buffered(t))
  <2>1. Len(Buffered(t)) = 0
    BY <1>3
  <2> QED
    BY <2>1 DEF Chain
<1>5. Sound(t)
  BY <1>2, <1>3, <1>4 DEF Sound
<1> QED
  BY <1>3, <1>5 DEF t

\* A flush leaves nothing to report.
LEMMA FlushSound ==
  ASSUME NEW s, Sound(s), NEW reason \in Reason, reason # "Silence"
  PROVE  LET t == force_flush(s, reason) IN
         /\ t \in Segmenter(VadFrame) /\ Lawful(t) /\ Reports(t, Chains(VadFrame, Adjoining))
         /\ ~Active(t) /\ t.pending_speech = << >>
<1> DEFINE t == force_flush(s, reason)
<1>1. s \in Segmenter(VadFrame) /\ Lawful(s) /\ Reports(s, Chains(VadFrame, Adjoining))
      /\ Chain(Adjoining, Buffered(s))
  BY DEF Sound
<1>2. t \in Segmenter(VadFrame) /\ Lawful(t) /\ Interrupted(s, t)
  BY <1>1, FlushInterrupts
<1> HIDE DEF t
<1>3. Reports(t, Chains(VadFrame, Adjoining))
  BY <1>1, <1>2, InterruptChains
<1>4. ~Active(t) /\ t.pending_speech = << >>
  BY <1>2 DEF Interrupted, ClosedLawful
<1> QED
  BY <1>2, <1>3, <1>4 DEF t
-----------------------------------------------------------------------------
\* The event a pipeline gets is the one it expects.
LEMMA Expected ==
  ASSUME InputTypes, InputInStep, PipelineInStep, Receive
  PROVE  LET e == Returned[1] IN
         /\ e \in SourceEvent /\ given' = Append(given, e) /\ given' # << >> /\ LastGiven' = e
         /\ e.type = "Audio" =>
              /\ e.chunk \in InputChunk /\ e.chunk.sequence = expected_source_chunk_sequence
              /\ expected_source_chunk_sequence' = e.chunk.sequence + 1 => PipelineInStep'
         /\ e.type = "Discontinuity" =>
              /\ e.expected \in Nat /\ e.received \in Nat
              /\ expected_source_chunk_sequence' = e.received => PipelineInStep'
<1> DEFINE e == Returned[1]
<1>1. /\ e \in SourceEvent /\ given' = Append(given, e)
      /\ HeldComes \/ StreamEnds \/ ReconnectComes \/ ChunkComes \/ GapComes
  BY ReceiveCases
<1> HIDE DEF e
<1>2. given' # << >> /\ LastGiven' = e
  BY <1>1, Given
<1>3. /\ e.type = "Audio" => e.chunk \in InputChunk
      /\ e.type = "Discontinuity" => e.expected \in Nat /\ e.received \in Nat
  BY <1>1, EventTypes
<1>4. channel # << >> => Head(channel) \in Message
  BY Rest DEF InputTypes
<1>5. ASSUME NEW d \in SourceEvent, given' = Append(given, d) PROVE e = d
  BY <1>1, <1>2, <1>5, Given
<1>6. CASE HeldComes
  <2>1. e = Audio(pending_chunk)
    BY <1>5, <1>6 DEF HeldComes, Audio, SourceEvent, InputTypes, InputChunk
  <2>2. /\ e.type = "Audio" /\ e.chunk = pending_chunk /\ pending_chunk # NoChunk
        /\ pending_chunk' = NoChunk /\ expected_sequence' = pending_chunk.sequence + 1
    BY <1>6, <2>1 DEF Audio, HeldComes
  <2> QED
    BY <1>1, <1>2, <1>3, <2>2 DEF PipelineInStep, e
<1>7. CASE StreamEnds
  <2>1. e = [type |-> "EndOfStream"]
    BY <1>5, <1>7 DEF StreamEnds, SourceEvent
  <2> QED
    BY <1>1, <1>2, <1>3, <2>1 DEF e
<1>8. CASE ReconnectComes
  <2>1. Head(channel).next_sequence \in Nat
    BY <1>4, <1>8, MessageTypes DEF ReconnectComes, Comes
  <2>2. e = Gap(Head(channel).next_sequence)
    BY <1>5, <1>8, <2>1 DEF ReconnectComes, Gap, SourceEvent, InputTypes
  <2>3. /\ e.type = "Discontinuity" /\ e.received = expected_sequence' /\ pending_chunk' = NoChunk
    BY <1>8, <2>2 DEF ReconnectComes, Comes, Gap
  <2> QED
    BY <1>1, <1>2, <1>3, <2>3 DEF PipelineInStep, e
<1>9. CASE ChunkComes
  <2> DEFINE c == Head(channel).chunk
  <2>1. c \in InputChunk
    BY <1>4, <1>9, MessageTypes DEF ChunkComes, Comes
  <2>2. /\ given' = Append(given, Audio(c)) /\ c.sequence = expected_sequence
        /\ expected_sequence' = c.sequence + 1 /\ pending_chunk = NoChunk /\ pending_chunk' = NoChunk
    BY <1>9 DEF ChunkComes, Comes
  <2> HIDE DEF c
  <2>3. e = Audio(c)
    BY <1>5, <2>1, <2>2 DEF Audio, SourceEvent, InputChunk
  <2>4. e.type = "Audio" /\ e.chunk = c
    BY <2>3 DEF Audio
  <2> QED
    BY <1>1, <1>2, <1>3, <2>2, <2>4 DEF PipelineInStep, e
<1>10. CASE GapComes
  <2> DEFINE c == Head(channel).chunk
  <2>1. c \in InputChunk /\ c # NoChunk
    BY <1>4, <1>10, MessageTypes DEF GapComes, Comes, InputChunk, NoChunk
  <2>2. given' = Append(given, Gap(c.sequence)) /\ pending_chunk' = c
    BY <1>10 DEF GapComes
  <2> HIDE DEF c
  <2>3. e = Gap(c.sequence)
    BY <1>5, <2>1, <2>2 DEF Gap, SourceEvent, InputTypes, InputChunk
  <2>4. e.type = "Discontinuity" /\ e.received = c.sequence
    BY <2>3 DEF Gap
  <2> QED
    BY <1>1, <1>2, <1>3, <2>1, <2>2, <2>4 DEF PipelineInStep, e
<1> QED
  BY <1>1, <1>6, <1>7, <1>8, <1>9, <1>10

\* What a chunk does to the samples that wait.
LEMMA ChunkTaken ==
  ASSUME PipelineInv, ~finished, Receive, Returned[1].type = "Audio",
         AcceptChunk(Returned[1].chunk)
  PROVE  LET c == Returned[1].chunk IN
         /\ c \in InputChunk /\ Returned[1] \in SourceEvent /\ given' = Append(given, Returned[1])
         /\ given' # << >> /\ LastGiven' = Returned[1] /\ PipelineInStep'
         /\ ~Noted(c) /\ UNCHANGED <<finished, framed>>
         /\ pending_samples' \in Seq(Sample) /\ pending_samples' # << >>
         /\ pending_start_frame' \in Nat
         /\ Run(pending_samples', pending_start_frame', c.era)
         /\ pending_start_frame' + Len(pending_samples') = c.start_frame + c.frames
         /\ \/ /\ Misplaced(c)
               /\ segmenter' = note_source_discontinuity(segmenter, c.sequence, c.sequence)
               /\ pending_samples' = Samples(c)
            \/ /\ ~Misplaced(c) /\ segmenter' = segmenter
               /\ pending_samples' = pending_samples \o Samples(c)
               /\ pending_start_frame # Unknown =>
                    /\ pending_start_frame' = pending_start_frame
                    /\ LastGiven.chunk.era = c.era
<1> DEFINE e == Returned[1]
           c == e.chunk
<1>1. /\ InputTypes /\ InputInStep /\ PipelineTypes /\ PipelineInStep /\ PendingTrue
      /\ GapsAnnounced /\ ErasAnnounced
  BY DEF PipelineInv, InputInv
<1>2. /\ e \in SourceEvent /\ given' = Append(given, e) /\ given' # << >> /\ LastGiven' = e
      /\ c \in InputChunk /\ c.sequence = expected_source_chunk_sequence
      /\ expected_source_chunk_sequence' = c.sequence + 1 => PipelineInStep'
  BY <1>1, Expected
<1>3. ~Noted(c)
  BY <1>2 DEF Noted
<1>4. /\ segmenter' = IF Misplaced(c)
                      THEN note_source_discontinuity(segmenter, c.sequence, c.sequence)
                      ELSE segmenter
      /\ expected_source_chunk_sequence' = c.sequence + 1
      /\ pending_start_frame' = IF Misplaced(c) \/ pending_samples = << >>
                                THEN c.start_frame ELSE pending_start_frame
      /\ pending_samples' = (IF Misplaced(c) \/ pending_samples = << >>
                             THEN << >> ELSE pending_samples) \o Samples(c)
      /\ UNCHANGED <<finished, framed>>
  BY <1>3 DEF AcceptChunk
<1>5. /\ e.type = "Audio" /\ GapsAnnounced'
  <2>1. InputMoves
    BY DEF InputMoves
  <2> QED
    BY <1>1, <2>1, GapsKept
<1> HIDE DEF e
<1>6. /\ Samples(c) \in Seq(Sample) /\ Len(Samples(c)) = c.frames /\ Samples(c) # << >>
      /\ Run(Samples(c), c.start_frame, c.era)
  BY <1>2, SampleFacts
<1>7. /\ << >> \o Samples(c) = Samples(c) /\ pending_samples \in Seq(Sample)
      /\ c.start_frame \in Nat /\ c.frames \in Nat \ {0} /\ c.era \in Nat
      /\ pending_start_frame \in Nat \cup {Unknown} /\ Unknown \notin Nat
      /\ Len(pending_samples) \in Nat
  BY <1>1, <1>2, <1>6, LenProperties DEF PipelineTypes, InputChunk, Unknown
<1>8. pending_start_frame # Unknown => LastGiven.chunk.era = c.era
  <2> SUFFICES ASSUME pending_start_frame # Unknown PROVE LastGiven.chunk.era = c.era
    OBVIOUS
  <2>1. PICK g \in Nat : g = Len(given)
    BY <1>1, LenProperties DEF InputTypes
  <2>2. given # << >> /\ LastGiven.type = "Audio"
    BY <1>1 DEF PendingTrue
  <2>3. g > 0
    BY <1>1, <2>1, <2>2, EmptySeq, LenProperties DEF InputTypes
  <2>4. /\ given'[g + 1] = e /\ given'[g] = LastGiven /\ DOMAIN given' = 1 .. g + 1
    BY <1>1, <1>2, <2>1, <2>3, Given DEF LastGiven
  <2>5. g + 1 \in DOMAIN given' /\ (g + 1) - 1 = g /\ g + 1 > 1
    BY <2>1, <2>3, <2>4
  <2>6. given'[g + 1].type = "Audio" /\ given'[g].type # "Discontinuity"
    BY <1>5, <2>2, <2>4
  <2>7. given'[g].chunk.era = given'[g + 1].chunk.era
    <3> DEFINE i == g + 1
    <3>1. given'[i].type = "Audio" /\ i \in DOMAIN given' /\ i # 1 /\ i - 1 = g
          /\ given'[i - 1].type # "Discontinuity"
      BY <2>1, <2>3, <2>5, <2>6
    <3> HIDE DEF i
    <3>2. given'[i - 1].chunk.era = given'[i].chunk.era
      BY <1>5, <3>1 DEF GapsAnnounced
    <3> QED
      BY <3>1, <3>2 DEF i
  <2> QED
    BY <2>4, <2>7
<1>9. CASE Misplaced(c) \/ pending_samples = << >>
  <2>1. pending_samples' = Samples(c) /\ pending_start_frame' = c.start_frame
    BY <1>4, <1>7, <1>9
  <2>2. pending_samples = << >> => pending_samples \o Samples(c) = Samples(c)
    BY <1>7
  <2>3. ~Misplaced(c) /\ pending_start_frame # Unknown => c.start_frame = pending_start_frame
    <3>1. ASSUME ~Misplaced(c), pending_start_frame # Unknown, pending_samples = << >>
          PROVE  c.start_frame = pending_start_frame
      <4>1. Len(pending_samples) = 0
        BY <3>1
      <4> QED
        BY <1>3, <1>7, <3>1, <4>1 DEF Misplaced
    <3> QED
      BY <1>9, <3>1
  <2> QED
    BY <1>2, <1>3, <1>4, <1>6, <1>7, <1>8, <1>9, <2>1, <2>2, <2>3 DEF e
<1>10. CASE ~Misplaced(c) /\ pending_samples # << >>
  <2>1. /\ pending_samples' = pending_samples \o Samples(c)
        /\ pending_start_frame' = pending_start_frame
    BY <1>4, <1>10
  <2>2. /\ pending_start_frame # Unknown /\ pending_start_frame \in Nat
        /\ Run(pending_samples, pending_start_frame, c.era)
        /\ pending_start_frame + Len(pending_samples) = c.start_frame
    BY <1>1, <1>3, <1>7, <1>8, <1>10 DEF PendingTrue, Misplaced
  <2>3. /\ pending_samples' \in Seq(Sample)
        /\ Len(pending_samples') = Len(pending_samples) + c.frames
        /\ Run(pending_samples', pending_start_frame, c.era)
    BY <1>6, <1>7, <2>1, <2>2, RunJoined
  <2>4. Len(pending_samples') # 0
    BY <1>7, <2>3
  <2>5. pending_samples' # << >>
    BY <2>4
  <2>6. pending_start_frame' + Len(pending_samples') = c.start_frame + c.frames
    BY <1>7, <2>1, <2>2, <2>3
  <2> QED
    BY <1>2, <1>3, <1>4, <1>7, <1>8, <1>10, <2>1, <2>2, <2>3, <2>5, <2>6 DEF e
<1> QED
  BY <1>9, <1>10
LEMMA PipelineInvInit == Init => PipelineInv
<1> SUFFICES ASSUME Init PROVE PipelineInv
  OBVIOUS
<1> DEFINE z == << >>
           s == segmenter
<1>1. InputInv
  BY InputInvInit DEF Init
<1>2. /\ s \in Segmenter(VadFrame) /\ Lawful(s) /\ ~Active(s) /\ Closings(s) = {} /\ Buffered(s) = z
      /\ s.pending_speech = z
  BY NewFacts DEF Init
<1>3. /\ pending_samples = z /\ framed = z /\ pending_start_frame = Unknown /\ ~finished
      /\ expected_source_chunk_sequence = 0 /\ expected_sequence = 0 /\ pending_chunk = NoChunk
      /\ finished \in BOOLEAN
  BY DEF Init, InputInit
<1>4. z \in Seq(VadFrame) /\ z \in Seq(Sample) /\ Len(z) = 0
  BY EmptySeq
<1> HIDE DEF z
<1>5. PipelineTypes /\ PipelineInStep /\ PendingTrue
  <2>1. PipelineTypes
    BY <1>2, <1>3, <1>4 DEF PipelineTypes
  <2>2. PipelineInStep
    BY <1>3 DEF PipelineInStep
  <2>3. PendingTrue
    BY <1>3, <1>4 DEF PendingTrue, Run, z
  <2> QED
    BY <2>1, <2>2, <2>3
<1>6. Reports(s, Chains(VadFrame, Adjoining))
  BY <1>2 DEF Reports
<1>7. BufferTrue
  <2>1. Chain(Adjoining, Buffered(s))
    BY <1>2, <1>4 DEF Chain
  <2> QED
    BY <1>2, <1>6, <2>1 DEF BufferTrue, Sound, GoesOn, z
<1>8. EndFlushes
  BY <1>3 DEF EndFlushes
<1> QED
  BY <1>1, <1>2, <1>5, <1>6, <1>7, <1>8 DEF PipelineInv

LEMMA PipelineProduce == PipelineInv /\ Produce => PipelineInv'
<1> SUFFICES ASSUME PipelineInv, Produce PROVE PipelineInv'
  OBVIOUS
<1>1. InputInv'
  BY InputInvKept DEF PipelineInv, Produce, InputMoves
<1>2. UNCHANGED <<given, pending_chunk, expected_sequence>>
  <2>1. InputTypes
    BY DEF PipelineInv, InputInv
  <2> QED
    BY <2>1, CaptureFacts DEF Produce, End, Reconnect, Disconnect, receiver, history
<1>3. UNCHANGED <<segmenter, pending_samples, pending_start_frame,
                  expected_source_chunk_sequence, finished, framed>>
  BY DEF Produce, framing
<1> QED
  BY <1>1, <1>2, <1>3 DEF PipelineInv, PipelineTypes, PipelineInStep, PendingTrue, BufferTrue,
     LastGiven, EndFlushes

\* A frame of the samples that wait is heard.
LEMMA PipelineEmit == PipelineInv /\ EmitCompleteVadFrame => PipelineInv'
<1> SUFFICES ASSUME PipelineInv, EmitCompleteVadFrame PROVE PipelineInv'
  OBVIOUS
<1> DEFINE n == samples_per_vad_frame
           q == pending_samples
           e == LastGiven.chunk.era
<1>1. PICK speech \in BOOLEAN :
        /\ ~finished /\ Len(q) >= n
        /\ q' = SubSeq(q, n + 1, Len(q))
        /\ pending_start_frame' = pending_start_frame + n
        /\ segmenter' = process_vad(segmenter, Frame(SubSeq(q, 1, n), speech))
        /\ framed' = Append(framed, Frame(SubSeq(q, 1, n), speech))
        /\ UNCHANGED <<inputvars, expected_source_chunk_sequence, finished>>
  BY DEF EmitCompleteVadFrame
<1>2. /\ InputInv /\ InputTypes /\ PipelineTypes /\ PipelineInStep /\ PendingTrue /\ BufferTrue
      /\ q \in Seq(Sample) /\ n \in Nat \ {0} /\ Len(q) \in Nat
  BY <1>1, FrameAssumption, LenProperties DEF PipelineInv, InputInv, PipelineTypes
<1>3. UNCHANGED <<given, pending_chunk, expected_sequence>> /\ LastGiven' = LastGiven
  BY <1>1 DEF inputvars, receiver, history, LastGiven
<1>4. q # << >> /\ Len(q) # 0
  BY <1>1, <1>2
<1>5. /\ pending_start_frame \in Nat /\ given # << >> /\ LastGiven.type = "Audio"
      /\ pending_start_frame + Len(q) = LastGiven.chunk.start_frame + LastGiven.chunk.frames
      /\ Run(q, pending_start_frame, e)
  BY <1>2, <1>4 DEF PendingTrue, PipelineTypes
<1>6. e \in Nat
  <2>1. LastGiven \in SourceEvent
    BY <1>2, <1>5, ElementOfSeq, EmptySeq, LenProperties DEF InputTypes, LastGiven
  <2> QED
    BY <1>5, <2>1, EventTypes DEF InputChunk
<1> DEFINE p == SubSeq(q, 1, n)
           f == Frame(p, speech)
<1>7. /\ p \in Seq(Sample) /\ Len(p) = n /\ Run(p, pending_start_frame, e)
      /\ q' \in Seq(Sample) /\ Len(q') = Len(q) - n /\ Run(q', pending_start_frame + n, e)
  <2>1. n \in Nat /\ n <= Len(q)
    BY <1>1, <1>2
  <2>2. /\ SubSeq(q, 1, n) \in Seq(Sample) /\ Len(SubSeq(q, 1, n)) = n
        /\ Run(SubSeq(q, 1, n), pending_start_frame, e)
        /\ SubSeq(q, n + 1, Len(q)) \in Seq(Sample)
        /\ Len(SubSeq(q, n + 1, Len(q))) = Len(q) - n
        /\ Run(SubSeq(q, n + 1, Len(q)), pending_start_frame + n, e)
    BY <1>2, <1>5, <1>6, <2>1, RunParts
  <2> QED
    BY <1>1, <2>2
<1> HIDE DEF p, q, e
<1>8. p # << >>
  BY <1>2, <1>7
<1>9. /\ f \in VadFrame /\ f.samples[1].at = pending_start_frame /\ f.samples[1].era = e
      /\ LastSample(f).at + 1 = pending_start_frame + n /\ LastSample(f).era = e
  BY <1>5, <1>6, <1>7, <1>8, FrameMade
<1> DEFINE s == segmenter
           t == process_vad(s, f)
<1>10. segmenter' = t /\ framed' = Append(framed, f)
  BY <1>1 DEF p, q
<1> HIDE DEF f
<1>11. Sound(s) /\ GoesOn(s, f.samples[1].at, f.samples[1].era)
  BY <1>2, <1>9 DEF BufferTrue, e
<1>12. Sound(t) /\ (Buffered(t) # << >> => Buffered(t)[Len(Buffered(t))] = f)
  BY <1>9, <1>11, FrameSound
<1> HIDE DEF t
<1>13. pending_start_frame' \in Nat /\ pending_start_frame' # Unknown
  BY <1>1, <1>2, <1>5 DEF Unknown
<1>14. PipelineTypes'
  <2>1. framed' \in Seq(VadFrame)
    BY <1>2, <1>9, <1>10, AppendProperties DEF PipelineTypes
  <2>2. pending_samples' \in Seq(Sample)
    BY <1>7 DEF q
  <2> QED
    BY <1>1, <1>2, <1>10, <1>12, <1>13, <2>1, <2>2 DEF PipelineTypes, Sound
<1>15. PipelineInStep'
  BY <1>1, <1>2, <1>3 DEF PipelineInStep
<1>16. PendingTrue'
  <2>1. /\ pending_start_frame' + Len(pending_samples') = pending_start_frame + Len(pending_samples)
        /\ Run(pending_samples', pending_start_frame', LastGiven'.chunk.era)
    BY <1>1, <1>2, <1>3, <1>5, <1>7 DEF q, e
  <2> QED
    BY <1>3, <1>5, <1>13, <2>1 DEF PendingTrue, q
<1>17. BufferTrue'
  <2>1. GoesOn(t, pending_start_frame', LastGiven'.chunk.era)
    BY <1>1, <1>3, <1>9, <1>12 DEF GoesOn, e
  <2> QED
    BY <1>10, <1>12, <1>13, <2>1 DEF BufferTrue
<1>18. InputInv'
  BY <1>1, InputInvKept DEF PipelineInv, InputMoves
<1>19. EndFlushes'
  BY <1>1 DEF EndFlushes
<1> QED
  BY <1>10, <1>12, <1>14, <1>15, <1>16, <1>17, <1>18, <1>19 DEF PipelineInv, Sound
\* A chunk comes.
LEMMA PipelineChunk ==
  ASSUME PipelineInv, ~finished, Receive, Returned[1].type = "Audio",
         AcceptChunk(Returned[1].chunk)
  PROVE  PipelineInv'
<1> DEFINE c == Returned[1].chunk
           s == segmenter
<1>1. /\ c \in InputChunk /\ given' # << >> /\ LastGiven' = Returned[1] /\ PipelineInStep'
      /\ UNCHANGED <<finished, framed>>
      /\ pending_samples' \in Seq(Sample) /\ pending_samples' # << >>
      /\ pending_start_frame' \in Nat
      /\ Run(pending_samples', pending_start_frame', c.era)
      /\ pending_start_frame' + Len(pending_samples') = c.start_frame + c.frames
  BY ChunkTaken
<1>2. \/ Misplaced(c) /\ s' = note_source_discontinuity(s, c.sequence, c.sequence)
      \/ /\ s' = s
         /\ pending_start_frame # Unknown =>
              pending_start_frame' = pending_start_frame /\ LastGiven.chunk.era = c.era
  BY ChunkTaken
<1>3. InputInv /\ PipelineTypes /\ PendingTrue /\ BufferTrue /\ EndFlushes
  BY DEF PipelineInv
<1>4. LastGiven'.type = "Audio" /\ LastGiven'.chunk = c
  BY <1>1
<1>5. expected_source_chunk_sequence' = c.sequence + 1
  BY DEF AcceptChunk
<1> HIDE DEF c
<1>6. /\ c.sequence \in Nat /\ pending_start_frame' # Unknown
  BY <1>1 DEF InputChunk, Unknown
<1>7. BufferTrue'
  <2>1. CASE Misplaced(c) /\ s' = note_source_discontinuity(s, c.sequence, c.sequence)
    <3>1. Sound(s') /\ Buffered(s') = << >>
      BY <1>3, <1>6, <2>1, GapSound DEF BufferTrue
    <3> QED
      BY <3>1 DEF BufferTrue, GoesOn
  <2>2. CASE /\ s' = s
             /\ pending_start_frame # Unknown =>
                  pending_start_frame' = pending_start_frame /\ LastGiven.chunk.era = c.era
    <3>1. GoesOn(s, pending_start_frame', c.era)
      BY <1>3, <2>2 DEF BufferTrue, GoesOn
    <3> QED
      BY <1>3, <1>4, <1>6, <2>2, <3>1 DEF BufferTrue
  <2> QED
    BY <1>2, <2>1, <2>2
<1>8. PendingTrue'
  BY <1>1, <1>4, <1>6 DEF PendingTrue
<1>9. PipelineTypes'
  <2>1. Sound(s')
    BY <1>7 DEF BufferTrue
  <2>2. expected_source_chunk_sequence' \in Nat
    BY <1>5, <1>6
  <2> QED
    BY <1>1, <1>3, <2>1, <2>2 DEF PipelineTypes, Sound
<1>10. InputInv'
  BY <1>3, InputInvKept DEF InputMoves
<1>11. EndFlushes'
  BY <1>1 DEF EndFlushes
<1> QED
  BY <1>1, <1>7, <1>8, <1>9, <1>10, <1>11 DEF PipelineInv, BufferTrue, Sound

\* A gap comes.
LEMMA PipelineGap ==
  ASSUME PipelineInv, ~finished, Receive, Returned[1].type = "Discontinuity",
         AcceptGap(Returned[1])
  PROVE  PipelineInv'
<1> DEFINE e == Returned[1]
           s == segmenter
<1>1. InputInv /\ InputTypes /\ InputInStep /\ PipelineTypes /\ PipelineInStep /\ BufferTrue
  BY DEF PipelineInv, InputInv
<1>2. /\ e.expected \in Nat /\ e.received \in Nat
      /\ expected_source_chunk_sequence' = e.received => PipelineInStep'
  BY <1>1, Expected
<1>3. /\ s' = note_source_discontinuity(s, e.expected, e.received)
      /\ pending_samples' = << >> /\ pending_start_frame' = Unknown
      /\ expected_source_chunk_sequence' = e.received
      /\ UNCHANGED <<finished, framed>>
  BY DEF AcceptGap
<1> HIDE DEF e
<1>4. Sound(s') /\ Buffered(s') = << >>
  BY <1>1, <1>2, <1>3, GapSound DEF BufferTrue
<1>5. << >> \in Seq(Sample) /\ Len(<< >>) = 0
  BY EmptySeq
<1>6. BufferTrue' /\ PendingTrue'
  <2>1. Run(pending_samples', pending_start_frame', LastGiven'.chunk.era)
    BY <1>3 DEF Run
  <2> QED
    BY <1>3, <1>4, <2>1 DEF BufferTrue, GoesOn, PendingTrue
<1>7. PipelineTypes'
  BY <1>1, <1>2, <1>3, <1>4, <1>5 DEF PipelineTypes, Sound
<1>8. InputInv' /\ EndFlushes'
  BY <1>1, <1>3, InputInvKept DEF InputMoves, EndFlushes
<1> QED
  BY <1>2, <1>3, <1>4, <1>6, <1>7, <1>8 DEF PipelineInv, Sound

\* The stream ends.
LEMMA PipelineFinish ==
  ASSUME PipelineInv, ~finished, Receive, FinishSource
  PROVE  PipelineInv'
<1> DEFINE s == segmenter
           e == LastGiven.chunk.era
           q == pending_samples
<1>1. /\ InputInv /\ InputTypes /\ PipelineTypes /\ PendingTrue /\ BufferTrue
      /\ q \in Seq(Sample) /\ Sound(s)
  BY DEF PipelineInv, InputInv, PipelineTypes, BufferTrue
<1>2. "EndOfStream" \in Reason /\ "EndOfStream" # "Silence" /\ << >> \in Seq(Sample)
  BY EmptySeq DEF Reason
<1>3. /\ q' = << >> /\ finished' = TRUE
      /\ UNCHANGED <<pending_start_frame, expected_source_chunk_sequence>>
  BY DEF FinishSource
<1>4. \E t : /\ Sound(t) /\ s' = force_flush(t, "EndOfStream")
             /\ framed' \in Seq(VadFrame)
  <2>1. CASE q = << >>
    BY <1>1, <2>1 DEF FinishSource, PipelineTypes
  <2>2. CASE q # << >>
    <3>1. PICK speech \in BOOLEAN :
            /\ s' = force_flush(process_vad(s, Frame(q, speech)), "EndOfStream")
            /\ framed' = Append(framed, Frame(q, speech))
      BY <2>2 DEF FinishSource
    <3>2. /\ pending_start_frame \in Nat /\ given # << >> /\ LastGiven.type = "Audio"
          /\ Run(q, pending_start_frame, e)
      BY <1>1, <2>2 DEF PendingTrue, PipelineTypes
    <3>3. e \in Nat
      <4>1. LastGiven \in SourceEvent
        BY <1>1, <3>2, ElementOfSeq, EmptySeq, LenProperties DEF InputTypes, LastGiven
      <4> QED
        BY <3>2, <4>1, EventTypes DEF InputChunk
    <3> DEFINE f == Frame(q, speech)
    <3> HIDE DEF q, e
    <3>4. f \in VadFrame /\ f.samples[1].at = pending_start_frame /\ f.samples[1].era = e
      BY <1>1, <2>2, <3>2, <3>3, FrameMade
    <3> HIDE DEF f
    <3>5. GoesOn(s, f.samples[1].at, f.samples[1].era)
      BY <1>1, <3>4 DEF BufferTrue, e
    <3>6. Sound(process_vad(s, f))
      BY <1>1, <3>4, <3>5, FrameSound
    <3>7. framed' \in Seq(VadFrame)
      BY <1>1, <3>1, <3>4, AppendProperties DEF PipelineTypes, f
    <3> QED
      BY <3>1, <3>6, <3>7 DEF f
  <2> QED
    BY <2>1, <2>2
<1>5. PICK t : /\ Sound(t) /\ s' = force_flush(t, "EndOfStream") /\ framed' \in Seq(VadFrame)
  BY <1>4
<1>6. /\ s' \in Segmenter(VadFrame) /\ Lawful(s') /\ Reports(s', Chains(VadFrame, Adjoining))
      /\ ~Active(s') /\ s'.pending_speech = << >>
  BY <1>2, <1>5, FlushSound
<1>7. PipelineTypes' /\ EndFlushes'
  BY <1>1, <1>2, <1>3, <1>5, <1>6 DEF PipelineTypes, EndFlushes
<1>8. InputInv'
  BY <1>1, InputInvKept DEF InputMoves
<1> QED
  BY <1>3, <1>6, <1>7, <1>8 DEF PipelineInv

\* The pipeline is cancelled.
LEMMA PipelineCancel == PipelineInv /\ CancelPipeline => PipelineInv'
<1> SUFFICES ASSUME PipelineInv, CancelPipeline PROVE PipelineInv'
  OBVIOUS
<1> DEFINE s == segmenter
<1>1. InputInv /\ PipelineTypes /\ Sound(s)
  BY DEF PipelineInv, BufferTrue, CancelPipeline
<1>2. /\ s' = force_flush(s, "Cancelled") /\ pending_samples' = << >>
      /\ pending_start_frame' = Unknown /\ finished' = TRUE /\ Cancel
      /\ UNCHANGED <<expected_source_chunk_sequence, framed>>
  BY DEF CancelPipeline
<1>3. "Cancelled" \in Reason /\ "Cancelled" # "Silence" /\ << >> \in Seq(Sample)
  BY EmptySeq DEF Reason
<1>4. /\ s' \in Segmenter(VadFrame) /\ Lawful(s') /\ Reports(s', Chains(VadFrame, Adjoining))
      /\ ~Active(s') /\ s'.pending_speech = << >>
  BY <1>1, <1>2, <1>3, FlushSound
<1>5. PipelineTypes' /\ EndFlushes'
  BY <1>1, <1>2, <1>3, <1>4 DEF PipelineTypes, EndFlushes
<1>6. InputInv'
  BY <1>1, <1>2, InputInvKept DEF InputMoves
<1> QED
  BY <1>2, <1>4, <1>5, <1>6 DEF PipelineInv

LEMMA PipelineInvNext == PipelineInv /\ [Next]_vars => PipelineInv'
<1> SUFFICES ASSUME PipelineInv, [Next]_vars PROVE PipelineInv'
  OBVIOUS
<1>1. CASE Pull
  <2>1. ~finished /\ Receive
    BY <1>1 DEF Pull
  <2>2. \/ Returned[1].type = "Audio" /\ AcceptChunk(Returned[1].chunk)
        \/ Returned[1].type = "Discontinuity" /\ AcceptGap(Returned[1])
        \/ FinishSource
    BY <1>1 DEF Pull
  <2> QED
    BY <2>1, <2>2, PipelineChunk, PipelineGap, PipelineFinish
<1>2. CASE UNCHANGED vars
  <2>1. InputInv'
    BY <1>2, InputInvKept DEF PipelineInv, InputMoves, vars
  <2>2. UNCHANGED <<given, pending_chunk, expected_sequence, segmenter, pending_samples, framed,
                    pending_start_frame, expected_source_chunk_sequence, finished>>
    BY <1>2 DEF vars, inputvars, receiver, history, framing
  <2> QED
    BY <2>1, <2>2 DEF PipelineInv, PipelineTypes, PipelineInStep, PendingTrue, BufferTrue,
       LastGiven, EndFlushes
<1> QED
  BY <1>1, <1>2, PipelineProduce, PipelineEmit, PipelineCancel DEF Next
\* What the invariant says of the frames and of the segments.
LEMMA PipelineInvMeans == PipelineInv => FramesTrue /\ SegmentsAreStretches
<1> SUFFICES ASSUME PipelineInv PROVE FramesTrue /\ SegmentsAreStretches
  OBVIOUS
<1>1. framed \in Seq(VadFrame) /\ segmenter \in Segmenter(VadFrame)
      /\ Reports(segmenter, Chains(VadFrame, Adjoining))
  BY DEF PipelineInv, PipelineTypes
<1>2. FramesTrue
  <2>1. \A i \in DOMAIN framed : framed[i] \in VadFrame
    BY <1>1
  <2> QED
    BY <2>1 DEF FramesTrue, VadFrame
<1>3. SegmentsAreStretches
  <2> SUFFICES ASSUME NEW i \in Closings(segmenter)
               PROVE  LET frames == Reported(segmenter)[i].frames IN
                      /\ \A k \in DOMAIN frames : Stretch(frames[k].samples)
                      /\ \A k \in 1 .. Len(frames) - 1 : Adjoins(frames[k], frames[k + 1])
    BY DEF SegmentsAreStretches
  <2> DEFINE frames == segmenter.log[i].segment.frames
  <2>1. Reported(segmenter)[i].frames = frames
    BY DEF Reported
  <2>2. frames \in Seq(VadFrame) /\ Chain(Adjoining, frames)
    BY <1>1 DEF Reports, Chains
  <2> HIDE DEF frames
  <2>3. \A k \in DOMAIN frames : Stretch(frames[k].samples)
    <3>1. \A k \in DOMAIN frames : frames[k] \in VadFrame
      BY <2>2
    <3> QED
      BY <3>1 DEF VadFrame
  <2>4. ASSUME NEW k \in 1 .. Len(frames) - 1 PROVE Adjoins(frames[k], frames[k + 1])
    <3>1. <<frames[k], frames[k + 1]>> \in Adjoining
      BY <2>2 DEF Chain
    <3> QED
      BY <3>1 DEF Adjoining
  <2> QED
    BY <2>1, <2>3, <2>4
<1> QED
  BY <1>2, <1>3

-----------------------------------------------------------------------------
\* What the detector hears.

LEMMA HeardFacts ==
  ASSUME PipelineTypes, NEW x
  PROVE  x \in Heard <=> \/ \E i \in 1 .. Len(framed) : x \in ToSet(framed[i].samples)
                         \/ x \in ToSet(pending_samples)
<1>1. DOMAIN framed = 1 .. Len(framed)
  BY LenProperties DEF PipelineTypes
<1> QED
  BY <1>1 DEF Heard

HeardMeaning ==
  \A x : x \in Heard <=> \/ \E i \in 1 .. Len(framed) : x \in ToSet(framed[i].samples)
                         \/ x \in ToSet(pending_samples)

LEMMA HeardMeans == PipelineTypes => HeardMeaning
BY HeardFacts DEF HeardMeaning

LEMMA ConcatSet ==
  ASSUME NEW F, NEW q \in Seq(F), NEW p \in Seq(F)
  PROVE  ToSet(q \o p) = ToSet(q) \cup ToSet(p)
<1> DEFINE r == q \o p
<1>1. /\ Len(r) = Len(q) + Len(p) /\ Len(q) \in Nat /\ Len(p) \in Nat
      /\ \A i \in 1 .. Len(q) + Len(p) : r[i] = IF i <= Len(q) THEN q[i] ELSE p[i - Len(q)]
      /\ DOMAIN r = 1 .. Len(q) + Len(p) /\ DOMAIN q = 1 .. Len(q) /\ DOMAIN p = 1 .. Len(p)
  BY ConcatProperties, LenProperties
<1> HIDE DEF r
<1>2. ASSUME NEW x \in ToSet(r) PROVE x \in ToSet(q) \cup ToSet(p)
  <2>1. PICK i \in 1 .. Len(q) + Len(p) : x = r[i]
    BY <1>1, <1>2 DEF ToSet
  <2>2. CASE i <= Len(q)
    BY <1>1, <2>1, <2>2 DEF ToSet
  <2>3. CASE i > Len(q)
    <3>1. i - Len(q) \in 1 .. Len(p) /\ x = p[i - Len(q)]
      BY <1>1, <2>1, <2>3
    <3> QED
      BY <1>1, <3>1 DEF ToSet
  <2> QED
    BY <1>1, <2>1, <2>2, <2>3
<1>3. ASSUME NEW x \in ToSet(q) PROVE x \in ToSet(r)
  <2>1. PICK i \in 1 .. Len(q) : x = q[i]
    BY <1>1, <1>3 DEF ToSet
  <2>2. i \in 1 .. Len(q) + Len(p) /\ r[i] = x
    BY <1>1, <2>1
  <2> QED
    BY <1>1, <2>2 DEF ToSet
<1>4. ASSUME NEW x \in ToSet(p) PROVE x \in ToSet(r)
  <2>1. PICK i \in 1 .. Len(p) : x = p[i]
    BY <1>1, <1>4 DEF ToSet
  <2>2. i + Len(q) \in 1 .. Len(q) + Len(p) /\ ~(i + Len(q) <= Len(q)) /\ (i + Len(q)) - Len(q) = i
    BY <1>1, <2>1
  <2>3. r[i + Len(q)] = x
    BY <1>1, <2>1, <2>2
  <2> QED
    BY <1>1, <2>2, <2>3 DEF ToSet
<1> QED
  BY <1>2, <1>3, <1>4 DEF r

\* The chunks that are given lie on the timeline in this order.
LEMMA GivenOrder ==
  ASSUME InputInv, NEW i \in DOMAIN given, NEW j \in DOMAIN given, IsAudio(i), IsAudio(j), i < j
  PROVE  Before(given[i].chunk, given[j].chunk)
<1>1. InputTypes /\ Placed /\ Ordered /\ ChunksInOrder
  BY ConservedMeans DEF InputInv
<1>2. i \in 1 .. Len(given) /\ j \in 1 .. Len(given)
  BY <1>1, LenProperties DEF InputTypes
<1>3. Played(i) /\ Played(j)
  BY DEF Played, IsAudio
<1>4. given[i].chunk \in accepted /\ given[j].chunk \in accepted
  BY <1>1, <1>2, <1>3 DEF Placed
<1>5. given[i].chunk.place < given[j].chunk.place
  BY <1>1, <1>2, <1>3 DEF Ordered
<1> QED
  BY <1>1, <1>4, <1>5 DEF ChunksInOrder

\* A sample that a frame's worth of audio follows is not among those that wait.
LEMMA NotWaiting ==
  ASSUME PipelineInv, ~finished, Len(pending_samples) < samples_per_vad_frame,
         NEW i \in DOMAIN given, NEW j \in DOMAIN given, i <= j, IsAudio(i), IsAudio(j),
         NEW x \in ToSet(Samples(given[i].chunk)), x.at + samples_per_vad_frame <= EndOf(j)
  PROVE  x \notin ToSet(pending_samples)
<1> SUFFICES ASSUME x \in ToSet(pending_samples) PROVE FALSE
  OBVIOUS
<1> DEFINE q == pending_samples
           n == samples_per_vad_frame
           last == LastGiven.chunk
           a == given[i].chunk
           b == given[j].chunk
<1>1. /\ InputInv /\ InputTypes /\ PendingTrue /\ q \in Seq(Sample) /\ n \in Nat
      /\ pending_start_frame \in Nat \cup {Unknown}
  BY FrameAssumption DEF PipelineInv, InputInv, PipelineTypes
<1>2. PICK L \in Nat, m \in Nat : L = Len(given) /\ m = Len(q)
  BY <1>1, LenProperties DEF InputTypes
<1>3. PICK k \in 1 .. m : x = q[k]
  BY <1>1, <1>2, LenProperties DEF ToSet
<1>4. q # << >>
  <2>1. m # 0
    BY <1>3
  <2> QED
    BY <1>2, <2>1
<1>5. /\ given # << >> /\ LastGiven.type = "Audio" /\ pending_start_frame \in Nat
      /\ pending_start_frame + m = last.start_frame + last.frames
      /\ Run(q, pending_start_frame, last.era)
  BY <1>1, <1>2, <1>4 DEF PendingTrue
<1>6. /\ L \in DOMAIN given /\ IsAudio(L) /\ given[L].chunk = last
      /\ i \in 1 .. L /\ j \in 1 .. L
  BY <1>1, <1>2, <1>5, EmptySeq, LenProperties DEF InputTypes, IsAudio, LastGiven
<1>7. a \in InputChunk /\ b \in InputChunk /\ last \in InputChunk
  <2>1. given[i] \in SourceEvent /\ given[j] \in SourceEvent /\ given[L] \in SourceEvent
    BY <1>1, <1>6, ElementOfSeq DEF InputTypes
  <2> QED
    BY <1>6, <2>1, EventTypes DEF IsAudio
<1>8. x.at = pending_start_frame + k - 1 /\ x.era = last.era
  BY <1>2, <1>3, <1>5 DEF Run
<1>9. x.era = a.era /\ x.at \in Nat
  BY <1>7, SampleFacts
<1>10. x.at + n <= b.start_frame + b.frames
  BY DEF EndOf
<1>11. i = j \/ Before(a, b)
  BY <1>1, <1>2, <1>6, GivenOrder
<1>12. j = L \/ Before(b, last)
  BY <1>1, <1>2, <1>6, GivenOrder
<1>13. i = j => a = b
  OBVIOUS
<1>14. j = L => b = last
  BY <1>6
<1>15. m < n
  BY <1>2
<1> HIDE DEF a, b, last, q, n
<1>16. /\ a.era \in Nat /\ b.era \in Nat /\ last.era \in Nat /\ b.start_frame \in Nat
       /\ b.frames \in Nat /\ last.start_frame \in Nat /\ last.frames \in Nat
  BY <1>7 DEF InputChunk
<1>17. a.era <= b.era /\ b.era <= last.era
  BY <1>11, <1>12, <1>13, <1>14, <1>16 DEF Before
<1>18. b.start_frame + b.frames <= last.start_frame + last.frames
  <2>1. b.era = last.era
    BY <1>8, <1>9, <1>16, <1>17
  <2>2. CASE j = L
    BY <1>14, <1>16, <2>2
  <2>3. CASE Before(b, last)
    BY <1>16, <2>1, <2>3 DEF Before
  <2> QED
    BY <1>12, <2>2, <2>3
<1>19. x.at >= pending_start_frame
  BY <1>3, <1>5, <1>8
<1>20. n \in Nat /\ pending_start_frame \in Nat /\ x.at \in Nat
  BY <1>1, <1>5, <1>9
<1>21. x.at + n > pending_start_frame + m
  BY <1>15, <1>19, <1>20
<1>22. b.start_frame + b.frames <= pending_start_frame + m
  BY <1>5, <1>18
<1> QED
  BY <1>10, <1>16, <1>20, <1>21, <1>22

\* An event is given, and what is dropped waited at most a frame.
LEMMA HearAfter ==
  ASSUME HearingInv, PipelineInv', ~finished, ~cancelled, UNCHANGED cancelled,
         NEW e \in SourceEvent, given' = Append(given, e), NEW g \in Nat, g = Len(given),
         \/ \A x \in Heard : x \in Heard'
         \/ /\ Len(pending_samples) < samples_per_vad_frame
            /\ \A x \in Heard : x \notin ToSet(pending_samples) => x \in Heard',
         e.type = "Audio" =>
           \A i \in 1 .. g + 1 :
             Joined(i, g + 1)' => \A x \in ToSet(Samples(given'[i].chunk)) : x \in Heard'
  PROVE  FramesHeard' /\ StretchHeard'
<1>1. InputTypes /\ PipelineInv /\ FramesHeard /\ StretchHeard
  BY DEF HearingInv, PipelineInv, InputInv
<1>2. /\ DOMAIN given = 1 .. g /\ DOMAIN given' = 1 .. g + 1 /\ Len(given') = g + 1
      /\ given'[g + 1] = e /\ \A k \in 1 .. g : given'[k] = given[k]
  BY <1>1, Given
<1>3. ASSUME NEW i \in 1 .. g + 1, Joined(i, g + 1)',
             NEW x \in ToSet(Samples(given'[i].chunk))
      PROVE  x \in Heard'
  <2>1. g + 1 \in i .. g + 1
    OBVIOUS
  <2>2. given'[g + 1].type = "Audio"
    BY <1>3, <2>1 DEF Joined, IsAudio
  <2>3. e.type = "Audio"
    BY <1>2, <2>2
  <2> QED
    BY <1>3, <2>3
<1>4. StretchHeard'
  <2> SUFFICES ASSUME NEW i \in 1 .. g + 1, Joined(i, g + 1)'
               PROVE  ToSet(Samples(given'[i].chunk)) \subseteq Heard'
    BY <1>2 DEF StretchHeard
  <2> QED
    BY <1>3
<1>5. ASSUME NEW i \in 1 .. g, NEW j \in 1 .. g, i <= j, Joined(i, j)',
             NEW x \in ToSet(Samples(given[i].chunk)),
             x.at + samples_per_vad_frame <= EndOf(j)
      PROVE  x \in Heard'
  <2>1. Joined(i, j) /\ IsAudio(i) /\ IsAudio(j)
    <3>1. ASSUME NEW k \in i .. j
          PROVE  IsAudio(k) /\ (k > i => given[k].chunk.start_frame = EndOf(k - 1))
      <4>1. k \in 1 .. g /\ (k > i => k - 1 \in 1 .. g)
        OBVIOUS
      <4>2. IsAudio(k)' /\ (k > i => given'[k].chunk.start_frame = EndOf(k - 1)')
        BY <1>5, <3>1 DEF Joined
      <4> QED
        BY <1>2, <4>1, <4>2 DEF IsAudio, EndOf
    <3>2. i \in i .. j /\ j \in i .. j
      BY <1>5
    <3> QED
      BY <3>1, <3>2 DEF Joined
  <2>2. x \in Heard
    BY <1>1, <1>2, <1>5, <2>1 DEF FramesHeard, Heard
  <2>3. Len(pending_samples) < samples_per_vad_frame => x \notin ToSet(pending_samples)
    BY <1>1, <1>2, <1>5, <2>1, NotWaiting
  <2> QED
    BY <2>2, <2>3
<1>6. FramesHeard'
  <2> SUFFICES ASSUME NEW i \in 1 .. g + 1, NEW j \in 1 .. g + 1, i <= j, Joined(i, j)',
                      NEW x \in ToSet(Samples(given'[i].chunk)),
                      x.at + samples_per_vad_frame <= EndOf(j)'
               PROVE  x \in Heard'
    BY <1>2 DEF FramesHeard, Heard
  <2>1. CASE j = g + 1
    BY <1>3, <2>1
  <2>2. CASE j \in 1 .. g
    <3>1. i \in 1 .. g /\ given'[i] = given[i] /\ given'[j] = given[j]
      BY <1>2, <2>2
    <3>2. EndOf(j)' = EndOf(j)
      BY <3>1 DEF EndOf
    <3> QED
      BY <1>5, <2>2, <3>1, <3>2
  <2> QED
    BY <2>1, <2>2
<1> QED
  BY <1>4, <1>6

LEMMA HearChunk ==
  ASSUME HearingInv, PipelineInv', ~finished, Len(pending_samples) < samples_per_vad_frame,
         Receive, Returned[1].type = "Audio", AcceptChunk(Returned[1].chunk)
  PROVE  FramesHeard' /\ StretchHeard'
<1> DEFINE e == Returned[1]
           c == e.chunk
           q == pending_samples
<1>1. InputTypes /\ PipelineInv /\ StretchHeard /\ PendingTrue /\ ~cancelled /\ UNCHANGED cancelled
      /\ PipelineTypes /\ PipelineTypes'
  BY ReceiveCases DEF HearingInv, PipelineInv, InputInv, Quiet
<1>2. PICK g \in Nat : g = Len(given)
  BY <1>1, LenProperties DEF InputTypes
<1>3. /\ c \in InputChunk /\ e \in SourceEvent /\ given' = Append(given, e)
      /\ ~Noted(c) /\ UNCHANGED framed
      /\ Misplaced(c) => q' = Samples(c)
      /\ ~Misplaced(c) => q' = q \o Samples(c)
      /\ q \in Seq(Sample) /\ Samples(c) \in Seq(Sample)
  BY <1>1, ChunkTaken, SampleFacts DEF PipelineTypes
<1> HIDE DEF e, q
<1>4. /\ DOMAIN given' = 1 .. g + 1 /\ given'[g + 1] = e /\ \A k \in 1 .. g : given'[k] = given[k]
      /\ DOMAIN given = 1 .. g
  BY <1>1, <1>2, <1>3, Given
<1>5. HeardMeaning /\ HeardMeaning'
  <2>1. PipelineTypes' => HeardMeaning'
    BY HeardMeans, PTL
  <2> QED
    BY <1>1, <2>1, HeardMeans
<1>6. \A x \in Heard : x \notin ToSet(q) => x \in Heard'
  BY <1>3, <1>5 DEF HeardMeaning, q
<1>6a. ToSet(q \o Samples(c)) = ToSet(q) \cup ToSet(Samples(c))
  <2>1. \A a, b \in Seq(Sample) : ToSet(a \o b) = ToSet(a) \cup ToSet(b)
    BY ConcatSet
  <2> QED
    BY <1>3, <2>1, Zenon
<1>7. \A x \in ToSet(Samples(c)) : x \in Heard'
  <2>1. ToSet(Samples(c)) \subseteq ToSet(q')
    BY <1>3, <1>6a
  <2> QED
    BY <1>5, <2>1 DEF HeardMeaning, q
<1>8. ~Misplaced(c) => \A x \in Heard : x \in Heard'
  <2>1. ~Misplaced(c) => ToSet(q) \subseteq ToSet(q')
    BY <1>3, <1>6a
  <2> QED
    BY <1>3, <1>5, <2>1 DEF HeardMeaning, q
<1>9. ASSUME NEW i \in 1 .. g + 1, Joined(i, g + 1)', NEW x \in ToSet(Samples(given'[i].chunk))
      PROVE  x \in Heard'
  <2>1. CASE i = g + 1
    BY <1>4, <1>7, <1>9, <2>1
  <2>2. CASE i \in 1 .. g
    <3>1. g \in 1 .. g /\ g + 1 \in i .. g + 1 /\ g + 1 > i /\ (g + 1) - 1 = g
      BY <2>2
    <3>2. given'[g + 1].chunk.start_frame = EndOf(g)'
      <4>1. given'[g + 1].chunk.start_frame = EndOf((g + 1) - 1)'
        BY <1>9, <3>1 DEF Joined
      <4> QED
        BY <3>1, <4>1
    <3>3. c.start_frame = given[g].chunk.start_frame + given[g].chunk.frames
      BY <1>4, <3>1, <3>2 DEF EndOf
    <3>4. LastGiven = given[g]
      BY <1>2 DEF LastGiven
    <3>5. ~Misplaced(c)
      BY <1>1, <3>3, <3>4 DEF PendingTrue, Misplaced
    <3>6. Joined(i, g)
      <4>1. ASSUME NEW k \in i .. g
            PROVE  IsAudio(k) /\ (k > i => given[k].chunk.start_frame = EndOf(k - 1))
        <5>1. k \in 1 .. g /\ k \in i .. g + 1 /\ (k > i => k - 1 \in 1 .. g)
          BY <2>2
        <5>2. IsAudio(k)' /\ (k > i => given'[k].chunk.start_frame = EndOf(k - 1)')
          BY <1>9, <5>1 DEF Joined
        <5> QED
          BY <1>4, <5>1, <5>2 DEF IsAudio, EndOf
      <4> QED
        BY <4>1 DEF Joined
    <3>7. x \in Heard
      BY <1>1, <1>2, <1>4, <1>9, <2>2, <3>6 DEF StretchHeard
    <3> QED
      BY <1>8, <3>5, <3>7
  <2> QED
    BY <2>1, <2>2
<1>10. \A i \in 1 .. g + 1 :
         Joined(i, g + 1)' => \A x \in ToSet(Samples(given'[i].chunk)) : x \in Heard'
  BY <1>9
<1>11. \/ \A x \in Heard : x \in Heard'
       \/ /\ Len(pending_samples) < samples_per_vad_frame
          /\ \A x \in Heard : x \notin ToSet(pending_samples) => x \in Heard'
  BY <1>6 DEF q
<1> QED
  BY <1>1, <1>2, <1>3, <1>10, <1>11, HearAfter
\* A gap, or the end: nothing is given that could be heard.
LEMMA HearOther ==
  ASSUME HearingInv, PipelineInv', ~finished, Len(pending_samples) < samples_per_vad_frame,
         Receive, Returned[1].type # "Audio",
         \/ UNCHANGED framed /\ pending_samples' = << >>
         \/ \A x \in Heard : x \in Heard'
  PROVE  FramesHeard' /\ StretchHeard'
<1> DEFINE e == Returned[1]
<1>1. InputTypes /\ ~cancelled /\ UNCHANGED cancelled /\ PipelineTypes /\ PipelineTypes'
      /\ e \in SourceEvent /\ given' = Append(given, e)
  BY ReceiveCases DEF HearingInv, PipelineInv, InputInv, Quiet
<1>2. PICK g \in Nat : g = Len(given)
  BY <1>1, LenProperties DEF InputTypes
<1>3. HeardMeaning /\ HeardMeaning'
  <2>1. PipelineTypes' => HeardMeaning'
    BY HeardMeans, PTL
  <2> QED
    BY <1>1, <2>1, HeardMeans
<1>4. UNCHANGED framed => \A x \in Heard : x \notin ToSet(pending_samples) => x \in Heard'
  BY <1>3 DEF HeardMeaning
<1> HIDE DEF e
<1>5. e.type # "Audio"
  BY DEF e
<1> QED
  BY <1>1, <1>2, <1>4, <1>5, HearAfter

LEMMA HearingInvInit == Init => HearingInv
<1> SUFFICES ASSUME Init PROVE HearingInv
  OBVIOUS
<1>1. PipelineInv
  BY PipelineInvInit
<1>2. DOMAIN given = {}
  BY DEF Init, InputInit
<1> QED
  BY <1>1, <1>2 DEF HearingInv, FramesHeard, StretchHeard

\* What is heard stays heard while nothing is given.
LEMMA HearStays ==
  ASSUME HearingInv, UNCHANGED <<given, cancelled>>, ~cancelled => \A x \in Heard : x \in Heard'
  PROVE  FramesHeard' /\ (~cancelled => StretchHeard)'
<1>1. FramesHeard /\ (~cancelled => StretchHeard)
  BY DEF HearingInv
<1>2. \A i, j : (Joined(i, j)' <=> Joined(i, j)) /\ EndOf(j)' = EndOf(j)
  BY DEF Joined, IsAudio, EndOf
<1>3. FramesHeard'
  <2> SUFFICES ASSUME ~cancelled, NEW i \in DOMAIN given, NEW j \in DOMAIN given, i <= j,
                      Joined(i, j), NEW x \in ToSet(Samples(given[i].chunk)),
                      x.at + samples_per_vad_frame <= EndOf(j)
               PROVE  x \in Heard'
    BY <1>2 DEF FramesHeard, Heard
  <2>1. x \in Heard
    BY <1>1 DEF FramesHeard, Heard
  <2> QED
    BY <2>1
<1>4. (~cancelled => StretchHeard)'
  <2> SUFFICES ASSUME ~cancelled, NEW i \in DOMAIN given, Joined(i, Len(given))
               PROVE  ToSet(Samples(given[i].chunk)) \subseteq Heard'
    BY <1>2 DEF StretchHeard
  <2>1. ToSet(Samples(given[i].chunk)) \subseteq Heard
    BY <1>1 DEF StretchHeard
  <2> QED
    BY <2>1
<1> QED
  BY <1>3, <1>4

LEMMA HearEmit == HearingInv /\ PipelineInv' /\ EmitCompleteVadFrame => \A x \in Heard : x \in Heard'
<1> SUFFICES ASSUME HearingInv, PipelineInv', EmitCompleteVadFrame, NEW x \in Heard
             PROVE  x \in Heard'
  OBVIOUS
<1> DEFINE n == samples_per_vad_frame
           q == pending_samples
           p == SubSeq(q, 1, n)
           r == SubSeq(q, n + 1, Len(q))
<1>1. PICK speech \in BOOLEAN :
        /\ ~finished /\ Len(q) >= n /\ q' = r
        /\ framed' = Append(framed, Frame(p, speech))
  BY DEF EmitCompleteVadFrame
<1>2. /\ PipelineTypes /\ PipelineTypes' /\ PendingTrue /\ q \in Seq(Sample) /\ n \in Nat \ {0}
      /\ pending_start_frame \in Nat \cup {Unknown} /\ framed \in Seq(VadFrame)
      /\ Len(q) \in Nat /\ Len(framed) \in Nat
  BY <1>1, FrameAssumption, LenProperties DEF HearingInv, PipelineInv, PipelineTypes
<1>3. HeardMeaning /\ HeardMeaning'
  <2>1. PipelineTypes' => HeardMeaning'
    BY HeardMeans, PTL
  <2> QED
    BY <1>2, <2>1, HeardMeans
<1> DEFINE f == Frame(p, speech)
<1>4. /\ f.samples = p /\ Len(framed') = Len(framed) + 1 /\ framed'[Len(framed) + 1] = f
      /\ \A i \in 1 .. Len(framed) : framed'[i] = framed[i]
  <2>1. f.samples = p
    BY DEF Frame
  <2>2. framed' = Append(framed, f)
    BY <1>1
  <2> HIDE DEF f
  <2> QED
    BY <1>2, <2>1, <2>2, AppendProperties
<1> HIDE DEF f
<1>5. /\ DOMAIN q = 1 .. Len(q)
      /\ p \in Seq(Sample) /\ Len(p) = n /\ \A i \in 1 .. n : p[i] = q[i]
      /\ r \in Seq(Sample) /\ Len(r) = Len(q) - n /\ \A i \in n + 1 .. Len(q) : r[i - n] = q[i]
  <2>1. \A i \in 1 .. Len(q) : q[i] \in Sample
    BY <1>2, ElementOfSeq
  <2>2. /\ p \in Seq(Sample) /\ Len(p) = (IF 1 <= n THEN n - 1 + 1 ELSE 0)
        /\ \A i \in 1 .. n - 1 + 1 : p[i] = q[1 + i - 1]
    <3>1. \A i \in 1 .. n : q[i] \in Sample
      BY <1>1, <1>2, <2>1
    <3> QED
      BY <1>2, <3>1, SubSeqProperties
  <2>3. r \in Seq(Sample) /\ Len(r) = Len(q) - n /\ EndsWith(q, r)
    BY <1>1, <1>2, SuffixFacts
  <2> HIDE DEF p, q, r, n
  <2>4. ASSUME NEW i \in n + 1 .. Len(q) PROVE r[i - n] = q[i]
    <3>1. i - n \in 1 .. Len(r) /\ Len(q) - Len(r) + (i - n) = i
      BY <1>2, <2>3
    <3>2. r[i - n] = q[Len(q) - Len(r) + (i - n)]
      BY <2>3, <3>1 DEF EndsWith
    <3> QED
      BY <3>1, <3>2
  <2>5. DOMAIN q = 1 .. Len(q)
    BY <1>2, LenProperties
  <2>6. Len(p) = n /\ \A i \in 1 .. n : p[i] = q[i]
    BY <1>2, <2>2
  <2> QED
    BY <2>2, <2>3, <2>4, <2>5, <2>6
<1>6. ASSUME x \in ToSet(q) PROVE x \in ToSet(p) \/ x \in ToSet(r)
  <2> HIDE DEF p, q, r, n
  <2>1. PICK i \in 1 .. Len(q) : x = q[i]
    BY <1>5, <1>6 DEF ToSet
  <2>2. CASE i <= n
    <3>1. i \in DOMAIN p /\ p[i] = x
      BY <1>2, <1>5, <2>1, <2>2, LenProperties
    <3> QED
      BY <3>1 DEF ToSet
  <2>3. CASE i > n
    <3>1. i - n \in DOMAIN r /\ r[i - n] = x
      BY <1>2, <1>5, <2>1, <2>3, LenProperties
    <3> QED
      BY <3>1 DEF ToSet
  <2> QED
    BY <1>2, <2>1, <2>2, <2>3
<1>7. CASE x \in ToSet(q)
  <2>1. x \in ToSet(p) \/ x \in ToSet(r)
    BY <1>6, <1>7
  <2> HIDE DEF p, r, n
  <2>2. x \in ToSet(p) => x \in Heard'
    <3>1. Len(framed) + 1 \in 1 .. Len(framed')
      BY <1>2, <1>4
    <3> QED
      BY <1>3, <1>4, <3>1 DEF HeardMeaning
  <2>3. x \in ToSet(r) => x \in Heard'
    BY <1>1, <1>3 DEF HeardMeaning
  <2> QED
    BY <2>1, <2>2, <2>3
<1>8. CASE \E i \in 1 .. Len(framed) : x \in ToSet(framed[i].samples)
  <2>1. PICK i \in 1 .. Len(framed) : x \in ToSet(framed[i].samples)
    BY <1>8
  <2>2. i \in 1 .. Len(framed') /\ framed'[i] = framed[i]
    BY <1>2, <1>4, <2>1
  <2> QED
    BY <1>3, <2>1, <2>2 DEF HeardMeaning
<1> QED
  BY <1>3, <1>7, <1>8 DEF HeardMeaning

LEMMA HearFinish ==
  ASSUME HearingInv, PipelineInv', FinishSource
  PROVE  \A x \in Heard : x \in Heard'
<1> DEFINE q == pending_samples
<1>1. PipelineTypes /\ PipelineTypes'
  BY DEF HearingInv, PipelineInv
<1>2. HeardMeaning /\ HeardMeaning'
  <2>1. PipelineTypes' => HeardMeaning'
    BY HeardMeans, PTL
  <2> QED
    BY <1>1, <2>1, HeardMeans
<1>3. CASE q = << >>
  <2>1. UNCHANGED framed /\ q' = q
    BY <1>3 DEF FinishSource
  <2> QED
    BY <1>2, <2>1 DEF HeardMeaning
<1>4. CASE q # << >>
  <2>1. PICK speech \in BOOLEAN : framed' = Append(framed, Frame(q, speech))
    BY <1>4 DEF FinishSource
  <2> DEFINE f == Frame(q, speech)
  <2>2. f.samples = q
    BY DEF Frame
  <2>3. framed' = Append(framed, f)
    BY <2>1
  <2> HIDE DEF f
  <2>4. /\ Len(framed) \in Nat /\ Len(framed') = Len(framed) + 1
        /\ framed'[Len(framed) + 1] = f /\ \A i \in 1 .. Len(framed) : framed'[i] = framed[i]
    BY <1>1, <2>3, AppendProperties, LenProperties DEF PipelineTypes
  <2>5. \A i \in 1 .. Len(framed) : i \in 1 .. Len(framed')
    BY <2>4
  <2>6. Len(framed) + 1 \in 1 .. Len(framed')
    BY <2>4
  <2>7. ASSUME NEW x \in ToSet(q) PROVE x \in Heard'
    BY <1>2, <2>2, <2>4, <2>6 DEF HeardMeaning
  <2>8. ASSUME NEW i \in 1 .. Len(framed), NEW x \in ToSet(framed[i].samples) PROVE x \in Heard'
    BY <1>2, <2>4, <2>5, <2>8 DEF HeardMeaning
  <2> QED
    BY <1>2, <2>7, <2>8 DEF HeardMeaning
<1> QED
  BY <1>3, <1>4

LEMMA HearingInvNext == HearingInv /\ [Next]_vars => HearingInv'
<1> SUFFICES ASSUME HearingInv, [Next]_vars PROVE FramesHeard' /\ (~cancelled => StretchHeard)'
  BY PipelineInvNext DEF HearingInv
<1>1. PipelineInv' /\ InputTypes
  BY PipelineInvNext DEF HearingInv, PipelineInv, InputInv
<1>2. CASE Produce
  <2>1. UNCHANGED <<given, cancelled, framed, pending_samples>>
    BY <1>1, <1>2, CaptureFacts DEF Produce, End, Reconnect, Disconnect, history, framing
  <2>2. \A x \in Heard : x \in Heard'
    BY <2>1 DEF Heard
  <2> QED
    BY <2>1, <2>2, HearStays
<1>3. CASE Pull
  <2>1. ~finished /\ Len(pending_samples) < samples_per_vad_frame /\ Receive
    BY <1>3 DEF Pull
  <2>2. CASE Returned[1].type = "Audio" /\ AcceptChunk(Returned[1].chunk)
    BY <1>1, <2>1, <2>2, HearChunk
  <2>3. CASE Returned[1].type = "Discontinuity" /\ AcceptGap(Returned[1])
    <3>1. UNCHANGED framed /\ pending_samples' = << >>
      BY <2>3 DEF AcceptGap
    <3> QED
      BY <1>1, <2>1, <2>3, <3>1, HearOther
  <2>4. CASE Returned[1].type = "EndOfStream" /\ FinishSource
    <3>1. \A x \in Heard : x \in Heard'
      BY <1>1, <2>4, HearFinish
    <3> QED
      BY <1>1, <2>1, <2>4, <3>1, HearOther
  <2> QED
    BY <1>3, <2>2, <2>3, <2>4 DEF Pull
<1>4. CASE EmitCompleteVadFrame
  <2>1. UNCHANGED <<given, cancelled>>
    BY <1>4 DEF EmitCompleteVadFrame, inputvars, history
  <2> QED
    BY <1>1, <1>4, <2>1, HearEmit, HearStays
<1>5. CASE CancelPipeline
  <2>1. cancelled'
    BY <1>5 DEF CancelPipeline, Cancel
  <2> QED
    BY <2>1 DEF FramesHeard
<1>6. CASE UNCHANGED vars
  <2>1. UNCHANGED <<given, cancelled, framed, pending_samples>>
    BY <1>6 DEF vars, inputvars, history, framing
  <2>2. \A x \in Heard : x \in Heard'
    BY <2>1 DEF Heard
  <2> QED
    BY <2>1, <2>2, HearStays
<1> QED
  BY <1>2, <1>3, <1>4, <1>5, <1>6 DEF Next

-----------------------------------------------------------------------------
\* The input and the pipeline, for every capacity, producer and configuration.

LEMMA Pipeline == Spec => []HearingInv
<1> QED
  BY HearingInvInit, HearingInvNext, PTL DEF Spec

\* However chunks are lost, repeated or sent over new connections, two that the receiver
\* is given one after the other are neighbours of one connection (source.rs:4, 582).
THEOREM GapsTold == Spec => []GapsAnnounced
<1>1. HearingInv => GapsAnnounced
  BY DEF HearingInv, PipelineInv, InputInv
<1> QED
  BY <1>1, Pipeline, PTL

\* No chunk whose sender was told Ok is lost, doubled or overtaken, the one held back
\* behind a gap included.
THEOREM ChunksConserved == Spec => []AcceptedConserved
<1>1. HearingInv => AcceptedConserved
  BY DEF HearingInv, PipelineInv, InputInv
<1> QED
  BY <1>1, Pipeline, PTL

\* A frame the detector is given is one stretch of audio, at the place it is given for.
THEOREM FramesAreTrue == Spec => []FramesTrue
<1>1. HearingInv => FramesTrue
  BY PipelineInvMeans DEF HearingInv
<1> QED
  BY <1>1, Pipeline, PTL

\* No segment joins audio from two sides of a gap or from two connections.
THEOREM SegmentsTrue == Spec => []SegmentsAreStretches
<1>1. HearingInv => SegmentsAreStretches
  BY PipelineInvMeans DEF HearingInv
<1> QED
  BY <1>1, Pipeline, PTL

\* The detector hears every sample that a frame's worth of adjacent audio begins with,
\* and nothing is left to report at the end.
THEOREM AudioHeard == Spec => []NoAudioLost
<1>1. HearingInv => NoAudioLost
  BY DEF HearingInv, PipelineInv, NoAudioLost
<1> QED
  BY <1>1, Pipeline, PTL
==============================================================================
