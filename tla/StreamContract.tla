--------------------------- MODULE StreamContract ---------------------------
(***************************************************************************)
(* The streaming event contract of crates/speaking/src/event.rs: producers *)
(* number their events with a StreamEventSequencer, a transport delivers   *)
(* the envelopes, and a consumer checks each one with StreamValidator      *)
(* before it applies it.                                                   *)
(*                                                                         *)
(* The transport is outside the crate: it may lose, repeat and reorder     *)
(* envelopes and mix streams.  A text is a sequence of characters (Unicode *)
(* scalar values).                                                         *)
(***************************************************************************)
EXTENDS Naturals, Sequences

CONSTANTS
  Stream, Segment,
  Silent,      \* streams whose events carry no text
  Text,        \* texts of hypotheses and commits
  NoStream,    \* StreamValidator.stream_id before the first envelope
  Faults,      \* what producers get wrong, a subset of AllFaults
  MaxEvents    \* bound: events of each stream

AllFaults == {"version", "derivation", "range", "late", "recommit"}

ASSUME ConstantsAssumption ==
  /\ MaxEvents \in [Stream -> Nat]
  /\ Text \subseteq Seq(STRING)
  /\ Faults \subseteq AllFaults
  /\ NoStream \notin Stream

VARIABLES
  log,            \* stream -> the envelopes its sequencer has made
  stream_id, next_sequence, terminal, segment_text, committed, \* StreamValidator
  accepted        \* the envelopes the validator accepted (history)

validator == <<stream_id, next_sequence, terminal, segment_text, committed>>
vars == <<log, validator, accepted>>

Init ==
  /\ log = [s \in Stream |-> << >>]
  /\ stream_id = NoStream
  /\ next_sequence = 0
  /\ terminal = FALSE
  /\ segment_text = [g \in {} |-> << >>]
  /\ committed = [g \in {} |-> << >>]
  /\ accepted = << >>

Put(f, k, v) == [x \in DOMAIN f \cup {k} |-> IF x = k THEN v ELSE f[x]]
Lookup(f, k) == IF k \in DOMAIN f THEN f[k] ELSE << >>

\* The characters of old from start to end (exclusive) replaced by text.
Splice(old, start, end, text) ==
  SubSeq(old, 1, start) \o text \o SubSeq(old, end + 1, Len(old))

-----------------------------------------------------------------------------
\* Producers.  Each keeps its own view of its segments, in the field view of its
\* last envelope, and describes its changes to it.

View(s) == IF log[s] = << >> THEN [texts |-> [g \in {} |-> << >>], done |-> {}]
           ELSE log[s][Len(log[s])].view
Open(s, g) == g \notin View(s).done

Write(s, g, text, done) ==
  [texts |-> Put(View(s).texts, g, text),
   done |-> IF done THEN View(s).done \cup {g} ELSE View(s).done]

\* StreamEventSequencer::push, which numbers what follows a terminal event too.
Push(s, event, view, fault) ==
  /\ Len(log[s]) < MaxEvents[s]
  /\ log' = [log EXCEPT ![s] = Append(@,
       [stream |-> s, sequence |-> Len(@), event |-> event, view |-> view,
        version_ok |-> fault # "version", derivation_ok |-> fault # "derivation"])]
  /\ UNCHANGED <<validator, accepted>>

Tell(s, g) ==
  \/ \E text \in Text :
       /\ Open(s, g) \/ "late" \in Faults
       /\ Push(s, [type |-> "PartialHypothesis", segment |-> g, text |-> text],
               IF Open(s, g) THEN Write(s, g, text, FALSE) ELSE View(s), "none")
  \/ \E text \in Text, end \in 0 .. Len(Lookup(View(s).texts, g)) + 1 :
       \E start \in 0 .. end :
         LET old == Lookup(View(s).texts, g) IN
         /\ Open(s, g) \/ "late" \in Faults
         /\ end <= Len(old) \/ "range" \in Faults
         /\ Push(s, [type |-> "RevisedHypothesis", segment |-> g, text |-> text,
                     start |-> start, end |-> end],
                 IF Open(s, g) /\ end <= Len(old)
                 THEN Write(s, g, Splice(old, start, end, text), FALSE)
                 ELSE View(s), "none")
  \/ \E text \in Text :
       /\ Open(s, g) \/ "recommit" \in Faults
       /\ Push(s, [type |-> "CommittedSegment", segment |-> g, text |-> text],
               Write(s, g, text, TRUE), "none")

\* Any event that carries no text, well formed or not, and a terminal one.
Note(s) ==
  \E fault \in (Faults \cap {"version", "derivation"}) \cup {"none"} :
    Push(s, [type |-> "Other"], View(s), fault)
End(s) == Push(s, [type |-> "Terminal"], View(s), "none")

-----------------------------------------------------------------------------
\* StreamValidator::validate

\* The first envelope of a supported version binds the validator to its stream
\* and sequence, before it is checked any further.
Binds(e) == e.version_ok /\ ~terminal /\ stream_id = NoStream
Expected(e) == IF Binds(e) THEN e.sequence ELSE next_sequence

Admitted(e) == e.version_ok /\ ~terminal /\ (stream_id = NoStream \/ stream_id = e.stream)

\* Mutant: a revision may rewrite a committed segment.
EventValid_CommittedOpen(event) ==
  event.type = "RevisedHypothesis" =>
    event.end <= Len(Lookup(segment_text, event.segment))

EventValid(event) ==
  /\ event.type \in {"PartialHypothesis", "RevisedHypothesis"} =>
       event.segment \notin DOMAIN committed
  /\ event.type = "RevisedHypothesis" =>
       event.start <= event.end /\ event.end <= Len(Lookup(segment_text, event.segment))

\* Mutant: a gap is let through, only a step back is refused.
Acceptable_AllowsGap(e) ==
  /\ Admitted(e)
  /\ e.sequence >= Expected(e)
  /\ e.derivation_ok
  /\ EventValid(e.event)

Acceptable(e) ==
  /\ Admitted(e)
  /\ e.sequence = Expected(e)
  /\ e.derivation_ok
  /\ EventValid(e.event)

NewText(event) ==
  IF event.type = "RevisedHypothesis"
  THEN Splice(Lookup(segment_text, event.segment), event.start, event.end, event.text)
  ELSE event.text

Apply(event) ==
  /\ segment_text' = IF event.type \in {"Other", "Terminal"} THEN segment_text
                     ELSE Put(segment_text, event.segment, NewText(event))
  /\ committed' = IF event.type = "CommittedSegment"
                  THEN Put(committed, event.segment, event.text) ELSE committed
  /\ terminal' = (event.type = "Terminal")

Validate(e) ==
  /\ stream_id' = IF Binds(e) THEN e.stream ELSE stream_id
  /\ IF Acceptable(e)
     THEN /\ Apply(e.event)
          /\ next_sequence' = Expected(e) + 1
          /\ accepted' = Append(accepted, e)
     ELSE /\ next_sequence' = Expected(e)
          /\ UNCHANGED <<terminal, segment_text, committed, accepted>>

\* The transport hands some envelope to the consumer.  What the consumer does
\* with an error, reject it or warn and drop the envelope, leaves the validator
\* as it is (validate_with_policy).
Deliver(s) ==
  /\ \E i \in DOMAIN log[s] : Validate(log[s][i])
  /\ UNCHANGED log

Next ==
  \/ \E s \in Stream \ Silent, g \in Segment : Tell(s, g)
  \/ \E s \in Stream : Note(s)
  \/ \E s \in Stream : End(s)
  \/ \E s \in Stream : Deliver(s)

Spec == Init /\ [][Next]_vars

-----------------------------------------------------------------------------
\* Whatever the transport loses, repeats, reorders or mixes, what the consumer
\* applies is an unbroken run of one stream's events, and nothing follows a
\* terminal event.
AcceptedIsContiguous ==
  /\ \A i \in DOMAIN accepted :
       /\ accepted[i].stream = accepted[1].stream
       /\ accepted[i].sequence = accepted[1].sequence + i - 1
  /\ \A i \in 1 .. Len(accepted) - 1 : accepted[i].event.type # "Terminal"

\* A consumer that follows a stream from its start shows, after every event it
\* accepts, exactly the texts the producer meant at that event.
TextAgrees ==
  accepted # << >> /\ accepted[1].sequence = 0 =>
    segment_text = accepted[Len(accepted)].view.texts

\* However late a hypothesis comes, whatever its range, and from a producer that takes its
\* commits back, too: what is committed stays committed and is the text that is shown, and
\* nothing but a commit of that very segment, accepted now, puts another text there.
CommittedGuarded ==
  [][\A g \in DOMAIN committed :
       /\ g \in DOMAIN committed' /\ segment_text'[g] = committed'[g]
       /\ \/ committed'[g] = committed[g]
          \/ LET event == accepted'[Len(accepted')].event
             IN  /\ Len(accepted') > Len(accepted)
                 /\ event.type = "CommittedSegment" /\ event.segment = g
                 /\ event.text = committed'[g]]_vars

\* docs/streaming-event-contract.md:42, "`committed_segment` is immutable", and :86-87,
\* "mutation of committed text" fails closed: no envelope changes the text of a committed
\* segment.
CommittedImmutable ==
  [][\A g \in DOMAIN committed :
       g \in DOMAIN committed' /\ committed'[g] = committed[g]
         /\ segment_text'[g] = committed[g]]_vars
=============================================================================
