-------------------------- MODULE RecognitionStream --------------------------
(***************************************************************************)
(* A recognition session as a producer of the streaming contract           *)
(* (crates/speaking/src/asr.rs and transcript.rs): each hypothesis of the  *)
(* recognizer goes to a TranscriptCandidateTracker, which tells only what  *)
(* changed since the last one, and the caller numbers and sends the events *)
(* one after the other.                                                    *)
(*                                                                         *)
(* What the recognizer hears is any hypothesis, final or not.  The code    *)
(* finds the stable prefix in bytes and then counts its characters, which  *)
(* is a position in the text as a sequence of characters.                  *)
(***************************************************************************)
EXTENDS StreamContract

CONSTANTS
  Hypothesis,   \* texts of the recognizer
  Space,        \* the white space character
  NoText        \* no hypothesis yet

ASSUME RecognitionAssumption ==
  /\ Hypothesis \subseteq Seq(STRING)
  /\ NoText \notin Hypothesis

VARIABLES
  recognised,   \* the streams that are recognition sessions; others are as in StreamContract
  session,      \* stream -> FixtureAsrSession, its tracker's fields among them
  outgoing      \* stream -> what a call has returned and the caller has not yet sent

sessionVars == <<recognised, session, outgoing>>
transcriptVars == <<vars, sessionVars>>

\* Candidates are numbered from 1.
NoCandidate == [id |-> 0, text |-> << >>]

NewSession == [active |-> NoCandidate, next_id |-> 0, last_text |-> NoText,
               final_emitted |-> FALSE, open |-> TRUE]

RecognitionInit ==
  /\ Init
  /\ recognised \in SUBSET (Stream \ Silent)
  /\ session = [s \in Stream |-> NewSession]
  /\ outgoing = [s \in Stream |-> << >>]

-----------------------------------------------------------------------------
\* text_stability.rs

Largest(S) == CHOOSE k \in S : \A j \in S : j <= k

\* The lengths of the prefixes that two texts share.
SharedPrefixes(previous, next) ==
  {k \in 0 .. Len(previous) : k <= Len(next) /\ \A i \in 1 .. k : previous[i] = next[i]}

\* Where a word begins or ends in the first n characters of a longer text.
Boundaries(text, n) == {k \in 1 .. n : text[k] = Space \/ (k = n /\ text[n + 1] = Space)}

\* The shared prefix, back to the last place where both texts have a word boundary,
\* if each has one.
stable_prefix_len(previous, next) ==
  LET shared == Largest(SharedPrefixes(previous, next))
      before == Boundaries(previous, shared)
      after == Boundaries(next, shared)
  IN  IF shared \in {Len(previous), Len(next)} \/ before = {} \/ after = {} THEN shared
      ELSE IF Largest(before) <= Largest(after) THEN Largest(before) ELSE Largest(after)

-----------------------------------------------------------------------------
\* TranscriptCandidateTracker.  With each event goes the text its segment has after it.

Partial(id, text) ==
  [event |-> [type |-> "PartialHypothesis", segment |-> id, text |-> text], text |-> text]
Committed(id, text) ==
  [event |-> [type |-> "CommittedSegment", segment |-> id, text |-> text], text |-> text]

\* Mutant: the range ends where the new text ends.
Revised_NewEnd(id, old, text) ==
  LET stable == stable_prefix_len(old, text) IN
  [event |-> [type |-> "RevisedHypothesis", segment |-> id, start |-> stable,
              end |-> IF Len(text) < Len(old) THEN Len(text) ELSE Len(old),
              text |-> SubSeq(text, stable + 1, Len(text))],
   text |-> text]

Revised(id, old, text) ==
  LET stable == stable_prefix_len(old, text) IN
  [event |-> [type |-> "RevisedHypothesis", segment |-> id, start |-> stable, end |-> Len(old),
              text |-> SubSeq(text, stable + 1, Len(text))],
   text |-> text]

HypothesisCancelled(id) == [event |-> [type |-> "Other", segment |-> id], text |-> << >>]
Last == [event |-> [type |-> "Terminal"], text |-> << >>]

\* What cancel_active and ingest_candidate return, and the tracker they leave.
Cancel(t) ==
  [events |-> IF t.active = NoCandidate THEN << >> ELSE <<HypothesisCancelled(t.active.id)>>,
   active |-> NoCandidate, next_id |-> t.next_id]

Begin(t, text, is_final) ==
  LET id == t.next_id + 1 IN
  [events |-> <<IF is_final THEN Committed(id, text) ELSE Partial(id, text)>>,
   active |-> IF is_final THEN NoCandidate ELSE [id |-> id, text |-> text],
   next_id |-> id]

Continue(t, text, is_final) ==
  LET id == t.active.id
      old == t.active.text
  IN  [events |-> IF old = text
                  THEN <<IF is_final THEN Committed(id, text) ELSE Partial(id, text)>>
                  ELSE <<Revised(id, old, text)>>
                         \o (IF is_final THEN <<Committed(id, text)>> ELSE << >>),
       active |-> IF is_final THEN NoCandidate ELSE [id |-> id, text |-> text],
       next_id |-> t.next_id]

ingest_candidate(t, text, is_final) ==
  CASE text = << >> /\ is_final -> Cancel(t)
    [] text = << >> /\ ~is_final ->
         [events |-> << >>, active |-> t.active, next_id |-> t.next_id]
    [] text # << >> /\ t.active = NoCandidate -> Begin(t, text, is_final)
    [] text # << >> /\ t.active # NoCandidate -> Continue(t, text, is_final)

-----------------------------------------------------------------------------
\* The session.  Its caller sends all that a call returns before it calls again, and
\* does not call a session that it has finished or cancelled (AsrRuntime).

Idle(s) == s \in recognised /\ session[s].open /\ outgoing[s] = << >>

\* The session's call returns what the tracker did, and then more.
Return(s, tracker, more, last_text, final_emitted, open) ==
  /\ session' = [session EXCEPT ![s] =
       [active |-> tracker.active, next_id |-> tracker.next_id, last_text |-> last_text,
        final_emitted |-> final_emitted, open |-> open]]
  /\ outgoing' = [outgoing EXCEPT ![s] = tracker.events \o more]
  /\ UNCHANGED <<vars, recognised>>

\* Mutant: a session that has been final once stays so.
push_audio_FinalStays(s) ==
  \E text \in Hypothesis, is_final \in BOOLEAN :
    /\ Idle(s)
    /\ Return(s, ingest_candidate(session[s], text, is_final), << >>, text,
              is_final \/ session[s].final_emitted, TRUE)

push_audio(s) ==
  \E text \in Hypothesis, is_final \in BOOLEAN :
    /\ Idle(s)
    /\ Return(s, ingest_candidate(session[s], text, is_final), << >>, text, is_final, TRUE)

\* The last hypothesis is taken as final, unless it already was.
finish(s) ==
  /\ Idle(s)
  /\ LET t == session[s]
         settled == [events |-> << >>, active |-> t.active, next_id |-> t.next_id]
         tracker == IF t.final_emitted THEN settled
                    ELSE IF t.last_text = NoText THEN Cancel(t)
                    ELSE ingest_candidate(t, t.last_text, TRUE)
     IN  Return(s, tracker, <<Last>>, NoText, TRUE, FALSE)

cancel(s) ==
  /\ Idle(s)
  /\ Return(s, Cancel(session[s]), <<Last>>, session[s].last_text, session[s].final_emitted,
            FALSE)

\* The caller numbers the next event it has and sends it.
Publish(s) ==
  /\ s \in recognised /\ outgoing[s] # << >>
  /\ LET next == Head(outgoing[s])
         done == next.event.type = "CommittedSegment"
         view == IF next.event.type \in {"Other", "Terminal"} THEN View(s)
                 ELSE Write(s, next.event.segment, next.text, done)
     IN  Push(s, next.event, view, "none")
  /\ outgoing' = [outgoing EXCEPT ![s] = Tail(@)]
  /\ UNCHANGED <<recognised, session>>

\* Other producers, and the transport.
Elsewhere ==
  /\ Next
  /\ \A s \in recognised : log'[s] = log[s]
  /\ UNCHANGED sessionVars

RecognitionNext ==
  \/ \E s \in Stream : push_audio(s)
  \/ \E s \in Stream : finish(s)
  \/ \E s \in Stream : cancel(s)
  \/ \E s \in Stream : Publish(s)
  \/ Elsewhere

RecognitionSpec == RecognitionInit /\ [][RecognitionNext]_transcriptVars

-----------------------------------------------------------------------------
\* When a session has said that it is over, finished or cancelled at any point, each
\* hypothesis that it told has been committed or called off: none is left open.
HypothesesSettled ==
  \A s \in recognised :
    (\E i \in DOMAIN log[s] : log[s][i].event.type = "Terminal") =>
      \A g \in DOMAIN View(s).texts :
        \/ g \in View(s).done
        \/ \E j \in DOMAIN log[s] : log[s][j].event = [type |-> "Other", segment |-> g]
=============================================================================
