------------------------ MODULE StreamContractProofs ------------------------
(***************************************************************************)
(* What a consumer of the streaming contract can rely on, for any number   *)
(* of streams, segments and events, any texts, whatever the transport      *)
(* does and whatever producers get wrong.                                  *)
(***************************************************************************)
EXTENDS RecognitionStream, SequenceTheorems, WellFoundedInduction, TLAPS

IsSeq(q) == q \in Seq({q[i] : i \in DOMAIN q})

\* A sequence of anything, with something appended.
LEMMA AppendAny ==
  ASSUME NEW q, IsSeq(q), NEW e
  PROVE  /\ IsSeq(Append(q, e))
         /\ DOMAIN Append(q, e) = 1 .. Len(q) + 1
         /\ Len(Append(q, e)) = Len(q) + 1
         /\ \A i \in 1 .. Len(q) : Append(q, e)[i] = q[i]
         /\ Append(q, e)[Len(q) + 1] = e
<1> DEFINE S == {q[i] : i \in DOMAIN q} \cup {e}
<1>1. q \in Seq(S) /\ Len(q) \in Nat /\ DOMAIN q = 1 .. Len(q)
  BY DEF IsSeq
<1>2. /\ Append(q, e) \in Seq(S)
      /\ Len(Append(q, e)) = Len(q) + 1
      /\ \A i \in 1 .. Len(q) : Append(q, e)[i] = q[i]
      /\ Append(q, e)[Len(q) + 1] = e
  BY <1>1, AppendProperties
<1>3. DOMAIN Append(q, e) = 1 .. Len(q) + 1
  BY <1>2
<1>4. IsSeq(Append(q, e))
  BY <1>2, <1>3 DEF IsSeq
<1> QED
  BY <1>2, <1>3, <1>4

-----------------------------------------------------------------------------
\* The view a producer had before its i-th envelope, and the one an event leaves it with.

Empty == [g \in {} |-> << >>]
Before(s, i) == IF i = 1 THEN [texts |-> Empty, done |-> {}] ELSE log[s][i - 1].view

NoEffect(v, event) ==
  \/ event.type \in {"Other", "Terminal"}
  \/ event.segment \in v.done /\ event.type # "CommittedSegment"
  \/ /\ event.type = "RevisedHypothesis"
     /\ ~(event.end <= Len(Lookup(v.texts, event.segment)))

TextOf(v, event) ==
  IF event.type = "RevisedHypothesis"
  THEN Splice(Lookup(v.texts, event.segment), event.start, event.end, event.text)
  ELSE event.text

Meant(v, event) ==
  IF NoEffect(v, event) THEN v
  ELSE [texts |-> Put(v.texts, event.segment, TextOf(v, event)),
        done |-> IF event.type = "CommittedSegment" THEN v.done \cup {event.segment}
                 ELSE v.done]

Types == {"PartialHypothesis", "RevisedHypothesis", "CommittedSegment", "Other", "Terminal"}

\* A producer numbers its events from zero, and says in each view what its events mean.
LogInv(s) ==
  /\ IsSeq(log[s])
  /\ \A i \in DOMAIN log[s] :
       /\ log[s][i].stream = s /\ log[s][i].sequence = i - 1
       /\ log[s][i].event.type \in Types
       /\ log[s][i].view = Meant(Before(s, i), log[s][i].event)

\* What stands in L behind place b, and ends at the first terminal event.
StretchOf(q, L, b) ==
  \A k \in DOMAIN q :
    /\ b + k \in DOMAIN L /\ q[k] = L[b + k]
    /\ k < Len(q) => q[k].event.type # "Terminal"

LEMMA StretchGrows ==
  ASSUME NEW q, IsSeq(q), NEW L, NEW b \in Nat, StretchOf(q, L, b),
         q # << >> => q[Len(q)].event.type # "Terminal",
         NEW i \in DOMAIN L, i = b + Len(q) + 1
  PROVE  StretchOf(Append(q, L[i]), L, b)
<1> DEFINE n == Len(q)
           r == Append(q, L[i])
<1>1. n \in Nat /\ DOMAIN q = 1 .. n /\ (q = << >> <=> n = 0)
  BY EmptySeq DEF IsSeq
<1>2. /\ DOMAIN r = 1 .. n + 1 /\ Len(r) = n + 1
      /\ \A k \in 1 .. n : r[k] = q[k]
      /\ r[n + 1] = L[i]
  BY AppendAny
<1>3. \A k \in 1 .. n : b + k \in DOMAIN L /\ q[k] = L[b + k] /\ q[k].event.type # "Terminal"
  <2>1. \A k \in 1 .. n : b + k \in DOMAIN L /\ q[k] = L[b + k]
                         /\ (k < n => q[k].event.type # "Terminal")
    BY <1>1 DEF StretchOf
  <2>2. n # 0 => q[n].event.type # "Terminal"
    BY <1>1
  <2> HIDE DEF n
  <2> QED
    BY <1>1, <2>1, <2>2
<1>4. i = b + n + 1
  OBVIOUS
<1> SUFFICES StretchOf(r, L, b)
  OBVIOUS
<1> HIDE DEF n, r
<1>5. ASSUME NEW k \in 1 .. n + 1
      PROVE  b + k \in DOMAIN L /\ r[k] = L[b + k] /\ (k < n + 1 => r[k].event.type # "Terminal")
  <2>1. CASE k \in 1 .. n
    BY <1>2, <1>3, <2>1
  <2>2. CASE k = n + 1
    BY <1>1, <1>2, <1>4, <2>2
  <2> QED
    BY <1>1, <2>1, <2>2
<1> QED
  BY <1>2, <1>5 DEF StretchOf

\* What was accepted is a stretch of the log of one stream, the validator expects what
\* comes behind it, and what it has as committed its producer will not commit again.
AcceptedInv ==
  LET first == accepted[1]
      last == accepted[Len(accepted)]
  IN  /\ stream_id \in Stream
      /\ first.sequence \in Nat
      /\ StretchOf(accepted, log[stream_id], first.sequence)
      /\ next_sequence = first.sequence + Len(accepted)
      /\ terminal = (last.event.type = "Terminal")
      /\ DOMAIN committed \subseteq last.view.done
      /\ first.sequence = 0 =>
           DOMAIN committed = last.view.done /\ segment_text = last.view.texts

ValidatorInv ==
  /\ IsSeq(accepted)
  /\ accepted = << >> => committed = Empty /\ segment_text = Empty /\ ~terminal
  /\ accepted # << >> => AcceptedInv
  /\ \A g \in DOMAIN committed :
       g \in DOMAIN segment_text /\ segment_text[g] = committed[g]

Inv == log = [s \in Stream |-> log[s]] /\ (\A s \in Stream : LogInv(s)) /\ ValidatorInv

-----------------------------------------------------------------------------
\* A producer's view is the one before its next envelope.
LEMMA ViewIsBefore ==
  ASSUME NEW s \in Stream, IsSeq(log[s])
  PROVE  View(s) = Before(s, Len(log[s]) + 1)
<1>1. Len(log[s]) \in Nat /\ (log[s] = << >> <=> Len(log[s]) = 0)
  BY EmptySeq DEF IsSeq
<1>2. Len(log[s]) + 1 - 1 = Len(log[s]) /\ (Len(log[s]) + 1 = 1 <=> Len(log[s]) = 0)
  BY <1>1
<1> QED
  BY <1>1, <1>2 DEF View, Before, Empty

\* An event that is numbered next, and means what the view says, keeps the invariant.
LEMMA PushStep ==
  ASSUME Inv, NEW s \in Stream, NEW event, NEW view, NEW fault,
         event.type \in Types, view = Meant(View(s), event),
         Push(s, event, view, fault)
  PROVE  Inv'
<1> DEFINE n == Len(log[s])
           e == [stream |-> s, sequence |-> n, event |-> event, view |-> view,
                 version_ok |-> fault # "version", derivation_ok |-> fault # "derivation"]
<1>1. /\ IsSeq(log[s]) /\ n \in Nat /\ DOMAIN log[s] = 1 .. n
  BY DEF Inv, LogInv, IsSeq
<1>2. /\ log'[s] = Append(log[s], e)
      /\ \A z \in Stream \ {s} : log'[z] = log[z]
      /\ log' = [z \in Stream |-> log'[z]]
      /\ UNCHANGED <<validator, accepted>>
  BY DEF Push, Inv
<1>3. /\ IsSeq(log'[s]) /\ DOMAIN log'[s] = 1 .. n + 1
      /\ \A i \in 1 .. n : log'[s][i] = log[s][i]
      /\ log'[s][n + 1] = e
  BY <1>1, <1>2, AppendAny
<1>4. ASSUME NEW i \in 1 .. n + 1 PROVE Before(s, i)' = Before(s, i)
  <2>1. CASE i = 1
    BY <2>1 DEF Before
  <2>2. CASE i # 1
    <3>1. i - 1 \in 1 .. n
      BY <2>2, <1>1
    <3> QED
      BY <2>2, <3>1, <1>3 DEF Before
  <2> QED
    BY <2>1, <2>2
<1>5. View(s) = Before(s, n + 1)
  BY <1>1, ViewIsBefore
<1>6. LogInv(s)'
  <2> SUFFICES ASSUME NEW i \in DOMAIN log'[s]
               PROVE  /\ log'[s][i].stream = s /\ log'[s][i].sequence = i - 1
                      /\ log'[s][i].event.type \in Types
                      /\ log'[s][i].view = Meant(Before(s, i)', log'[s][i].event)
    <3>1. \A i \in DOMAIN log'[s] : Meant(Before(s, i), log[s][i].event)'
                                    = Meant(Before(s, i)', log'[s][i].event)
      BY DEF Meant, NoEffect, TextOf
    <3> QED
      BY <1>3, <3>1 DEF LogInv
  <2>1. CASE i \in 1 .. n
    <3>1. i \in 1 .. n + 1 /\ log'[s][i] = log[s][i] /\ Before(s, i)' = Before(s, i)
      BY <2>1, <1>1, <1>3, <1>4
    <3> QED
      BY <2>1, <3>1, <1>1 DEF Inv, LogInv
  <2>2. CASE i = n + 1
    <3>1. log'[s][i] = e /\ Before(s, i)' = View(s) /\ n = i - 1
      BY <2>2, <1>1, <1>3, <1>4, <1>5
    <3>2. /\ e.stream = s /\ e.sequence = i - 1 /\ e.event = event /\ e.view = view
      BY <3>1
    <3> HIDE DEF e
    <3> QED
      BY <3>1, <3>2
  <2> QED
    BY <2>1, <2>2, <1>1, <1>3
<1>7. ASSUME NEW z \in Stream \ {s} PROVE LogInv(z)'
  <2>1. LogInv(z) /\ log'[z] = log[z]
    BY <1>2 DEF Inv
  <2>2. \A i : Before(z, i)' = Before(z, i)
    BY <2>1 DEF Before
  <2> QED
    BY <2>1, <2>2 DEF LogInv, IsSeq
<1>8. ValidatorInv'
  <2>1. ValidatorInv
    BY DEF Inv
  <2>2. ASSUME accepted # << >>, AcceptedInv PROVE AcceptedInv'
    <3>1. /\ stream_id \in Stream
          /\ \A z \in Stream : \A i \in DOMAIN log[z] : i \in DOMAIN log'[z]
                                                       /\ log'[z][i] = log[z][i]
      <4>1. \A i \in DOMAIN log[s] : i \in DOMAIN log'[s] /\ log'[s][i] = log[s][i]
        BY <1>1, <1>3
      <4> QED
        BY <1>2, <2>2, <4>1 DEF AcceptedInv
    <3>2. accepted' = accepted /\ UNCHANGED <<stream_id, next_sequence, terminal, segment_text,
                                              committed>>
      BY <1>2 DEF validator
    <3>3. StretchOf(accepted, log'[stream_id], accepted[1].sequence)
      <4>1. StretchOf(accepted, log[stream_id], accepted[1].sequence)
        BY <2>2 DEF AcceptedInv
      <4> QED
        BY <3>1, <4>1 DEF StretchOf
    <3> QED
      BY <2>2, <3>2, <3>3 DEF AcceptedInv
  <2> QED
    BY <2>1, <2>2, <1>2 DEF ValidatorInv, validator, IsSeq
<1> QED
  BY <1>2, <1>6, <1>7, <1>8 DEF Inv

\* Everything a producer says is that.
LEMMA ProducerStep ==
  ASSUME Inv, NEW s \in Stream, (\E g \in Segment : Tell(s, g)) \/ Note(s) \/ End(s)
  PROVE  Inv'
<1>1. ASSUME NEW g \in Segment, Tell(s, g) PROVE Inv'
  <2>1. ASSUME NEW text \in Text,
               Push(s, [type |-> "PartialHypothesis", segment |-> g, text |-> text],
                    IF Open(s, g) THEN Write(s, g, text, FALSE) ELSE View(s), "none")
        PROVE  Inv'
    <3> DEFINE event == [type |-> "PartialHypothesis", segment |-> g, text |-> text]
    <3>1. (IF Open(s, g) THEN Write(s, g, text, FALSE) ELSE View(s)) = Meant(View(s), event)
      BY DEF Open, Write, Meant, NoEffect, TextOf
    <3>2. event.type \in Types
      BY DEF Types
    <3> HIDE DEF event
    <3> QED
      BY <2>1, <3>1, <3>2, PushStep DEF event
  <2>2. ASSUME NEW text \in Text, NEW end, NEW start,
               Push(s, [type |-> "RevisedHypothesis", segment |-> g, text |-> text,
                        start |-> start, end |-> end],
                    IF Open(s, g) /\ end <= Len(Lookup(View(s).texts, g))
                    THEN Write(s, g, Splice(Lookup(View(s).texts, g), start, end, text), FALSE)
                    ELSE View(s), "none")
        PROVE  Inv'
    <3> DEFINE event == [type |-> "RevisedHypothesis", segment |-> g, text |-> text,
                         start |-> start, end |-> end]
    <3>1. (IF Open(s, g) /\ end <= Len(Lookup(View(s).texts, g))
           THEN Write(s, g, Splice(Lookup(View(s).texts, g), start, end, text), FALSE)
           ELSE View(s)) = Meant(View(s), event)
      BY DEF Open, Write, Meant, NoEffect, TextOf
    <3>2. event.type \in Types
      BY DEF Types
    <3> HIDE DEF event
    <3> QED
      BY <2>2, <3>1, <3>2, PushStep DEF event
  <2>3. ASSUME NEW text \in Text,
               Push(s, [type |-> "CommittedSegment", segment |-> g, text |-> text],
                    Write(s, g, text, TRUE), "none")
        PROVE  Inv'
    <3> DEFINE event == [type |-> "CommittedSegment", segment |-> g, text |-> text]
    <3>1. Write(s, g, text, TRUE) = Meant(View(s), event)
      BY DEF Write, Meant, NoEffect, TextOf
    <3>2. event.type \in Types
      BY DEF Types
    <3> HIDE DEF event
    <3> QED
      BY <2>3, <3>1, <3>2, PushStep DEF event
  <2> QED
    BY <1>1, <2>1, <2>2, <2>3 DEF Tell
<1>2. ASSUME NEW type \in {"Other", "Terminal"}, NEW fault,
             Push(s, [type |-> type], View(s), fault)
      PROVE  Inv'
  <2> DEFINE event == [type |-> type]
  <2>1. View(s) = Meant(View(s), event)
    BY DEF Meant, NoEffect
  <2>2. event.type \in Types
    BY DEF Types
  <2> HIDE DEF event
  <2> QED
    BY <1>2, <2>1, <2>2, PushStep DEF event
<1>3. CASE Note(s)
  BY <1>2, <1>3 DEF Note
<1>4. CASE End(s)
  BY <1>2, <1>4 DEF End
<1> QED
  BY <1>1, <1>3, <1>4

-----------------------------------------------------------------------------
\* What the validator applies of an event that it finds acceptable is what the producer
\* meant, when it knows the segments as the producer did.
LEMMA SameMeaning ==
  ASSUME NEW event, event.type \in Types, EventValid(event), Apply(event),
         NEW v, DOMAIN committed = v.done, segment_text = v.texts
  PROVE  DOMAIN committed' = Meant(v, event).done /\ segment_text' = Meant(v, event).texts
<1>1. CASE event.type \in {"Other", "Terminal"}
  BY <1>1 DEF Apply, Meant, NoEffect
<1>2. CASE event.type = "PartialHypothesis"
  BY <1>2 DEF Apply, Meant, NoEffect, EventValid, NewText, TextOf
<1>3. CASE event.type = "RevisedHypothesis"
  BY <1>3 DEF Apply, Meant, NoEffect, EventValid, NewText, TextOf
<1>4. CASE event.type = "CommittedSegment"
  BY <1>4 DEF Apply, Meant, NoEffect, EventValid, NewText, TextOf, Put
<1> QED
  BY <1>1, <1>2, <1>3, <1>4 DEF Types

\* The event puts this text in place of a committed one.
Commits(event, g, text) ==
  event.type = "CommittedSegment" /\ event.segment = g /\ event.text = text

\* Whatever it knows, it keeps what it has committed, unless that is committed anew.
LEMMA CommittedKept ==
  ASSUME NEW event, event.type \in Types, EventValid(event), Apply(event),
         \A g \in DOMAIN committed : g \in DOMAIN segment_text /\ segment_text[g] = committed[g]
  PROVE  /\ \A g \in DOMAIN committed :
              /\ g \in DOMAIN committed'
              /\ committed'[g] = committed[g] \/ Commits(event, g, committed'[g])
         /\ \A g \in DOMAIN committed' : /\ g \in DOMAIN segment_text'
                                         /\ segment_text'[g] = committed'[g]
         /\ DOMAIN committed' = IF event.type = "CommittedSegment"
                                THEN DOMAIN committed \cup {event.segment}
                                ELSE DOMAIN committed
<1>1. CASE event.type \in {"Other", "Terminal"}
  BY <1>1 DEF Apply
<1>2. CASE event.type \in {"PartialHypothesis", "RevisedHypothesis"}
  BY <1>2 DEF Apply, EventValid, Put
<1>3. CASE event.type = "CommittedSegment"
  BY <1>3 DEF Apply, NewText, Put, Commits
<1> QED
  BY <1>1, <1>2, <1>3 DEF Types

\* What a producer has committed it has for good, and an event that commits adds to it.
LEMMA MeantKeeps ==
  ASSUME NEW v, NEW event
  PROVE  /\ v.done \subseteq Meant(v, event).done
         /\ event.type = "CommittedSegment" => event.segment \in Meant(v, event).done
BY DEF Meant, NoEffect

\* What a step does to a committed segment.
CommittedStays ==
  \A g \in DOMAIN committed :
    /\ g \in DOMAIN committed' /\ segment_text'[g] = committed'[g]
    /\ \/ committed'[g] = committed[g]
       \/ /\ Len(accepted') > Len(accepted)
          /\ Commits(accepted'[Len(accepted')].event, g, committed'[g])

\* Who has said nothing more has said what it had.
LEMMA LogStays ==
  ASSUME UNCHANGED log, NEW z \in Stream, LogInv(z) PROVE LogInv(z)'
<1>1. \A i : Before(z, i)' = Before(z, i)
  BY DEF Before
<1> QED
  BY <1>1 DEF LogInv, IsSeq

\* Whatever is delivered, accepted or not, the invariant stays.
LEMMA DeliverStep ==
  ASSUME ConstantsAssumption, Inv, NEW s \in Stream, NEW i \in DOMAIN log[s],
         NEW e, e = log[s][i], NEW v, v = Before(s, i),
         Validate(e), UNCHANGED log
  PROVE  Inv' /\ CommittedStays
<1>1. /\ e.stream = s /\ e.sequence = i - 1 /\ e.event.type \in Types
      /\ e.view = Meant(v, e.event)
      /\ i \in Nat \ {0} /\ DOMAIN log[s] = 1 .. Len(log[s]) /\ Len(log[s]) \in Nat
  <2>1. LogInv(s)
    BY DEF Inv
  <2>2. DOMAIN log[s] = 1 .. Len(log[s]) /\ Len(log[s]) \in Nat
    BY <2>1 DEF LogInv, IsSeq
  <2> QED
    BY <2>1, <2>2 DEF LogInv
<1>2. /\ ValidatorInv /\ NoStream \notin Stream
      /\ Len(accepted) \in Nat /\ DOMAIN accepted = 1 .. Len(accepted)
      /\ accepted = << >> <=> Len(accepted) = 0
  BY EmptySeq DEF Inv, ValidatorInv, ConstantsAssumption, IsSeq
<1>3. stream_id' = IF Binds(e) THEN s ELSE stream_id
  BY <1>1 DEF Validate
<1>4. \A z \in Stream : LogInv(z)'
  BY LogStays DEF Inv
<1>5. accepted # << >> => ~Binds(e)
  BY <1>2 DEF ValidatorInv, AcceptedInv, Binds
<1> SUFFICES ValidatorInv' /\ CommittedStays
  BY <1>4 DEF Inv
<1>6. CASE ~Acceptable(e)
  <2>1. /\ next_sequence' = Expected(e)
        /\ UNCHANGED <<terminal, segment_text, committed, accepted>>
    BY <1>6 DEF Validate
  <2>2. accepted # << >> => UNCHANGED <<stream_id, next_sequence>>
    BY <1>3, <1>5, <2>1 DEF Expected
  <2>3. accepted # << >> => AcceptedInv'
    BY <1>2, <2>1, <2>2 DEF ValidatorInv, AcceptedInv, StretchOf
  <2> QED
    BY <1>2, <2>1, <2>3 DEF ValidatorInv, IsSeq, CommittedStays
<1>7. CASE Acceptable(e)
  <2> DEFINE n == Len(accepted)
  <2>1. /\ e.sequence = Expected(e) /\ EventValid(e.event) /\ Apply(e.event)
        /\ next_sequence' = e.sequence + 1 /\ accepted' = Append(accepted, e)
        /\ stream_id = NoStream \/ stream_id = s
        /\ ~terminal
    BY <1>1, <1>7 DEF Acceptable, Admitted, Validate
  <2>2. /\ IsSeq(accepted') /\ DOMAIN accepted' = 1 .. n + 1 /\ Len(accepted') = n + 1
        /\ \A k \in 1 .. n : accepted'[k] = accepted[k]
        /\ accepted'[n + 1] = e
    BY <1>2, <2>1, AppendAny DEF ValidatorInv
  <2>3. stream_id' = s
    BY <1>1, <1>3, <1>7 DEF Binds, Acceptable, Admitted
  <2>4. terminal' = (e.event.type = "Terminal")
    BY <2>1 DEF Apply
  <2>5. CASE accepted = << >>
    <3>1. DOMAIN committed = {} /\ committed = Empty /\ segment_text = Empty
      BY <1>2, <2>5 DEF ValidatorInv, Empty
    <3>2. /\ \A g \in DOMAIN committed' : /\ g \in DOMAIN segment_text'
                                          /\ segment_text'[g] = committed'[g]
          /\ DOMAIN committed' = IF e.event.type = "CommittedSegment"
                                 THEN {e.event.segment} ELSE {}
      BY <1>1, <2>1, <3>1, CommittedKept
    <3>3. DOMAIN committed' \subseteq e.view.done
      <4>1. e.event.type = "CommittedSegment" => e.event.segment \in Meant(v, e.event).done
        BY <1>1, MeantKeeps
      <4> QED
        BY <1>1, <3>2, <4>1
    <3>4. e.sequence = 0 => DOMAIN committed' = e.view.done /\ segment_text' = e.view.texts
      <4>1. e.sequence = 0 => v.texts = Empty /\ v.done = {}
        BY <1>1 DEF Before
      <4> QED
        BY <1>1, <2>1, <3>1, <4>1, SameMeaning
    <3>5. accepted'[1] = e /\ Len(accepted') = 1 /\ e.sequence + 1 = i /\ e.sequence \in Nat
      BY <1>1, <1>2, <2>2, <2>5
    <3>6. StretchOf(accepted', log[s], e.sequence)
      <4>1. IsSeq(<< >>) /\ StretchOf(<< >>, log[s], e.sequence) /\ Len(<< >>) = 0
        BY EmptySeq DEF IsSeq, StretchOf
      <4>2. i = e.sequence + Len(<< >>) + 1
        BY <3>5, <4>1
      <4> QED
        BY <2>1, <2>5, <3>5, <4>1, <4>2, StretchGrows
    <3>7. AcceptedInv'
      BY <2>1, <2>3, <2>4, <3>3, <3>4, <3>5, <3>6 DEF AcceptedInv
    <3> QED
      BY <2>2, <3>1, <3>2, <3>5, <3>7 DEF ValidatorInv, IsSeq, CommittedStays
  <2>6. CASE accepted # << >>
    <3> DEFINE b == accepted[1].sequence
               last == accepted[n]
    <3>1. AcceptedInv /\ stream_id = s /\ e.sequence = next_sequence
      <4>1. AcceptedInv
        BY <1>2, <2>6 DEF ValidatorInv
      <4>2. stream_id \in Stream
        BY <4>1 DEF AcceptedInv
      <4> QED
        BY <1>2, <1>5, <2>1, <2>6, <4>1, <4>2 DEF Expected
    <3>2. /\ b \in Nat /\ StretchOf(accepted, log[s], b) /\ e.sequence = b + n
          /\ terminal = (last.event.type = "Terminal")
          /\ DOMAIN committed \subseteq last.view.done
          /\ b = 0 => DOMAIN committed = last.view.done /\ segment_text = last.view.texts
      BY <3>1 DEF AcceptedInv
    <3>3. i = b + n + 1 /\ i # 1 /\ i - 1 = b + n
      <4>1. i \in Nat /\ e.sequence = i - 1 /\ b \in Nat /\ n \in Nat /\ n # 0 /\ e.sequence = b + n
        BY <1>1, <1>2, <2>6, <3>2
      <4> HIDE DEF b, n
      <4> QED
        BY <4>1
    <3>4. last = log[s][b + n]
      BY <1>2, <2>6, <3>2 DEF StretchOf
    <3>5. v = last.view
      BY <3>3, <3>4 DEF Before
    <3>7. /\ \A g \in DOMAIN committed :
               /\ g \in DOMAIN committed'
               /\ committed'[g] = committed[g] \/ Commits(e.event, g, committed'[g])
          /\ \A g \in DOMAIN committed' : /\ g \in DOMAIN segment_text'
                                          /\ segment_text'[g] = committed'[g]
          /\ DOMAIN committed' = IF e.event.type = "CommittedSegment"
                                 THEN DOMAIN committed \cup {e.event.segment}
                                 ELSE DOMAIN committed
      <4>1. \A g \in DOMAIN committed :
              g \in DOMAIN segment_text /\ segment_text[g] = committed[g]
        BY <1>2 DEF ValidatorInv
      <4> QED
        BY <1>1, <2>1, <4>1, CommittedKept
    <3>8. DOMAIN committed' \subseteq e.view.done
      <4>1. /\ v.done \subseteq Meant(v, e.event).done
            /\ e.event.type = "CommittedSegment" => e.event.segment \in Meant(v, e.event).done
        BY <1>1, MeantKeeps
      <4>2. /\ DOMAIN committed \subseteq v.done /\ v.done \subseteq e.view.done
            /\ e.event.type = "CommittedSegment" => e.event.segment \in e.view.done
        BY <1>1, <3>2, <3>5, <4>1
      <4> QED
        BY <3>7, <4>2
    <3>9. b = 0 => DOMAIN committed' = e.view.done /\ segment_text' = e.view.texts
      <4>1. b = 0 => DOMAIN committed = v.done /\ segment_text = v.texts
        BY <3>2, <3>5
      <4> QED
        BY <1>1, <2>1, <4>1, SameMeaning
    <3>10. accepted'[1] = accepted[1] /\ accepted'[Len(accepted')] = e
      BY <1>2, <2>2, <2>6
    <3>11. next_sequence' = b + Len(accepted')
      <4>1. b \in Nat /\ n \in Nat /\ Len(accepted') = n + 1 /\ next_sequence' = (b + n) + 1
        BY <1>2, <2>1, <2>2, <3>2
      <4> HIDE DEF b, n
      <4> QED
        BY <4>1
    <3>12. StretchOf(accepted', log[s], b)
      <4>1. IsSeq(accepted) /\ accepted[Len(accepted)].event.type # "Terminal"
        BY <1>2, <2>1, <3>2 DEF ValidatorInv
      <4>2. b \in Nat /\ StretchOf(accepted, log[s], b) /\ i = b + Len(accepted) + 1
        BY <3>2, <3>3
      <4>3. accepted' = Append(accepted, log[s][i])
        BY <2>1
      <4> HIDE DEF b
      <4> QED
        BY <4>1, <4>2, <4>3, StretchGrows
    <3>13. AcceptedInv'
      <4> HIDE DEF n, last
      <4> QED
        BY <2>3, <2>4, <3>2, <3>8, <3>9, <3>10, <3>11, <3>12 DEF AcceptedInv
    <3> QED
      <4>1. IsSeq(accepted') /\ accepted' # << >>
        BY <1>2, <2>2, EmptySeq
      <4>2. CommittedStays
        <5>1. accepted'[Len(accepted')] = e /\ Len(accepted') > Len(accepted)
          BY <1>2, <2>2, <3>10
        <5> QED
          BY <3>7, <5>1 DEF CommittedStays
      <4> QED
        BY <3>7, <3>13, <4>1, <4>2 DEF ValidatorInv
  <2> QED
    BY <2>5, <2>6
<1> QED
  BY <1>6, <1>7

-----------------------------------------------------------------------------
\* At first nothing has been said or accepted.
LEMMA InvInit == ASSUME Init PROVE Inv
BY EmptySeq DEF Init, Inv, LogInv, ValidatorInv, IsSeq, Empty

\* Every step keeps the invariant, and what is committed.
LEMMA InvNext ==
  ASSUME ConstantsAssumption, Inv, [Next]_vars PROVE Inv' /\ CommittedStays
<1>1. ASSUME UNCHANGED <<validator, accepted>> PROVE CommittedStays
  <2>1. committed' = committed /\ segment_text' = segment_text
    BY <1>1 DEF validator
  <2>2. \A g \in DOMAIN committed : g \in DOMAIN segment_text /\ segment_text[g] = committed[g]
    BY DEF Inv, ValidatorInv
  <2> QED
    BY <2>1, <2>2 DEF CommittedStays
<1>2. CASE UNCHANGED vars
  <2>1. Inv'
    <3>1. \A s \in Stream : LogInv(s)'
      BY <1>2, LogStays DEF Inv, vars
    <3>2. ValidatorInv'
      BY <1>2 DEF vars, validator, Inv, ValidatorInv, AcceptedInv, IsSeq
    <3> QED
      BY <1>2, <3>1, <3>2 DEF vars, Inv
  <2> QED
    BY <1>1, <1>2, <2>1 DEF vars
<1>3. ASSUME NEW s \in Stream, (\E g \in Segment : Tell(s, g)) \/ Note(s) \/ End(s)
      PROVE  Inv' /\ CommittedStays
  <2>1. \A event, view, fault : Push(s, event, view, fault) => UNCHANGED <<validator, accepted>>
    BY DEF Push
  <2>2. (\E g \in Segment : Tell(s, g)) => UNCHANGED <<validator, accepted>>
    BY <2>1, Zenon DEF Tell
  <2>3. Note(s) => UNCHANGED <<validator, accepted>>
    BY <2>1, Zenon DEF Note
  <2>4. End(s) => UNCHANGED <<validator, accepted>>
    BY <2>1, Zenon DEF End
  <2> QED
    BY <1>1, <1>3, <2>2, <2>3, <2>4, ProducerStep
<1>4. ASSUME NEW s \in Stream, Deliver(s) PROVE Inv' /\ CommittedStays
  BY <1>4, DeliverStep DEF Deliver
<1> QED
  BY <1>2, <1>3, <1>4 DEF Next

\* What is accepted and known agrees with what the producer said, in every state.
LEMMA ContractInvariant == Spec => []Inv
BY ConstantsAssumption, InvInit, InvNext, PTL DEF Spec

\* What the invariant says of the accepted events and of the texts.
LEMMA InvContiguous == Inv => AcceptedIsContiguous
<1> SUFFICES ASSUME Inv, NEW i \in DOMAIN accepted
             PROVE  /\ accepted[i].stream = accepted[1].stream
                    /\ accepted[i].sequence = accepted[1].sequence + i - 1
                    /\ i \in 1 .. Len(accepted) - 1 => accepted[i].event.type # "Terminal"
  <2>1. Inv => 1 .. Len(accepted) - 1 \subseteq DOMAIN accepted
    BY DEF Inv, ValidatorInv, IsSeq
  <2> QED
    BY <2>1 DEF AcceptedIsContiguous
<1>1. /\ Len(accepted) \in Nat /\ DOMAIN accepted = 1 .. Len(accepted)
      /\ 1 \in DOMAIN accepted /\ accepted # << >>
  BY EmptySeq DEF Inv, ValidatorInv, IsSeq
<1>2. AcceptedInv /\ LogInv(stream_id)
  BY <1>1 DEF Inv, ValidatorInv, AcceptedInv
<1>3. /\ accepted[1].sequence + i \in Nat
      /\ accepted[i].stream = stream_id
      /\ accepted[i].sequence = accepted[1].sequence + i - 1
      /\ accepted[1].stream = stream_id
  <2>1. /\ accepted[1].sequence \in Nat /\ i \in Nat
        /\ \A k \in DOMAIN accepted :
             /\ accepted[1].sequence + k \in DOMAIN log[stream_id]
             /\ accepted[k] = log[stream_id][accepted[1].sequence + k]
    BY <1>1, <1>2 DEF AcceptedInv, StretchOf
  <2>2. ASSUME NEW k \in DOMAIN accepted
        PROVE  /\ accepted[k].stream = stream_id
               /\ accepted[k].sequence = accepted[1].sequence + k - 1
    <3> DEFINE j == accepted[1].sequence + k
    <3>1. j \in DOMAIN log[stream_id] /\ accepted[k] = log[stream_id][j]
      BY <2>1
    <3> HIDE DEF j
    <3>2. \A m \in DOMAIN log[stream_id] :
            log[stream_id][m].stream = stream_id /\ log[stream_id][m].sequence = m - 1
      BY <1>2 DEF LogInv
    <3>3. accepted[k].stream = stream_id /\ accepted[k].sequence = j - 1
      BY <3>1, <3>2
    <3> QED
      BY <1>1, <2>1, <3>3 DEF j
  <2> QED
    BY <1>1, <2>1, <2>2
<1> QED
  BY <1>1, <1>2, <1>3 DEF AcceptedInv, StretchOf

LEMMA InvAgrees == Inv => TextAgrees
BY DEF Inv, ValidatorInv, AcceptedInv, TextAgrees

(* Whatever the transport loses, repeats, reorders or mixes, the accepted events are an unbroken
   stretch of one stream, and nothing follows a terminal event. *)
THEOREM Contiguous == Spec => []AcceptedIsContiguous
BY InvContiguous, ContractInvariant, PTL

(* Who follows a stream from its start shows, after each event, the texts its producer meant. *)
THEOREM TextsAgree == Spec => []TextAgrees
BY InvAgrees, ContractInvariant, PTL

(* A committed segment stays committed and shows its text, which nothing but another commit of
   that segment changes: no envelope that is late, ill-formed or of another stream does. *)
THEOREM OnlyCommitsReplace == Spec => CommittedGuarded
<1>1. Inv /\ [Next]_vars => [CommittedStays]_vars
  BY ConstantsAssumption, InvNext
<1>2. [CommittedStays]_vars => [\A g \in DOMAIN committed :
         /\ g \in DOMAIN committed' /\ segment_text'[g] = committed'[g]
         /\ \/ committed'[g] = committed[g]
            \/ LET event == accepted'[Len(accepted')].event
               IN  /\ Len(accepted') > Len(accepted)
                   /\ event.type = "CommittedSegment" /\ event.segment = g
                   /\ event.text = committed'[g]]_vars
  BY DEF CommittedStays, Commits
<1> QED
  BY <1>1, <1>2, ContractInvariant, PTL DEF Spec, CommittedGuarded

-----------------------------------------------------------------------------
\* Recognition sessions.  A non-empty set of numbers has a least one, and up to n a largest.
LEMMA LeastOf ==
  ASSUME NEW T, T \subseteq Nat, T # {}
  PROVE  \E d \in T : \A e \in T : d <= e
<1>1. PICK d \in T : \A e \in T : <<e, d>> \notin OpToRel(<, Nat)
  BY WFMin, NatLessThanWellFounded, Zenon
<1>2. d \in Nat /\ \A e \in T : e \in Nat
  OBVIOUS
<1>3. \A e \in T : ~ (e < d)
  BY <1>1, <1>2, Zenon DEF OpToRel
<1> QED
  BY <1>2, <1>3

LEMMA LargestIn ==
  ASSUME NEW n \in Nat, NEW S \in SUBSET (0 .. n), S # {}
  PROVE  Largest(S) \in S
<1> DEFINE D == {n - k : k \in S}
<1>1. D \in SUBSET Nat /\ D # {}
  <2>1. \A k \in 0 .. n : n - k \in Nat
    OBVIOUS
  <2>2. D # {}
    OBVIOUS
  <2> QED
    BY <2>1, <2>2
<1>2. PICK d \in D : \A e \in D : d <= e
  BY <1>1, LeastOf
<1>3. PICK k \in S : d = n - k
  OBVIOUS
<1>4. \A j \in S : j <= k
  <2> SUFFICES ASSUME NEW j \in S PROVE j <= k
    OBVIOUS
  <2>1. n - k <= n - j
    BY <1>2, <1>3
  <2> QED
    BY <2>1
<1> QED
  BY <1>4 DEF Largest

\* The stable prefix is one that both texts share.
LEMMA StableIsShared ==
  ASSUME NEW old \in Seq(STRING), NEW text \in Seq(STRING)
  PROVE  stable_prefix_len(old, text) \in SharedPrefixes(old, text)
<1> DEFINE shared == Largest(SharedPrefixes(old, text))
           before == Boundaries(old, shared)
           after == Boundaries(text, shared)
<1>1. Len(old) \in Nat /\ Len(text) \in Nat
  OBVIOUS
<1>2. shared \in SharedPrefixes(old, text)
  <2>1. 0 \in SharedPrefixes(old, text) /\ SharedPrefixes(old, text) \in SUBSET (0 .. Len(old))
    BY <1>1 DEF SharedPrefixes
  <2> QED
    BY <1>1, <2>1, LargestIn
<1>5. before \in SUBSET (1 .. shared) /\ after \in SUBSET (1 .. shared)
  BY DEF Boundaries
<1> HIDE DEF shared
<1>3. shared \in Nat
  BY <1>1, <1>2 DEF SharedPrefixes
<1>4. ASSUME NEW k \in 1 .. shared PROVE k \in SharedPrefixes(old, text)
  BY <1>1, <1>2, <1>3 DEF SharedPrefixes
<1>6. ASSUME NEW S \in SUBSET (1 .. shared), S # {} PROVE Largest(S) \in 1 .. shared
  <2>1. S \in SUBSET (0 .. shared)
    BY <1>3
  <2> QED
    BY <1>3, <1>6, <2>1, LargestIn
<1>7. /\ before # {} => Largest(before) \in 1 .. shared
      /\ after # {} => Largest(after) \in 1 .. shared
  BY <1>5, <1>6
<1>8. stable_prefix_len(old, text) =
        IF shared \in {Len(old), Len(text)} \/ before = {} \/ after = {} THEN shared
        ELSE IF Largest(before) <= Largest(after) THEN Largest(before) ELSE Largest(after)
  BY Zenon DEF stable_prefix_len, shared
<1> HIDE DEF before, after
<1>9. stable_prefix_len(old, text) \in {shared} \cup 1 .. shared
  BY <1>7, <1>8
<1> QED
  BY <1>2, <1>4, <1>9

\* Replacing all behind a shared prefix by what the new text has there gives the new text.
LEMMA SpliceGivesNew ==
  ASSUME NEW old \in Seq(STRING), NEW text \in Seq(STRING), NEW k \in SharedPrefixes(old, text)
  PROVE  Splice(old, k, Len(old), SubSeq(text, k + 1, Len(text))) = text
<1>1. /\ Len(old) \in Nat /\ Len(text) \in Nat /\ k \in Nat /\ k <= Len(old) /\ k <= Len(text)
      /\ \A i \in 1 .. k : old[i] = text[i]
  BY DEF SharedPrefixes
<1> DEFINE a == SubSeq(old, 1, k)
           b == SubSeq(text, k + 1, Len(text))
<1>2. a \in Seq(STRING) /\ Len(a) = k /\ \A i \in 1 .. k : a[i] = text[i]
  <2>1. \A i \in 1 .. k : old[i] \in STRING
    BY <1>1
  <2>2. /\ a \in Seq(STRING) /\ Len(a) = IF 1 <= k THEN k - 1 + 1 ELSE 0
        /\ \A i \in 1 .. k - 1 + 1 : a[i] = old[1 + i - 1]
    BY <1>1, <2>1, SubSeqProperties
  <2> QED
    BY <1>1, <2>2
<1>3. /\ b \in Seq(STRING) /\ Len(b) = Len(text) - k
      /\ \A i \in 1 .. Len(text) - k : b[i] = text[k + i]
  <2>1. \A i \in k + 1 .. Len(text) : text[i] \in STRING
    BY <1>1
  <2>2. /\ b \in Seq(STRING)
        /\ Len(b) = IF k + 1 <= Len(text) THEN Len(text) - (k + 1) + 1 ELSE 0
        /\ \A i \in 1 .. Len(text) - (k + 1) + 1 : b[i] = text[(k + 1) + i - 1]
    BY <1>1, <2>1, SubSeqProperties
  <2> QED
    BY <1>1, <2>2
<1>4. SubSeq(old, Len(old) + 1, Len(old)) = << >>
  BY <1>1, SubSeqEmpty
<1> HIDE DEF a, b
<1>5. a \o b = text
  <2>1. /\ a \o b \in Seq(STRING) /\ Len(a \o b) = Len(a) + Len(b)
        /\ \A i \in 1 .. Len(a) + Len(b) : (a \o b)[i] = IF i <= Len(a) THEN a[i] ELSE b[i - Len(a)]
    BY <1>2, <1>3, ConcatProperties
  <2>2. Len(a \o b) = Len(text)
    BY <1>1, <1>2, <1>3, <2>1
  <2>3. \A i \in 1 .. Len(text) : (a \o b)[i] = text[i]
    BY <1>1, <1>2, <1>3, <2>1
  <2> QED
    BY <2>1, <2>2, <2>3, SeqEqual
<1>6. (a \o b) \o << >> = text
  BY <1>5, ConcatEmptySeq
<1> QED
  BY <1>4, <1>6 DEF Splice, a, b

-----------------------------------------------------------------------------
\* What a tracker t, and the queue q of what its session has yet to say, keep of the view v
\* and the events c of what it has said.

CalledOff(g) == [type |-> "Other", segment |-> g]
Changes == {"PartialHypothesis", "RevisedHypothesis"}

\* Only the first change is not yet said, and it, or a commit, is of an open segment.
ItemOk(v, t, q, i) ==
  LET event == q[i].event IN
  /\ event.type \in Types
  /\ event.type \in Changes =>
       /\ i = 1
       /\ event.segment \in 1 .. t.next_id /\ event.segment \notin v.done
       /\ TextOf(v, event) = q[i].text
  /\ event.type = "RevisedHypothesis" => event.end <= Len(Lookup(v.texts, event.segment))
  /\ event.type = "CommittedSegment" =>
       /\ event.segment \in 1 .. t.next_id /\ event.segment \notin v.done
       /\ event.text = q[i].text
       /\ \A j \in DOMAIN q : q[j].event.type = "CommittedSegment" => j = i

\* The active candidate is open, and its text is the last that was or will be said of it.
ActiveOk(v, t, q) ==
  t.active # NoCandidate =>
    /\ t.active.id \in 1 .. t.next_id /\ t.active.id \notin v.done
    /\ t.active.text \in Seq(STRING)
    /\ q = << >> => Lookup(v.texts, t.active.id) = t.active.text
    /\ q # << >> => /\ Len(q) = 1 /\ q[1].event.type \in Changes
                    /\ q[1].event.segment = t.active.id /\ q[1].text = t.active.text

\* A segment is active, or has been or will be committed or called off.
Settles(event, g) ==
  event = CalledOff(g) \/ (event.type = "CommittedSegment" /\ event.segment = g)
HasFate(v, t, q, c, g) ==
  \/ g \in v.done \/ CalledOff(g) \in c
  \/ t.active # NoCandidate /\ g = t.active.id
  \/ \E j \in DOMAIN q : Settles(q[j].event, g)

TrackerOk(v, t, q, c) ==
  /\ IsSeq(q) /\ \A i \in DOMAIN q : ItemOk(v, t, q, i)
  /\ t.next_id \in Nat /\ v.done \subseteq 1 .. t.next_id
  /\ DOMAIN v.texts \subseteq 1 .. t.next_id
  /\ ActiveOk(v, t, q)
  /\ \A g \in DOMAIN v.texts : HasFate(v, t, q, c, g)
  /\ \A i \in DOMAIN q : q[i].event.type \in Changes => HasFate(v, t, q, c, q[i].event.segment)

Said(s) == {log[s][j].event : j \in DOMAIN log[s]}

SessionInv(s) ==
  LET t == session[s]
      q == outgoing[s]
  IN  /\ TrackerOk(View(s), t, q, Said(s))
      /\ t.last_text \in Hypothesis \cup {NoText}
      /\ t.final_emitted \/ ~t.open => t.active = NoCandidate
      /\ \A i \in DOMAIN q : q[i].event.type = "Terminal" => i = Len(q) /\ ~t.open
      /\ \A e \in Said(s) : e.type = "Terminal" => q = << >> /\ ~t.open

RecognitionInv ==
  /\ Inv
  /\ recognised \subseteq Stream
  /\ DOMAIN session = Stream /\ DOMAIN outgoing = Stream
  /\ \A s \in recognised : SessionInv(s)

-----------------------------------------------------------------------------
\* Short queues.
LEMMA ShortQueues ==
  /\ IsSeq(<< >>) /\ DOMAIN << >> = {}
  /\ \A x : IsSeq(<<x>>) /\ DOMAIN <<x>> = {1} /\ Len(<<x>>) = 1 /\ <<x>> # << >> /\ <<x>>[1] = x
            /\ << >> \o <<x>> = <<x>> /\ <<x>> \o << >> = <<x>>
  /\ << >> \o << >> = << >>
  /\ \A x, y : /\ <<x>> \o <<y>> = <<x, y>>
               /\ IsSeq(<<x, y>>) /\ DOMAIN <<x, y>> = {1, 2} /\ Len(<<x, y>>) = 2
               /\ <<x, y>> # << >> /\ <<x, y>>[1] = x /\ <<x, y>>[2] = y
<1>1. IsSeq(<< >>) /\ DOMAIN << >> = {} /\ << >> \o << >> = << >>
  BY DEF IsSeq
<1>2. ASSUME NEW x
      PROVE  /\ IsSeq(<<x>>) /\ DOMAIN <<x>> = {1} /\ Len(<<x>>) = 1 /\ <<x>> # << >>
             /\ <<x>>[1] = x /\ << >> \o <<x>> = <<x>> /\ <<x>> \o << >> = <<x>>
  <2>1. <<x>> \in Seq({x}) /\ << >> \in Seq({x})
    OBVIOUS
  <2>2. << >> \o <<x>> = <<x>> /\ <<x>> \o << >> = <<x>>
    BY <2>1, ConcatEmptySeq
  <2> QED
    BY <2>1, <2>2 DEF IsSeq
<1>3. ASSUME NEW x, NEW y
      PROVE  /\ <<x>> \o <<y>> = <<x, y>>
             /\ IsSeq(<<x, y>>) /\ DOMAIN <<x, y>> = {1, 2} /\ Len(<<x, y>>) = 2
             /\ <<x, y>> # << >> /\ <<x, y>>[1] = x /\ <<x, y>>[2] = y
  <2>1. <<x>> \in Seq({x, y}) /\ <<y>> \in Seq({x, y}) /\ <<x, y>> \in Seq({x, y})
    OBVIOUS
  <2>2. DOMAIN <<x, y>> = {1, 2} /\ Len(<<x, y>>) = 2 /\ <<x, y>>[1] = x /\ <<x, y>>[2] = y
    OBVIOUS
  <2>3. IsSeq(<<x, y>>) /\ <<x, y>> # << >>
    BY <2>1, <2>2 DEF IsSeq
  <2>4. <<x>> \o <<y>> = <<x, y>>
    <3> DEFINE S == {x, y}
               z == <<x>> \o <<y>>
    <3>1. <<x>> \in Seq(S) /\ <<y>> \in Seq(S) /\ <<x, y>> \in Seq(S)
      BY <2>1
    <3>2. Len(<<x>>) = 1 /\ Len(<<y>>) = 1 /\ <<x>>[1] = x /\ <<y>>[1] = y
      OBVIOUS
    <3>3. /\ z \in Seq(S) /\ Len(z) = 1 + 1
          /\ \A i \in 1 .. 1 + 1 : z[i] = IF i <= 1 THEN <<x>>[i] ELSE <<y>>[i - 1]
      <4> HIDE DEF S
      <4> QED
        BY <3>1, <3>2, ConcatProperties
    <3>4. Len(z) = 2 /\ z[1] = x /\ z[2] = y
      BY <3>2, <3>3
    <3> HIDE DEF S, z
    <3>5. \A i \in 1 .. Len(z) : z[i] = <<x, y>>[i]
      BY <2>2, <3>4
    <3>6. z = <<x, y>>
      BY <2>2, <3>1, <3>3, <3>4, <3>5, SeqEqual
    <3> QED
      BY <3>6 DEF z
  <2> QED
    BY <2>2, <2>3, <2>4
<1> QED
  BY <1>1, <1>2, <1>3

\* The tracker's candidate when it says nothing of it any more, and when it changes it.
LEMMA CancelOk ==
  ASSUME NEW v, NEW t, NEW c, TrackerOk(v, t, << >>, c)
  PROVE  /\ TrackerOk(v, Cancel(t), Cancel(t).events, c)
         /\ \A i \in DOMAIN Cancel(t).events : Cancel(t).events[i].event.type # "Terminal"
         /\ Cancel(t).active = NoCandidate
<1> DEFINE r == Cancel(t)
           x == HypothesisCancelled(t.active.id)
<1>1. r.active = NoCandidate /\ r.next_id = t.next_id
  BY DEF Cancel
<1>5. /\ t.next_id \in Nat /\ v.done \subseteq 1 .. t.next_id
      /\ DOMAIN v.texts \subseteq 1 .. t.next_id
      /\ \A g \in DOMAIN v.texts : HasFate(v, t, << >>, c, g)
  BY DEF TrackerOk
<1>2. CASE t.active = NoCandidate
  <2>1. r.events = << >>
    BY <1>2 DEF Cancel
  <2>2. \A g : HasFate(v, t, << >>, c, g) => HasFate(v, r, << >>, c, g)
    BY <1>1, <1>2 DEF HasFate
  <2>3. TrackerOk(v, r, << >>, c)
    <3> HIDE DEF r
    <3> QED
      BY <1>5, <1>1, <2>2, ShortQueues DEF TrackerOk, ActiveOk
  <2> QED
    BY <1>1, <2>1, <2>3, ShortQueues
<1>3. CASE t.active # NoCandidate
  <2>1. r.events = <<x>>
    BY <1>3 DEF Cancel
  <2>2. x.event = CalledOff(t.active.id) /\ x.event.type = "Other"
    BY DEF HypothesisCancelled, CalledOff
  <2>3. \A g : HasFate(v, t, << >>, c, g) => HasFate(v, r, <<x>>, c, g)
    BY <2>2, ShortQueues DEF HasFate, Settles
  <2>4. ItemOk(v, r, <<x>>, 1)
    BY <2>2, ShortQueues DEF ItemOk, Changes, Types
  <2>5. TrackerOk(v, r, <<x>>, c)
    <3> HIDE DEF r, x
    <3> QED
      BY <1>5, <1>1, <2>2, <2>3, <2>4, ShortQueues DEF TrackerOk, ActiveOk, Changes
  <2> QED
    BY <1>1, <2>1, <2>2, <2>5, ShortQueues
<1> QED
  BY <1>2, <1>3

LEMMA RevisedOk ==
  ASSUME NEW old \in Seq(STRING), NEW text \in Seq(STRING), NEW id, NEW v,
         Lookup(v.texts, id) = old
  PROVE  LET x == Revised(id, old, text) IN
         /\ x.event.type = "RevisedHypothesis" /\ x.event.segment = id /\ x.text = text
         /\ TextOf(v, x.event) = text /\ x.event.end <= Len(Lookup(v.texts, id))
<1> DEFINE k == stable_prefix_len(old, text)
<1>1. Splice(old, k, Len(old), SubSeq(text, k + 1, Len(text))) = text
  BY StableIsShared, SpliceGivesNew
<1>2. Len(old) <= Len(old)
  OBVIOUS
<1> QED
  BY <1>1, <1>2 DEF Revised, TextOf

\* What the tracker returns for a hypothesis keeps the invariant.
LEMMA IngestOk ==
  ASSUME RecognitionAssumption, NEW v, NEW t, NEW c, TrackerOk(v, t, << >>, c),
         NEW text \in Hypothesis, NEW is_final \in BOOLEAN
  PROVE  LET r == ingest_candidate(t, text, is_final) IN
         /\ TrackerOk(v, r, r.events, c)
         /\ \A i \in DOMAIN r.events : r.events[i].event.type # "Terminal"
         /\ is_final => r.active = NoCandidate
<1> DEFINE r == ingest_candidate(t, text, is_final)
           Goal == /\ TrackerOk(v, r, r.events, c)
                   /\ \A i \in DOMAIN r.events : r.events[i].event.type # "Terminal"
                   /\ is_final => r.active = NoCandidate
<1> SUFFICES Goal
  OBVIOUS
<1>1. text \in Seq(STRING)
  BY DEF RecognitionAssumption
<1>2. /\ t.next_id \in Nat /\ v.done \subseteq 1 .. t.next_id
      /\ DOMAIN v.texts \subseteq 1 .. t.next_id
      /\ \A g \in DOMAIN v.texts : HasFate(v, t, << >>, c, g)
      /\ ActiveOk(v, t, << >>)
  BY DEF TrackerOk
<1>3. CASE text = << >> /\ is_final
  <2>1. r = Cancel(t)
    BY <1>3 DEF ingest_candidate
  <2> QED
    BY <2>1, CancelOk
<1>4. CASE text = << >> /\ ~is_final
  <2>1. r = [events |-> << >>, active |-> t.active, next_id |-> t.next_id]
    BY <1>4 DEF ingest_candidate
  <2>2. \A g : HasFate(v, t, << >>, c, g) => HasFate(v, r, << >>, c, g)
    BY <2>1 DEF HasFate
  <2>3. ActiveOk(v, r, << >>)
    BY <1>2, <2>1 DEF ActiveOk
  <2>4. TrackerOk(v, r, << >>, c)
    <3> HIDE DEF r
    <3> QED
      BY <1>2, <2>1, <2>2, <2>3, ShortQueues DEF TrackerOk
  <2>5. r.events = << >>
    BY <2>1
  <2> HIDE DEF r
  <2> QED
    BY <1>4, <2>4, <2>5, ShortQueues
<1>5. CASE text # << >> /\ t.active = NoCandidate
  <2> DEFINE id == t.next_id + 1
             x == IF is_final THEN Committed(id, text) ELSE Partial(id, text)
  <2>1. r = [events |-> <<x>>, next_id |-> id,
             active |-> IF is_final THEN NoCandidate ELSE [id |-> id, text |-> text]]
    BY <1>5 DEF ingest_candidate, Begin
  <2>2. /\ x.event.type = IF is_final THEN "CommittedSegment" ELSE "PartialHypothesis"
        /\ x.event.segment = id /\ x.event.text = text /\ x.text = text
    BY DEF Committed, Partial
  <2>3. id \in 1 .. id /\ id \in Nat /\ id \notin v.done /\ id \notin DOMAIN v.texts
        /\ v.done \subseteq 1 .. id /\ DOMAIN v.texts \subseteq 1 .. id
    BY <1>2
  <2>4. r.events = <<x>> /\ r.next_id = id
        /\ r.active = IF is_final THEN NoCandidate ELSE [id |-> id, text |-> text]
    BY <2>1
  <2> HIDE DEF r, x, id
  <2>5. ItemOk(v, r, <<x>>, 1)
    BY <2>2, <2>3, <2>4, ShortQueues DEF ItemOk, Changes, Types, TextOf
  <2>6. ActiveOk(v, r, <<x>>)
    BY <1>1, <2>2, <2>3, <2>4, ShortQueues DEF ActiveOk, Changes
  <2>7. /\ \A g \in DOMAIN v.texts : HasFate(v, r, <<x>>, c, g)
        /\ x.event.type \in Changes => HasFate(v, r, <<x>>, c, x.event.segment)
    <3>1. ~is_final => r.active.id = id /\ r.active # NoCandidate
      BY <2>3, <2>4 DEF NoCandidate
    <3>2. \A g \in DOMAIN v.texts : g \in v.done \/ CalledOff(g) \in c
      BY <1>2, <1>5, ShortQueues DEF HasFate
    <3> QED
      BY <2>2, <3>1, <3>2 DEF HasFate, Changes
  <2>8. TrackerOk(v, r, <<x>>, c)
    BY <2>3, <2>4, <2>5, <2>6, <2>7, ShortQueues DEF TrackerOk
  <2> QED
    BY <2>2, <2>4, <2>8, ShortQueues
<1>6. CASE text # << >> /\ t.active # NoCandidate
  <2> DEFINE id == t.active.id
             old == t.active.text
             y == Committed(id, text)
  <2>1. /\ id \in 1 .. t.next_id /\ id \notin v.done
        /\ old \in Seq(STRING) /\ Lookup(v.texts, id) = old
    BY <1>2, <1>6 DEF ActiveOk
  <2>2. r.next_id = t.next_id
        /\ r.active = IF is_final THEN NoCandidate ELSE [id |-> id, text |-> text]
    BY <1>6 DEF ingest_candidate, Continue
  <2>3. ~is_final => r.active.id = id /\ r.active # NoCandidate /\ r.active.text = text
    BY <1>2, <2>1, <2>2 DEF NoCandidate
  <2>4. y.event.type = "CommittedSegment" /\ y.event.segment = id /\ y.event.text = text
        /\ y.text = text
    BY DEF Committed
  <2>5. CASE old = text
    <3> DEFINE x == IF is_final THEN Committed(id, text) ELSE Partial(id, text)
    <3>1. r.events = <<x>>
      BY <1>6, <2>5 DEF ingest_candidate, Continue
    <3>2. /\ x.event.type = IF is_final THEN "CommittedSegment" ELSE "PartialHypothesis"
          /\ x.event.segment = id /\ x.event.text = text /\ x.text = text
      BY DEF Committed, Partial
    <3> HIDE DEF r, x, y, id, old
    <3>3. ItemOk(v, r, <<x>>, 1)
      BY <2>1, <2>2, <3>2, ShortQueues DEF ItemOk, Changes, Types, TextOf
    <3>4. ActiveOk(v, r, <<x>>)
      BY <1>1, <2>1, <2>2, <2>3, <3>2, ShortQueues DEF ActiveOk, Changes
    <3>5. /\ \A g \in DOMAIN v.texts : HasFate(v, r, <<x>>, c, g)
          /\ x.event.type \in Changes => HasFate(v, r, <<x>>, c, x.event.segment)
      <4>1. \A g \in DOMAIN v.texts : g \in v.done \/ CalledOff(g) \in c \/ g = id
        BY <1>2, ShortQueues DEF HasFate, id
      <4>2. is_final => Settles(<<x>>[1].event, id) /\ 1 \in DOMAIN <<x>>
        BY <3>2, ShortQueues DEF Settles
      <4> QED
        BY <2>3, <3>2, <4>1, <4>2 DEF HasFate, Changes
    <3>6. TrackerOk(v, r, <<x>>, c)
      BY <1>2, <2>2, <3>3, <3>4, <3>5, ShortQueues DEF TrackerOk
    <3> QED
      BY <2>2, <3>1, <3>2, <3>6, ShortQueues
  <2>6. CASE old # text
    <3> DEFINE x == Revised(id, old, text)
    <3>1. r.events = IF is_final THEN <<x, y>> ELSE <<x>>
      <4>1. r.events = <<x>> \o (IF is_final THEN <<y>> ELSE << >>)
        BY <1>6, <2>6 DEF ingest_candidate, Continue
      <4> HIDE DEF r, x, y, id, old
      <4> QED
        BY <4>1, ShortQueues
    <3>2. /\ x.event.type = "RevisedHypothesis" /\ x.event.segment = id /\ x.text = text
          /\ TextOf(v, x.event) = text /\ x.event.end <= Len(Lookup(v.texts, id))
      BY <1>1, <2>1, RevisedOk
    <3> HIDE DEF r, x, y, id, old
    <3>3. /\ ~is_final => ItemOk(v, r, <<x>>, 1)
          /\ ItemOk(v, r, <<x, y>>, 1) /\ ItemOk(v, r, <<x, y>>, 2)
      BY <2>1, <2>2, <2>4, <3>2, ShortQueues DEF ItemOk, Changes, Types
    <3>4. ActiveOk(v, r, r.events)
      BY <1>1, <2>1, <2>2, <2>3, <3>1, <3>2, ShortQueues DEF ActiveOk, Changes
    <3>5. /\ \A g \in DOMAIN v.texts : HasFate(v, r, r.events, c, g)
          /\ HasFate(v, r, r.events, c, id)
      <4>1. \A g \in DOMAIN v.texts : g \in v.done \/ CalledOff(g) \in c \/ g = id
        BY <1>2, ShortQueues DEF HasFate, id
      <4>2. is_final => Settles(r.events[2].event, id) /\ 2 \in DOMAIN r.events
        BY <2>4, <3>1, ShortQueues DEF Settles
      <4> QED
        BY <2>3, <4>1, <4>2 DEF HasFate
    <3>6. TrackerOk(v, r, r.events, c)
      <4>1. IsSeq(r.events) /\ \A i \in DOMAIN r.events :
              /\ ItemOk(v, r, r.events, i)
              /\ r.events[i].event.type \in Changes => r.events[i].event.segment = id
        BY <2>4, <3>1, <3>2, <3>3, ShortQueues
      <4> QED
        BY <1>2, <2>2, <3>4, <3>5, <4>1 DEF TrackerOk
    <3> QED
      BY <2>2, <2>4, <3>1, <3>2, <3>6, ShortQueues
  <2> QED
    BY <2>5, <2>6
<1> QED
  BY <1>3, <1>4, <1>5, <1>6

\* With the last word behind it.
LEMMA LastOk ==
  ASSUME NEW v, NEW t, NEW q, NEW c, TrackerOk(v, t, q, c), t.active = NoCandidate,
         \A i \in DOMAIN q : q[i].event.type # "Terminal"
  PROVE  /\ TrackerOk(v, t, q \o <<Last>>, c)
         /\ \A i \in DOMAIN (q \o <<Last>>) :
              (q \o <<Last>>)[i].event.type = "Terminal" => i = Len(q \o <<Last>>)
<1> DEFINE a == q \o <<Last>>
           S == {q[i] : i \in DOMAIN q} \cup {Last}
<1>1. IsSeq(q) /\ Len(q) \in Nat /\ DOMAIN q = 1 .. Len(q)
  BY DEF TrackerOk, IsSeq
<1>2. a = Append(q, Last)
  <2>1. q \in Seq(S) /\ Last \in S
    BY <1>1 DEF IsSeq
  <2> HIDE DEF S
  <2> QED
    BY <2>1, AppendIsConcat
<1> HIDE DEF a, S
<1>3. /\ IsSeq(a) /\ DOMAIN a = 1 .. Len(q) + 1 /\ Len(a) = Len(q) + 1
      /\ \A i \in 1 .. Len(q) : a[i] = q[i]
      /\ a[Len(q) + 1] = Last
  BY <1>1, <1>2, AppendAny
<1>4. Last.event.type = "Terminal"
  BY DEF Last
<1>5. \A i \in DOMAIN a : (i \in DOMAIN q /\ a[i] = q[i]) \/ (i = Len(q) + 1 /\ a[i] = Last)
  <2>1. \A i \in 1 .. Len(q) + 1 : i \in 1 .. Len(q) \/ i = Len(q) + 1
    BY <1>1
  <2> QED
    BY <1>1, <1>3, <2>1
<1>6. ASSUME NEW i \in DOMAIN a PROVE ItemOk(v, t, a, i)
  <2>1. CASE i \in DOMAIN q /\ a[i] = q[i]
    BY <1>4, <1>5, <2>1 DEF ItemOk, TrackerOk
  <2>2. CASE a[i] = Last
    BY <1>4, <2>2 DEF ItemOk, Types, Changes
  <2> QED
    BY <1>5, <2>1, <2>2
<1>7. \A g : HasFate(v, t, q, c, g) => HasFate(v, t, a, c, g)
  BY <1>1, <1>3 DEF HasFate
<1>8. TrackerOk(v, t, a, c)
  BY <1>3, <1>4, <1>5, <1>6, <1>7 DEF TrackerOk, ActiveOk, Changes
<1> QED
  BY <1>1, <1>3, <1>5, <1>8 DEF a

\* The view with the next item said.
After(v, x) ==
  IF x.event.type \in {"Other", "Terminal"} THEN v
  ELSE [texts |-> Put(v.texts, x.event.segment, x.text),
        done |-> IF x.event.type = "CommittedSegment" THEN v.done \cup {x.event.segment}
                 ELSE v.done]

\* When the next event is said, it means what the tracker had in mind, and the rest stays in order.
LEMMA PublishOk ==
  ASSUME NEW v, NEW t, NEW q, NEW c, TrackerOk(v, t, q, c), q # << >>
  PROVE  LET x == Head(q)
             w == After(v, x)
         IN  /\ w = Meant(v, x.event) /\ x.event.type \in Types
             /\ x.event.type = "CommittedSegment" => x.event.segment \notin v.done
             /\ TrackerOk(w, t, Tail(q), c \cup {x.event})
<1> DEFINE x == Head(q)
           w == After(v, x)
           r == Tail(q)
           g0 == x.event.segment
           d == c \cup {x.event}
<1>1. IsSeq(q) /\ Len(q) \in Nat \ {0} /\ DOMAIN q = 1 .. Len(q) /\ 1 \in DOMAIN q /\ x = q[1]
  <2>1. IsSeq(q) /\ Len(q) \in Nat /\ DOMAIN q = 1 .. Len(q)
    BY DEF TrackerOk, IsSeq
  <2>2. Len(q) # 0
    BY <2>1, EmptySeq DEF IsSeq
  <2> QED
    BY <2>1, <2>2
<1>2. /\ IsSeq(r) /\ Len(r) = Len(q) - 1 /\ DOMAIN r = 1 .. Len(q) - 1
      /\ \A i \in DOMAIN r : i + 1 \in DOMAIN q /\ i + 1 # 1 /\ r[i] = q[i + 1]
  <2> DEFINE S == {q[i] : i \in DOMAIN q}
  <2>1. q \in Seq(S)
    BY <1>1 DEF IsSeq
  <2> HIDE DEF S
  <2>2. r \in Seq(S) /\ Len(r) = Len(q) - 1 /\ \A i \in 1 .. Len(r) : r[i] = q[i + 1]
    BY <2>1, HeadTailProperties
  <2> HIDE DEF r
  <2>3. DOMAIN r = 1 .. Len(q) - 1
    BY <2>2
  <2>4. IsSeq(r)
    BY <2>2 DEF IsSeq
  <2>5. \A i \in 1 .. Len(q) - 1 : i + 1 \in 1 .. Len(q) /\ i + 1 # 1
    BY <1>1
  <2>6. 1 .. Len(r) = 1 .. Len(q) - 1
    BY <2>2
  <2> QED
    BY <1>1, <2>2, <2>3, <2>4, <2>5, <2>6
<1>3. ItemOk(v, t, q, 1)
  BY <1>1 DEF TrackerOk
<1>4. /\ t.next_id \in Nat /\ v.done \subseteq 1 .. t.next_id
      /\ DOMAIN v.texts \subseteq 1 .. t.next_id
      /\ ActiveOk(v, t, q)
      /\ \A g \in DOMAIN v.texts : HasFate(v, t, q, c, g)
      /\ x.event.type \in Changes => HasFate(v, t, q, c, g0)
  BY <1>1 DEF TrackerOk
<1>5. /\ x.event.type \in Types
      /\ x.event.type \in Changes => g0 \in 1 .. t.next_id /\ g0 \notin v.done
                                     /\ TextOf(v, x.event) = x.text
      /\ x.event.type = "RevisedHypothesis" => x.event.end <= Len(Lookup(v.texts, g0))
      /\ x.event.type = "CommittedSegment" =>
           /\ g0 \in 1 .. t.next_id /\ g0 \notin v.done /\ x.event.text = x.text
           /\ \A j \in DOMAIN q : q[j].event.type = "CommittedSegment" => j = 1
  BY <1>1, <1>3 DEF ItemOk
<1>6. w = Meant(v, x.event)
  BY <1>5 DEF After, Meant, NoEffect, TextOf, Types, Changes
<1>7. /\ v.done \subseteq w.done
      /\ w.done = IF x.event.type = "CommittedSegment" THEN v.done \cup {g0} ELSE v.done
      /\ x.event.type \in {"Other", "Terminal"} => w.texts = v.texts
      /\ x.event.type \notin {"Other", "Terminal"} => w.texts = Put(v.texts, g0, x.text)
  BY <1>5 DEF After, Types
<1> SUFFICES TrackerOk(w, t, r, d)
  BY <1>5, <1>6
<1> HIDE DEF r, d, x, w
<1>8. ASSUME NEW i \in DOMAIN r PROVE ItemOk(w, t, r, i) /\ r[i].event.type \notin Changes
  <2>1. ItemOk(v, t, q, i + 1) /\ i + 1 # 1 /\ r[i] = q[i + 1]
    BY <1>2 DEF TrackerOk
  <2>2. r[i].event.type \in Types /\ r[i].event.type \notin Changes
    BY <2>1 DEF ItemOk
  <2>3. ASSUME r[i].event.type = "CommittedSegment"
        PROVE  /\ r[i].event.segment \in 1 .. t.next_id /\ r[i].event.segment \notin w.done
               /\ r[i].event.text = r[i].text
               /\ \A j \in DOMAIN r : r[j].event.type = "CommittedSegment" => j = i
    <3>1. x.event.type # "CommittedSegment"
      BY <1>2, <1>5, <2>1, <2>3
    <3>2. \A j \in DOMAIN r : r[j].event.type = "CommittedSegment" => j + 1 = i + 1
      BY <1>2, <2>1, <2>3 DEF ItemOk
    <3>3. \A j \in DOMAIN r : r[j].event.type = "CommittedSegment" => j = i
      BY <1>1, <1>2, <3>2
    <3> QED
      BY <1>7, <2>1, <2>3, <3>1, <3>3 DEF ItemOk
  <2> QED
    BY <2>2, <2>3 DEF ItemOk, Changes
<1>9. ActiveOk(w, t, r)
  <2> SUFFICES ASSUME t.active # NoCandidate
               PROVE  /\ t.active.id \in 1 .. t.next_id /\ t.active.id \notin w.done
                      /\ t.active.text \in Seq(STRING)
                      /\ r = << >>
                      /\ Lookup(w.texts, t.active.id) = t.active.text
    BY DEF ActiveOk
  <2>1. /\ t.active.id \in 1 .. t.next_id /\ t.active.id \notin v.done
        /\ t.active.text \in Seq(STRING)
        /\ Len(q) = 1 /\ x.event.type \in Changes /\ g0 = t.active.id /\ x.text = t.active.text
    BY <1>1, <1>4 DEF ActiveOk
  <2>2. r = << >>
    <3>1. Len(r) = 0
      BY <1>2, <2>1
    <3> QED
      BY <1>2, <3>1, EmptySeq DEF IsSeq
  <2>3. w.done = v.done /\ w.texts = Put(v.texts, g0, x.text)
    BY <1>7, <2>1 DEF Changes
  <2> QED
    BY <2>1, <2>2, <2>3 DEF Put, Lookup
<1>10. ASSUME NEW g, HasFate(v, t, q, c, g) PROVE HasFate(w, t, r, d, g)
  <2>1. CASE \E j \in DOMAIN q : Settles(q[j].event, g)
    <3>1. PICK j \in DOMAIN q : Settles(q[j].event, g)
      BY <2>1
    <3>2. CASE j = 1
      BY <1>1, <1>7, <3>1, <3>2 DEF Settles, HasFate, d
    <3>3. CASE j # 1
      <4>1. j - 1 \in DOMAIN r /\ r[j - 1] = q[j]
        BY <1>1, <1>2, <3>3
      <4> QED
        BY <3>1, <4>1 DEF HasFate
    <3> QED
      BY <3>2, <3>3
  <2>2. CASE ~ \E j \in DOMAIN q : Settles(q[j].event, g)
    BY <1>7, <1>10, <2>2 DEF HasFate, d
  <2> QED
    BY <2>1, <2>2
<1>11. ASSUME NEW g \in DOMAIN w.texts PROVE g \in 1 .. t.next_id /\ HasFate(w, t, r, d, g)
  <2>1. CASE g \in DOMAIN v.texts
    BY <1>4, <1>10, <2>1
  <2>2. CASE g \notin DOMAIN v.texts
    <3>1. x.event.type \notin {"Other", "Terminal"} /\ g = g0
      BY <1>7, <2>2 DEF Put
    <3>2. CASE x.event.type = "CommittedSegment"
      BY <1>5, <1>7, <3>1, <3>2 DEF HasFate
    <3>3. CASE x.event.type \in Changes
      BY <1>4, <1>5, <1>10, <3>1, <3>3
    <3> QED
      BY <1>5, <3>1, <3>2, <3>3 DEF Types, Changes
  <2> QED
    BY <2>1, <2>2
<1>12. w.done \subseteq 1 .. t.next_id
  BY <1>4, <1>5, <1>7
<1> QED
  BY <1>2, <1>4, <1>8, <1>9, <1>11, <1>12 DEF TrackerOk

-----------------------------------------------------------------------------
\* Who has said nothing new has the view it had.
LEMMA QuietStays ==
  ASSUME NEW z, log'[z] = log[z] PROVE View(z)' = View(z) /\ Said(z)' = Said(z)
<1>1. View(z)' = View(z)
  BY DEF View
<1>2. Said(z)' = Said(z)
  BY DEF Said
<1> QED
  BY <1>1, <1>2

\* A session that did nothing, and whose caller said nothing, is as it was.
LEMMA SessionStays ==
  ASSUME NEW z, SessionInv(z), log'[z] = log[z], session'[z] = session[z],
         outgoing'[z] = outgoing[z]
  PROVE  SessionInv(z)'
BY QuietStays DEF SessionInv, TrackerOk, ItemOk, ActiveOk, HasFate, TextOf, Settles, IsSeq

\* What the invariant says of a tracker it says by its candidate and its count.
LEMMA SameTracker ==
  ASSUME NEW v, NEW t, NEW u, NEW q, NEW c, u.active = t.active, u.next_id = t.next_id,
         TrackerOk(v, t, q, c)
  PROVE  TrackerOk(v, u, q, c)
<1>1. \A i : ItemOk(v, u, q, i) <=> ItemOk(v, t, q, i)
  BY DEF ItemOk
<1>2. ActiveOk(v, u, q) <=> ActiveOk(v, t, q)
  BY DEF ActiveOk
<1>3. \A g : HasFate(v, u, q, c, g) <=> HasFate(v, t, q, c, g)
  BY DEF HasFate
<1> QED
  BY <1>1, <1>2, <1>3 DEF TrackerOk

\* A call: what the tracker returns, and perhaps the last word, is in the queue.
LEMMA ReturnStep ==
  ASSUME RecognitionAssumption, RecognitionInv, NEW s \in recognised, Idle(s),
         NEW tracker, TrackerOk(View(s), tracker, tracker.events, Said(s)),
         \A i \in DOMAIN tracker.events : tracker.events[i].event.type # "Terminal",
         NEW more, NEW last_text \in Hypothesis \cup {NoText}, NEW final_emitted, NEW open,
         \/ more = << >> /\ open = TRUE
         \/ more = <<Last>> /\ open = FALSE /\ tracker.active = NoCandidate,
         final_emitted => tracker.active = NoCandidate,
         Return(s, tracker, more, last_text, final_emitted, open)
  PROVE  RecognitionInv'
<1> DEFINE q == tracker.events \o more
           t == session'[s]
<1>1. /\ s \in Stream /\ SessionInv(s) /\ session[s].open /\ outgoing[s] = << >>
      /\ DOMAIN session = Stream /\ DOMAIN outgoing = Stream /\ recognised \subseteq Stream
      /\ UNCHANGED <<vars, recognised>> /\ UNCHANGED log
  BY DEF RecognitionInv, Idle, Return, vars
<1>2. /\ outgoing'[s] = q /\ DOMAIN outgoing' = Stream /\ DOMAIN session' = Stream
      /\ t.active = tracker.active /\ t.next_id = tracker.next_id /\ t.last_text = last_text
      /\ t.final_emitted = final_emitted /\ t.open = open
      /\ \A z \in Stream \ {s} : session'[z] = session[z] /\ outgoing'[z] = outgoing[z]
  BY <1>1 DEF Return
<1>3. View(s)' = View(s) /\ Said(s)' = Said(s)
  BY <1>1, QuietStays
<1>4. /\ TrackerOk(View(s), tracker, q, Said(s))
      /\ \A i \in DOMAIN q : q[i].event.type = "Terminal" => i = Len(q) /\ ~open
  <2>1. CASE more = << >>
    <3>1. tracker.events \o << >> = tracker.events
      BY ConcatEmptySeq DEF TrackerOk, IsSeq
    <3> QED
      BY <2>1, <3>1
  <2>2. CASE more = <<Last>> /\ open = FALSE /\ tracker.active = NoCandidate
    BY <2>2, LastOk
  <2> QED
    BY <2>1, <2>2
<1> HIDE DEF q, t
<1>5. TrackerOk(View(s), t, q, Said(s))
  BY <1>2, <1>4, SameTracker
<1>6. \A e \in Said(s) : e.type # "Terminal"
  <2>1. \A e \in Said(s) : e.type = "Terminal" => ~session[s].open
    BY <1>1, Zenon DEF SessionInv
  <2> QED
    BY <1>1, <2>1, Zenon
<1>7. SessionInv(s)'
  <2>1. /\ TrackerOk(View(s)', session'[s], outgoing'[s], Said(s)')
        /\ session'[s].last_text \in Hypothesis \cup {NoText}
        /\ session'[s].final_emitted \/ ~session'[s].open => session'[s].active = NoCandidate
        /\ \A i \in DOMAIN outgoing'[s] : outgoing'[s][i].event.type = "Terminal" =>
             i = Len(outgoing'[s]) /\ ~session'[s].open
        /\ \A e \in Said(s)' : e.type = "Terminal" => outgoing'[s] = << >> /\ ~session'[s].open
    BY <1>2, <1>3, <1>4, <1>5, <1>6 DEF t
  <2> QED
    BY <2>1 DEF SessionInv, TrackerOk, ItemOk, ActiveOk, HasFate, TextOf, Settles, IsSeq
<1>8. ASSUME NEW z \in recognised PROVE SessionInv(z)'
  <2>1. CASE z = s
    BY <1>7, <2>1
  <2>2. CASE z # s
    <3>1. SessionInv(z) /\ z \in Stream \ {s}
      BY <1>1, <2>2 DEF RecognitionInv
    <3> QED
      BY <1>1, <1>2, <3>1, SessionStays
  <2> QED
    BY <2>1, <2>2
<1>9. Inv'
  BY <1>1, InvNext, ConstantsAssumption DEF RecognitionInv
<1> QED
  BY <1>1, <1>2, <1>8, <1>9 DEF RecognitionInv

\* The caller says the next event.
LEMMA PublishStep ==
  ASSUME RecognitionInv, NEW s \in recognised, Publish(s)
  PROVE  RecognitionInv' /\ CommittedStays
<1> DEFINE q == outgoing[s]
           x == Head(q)
           done == x.event.type = "CommittedSegment"
           w == IF x.event.type \in {"Other", "Terminal"} THEN View(s)
                ELSE Write(s, x.event.segment, x.text, done)
           e == [stream |-> s, sequence |-> Len(log[s]), event |-> x.event, view |-> w,
                 version_ok |-> TRUE, derivation_ok |-> TRUE]
           t == session[s]
<1>1. /\ s \in Stream /\ SessionInv(s) /\ Inv /\ LogInv(s)
      /\ DOMAIN session = Stream /\ DOMAIN outgoing = Stream /\ recognised \subseteq Stream
  BY DEF RecognitionInv, Inv
<1>2. /\ q # << >> /\ Push(s, x.event, w, "none")
      /\ outgoing' = [outgoing EXCEPT ![s] = Tail(q)]
      /\ UNCHANGED <<recognised, session>>
  BY DEF Publish
<1>3. /\ w = Meant(View(s), x.event) /\ x.event.type \in Types
      /\ x.event.type = "CommittedSegment" => x.event.segment \notin View(s).done
      /\ TrackerOk(w, t, Tail(q), Said(s) \cup {x.event})
  <2>1. w = After(View(s), x)
    BY DEF Write, After
  <2>2. TrackerOk(View(s), t, q, Said(s))
    BY <1>1 DEF SessionInv
  <2> HIDE DEF q, w, t, done
  <2> QED
    BY <1>2, <2>1, <2>2, PublishOk
<1>4. log' = [log EXCEPT ![s] = Append(@, e)] /\ UNCHANGED <<validator, accepted>>
  BY <1>2 DEF Push
<1> HIDE DEF q, w, t, x, done
<1>5. Inv'
  BY <1>1, <1>2, <1>3, PushStep
<1>6. /\ log'[s] = Append(log[s], e) /\ \A z \in Stream \ {s} : log'[z] = log[z]
  BY <1>1, <1>4 DEF Inv
<1>7. View(s)' = w /\ Said(s)' = Said(s) \cup {x.event}
  <2> DEFINE n == Len(log[s])
  <2>1. /\ IsSeq(log[s]) /\ n \in Nat /\ DOMAIN log[s] = 1 .. n
    BY <1>1 DEF LogInv, IsSeq
  <2>2. e.view = w /\ e.event = x.event
    OBVIOUS
  <2> HIDE DEF e
  <2>3. /\ IsSeq(log'[s]) /\ DOMAIN log'[s] = 1 .. n + 1 /\ Len(log'[s]) = n + 1
        /\ \A i \in 1 .. n : log'[s][i] = log[s][i]
        /\ log'[s][n + 1] = e
    BY <1>6, <2>1, AppendAny
  <2>4. View(s)' = w
    <3>1. log'[s] # << >>
      BY <2>1, <2>3
    <3> QED
      BY <2>2, <2>3, <3>1 DEF View
  <2>5. Said(s)' = Said(s) \cup {x.event}
    <3>1. \A i \in 1 .. n + 1 : i \in 1 .. n \/ i = n + 1
      BY <2>1
    <3>2. 1 .. n \subseteq 1 .. n + 1 /\ n + 1 \in 1 .. n + 1
      BY <2>1
    <3>3. \A i \in 1 .. n : log'[s][i].event = log[s][i].event
      BY <2>3
    <3>4. log'[s][n + 1].event = x.event
      BY <2>2, <2>3
    <3>5. ASSUME NEW y PROVE y \in Said(s)' <=> y \in Said(s) \/ y = x.event
      <4>1. y \in Said(s)' <=> \E i \in 1 .. n + 1 : y = log'[s][i].event
        BY <2>3 DEF Said
      <4>2. y \in Said(s) <=> \E i \in 1 .. n : y = log[s][i].event
        BY <2>1 DEF Said
      <4> QED
        BY <3>1, <3>2, <3>3, <3>4, <4>1, <4>2, Zenon
    <3> QED
      BY <3>5, Zenon
  <2> QED
    BY <2>4, <2>5
<1>8. outgoing'[s] = Tail(q) /\ DOMAIN outgoing' = Stream
      /\ \A z \in Stream \ {s} : outgoing'[z] = outgoing[z]
  BY <1>1, <1>2
<1>9. SessionInv(s)'
  <2>1. /\ IsSeq(q) /\ Len(q) \in Nat /\ DOMAIN q = 1 .. Len(q)
        /\ \A i \in DOMAIN q : q[i].event.type = "Terminal" => i = Len(q)
        /\ (\E i \in DOMAIN q : q[i].event.type = "Terminal") => ~t.open
        /\ \A a \in Said(s) : a.type # "Terminal"
    BY <1>1, <1>2 DEF SessionInv, TrackerOk, IsSeq, q, t
  <2>2. /\ Len(Tail(q)) = Len(q) - 1 /\ DOMAIN Tail(q) = 1 .. Len(q) - 1
        /\ \A i \in 1 .. Len(q) - 1 : Tail(q)[i] = q[i + 1]
        /\ x = q[1] /\ Len(q) # 0 /\ IsSeq(Tail(q))
    <3> DEFINE S == {q[i] : i \in DOMAIN q}
    <3>1. q \in Seq(S)
      BY <2>1 DEF IsSeq
    <3> HIDE DEF S
    <3>2. Tail(q) \in Seq(S) /\ Len(Tail(q)) = Len(q) - 1
          /\ \A i \in 1 .. Len(Tail(q)) : Tail(q)[i] = q[i + 1]
      BY <1>2, <3>1, HeadTailProperties
    <3>3. Len(q) # 0 /\ x = q[1]
      BY <1>2, <3>1, EmptySeq DEF x
    <3>4. IsSeq(Tail(q))
      BY <1>3 DEF TrackerOk
    <3> QED
      BY <3>2, <3>3, <3>4
  <2>3. \A i \in DOMAIN Tail(q) : Tail(q)[i].event.type = "Terminal" =>
          i = Len(Tail(q)) /\ ~t.open
    <3> SUFFICES ASSUME NEW i \in DOMAIN Tail(q), Tail(q)[i].event.type = "Terminal"
                 PROVE  i = Len(Tail(q)) /\ ~t.open
      OBVIOUS
    <3>1. i \in 1 .. Len(q) - 1 /\ i + 1 \in DOMAIN q /\ q[i + 1].event.type = "Terminal"
      BY <2>1, <2>2
    <3>2. i + 1 = Len(q)
      BY <2>1, <3>1
    <3>3. i = Len(Tail(q))
      BY <2>1, <2>2, <3>1, <3>2
    <3>4. ~t.open
      BY <2>1, <3>1
    <3> QED
      BY <3>3, <3>4
  <2>4. x.event.type = "Terminal" => Tail(q) = << >> /\ ~t.open
    <3> SUFFICES ASSUME x.event.type = "Terminal" PROVE Len(Tail(q)) = 0 /\ ~t.open
      BY <2>2, EmptySeq DEF IsSeq
    <3>1. 1 \in DOMAIN q
      BY <2>1, <2>2
    <3> QED
      BY <2>1, <2>2, <3>1
  <2>5. /\ TrackerOk(View(s)', session'[s], outgoing'[s], Said(s)')
        /\ session'[s].last_text \in Hypothesis \cup {NoText}
        /\ session'[s].final_emitted \/ ~session'[s].open => session'[s].active = NoCandidate
        /\ \A i \in DOMAIN outgoing'[s] : outgoing'[s][i].event.type = "Terminal" =>
             i = Len(outgoing'[s]) /\ ~session'[s].open
        /\ \A a \in Said(s)' : a.type = "Terminal" => outgoing'[s] = << >> /\ ~session'[s].open
    <3>1. session'[s] = t
      BY <1>2 DEF t
    <3>2. t.last_text \in Hypothesis \cup {NoText}
          /\ (t.final_emitted \/ ~t.open => t.active = NoCandidate)
      BY <1>1 DEF SessionInv, t
    <3> QED
      BY <1>3, <1>7, <1>8, <2>1, <2>3, <2>4, <3>1, <3>2
  <2> QED
    BY <2>5 DEF SessionInv, TrackerOk, ItemOk, ActiveOk, HasFate, TextOf, Settles, IsSeq
<1>10. ASSUME NEW z \in recognised PROVE SessionInv(z)'
  <2>1. CASE z = s
    BY <1>9, <2>1
  <2>2. CASE z # s
    <3>1. SessionInv(z) /\ z \in Stream \ {s}
      BY <1>1, <2>2 DEF RecognitionInv
    <3> QED
      BY <1>2, <1>6, <1>8, <3>1, SessionStays
  <2> QED
    BY <2>1, <2>2
<1>11. CommittedStays
  BY <1>1, <1>4 DEF CommittedStays, validator, Inv, ValidatorInv
<1> QED
  BY <1>1, <1>2, <1>5, <1>8, <1>10, <1>11 DEF RecognitionInv

-----------------------------------------------------------------------------
\* At first no session has heard anything.
LEMMA FirstSessions ==
  ASSUME RecognitionAssumption, RecognitionInit PROVE RecognitionInv
<1>1. Inv
  BY InvInit DEF RecognitionInit
<1>2. ASSUME NEW s \in Stream PROVE SessionInv(s)
  <2>1. /\ session[s] = NewSession /\ outgoing[s] = << >> /\ log[s] = << >>
    BY DEF RecognitionInit, Init
  <2>2. View(s).texts = [g \in {} |-> << >>] /\ View(s).done = {} /\ Said(s) = {}
    BY <2>1 DEF View, Said
  <2>3. /\ session[s].active = NoCandidate /\ session[s].next_id = 0
        /\ session[s].last_text = NoText /\ session[s].open
    BY <2>1 DEF NewSession
  <2>4. TrackerOk(View(s), session[s], << >>, Said(s))
    BY <2>2, <2>3, ShortQueues DEF TrackerOk, ActiveOk
  <2> QED
    BY <2>1, <2>2, <2>3, <2>4, ShortQueues DEF SessionInv
<1> QED
  BY <1>1, <1>2 DEF RecognitionInit, RecognitionInv

\* Every call of a session keeps the invariant.
LEMMA CallStep ==
  ASSUME RecognitionAssumption, RecognitionInv, NEW s \in Stream,
         push_audio(s) \/ finish(s) \/ cancel(s)
  PROVE  RecognitionInv' /\ CommittedStays
<1>1. /\ Idle(s) /\ s \in recognised /\ UNCHANGED vars
  BY DEF push_audio, finish, cancel, Return, Idle
<1>2. /\ SessionInv(s) /\ outgoing[s] = << >> /\ session[s].open
      /\ TrackerOk(View(s), session[s], << >>, Said(s))
      /\ session[s].last_text \in Hypothesis \cup {NoText}
      /\ session[s].final_emitted => session[s].active = NoCandidate
  BY <1>1 DEF RecognitionInv, SessionInv, Idle
<1>6. CommittedStays
  BY <1>1 DEF vars, validator, CommittedStays, RecognitionInv, Inv, ValidatorInv
<1> SUFFICES RecognitionInv'
  BY <1>6
<1>3. CASE push_audio(s)
  <2>1. PICK text \in Hypothesis, is_final \in BOOLEAN :
          Return(s, ingest_candidate(session[s], text, is_final), << >>, text, is_final, TRUE)
    BY <1>3 DEF push_audio
  <2> DEFINE r == ingest_candidate(session[s], text, is_final)
  <2>2. /\ TrackerOk(View(s), r, r.events, Said(s))
        /\ \A i \in DOMAIN r.events : r.events[i].event.type # "Terminal"
        /\ is_final => r.active = NoCandidate
    BY <1>2, IngestOk
  <2>3. Return(s, r, << >>, text, is_final, TRUE)
    BY <2>1
  <2>4. text \in Hypothesis \cup {NoText}
    OBVIOUS
  <2> HIDE DEF r
  <2> QED
    BY <1>1, <2>2, <2>3, <2>4, ReturnStep
<1>4. CASE finish(s)
  <2> DEFINE settled == [events |-> << >>, active |-> session[s].active,
                         next_id |-> session[s].next_id]
             r == IF session[s].final_emitted THEN settled
                  ELSE IF session[s].last_text = NoText THEN Cancel(session[s])
                  ELSE ingest_candidate(session[s], session[s].last_text, TRUE)
  <2>1. Return(s, r, <<Last>>, NoText, TRUE, FALSE)
    BY <1>4 DEF finish
  <2>2. /\ TrackerOk(View(s), r, r.events, Said(s))
        /\ \A i \in DOMAIN r.events : r.events[i].event.type # "Terminal"
        /\ r.active = NoCandidate
    <3>1. CASE session[s].final_emitted
      <4>1. r = settled
        BY <3>1
      <4>2. settled.events = << >> /\ settled.active = NoCandidate
            /\ settled.next_id = session[s].next_id /\ settled.active = session[s].active
        BY <1>2, <3>1
      <4>3. TrackerOk(View(s), settled, << >>, Said(s))
        <5> HIDE DEF settled
        <5> QED
          BY <1>2, <4>2, ShortQueues DEF TrackerOk, ActiveOk, HasFate
      <4> HIDE DEF r, settled
      <4> QED
        BY <4>1, <4>2, <4>3, ShortQueues
    <3>2. CASE ~session[s].final_emitted /\ session[s].last_text = NoText
      <4>1. r = Cancel(session[s])
        BY <3>2
      <4> HIDE DEF r
      <4> QED
        BY <1>2, <4>1, CancelOk
    <3>3. CASE ~session[s].final_emitted /\ session[s].last_text # NoText
      <4>1. r = ingest_candidate(session[s], session[s].last_text, TRUE)
        BY <3>3
      <4>2. session[s].last_text \in Hypothesis /\ TRUE \in BOOLEAN
        BY <1>2, <3>3
      <4> HIDE DEF r
      <4> QED
        BY <1>2, <4>1, <4>2, IngestOk
    <3> QED
      BY <3>1, <3>2, <3>3
  <2> HIDE DEF r
  <2> QED
    BY <1>1, <2>1, <2>2, ReturnStep
<1>5. CASE cancel(s)
  <2>1. Return(s, Cancel(session[s]), <<Last>>, session[s].last_text, session[s].final_emitted,
               FALSE)
    BY <1>5 DEF cancel
  <2> DEFINE r == Cancel(session[s])
  <2>2. /\ TrackerOk(View(s), r, r.events, Said(s))
        /\ \A i \in DOMAIN r.events : r.events[i].event.type # "Terminal"
        /\ r.active = NoCandidate
    BY <1>2, CancelOk
  <2>3. Return(s, r, <<Last>>, session[s].last_text, session[s].final_emitted, FALSE)
    BY <2>1
  <2> HIDE DEF r
  <2> QED
    BY <1>1, <1>2, <2>2, <2>3, ReturnStep
<1>7. push_audio(s) \/ finish(s) \/ cancel(s)
  OBVIOUS
<1> HIDE DEF push_audio, finish, cancel
<1> QED
  BY ONLY <1>3, <1>4, <1>5, <1>7

\* Every step keeps the invariant, and what is committed.
LEMMA RecognitionStep ==
  ASSUME ConstantsAssumption, RecognitionAssumption, RecognitionInv,
         [RecognitionNext]_transcriptVars
  PROVE  RecognitionInv' /\ CommittedStays
<1>1. ASSUME NEW s \in Stream, push_audio(s) \/ finish(s) \/ cancel(s)
      PROVE  RecognitionInv' /\ CommittedStays
  BY <1>1, CallStep
<1>2. ASSUME NEW s \in Stream, Publish(s) PROVE RecognitionInv' /\ CommittedStays
  BY <1>2, PublishStep DEF Publish
<1>3. CASE [Next]_vars /\ (\A s \in recognised : log'[s] = log[s]) /\ UNCHANGED sessionVars
  <2>1. Inv' /\ CommittedStays
    BY <1>3, InvNext DEF RecognitionInv
  <2>2. \A s \in recognised : SessionInv(s)'
    BY <1>3, SessionStays DEF RecognitionInv, sessionVars
  <2> QED
    BY <1>3, <2>1, <2>2 DEF RecognitionInv, sessionVars
<1>4. CASE Elsewhere
  BY <1>3, <1>4 DEF Elsewhere
<1>5. CASE UNCHANGED transcriptVars
  BY <1>3, <1>5 DEF transcriptVars, vars, sessionVars
<1> QED
  BY <1>1, <1>2, <1>4, <1>5 DEF RecognitionNext

\* In every state of recognition sessions and other producers.
LEMMA RecognitionInvariant == RecognitionSpec => []RecognitionInv
BY ConstantsAssumption, RecognitionAssumption, FirstSessions, RecognitionStep, PTL
   DEF RecognitionSpec

(* Who follows a recognition session from its start shows, after each event, the very hypothesis
   that the recognizer had: the ranges that the tracker revises are those of the text that the
   consumer has.  And as with any producer, only another commit replaces what was committed. *)
THEOREM RecognitionAgrees ==
  RecognitionSpec => [](AcceptedIsContiguous /\ TextAgrees) /\ CommittedGuarded
<1>1. RecognitionInv => AcceptedIsContiguous /\ TextAgrees
  BY InvContiguous, InvAgrees DEF RecognitionInv
<1>2. RecognitionInv /\ [RecognitionNext]_transcriptVars => [CommittedStays]_vars
  BY ConstantsAssumption, RecognitionAssumption, RecognitionStep
<1>3. [CommittedStays]_vars => [\A g \in DOMAIN committed :
         /\ g \in DOMAIN committed' /\ segment_text'[g] = committed'[g]
         /\ \/ committed'[g] = committed[g]
            \/ LET event == accepted'[Len(accepted')].event
               IN  /\ Len(accepted') > Len(accepted)
                   /\ event.type = "CommittedSegment" /\ event.segment = g
                   /\ event.text = committed'[g]]_vars
  BY DEF CommittedStays, Commits
<1> QED
  BY <1>1, <1>2, <1>3, RecognitionInvariant, PTL DEF RecognitionSpec, CommittedGuarded

(* A session that has said its last word, finished or cancelled whenever, has committed or called
   off each hypothesis it told. *)
THEOREM Settled == RecognitionSpec => []HypothesesSettled
<1>1. RecognitionInv => HypothesesSettled
  <2> SUFFICES ASSUME RecognitionInv, NEW s \in recognised,
                      NEW i \in DOMAIN log[s], log[s][i].event.type = "Terminal",
                      NEW g \in DOMAIN View(s).texts
               PROVE  \/ g \in View(s).done
                      \/ \E j \in DOMAIN log[s] : log[s][j].event = CalledOff(g)
    BY DEF HypothesesSettled, CalledOff
  <2>1. SessionInv(s) /\ log[s][i].event \in Said(s)
    BY DEF RecognitionInv, Said
  <2>2. /\ outgoing[s] = << >> /\ session[s].active = NoCandidate
        /\ HasFate(View(s), session[s], outgoing[s], Said(s), g)
    BY <2>1 DEF SessionInv, TrackerOk
  <2>3. g \in View(s).done \/ CalledOff(g) \in Said(s)
    BY <2>2, ShortQueues DEF HasFate
  <2> QED
    BY <2>3 DEF Said
<1> QED
  BY <1>1, RecognitionInvariant, PTL
=============================================================================
