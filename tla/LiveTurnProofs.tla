--------------------------- MODULE LiveTurnProofs ---------------------------
(***************************************************************************)
(* What LiveTurn guarantees for every capacity of its queues, any text and *)
(* any number of segments.  Who stays and does not cancel is told how the  *)
(* turn ended: the verdict comes from three tasks - the coordinator's      *)
(* completion, the generator's error, the worker's error - and passes      *)
(* through two queues, so the first invariant says where it is on its way. *)
(* And the turn is one that SpokenTurn promises: the second invariant says *)
(* where each segment is between its text and its audio.                   *)
(***************************************************************************)
EXTENDS LiveTurn, SequenceTheorems, WellFoundedInduction, TLAPS

USE ConstantsAssumption

Has(q, T) == \E i \in DOMAIN q : q[i].type \in T

TypeInv ==
  /\ generated \in Seq(Events) /\ turn_queue \in Seq(Events)
  /\ voiced \in Seq(Events) /\ audio_queue \in Seq(Events)
  /\ told \in Seq(Events)
  /\ telling \in Events \cup {NoEvent}
  /\ synthesis_queue \in Seq(Nat) /\ speaking \in Nat /\ segment_id \in Nat
  /\ generator = "done" => generated = << >>
  /\ source_open \in BOOLEAN

\* A verdict is told, or between the worker and the client; and one of the generator is
\* told or between the generator and the client.
Telling(T) == telling # NoEvent /\ telling.type \in T
WorkerSaid == Has(told, Terminal) \/ Telling(Terminal) \/ Has(audio_queue, Terminal)
Ends == Terminal \cup {"TextCompleted"}
GeneratorSaid ==
  \/ generation_done \/ Has(told, Terminal)
  \/ Telling(Ends) \/ Has(turn_queue, Ends) \/ Has(generated, Ends)

\* A cancelled turn, a worker that is gone, a source that is closed and a loop that was
\* left: each has a reason that the client will be told.
VerdictInv ==
  /\ cancelled => WorkerSaid
  /\ worker = "failed" => WorkerSaid \/ Has(voiced, Terminal)
  /\ worker = "done" => WorkerSaid \/ ~source_open \/ coordinator # "select"
  /\ coordinator = "select" /\ generator \in {"last", "done"} => GeneratorSaid
  /\ ~source_open => generation_done \/ Has(told, Terminal)
  /\ coordinator \in {"join", "drain"} => generation_done \/ WorkerSaid
  /\ coordinator = "verdict" => Telling({"Completed"})
  /\ coordinator \in {"release", "done"} => Has(told, Terminal)

Listening == client = "reading" /\ ~asked
Inv == TypeInv /\ (Listening => VerdictInv)

-----------------------------------------------------------------------------
\* Where an event is, when its queue is moved on.
LEMMA HasAppend ==
  ASSUME NEW q \in Seq(Events), NEW e \in Events, NEW T
  PROVE  /\ Append(q, e) \in Seq(Events)
         /\ Has(Append(q, e), T) <=> Has(q, T) \/ e.type \in T
<1>1. /\ Append(q, e) \in Seq(Events) /\ Len(q) \in Nat /\ DOMAIN q = 1 .. Len(q)
      /\ DOMAIN Append(q, e) = 1 .. Len(q) + 1
      /\ \A i \in 1 .. Len(q) : Append(q, e)[i] = q[i]
      /\ Append(q, e)[Len(q) + 1] = e
  BY AppendProperties
<1>2. \A i \in 1 .. Len(q) + 1 : i \in 1 .. Len(q) \/ i = Len(q) + 1
  BY <1>1
<1>3. 1 .. Len(q) \subseteq 1 .. Len(q) + 1 /\ Len(q) + 1 \in 1 .. Len(q) + 1
  BY <1>1
<1> QED
  BY <1>1, <1>2, <1>3 DEF Has

LEMMA HasTail ==
  ASSUME NEW q \in Seq(Events), q # << >>, NEW T
  PROVE  /\ Head(q) \in Events /\ Tail(q) \in Seq(Events)
         /\ Has(q, T) <=> Head(q).type \in T \/ Has(Tail(q), T)
<1>1. /\ Len(q) \in Nat \ {0} /\ DOMAIN q = 1 .. Len(q) /\ Head(q) = q[1] /\ Head(q) \in Events
      /\ Tail(q) \in Seq(Events) /\ DOMAIN Tail(q) = 1 .. Len(q) - 1
      /\ \A i \in 1 .. Len(q) - 1 : Tail(q)[i] = q[i + 1]
  <2>1. Tail(q) \in Seq(Events) /\ Len(Tail(q)) = Len(q) - 1
        /\ \A i \in 1 .. Len(q) - 1 : Tail(q)[i] = q[i + 1]
    BY HeadTailProperties
  <2>2. Len(q) \in Nat \ {0} /\ DOMAIN q = 1 .. Len(q)
    BY EmptySeq
  <2>3. Head(q) = q[1] /\ Head(q) \in Events
    BY <2>2
  <2> QED
    BY <2>1, <2>2, <2>3
<1>2. \A i \in 1 .. Len(q) : i = 1 \/ (i - 1 \in 1 .. Len(q) - 1 /\ (i - 1) + 1 = i)
  BY <1>1
<1>3. 1 \in 1 .. Len(q) /\ \A i \in 1 .. Len(q) - 1 : i + 1 \in 1 .. Len(q)
  BY <1>1
<1>4. Has(q, T) => Head(q).type \in T \/ Has(Tail(q), T)
  <2> SUFFICES ASSUME NEW i \in 1 .. Len(q), q[i].type \in T
               PROVE  q[1].type \in T \/ \E j \in 1 .. Len(q) - 1 : Tail(q)[j].type \in T
    BY <1>1 DEF Has
  <2>1. CASE i = 1
    BY <2>1
  <2>2. CASE i - 1 \in 1 .. Len(q) - 1 /\ (i - 1) + 1 = i
    BY <1>1, <2>2
  <2> QED
    BY <1>2, <2>1, <2>2
<1>5. Head(q).type \in T \/ Has(Tail(q), T) => Has(q, T)
  BY <1>1, <1>3 DEF Has
<1> QED
  BY <1>1, <1>4, <1>5

LEMMA HasNone == << >> \in Seq(Events) /\ \A T : ~Has(<< >>, T)
BY DEF Has

\* The events that are made, and where they are in what is made of them.
LEMMA Made ==
  /\ \A type \in {"SessionStarted", "PartialHypothesis", "TextCompleted", "Completed",
                  "Cancelled", "Error"} :
       Event(type) \in Events /\ Event(type).type = type
  /\ \A type \in {"CommittedSegment", "OutputRequested", "OutputStarted", "AudioChunk",
                  "OutputFinished"}, s \in Nat :
       Of(type, s) \in Events /\ Of(type, s).type = type
BY DEF Event, Of, Events

LEMMA HasFew ==
  ASSUME NEW e \in Events, NEW f \in Events
  PROVE  /\ <<e>> \in Seq(Events) /\ <<e, f>> \in Seq(Events)
         /\ \A T : Has(<<e>>, T) <=> e.type \in T
<1>1. <<e>> \in Seq(Events) /\ <<e, f>> \in Seq(Events)
  OBVIOUS
<1>2. DOMAIN <<e>> = {1} /\ <<e>>[1] = e
  OBVIOUS
<1> QED
  BY <1>1, <1>2 DEF Has

LEMMA TailOfOne ==
  ASSUME NEW q \in Seq(Events), q # << >>, Len(q) = 1 PROVE Tail(q) = << >>
<1>1. Len(Tail(q)) = 0
  <2>1. Len(Tail(q)) = Len(q) - 1
    BY HeadTailProperties
  <2> QED
    BY <2>1
<1>2. Tail(q) \in Seq(Events)
  BY HeadTailProperties
<1> QED
  BY <1>1, <1>2, EmptySeq

LEMMA Joined ==
  ASSUME NEW p \in Seq(Events), NEW q \in Seq(Events) PROVE p \o q \in Seq(Events)
BY ConcatProperties

LEMMA HeadOfNats ==
  ASSUME NEW q \in Seq(Nat), q # << >> PROVE Head(q) \in Nat /\ Tail(q) \in Seq(Nat)
OBVIOUS

LEMMA TextEnds ==
  ASSUME NEW q \in Seq(Events) PROVE Has(Append(q, Event("TextCompleted")), Ends)
<1>1. Event("TextCompleted") \in Events /\ Event("TextCompleted").type \in Ends
  BY Made DEF Ends
<1> QED
  BY <1>1, HasAppend

LEMMA SegmentsMade ==
  ASSUME segment_id \in Nat, NEW n \in Nat
  PROVE  Segments(n) \in Seq(Events)
<1>1. \A i \in 1 .. n : segment_id + i \in Nat
  OBVIOUS
<1>2. \A i \in 1 .. n : Of("CommittedSegment", segment_id + i) \in Events
  BY <1>1, Made
<1> QED
  BY <1>2 DEF Segments

-----------------------------------------------------------------------------
LEMMA InvInit == Init => Inv
<1> SUFFICES ASSUME Init PROVE Inv
  OBVIOUS
<1>1. Event("SessionStarted") \in Events
  BY Made
<1>2. <<Event("SessionStarted")>> \in Seq(Events) /\ << >> \in Seq(Events) /\ << >> \in Seq(Nat)
  BY <1>1
<1>3. TypeInv
  BY <1>2 DEF Init, TypeInv
<1>4. VerdictInv
  BY DEF Init, VerdictInv
<1> QED
  BY <1>3, <1>4 DEF Inv

\* What each task puts into the queues is an event.
LEMMA TypeKept == TypeInv /\ [Next]_vars => TypeInv'
<1> SUFFICES ASSUME TypeInv, [Next]_vars PROVE TypeInv'
  OBVIOUS
<1> USE DEF TypeInv
<1>1. CASE Provider
  BY <1>1 DEF Provider, gen_vars, coord_vars, work_vars, client_vars
<1>2. CASE Generator
  <2> USE DEF coord_vars, work_vars, client_vars
  <2>1. CASE GeneratorSends
    <3>1. generated # << >> /\ generator # "done"
      BY <2>1 DEF GeneratorSends
    <3>2. Head(generated) \in Events /\ Tail(generated) \in Seq(Events)
          /\ Append(turn_queue, Head(generated)) \in Seq(Events)
      BY <3>1, HasTail, HasAppend
    <3>3. Len(generated) = 1 => Tail(generated) = << >>
      BY <3>1, TailOfOne
    <3>4. generated' \in Seq(Events) /\ turn_queue' \in Seq(Events)
      <4>1. CASE coordinator # "done"
        BY <2>1, <3>2, <4>1 DEF GeneratorSends
      <4>2. CASE coordinator = "done"
        BY <2>1, <4>2, HasNone DEF GeneratorSends
      <4> QED
        BY <4>1, <4>2
    <3>5. generator' = "done" => generated' = << >>
      BY <2>1, <3>1, <3>3 DEF GeneratorSends
    <3> QED
      BY <1>2, <2>1, <3>4, <3>5 DEF Generator, GeneratorSends
  <2>2. CASE OpenProvider
    <3>1. <<Event("Error")>> \in Seq(Events)
      BY Made, HasFew
    <3> QED
      BY <1>2, <2>2, <3>1 DEF Generator, OpenProvider
  <2>3. CASE TakeToken
    <3>1. ASSUME NEW n \in 0 .. MaxSegments - segment_id
          PROVE  /\ <<Event("PartialHypothesis")>> \o Segments(n) \in Seq(Events)
                 /\ segment_id + n \in Nat
      <4>1. n \in Nat
        OBVIOUS
      <4>2. Segments(n) \in Seq(Events) /\ <<Event("PartialHypothesis")>> \in Seq(Events)
        BY <4>1, SegmentsMade, Made, HasFew
      <4>3. <<Event("PartialHypothesis")>> \o Segments(n) \in Seq(Events)
        BY <4>2, Joined, Zenon
      <4> QED
        BY <4>1, <4>3
    <3>2. /\ generated' \in Seq(Events) /\ segment_id' \in Nat /\ generator' # "done"
      BY <2>3, <3>1 DEF TakeToken
    <3> QED
      BY <1>2, <2>3, <3>2 DEF Generator, TakeToken
  <2>4. CASE SourceEnds
    BY <1>2, <2>4 DEF Generator, SourceEnds
  <2>5. CASE JoinProvider
    <3>1. Event("Cancelled") \in Events /\ Event("Error") \in Events /\ Event("TextCompleted") \in Events
      BY Made
    <3>2. \A n \in {0, 1} : Append(Segments(n), Event("TextCompleted")) \in Seq(Events)
      BY <3>1, SegmentsMade, HasAppend
    <3>3. <<Event("Cancelled")>> \in Seq(Events) /\ <<Event("Error")>> \in Seq(Events)
      BY <3>1, HasFew
    <3>4. generated' \in Seq(Events) /\ segment_id' \in Nat /\ generator' # "done"
      <4>1. CASE cancelled \/ provider = "failed"
        BY <2>5, <3>3, <4>1 DEF JoinProvider
      <4>2. CASE ~cancelled /\ provider # "failed"
        <5>1. PICK n \in {0, 1} : /\ generated' = Append(Segments(n), Event("TextCompleted"))
                                 /\ segment_id' = segment_id + n
          BY <2>5, <4>2 DEF JoinProvider
        <5>2. generated' \in Seq(Events)
          BY <3>2, <5>1, Zenon
        <5> QED
          BY <2>5, <5>1, <5>2 DEF JoinProvider
      <4> QED
        BY <4>1, <4>2
    <3> QED
      BY <1>2, <2>5, <3>4 DEF Generator, JoinProvider
  <2> QED
    BY <1>2, <2>1, <2>2, <2>3, <2>4, <2>5 DEF Generator
<1>3. CASE Coordinator
  <2>1. ASSUME turn_queue # << >>
        PROVE  Head(turn_queue) \in Events /\ Tail(turn_queue) \in Seq(Events)
    BY <2>1, HasTail
  <2>2. ASSUME audio_queue # << >>
        PROVE  Head(audio_queue) \in Events /\ Tail(audio_queue) \in Seq(Events)
    BY <2>2, HasTail
  <2>3. ASSUME telling # NoEvent
        PROVE  /\ Append(told, telling) \in Seq(Events)
               /\ Append(synthesis_queue, telling.segment) \in Seq(Nat)
    <3>1. telling \in Events
      BY <2>3
    <3>2. telling.segment \in Nat
      BY <3>1 DEF Events
    <3> QED
      BY <3>1, <3>2, HasAppend
  <2> USE DEF gen_vars, work_vars, client_vars
  <2>4. CASE HearGenerator
    BY <1>3, <2>1, <2>4 DEF Coordinator, HearGenerator, NextPass
  <2>5. CASE HearWorker
    BY <1>3, <2>2, <2>5 DEF Coordinator, HearWorker, NextPass
  <2>6. CASE Told
    <3>1. told' \in Seq(Events)
      BY <2>3, <2>6 DEF Told, Tell
    <3>2. synthesis_queue' \in Seq(Nat)
      BY <2>3, <2>6 DEF Told, Tell, Follow
    <3>3. source_open' \in BOOLEAN
      BY <2>6 DEF Told, Follow, NextPass
    <3> QED
      BY <1>3, <2>6, <3>1, <3>2, <3>3 DEF Coordinator, Told
  <2>7. CASE NotTold
    <3>1. synthesis_queue' \in Seq(Nat)
      BY <2>3, <2>7 DEF NotTold, Follow
    <3>2. source_open' \in BOOLEAN
      BY <2>7 DEF NotTold, Follow, NextPass
    <3> QED
      BY <1>3, <2>7, <3>1, <3>2 DEF Coordinator, NotTold
  <2>8. CASE JoinWorker
    BY <1>3, <2>8 DEF Coordinator, JoinWorker
  <2>9. CASE Conclude
    BY <1>3, <2>9, Made DEF Coordinator, Conclude
  <2>10. CASE Release
    BY <1>3, <2>10 DEF Coordinator, Release
  <2> QED
    BY <1>3, <2>4, <2>5, <2>6, <2>7, <2>8, <2>9, <2>10 DEF Coordinator
<1>4. CASE Worker
  <2> USE DEF gen_vars, coord_vars, client_vars
  <2>1. CASE TakeSegment
    <3>1. ASSUME synthesis_queue # << >>
          PROVE  Head(synthesis_queue) \in Nat /\ Tail(synthesis_queue) \in Seq(Nat)
      BY <3>1, HeadOfNats
    <3>2. \A n \in Nat : <<Of("OutputRequested", n), Of("OutputStarted", n)>> \in Seq(Events)
      <4>1. \A n \in Nat : Of("OutputRequested", n) \in Events /\ Of("OutputStarted", n) \in Events
        BY Made
      <4> QED
        BY <4>1, HasFew
    <3>3. /\ voiced' \in Seq(Events) /\ synthesis_queue' \in Seq(Nat) /\ speaking' \in Nat
      BY <2>1, <3>1, <3>2 DEF TakeSegment
    <3> QED
      BY <1>4, <2>1, <3>3 DEF Worker, TakeSegment
  <2>2. CASE WorkerSends
    <3>1. /\ Head(voiced) \in Events /\ Tail(voiced) \in Seq(Events)
      BY <2>2, HasTail DEF WorkerSends
    <3>2. Append(audio_queue, Head(voiced)) \in Seq(Events)
      BY <3>1, HasAppend
    <3> QED
      BY <1>4, <2>2, <3>1, <3>2 DEF Worker, WorkerSends
  <2>3. CASE Synthesize
    <3>1. /\ Of("AudioChunk", speaking) \in Events /\ Of("OutputFinished", speaking) \in Events
          /\ Event("Error") \in Events
      BY Made
    <3>2. /\ <<Of("AudioChunk", speaking), Of("OutputFinished", speaking)>> \in Seq(Events)
          /\ <<Event("Error")>> \in Seq(Events)
      BY <3>1, HasFew
    <3> QED
      BY <1>4, <2>3, <3>2 DEF Worker, Synthesize
  <2>4. CASE GiveUp
    BY <1>4, <2>4 DEF Worker, GiveUp
  <2> QED
    BY <1>4, <2>1, <2>2, <2>3, <2>4 DEF Worker
<1>5. CASE CancelTurn
  BY <1>5 DEF CancelTurn, gen_vars, coord_vars, work_vars, client_vars
<1>6. CASE ClientReads
  BY <1>6 DEF ClientReads, gen_vars, coord_vars, work_vars
<1>7. CASE ClientLeaves
  BY <1>7 DEF ClientLeaves, gen_vars, coord_vars, work_vars
<1>8. CASE UNCHANGED vars
  BY <1>8 DEF vars, gen_vars, coord_vars, work_vars, client_vars
<1> QED
  BY <1>1, <1>2, <1>3, <1>4, <1>5, <1>6, <1>7, <1>8 DEF Next

-----------------------------------------------------------------------------
\* Each task of the turn keeps the promise to who listens.

LEMMA GeneratorKeeps ==
  ASSUME TypeInv, Listening, VerdictInv, Generator PROVE VerdictInv'
<1> USE DEF TypeInv
<1>1. UNCHANGED <<coord_vars, work_vars, audio_queue, client_vars>>
  BY DEF Generator
<1>2. /\ UNCHANGED <<coordinator, telling, source_open, generation_done, worker, voiced,
                     audio_queue, told>>
      /\ \A T : (Has(told, T) <=> Has(told, T)') /\ (Telling(T) <=> Telling(T)')
              /\ (Has(voiced, T) <=> Has(voiced, T)')
      /\ WorkerSaid <=> WorkerSaid'
  BY <1>1 DEF coord_vars, work_vars, client_vars, Has, Telling, WorkerSaid
<1>3. cancelled' => WorkerSaid
  <2>1. CASE cancelled' = cancelled
    BY <2>1 DEF VerdictInv
  <2>2. CASE GeneratorSends
    BY <2>2 DEF GeneratorSends, VerdictInv, WorkerSaid
  <2> QED
    BY <2>1, <2>2 DEF Generator, OpenProvider, TakeToken, SourceEnds, JoinProvider
<1>4. ASSUME coordinator = "select", generator' \in {"last", "done"}
      PROVE  GeneratorSaid'
  <2>1. CASE GeneratorSends
    <3>1. /\ turn_queue' = Append(turn_queue, Head(generated)) /\ generated' = Tail(generated)
          /\ generated # << >>
      BY <1>4, <2>1 DEF GeneratorSends
    <3>2. generator \in {"last", "done"}
      BY <1>4, <2>1 DEF GeneratorSends
    <3>3. Has(turn_queue, Ends) \/ Has(generated, Ends) =>
            Has(Append(turn_queue, Head(generated)), Ends) \/ Has(Tail(generated), Ends)
      BY <3>1, HasTail, HasAppend
    <3> QED
      BY <1>2, <1>4, <3>1, <3>2, <3>3 DEF VerdictInv, GeneratorSaid, Has
  <2>2. CASE OpenProvider
    <3>1. generated' = <<Event("Error")>>
      BY <1>4, <2>2 DEF OpenProvider
    <3>2. Has(<<Event("Error")>>, Ends)
      BY Made, HasFew DEF Ends, Terminal
    <3> QED
      BY <3>1, <3>2 DEF GeneratorSaid, Has
  <2>3. CASE TakeToken \/ SourceEnds
    BY <1>4, <2>3 DEF TakeToken, SourceEnds
  <2>4. CASE JoinProvider
    <3>1. CASE cancelled \/ provider = "failed"
      <4>1. PICK e \in {Event("Cancelled"), Event("Error")} : generated' = <<e>>
        BY <2>4, <3>1 DEF JoinProvider
      <4>2. e \in Events /\ e.type \in Ends
        BY Made DEF Ends, Terminal
      <4>3. Has(<<e>>, Ends)
        BY <4>2, HasFew
      <4> QED
        BY <4>1, <4>3 DEF GeneratorSaid, Has
    <3>2. CASE ~cancelled /\ provider # "failed"
      <4>1. PICK n \in {0, 1} : generated' = Append(Segments(n), Event("TextCompleted"))
        BY <2>4, <3>2 DEF JoinProvider
      <4>2. Segments(n) \in Seq(Events)
        BY SegmentsMade
      <4>3. Has(Append(Segments(n), Event("TextCompleted")), Ends)
        BY <4>2, TextEnds, Zenon
      <4> QED
        BY <4>1, <4>3 DEF GeneratorSaid, Has
    <3> QED
      BY <3>1, <3>2
  <2> QED
    BY <2>1, <2>2, <2>3, <2>4 DEF Generator
<1> QED
  BY <1>2, <1>3, <1>4 DEF VerdictInv

LEMMA WorkerKeeps ==
  ASSUME TypeInv, Listening, VerdictInv, Worker PROVE VerdictInv'
<1> USE DEF TypeInv
<1>1. UNCHANGED <<gen_vars, turn_queue, coord_vars, client_vars>>
  BY DEF Worker
<1>2. /\ UNCHANGED <<generator, coordinator, source_open, generation_done>>
      /\ (Has(told, Terminal) <=> Has(told, Terminal)')
      /\ \A T : (Telling(T) <=> Telling(T)')
      /\ GeneratorSaid <=> GeneratorSaid'
  BY <1>1 DEF gen_vars, coord_vars, client_vars, Has, Telling, GeneratorSaid
<1>3. ASSUME cancelled' => WorkerSaid', WorkerSaid => WorkerSaid',
             worker' = "failed" => WorkerSaid' \/ Has(voiced, Terminal)',
             worker' = "done" => WorkerSaid' \/ ~source_open \/ coordinator # "select"
      PROVE  VerdictInv'
  BY <1>2, <1>3 DEF VerdictInv
<1>4. CASE TakeSegment
  <2>1. UNCHANGED <<cancelled, audio_queue>> /\ worker' # "failed"
    BY <1>4 DEF TakeSegment
  <2>2. WorkerSaid <=> WorkerSaid'
    BY <1>2, <2>1 DEF WorkerSaid, Has
  <2>3. worker' = "done" => cancelled \/ ~SynthesisOpen
    BY <1>4 DEF TakeSegment
  <2> QED
    BY <1>3, <2>1, <2>2, <2>3 DEF VerdictInv, SynthesisOpen
<1>5. CASE WorkerSends
  <2>1. /\ UNCHANGED <<cancelled, worker>> /\ voiced # << >>
        /\ audio_queue' = Append(audio_queue, Head(voiced)) /\ voiced' = Tail(voiced)
    BY <1>5 DEF WorkerSends
  <2>2. Has(audio_queue, Terminal) => Has(Append(audio_queue, Head(voiced)), Terminal)
    BY <2>1, HasTail, HasAppend
  <2>3. Has(voiced, Terminal) => \/ Has(Append(audio_queue, Head(voiced)), Terminal)
                                \/ Has(Tail(voiced), Terminal)
    BY <2>1, HasTail, HasAppend
  <2>4. WorkerSaid => WorkerSaid'
    BY <1>2, <2>1, <2>2 DEF WorkerSaid, Has
  <2>5. Has(voiced, Terminal) => WorkerSaid' \/ Has(voiced, Terminal)'
    BY <2>1, <2>3 DEF WorkerSaid, Has
  <2> QED
    BY <1>3, <2>1, <2>4, <2>5 DEF VerdictInv
<1>6. CASE Synthesize
  <2>1. UNCHANGED <<cancelled, audio_queue>>
    BY <1>6 DEF Synthesize
  <2>2. WorkerSaid <=> WorkerSaid'
    BY <1>2, <2>1 DEF WorkerSaid, Has
  <2>3. worker' = "done" => cancelled
    BY <1>6 DEF Synthesize
  <2>4. worker' = "failed" => voiced' = <<Event("Error")>>
    BY <1>6 DEF Synthesize
  <2>5. Has(<<Event("Error")>>, Terminal)
    BY Made, HasFew DEF Terminal
  <2>6. worker' = "failed" => Has(voiced, Terminal)'
    BY <2>4, <2>5 DEF Has
  <2> QED
    BY <1>3, <2>1, <2>2, <2>3, <2>6 DEF VerdictInv
<1>7. CASE GiveUp
  <2>1. UNCHANGED audio_queue /\ voiced = << >> /\ worker = "failed" /\ worker' = "done"
    BY <1>7 DEF GiveUp
  <2>2. WorkerSaid
    BY <2>1, HasNone DEF VerdictInv
  <2>3. WorkerSaid'
    BY <1>2, <2>1, <2>2 DEF WorkerSaid, Has
  <2> QED
    BY <1>3, <2>3
<1> QED
  BY <1>4, <1>5, <1>6, <1>7 DEF Worker

\* The promise, when the coordinator goes on from the loop or from a send.
LEMMA PassKeeps ==
  ASSUME VerdictInv, coordinator = "select", NEW source \in BOOLEAN, NEW audio,
         NextPass(source, audio),
         ~source => generation_done' \/ Has(told, Terminal)',
         generation_done => generation_done',
         WorkerSaid => WorkerSaid', GeneratorSaid => GeneratorSaid',
         UNCHANGED <<cancelled, generator, worker, voiced>>,
         source => source_open
  PROVE  VerdictInv'
<1>1. coordinator' \in {"select", "join"} /\ source_open' = source
      /\ (coordinator' = "join" => ~source)
  BY DEF NextPass
<1>2. Has(told, Terminal)' => WorkerSaid'
  BY DEF WorkerSaid
<1>3. Has(voiced, Terminal) => Has(voiced, Terminal)'
  BY DEF Has
<1>4. (coordinator = "select" /\ generator \in {"last", "done"} => GeneratorSaid)'
  BY DEF VerdictInv
<1>5. (worker = "done" => WorkerSaid \/ ~source_open \/ coordinator # "select")'
  BY <1>1 DEF VerdictInv
<1> QED
  BY <1>1, <1>2, <1>3, <1>4, <1>5 DEF VerdictInv

LEMMA HearGeneratorKeeps ==
  ASSUME TypeInv, Listening, VerdictInv, HearGenerator,
         UNCHANGED <<prov_vars, gen_vars, work_vars>>
  PROVE VerdictInv'
<1> USE DEF TypeInv
<1>1. /\ UNCHANGED <<cancelled, generator, generated, worker, voiced, audio_queue, told,
                     generation_done>>
      /\ coordinator = "select" /\ telling = NoEvent /\ source_open
  BY DEF HearGenerator, gen_vars, work_vars, tasks, client_vars
<1>2. \A T : ~Telling(T)
  BY <1>1 DEF Telling
<1>3. WorkerSaid => WorkerSaid'
  BY <1>1, <1>2 DEF WorkerSaid, Has
<1>4. CASE turn_queue # << >>
  <2>1. /\ telling' = Head(turn_queue) /\ turn_queue' = Tail(turn_queue)
        /\ UNCHANGED <<coordinator, source_open>>
    BY <1>4 DEF HearGenerator
  <2>2. Head(turn_queue) \in Events /\ Head(turn_queue) # NoEvent
    BY <1>4, HasTail
  <2>3. Has(turn_queue, Ends) => Head(turn_queue).type \in Ends \/ Has(Tail(turn_queue), Ends)
    BY <1>4, HasTail
  <2>4. GeneratorSaid => GeneratorSaid'
    BY <1>1, <1>2, <2>1, <2>2, <2>3 DEF GeneratorSaid, Has, Telling
  <2>5. /\ Has(told, Terminal) <=> Has(told, Terminal)'
        /\ Has(voiced, Terminal) <=> Has(voiced, Terminal)'
    BY <1>1 DEF Has
  <2> QED
    BY <1>1, <1>3, <2>1, <2>4, <2>5 DEF VerdictInv
<1>5. CASE turn_queue = << >>
  <2>1. generator = "done" /\ NextPass(FALSE, audio_open) /\ UNCHANGED <<telling, turn_queue>>
    BY <1>5 DEF HearGenerator
  <2>2. generated = << >>
    BY <2>1
  <2>3. generation_done \/ Has(told, Terminal)
    BY <1>1, <1>2, <1>5, <2>1, <2>2, HasNone DEF VerdictInv, GeneratorSaid
  <2>4. GeneratorSaid => GeneratorSaid'
    BY <1>1, <2>1 DEF GeneratorSaid, Has, Telling
  <2>5. generation_done' \/ Has(told, Terminal)'
    BY <1>1, <2>3 DEF Has
  <2> QED
    BY <1>1, <1>3, <2>1, <2>4, <2>5, PassKeeps
<1> QED
  BY <1>4, <1>5

LEMMA HearWorkerKeeps ==
  ASSUME TypeInv, Listening, VerdictInv, HearWorker,
         UNCHANGED <<prov_vars, gen_vars, work_vars>>
  PROVE VerdictInv'
<1> USE DEF TypeInv
<1>1. /\ UNCHANGED <<cancelled, generator, generated, worker, voiced, turn_queue, told,
                     generation_done>>
      /\ coordinator \in {"select", "drain"} /\ telling = NoEvent
  BY DEF HearWorker, gen_vars, work_vars, tasks, client_vars
<1>2. \A T : ~Telling(T)
  BY <1>1 DEF Telling
<1>3. GeneratorSaid => GeneratorSaid'
  BY <1>1, <1>2 DEF GeneratorSaid, Has
<1>4. /\ Has(told, Terminal) <=> Has(told, Terminal)'
      /\ Has(voiced, Terminal) <=> Has(voiced, Terminal)'
  BY <1>1 DEF Has
<1>5. CASE audio_queue # << >>
  <2>1. /\ telling' = Head(audio_queue) /\ audio_queue' = Tail(audio_queue)
        /\ UNCHANGED <<coordinator, source_open>>
    BY <1>5 DEF HearWorker
  <2>2. Head(audio_queue) \in Events /\ Head(audio_queue) # NoEvent
    BY <1>5, HasTail
  <2>3. Has(audio_queue, Terminal) =>
          Head(audio_queue).type \in Terminal \/ Has(Tail(audio_queue), Terminal)
    BY <1>5, HasTail
  <2>4. WorkerSaid => WorkerSaid'
    BY <1>1, <1>2, <2>1, <2>2, <2>3 DEF WorkerSaid, Has, Telling
  <2> QED
    BY <1>1, <1>3, <1>4, <2>1, <2>4 DEF VerdictInv
<1>6. CASE audio_queue = << >>
  <2>1. coordinator = "select" /\ NextPass(source_open, FALSE) /\ UNCHANGED <<telling, audio_queue>>
    BY <1>6 DEF HearWorker
  <2>2. WorkerSaid => WorkerSaid'
    BY <1>1, <1>2, <1>6, HasNone DEF WorkerSaid, Has
  <2>3. ~source_open => generation_done' \/ Has(told, Terminal)'
    BY <1>1, <1>4 DEF VerdictInv
  <2> QED
    BY <1>1, <1>3, <2>1, <2>2, <2>3, PassKeeps
<1> QED
  BY <1>5, <1>6

\* What is told is told for good, and a verdict is told.
LEMMA ToldKeeps ==
  ASSUME TypeInv, Listening, VerdictInv, Told,
         UNCHANGED <<prov_vars, gen_vars, work_vars>>
  PROVE VerdictInv'
<1> USE DEF TypeInv
<1>1. /\ UNCHANGED <<cancelled, generator, generated, worker, voiced, turn_queue, audio_queue>>
      /\ telling \in Events /\ telling # NoEvent /\ telling' = NoEvent /\ Follow
  BY DEF Told, Tell, gen_vars, work_vars, tasks
<1>2. Has(told, Terminal) \/ telling.type \in Terminal => Has(told', Terminal)
  <2>1. CASE telling.type \in Quiet
    BY <2>1 DEF Told, Tell, Quiet, Terminal
  <2>2. CASE telling.type \notin Quiet
    <3>1. told' = Append(told, telling)
      BY <2>2 DEF Told, Tell
    <3> QED
      BY <1>1, <3>1, HasAppend
  <2> QED
    BY <2>1, <2>2
<1>3. Has(told, Terminal) \/ Telling(Terminal) => Has(told, Terminal)'
  BY <1>2 DEF Has, Telling
<1>4. Has(voiced, Terminal) => Has(voiced, Terminal)'
  BY <1>1 DEF Has
<1>5. WorkerSaid => WorkerSaid'
  BY <1>1, <1>3 DEF WorkerSaid, Has
<1>6. generation_done => generation_done'
  BY <1>1 DEF Follow
<1>7. ASSUME telling.type # "TextCompleted" \/ generation_done', GeneratorSaid
      PROVE  GeneratorSaid'
  <2>1. Telling(Ends) => generation_done' \/ Telling(Terminal)
    BY <1>7 DEF Telling, Ends
  <2> QED
    BY <1>1, <1>3, <1>6, <1>7, <2>1 DEF GeneratorSaid, Has
<1>8. CASE coordinator = "select" /\ telling.type = "TextCompleted"
  <2>1. generation_done' /\ NextPass(FALSE, audio_open)
    BY <1>1, <1>8 DEF Follow
  <2> QED
    BY <1>1, <1>5, <1>6, <1>7, <1>8, <2>1, PassKeeps
<1>9. CASE coordinator = "select" /\ telling.type = "CommittedSegment" /\ worker = "done"
  <2>1. coordinator' = "join" /\ UNCHANGED <<source_open, generation_done>>
    BY <1>1, <1>9 DEF Follow
  <2>2. WorkerSaid \/ generation_done
    BY <1>3, <1>9 DEF VerdictInv, WorkerSaid
  <2> QED
    BY <1>1, <1>3, <1>4, <1>5, <1>9, <2>1, <2>2 DEF VerdictInv
<1>10. CASE /\ coordinator = "select" /\ telling.type # "TextCompleted"
            /\ ~(telling.type = "CommittedSegment" /\ worker = "done")
  <2>1. NextPass(source_open, audio_open) /\ UNCHANGED generation_done
    BY <1>1, <1>10 DEF Follow
  <2>2. ~source_open => generation_done' \/ Has(told, Terminal)'
    BY <1>3, <2>1 DEF VerdictInv
  <2> QED
    BY <1>1, <1>5, <1>6, <1>7, <1>10, <2>1, <2>2, PassKeeps
<1>11. CASE coordinator # "select"
  <2>1. /\ coordinator' = IF coordinator = "verdict" THEN "release" ELSE coordinator
        /\ UNCHANGED <<source_open, generation_done>>
    BY <1>1, <1>11 DEF Follow
  <2>2. coordinator = "verdict" => Has(told, Terminal)'
    BY <1>3 DEF VerdictInv, Telling, Terminal
  <2> QED
    BY <1>1, <1>3, <1>4, <1>5, <1>11, <2>1, <2>2 DEF VerdictInv
<1> QED
  BY <1>8, <1>9, <1>10, <1>11

LEMMA ConcludeKeeps ==
  ASSUME TypeInv, Listening, VerdictInv, Conclude,
         UNCHANGED <<prov_vars, gen_vars, work_vars>>
  PROVE VerdictInv'
<1> USE DEF TypeInv
<1>1. /\ UNCHANGED <<cancelled, generator, worker, voiced, audio_queue, told, source_open,
                     generation_done>>
      /\ coordinator = "drain" /\ telling = NoEvent /\ audio_queue = << >>
      /\ coordinator' \in {"verdict", "release"}
  BY DEF Conclude, gen_vars, work_vars, tasks, client_vars
<1>2. WorkerSaid <=> Has(told, Terminal)
  BY <1>1, HasNone DEF WorkerSaid, Telling
<1>3. /\ Has(told, Terminal) <=> Has(told, Terminal)'
      /\ Has(voiced, Terminal) <=> Has(voiced, Terminal)'
  BY <1>1 DEF Has
<1>4. WorkerSaid => WorkerSaid'
  BY <1>2, <1>3 DEF WorkerSaid
<1>5. coordinator' = "verdict" => Telling({"Completed"})'
  <2>1. ASSUME coordinator' = "verdict" PROVE telling' = Event("Completed")
    BY <2>1 DEF Conclude
  <2>2. Event("Completed") \in Events /\ Event("Completed").type = "Completed"
    BY Made
  <2> QED
    BY <2>1, <2>2 DEF Telling
<1>6. coordinator' = "release" => Has(told, Terminal)'
  <2>1. coordinator' = "release" => ~(generation_done /\ ~cancelled)
    BY DEF Conclude
  <2> QED
    BY <1>1, <1>2, <1>3, <2>1 DEF VerdictInv
<1> QED
  BY <1>1, <1>3, <1>4, <1>5, <1>6 DEF VerdictInv

LEMMA CoordinatorKeeps ==
  ASSUME TypeInv, Listening, Listening', VerdictInv, Coordinator PROVE VerdictInv'
<1>1. UNCHANGED <<prov_vars, gen_vars, work_vars>>
  BY DEF Coordinator
<1>2. CASE HearGenerator
  BY <1>1, <1>2, HearGeneratorKeeps
<1>3. CASE HearWorker
  BY <1>1, <1>3, HearWorkerKeeps
<1>4. CASE Told
  BY <1>1, <1>4, ToldKeeps
<1>5. CASE NotTold
  BY <1>5 DEF NotTold, Listening
<1>6. CASE Conclude
  BY <1>1, <1>6, ConcludeKeeps
<1>7. CASE JoinWorker \/ Release
  <2>1. /\ UNCHANGED <<cancelled, generator, worker, voiced, audio_queue, told, source_open,
                       generation_done, telling>>
        /\ \/ coordinator = "join" /\ coordinator' = "drain"
           \/ coordinator = "release" /\ coordinator' = "done"
    BY <1>1, <1>7 DEF JoinWorker, Release, gen_vars, work_vars, tasks, client_vars
  <2>2. /\ Has(told, Terminal) <=> Has(told, Terminal)'
        /\ Has(voiced, Terminal) <=> Has(voiced, Terminal)'
        /\ WorkerSaid <=> WorkerSaid'
    BY <2>1 DEF Has, WorkerSaid, Telling
  <2> QED
    BY <2>1, <2>2 DEF VerdictInv
<1> QED
  BY <1>2, <1>3, <1>4, <1>5, <1>6, <1>7 DEF Coordinator

\* A step that moves no event and no flag of the promise.
LEMMA StillKept ==
  ASSUME VerdictInv,
         UNCHANGED <<cancelled, generator, generated, turn_queue, coordinator, telling,
                     source_open, generation_done, worker, voiced, audio_queue, told>>
  PROVE  VerdictInv'
BY DEF VerdictInv, WorkerSaid, GeneratorSaid, Has, Telling

LEMMA InvKept == Inv /\ [Next]_vars => Inv'
<1> SUFFICES ASSUME Inv, [Next]_vars PROVE Inv'
  OBVIOUS
<1>1. TypeInv'
  BY TypeKept DEF Inv
<1> SUFFICES ASSUME Listening' PROVE VerdictInv'
  BY <1>1 DEF Inv
<1>2. Listening
  <2>1. client' = client \/ client' = "gone"
    BY DEF Next, vars, Provider, Generator, Coordinator, Worker, HearGenerator, HearWorker, Told,
           Tell, NotTold, JoinWorker, Conclude, Release, CancelTurn, ClientReads, ClientLeaves,
           client_vars
  <2>2. (asked' = asked) \/ asked'
    BY DEF Next, vars, Provider, Generator, Coordinator, Worker, HearGenerator, HearWorker, Told,
           NotTold, JoinWorker, Conclude, Release, CancelTurn, ClientReads, ClientLeaves,
           Follow, tasks
  <2> QED
    BY <2>1, <2>2 DEF Listening
<1>3. TypeInv /\ VerdictInv
  BY <1>2 DEF Inv
<1>4. CASE Generator
  BY <1>2, <1>3, <1>4, GeneratorKeeps
<1>5. CASE Worker
  BY <1>2, <1>3, <1>5, WorkerKeeps
<1>6. CASE Coordinator
  BY <1>2, <1>3, <1>6, CoordinatorKeeps
<1>7. CASE CancelTurn \/ ClientLeaves
  BY <1>7 DEF CancelTurn, ClientLeaves, Listening
<1>8. CASE Provider
  BY <1>3, <1>8, StillKept DEF Provider, tasks, gen_vars, coord_vars, work_vars, client_vars
<1>9. CASE ClientReads
  BY <1>3, <1>9, StillKept DEF ClientReads, tasks, gen_vars, coord_vars, work_vars
<1>10. CASE UNCHANGED vars
  BY <1>3, <1>10, StillKept DEF vars, tasks, gen_vars, coord_vars, work_vars, client_vars
<1> QED
  BY <1>4, <1>5, <1>6, <1>7, <1>8, <1>9, <1>10 DEF Next

\* A client that stays and does not cancel is told how the turn ended, whichever of the
\* tasks failed and whatever of the queues was full: run_live_turn releases the turn
\* only behind a verdict.
THEOREM VerdictIsTold == Spec => []VerdictTold
<1>1. Inv => VerdictTold
  <2> SUFFICES ASSUME Inv, coordinator = "done", client = "reading", ~asked
               PROVE  \E i \in DOMAIN told : told[i].type \in Terminal
    BY DEF VerdictTold
  <2>1. Has(told, Terminal)
    BY DEF Inv, Listening, VerdictInv
  <2> QED
    BY <2>1 DEF Has
<1> QED
  BY InvInit, InvKept, <1>1, PTL DEF Spec
-----------------------------------------------------------------------------
(* The turn implements SpokenTurn.  A set of naturals that has 0, and the    *)
(* successor of each of its elements, has them all.                          *)
LEMMA SetInduction ==
  ASSUME NEW S, 0 \in S, \A n \in Nat : n \in S => n + 1 \in S
  PROVE  Nat \subseteq S
<1> SUFFICES ASSUME Nat \ S # {} PROVE FALSE
  OBVIOUS
<1> DEFINE R == OpToRel(<, Nat)
<1>1. IsWellFoundedOn(R, Nat)
  BY NatLessThanWellFounded, Zenon
<1>2. \A x, y \in Nat : x < y => <<x, y>> \in R
  BY DEF OpToRel
<1> HIDE DEF R
<1>3. PICK x \in Nat \ S : \A y \in Nat \ S : <<y, x>> \notin R
  BY <1>1, WFMin
<1>4. x # 0 /\ x - 1 \in Nat /\ x - 1 < x
  OBVIOUS
<1>5. x - 1 \in S
  BY <1>2, <1>3, <1>4
<1> QED
  BY <1>4, <1>5

\* Concatenation under a name of its own, for the provers to see nothing in it but these
\* facts.
Cat(a, b) == a \o b

LEMMA CatAlways ==
  ASSUME NEW S
  PROVE  /\ << >> \in Seq(S)
         /\ \A a \in Seq(S) : Cat(a, << >>) = a /\ Cat(<< >>, a) = a
         /\ \A a, b \in Seq(S) : Cat(a, b) \in Seq(S)
         /\ \A a, b, c \in Seq(S) : Cat(Cat(a, b), c) = Cat(a, Cat(b, c))
<1> HIDE ConstantsAssumption
<1>1. ASSUME NEW a \in Seq(S), NEW b \in Seq(S), NEW c \in Seq(S)
      PROVE  (a \o b) \o c = a \o (b \o c)
  BY ConcatAssociative
<1>2. ASSUME NEW a \in Seq(S) PROVE a \o << >> = a /\ << >> \o a = a
  BY ConcatEmptySeq
<1>3. ASSUME NEW a \in Seq(S), NEW b \in Seq(S) PROVE a \o b \in Seq(S)
  BY ConcatProperties
<1> QED
  BY <1>1, <1>2, <1>3, EmptySeq DEF Cat

LEMMA CatFacts ==
  /\ << >> \in Seq(Nat)
  /\ \A a \in Seq(Nat) : Cat(a, << >>) = a /\ Cat(<< >>, a) = a
  /\ \A a, b \in Seq(Nat) : Cat(a, b) \in Seq(Nat)
BY CatAlways

LEMMA CatAssociates ==
  \A a, b, c \in Seq(Nat) : Cat(Cat(a, b), c) = Cat(a, Cat(b, c))
BY CatAlways

LEMMA CatOne ==
  /\ \A q \in Seq(Nat), n \in Nat : <<n>> \in Seq(Nat) /\ Append(q, n) = Cat(q, <<n>>)
  /\ \A q \in Seq(Nat) : q # << >> => Cat(<<Head(q)>>, Tail(q)) = q
<1>1. ASSUME NEW q \in Seq(Nat), NEW n \in Nat
      PROVE  <<n>> \in Seq(Nat) /\ Append(q, n) = q \o <<n>>
  BY AppendIsConcat
<1>2. ASSUME NEW q \in Seq(Nat), q # << >> PROVE <<Head(q)>> \o Tail(q) = q
  <2>1. Head(q) \in Nat /\ Tail(q) \in Seq(Nat) /\ Len(Tail(q)) = Len(q) - 1
        /\ Len(q) \in Nat \ {0} /\ \A i \in 1 .. Len(q) - 1 : Tail(q)[i] = q[i + 1]
    BY <1>2, HeadTailProperties, EmptySeq
  <2>2. Len(<<Head(q)>> \o Tail(q)) = Len(q)
    BY <2>1
  <2>3. ASSUME NEW i \in 1 .. Len(q) PROVE (<<Head(q)>> \o Tail(q))[i] = q[i]
    BY <2>1
  <2>4. <<Head(q)>> \o Tail(q) \in Seq(Nat)
    BY <2>1
  <2> QED
    BY <2>2, <2>3, <2>4, SeqEqual
<1> QED
  BY <1>1, <1>2 DEF Cat

\* What an event adds to the segments of its type.
Piece(e, type) == IF e.type = type THEN <<e.segment>> ELSE << >>

LEMMA PieceType == \A e \in Events : \A type : Piece(e, type) \in Seq(Nat)
<1>1. \A e \in Events : e.segment \in Nat
  BY DEF Events
<1> QED
  BY <1>1, CatOne, EmptySeq DEF Piece

\* What is selected of q up to each of its events.
Selects(u, q, type, m) ==
  u = [n \in 0 .. m |->
         IF n = 0 THEN << >>
         ELSE IF q[n].type = type THEN Append(u[n - 1], q[n].segment) ELSE u[n - 1]]

LEMMA SelectsExists ==
  ASSUME NEW q, NEW type, NEW m \in Nat PROVE \E u : Selects(u, q, type, m)
<1> DEFINE S == {k \in Nat : \E u : Selects(u, q, type, k)}
           Next1(x, n) == IF q[n].type = type THEN Append(x, q[n].segment) ELSE x
<1>1. 0 \in S
  <2>1. Selects([n \in 0 .. 0 |-> << >>], q, type, 0)
    BY DEF Selects
  <2> QED
    BY <2>1
<1>2. ASSUME NEW k \in Nat, k \in S PROVE k + 1 \in S
  <2>1. PICK u : Selects(u, q, type, k)
    BY <1>2
  <2> DEFINE v == [n \in 0 .. k + 1 |-> IF n = k + 1 THEN Next1(u[k], k + 1) ELSE u[n]]
  <2>2. u[0] = << >> /\ \A n \in 1 .. k : u[n] = Next1(u[n - 1], n)
    <3>1. \A n \in 0 .. k : u[n] = IF n = 0 THEN << >> ELSE Next1(u[n - 1], n)
      BY <2>1 DEF Selects
    <3>2. 0 \in 0 .. k /\ \A n \in 1 .. k : n \in 0 .. k /\ n # 0
      OBVIOUS
    <3> HIDE DEF Next1
    <3> QED
      BY <3>1, <3>2, Zenon
  <2> HIDE DEF Next1
  <2>3. \A n \in 0 .. k + 1 : v[n] = IF n = 0 THEN << >> ELSE Next1(v[n - 1], n)
    <3> SUFFICES ASSUME NEW n \in 0 .. k + 1
                 PROVE  v[n] = IF n = 0 THEN << >> ELSE Next1(v[n - 1], n)
      OBVIOUS
    <3>1. CASE n = 0
      BY <2>2, <3>1
    <3>2. CASE n \in 1 .. k
      <4>1. v[n] = u[n] /\ v[n - 1] = u[n - 1] /\ n # 0
        BY <3>2
      <4>2. u[n] = Next1(u[n - 1], n)
        BY <2>2, <3>2
      <4> HIDE DEF v
      <4> QED
        BY <4>1, <4>2
    <3>3. CASE n = k + 1
      <4>1. v[n] = Next1(u[k], n) /\ v[n - 1] = u[k] /\ n # 0
        BY <3>3
      <4> HIDE DEF v
      <4> QED
        BY <4>1
    <3> QED
      BY <3>1, <3>2, <3>3
  <2>4. Selects(v, q, type, k + 1)
    <3>1. v = [n \in 0 .. k + 1 |-> v[n]]
      OBVIOUS
    <3> HIDE DEF v
    <3>2. v = [n \in 0 .. k + 1 |-> IF n = 0 THEN << >> ELSE Next1(v[n - 1], n)]
      BY <2>3, <3>1
    <3> QED
      BY <3>2, Zenon DEF Selects, Next1
  <2> QED
    BY <2>4
<1> HIDE DEF S
<1>3. Nat \subseteq S
  BY <1>1, <1>2, SetInduction
<1> QED
  BY <1>3 DEF S

\* The segments are selected event by event.
LEMMA SegmentsGrow ==
  ASSUME NEW q \in Seq(Events), NEW type
  PROVE  \E u : /\ u[0] = << >>
                /\ \A n \in 0 .. Len(q) : u[n] \in Seq(Nat)
                /\ \A n \in 1 .. Len(q) : u[n] = Cat(u[n - 1], Piece(q[n], type))
                /\ SegmentsIn(q, type) = u[Len(q)]
<1> DEFINE u == CHOOSE u : Selects(u, q, type, Len(q))
<1>0. Len(q) \in Nat /\ \A n \in 1 .. Len(q) : q[n] \in Events /\ q[n].segment \in Nat
  <2>1. Len(q) \in Nat /\ \A n \in 1 .. Len(q) : q[n] \in Events
    OBVIOUS
  <2>2. \A e \in Events : e.segment \in Nat
    BY DEF Events
  <2> QED
    BY <2>1, <2>2
<1>1. Selects(u, q, type, Len(q))
  BY <1>0, SelectsExists
<1>2. SegmentsIn(q, type) = u[Len(q)]
  BY DEF SegmentsIn, Selects
<1> HIDE DEF u
<1> DEFINE Next1(x, n) == IF q[n].type = type THEN Append(x, q[n].segment) ELSE x
<1>3. u[0] = << >> /\ \A n \in 1 .. Len(q) : u[n] = Next1(u[n - 1], n)
  <2>1. \A n \in 0 .. Len(q) : u[n] = IF n = 0 THEN << >> ELSE Next1(u[n - 1], n)
    BY <1>1 DEF Selects
  <2>2. 0 \in 0 .. Len(q) /\ \A n \in 1 .. Len(q) : n \in 0 .. Len(q) /\ n # 0
    BY <1>0
  <2> HIDE DEF Next1
  <2> QED
    BY <2>1, <2>2, Zenon
<1>4. ASSUME NEW n \in 1 .. Len(q), NEW x \in Seq(Nat)
      PROVE  Next1(x, n) \in Seq(Nat) /\ Next1(x, n) = Cat(x, Piece(q[n], type))
  <2>1. CASE q[n].type = type
    BY <1>0, <2>1, CatOne, CatFacts DEF Piece
  <2>2. CASE q[n].type # type
    BY <2>2, CatFacts DEF Piece
  <2> QED
    BY <2>1, <2>2
<1> HIDE DEF Next1
<1> DEFINE T == {n \in Nat : n <= Len(q) => u[n] \in Seq(Nat)}
<1>5. 0 \in T
  BY <1>3, EmptySeq
<1>6. ASSUME NEW n \in Nat, n \in T PROVE n + 1 \in T
  <2> SUFFICES ASSUME n + 1 <= Len(q) PROVE u[n + 1] \in Seq(Nat)
    OBVIOUS
  <2>1. n + 1 \in 1 .. Len(q) /\ (n + 1) - 1 = n /\ u[n] \in Seq(Nat)
    BY <1>0, <1>6
  <2>2. u[n + 1] = Next1(u[n], n + 1)
    BY <1>3, <2>1
  <2> QED
    BY <1>4, <2>1, <2>2
<1> HIDE DEF T
<1>7. Nat \subseteq T
  BY <1>5, <1>6, SetInduction
<1>8. \A n \in 0 .. Len(q) : u[n] \in Seq(Nat)
  BY <1>7 DEF T
<1>9. ASSUME NEW n \in 1 .. Len(q) PROVE u[n] = Cat(u[n - 1], Piece(q[n], type))
  <2>1. n - 1 \in 0 .. Len(q)
    BY <1>0
  <2> QED
    BY <1>3, <1>4, <1>8, <2>1
<1> QED
  BY <1>2, <1>3, <1>8, <1>9

LEMMA SegmentsTyped ==
  ASSUME NEW q \in Seq(Events), NEW type
  PROVE  SegmentsIn(q, type) \in Seq(Nat)
<1>1. PICK u : /\ u[0] = << >>
               /\ \A n \in 0 .. Len(q) : u[n] \in Seq(Nat)
               /\ \A n \in 1 .. Len(q) : u[n] = Cat(u[n - 1], Piece(q[n], type))
               /\ SegmentsIn(q, type) = u[Len(q)]
  BY SegmentsGrow
<1>2. Len(q) \in 0 .. Len(q)
  OBVIOUS
<1> QED
  BY <1>1, <1>2

LEMMA SegmentsNone == \A type : SegmentsIn(<< >>, type) = << >>
<1> SUFFICES ASSUME NEW type PROVE SegmentsIn(<< >>, type) = << >>
  OBVIOUS
<1> DEFINE q == << >>
<1>1. q \in Seq(Events) /\ Len(q) = 0
  OBVIOUS
<1> HIDE DEF q
<1>2. PICK u : /\ u[0] = << >>
               /\ \A n \in 0 .. Len(q) : u[n] \in Seq(Nat)
               /\ \A n \in 1 .. Len(q) : u[n] = Cat(u[n - 1], Piece(q[n], type))
               /\ SegmentsIn(q, type) = u[Len(q)]
  BY <1>1, SegmentsGrow
<1> QED
  BY <1>1, <1>2 DEF q

\* Behind an event more.
LEMMA SegmentsAppend ==
  ASSUME NEW q \in Seq(Events), NEW e \in Events, NEW type
  PROVE  SegmentsIn(Append(q, e), type) = Cat(SegmentsIn(q, type), Piece(e, type))
<1> DEFINE p == Append(q, e)
<1>0. /\ p \in Seq(Events) /\ Len(q) \in Nat /\ Len(p) = Len(q) + 1 /\ p[Len(q) + 1] = e
      /\ \A i \in 1 .. Len(q) : p[i] = q[i]
  BY AppendProperties
<1> HIDE DEF p
<1>1. PICK u : /\ u[0] = << >>
               /\ \A n \in 0 .. Len(q) : u[n] \in Seq(Nat)
               /\ \A n \in 1 .. Len(q) : u[n] = Cat(u[n - 1], Piece(q[n], type))
               /\ SegmentsIn(q, type) = u[Len(q)]
  BY SegmentsGrow
<1>2. PICK v : /\ v[0] = << >>
               /\ \A n \in 0 .. Len(p) : v[n] \in Seq(Nat)
               /\ \A n \in 1 .. Len(p) : v[n] = Cat(v[n - 1], Piece(p[n], type))
               /\ SegmentsIn(p, type) = v[Len(p)]
  BY <1>0, SegmentsGrow
<1> DEFINE T == {n \in Nat : n <= Len(q) => v[n] = u[n]}
<1>3. 0 \in T
  BY <1>1, <1>2
<1>4. ASSUME NEW n \in Nat, n \in T PROVE n + 1 \in T
  <2> SUFFICES ASSUME n + 1 <= Len(q) PROVE v[n + 1] = u[n + 1]
    OBVIOUS
  <2>1. /\ n + 1 \in 1 .. Len(q) /\ n + 1 \in 1 .. Len(p) /\ (n + 1) - 1 = n
        /\ v[n] = u[n] /\ p[n + 1] = q[n + 1]
    BY <1>0, <1>4
  <2>2. u[n + 1] = Cat(u[n], Piece(q[n + 1], type)) /\ v[n + 1] = Cat(v[n], Piece(p[n + 1], type))
    BY <1>1, <1>2, <2>1
  <2> QED
    BY <2>1, <2>2
<1> HIDE DEF T
<1>5. Nat \subseteq T
  BY <1>3, <1>4, SetInduction
<1>6. v[Len(q)] = u[Len(q)]
  BY <1>0, <1>5 DEF T
<1>7. Len(p) \in 1 .. Len(p) /\ Len(p) - 1 = Len(q) /\ p[Len(p)] = e
  BY <1>0
<1>8. v[Len(p)] = Cat(v[Len(q)], Piece(e, type))
  BY <1>2, <1>7
<1> QED
  BY <1>1, <1>2, <1>6, <1>8 DEF p

\* Before the others.
LEMMA SegmentsHead ==
  ASSUME NEW q \in Seq(Events), q # << >>, NEW type
  PROVE  SegmentsIn(q, type) = Cat(Piece(Head(q), type), SegmentsIn(Tail(q), type))
<1> DEFINE p == Tail(q)
           e == Head(q)
           h == Piece(e, type)
<1>0. /\ p \in Seq(Events) /\ Len(q) \in Nat /\ Len(p) = Len(q) - 1 /\ Len(p) \in Nat
      /\ q[1] = e /\ e \in Events /\ \A i \in 1 .. Len(p) : p[i] = q[i + 1]
  <2>1. Tail(q) \in Seq(Events) /\ Len(Tail(q)) = Len(q) - 1
        /\ \A i \in 1 .. Len(q) - 1 : Tail(q)[i] = q[i + 1]
    BY HeadTailProperties
  <2>2. Len(q) \in Nat \ {0}
    BY EmptySeq
  <2>3. Head(q) = q[1] /\ Head(q) \in Events
    BY <2>2
  <2> QED
    BY <2>1, <2>2, <2>3
<1>01. h \in Seq(Nat)
  BY <1>0, PieceType
<1> HIDE DEF p, e
<1>1. PICK u : /\ u[0] = << >>
               /\ \A n \in 0 .. Len(q) : u[n] \in Seq(Nat)
               /\ \A n \in 1 .. Len(q) : u[n] = Cat(u[n - 1], Piece(q[n], type))
               /\ SegmentsIn(q, type) = u[Len(q)]
  BY SegmentsGrow
<1>2. PICK v : /\ v[0] = << >>
               /\ \A n \in 0 .. Len(p) : v[n] \in Seq(Nat)
               /\ \A n \in 1 .. Len(p) : v[n] = Cat(v[n - 1], Piece(p[n], type))
               /\ SegmentsIn(p, type) = v[Len(p)]
  BY <1>0, SegmentsGrow
<1> DEFINE T == {n \in Nat : n <= Len(p) => u[n + 1] = Cat(h, v[n])}
<1>3. 0 \in T
  <2>1. 1 \in 1 .. Len(q) /\ 0 + 1 = 1 /\ 1 - 1 = 0
    BY <1>0
  <2>2. u[1] = Cat(u[0], h)
    BY <1>0, <1>1, <2>1
  <2>3. Cat(<< >>, h) = h /\ Cat(h, << >>) = h
    BY <1>01, CatFacts
  <2> QED
    BY <1>1, <1>2, <2>1, <2>2, <2>3
<1> HIDE DEF h
<1>4. ASSUME NEW n \in Nat, n \in T PROVE n + 1 \in T
  <2> SUFFICES ASSUME n + 1 <= Len(p) PROVE u[(n + 1) + 1] = Cat(h, v[n + 1])
    OBVIOUS
  <2> DEFINE x == Piece(p[n + 1], type)
  <2>1. /\ (n + 1) + 1 \in 1 .. Len(q) /\ n + 1 \in 1 .. Len(p) /\ (n + 1) - 1 = n
        /\ ((n + 1) + 1) - 1 = n + 1 /\ n \in 0 .. Len(p)
        /\ u[n + 1] = Cat(h, v[n]) /\ q[(n + 1) + 1] = p[n + 1]
    BY <1>0, <1>4
  <2>2. u[(n + 1) + 1] = Cat(u[n + 1], x) /\ v[n + 1] = Cat(v[n], x)
    BY <1>1, <1>2, <2>1
  <2>3. p[n + 1] \in Events
    BY <1>0, <2>1
  <2>4. x \in Seq(Nat) /\ v[n] \in Seq(Nat)
    BY <1>2, <2>1, <2>3, PieceType
  <2> HIDE DEF x
  <2>5. Cat(Cat(h, v[n]), x) = Cat(h, Cat(v[n], x))
    BY <1>01, <2>4, CatAssociates
  <2> QED
    BY <2>1, <2>2, <2>5
<1> HIDE DEF T
<1>5. Nat \subseteq T
  BY <1>3, <1>4, SetInduction
<1>6. u[Len(p) + 1] = Cat(h, v[Len(p)]) /\ Len(p) + 1 = Len(q)
  BY <1>0, <1>5 DEF T
<1> QED
  BY <1>1, <1>2, <1>6 DEF p, e, h

LEMMA SegmentsFew ==
  ASSUME NEW e \in Events, NEW f \in Events, NEW type
  PROVE  SegmentsIn(<<e, f>>, type) = Cat(Piece(e, type), Piece(f, type))
<1> DEFINE none == << >>
           one == <<e>>
           both == <<e, f>>
<1>1. /\ one = Append(none, e) /\ both = Append(one, f)
      /\ none \in Seq(Events) /\ one \in Seq(Events)
  OBVIOUS
<1>2. SegmentsIn(none, type) = << >>
  BY SegmentsNone
<1> HIDE DEF none, one, both
<1>3. SegmentsIn(one, type) = Cat(<< >>, Piece(e, type))
  BY <1>1, <1>2, SegmentsAppend
<1>4. SegmentsIn(both, type) = Cat(SegmentsIn(one, type), Piece(f, type))
  BY <1>1, SegmentsAppend
<1>5. Cat(<< >>, Piece(e, type)) = Piece(e, type)
  BY PieceType, CatFacts
<1> QED
  BY <1>3, <1>4, <1>5 DEF both
-----------------------------------------------------------------------------
\* What a task can put into its queue.
GenEvents ==
  {e \in Events :
     /\ e.type \in {"SessionStarted", "PartialHypothesis", "CommittedSegment", "TextCompleted",
                    "Cancelled", "Error"}
     /\ e.type = "CommittedSegment" => e.segment \in 1 .. MaxSegments}
WorkEvents ==
  {e \in Events : e.type \in {"OutputRequested", "OutputStarted", "AudioChunk",
                              "OutputFinished", "Error"}}

\* The tasks of the turn: a worker that is done without a cancellation has no queue left
\* to read, and the coordinator does not send from it before it is done.
TaskInv ==
  /\ generated \in Seq(GenEvents) /\ turn_queue \in Seq(GenEvents)
  /\ voiced \in Seq(WorkEvents) /\ audio_queue \in Seq(WorkEvents)
  /\ worker \in {"recv", "busy", "failed", "done"}
  /\ worker = "done" => voiced = << >>
  /\ worker = "done" /\ ~cancelled => ~SynthesisOpen
  /\ coordinator \in {"drain", "verdict", "release", "done"} => worker = "done"

\* What the coordinator tells: text only while its source is open, and completed last.
TellInv ==
  /\ Telling({"CommittedSegment", "TextCompleted"}) => SynthesisOpen
  /\ Telling({"CommittedSegment"}) => telling.segment \in 1 .. MaxSegments
  /\ Telling({"Completed"}) => coordinator = "verdict"
  /\ coordinator = "verdict" =>
       Telling({"Completed"}) /\ ToldOf("TextCompleted") /\ spoken = committed
  /\ coordinator \in {"release", "done"} => telling = NoEvent
  /\ ToldOf("TextCompleted") => ~source_open
  /\ generation_done => ToldOf("TextCompleted")
  /\ ToldOf("Completed") => coordinator \in {"release", "done"}

\* The segments on their way: spoken, being told, in the worker's queue, not yet sent by
\* the worker, and the rest.
Line(s, t, a, v, r) == Cat(s, Cat(t, Cat(a, Cat(v, r))))
Chunk == "AudioChunk"
InHand == IF telling = NoEvent THEN << >> ELSE Piece(telling, Chunk)
InQueue == SegmentsIn(audio_queue, Chunk)
InVoice == SegmentsIn(voiced, Chunk)
Pending == IF worker = "busy" THEN Cat(<<speaking>>, synthesis_queue) ELSE synthesis_queue

\* A worker that works has all of the rest before it, and one that is done without a
\* cancellation has left none.
Owed(rest) ==
  /\ worker \in {"recv", "busy"} => rest = Pending
  /\ worker = "done" /\ ~cancelled => rest = << >>

SpeechInv ==
  \E rest \in Seq(Nat) :
    committed = Line(spoken, InHand, InQueue, InVoice, rest) /\ Owed(rest)

OrderInv ==
  TypeInv /\ TaskInv /\ (client = "reading" => TellInv /\ SpeechInv)

LEMMA GenMade ==
  /\ \A type \in {"SessionStarted", "PartialHypothesis", "TextCompleted", "Cancelled", "Error"} :
       Event(type) \in GenEvents
  /\ \A s \in 1 .. MaxSegments : Of("CommittedSegment", s) \in GenEvents
<1>1. \A s \in 1 .. MaxSegments : s \in Nat
  OBVIOUS
<1>2. \A s : Of("CommittedSegment", s).segment = s
  BY DEF Of
<1> QED
  BY <1>1, <1>2, Made DEF GenEvents

LEMMA WorkMade ==
  /\ Event("Error") \in WorkEvents
  /\ \A type \in {"OutputRequested", "OutputStarted", "AudioChunk", "OutputFinished"}, s \in Nat :
       Of(type, s) \in WorkEvents
BY Made DEF WorkEvents

LEMMA SegmentsFit ==
  ASSUME segment_id \in Nat, NEW n \in Nat, segment_id + n <= MaxSegments
  PROVE  Segments(n) \in Seq(GenEvents)
<1>1. \A i \in 1 .. n : segment_id + i \in 1 .. MaxSegments
  OBVIOUS
<1>2. \A i \in 1 .. n : Of("CommittedSegment", segment_id + i) \in GenEvents
  BY <1>1, GenMade
<1> QED
  BY <1>2 DEF Segments

\* Queues of any kind of event.
LEMMA QueueKept ==
  ASSUME NEW K, NEW q \in Seq(K), q # << >>
  PROVE  Head(q) \in K /\ Tail(q) \in Seq(K) /\ \A p \in Seq(K) : Append(p, Head(q)) \in Seq(K)
OBVIOUS

LEMMA OrderInit == Init => OrderInv
<1> SUFFICES ASSUME Init PROVE OrderInv
  OBVIOUS
<1>1. TypeInv
  BY InvInit DEF Inv
<1>2. TaskInv
  <2>1. Event("SessionStarted") \in GenEvents
    BY GenMade
  <2>2. <<Event("SessionStarted")>> \in Seq(GenEvents) /\ << >> \in Seq(GenEvents)
        /\ << >> \in Seq(WorkEvents)
    BY <2>1
  <2> QED
    BY <2>2 DEF Init, TaskInv
<1>3. TellInv
  BY DEF Init, TellInv, Telling, ToldOf
<1>4. SpeechInv
  <2>1. /\ committed = << >> /\ spoken = << >> /\ InHand = << >> /\ InQueue = << >>
        /\ InVoice = << >> /\ Pending = << >> /\ worker = "recv"
    <3>1. /\ told = << >> /\ telling = NoEvent /\ audio_queue = << >> /\ voiced = << >>
          /\ worker = "recv" /\ synthesis_queue = << >>
      BY DEF Init
    <3>2. /\ committed = << >> /\ spoken = << >> /\ InQueue = << >> /\ InVoice = << >>
      BY <3>1, SegmentsNone, Zenon DEF committed, spoken, InQueue, InVoice
    <3> QED
      BY <3>1, <3>2 DEF InHand, Pending
  <2>2. << >> \in Seq(Nat) /\ Line(<< >>, << >>, << >>, << >>, << >>) = << >>
    BY CatFacts DEF Line
  <2>3. Owed(<< >>)
    BY <2>1 DEF Owed
  <2> QED
    BY <2>1, <2>2, <2>3 DEF SpeechInv
<1> QED
  BY <1>1, <1>2, <1>3, <1>4 DEF OrderInv

-----------------------------------------------------------------------------
\* What the coordinator does to the tasks' invariant: it closes the worker's queue and
\* never opens it, and drains only when the worker is done.
LEMMA NoReopening ==
  ASSUME Coordinator, TypeInv
  PROVE  /\ SynthesisOpen' => SynthesisOpen
         /\ coordinator' \in {"drain", "verdict", "release", "done"} =>
              coordinator \in {"drain", "verdict", "release", "done"} \/ worker = "done"
<1>1. CASE HearGenerator
  BY <1>1 DEF HearGenerator, NextPass, SynthesisOpen
<1>2. CASE HearWorker
  BY <1>2 DEF HearWorker, NextPass, SynthesisOpen
<1>3. CASE Told
  BY <1>3 DEF Told, Follow, NextPass, SynthesisOpen
<1>4. CASE NotTold
  BY <1>4 DEF NotTold, Follow, NextPass, SynthesisOpen
<1>5. CASE JoinWorker \/ Conclude \/ Release
  BY <1>5 DEF JoinWorker, Conclude, Release, SynthesisOpen
<1> QED
  BY <1>1, <1>2, <1>3, <1>4, <1>5 DEF Coordinator

\* Nobody takes a cancellation back.
LEMMA CancelledStays ==
  ASSUME [Next]_vars, cancelled PROVE cancelled'
<1>1. CASE Generator
  <2>1. CASE GeneratorSends
    BY <2>1 DEF GeneratorSends
  <2>2. CASE OpenProvider \/ TakeToken \/ SourceEnds \/ JoinProvider
    BY <2>2 DEF OpenProvider, TakeToken, SourceEnds, JoinProvider
  <2> QED
    BY <1>1, <2>1, <2>2 DEF Generator
<1>2. CASE Coordinator
  <2>1. CASE NotTold
    BY <2>1 DEF NotTold, tasks
  <2>2. CASE HearGenerator \/ HearWorker \/ Told \/ JoinWorker \/ Conclude \/ Release
    BY <2>2 DEF HearGenerator, HearWorker, Told, JoinWorker, Conclude, Release, tasks
  <2> QED
    BY <1>2, <2>1, <2>2 DEF Coordinator
<1>3. CASE Worker
  BY <1>3 DEF Worker, TakeSegment, WorkerSends, Synthesize, GiveUp
<1>4. CASE Provider \/ CancelTurn \/ ClientReads \/ ClientLeaves \/ UNCHANGED vars
  BY <1>4 DEF Provider, CancelTurn, ClientReads, ClientLeaves, vars, tasks
<1> QED
  BY <1>1, <1>2, <1>3, <1>4 DEF Next

LEMMA TaskKept == TypeInv /\ TaskInv /\ [Next]_vars => TaskInv'
<1> SUFFICES ASSUME TypeInv, TaskInv, [Next]_vars PROVE TaskInv'
  OBVIOUS
<1>1. CASE Provider
  BY <1>1 DEF Provider, TaskInv, SynthesisOpen, tasks, gen_vars, coord_vars, work_vars
<1>2. CASE Generator
  <2>1. /\ UNCHANGED <<coordinator, source_open, worker, voiced, audio_queue>>
        /\ cancelled => cancelled'
    BY <1>2, CancelledStays DEF Generator, coord_vars, work_vars
  <2>2. generated' \in Seq(GenEvents) /\ turn_queue' \in Seq(GenEvents)
    <3> USE DEF TypeInv, TaskInv
    <3>1. CASE GeneratorSends
      <4>1. /\ Tail(generated) \in Seq(GenEvents)
            /\ Append(turn_queue, Head(generated)) \in Seq(GenEvents)
        BY <3>1, QueueKept DEF GeneratorSends
      <4>2. << >> \in Seq(GenEvents)
        BY EmptySeq
      <4> QED
        BY <3>1, <4>1, <4>2 DEF GeneratorSends
    <3>2. CASE OpenProvider
      <4>1. Event("Error") \in GenEvents
        BY GenMade
      <4>2. <<Event("Error")>> \in Seq(GenEvents)
        BY <4>1
      <4>3. turn_queue' = turn_queue /\ generated' \in {generated, <<Event("Error")>>}
        BY <3>2 DEF OpenProvider
      <4> QED
        BY <4>2, <4>3
    <3>3. CASE TakeToken
      <4>1. ASSUME NEW n \in 0 .. MaxSegments - segment_id
            PROVE  <<Event("PartialHypothesis")>> \o Segments(n) \in Seq(GenEvents)
        <5>1. n \in Nat /\ segment_id + n <= MaxSegments
          OBVIOUS
        <5>2. Segments(n) \in Seq(GenEvents)
          BY <5>1, SegmentsFit
        <5>3. Event("PartialHypothesis") \in GenEvents
          BY GenMade
        <5>4. <<Event("PartialHypothesis")>> \in Seq(GenEvents)
          BY <5>3
        <5> QED
          BY <5>2, <5>4, ConcatProperties, Zenon
      <4> QED
        BY <3>3, <4>1 DEF TakeToken
    <3>4. CASE SourceEnds
      BY <3>4 DEF SourceEnds
    <3>5. CASE JoinProvider
      <4>1. /\ Event("Cancelled") \in GenEvents /\ Event("Error") \in GenEvents
            /\ Event("TextCompleted") \in GenEvents
        BY GenMade
      <4>2. <<Event("Cancelled")>> \in Seq(GenEvents) /\ <<Event("Error")>> \in Seq(GenEvents)
        BY <4>1
      <4>3. ASSUME NEW n \in {0, 1}, segment_id + n <= MaxSegments
            PROVE  Append(Segments(n), Event("TextCompleted")) \in Seq(GenEvents)
        <5>1. Segments(n) \in Seq(GenEvents)
          BY <4>3, SegmentsFit
        <5> QED
          BY <4>1, <5>1
      <4>4. turn_queue' = turn_queue
        BY <3>5 DEF JoinProvider
      <4>5. CASE cancelled \/ provider = "failed"
        BY <3>5, <4>2, <4>4, <4>5 DEF JoinProvider
      <4>6. CASE ~cancelled /\ provider # "failed"
        <5>1. PICK n \in {0, 1} : /\ segment_id + n <= MaxSegments
                                 /\ generated' = Append(Segments(n), Event("TextCompleted"))
          BY <3>5, <4>6 DEF JoinProvider
        <5> QED
          BY <4>3, <4>4, <5>1
      <4> QED
        BY <4>5, <4>6
    <3> QED
      BY <1>2, <3>1, <3>2, <3>3, <3>4, <3>5 DEF Generator
  <2> QED
    BY <2>1, <2>2 DEF TaskInv, SynthesisOpen
<1>3. CASE Coordinator
  <2>1. /\ UNCHANGED <<generated, worker, voiced>>
        /\ cancelled => cancelled'
    BY <1>3, CancelledStays DEF Coordinator, gen_vars, work_vars
  <2>2. turn_queue' \in Seq(GenEvents) /\ audio_queue' \in Seq(WorkEvents)
    <3>1. turn_queue # << >> => Tail(turn_queue) \in Seq(GenEvents)
      BY QueueKept DEF TaskInv
    <3>2. audio_queue # << >> => Tail(audio_queue) \in Seq(WorkEvents)
      BY QueueKept DEF TaskInv
    <3> QED
      BY <1>3, <3>1, <3>2 DEF TaskInv, Coordinator, HearGenerator, HearWorker, Told, NotTold,
                               JoinWorker, Conclude, Release
  <2> QED
    BY <1>3, <2>1, <2>2, NoReopening DEF TaskInv
<1>4. CASE Worker
  <2>1. UNCHANGED <<generated, turn_queue, coordinator, source_open>>
    BY <1>4 DEF Worker, gen_vars, coord_vars
  <2>2. /\ voiced' \in Seq(WorkEvents) /\ audio_queue' \in Seq(WorkEvents)
        /\ worker' \in {"recv", "busy", "failed", "done"}
        /\ worker' = "done" => voiced' = << >>
        /\ worker' = "done" /\ ~cancelled' => ~SynthesisOpen
        /\ worker = "done" => worker' = "done"
    <3> USE DEF TaskInv
    <3>1. CASE TakeSegment
      <4>1. \A n \in Nat : <<Of("OutputRequested", n), Of("OutputStarted", n)>> \in Seq(WorkEvents)
        <5>1. \A n \in Nat : /\ Of("OutputRequested", n) \in WorkEvents
                             /\ Of("OutputStarted", n) \in WorkEvents
          BY WorkMade
        <5> QED
          BY <5>1
      <4>2. synthesis_queue # << >> => Head(synthesis_queue) \in Nat
        BY HeadOfNats DEF TypeInv
      <4> QED
        BY <3>1, <4>1, <4>2 DEF TakeSegment
    <3>2. CASE WorkerSends
      <4>1. /\ Tail(voiced) \in Seq(WorkEvents)
            /\ Append(audio_queue, Head(voiced)) \in Seq(WorkEvents)
        BY <3>2, QueueKept DEF WorkerSends
      <4> QED
        BY <3>2, <4>1 DEF WorkerSends
    <3>3. CASE Synthesize
      <4>1. /\ Of("AudioChunk", speaking) \in WorkEvents /\ Event("Error") \in WorkEvents
            /\ Of("OutputFinished", speaking) \in WorkEvents
        BY WorkMade DEF TypeInv
      <4>2. /\ <<Of("AudioChunk", speaking), Of("OutputFinished", speaking)>> \in Seq(WorkEvents)
            /\ <<Event("Error")>> \in Seq(WorkEvents)
        BY <4>1
      <4> QED
        BY <3>3, <4>2 DEF Synthesize
    <3>4. CASE GiveUp
      BY <3>4 DEF GiveUp
    <3> QED
      BY <1>4, <3>1, <3>2, <3>3, <3>4 DEF Worker
  <2> QED
    BY <2>1, <2>2 DEF TaskInv, SynthesisOpen
<1>5. CASE CancelTurn
  BY <1>5 DEF CancelTurn, TaskInv, SynthesisOpen, gen_vars, coord_vars, work_vars
<1>6. CASE ClientReads \/ ClientLeaves
  BY <1>6 DEF ClientReads, ClientLeaves, TaskInv, SynthesisOpen, tasks, gen_vars, coord_vars,
              work_vars
<1>7. CASE UNCHANGED vars
  BY <1>7 DEF vars, TaskInv, SynthesisOpen, tasks, gen_vars, coord_vars, work_vars
<1> QED
  BY <1>1, <1>2, <1>3, <1>4, <1>5, <1>6, <1>7 DEF Next
-----------------------------------------------------------------------------
\* How segments move along the line, and how one joins it.
\* The parts are bound by one operator, for a prover to see at once what to apply these
\* facts to.
Parts(s, t, a, v, r, p) ==
  /\ s \in Seq(Nat) /\ t \in Seq(Nat) /\ a \in Seq(Nat) /\ v \in Seq(Nat) /\ r \in Seq(Nat)
  /\ p \in Seq(Nat)

LEMMA LineSent ==
  \A s, t, a, v, r, p :
    Parts(s, t, a, v, r, p) => Line(s, t, a, Cat(p, v), r) = Line(s, t, Cat(a, p), v, r)
<1> SUFFICES ASSUME NEW s \in Seq(Nat), NEW t \in Seq(Nat), NEW a \in Seq(Nat),
                    NEW v \in Seq(Nat), NEW r \in Seq(Nat), NEW p \in Seq(Nat)
             PROVE  Cat(a, Cat(Cat(p, v), r)) = Cat(Cat(a, p), Cat(v, r))
  BY DEF Line, Parts
<1>1. Cat(v, r) \in Seq(Nat) /\ Cat(Cat(p, v), r) = Cat(p, Cat(v, r))
  BY CatFacts, CatAssociates
<1> QED
  BY <1>1, CatAssociates

LEMMA LineHeard ==
  \A s, t, a, v, r, p :
    Parts(s, t, a, v, r, p) => Line(s, << >>, Cat(p, a), v, r) = Line(s, p, a, v, r)
<1> SUFFICES ASSUME NEW s \in Seq(Nat), NEW a \in Seq(Nat), NEW v \in Seq(Nat),
                    NEW r \in Seq(Nat), NEW p \in Seq(Nat)
             PROVE  Cat(<< >>, Cat(Cat(p, a), Cat(v, r))) = Cat(p, Cat(a, Cat(v, r)))
  BY DEF Line, Parts
<1>1. /\ Cat(v, r) \in Seq(Nat) /\ Cat(a, Cat(v, r)) \in Seq(Nat)
      /\ Cat(p, Cat(a, Cat(v, r))) \in Seq(Nat)
  BY CatFacts
<1>2. Cat(Cat(p, a), Cat(v, r)) = Cat(p, Cat(a, Cat(v, r)))
  BY <1>1, CatAssociates
<1> QED
  BY <1>1, <1>2, CatFacts

LEMMA LineVoiced ==
  \A s, t, a, v, r, p :
    Parts(s, t, a, v, r, p) => Line(s, t, a, << >>, Cat(p, r)) = Line(s, t, a, p, r)
<1>1. \A r, p \in Seq(Nat) : Cat(<< >>, Cat(p, r)) = Cat(p, r)
  BY CatFacts
<1> QED
  BY <1>1 DEF Line, Parts

LEMMA LineTold ==
  \A s, t, a, v, r, p :
    Parts(s, t, a, v, r, p) => Line(s, t, a, v, r) = Line(Cat(s, t), << >>, a, v, r)
<1> SUFFICES ASSUME NEW s \in Seq(Nat), NEW t \in Seq(Nat), NEW a \in Seq(Nat),
                    NEW v \in Seq(Nat), NEW r \in Seq(Nat)
             PROVE  Cat(s, Cat(t, Cat(a, Cat(v, r)))) =
                      Cat(Cat(s, t), Cat(<< >>, Cat(a, Cat(v, r))))
  BY DEF Line, Parts
<1>1. Cat(v, r) \in Seq(Nat) /\ Cat(a, Cat(v, r)) \in Seq(Nat)
  BY CatFacts
<1>2. Cat(<< >>, Cat(a, Cat(v, r))) = Cat(a, Cat(v, r))
  BY <1>1, CatFacts
<1> QED
  BY <1>1, <1>2, CatAssociates

LEMMA LineJoined ==
  \A s, t, a, v, r, p :
    Parts(s, t, a, v, r, p) => Cat(Line(s, t, a, v, r), p) = Line(s, t, a, v, Cat(r, p))
<1> SUFFICES ASSUME NEW s \in Seq(Nat), NEW t \in Seq(Nat), NEW a \in Seq(Nat),
                    NEW v \in Seq(Nat), NEW r \in Seq(Nat), NEW p \in Seq(Nat)
             PROVE  Cat(Cat(s, Cat(t, Cat(a, Cat(v, r)))), p) =
                      Cat(s, Cat(t, Cat(a, Cat(v, Cat(r, p)))))
  BY DEF Line, Parts
<1>1. PICK vr \in Seq(Nat) : vr = Cat(v, r)
  BY CatFacts
<1>2. PICK avr \in Seq(Nat) : avr = Cat(a, vr)
  BY CatFacts
<1>3. PICK tavr \in Seq(Nat) : tavr = Cat(t, avr)
  BY CatFacts
<1>4. Cat(Cat(v, r), p) = Cat(v, Cat(r, p))
  BY CatAssociates
<1>5. Cat(Cat(a, vr), p) = Cat(a, Cat(vr, p))
  BY CatAssociates
<1>6. Cat(Cat(t, avr), p) = Cat(t, Cat(avr, p))
  BY CatAssociates
<1>7. Cat(Cat(s, tavr), p) = Cat(s, Cat(tavr, p))
  BY CatAssociates
<1> QED
  BY <1>1, <1>2, <1>3, <1>4, <1>5, <1>6, <1>7

LEMMA LineEnds ==
  \A s \in Seq(Nat) : Line(s, << >>, << >>, << >>, << >>) = s
BY CatFacts DEF Line

LEMMA SegmentsOne ==
  ASSUME NEW e \in Events, NEW type
  PROVE  SegmentsIn(<<e>>, type) = Piece(e, type)
<1> DEFINE none == << >>
           one == <<e>>
<1>1. one = Append(none, e) /\ none \in Seq(Events)
  OBVIOUS
<1>2. SegmentsIn(none, type) = << >>
  BY SegmentsNone
<1> HIDE DEF none, one
<1>3. SegmentsIn(one, type) = Cat(<< >>, Piece(e, type))
  BY <1>1, <1>2, SegmentsAppend
<1>4. Cat(<< >>, Piece(e, type)) = Piece(e, type)
  BY PieceType, CatFacts
<1> QED
  BY <1>3, <1>4 DEF one

LEMMA LineTyped ==
  ASSUME TypeInv
  PROVE  /\ spoken \in Seq(Nat) /\ committed \in Seq(Nat) /\ InHand \in Seq(Nat)
         /\ InQueue \in Seq(Nat) /\ InVoice \in Seq(Nat) /\ Pending \in Seq(Nat)
<1>1. /\ told \in Seq(Events) /\ audio_queue \in Seq(Events) /\ voiced \in Seq(Events)
      /\ telling # NoEvent => telling \in Events
      /\ synthesis_queue \in Seq(Nat) /\ speaking \in Nat
  BY DEF TypeInv
<1>2. telling # NoEvent => Piece(telling, Chunk) \in Seq(Nat)
  BY <1>1, PieceType
<1>3. Pending \in Seq(Nat)
  BY <1>1, CatOne, CatFacts DEF Pending
<1>4. InHand \in Seq(Nat)
  BY <1>2, CatFacts DEF InHand
<1>5. /\ spoken \in Seq(Nat) /\ committed \in Seq(Nat) /\ InQueue \in Seq(Nat)
      /\ InVoice \in Seq(Nat)
  BY <1>1, SegmentsTyped DEF spoken, committed, InQueue, InVoice
<1> QED
  BY <1>3, <1>4, <1>5

\* Steps that move no segment.
LEMMA TellStays ==
  ASSUME TellInv, UNCHANGED <<coordinator, telling, source_open, generation_done, told>>
  PROVE  TellInv'
BY DEF TellInv, Telling, ToldOf, SynthesisOpen, spoken, committed

LEMMA SpeechStays ==
  ASSUME SpeechInv, UNCHANGED <<told, audio_queue, voiced, worker, speaking, synthesis_queue>>,
         InHand' = InHand, cancelled => cancelled'
  PROVE  SpeechInv'
<1>1. /\ spoken' = spoken /\ committed' = committed /\ InQueue' = InQueue /\ InVoice' = InVoice
      /\ Pending' = Pending
  BY DEF spoken, committed, InQueue, InVoice, Pending
<1>2. PICK rest \in Seq(Nat) :
        committed = Line(spoken, InHand, InQueue, InVoice, rest) /\ Owed(rest)
  BY DEF SpeechInv
<1>3. Owed(rest)'
  BY <1>1, <1>2 DEF Owed
<1> QED
  BY <1>1, <1>2, <1>3 DEF SpeechInv

\* The worker's steps move a segment from the rest to its own events, and from there to
\* its queue.
LEMMA WorkerSpeaks ==
  ASSUME TypeInv, TaskInv, SpeechInv, Worker PROVE SpeechInv'
<1>1. PICK rest \in Seq(Nat) :
        committed = Line(spoken, InHand, InQueue, InVoice, rest) /\ Owed(rest)
  BY DEF SpeechInv
<1>2. /\ spoken' = spoken /\ committed' = committed /\ InHand' = InHand
  BY DEF Worker, coord_vars, client_vars, spoken, committed, InHand
<1>3. /\ spoken \in Seq(Nat) /\ InHand \in Seq(Nat) /\ InQueue \in Seq(Nat)
      /\ InVoice \in Seq(Nat)
  BY LineTyped
<1>4. voiced = << >> => InVoice = << >>
  BY SegmentsNone, Zenon DEF InVoice
<1> SUFFICES \E r \in Seq(Nat) :
               /\ committed = Line(spoken, InHand, InQueue', InVoice', r)
               /\ Owed(r)'
  BY <1>2 DEF SpeechInv
<1>5. CASE TakeSegment
  <2>1. worker = "recv" /\ voiced = << >> /\ UNCHANGED <<cancelled, audio_queue>>
    BY <1>5 DEF TakeSegment
  <2>2. rest = synthesis_queue /\ InVoice = << >> /\ InQueue' = InQueue
    BY <1>1, <1>4, <2>1 DEF Owed, Pending, InQueue
  <2>3. CASE synthesis_queue # << >> /\ ~cancelled
    <3> DEFINE n == Head(synthesis_queue)
               e == Of("OutputRequested", n)
               f == Of("OutputStarted", n)
    <3>1. /\ synthesis_queue' = Tail(synthesis_queue) /\ speaking' = n /\ worker' = "busy"
          /\ voiced' = <<e, f>>
      BY <1>5, <2>3 DEF TakeSegment
    <3>2. n \in Nat
      BY <2>3, HeadOfNats DEF TypeInv
    <3>3. e \in Events /\ f \in Events /\ Piece(e, Chunk) = << >> /\ Piece(f, Chunk) = << >>
      BY <3>2, Made DEF Piece, Chunk
    <3>4. Cat(<<n>>, Tail(synthesis_queue)) = synthesis_queue
      BY <2>3, CatOne DEF TypeInv
    <3> HIDE DEF n, e, f
    <3>5. InVoice' = << >>
      <4>1. SegmentsIn(<<e, f>>, Chunk) = Cat(Piece(e, Chunk), Piece(f, Chunk))
        BY <3>3, SegmentsFew
      <4> QED
        BY <3>1, <3>3, <4>1, CatFacts DEF InVoice
    <3>6. Pending' = rest
      BY <2>2, <3>1, <3>4 DEF Pending
    <3>7. Owed(rest)'
      BY <3>1, <3>6 DEF Owed
    <3> QED
      BY <1>1, <2>2, <3>5, <3>7
  <2>4. CASE synthesis_queue # << >> /\ cancelled
    <3>1. worker' = "done" /\ voiced' = voiced /\ cancelled'
      BY <1>5, <2>1, <2>4 DEF TakeSegment
    <3>2. Owed(rest)' /\ InVoice' = InVoice
      BY <3>1 DEF Owed, InVoice
    <3> QED
      BY <1>1, <2>2, <3>2
  <2>5. CASE synthesis_queue = << >>
    <3>1. worker' = "done" /\ voiced' = voiced
      BY <1>5, <2>5 DEF TakeSegment
    <3>2. Owed(rest)' /\ InVoice' = InVoice
      BY <2>2, <2>5, <3>1 DEF Owed, InVoice
    <3> QED
      BY <1>1, <2>2, <3>2
  <2> QED
    BY <2>3, <2>4, <2>5
<1>6. CASE WorkerSends
  <2> DEFINE h == Piece(Head(voiced), Chunk)
             v == SegmentsIn(Tail(voiced), Chunk)
  <2>1. /\ voiced # << >> /\ voiced' = Tail(voiced)
        /\ audio_queue' = Append(audio_queue, Head(voiced))
        /\ UNCHANGED <<cancelled, worker, speaking, synthesis_queue>>
    BY <1>6 DEF WorkerSends
  <2>2. /\ voiced \in Seq(Events) /\ audio_queue \in Seq(Events) /\ Head(voiced) \in Events
        /\ Tail(voiced) \in Seq(Events)
    BY <2>1, HasTail DEF TypeInv
  <2>3. InVoice = Cat(h, v)
    BY <2>1, <2>2, SegmentsHead DEF InVoice
  <2>4. InQueue' = Cat(InQueue, h)
    BY <2>1, <2>2, SegmentsAppend DEF InQueue
  <2>5. InVoice' = v
    BY <2>1 DEF InVoice
  <2>6. h \in Seq(Nat) /\ v \in Seq(Nat)
    BY <2>2, PieceType, SegmentsTyped
  <2> HIDE DEF h, v
  <2>7. Line(spoken, InHand, InQueue, Cat(h, v), rest) =
          Line(spoken, InHand, Cat(InQueue, h), v, rest)
    <3>1. Parts(spoken, InHand, InQueue, v, rest, h)
      BY <1>3, <2>6 DEF Parts
    <3> QED
      BY <3>1, LineSent
  <2>8. Owed(rest)'
    BY <1>1, <2>1 DEF Owed, Pending
  <2> QED
    BY <1>1, <2>3, <2>4, <2>5, <2>7, <2>8
<1>7. CASE Synthesize
  <2>1. /\ worker = "busy" /\ InVoice = << >> /\ InQueue' = InQueue
        /\ UNCHANGED <<cancelled, speaking, synthesis_queue>>
    BY <1>4, <1>7 DEF Synthesize, InQueue
  <2>2. rest = Cat(<<speaking>>, synthesis_queue)
    BY <1>1, <2>1 DEF Owed, Pending
  <2>3. speaking \in Nat /\ <<speaking>> \in Seq(Nat) /\ synthesis_queue \in Seq(Nat)
    BY CatOne, CatFacts DEF TypeInv
  <2>4. CASE /\ voiced' = <<Of("AudioChunk", speaking), Of("OutputFinished", speaking)>>
             /\ worker' = "recv"
    <3> DEFINE e == Of("AudioChunk", speaking)
               f == Of("OutputFinished", speaking)
    <3>1. /\ e \in Events /\ f \in Events
          /\ Piece(e, Chunk) = <<speaking>> /\ Piece(f, Chunk) = << >>
      <4>1. e.segment = speaking
        BY DEF Of
      <4> QED
        BY <2>3, <4>1, Made DEF Piece, Chunk
    <3>2. voiced' = <<e, f>>
      BY <2>4
    <3> HIDE DEF e, f
    <3>3. InVoice' = <<speaking>>
      <4>1. SegmentsIn(<<e, f>>, Chunk) = Cat(Piece(e, Chunk), Piece(f, Chunk))
        BY <3>1, SegmentsFew
      <4>2. Cat(<<speaking>>, << >>) = <<speaking>>
        BY <2>3, CatFacts
      <4> QED
        BY <3>1, <3>2, <4>1, <4>2 DEF InVoice
    <3>4. Line(spoken, InHand, InQueue, << >>, rest) =
            Line(spoken, InHand, InQueue, <<speaking>>, synthesis_queue)
      <4>1. Parts(spoken, InHand, InQueue, InVoice, synthesis_queue, <<speaking>>)
        BY <1>3, <2>3 DEF Parts
      <4> QED
        BY <2>2, <4>1, LineVoiced
    <3>5. committed = Line(spoken, InHand, InQueue', InVoice', synthesis_queue)
      BY <1>1, <2>1, <3>3, <3>4
    <3>6. \A r : r = synthesis_queue => Owed(r)'
      BY <2>1, <2>4 DEF Owed, Pending
    <3> QED
      BY <2>3, <3>5, <3>6
  <2>5. CASE cancelled /\ worker' = "done" /\ UNCHANGED voiced
    <3>1. Owed(rest)' /\ InVoice' = InVoice
      BY <2>1, <2>5 DEF Owed, InVoice
    <3> QED
      BY <1>1, <2>1, <3>1
  <2>6. CASE voiced' = <<Event("Error")>> /\ worker' = "failed"
    <3>1. Event("Error") \in Events /\ Piece(Event("Error"), Chunk) = << >>
      BY Made DEF Piece, Chunk
    <3>2. SegmentsIn(<<Event("Error")>>, Chunk) = << >>
      BY <3>1, SegmentsOne
    <3>3. InVoice' = << >>
      BY <2>6, <3>2 DEF InVoice
    <3>4. Owed(rest)'
      BY <2>6 DEF Owed
    <3> QED
      BY <1>1, <2>1, <3>3, <3>4
  <2> QED
    BY <1>7, <2>4, <2>5, <2>6 DEF Synthesize
<1>8. CASE GiveUp
  <2>1. Owed(rest)' /\ InVoice' = InVoice /\ InQueue' = InQueue
    BY <1>8 DEF GiveUp, Owed, InVoice, InQueue
  <2> QED
    BY <1>1, <2>1
<1> QED
  BY <1>5, <1>6, <1>7, <1>8 DEF Worker
-----------------------------------------------------------------------------
\* The coordinator, while the client reads.

\* A pass that is over changes what is open and nothing that was told.
LEMMA PassTells ==
  ASSUME coordinator = "select", coordinator' \in {"select", "join"},
         source_open' => source_open, TellInv, telling' = NoEvent,
         UNCHANGED <<told, generation_done>>
  PROVE  TellInv'
<1>1. coordinator' \in {"select", "join"} /\ (source_open' => source_open)
  OBVIOUS
<1>2. \A type : ToldOf(type)' <=> ToldOf(type)
  BY DEF ToldOf
<1>3. \A T : ~Telling(T)'
  BY DEF Telling
<1>4. ~ToldOf("Completed")
  BY DEF TellInv
<1>5. ToldOf("TextCompleted") => ~source_open'
  BY <1>1 DEF TellInv
<1>6. generation_done' => ToldOf("TextCompleted")
  BY DEF TellInv
<1> QED
  BY <1>1, <1>2, <1>3, <1>4, <1>5, <1>6 DEF TellInv

LEMMA HearGeneratorTells ==
  ASSUME TypeInv, TaskInv, TellInv, SpeechInv, HearGenerator,
         UNCHANGED <<worker, speaking, voiced>>
  PROVE  TellInv' /\ SpeechInv'
<1>1. /\ coordinator = "select" /\ telling = NoEvent /\ source_open
      /\ UNCHANGED <<told, generation_done, audio_queue, synthesis_queue, cancelled>>
  BY DEF HearGenerator, tasks, client_vars
<1>2. CASE turn_queue # << >>
  <2>1. telling' = Head(turn_queue) /\ UNCHANGED <<coordinator, source_open>>
    BY <1>2 DEF HearGenerator
  <2>2. Head(turn_queue) \in GenEvents
    BY <1>2, QueueKept DEF TaskInv
  <2>3. TellInv'
    <3>1. SynthesisOpen'
      BY <1>1, <2>1 DEF SynthesisOpen
    <3>2. Telling({"CommittedSegment"})' => telling'.segment \in 1 .. MaxSegments
      BY <2>1, <2>2 DEF GenEvents, Telling
    <3>3. ~Telling({"Completed"})'
      BY <2>1, <2>2 DEF GenEvents, Telling
    <3>4. \A type : ToldOf(type)' <=> ToldOf(type)
      BY <1>1 DEF ToldOf
    <3> QED
      BY <1>1, <2>1, <3>1, <3>2, <3>3, <3>4 DEF TellInv
  <2>4. InHand' = InHand
    BY <1>1, <2>1, <2>2 DEF GenEvents, InHand, Piece, Chunk
  <2> QED
    BY <1>1, <2>3, <2>4, SpeechStays
<1>3. CASE turn_queue = << >>
  <2>1. coordinator' \in {"select", "join"} /\ ~source_open' /\ telling' = telling
    BY <1>3 DEF HearGenerator, NextPass
  <2>2. TellInv'
    BY <1>1, <2>1, PassTells
  <2>3. InHand' = InHand
    BY <1>1, <2>1 DEF InHand
  <2> QED
    BY <1>1, <2>2, <2>3, SpeechStays
<1> QED
  BY <1>2, <1>3

LEMMA HearWorkerTells ==
  ASSUME TypeInv, TaskInv, TellInv, SpeechInv, HearWorker,
         UNCHANGED <<worker, speaking, voiced>>
  PROVE  TellInv' /\ SpeechInv'
<1>1. /\ coordinator \in {"select", "drain"} /\ telling = NoEvent
      /\ UNCHANGED <<told, generation_done, synthesis_queue, cancelled>>
  BY DEF HearWorker, tasks, client_vars
<1>2. CASE audio_queue # << >>
  <2> DEFINE e == Head(audio_queue)
             h == Piece(e, Chunk)
             a == SegmentsIn(Tail(audio_queue), Chunk)
  <2>1. telling' = e /\ audio_queue' = Tail(audio_queue) /\ UNCHANGED <<coordinator, source_open>>
    BY <1>2 DEF HearWorker
  <2>2. e \in WorkEvents
    BY <1>2, QueueKept DEF TaskInv
  <2>3. /\ audio_queue \in Seq(Events) /\ Tail(audio_queue) \in Seq(Events) /\ e \in Events
        /\ e # NoEvent
    BY <1>2, HasTail DEF TypeInv
  <2>4. TellInv'
    <3>1. ~Telling({"CommittedSegment", "TextCompleted"})' /\ ~Telling({"CommittedSegment"})'
          /\ ~Telling({"Completed"})'
      BY <2>1, <2>2 DEF WorkEvents, Telling
    <3>2. \A type : ToldOf(type)' <=> ToldOf(type)
      BY <1>1 DEF ToldOf
    <3> QED
      BY <1>1, <2>1, <3>1, <3>2 DEF TellInv
  <2>5. InHand = << >> /\ InHand' = h /\ InQueue' = a
    BY <1>1, <2>1, <2>3 DEF InHand, InQueue
  <2>6. InQueue = Cat(h, a)
    BY <1>2, <2>3, SegmentsHead DEF InQueue
  <2>7. h \in Seq(Nat) /\ a \in Seq(Nat)
    BY <2>3, PieceType, SegmentsTyped
  <2> HIDE DEF h, a
  <2>8. PICK rest \in Seq(Nat) :
          committed = Line(spoken, InHand, InQueue, InVoice, rest) /\ Owed(rest)
    BY DEF SpeechInv
  <2>9. spoken \in Seq(Nat) /\ InVoice \in Seq(Nat)
    BY LineTyped
  <2>10. Line(spoken, << >>, Cat(h, a), InVoice, rest) = Line(spoken, h, a, InVoice, rest)
    <3>1. Parts(spoken, InHand, a, InVoice, rest, h)
      BY <2>7, <2>9, LineTyped DEF Parts
    <3> QED
      BY <3>1, LineHeard
  <2>11. /\ spoken' = spoken /\ committed' = committed /\ InVoice' = InVoice /\ Owed(rest)'
    BY <1>1, <2>8 DEF spoken, committed, InVoice, Owed, Pending
  <2>12. SpeechInv'
    BY <2>5, <2>6, <2>8, <2>10, <2>11 DEF SpeechInv
  <2> QED
    BY <2>4, <2>12
<1>3. CASE audio_queue = << >>
  <2>1. /\ coordinator = "select" /\ coordinator' \in {"select", "join"}
        /\ source_open' = source_open /\ telling' = telling /\ audio_queue' = audio_queue
    BY <1>3 DEF HearWorker, NextPass
  <2>2. TellInv'
    BY <1>1, <2>1, PassTells
  <2>3. InHand' = InHand
    BY <1>1, <2>1 DEF InHand
  <2> QED
    BY <1>1, <2>1, <2>2, <2>3, SpeechStays
<1> QED
  BY <1>2, <1>3

\* What the client is told, is told behind the rest.
LEMMA ToldGrows ==
  ASSUME TypeInv, Told
  PROVE  /\ telling \in Events /\ telling # NoEvent /\ told \in Seq(Events)
         /\ \A type \in {"CommittedSegment", "TextCompleted", "AudioChunk", "Completed"} :
              /\ ToldOf(type)' <=> ToldOf(type) \/ telling.type = type
              /\ SegmentsIn(told', type) = Cat(SegmentsIn(told, type), Piece(telling, type))
<1>1. telling \in Events /\ telling # NoEvent /\ told \in Seq(Events)
  BY DEF Told, Tell, TypeInv
<1>2. CASE telling.type \in Quiet
  <2>1. told' = told
    BY <1>2 DEF Told, Tell
  <2>2. \A type : SegmentsIn(told, type) \in Seq(Nat)
    BY <1>1, SegmentsTyped
  <2>3. \A type \in {"CommittedSegment", "TextCompleted", "AudioChunk", "Completed"} :
          telling.type # type
    BY <1>2 DEF Quiet
  <2>4. \A type : Cat(SegmentsIn(told, type), << >>) = SegmentsIn(told, type)
    BY <2>2, CatFacts
  <2>5. \A type : ToldOf(type)' <=> ToldOf(type)
    BY <2>1 DEF ToldOf
  <2> QED
    BY <1>1, <2>1, <2>3, <2>4, <2>5 DEF Piece
<1>3. CASE telling.type \notin Quiet
  <2>1. told' = Append(told, telling)
    BY <1>3 DEF Told, Tell
  <2>2. \A type : SegmentsIn(told', type) = Cat(SegmentsIn(told, type), Piece(telling, type))
    BY <1>1, <2>1, SegmentsAppend
  <2>3. ASSUME NEW type PROVE ToldOf(type)' <=> ToldOf(type) \/ telling.type = type
    <3>1. Has(Append(told, telling), {type}) <=> Has(told, {type}) \/ telling.type \in {type}
      BY <1>1, HasAppend
    <3>2. Has(told', {type}) <=> Has(told, {type}) \/ telling.type = type
      BY <2>1, <3>1
    <3>3. (Has(told', {type}) <=> ToldOf(type)') /\ (Has(told, {type}) <=> ToldOf(type))
      BY DEF Has, ToldOf
    <3> QED
      BY <3>2, <3>3
  <2> QED
    BY <1>1, <2>2, <2>3
<1> QED
  BY <1>2, <1>3

LEMMA ToldTells ==
  ASSUME TypeInv, TellInv, Told PROVE TellInv'
<1>1. /\ telling # NoEvent /\ telling' = NoEvent /\ Follow
      /\ \A type \in {"CommittedSegment", "TextCompleted", "AudioChunk", "Completed"} :
           ToldOf(type)' <=> ToldOf(type) \/ telling.type = type
  BY ToldGrows DEF Told
<1>2. \A T : ~Telling(T)'
  BY <1>1 DEF Telling
<1>3. coordinator' # "verdict" /\ coordinator \notin {"release", "done"}
  BY <1>1 DEF Follow, NextPass, TellInv
<1>4. ToldOf("TextCompleted")' => ~source_open'
  <2>1. CASE telling.type = "TextCompleted"
    <3>1. coordinator = "select"
      BY <1>1, <2>1 DEF TellInv, Telling, SynthesisOpen
    <3> QED
      BY <1>1, <2>1, <3>1 DEF Follow, NextPass
  <2>2. CASE telling.type # "TextCompleted"
    <3>1. source_open' = source_open
      BY <1>1, <2>2 DEF Follow, NextPass
    <3> QED
      BY <1>1, <2>2, <3>1 DEF TellInv
  <2> QED
    BY <2>1, <2>2
<1>5. generation_done' => ToldOf("TextCompleted")'
  <2>1. CASE telling.type = "TextCompleted"
    BY <1>1, <2>1
  <2>2. CASE telling.type # "TextCompleted"
    <3>1. generation_done' = generation_done
      BY <1>1, <2>2 DEF Follow
    <3> QED
      BY <1>1, <3>1 DEF TellInv
  <2> QED
    BY <2>1, <2>2
<1>6. ToldOf("Completed")' => coordinator' \in {"release", "done"}
  <2>1. ~ToldOf("Completed")
    BY <1>3 DEF TellInv
  <2>2. telling.type = "Completed" => coordinator = "verdict"
    BY <1>1 DEF TellInv, Telling
  <2>3. coordinator = "verdict" => coordinator' = "release"
    BY <1>1 DEF Follow
  <2> QED
    BY <1>1, <2>1, <2>2, <2>3
<1> QED
  BY <1>1, <1>2, <1>3, <1>4, <1>5, <1>6 DEF TellInv

\* A segment that is told joins the end of the line, in the worker's queue.
LEMMA RestJoined ==
  ASSUME TypeInv, TaskInv, TellInv, Told, UNCHANGED <<worker, speaking, voiced>>,
         NEW rest \in Seq(Nat), Owed(rest),
         NEW longer, longer = Cat(rest, Piece(telling, "CommittedSegment"))
  PROVE  Owed(longer)'
<1> DEFINE p == Piece(telling, "CommittedSegment")
<1>1. /\ telling \in Events /\ telling # NoEvent /\ Follow /\ UNCHANGED cancelled
  BY ToldGrows DEF Told, tasks
<1>2. telling.segment \in Nat /\ synthesis_queue \in Seq(Nat) /\ speaking \in Nat
  BY <1>1 DEF Events, TypeInv
<1> SUFFICES /\ worker \in {"recv", "busy"} => Cat(rest, p) = Pending'
             /\ worker = "done" /\ ~cancelled => Cat(rest, p) = << >>
  BY <1>1 DEF Owed
<1>3. CASE telling.type # "CommittedSegment"
  <2>1. synthesis_queue' = synthesis_queue
    BY <1>1, <1>3 DEF Follow
  <2>2. Pending' = Pending
    BY <2>1 DEF Pending
  <2>3. p = << >> /\ Cat(rest, << >>) = rest
    BY <1>3, CatFacts DEF Piece
  <2> QED
    BY <2>2, <2>3 DEF Owed
<1>4. CASE telling.type = "CommittedSegment"
  <2>1. p = <<telling.segment>> /\ coordinator = "select" /\ source_open
    BY <1>1, <1>4 DEF Piece, TellInv, Telling, SynthesisOpen
  <2>2. worker = "done" => cancelled
    BY <2>1 DEF TaskInv, SynthesisOpen
  <2>3. ASSUME worker \in {"recv", "busy"} PROVE Cat(rest, p) = Pending'
    <3>1. synthesis_queue' = Append(synthesis_queue, telling.segment)
      BY <1>1, <1>4, <2>1, <2>3 DEF Follow
    <3>2. synthesis_queue' = Cat(synthesis_queue, p)
      BY <1>2, <2>1, <3>1, CatOne
    <3> DEFINE one == <<speaking>>
    <3>3. one \in Seq(Nat) /\ p \in Seq(Nat)
      BY <1>2, <2>1, CatOne
    <3>4. Pending = IF worker = "busy" THEN Cat(one, synthesis_queue) ELSE synthesis_queue
      BY DEF Pending
    <3>5. Pending' = IF worker = "busy" THEN Cat(one, synthesis_queue') ELSE synthesis_queue'
      BY DEF Pending
    <3> HIDE DEF one, p
    <3>6. Cat(Cat(one, synthesis_queue), p) = Cat(one, Cat(synthesis_queue, p))
      BY <1>2, <3>3, CatAssociates
    <3> QED
      BY <2>3, <3>2, <3>4, <3>5, <3>6 DEF Owed
  <2> QED
    BY <2>2, <2>3
<1> QED
  BY <1>3, <1>4

LEMMA ToldSpeaks ==
  ASSUME TypeInv, TaskInv, TellInv, SpeechInv, Told, UNCHANGED <<worker, speaking, voiced>>
  PROVE  SpeechInv'
<1> DEFINE c == Piece(telling, "CommittedSegment")
           t == Piece(telling, Chunk)
<1>1. /\ telling \in Events /\ telling # NoEvent /\ telling' = NoEvent
      /\ UNCHANGED audio_queue
  BY ToldGrows DEF Told
<1>2. PICK rest \in Seq(Nat) :
        committed = Line(spoken, InHand, InQueue, InVoice, rest) /\ Owed(rest)
  BY DEF SpeechInv
<1>3. /\ spoken \in Seq(Nat) /\ InQueue \in Seq(Nat) /\ InVoice \in Seq(Nat)
  BY LineTyped
<1>4. /\ InHand = t /\ InHand' = << >> /\ InQueue' = InQueue /\ InVoice' = InVoice
  BY <1>1 DEF InHand, InQueue, InVoice
<1>5. spoken' = Cat(spoken, t) /\ committed' = Cat(committed, c)
  BY ToldGrows DEF spoken, committed, Chunk
<1>6. c \in Seq(Nat) /\ t \in Seq(Nat)
  BY <1>1, PieceType
<1>7. PICK r \in Seq(Nat) : r = Cat(rest, c)
  BY <1>6, CatFacts
<1>8. Owed(r)'
  BY <1>2, <1>7, RestJoined
<1> HIDE DEF c, t
<1>9. Cat(Line(spoken, t, InQueue, InVoice, rest), c) =
        Line(spoken, t, InQueue, InVoice, Cat(rest, c))
  <2>1. Parts(spoken, t, InQueue, InVoice, rest, c)
    BY <1>3, <1>6 DEF Parts
  <2> QED
    BY <2>1, LineJoined
<1>10. Line(spoken, t, InQueue, InVoice, r) = Line(Cat(spoken, t), << >>, InQueue, InVoice, r)
  <2>1. Parts(spoken, t, InQueue, InVoice, r, c)
    BY <1>3, <1>6 DEF Parts
  <2> QED
    BY <2>1, LineTold
<1>11. committed' = Line(spoken', InHand', InQueue', InVoice', r)
  BY <1>2, <1>4, <1>5, <1>7, <1>9, <1>10
<1> QED
  BY <1>8, <1>11 DEF SpeechInv
\* The turn is completed when nothing is left in the line.
LEMMA AllSpoken ==
  ASSUME TypeInv, TaskInv, SpeechInv, coordinator = "drain", telling = NoEvent,
         audio_queue = << >>, ~cancelled
  PROVE  spoken = committed
<1>1. worker = "done" /\ voiced = << >>
  BY DEF TaskInv
<1>2. InHand = << >> /\ InQueue = << >> /\ InVoice = << >>
  BY <1>1, SegmentsNone, Zenon DEF InHand, InQueue, InVoice
<1>3. PICK rest \in Seq(Nat) :
        committed = Line(spoken, InHand, InQueue, InVoice, rest) /\ Owed(rest)
  BY DEF SpeechInv
<1>4. rest = << >>
  BY <1>1, <1>3 DEF Owed
<1>5. Line(spoken, << >>, << >>, << >>, << >>) = spoken
  BY LineTyped, LineEnds
<1> QED
  BY <1>2, <1>3, <1>4, <1>5

LEMMA ConcludeTells ==
  ASSUME TypeInv, TaskInv, TellInv, SpeechInv, Conclude, UNCHANGED <<worker, speaking, voiced>>
  PROVE  TellInv' /\ SpeechInv'
<1>1. /\ coordinator = "drain" /\ telling = NoEvent /\ audio_queue = << >>
      /\ UNCHANGED <<told, source_open, generation_done, audio_queue, synthesis_queue, cancelled>>
  BY DEF Conclude, tasks, client_vars
<1>2. /\ \A type : ToldOf(type)' <=> ToldOf(type)
      /\ spoken' = spoken /\ committed' = committed
  BY <1>1 DEF ToldOf, spoken, committed
<1>3. ~ToldOf("Completed")
  BY <1>1 DEF TellInv
<1>4. CASE generation_done /\ ~cancelled
  <2>1. telling' = Event("Completed") /\ coordinator' = "verdict"
    BY <1>4 DEF Conclude
  <2>2. Event("Completed").type = "Completed" /\ Event("Completed") # NoEvent
    BY Made
  <2>3. /\ ~Telling({"CommittedSegment", "TextCompleted"})' /\ ~Telling({"CommittedSegment"})'
        /\ Telling({"Completed"})'
    BY <2>1, <2>2 DEF Telling
  <2>4. spoken = committed
    BY <1>1, <1>4, AllSpoken
  <2>5. ToldOf("TextCompleted")
    BY <1>4 DEF TellInv
  <2>6. TellInv'
    BY <1>1, <1>2, <1>3, <2>1, <2>3, <2>4, <2>5 DEF TellInv
  <2>7. InHand' = InHand
    BY <1>1, <2>1, <2>2 DEF InHand, Piece, Chunk
  <2> QED
    BY <1>1, <2>6, <2>7, SpeechStays
<1>5. CASE ~(generation_done /\ ~cancelled)
  <2>1. telling' = telling /\ coordinator' = "release"
    BY <1>5 DEF Conclude
  <2>2. \A T : ~Telling(T)'
    BY <1>1, <2>1 DEF Telling
  <2>3. TellInv'
    BY <1>1, <1>2, <1>3, <2>1, <2>2 DEF TellInv
  <2>4. InHand' = InHand
    BY <1>1, <2>1 DEF InHand
  <2> QED
    BY <1>1, <2>3, <2>4, SpeechStays
<1> QED
  BY <1>4, <1>5

LEMMA OthersTell ==
  ASSUME TellInv, SpeechInv, JoinWorker \/ Release, UNCHANGED <<worker, speaking, voiced>>
  PROVE  TellInv' /\ SpeechInv'
<1>1. /\ UNCHANGED <<told, telling, source_open, generation_done, audio_queue, synthesis_queue>>
      /\ cancelled' = cancelled
      /\ \/ coordinator = "join" /\ coordinator' = "drain"
         \/ coordinator = "release" /\ coordinator' = "done"
  BY DEF JoinWorker, Release, tasks, client_vars
<1>2. InHand' = InHand
  BY <1>1 DEF InHand
<1>3. SpeechInv'
  BY <1>1, <1>2, SpeechStays
<1>4. /\ \A type : ToldOf(type)' <=> ToldOf(type)
      /\ \A T : Telling(T)' <=> Telling(T)
  BY <1>1 DEF ToldOf, Telling
<1>5. ~Telling({"CommittedSegment", "TextCompleted"}) /\ ~Telling({"Completed"})
  BY <1>1 DEF TellInv, SynthesisOpen
<1>6. ~Telling({"CommittedSegment"})
  BY <1>5 DEF Telling
<1>7. TellInv'
  BY <1>1, <1>4, <1>5, <1>6 DEF TellInv
<1> QED
  BY <1>3, <1>7

\* A client that reads was reading before.
LEMMA StaysReading ==
  ASSUME [Next]_vars, client' = "reading" PROVE client = "reading"
<1>1. CASE Coordinator
  BY <1>1 DEF Coordinator, HearGenerator, HearWorker, Told, Tell, NotTold, JoinWorker, Conclude,
              Release, client_vars
<1>2. CASE Provider \/ Generator \/ Worker
  BY <1>2 DEF Provider, Generator, Worker, client_vars
<1>3. CASE CancelTurn \/ ClientReads \/ ClientLeaves \/ UNCHANGED vars
  BY <1>3 DEF CancelTurn, ClientReads, ClientLeaves, vars, client_vars
<1> QED
  BY <1>1, <1>2, <1>3 DEF Next

LEMMA OrderKept == OrderInv /\ [Next]_vars => OrderInv'
<1> SUFFICES ASSUME OrderInv, [Next]_vars PROVE OrderInv'
  OBVIOUS
<1>1. TypeInv /\ TaskInv /\ TypeInv' /\ TaskInv'
  BY TypeKept, TaskKept DEF OrderInv
<1> SUFFICES ASSUME client' = "reading" PROVE TellInv' /\ SpeechInv'
  BY <1>1 DEF OrderInv
<1>2. client = "reading"
  BY StaysReading
<1>3. TellInv /\ SpeechInv
  BY <1>2 DEF OrderInv
<1>4. cancelled => cancelled'
  BY CancelledStays
<1>5. CASE Coordinator
  <2>1. UNCHANGED <<worker, speaking, voiced>>
    BY <1>5 DEF Coordinator, work_vars
  <2>2. CASE HearGenerator
    BY <1>1, <1>3, <2>1, <2>2, HearGeneratorTells
  <2>3. CASE HearWorker
    BY <1>1, <1>3, <2>1, <2>3, HearWorkerTells
  <2>4. CASE Told
    BY <1>1, <1>3, <2>1, <2>4, ToldTells, ToldSpeaks
  <2>5. CASE NotTold
    BY <1>2, <2>5 DEF NotTold
  <2>6. CASE Conclude
    BY <1>1, <1>3, <2>1, <2>6, ConcludeTells
  <2>7. CASE JoinWorker \/ Release
    BY <1>3, <2>1, <2>7, OthersTell
  <2> QED
    BY <1>5, <2>2, <2>3, <2>4, <2>5, <2>6, <2>7 DEF Coordinator
<1>6. CASE Worker
  <2>1. TellInv'
    BY <1>3, <1>6, TellStays DEF Worker, coord_vars, client_vars
  <2> QED
    BY <1>1, <1>3, <1>6, <2>1, WorkerSpeaks
<1>7. CASE Provider \/ Generator \/ CancelTurn \/ ClientReads \/ ClientLeaves \/ UNCHANGED vars
  <2>1. UNCHANGED <<coordinator, telling, source_open, generation_done, told, audio_queue, voiced,
                    worker, speaking, synthesis_queue>>
    BY <1>7 DEF Provider, Generator, CancelTurn, ClientReads, ClientLeaves, vars, coord_vars,
                work_vars, client_vars
  <2>2. TellInv'
    BY <1>3, <2>1, TellStays
  <2>3. InHand' = InHand
    BY <2>1 DEF InHand
  <2> QED
    BY <1>3, <1>4, <2>1, <2>2, <2>3, SpeechStays
<1> QED
  BY <1>5, <1>6, <1>7 DEF Next

-----------------------------------------------------------------------------
\* The audio that is told is that of the next segment.
LEMMA NextInLine ==
  ASSUME NEW s \in Seq(Nat), NEW n \in Nat, NEW x \in Seq(Nat)
  PROVE  /\ Len(s) < Len(Cat(s, Cat(<<n>>, x)))
         /\ Cat(s, Cat(<<n>>, x))[Len(s) + 1] = n
<1>1. ASSUME NEW y \in Seq(Nat), NEW m \in Nat, Len(y) = m + 1, y[1] = n
      PROVE  Len(s) < Len(s \o y) /\ (s \o y)[Len(s) + 1] = n
  <2> HIDE ConstantsAssumption
  <2>1. Len(s) \in Nat /\ Len(y) \in Nat
    OBVIOUS
  <2>2. /\ Len(s \o y) = Len(s) + Len(y)
        /\ \A i \in 1 .. Len(s) + Len(y) : (s \o y)[i] = IF i <= Len(s) THEN s[i] ELSE y[i - Len(s)]
    BY ConcatProperties
  <2>3. Len(s) + 1 \in 1 .. Len(s) + Len(y) /\ ~(Len(s) + 1 <= Len(s)) /\ (Len(s) + 1) - Len(s) = 1
    BY <1>1, <2>1
  <2> QED
    BY <1>1, <2>1, <2>2, <2>3
<1>2. <<n>> \o x \in Seq(Nat) /\ Len(<<n>> \o x) = Len(x) + 1 /\ (<<n>> \o x)[1] = n
      /\ Len(x) \in Nat
  OBVIOUS
<1> QED
  BY <1>1, <1>2 DEF Cat

LEMMA SpokenStep == OrderInv /\ [Next]_vars => [Spoken!Next]_<<phase, committed, spoken>>
<1> SUFFICES ASSUME OrderInv, [Next]_vars PROVE [Spoken!Next]_<<phase, committed, spoken>>
  OBVIOUS
<1>1. CASE told' = told
  BY <1>1 DEF phase, committed, spoken, ToldOf
<1>2. CASE Told
  <2>0. TypeInv /\ TaskInv /\ TellInv /\ SpeechInv
    BY <1>2 DEF OrderInv, Told, Tell
  <2>1. /\ telling \in Events /\ telling # NoEvent
        /\ \A type \in {"CommittedSegment", "TextCompleted", "AudioChunk", "Completed"} :
             /\ ToldOf(type)' <=> ToldOf(type) \/ telling.type = type
             /\ SegmentsIn(told', type) = Cat(SegmentsIn(told, type), Piece(telling, type))
    BY <1>2, <2>0, ToldGrows
  <2>2. spoken \in Seq(Nat) /\ committed \in Seq(Nat) /\ telling.segment \in Nat
    BY <2>0, <2>1, LineTyped DEF Events
  <2>3. /\ spoken' = Cat(spoken, Piece(telling, "AudioChunk"))
        /\ committed' = Cat(committed, Piece(telling, "CommittedSegment"))
    BY <2>1 DEF spoken, committed
  <2>4. Cat(spoken, << >>) = spoken /\ Cat(committed, << >>) = committed
    BY <2>2, CatFacts
  <2>5. ~ToldOf("Completed") /\ phase = IF ToldOf("TextCompleted") THEN "written" ELSE "writing"
    BY <2>0, <2>1 DEF TellInv, phase
  <2>6. CASE telling.type = "CommittedSegment"
    <3>1. ~ToldOf("TextCompleted") /\ telling.segment \in 1 .. MaxSegments
      BY <2>0, <2>1, <2>6 DEF TellInv, Telling, SynthesisOpen
    <3>2. ~ToldOf("TextCompleted")' /\ ~ToldOf("Completed")'
      BY <2>1, <2>5, <2>6, <3>1
    <3>3. phase = "writing" /\ phase' = "writing"
      BY <2>5, <3>1, <3>2 DEF phase
    <3>4. spoken' = spoken /\ committed' = Append(committed, telling.segment)
      <4>1. committed' = Cat(committed, <<telling.segment>>) /\ spoken' = Cat(spoken, << >>)
        BY <2>3, <2>6 DEF Piece
      <4>2. Append(committed, telling.segment) = Cat(committed, <<telling.segment>>)
        BY <2>2, CatOne
      <4> QED
        BY <2>4, <4>1, <4>2
    <3> QED
      BY <3>1, <3>3, <3>4 DEF Spoken!Next, Spoken!Commit
  <2>7. CASE telling.type = "TextCompleted"
    <3>1. ~ToldOf("TextCompleted")
      BY <2>0, <2>1, <2>7 DEF TellInv, Telling, SynthesisOpen
    <3>2. ToldOf("TextCompleted")' /\ ~ToldOf("Completed")'
      BY <2>1, <2>5, <2>7
    <3>3. phase = "writing" /\ phase' = "written"
      BY <2>5, <3>1, <3>2 DEF phase
    <3>4. spoken' = spoken /\ committed' = committed
      BY <2>3, <2>4, <2>7 DEF Piece
    <3> QED
      BY <3>3, <3>4 DEF Spoken!Next, Spoken!FinishText
  <2>8. CASE telling.type = "AudioChunk"
    <3>1. (ToldOf("TextCompleted")' <=> ToldOf("TextCompleted")) /\ ~ToldOf("Completed")'
      BY <2>1, <2>5, <2>8
    <3>2. phase' = phase /\ phase # "complete"
      BY <2>5, <3>1 DEF phase
    <3>3. PICK rest \in Seq(Nat) : committed = Line(spoken, InHand, InQueue, InVoice, rest)
      BY <2>0 DEF SpeechInv
    <3>4. InHand = <<telling.segment>>
      BY <2>1, <2>8 DEF InHand, Piece, Chunk
    <3> DEFINE x == Cat(InQueue, Cat(InVoice, rest))
    <3>5. x \in Seq(Nat)
      BY <2>0, LineTyped, CatFacts
    <3>6. committed = Cat(spoken, Cat(<<telling.segment>>, x))
      BY <3>3, <3>4 DEF Line
    <3> HIDE DEF x
    <3>7. Len(spoken) < Len(committed) /\ committed[Len(spoken) + 1] = telling.segment
      BY <2>2, <3>5, <3>6, NextInLine
    <3>8. committed' = committed /\ spoken' = Append(spoken, telling.segment)
      <4>1. spoken' = Cat(spoken, <<telling.segment>>) /\ committed' = Cat(committed, << >>)
        BY <2>3, <2>8 DEF Piece
      <4>2. Append(spoken, telling.segment) = Cat(spoken, <<telling.segment>>)
        BY <2>2, CatOne
      <4> QED
        BY <2>4, <4>1, <4>2
    <3> QED
      BY <3>2, <3>7, <3>8 DEF Spoken!Next, Spoken!Speak
  <2>9. CASE telling.type = "Completed"
    <3>1. ToldOf("TextCompleted") /\ spoken = committed
      BY <2>0, <2>1, <2>9 DEF TellInv, Telling
    <3>2. ToldOf("Completed")'
      BY <2>1, <2>9
    <3>3. phase = "written" /\ phase' = "complete"
      BY <2>5, <3>1, <3>2 DEF phase
    <3>4. spoken' = spoken /\ committed' = committed
      BY <2>3, <2>4, <2>9 DEF Piece
    <3> QED
      BY <3>1, <3>3, <3>4 DEF Spoken!Next, Spoken!Complete
  <2>10. CASE telling.type \notin {"CommittedSegment", "TextCompleted", "AudioChunk", "Completed"}
    <3>1. /\ ToldOf("TextCompleted")' <=> ToldOf("TextCompleted")
          /\ ToldOf("Completed")' <=> ToldOf("Completed")
      BY <2>1, <2>10
    <3>2. phase' = phase
      BY <3>1 DEF phase
    <3>3. spoken' = spoken /\ committed' = committed
      BY <2>3, <2>4, <2>10 DEF Piece
    <3> QED
      BY <3>2, <3>3
  <2> QED
    BY <2>6, <2>7, <2>8, <2>9, <2>10
<1> QED
  <2>1. CASE Coordinator
    <3>1. Told \/ told' = told
      BY <2>1 DEF Coordinator, HearGenerator, HearWorker, NotTold, JoinWorker, Conclude, Release,
                  client_vars
    <3> QED
      BY <1>1, <1>2, <3>1
  <2>2. CASE ~Coordinator
    <3>1. told' = told
      BY <2>2 DEF Next, Provider, Generator, Worker, CancelTurn, ClientReads, ClientLeaves, vars,
                  client_vars
    <3> QED
      BY <1>1, <3>1
  <2> QED
    BY <2>1, <2>2

LEMMA SpokenInit == Init => Spoken!Init
<1> SUFFICES ASSUME Init PROVE Spoken!Init
  OBVIOUS
<1>1. told = << >>
  BY DEF Init
<1>2. committed = << >> /\ spoken = << >>
  BY <1>1, SegmentsNone, Zenon DEF committed, spoken
<1>3. phase = "writing"
  BY <1>1 DEF phase, ToldOf
<1> QED
  BY <1>2, <1>3 DEF Spoken!Init

\* Whatever the five tasks do and in whichever order, what the client of run_live_turn hears
\* is a turn as SpokenTurn promises it: each segment is spoken once, after it was committed
\* and in that order, and completed is said when the text is finished and all of it spoken.
THEOREM TurnIsSpoken == Spec => TurnPromise
<1>1. Spec => []OrderInv
  BY OrderInit, OrderKept, PTL DEF Spec
<1>2. OrderInv /\ [Next]_vars => [Spoken!Next]_(Spoken!vars)
  BY SpokenStep DEF Spoken!vars
<1> QED
  BY SpokenInit, <1>1, <1>2, PTL DEF Spec, TurnPromise, Spoken!Spec
=============================================================================
