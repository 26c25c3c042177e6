----------------------- MODULE BrowserAudioSessionProofs -----------------------
(***************************************************************************)
(* Theorems about the browser microphone, for every capacity of its queues *)
(* and every interleaving of its three tasks: the order of what the client *)
(* is told, and what the last message closes.                              *)
(***************************************************************************)
EXTENDS BrowserAudioSession, SequenceTheorems, TLAPS

\* What a task may send to the client, and what the consumer may have to do.
Probe ==
  {Level, Ended} \cup {SegmentFinal(n) : n \in Nat} \cup {LanguageRouted(n) : n \in Nat}
    \cup {Error(n) : n \in Nat}
Item == Probe \cup {Leave, EndOfStream} \cup {Route(n) : n \in Nat}

\* What the client has been told, and what waits in the queue for it.
Told == delivered \o probes

Says(log, probe) == \E i \in DOMAIN log : log[i] = probe

Ordered(log) ==
  \A i \in DOMAIN log :
    log[i].type = "LanguageRouted" =>
      \E k \in 1 .. i - 1 : log[k] = SegmentFinal(log[i].segment)

Answered(log, n) == Says(log, LanguageRouted(n)) \/ Says(log, Error(n))

\* Nothing follows "Ended", and nothing is open when it is said.
Closed(log) ==
  \A i \in DOMAIN log :
    log[i] = Ended =>
      /\ i = Len(log)
      /\ consumer = "done" /\ worker \in {"off", "done"}
      /\ worker # "off" /\ ~Says(log, Error(0)) => \A n \in 1 .. reported : Answered(log, n)

TypeInv ==
  /\ delivered \in Seq(Probe) /\ probes \in Seq(Probe) /\ outbox \in Seq(Item)
  /\ segments \in Seq(Nat) /\ routed \in Nat /\ reported \in Nat

TaskInv ==
  /\ consumer # "running" => outbox = << >>
  /\ \A i \in DOMAIN outbox : outbox[i].type \in {"EndOfStream", "Leave"} => i = Len(outbox)
  /\ consumer = "running" /\ worker # "off" => language_open
  /\ consumer = "ending" => worker \in {"off", "done"}
  /\ worker = "done" => segments = << >>

\* A segment the worker has, or will get, has been announced before.
AnnouncedInv ==
  /\ \A i \in DOMAIN outbox :
       outbox[i].type = "Route" =>
         \/ Says(Told, SegmentFinal(outbox[i].segment))
         \/ \E k \in 1 .. i - 1 : outbox[k] = SegmentFinal(outbox[i].segment)
  /\ \A i \in DOMAIN segments : Says(Told, SegmentFinal(segments[i]))
  /\ worker = "routing" => Says(Told, SegmentFinal(routed))

\* A segment that has no answer yet is with the consumer or the worker.
Held(n) ==
  \/ Says(outbox, Route(n)) \/ Says(outbox, Error(n))
  \/ \E i \in DOMAIN segments : segments[i] = n
  \/ worker = "routing" /\ routed = n

HeldInv ==
  worker # "off" /\ ~Says(Told, Error(0)) /\ ~Says(outbox, Error(0)) =>
    \A n \in 1 .. reported : Answered(Told, n) \/ Held(n)

Inv ==
  /\ TypeInv
  /\ TaskInv
  /\ Ordered(delivered) /\ Closed(delivered)
  /\ session = "loop" => Ordered(Told) /\ Closed(Told) /\ AnnouncedInv /\ HeldInv

-----------------------------------------------------------------------------
\* What the members of the two sets are told apart by.
LEMMA Kinds ==
  /\ Level.type = "Level" /\ Ended.type = "Ended" /\ Leave.type = "Leave"
  /\ EndOfStream.type = "EndOfStream"
  /\ \A n \in Nat : /\ SegmentFinal(n).type = "SegmentFinal"
                    /\ LanguageRouted(n).type = "LanguageRouted"
                    /\ LanguageRouted(n).segment = n
                    /\ Error(n).type = "Error"
                    /\ Route(n).type = "Route" /\ Route(n).segment = n
BY DEF Level, Ended, Leave, EndOfStream, SegmentFinal, LanguageRouted, Error, Route

LEMMA Members ==
  /\ Level \in Probe /\ Ended \in Probe
  /\ \A n \in Nat : SegmentFinal(n) \in Probe /\ LanguageRouted(n) \in Probe /\ Error(n) \in Probe
  /\ Probe \subseteq Item /\ Leave \in Item /\ EndOfStream \in Item
  /\ \A n \in Nat : Route(n) \in Item
BY DEF Probe, Item

LEMMA ItemKinds ==
  ASSUME NEW item \in Item
  PROVE  /\ item.type = "Route" => item.segment \in Nat /\ item = Route(item.segment)
         /\ item.type \in {"Level", "SegmentFinal", "Error"} => item \in Probe
<1>1. item \in Probe \/ item \in {Leave, EndOfStream} \/ \E n \in Nat : item = Route(n)
  BY DEF Item
<1>2. CASE item \in Probe
  <2>1. \/ item \in {Level, Ended}
        \/ \E n \in Nat : item \in {SegmentFinal(n), LanguageRouted(n), Error(n)}
    BY <1>2 DEF Probe
  <2> QED BY <1>2, <2>1, Kinds
<1>3. CASE item \in {Leave, EndOfStream}
  BY <1>3, Kinds
<1>4. CASE \E n \in Nat : item = Route(n)
  BY <1>4, Kinds
<1> QED BY <1>1, <1>2, <1>3, <1>4

\* A probe is added to the queue.
LEMMA Sending ==
  ASSUME TypeInv, NEW p \in Probe, probes' = Append(probes, p), delivered' = delivered
  PROVE  /\ Told \in Seq(Probe) /\ Told' = Append(Told, p)
         /\ Len(Told') = Len(Told) + 1 /\ Told'[Len(Told) + 1] = p
         /\ \A i \in DOMAIN Told : i \in DOMAIN Told' /\ Told'[i] = Told[i]
         /\ \A q : Says(Told', q) <=> Says(Told, q) \/ q = p
<1>1. Told \in Seq(Probe) /\ Told' = Append(Told, p)
  BY DEF TypeInv, Told
<1> DEFINE t == Told
           u == Told'
<1>2. t \in Seq(Probe) /\ u = Append(t, p)
  BY <1>1
<1> HIDE DEF t, u
<1>3. /\ Len(u) = Len(t) + 1 /\ u[Len(t) + 1] = p /\ DOMAIN u = 1 .. Len(t) + 1
      /\ DOMAIN t = 1 .. Len(t) /\ Len(t) \in Nat
      /\ \A i \in DOMAIN t : i \in DOMAIN u /\ u[i] = t[i]
  BY <1>2
<1>4. \A q : Says(u, q) <=> Says(t, q) \/ q = p
  BY <1>3 DEF Says
<1> QED BY <1>1, <1>3, <1>4 DEF t, u

\* The head of a queue moves to the end of what has left it.
LEMMA Moving ==
  ASSUME NEW S, NEW d \in Seq(S), NEW q \in Seq(S), q # << >>
  PROVE  Append(d, Head(q)) \o Tail(q) = d \o q
<1> DEFINE e == Append(d, Head(q))
           r == Tail(q)
<1>1. /\ Head(q) = q[1] /\ q[1] \in S /\ r \in Seq(S) /\ Len(q) \in Nat /\ Len(r) = Len(q) - 1
      /\ \A i \in 1 .. Len(q) - 1 : r[i] = q[i + 1]
  OBVIOUS
<1>2. /\ e \in Seq(S) /\ Len(d) \in Nat /\ Len(e) = Len(d) + 1 /\ e[Len(d) + 1] = q[1]
      /\ \A i \in 1 .. Len(d) : e[i] = d[i]
  BY <1>1
<1> HIDE DEF e, r
<1>3. /\ e \o r \in Seq(S) /\ d \o q \in Seq(S) /\ Len(e \o r) = Len(d \o q)
      /\ Len(d \o q) = Len(d) + Len(q)
  <2>1. e \o r \in Seq(S) /\ Len(e \o r) = Len(e) + Len(r)
    BY <1>1, <1>2, ConcatProperties
  <2>2. d \o q \in Seq(S) /\ Len(d \o q) = Len(d) + Len(q)
    BY ConcatProperties
  <2> QED BY <2>1, <2>2, <1>1, <1>2
<1>4. ASSUME NEW i \in 1 .. Len(d) + Len(q)
      PROVE  (e \o r)[i] = (d \o q)[i]
  <2>1. CASE i <= Len(d)
    BY <2>1, <1>1, <1>2
  <2>2. CASE i = Len(d) + 1
    BY <2>2, <1>1, <1>2
  <2>3. CASE i > Len(d) + 1
    <3>1. i - Len(e) \in 1 .. Len(q) - 1 /\ (i - Len(e)) + 1 = i - Len(d) /\ i > Len(e)
      BY <2>3, <1>1, <1>2
    <3>2. (e \o r)[i] = r[i - Len(e)] /\ (d \o q)[i] = q[i - Len(d)]
      BY <2>3, <3>1, <1>1, <1>2
    <3> QED BY <3>1, <3>2, <1>1
  <2> QED BY <2>1, <2>2, <2>3, <1>1, <1>2
<1>5. e \o r = d \o q
  BY <1>3, <1>4, SeqEqual
<1> QED BY <1>5 DEF e, r

\* A probe is handed over: what the client will have been told does not change.
LEMMA Handing ==
  ASSUME TypeInv, probes # << >>,
         probes' = Tail(probes), delivered' = Append(delivered, Head(probes))
  PROVE  /\ Told' = Told /\ Head(probes) \in Probe
         /\ probes' \in Seq(Probe) /\ delivered' \in Seq(Probe)
         /\ Len(delivered') = Len(delivered) + 1 /\ Len(delivered') <= Len(Told)
         /\ \A i \in DOMAIN delivered' : i \in DOMAIN Told /\ delivered'[i] = Told[i]
         /\ Len(delivered') = Len(Told) => delivered' = Told
<1>1. /\ probes \in Seq(Probe) /\ delivered \in Seq(Probe)
      /\ Head(probes) \in Probe /\ Tail(probes) \in Seq(Probe)
  BY DEF TypeInv
<1>2. delivered' \in Seq(Probe)
  BY <1>1
<1>3. Told' = Told
  BY <1>1, Moving DEF Told
<1>4. Told = delivered' \o probes'
  BY <1>3 DEF Told
<1> DEFINE t == Told
           d == delivered'
           q == probes'
<1>5. t = d \o q /\ d \in Seq(Probe) /\ q \in Seq(Probe)
  BY <1>1, <1>2, <1>4
<1>6. Len(d) = Len(delivered) + 1
  BY <1>1
<1> HIDE DEF t, d, q
<1>7. /\ t \in Seq(Probe) /\ Len(t) = Len(d) + Len(q) /\ Len(d) \in Nat /\ Len(q) \in Nat
      /\ DOMAIN t = 1 .. Len(t) /\ DOMAIN d = 1 .. Len(d)
      /\ \A i \in 1 .. Len(d) : t[i] = d[i]
  BY <1>5
<1>8. Len(d) = Len(t) => d = t
  BY <1>5, <1>7, SeqEqual
<1> QED BY <1>1, <1>2, <1>3, <1>6, <1>7, <1>8 DEF t, d, q

LEMMA InitInv == Init => Inv
<1> SUFFICES ASSUME Init PROVE Inv
  OBVIOUS
<1>1. /\ delivered = << >> /\ probes = << >> /\ segments = << >> /\ routed = 0 /\ reported = 0
      /\ consumer = "running" /\ language_open = (worker = "starting")
      /\ \/ outbox = << >> /\ worker \in {"off", "starting"}
         \/ outbox = <<Error(0), Leave>> /\ worker = "off"
  BY DEF Init
<1>2. TypeInv
  <2>1. Error(0) \in Item /\ Leave \in Item
    BY Members
  <2>2. << >> \in Seq(Item) /\ <<Error(0), Leave>> \in Seq(Item)
    BY <2>1
  <2>3. outbox \in Seq(Item)
    BY <1>1, <2>2
  <2> QED BY <1>1, <2>3 DEF TypeInv
<1>3. \A i \in DOMAIN outbox : outbox[i].type \in {"EndOfStream", "Leave"} => i = Len(outbox)
  <2>1. CASE outbox = <<Error(0), Leave>>
    BY <2>1, Kinds
  <2> QED BY <1>1, <2>1
<1>4. TaskInv
  BY <1>1, <1>3 DEF TaskInv
<1>5. Told = << >>
  BY <1>1 DEF Told
<1>6. Ordered(<< >>) /\ Closed(<< >>)
  BY DEF Ordered, Closed
<1>7. AnnouncedInv
  <2>1. \A i \in DOMAIN outbox : outbox[i].type # "Route"
    BY <1>1, Kinds
  <2> QED BY <1>1, <2>1 DEF AnnouncedInv
<1>8. HeldInv
  BY <1>1 DEF HeldInv
<1> QED BY <1>1, <1>2, <1>4, <1>5, <1>6, <1>7, <1>8 DEF Inv
-----------------------------------------------------------------------------
\* The messages of the client and the ends of the loop: nothing is sent or taken.
LEMMA QuietStep ==
  ASSUME Inv,
         UNCHANGED <<delivered, probes, consumer_side, language_open, segments, worker_side>>,
         session' = "loop" => session = "loop"
  PROVE  Inv'
<1> USE DEF consumer_side, worker_side
<1>1. TypeInv' /\ TaskInv'
  BY DEF Inv, TypeInv, TaskInv
<1>2. Ordered(delivered)' /\ Closed(delivered)'
  BY DEF Inv, Ordered, Closed, Says, Answered
<1>3. ASSUME session' = "loop"
      PROVE  Ordered(Told)' /\ Closed(Told)' /\ AnnouncedInv' /\ HeldInv'
  <2>1. Told' = Told /\ session = "loop"
    BY <1>3 DEF Told
  <2>2. Ordered(Told)' /\ Closed(Told)'
    BY <2>1 DEF Inv, Ordered, Closed, Says, Answered
  <2>3. AnnouncedInv'
    BY <2>1 DEF Inv, AnnouncedInv, Says
  <2>4. HeldInv'
    BY <2>1 DEF Inv, HeldInv, Held, Says, Answered
  <2> QED BY <2>2, <2>3, <2>4
<1> QED BY <1>1, <1>2, <1>3 DEF Inv

\* The first probe of the queue is sent, or lost with the connection.
LEMMA ForwardStep ==
  ASSUME Inv, ForwardProbe
  PROVE  Inv'
<1>1. /\ session = "loop" /\ probes # << >> /\ probes' = Tail(probes)
      /\ UNCHANGED <<consumer, outbox, reported, language_open, segments,
                      worker, routed>>
      /\ TypeInv /\ TaskInv
      /\ Ordered(delivered) /\ Closed(delivered) /\ Ordered(Told) /\ Closed(Told)
      /\ AnnouncedInv /\ HeldInv
  BY DEF ForwardProbe, consumer_side, worker_side, Inv
<1>2. TaskInv'
  BY <1>1 DEF TaskInv
<1>3. CASE client_gone
  <2>1. delivered' = delivered /\ session' = "closing"
    BY <1>3 DEF ForwardProbe, StopLoop
  <2>2. probes' \in Seq(Probe)
    BY <1>1 DEF TypeInv
  <2>3. TypeInv'
    BY <1>1, <2>1, <2>2 DEF TypeInv
  <2>4. Ordered(delivered)' /\ Closed(delivered)'
    BY <1>1, <2>1 DEF Ordered, Closed, Says, Answered
  <2> QED BY <1>2, <2>1, <2>3, <2>4 DEF Inv
<1>4. CASE ~client_gone
  <2>1. delivered' = Append(delivered, Head(probes))
    BY <1>4 DEF ForwardProbe
  <2>2. /\ Told' = Told /\ Head(probes) \in Probe
        /\ probes' \in Seq(Probe) /\ delivered' \in Seq(Probe)
        /\ Len(delivered') = Len(delivered) + 1 /\ Len(delivered') <= Len(Told)
        /\ \A i \in DOMAIN delivered' : i \in DOMAIN Told /\ delivered'[i] = Told[i]
        /\ Len(delivered') = Len(Told) => delivered' = Told
    BY <1>1, <2>1, Handing
  <2>3. TypeInv'
    BY <1>1, <2>2 DEF TypeInv
  <2>4. DOMAIN delivered' = 1 .. Len(delivered') /\ Len(delivered') \in Nat /\ Len(Told) \in Nat
    BY <2>2, <1>1 DEF TypeInv, Told
  <2>5. Ordered(delivered)'
    <3>1. ASSUME NEW i \in DOMAIN delivered', delivered'[i].type = "LanguageRouted"
          PROVE  \E k \in 1 .. i - 1 : delivered'[k] = SegmentFinal(delivered'[i].segment)
      <4>1. PICK k \in 1 .. i - 1 : Told[k] = SegmentFinal(Told[i].segment)
        BY <1>1, <2>2, <3>1 DEF Ordered
      <4>2. k \in DOMAIN delivered'
        BY <2>4, <4>1
      <4> QED BY <2>2, <4>1, <4>2
    <3> QED BY <3>1 DEF Ordered
  <2>6. Closed(delivered)'
    <3>1. ASSUME NEW i \in DOMAIN delivered', delivered'[i] = Ended
          PROVE  delivered' = Told
      <4>1. i = Len(Told)
        BY <1>1, <2>2, <3>1 DEF Closed
      <4> QED BY <4>1, <2>2, <2>4
    <3> QED BY <1>1, <3>1 DEF Closed, Says, Answered
  <2>7. (Ordered(Told) /\ Closed(Told))'
    BY <1>1, <2>2 DEF Ordered, Closed, Says, Answered
  <2>8. AnnouncedInv' /\ HeldInv'
    BY <1>1, <2>2 DEF AnnouncedInv, HeldInv, Held, Says, Answered
  <2> QED BY <1>2, <2>3, <2>5, <2>6, <2>7, <2>8 DEF Inv
<1> QED BY <1>3, <1>4

\* The consumer sends what is next.
LEMMA SendProbeStep ==
  ASSUME Inv, SendProbe
  PROVE  Inv'
<1>1. /\ consumer = "running" /\ outbox # << >>
      /\ Head(outbox).type \in {"Level", "SegmentFinal", "Error"}
      /\ probes' = Append(probes, Head(outbox)) /\ outbox' = Tail(outbox)
      /\ UNCHANGED <<session, delivered, consumer, reported, language_open, segments,
                      worker, routed>>
      /\ TypeInv /\ TaskInv /\ Ordered(delivered) /\ Closed(delivered)
  BY DEF SendProbe, Send, Inv, session_side, worker_side
<1>2. /\ Head(outbox) \in Probe /\ outbox' \in Seq(Item) /\ Head(outbox) = outbox[1]
      /\ 1 \in DOMAIN outbox
      /\ Len(outbox) \in Nat /\ Len(outbox') = Len(outbox) - 1
      /\ DOMAIN outbox = 1 .. Len(outbox) /\ DOMAIN outbox' = 1 .. Len(outbox) - 1
      /\ \A i \in DOMAIN outbox' : i + 1 \in DOMAIN outbox /\ outbox'[i] = outbox[i + 1]
  <2>1. outbox \in Seq(Item) /\ Head(outbox) \in Item
    BY <1>1 DEF TypeInv
  <2>2. Head(outbox) \in Probe
    BY <1>1, <2>1, ItemKinds
  <2> QED BY <1>1, <2>1, <2>2
<1>3. TypeInv'
  <2>1. probes' \in Seq(Probe)
    BY <1>1, <1>2 DEF TypeInv
  <2> QED BY <1>1, <1>2, <2>1 DEF TypeInv
<1>4. TaskInv'
  BY <1>1, <1>2 DEF TaskInv
<1>5. Ordered(delivered)' /\ Closed(delivered)'
  BY <1>1 DEF Ordered, Closed, Says, Answered
<1>6. ASSUME session = "loop"
      PROVE  Ordered(Told)' /\ Closed(Told)' /\ AnnouncedInv' /\ HeldInv'
  <2> DEFINE p == Head(outbox)
  <2>1. /\ Told \in Seq(Probe) /\ Told' = Append(Told, p)
        /\ Len(Told') = Len(Told) + 1 /\ Told'[Len(Told) + 1] = p
        /\ \A i \in DOMAIN Told : i \in DOMAIN Told' /\ Told'[i] = Told[i]
        /\ \A q : Says(Told', q) <=> Says(Told, q) \/ q = p
    BY <1>1, <1>2, Sending
  <2>2. /\ DOMAIN Told = 1 .. Len(Told) /\ DOMAIN Told' = 1 .. Len(Told) + 1 /\ Len(Told) \in Nat
    BY <2>1
  <2>3. p.type # "LanguageRouted" /\ p # Ended /\ p.type # "Route"
    BY <1>1, Kinds
  <2>4. Ordered(Told) /\ Closed(Told) /\ AnnouncedInv /\ HeldInv
    BY <1>6 DEF Inv
  <2>5. Ordered(Told)'
    <3>1. ASSUME NEW i \in DOMAIN Told', Told'[i].type = "LanguageRouted"
          PROVE  \E k \in 1 .. i - 1 : Told'[k] = SegmentFinal(Told'[i].segment)
      <4>1. i \in DOMAIN Told
        BY <2>1, <2>2, <2>3, <3>1
      <4>2. PICK k \in 1 .. i - 1 : Told[k] = SegmentFinal(Told[i].segment)
        BY <2>1, <2>4, <3>1, <4>1 DEF Ordered
      <4> QED BY <2>1, <2>2, <4>1, <4>2
    <3> QED BY <3>1 DEF Ordered
  <2>6. Closed(Told)'
    <3>1. ~Says(Told, Ended)
      BY <1>1, <2>4 DEF Closed, Says
    <3>2. ~Says(Told', Ended)
      BY <2>1, <2>3, <3>1
    <3> QED BY <3>2 DEF Closed, Says
  <2>7. AnnouncedInv'
    <3>1. ASSUME NEW i \in DOMAIN outbox', outbox'[i].type = "Route"
          PROVE  \/ Says(Told', SegmentFinal(outbox'[i].segment))
                 \/ \E k \in 1 .. i - 1 : outbox'[k] = SegmentFinal(outbox'[i].segment)
      <4> DEFINE q == SegmentFinal(outbox'[i].segment)
      <4>1. Says(Told, q) \/ \E k \in 1 .. i : outbox[k] = q
        <5>1. i \in Nat /\ i + 1 \in DOMAIN outbox /\ outbox'[i] = outbox[i + 1]
          BY <1>2, <3>1
        <5>2. \/ Says(Told, SegmentFinal(outbox[i + 1].segment))
              \/ \E k \in 1 .. (i + 1) - 1 : outbox[k] = SegmentFinal(outbox[i + 1].segment)
          BY <2>4, <3>1, <5>1 DEF AnnouncedInv
        <5>3. (i + 1) - 1 = i
          BY <5>1
        <5> QED BY <5>1, <5>2, <5>3
      <4>2. ASSUME NEW k \in 1 .. i, outbox[k] = q
            PROVE  q = p \/ \E m \in 1 .. i - 1 : outbox'[m] = q
        <5>1. CASE k = 1
          BY <5>1, <4>2, <1>2
        <5>2. CASE k # 1
          <6>1. k - 1 \in 1 .. i - 1 /\ k - 1 \in DOMAIN outbox' /\ (k - 1) + 1 = k
            BY <5>2, <1>2
          <6> QED BY <6>1, <4>2, <1>2
        <5> QED BY <5>1, <5>2
      <4> QED BY <4>1, <4>2, <2>1
    <3> QED BY <1>1, <2>1, <2>4, <3>1 DEF AnnouncedInv
  <2>8. HeldInv'
    <3>1. \A q : Says(outbox, q) => Says(outbox', q) \/ q = p
      <4> SUFFICES ASSUME NEW q, NEW k \in DOMAIN outbox, outbox[k] = q
                   PROVE  Says(outbox', q) \/ q = p
        BY DEF Says
      <4>1. CASE k = 1
        BY <4>1, <1>2
      <4>2. CASE k # 1
        <5>1. k - 1 \in DOMAIN outbox' /\ (k - 1) + 1 = k
          BY <4>2, <1>2
        <5> QED BY <5>1, <1>2 DEF Says
      <4> QED BY <4>1, <4>2
    <3>2. \A n \in Nat : Route(n) # p
      BY <2>3, Kinds
    <3>3. ASSUME worker # "off", ~Says(Told', Error(0)), ~Says(outbox', Error(0)),
                 NEW n \in 1 .. reported
          PROVE  Answered(Told', n) \/ Held(n)'
      <4>1. Answered(Told, n) \/ Held(n)
        BY <2>1, <2>4, <3>1, <3>3 DEF HeldInv
      <4>2. reported \in Nat /\ n \in Nat
        BY <1>1 DEF TypeInv
      <4> QED BY <1>1, <2>1, <3>1, <3>2, <4>1, <4>2 DEF Answered, Held
    <3> QED BY <1>1, <3>3 DEF HeldInv
  <2> QED BY <2>5, <2>6, <2>7, <2>8
<1> QED BY <1>1, <1>3, <1>4, <1>5, <1>6 DEF Inv
\* The consumer says that the stream has ended.
LEMMA SendEndedStep ==
  ASSUME Inv, SendEnded
  PROVE  Inv'
<1>1. /\ consumer = "ending" /\ consumer' = "done" /\ outbox = << >> /\ worker \in {"off", "done"}
      /\ worker = "done" => segments = << >>
      /\ probes' = Append(probes, Ended)
      /\ UNCHANGED <<session, delivered, outbox, reported, language_open, segments,
                      worker, routed>>
      /\ TypeInv /\ TaskInv /\ Ordered(delivered) /\ Closed(delivered)
  BY DEF SendEnded, Send, Inv, TaskInv, session_side, worker_side
<1>2. TypeInv' /\ TaskInv'
  <2>1. probes' \in Seq(Probe)
    BY <1>1, Members DEF TypeInv
  <2> QED BY <1>1, <2>1 DEF TypeInv, TaskInv
<1>3. Ordered(delivered)' /\ Closed(delivered)'
  BY <1>1 DEF Ordered, Closed, Says, Answered
<1>4. ASSUME session = "loop"
      PROVE  Ordered(Told)' /\ Closed(Told)' /\ AnnouncedInv' /\ HeldInv'
  <2>1. /\ Told \in Seq(Probe) /\ Told' = Append(Told, Ended)
        /\ Len(Told') = Len(Told) + 1 /\ Told'[Len(Told) + 1] = Ended
        /\ \A i \in DOMAIN Told : i \in DOMAIN Told' /\ Told'[i] = Told[i]
        /\ \A q : Says(Told', q) <=> Says(Told, q) \/ q = Ended
    BY <1>1, Members, Sending
  <2>2. DOMAIN Told = 1 .. Len(Told) /\ DOMAIN Told' = 1 .. Len(Told) + 1 /\ Len(Told) \in Nat
    BY <2>1
  <2>3. Ended.type # "LanguageRouted" /\ Error(0) # Ended
    BY Kinds
  <2>4. Ordered(Told) /\ Closed(Told) /\ AnnouncedInv /\ HeldInv
    BY <1>4 DEF Inv
  <2>5. Ordered(Told)'
    <3>1. ASSUME NEW i \in DOMAIN Told', Told'[i].type = "LanguageRouted"
          PROVE  \E k \in 1 .. i - 1 : Told'[k] = SegmentFinal(Told'[i].segment)
      <4>1. i \in DOMAIN Told
        BY <2>1, <2>2, <2>3, <3>1
      <4>2. PICK k \in 1 .. i - 1 : Told[k] = SegmentFinal(Told[i].segment)
        BY <2>1, <2>4, <3>1, <4>1 DEF Ordered
      <4> QED BY <2>1, <2>2, <4>1, <4>2
    <3> QED BY <3>1 DEF Ordered
  <2>6. Closed(Told)'
    <3>1. ~Says(Told, Ended)
      BY <1>1, <2>4 DEF Closed, Says
    <3>2. ASSUME NEW i \in DOMAIN Told', Told'[i] = Ended
          PROVE  i = Len(Told')
      BY <2>1, <2>2, <3>1, <3>2 DEF Says
    <3>3. ASSUME worker # "off", ~Says(Told', Error(0)), NEW n \in 1 .. reported
          PROVE  Answered(Told', n)
      <4>1. Answered(Told, n) \/ Held(n)
        BY <1>1, <2>1, <2>3, <2>4, <3>3 DEF HeldInv, Says
      <4>2. ~Held(n)
        BY <1>1, <3>3 DEF Held, Says
      <4> QED BY <2>1, <4>1, <4>2 DEF Answered
    <3> QED BY <1>1, <3>2, <3>3 DEF Closed
  <2>7. AnnouncedInv'
    BY <1>1, <2>1, <2>4 DEF AnnouncedInv
  <2>8. HeldInv'
    BY <1>1, <2>1, <2>4 DEF HeldInv, Held, Answered, Says
  <2> QED BY <2>5, <2>6, <2>7, <2>8
<1> QED BY <1>1, <1>2, <1>3, <1>4 DEF Inv

\* The outcomes of pipeline.next_event.
LEMMA PullStep ==
  ASSUME Inv, Pull
  PROVE  Inv'
<1> DEFINE n == reported + 1
<1>1. /\ consumer = "running" /\ outbox = << >>
      /\ UNCHANGED <<session, delivered, probes, consumer, language_open, segments,
                      worker, routed>>
      /\ TypeInv /\ TaskInv /\ Ordered(delivered) /\ Closed(delivered)
  BY DEF Pull, Inv, session_side, worker_side
<1>2. /\ reported' \in {reported, n}
      /\ \/ /\ reported' = reported
            /\ outbox' \in {<<Level>>, << >>, <<EndOfStream>>}
         \/ outbox' \in {<<Level, SegmentFinal(n), Route(n)>>, <<SegmentFinal(n), Route(n)>>,
                         <<SegmentFinal(n), Route(n), Level>>,
                         <<SegmentFinal(n), Route(n), EndOfStream>>}
         \/ outbox' = <<Error(0), Leave>>
  <2>1. PICK closes \in BOOLEAN :
          LET flushed == IF closes THEN Segment(n) ELSE << >>
              type == Returned[1].type IN
          /\ \/ type = "Audio" /\ outbox' \in {<<Level>> \o flushed, flushed, <<Error(0), Leave>>}
             \/ type = "Discontinuity" /\ outbox' = flushed \o <<Level>>
             \/ type = "EndOfStream" /\ outbox' = flushed \o <<EndOfStream>>
          /\ reported' = IF closes THEN n ELSE reported
    BY DEF Pull
  <2>2. CASE closes
    BY <2>1, <2>2 DEF Segment
  <2>3. CASE ~closes
    BY <2>1, <2>3
  <2> QED BY <2>2, <2>3
<1>3. reported \in Nat /\ n \in Nat /\ reported' \in Nat
  BY <1>1, <1>2 DEF TypeInv
<1> HIDE DEF n
<1>4. /\ Level \in Item /\ EndOfStream \in Item /\ Leave \in Item /\ Error(0) \in Item
      /\ SegmentFinal(n) \in Item /\ Route(n) \in Item
  BY <1>3, Members
<1>5. /\ Level.type = "Level" /\ EndOfStream.type = "EndOfStream" /\ Leave.type = "Leave"
      /\ Error(0).type = "Error" /\ SegmentFinal(n).type = "SegmentFinal"
      /\ Route(n).type = "Route" /\ Route(n).segment = n
  BY <1>3, Kinds
<1>6. outbox' \in Seq(Item)
  <2>1. /\ << >> \in Seq(Item) /\ <<Level>> \in Seq(Item) /\ <<EndOfStream>> \in Seq(Item)
        /\ <<Error(0), Leave>> \in Seq(Item)
    BY <1>4
  <2>2. /\ <<SegmentFinal(n), Route(n)>> \in Seq(Item)
        /\ <<Level, SegmentFinal(n), Route(n)>> \in Seq(Item)
    BY <1>4
  <2>3. /\ <<SegmentFinal(n), Route(n), Level>> \in Seq(Item)
        /\ <<SegmentFinal(n), Route(n), EndOfStream>> \in Seq(Item)
    BY <1>4
  <2> QED BY <1>2, <2>1, <2>2, <2>3
<1>7. TypeInv'
  BY <1>1, <1>3, <1>6 DEF TypeInv
<1>8. \A i \in DOMAIN outbox' : outbox'[i].type \in {"EndOfStream", "Leave"} => i = Len(outbox')
  <2>1. CASE outbox' = << >>
    BY <2>1
  <2>2. CASE outbox' = <<Level>> \/ outbox' = <<EndOfStream>>
    <3>1. Len(outbox') = 1 /\ DOMAIN outbox' = {1}
      BY <2>2
    <3> QED BY <3>1
  <2>3. CASE outbox' \in {<<Level, SegmentFinal(n), Route(n)>>, <<SegmentFinal(n), Route(n)>>}
    BY <2>3, <1>5
  <2>4. CASE outbox' = <<SegmentFinal(n), Route(n), Level>>
    BY <2>4, <1>5
  <2>5. CASE outbox' = <<SegmentFinal(n), Route(n), EndOfStream>>
    BY <2>5, <1>5
  <2>6. CASE outbox' = <<Error(0), Leave>>
    BY <2>6, <1>5
  <2> QED BY <1>2, <2>1, <2>2, <2>3, <2>4, <2>5, <2>6
<1>9. TaskInv'
  BY <1>1, <1>8 DEF TaskInv
<1>10. Ordered(delivered)' /\ Closed(delivered)'
  BY <1>1 DEF Ordered, Closed, Says
<1>11. ASSUME session = "loop"
       PROVE  Ordered(Told)' /\ Closed(Told)' /\ AnnouncedInv' /\ HeldInv'
  <2>1. Told' = Told /\ Ordered(Told) /\ Closed(Told) /\ AnnouncedInv /\ HeldInv
    BY <1>1, <1>11 DEF Inv, Told
  <2>2. Ordered(Told)' /\ Closed(Told)'
    BY <1>1, <2>1 DEF Ordered, Closed, Says
  <2>3. \A i \in DOMAIN outbox' :
          outbox'[i].type = "Route" =>
            \E k \in 1 .. i - 1 : outbox'[k] = SegmentFinal(outbox'[i].segment)
    BY <1>2, <1>5
  <2>4. AnnouncedInv'
    BY <1>1, <2>1, <2>3 DEF AnnouncedInv
  <2>5. Says(outbox', Error(0)) \/ reported' = reported \/ Says(outbox', Route(n))
    BY <1>2 DEF Says
  <2>6. HeldInv'
    <3>1. ASSUME worker # "off", ~Says(Told, Error(0)), ~Says(outbox', Error(0)),
                 NEW m \in 1 .. reported'
          PROVE  Answered(Told, m) \/ Held(m)'
      <4>1. CASE m \in 1 .. reported
        <5>1. Answered(Told, m) \/ Held(m)
          BY <1>1, <2>1, <3>1, <4>1 DEF HeldInv, Says
        <5> QED BY <1>1, <5>1 DEF Held, Says
      <4>2. CASE m \notin 1 .. reported
        <5>1. m = n /\ reported' # reported
          BY <1>2, <1>3, <3>1, <4>2 DEF n
        <5> QED BY <5>1, <2>5, <3>1 DEF Held
      <4> QED BY <4>1, <4>2
    <3> QED BY <1>1, <2>1, <3>1 DEF HeldInv
  <2> QED BY <2>2, <2>4, <2>6
<1> QED BY <1>1, <1>7, <1>9, <1>10, <1>11 DEF Inv
\* What is first in the outbox goes, and may leave an error in its place.
LEMMA RouteStep ==
  ASSUME Inv, RouteSegment
  PROVE  Inv'
<1> DEFINE n == Head(outbox).segment
<1>1. /\ consumer = "running" /\ outbox # << >> /\ Head(outbox).type = "Route"
      /\ UNCHANGED <<session, delivered, probes, consumer, reported, language_open,
                      worker, routed>>
      /\ TypeInv /\ TaskInv /\ Ordered(delivered) /\ Closed(delivered)
  BY DEF RouteSegment, Inv, session_side, worker_side
<1>2. \/ ~language_open /\ outbox' = Tail(outbox) /\ segments' = segments
      \/ outbox' = <<Error(n)>> \o Tail(outbox) /\ segments' = segments
      \/ worker # "done" /\ outbox' = Tail(outbox) /\ segments' = Append(segments, n)
  BY DEF RouteSegment
<1>3. /\ Tail(outbox) \in Seq(Item) /\ Head(outbox) = outbox[1] /\ 1 \in DOMAIN outbox
      /\ Len(outbox) \in Nat /\ Len(Tail(outbox)) = Len(outbox) - 1
      /\ DOMAIN outbox = 1 .. Len(outbox) /\ DOMAIN Tail(outbox) = 1 .. Len(outbox) - 1
      /\ \A i \in DOMAIN Tail(outbox) : i + 1 \in DOMAIN outbox /\ Tail(outbox)[i] = outbox[i + 1]
      /\ segments \in Seq(Nat)
  BY <1>1 DEF TypeInv
<1>4. n \in Nat /\ outbox[1] = Route(n) /\ Error(n) \in Item /\ Error(n).type = "Error"
      /\ SegmentFinal(n) # outbox[1]
  BY <1>1, <1>3, ItemKinds, Members, Kinds DEF TypeInv
<1> HIDE DEF n
\* What stays in the outbox after this.
<1>5. ASSUME outbox' = <<Error(n)>> \o Tail(outbox)
      PROVE  /\ outbox' \in Seq(Item) /\ Len(outbox') = Len(outbox)
             /\ DOMAIN outbox' = DOMAIN outbox /\ outbox'[1] = Error(n)
             /\ \A i \in DOMAIN outbox : i # 1 => outbox'[i] = outbox[i]
  <2>1. /\ <<Error(n)>> \in Seq(Item) /\ Len(<<Error(n)>>) = 1 /\ <<Error(n)>>[1] = Error(n)
    BY <1>4
  <2>2. /\ outbox' \in Seq(Item) /\ Len(outbox') = Len(outbox)
        /\ \A i \in 1 .. Len(outbox) :
             outbox'[i] = IF i <= 1 THEN <<Error(n)>>[i] ELSE Tail(outbox)[i - 1]
    BY <1>3, <1>5, <2>1, ConcatProperties
  <2>3. DOMAIN outbox' = DOMAIN outbox /\ outbox'[1] = Error(n)
    BY <1>3, <2>1, <2>2
  <2>4. ASSUME NEW i \in DOMAIN outbox, i # 1
        PROVE  outbox'[i] = outbox[i]
    <3>1. i - 1 \in DOMAIN Tail(outbox) /\ (i - 1) + 1 = i /\ ~(i <= 1) /\ i \in 1 .. Len(outbox)
      BY <1>3, <2>4
    <3>2. outbox'[i] = Tail(outbox)[i - 1] /\ Tail(outbox)[i - 1] = outbox[i]
      BY <1>3, <2>2, <3>1
    <3> QED BY <3>2
  <2> QED BY <2>2, <2>3, <2>4
<1>6. ASSUME segments' = Append(segments, n)
      PROVE  /\ segments' \in Seq(Nat) /\ DOMAIN segments \subseteq DOMAIN segments'
             /\ \A i \in DOMAIN segments : segments'[i] = segments[i]
             /\ \A i \in DOMAIN segments' : i \in DOMAIN segments \/ segments'[i] = n
             /\ \E i \in DOMAIN segments' : segments'[i] = n
  BY <1>3, <1>4, <1>6
<1>7. TypeInv'
  BY <1>1, <1>2, <1>3, <1>5, <1>6 DEF TypeInv
<1>8. \A i \in DOMAIN outbox' : outbox'[i].type \in {"EndOfStream", "Leave"} => i = Len(outbox')
  <2>1. CASE outbox' = Tail(outbox)
    BY <1>1, <1>3, <2>1 DEF TaskInv
  <2>2. CASE outbox' = <<Error(n)>> \o Tail(outbox)
    BY <1>1, <1>4, <1>5, <2>2 DEF TaskInv
  <2> QED BY <1>2, <2>1, <2>2
<1>9. TaskInv'
  BY <1>1, <1>2, <1>8 DEF TaskInv
<1>10. Ordered(delivered)' /\ Closed(delivered)'
  BY <1>1 DEF Ordered, Closed, Says, Answered
<1>11. ASSUME session = "loop"
       PROVE  Ordered(Told)' /\ Closed(Told)' /\ AnnouncedInv' /\ HeldInv'
  <2>1. Told' = Told /\ Ordered(Told) /\ Closed(Told) /\ AnnouncedInv /\ HeldInv
    BY <1>1, <1>11 DEF Inv, Told
  <2>2. Ordered(Told)' /\ Closed(Told)'
    BY <1>1, <2>1 DEF Ordered, Closed, Says, Answered
  <2>3. Says(Told, SegmentFinal(n))
    BY <1>3, <1>4, <2>1, Kinds DEF AnnouncedInv
  <2>4. ASSUME NEW i \in DOMAIN outbox', outbox'[i].type = "Route"
        PROVE  \/ Says(Told, SegmentFinal(outbox'[i].segment))
               \/ \E k \in 1 .. i - 1 : outbox'[k] = SegmentFinal(outbox'[i].segment)
    <3> DEFINE q == SegmentFinal(outbox'[i].segment)
    <3>1. CASE outbox' = Tail(outbox)
      <4>1. Says(Told, q) \/ \E k \in 1 .. i : outbox[k] = q
        <5>1. i \in Nat /\ i + 1 \in DOMAIN outbox /\ outbox'[i] = outbox[i + 1]
          BY <1>3, <2>4, <3>1
        <5>2. \/ Says(Told, SegmentFinal(outbox[i + 1].segment))
              \/ \E k \in 1 .. (i + 1) - 1 : outbox[k] = SegmentFinal(outbox[i + 1].segment)
          BY <2>1, <2>4, <5>1 DEF AnnouncedInv
        <5>3. (i + 1) - 1 = i
          BY <5>1
        <5> QED BY <5>1, <5>2, <5>3
      <4>2. ASSUME NEW k \in 1 .. i, outbox[k] = q
            PROVE  Says(Told, q) \/ \E m \in 1 .. i - 1 : outbox'[m] = q
        <5>1. CASE k = 1
          <6>1. outbox[1].type = "Route" /\ i + 1 \in DOMAIN outbox
            BY <1>1, <1>3, <3>1
          <6>2. outbox'[i] \in Item
            BY <1>7, <2>4 DEF TypeInv
          <6>3. q.type = "SegmentFinal"
            BY <6>2, <2>4, ItemKinds, Kinds
          <6> QED BY <5>1, <4>2, <6>1, <6>3
        <5>2. CASE k # 1
          <6>1. k - 1 \in 1 .. i - 1 /\ k - 1 \in DOMAIN Tail(outbox) /\ (k - 1) + 1 = k
            BY <1>3, <3>1, <5>2
          <6> QED BY <6>1, <4>2, <1>3, <3>1
        <5> QED BY <5>1, <5>2
      <4> QED BY <4>1, <4>2
    <3>2. CASE outbox' = <<Error(n)>> \o Tail(outbox)
      <4>1. i # 1 /\ i \in DOMAIN outbox /\ outbox'[i] = outbox[i]
        BY <1>4, <1>5, <2>4, <3>2
      <4>2. Says(Told, q) \/ \E k \in 1 .. i - 1 : outbox[k] = q
        BY <2>1, <2>4, <4>1 DEF AnnouncedInv
      <4>3. ASSUME NEW k \in 1 .. i - 1, outbox[k] = q
            PROVE  outbox'[k] = q
        <5>1. k \in DOMAIN outbox
          BY <1>3, <4>1
        <5>2. outbox'[i] \in Item
          BY <1>7, <2>4 DEF TypeInv
        <5>3. q.type = "SegmentFinal"
          BY <5>2, <2>4, ItemKinds, Kinds
        <5>4. k # 1
          BY <1>1, <1>3, <4>3, <5>3
        <5> QED BY <1>5, <3>2, <4>3, <5>1, <5>4
      <4> QED BY <4>2, <4>3
    <3> QED BY <1>2, <3>1, <3>2
  <2>5. \A i \in DOMAIN segments' : Says(Told, SegmentFinal(segments'[i]))
    <3>1. CASE segments' = segments
      BY <2>1, <3>1 DEF AnnouncedInv
    <3>2. CASE segments' = Append(segments, n)
      BY <1>6, <2>1, <2>3, <3>2 DEF AnnouncedInv
    <3> QED BY <1>2, <3>1, <3>2
  <2>6. AnnouncedInv'
    BY <1>1, <2>1, <2>4, <2>5 DEF AnnouncedInv
  <2>7. HeldInv'
    <3>1. ASSUME worker # "off", ~Says(Told, Error(0)), ~Says(outbox', Error(0)),
                 NEW m \in 1 .. reported
          PROVE  Answered(Told, m) \/ Held(m)'
      <4>1. language_open
        BY <1>1, <3>1 DEF TaskInv
      <4>2. ~Says(outbox, Error(0))
        <5>1. \A i \in DOMAIN outbox : outbox[i] = Error(0) => Says(outbox', Error(0))
          <6> SUFFICES ASSUME NEW i \in DOMAIN outbox, outbox[i] = Error(0)
                       PROVE  Says(outbox', Error(0))
            OBVIOUS
          <6>1. i # 1
            BY <1>1, <1>3, Kinds
          <6>2. CASE outbox' = Tail(outbox)
            <7>1. i - 1 \in DOMAIN Tail(outbox) /\ (i - 1) + 1 = i
              BY <1>3, <6>1
            <7> QED BY <7>1, <6>2, <1>3 DEF Says
          <6>3. CASE outbox' = <<Error(n)>> \o Tail(outbox)
            BY <6>1, <6>3, <1>5 DEF Says
          <6> QED BY <1>2, <6>2, <6>3
        <5> QED BY <3>1, <5>1 DEF Says
      <4>3. Answered(Told, m) \/ Held(m)
        BY <2>1, <3>1, <4>2 DEF HeldInv
      <4>4. /\ m \in Nat /\ Error(m).type = "Error"
            /\ Route(m).type = "Route" /\ Route(m).segment = m
        BY <1>1, Kinds DEF TypeInv
      <4>5. ASSUME NEW i \in DOMAIN outbox, i # 1
            PROVE  Says(outbox', outbox[i])
        <5>1. CASE outbox' = Tail(outbox)
          <6>1. i - 1 \in DOMAIN Tail(outbox) /\ (i - 1) + 1 = i
            BY <1>3, <4>5
          <6> QED BY <6>1, <5>1, <1>3 DEF Says
        <5>2. CASE outbox' = <<Error(n)>> \o Tail(outbox)
          BY <1>5, <4>5, <5>2 DEF Says
        <5> QED BY <1>2, <5>1, <5>2
      <4>6. ASSUME Says(outbox, Error(m))
            PROVE  Held(m)'
        <5>1. PICK i \in DOMAIN outbox : outbox[i] = Error(m)
          BY <4>6 DEF Says
        <5>2. i # 1
          BY <1>1, <1>3, <4>4, <5>1
        <5> QED BY <4>5, <5>1, <5>2 DEF Held
      <4>7. ASSUME Says(outbox, Route(m))
            PROVE  Held(m)'
        <5>1. PICK i \in DOMAIN outbox : outbox[i] = Route(m)
          BY <4>7 DEF Says
        <5>2. CASE i # 1
          BY <4>5, <5>1, <5>2 DEF Held
        <5>3. CASE i = 1
          <6>1. m = n
            BY <1>4, <4>4, <5>1, <5>3, Kinds
          <6>2. CASE outbox' = <<Error(n)>> \o Tail(outbox)
            BY <1>3, <1>5, <6>1, <6>2 DEF Held, Says
          <6>3. CASE segments' = Append(segments, n)
            BY <1>6, <6>1, <6>3 DEF Held
          <6> QED BY <1>2, <4>1, <6>2, <6>3
        <5> QED BY <5>2, <5>3
      <4>8. ASSUME NEW i \in DOMAIN segments, segments[i] = m
            PROVE  Held(m)'
        BY <1>2, <1>6, <4>8 DEF Held
      <4> QED BY <1>1, <4>3, <4>6, <4>7, <4>8 DEF Held
    <3> QED BY <1>1, <2>1, <3>1 DEF HeldInv
  <2> QED BY <2>2, <2>6, <2>7
<1> QED BY <1>1, <1>7, <1>9, <1>10, <1>11 DEF Inv
\* The consumer stops pulling, and waits for the worker: nothing is sent.
LEMMA StoppingStep ==
  ASSUME Inv, StopPulling \/ JoinWorker
  PROVE  Inv'
<1>1. /\ consumer \in {"running", "joining", "leaving"} /\ consumer' # "running"
      /\ outbox' = << >> /\ ~Says(outbox, Error(0))
      /\ \A n \in Nat : ~Says(outbox, Route(n)) /\ ~Says(outbox, Error(n))
      /\ consumer' = "ending" => worker \in {"off", "done"}
  <2>1. CASE StopPulling
    <3>1. /\ consumer = "running" /\ outbox # << >> /\ outbox' = Tail(outbox)
          /\ Head(outbox).type \in {"EndOfStream", "Leave"}
          /\ consumer' \in {"joining", "leaving"} /\ outbox \in Seq(Item)
          /\ \A i \in DOMAIN outbox :
               outbox[i].type \in {"EndOfStream", "Leave"} => i = Len(outbox)
      BY <2>1 DEF StopPulling, Inv, TypeInv, TaskInv
    <3>2. 1 \in DOMAIN outbox /\ outbox[1] = Head(outbox)
      BY <3>1
    <3>3. Len(outbox) = 1
      BY <3>1, <3>2
    <3>4. outbox' = << >> /\ DOMAIN outbox = {1}
      BY <3>1, <3>3
    <3>5. \A n \in Nat : outbox[1] # Route(n) /\ outbox[1] # Error(n)
      BY <3>1, <3>2, Kinds
    <3> QED BY <3>1, <3>4, <3>5 DEF Says
  <2>2. CASE JoinWorker
    <3>1. outbox = << >>
      BY <2>2 DEF JoinWorker, Inv, TaskInv
    <3> QED BY <2>2, <3>1 DEF JoinWorker, Joined, Says
  <2> QED BY <2>1, <2>2
<1>2. /\ UNCHANGED <<session, delivered, probes, reported, segments, worker, routed>>
      /\ TypeInv /\ TaskInv /\ Ordered(delivered) /\ Closed(delivered)
  BY DEF StopPulling, JoinWorker, Inv, session_side, worker_side
<1>3. TypeInv'
  BY <1>1, <1>2 DEF TypeInv
<1>4. TaskInv'
  BY <1>1, <1>2 DEF TaskInv
<1>5. Ordered(delivered)' /\ Closed(delivered)'
  BY <1>1, <1>2 DEF Ordered, Closed, Says
<1>6. ASSUME session = "loop"
      PROVE  Ordered(Told)' /\ Closed(Told)' /\ AnnouncedInv' /\ HeldInv'
  <2>1. Told' = Told /\ Ordered(Told) /\ Closed(Told) /\ AnnouncedInv /\ HeldInv
    BY <1>2, <1>6 DEF Inv, Told
  <2>2. Ordered(Told)' /\ Closed(Told)'
    BY <1>1, <1>2, <2>1 DEF Ordered, Closed, Says
  <2>3. AnnouncedInv'
    BY <1>1, <1>2, <2>1 DEF AnnouncedInv
  <2>4. HeldInv'
    BY <1>1, <1>2, <2>1 DEF HeldInv, Held, Says, TypeInv
  <2> QED BY <2>2, <2>3, <2>4
<1> QED BY <1>2, <1>3, <1>4, <1>5, <1>6 DEF Inv

\* A probe of the worker, which is still running.
LEMMA WorkerProbe ==
  ASSUME TypeInv, Ordered(Told), Closed(Told), worker \notin {"off", "done"},
         NEW p \in Probe, probes' = Append(probes, p), delivered' = delivered,
         p # Ended, p.type = "LanguageRouted" => Says(Told, SegmentFinal(p.segment))
  PROVE  /\ Ordered(Told)' /\ Closed(Told)'
         /\ \A q : Says(Told', q) <=> Says(Told, q) \/ q = p
<1>1. /\ Told \in Seq(Probe) /\ Told' = Append(Told, p)
      /\ Len(Told') = Len(Told) + 1 /\ Told'[Len(Told) + 1] = p
      /\ \A i \in DOMAIN Told : i \in DOMAIN Told' /\ Told'[i] = Told[i]
      /\ \A q : Says(Told', q) <=> Says(Told, q) \/ q = p
  BY Sending
<1>2. DOMAIN Told = 1 .. Len(Told) /\ DOMAIN Told' = 1 .. Len(Told) + 1 /\ Len(Told) \in Nat
  BY <1>1
<1>3. ASSUME NEW i \in DOMAIN Told', Told'[i].type = "LanguageRouted"
      PROVE  \E k \in 1 .. i - 1 : Told'[k] = SegmentFinal(Told'[i].segment)
  <2>1. CASE i \in DOMAIN Told
    <3>1. PICK k \in 1 .. i - 1 : Told[k] = SegmentFinal(Told[i].segment)
      BY <1>1, <1>3, <2>1 DEF Ordered
    <3> QED BY <1>1, <1>2, <2>1, <3>1
  <2>2. CASE i \notin DOMAIN Told
    <3>1. i = Len(Told) + 1 /\ Told'[i] = p
      BY <1>1, <1>2, <1>3, <2>2
    <3>2. PICK k \in DOMAIN Told : Told[k] = SegmentFinal(p.segment)
      BY <1>3, <3>1 DEF Says
    <3> QED BY <1>1, <1>2, <3>1, <3>2
  <2> QED BY <2>1, <2>2
<1>4. ~Says(Told', Ended)
  BY <1>1 DEF Closed, Says
<1> QED BY <1>1, <1>3, <1>4 DEF Ordered, Closed, Says

\* The worker cannot work: it says so, and the segments in its queue are lost.
LEMMA FailStep ==
  ASSUME Inv, FailWorker
  PROVE  Inv'
<1>1. /\ worker = "failing" /\ worker' = "done" /\ segments' = << >>
      /\ probes' = Append(probes, Error(0))
      /\ UNCHANGED <<session, delivered, consumer, outbox, reported, language_open, routed>>
      /\ TypeInv /\ TaskInv /\ Ordered(delivered) /\ Closed(delivered)
  BY DEF FailWorker, Send, Inv, session_side, consumer_side
<1>2. Error(0) \in Probe /\ Error(0) # Ended /\ Error(0).type # "LanguageRouted"
  BY Members, Kinds
<1>3. TypeInv' /\ TaskInv'
  <2>1. probes' \in Seq(Probe)
    BY <1>1, <1>2 DEF TypeInv
  <2> QED BY <1>1, <2>1 DEF TypeInv, TaskInv
<1>4. Ordered(delivered)' /\ Closed(delivered)'
  BY <1>1 DEF Ordered, Closed, Says
<1>5. ASSUME session = "loop"
      PROVE  Ordered(Told)' /\ Closed(Told)' /\ AnnouncedInv' /\ HeldInv'
  <2>1. Ordered(Told) /\ Closed(Told) /\ AnnouncedInv
    BY <1>5 DEF Inv
  <2>2. /\ Ordered(Told)' /\ Closed(Told)'
        /\ \A q : Says(Told', q) <=> Says(Told, q) \/ q = Error(0)
    BY <1>1, <1>2, <2>1, WorkerProbe
  <2>3. AnnouncedInv'
    BY <1>1, <2>1, <2>2 DEF AnnouncedInv
  <2>4. HeldInv'
    BY <2>2 DEF HeldInv
  <2> QED BY <2>2, <2>3, <2>4
<1> QED BY <1>1, <1>3, <1>4, <1>5 DEF Inv

\* A segment is routed, or cannot be.
LEMMA RoutedStep ==
  ASSUME Inv, RouteTaken
  PROVE  Inv'
<1>1. PICK p \in {LanguageRouted(routed), Error(routed)} : probes' = Append(probes, p)
  BY DEF RouteTaken, Send
<1>2. /\ worker = "routing" /\ worker' = "ready"
      /\ UNCHANGED <<session, delivered, consumer, outbox, reported, language_open,
                      segments, routed>>
      /\ TypeInv /\ TaskInv /\ Ordered(delivered) /\ Closed(delivered)
  BY DEF RouteTaken, Inv, session_side, consumer_side
<1>3. /\ p \in Probe /\ p # Ended
      /\ p.type = "LanguageRouted" => p.segment = routed
  BY <1>1, <1>2, Members, Kinds DEF TypeInv
<1>4. TypeInv' /\ TaskInv'
  <2>1. probes' \in Seq(Probe)
    BY <1>1, <1>2, <1>3 DEF TypeInv
  <2> QED BY <1>2, <2>1 DEF TypeInv, TaskInv
<1>5. Ordered(delivered)' /\ Closed(delivered)'
  BY <1>2 DEF Ordered, Closed, Says
<1>6. ASSUME session = "loop"
      PROVE  Ordered(Told)' /\ Closed(Told)' /\ AnnouncedInv' /\ HeldInv'
  <2>1. Ordered(Told) /\ Closed(Told) /\ AnnouncedInv /\ HeldInv
    BY <1>6 DEF Inv
  <2>2. p.type = "LanguageRouted" => Says(Told, SegmentFinal(p.segment))
    BY <1>2, <1>3, <2>1 DEF AnnouncedInv
  <2>3. /\ Ordered(Told)' /\ Closed(Told)'
        /\ \A q : Says(Told', q) <=> Says(Told, q) \/ q = p
    BY <1>1, <1>2, <1>3, <2>1, <2>2, WorkerProbe
  <2>4. AnnouncedInv'
    BY <1>2, <2>1, <2>3 DEF AnnouncedInv
  <2>5. Answered(Told', routed)
    BY <1>1, <2>3 DEF Answered
  <2>6. HeldInv'
    BY <1>2, <2>1, <2>3, <2>5 DEF HeldInv, Held, Answered
  <2> QED BY <2>3, <2>4, <2>6
<1> QED BY <1>2, <1>4, <1>5, <1>6 DEF Inv

\* The worker starts, takes a segment, or stops: nothing is sent.
LEMMA WorkerStep ==
  ASSUME Inv, StartWorker \/ TakeSegment \/ StopWorker
  PROVE  Inv'
<1>1. /\ UNCHANGED <<session, delivered, probes, consumer, outbox, reported, language_open>>
      /\ TypeInv /\ TaskInv /\ Ordered(delivered) /\ Closed(delivered)
      /\ worker \in {"starting", "ready"} /\ worker' # "off"
  BY DEF StartWorker, TakeSegment, StopWorker, Inv, session_side, consumer_side
<1>2. \/ segments' = segments /\ routed' = routed /\ worker' # "routing"
         /\ (worker' = "done" => segments = << >>)
      \/ /\ segments # << >> /\ worker' = "routing"
         /\ routed' = Head(segments) /\ segments' = Tail(segments)
  BY DEF StartWorker, TakeSegment, StopWorker, NoMoreSegments
<1>3. ASSUME segments # << >>
      PROVE  /\ Head(segments) \in Nat /\ Tail(segments) \in Seq(Nat)
             /\ Head(segments) = segments[1] /\ 1 \in DOMAIN segments
             /\ \A i \in DOMAIN Tail(segments) :
                  i + 1 \in DOMAIN segments /\ Tail(segments)[i] = segments[i + 1]
             /\ \A i \in DOMAIN segments :
                  i # 1 => i - 1 \in DOMAIN Tail(segments) /\ Tail(segments)[i - 1] = segments[i]
  BY <1>1, <1>3 DEF TypeInv
<1> DEFINE Taken == /\ segments # << >> /\ worker' = "routing"
                    /\ routed' = Head(segments) /\ segments' = Tail(segments)
<1>4. TypeInv' /\ TaskInv'
  <2>1. segments' \in Seq(Nat) /\ routed' \in Nat
    BY <1>1, <1>2, <1>3 DEF TypeInv
  <2>2. worker' = "done" => segments' = << >>
    BY <1>2
  <2> QED BY <1>1, <2>1, <2>2 DEF TypeInv, TaskInv
<1>5. Ordered(delivered)' /\ Closed(delivered)'
  BY <1>1 DEF Ordered, Closed, Says
<1>6. ASSUME session = "loop"
      PROVE  Ordered(Told)' /\ Closed(Told)' /\ AnnouncedInv' /\ HeldInv'
  <2>1. Told' = Told /\ Ordered(Told) /\ Closed(Told) /\ AnnouncedInv /\ HeldInv
    BY <1>1, <1>6 DEF Inv, Told
  <2>2. Ordered(Told)' /\ Closed(Told)'
    BY <1>1, <2>1 DEF Ordered, Closed, Says
  <2>3. AnnouncedInv'
    <3>0. \A i \in DOMAIN segments : Says(Told, SegmentFinal(segments[i]))
      BY <2>1 DEF AnnouncedInv
    <3>1. \A i \in DOMAIN segments' : Says(Told, SegmentFinal(segments'[i]))
      <4>1. CASE segments' = segments
        BY <3>0, <4>1
      <4>2. CASE segments # << >> /\ segments' = Tail(segments)
        BY <1>3, <3>0, <4>2
      <4> QED BY <1>2, <4>1, <4>2
    <3>2. worker' = "routing" => Says(Told, SegmentFinal(routed'))
      <4>1. worker' = "routing" => segments # << >> /\ routed' = Head(segments)
        BY <1>2
      <4> QED BY <1>3, <3>0, <4>1
    <3> QED BY <1>1, <2>1, <3>1, <3>2 DEF AnnouncedInv
  <2>4. ASSUME NEW n, Held(n)
        PROVE  Held(n)'
    <3>1. ASSUME NEW i \in DOMAIN segments, segments[i] = n
          PROVE  Held(n)'
      <4>1. CASE Taken
        <5>1. CASE i = 1
          BY <1>3, <3>1, <4>1, <5>1 DEF Held
        <5>2. CASE i # 1
          BY <1>3, <3>1, <4>1, <5>2 DEF Held
        <5> QED BY <5>1, <5>2
      <4>2. CASE segments' = segments
        BY <3>1, <4>2 DEF Held
      <4> QED BY <1>2, <4>1, <4>2
    <3>2. worker # "routing" /\ outbox' = outbox
      BY <1>1
    <3> QED BY <2>4, <3>1, <3>2 DEF Held
  <2>5. HeldInv'
    BY <1>1, <2>1, <2>4 DEF HeldInv
  <2> QED BY <2>2, <2>3, <2>5
<1> QED BY <1>1, <1>4, <1>5, <1>6 DEF Inv

LEMMA NextInv == Inv /\ [Next]_vars => Inv'
<1> SUFFICES ASSUME Inv, [Next]_vars PROVE Inv'
  OBVIOUS
<1>1. CASE ClientChunk \/ ClientEnd \/ ClientGone
  BY <1>1, QuietStep DEF ClientChunk, ClientEnd, ClientGone, session_side
<1>2. CASE SeeClose \/ ProbesClosed \/ Finish
  BY <1>2, QuietStep DEF SeeClose, ProbesClosed, Finish, StopLoop
<1>3. CASE ForwardProbe
  BY <1>3, ForwardStep
<1>4. CASE Consume
  BY <1>4, PullStep, SendProbeStep, RouteStep, StoppingStep, SendEndedStep DEF Consume
<1>5. CASE Work
  BY <1>5, WorkerStep, FailStep, RoutedStep DEF Work
<1>6. CASE UNCHANGED vars
  BY <1>6, QuietStep DEF vars, session_side
<1> QED BY <1>1, <1>2, <1>3, <1>4, <1>5, <1>6 DEF Next

LEMMA Invariance == Spec => []Inv
<1> QED BY InitInv, NextInv, PTL DEF Spec

-----------------------------------------------------------------------------
\* The consumer and the worker send to one queue, and a client may go away at any
\* moment (audio_input_ws.rs): it hears of a segment before it hears of its language.
THEOREM LanguageAfterSegment == Spec => []LanguageFollowsSegment
<1>1. Inv => LanguageFollowsSegment
  BY DEF Inv, Ordered, LanguageFollowsSegment
<1> QED BY <1>1, Invariance, PTL

\* "Ended" is the last thing a client is told, and no segment announced before it is
\* still without its language or an error, whatever the tasks were doing (Ended in
\* audio_input_ws.rs).
THEOREM EndedCloses == Spec => []EndedIsLast
<1>1. Inv => EndedIsLast
  <2> SUFFICES ASSUME Inv, NEW i \in At(Ended)
               PROVE  /\ i = Len(delivered)
                      /\ worker # "off" /\ At(Error(0)) = {} =>
                           \A n \in 1 .. reported : At(LanguageRouted(n)) \cup At(Error(n)) # {}
    BY DEF EndedIsLast
  <2>1. \A q : Says(delivered, q) <=> At(q) # {}
    BY DEF Says, At
  <2>2. \A n : Answered(delivered, n) => At(LanguageRouted(n)) \cup At(Error(n)) # {}
    BY <2>1 DEF Answered
  <2>3. i \in DOMAIN delivered /\ delivered[i] = Ended
    BY DEF At
  <2> QED BY <2>1, <2>2, <2>3 DEF Inv, Closed
<1> QED BY <1>1, Invariance, PTL
===============================================================================
