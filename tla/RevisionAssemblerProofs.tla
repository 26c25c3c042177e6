---------------------- MODULE RevisionAssemblerProofs ----------------------
(***************************************************************************)
(* What RevisionAssembler guarantees for every fade, any number of         *)
(* waveforms and any lengths: what was played stays, nothing of a replaced *)
(* suffix is left, and one sample at most is heard again.                  *)
(***************************************************************************)
EXTENDS RevisionAssembler, SequenceTheorems, FiniteSetTheorems, TLAPS

Sample == SUBSET (Nat \X Nat)
Played == 1 .. played_count
Pending == played_count + 1 .. Len(buffer)

TypeInv ==
  /\ buffer \in Seq(Sample)
  /\ played_count \in 0 .. Len(buffer)
  /\ waveforms \in Nat /\ revised \in 0 .. waveforms

\* A pending sample that is new: it holds audio that is nowhere before it, and that is no
\* older than the last revision.
New(p) == \E x \in buffer[p] : x[1] >= revised /\ \A q \in 1 .. p - 1 : x \notin buffer[q]

\* Every renderer sample in the buffer is of a waveform that was rendered, and every
\* pending sample is new but for one, which was played.
Inv ==
  /\ TypeInv
  /\ \A i \in 1 .. Len(buffer) : \A x \in buffer[i] : x[1] <= waveforms
  /\ \E r \in Nat : \A p \in Pending : New(p) \/ (p = r /\ buffer[p] \in PlayedSamples)

-----------------------------------------------------------------------------
\* The elements of a concatenation.
LEMMA ConcatFacts ==
  ASSUME NEW S, NEW s \in Seq(S), NEW t \in Seq(S)
  PROVE  /\ s \o t \in Seq(S) /\ Len(s \o t) = Len(s) + Len(t)
         /\ \A i \in 1 .. Len(s) : (s \o t)[i] = s[i]
         /\ \A i \in 1 .. Len(t) : (s \o t)[Len(s) + i] = t[i]
<1>1. Len(s) \in Nat /\ Len(t) \in Nat
  OBVIOUS
<1>2. s \o t \in Seq(S) /\ Len(s \o t) = Len(s) + Len(t)
  BY ConcatProperties
<1>3. ASSUME NEW i \in 1 .. Len(s) PROVE (s \o t)[i] = s[i]
  BY <1>1, ConcatProperties
<1>4. ASSUME NEW i \in 1 .. Len(t) PROVE (s \o t)[Len(s) + i] = t[i]
  <2>1. /\ Len(s) + i \in 1 .. Len(s) + Len(t) /\ ~(Len(s) + i <= Len(s))
        /\ Len(s) + i - Len(s) = i
    BY <1>1
  <2> QED
    BY <2>1, ConcatProperties
<1> QED
  BY <1>2, <1>3, <1>4

\* The first n elements of two sequences that agree on them.
LEMMA SamePrefix ==
  ASSUME NEW S, NEW n \in Nat, NEW s \in Seq(S), NEW t \in Seq(S), n <= Len(s), n <= Len(t),
         \A i \in 1 .. n : t[i] = s[i]
  PROVE  SubSeq(t, 1, n) = SubSeq(s, 1, n)
<1>1. ASSUME NEW q \in Seq(S), n <= Len(q)
      PROVE  /\ SubSeq(q, 1, n) \in Seq(S) /\ Len(SubSeq(q, 1, n)) = n
             /\ \A i \in 1 .. n : SubSeq(q, 1, n)[i] = q[i]
  <2>1. \A i \in 1 .. n : q[i] \in S
    BY <1>1
  <2>2. \A i \in 1 .. n - 1 + 1 : SubSeq(q, 1, n)[i] = q[1 + i - 1]
    BY <2>1, SubSeqProperties
  <2>3. SubSeq(q, 1, n) \in Seq(S) /\ Len(SubSeq(q, 1, n)) = IF 1 <= n THEN n - 1 + 1 ELSE 0
    BY <2>1, SubSeqProperties
  <2> QED
    BY <2>2, <2>3
<1> QED
  BY <1>1, SeqEqual

\* A sample of the next waveform, and those of the buffer.
LEMMA FreshFacts ==
  ASSUME TypeInv, NEW length \in Nat
  PROVE  /\ Fresh(length) \in Seq(Sample) /\ Len(Fresh(length)) = length
         /\ \A i \in 1 .. length : Fresh(length)[i] = {<<waveforms + 1, i>>}
BY DEF Fresh, TypeInv, Sample

\* What a crossfade makes of sample i: audio that was played and the new sample, or, where it
\* starts, a sample that was played.
LEMMA OutputFacts ==
  ASSUME AssemblerAssumption, TypeInv, NEW length \in Nat
  PROVE  LET out == Output(Fresh(length)) IN
         /\ out \in Seq(Sample) /\ Len(out) = length
         /\ \A i \in 1 .. length :
              \/ out[i] = {<<waveforms + 1, i>>}
              \/ \E k \in Played : out[i] = buffer[k] \cup {<<waveforms + 1, i>>}
              \/ i = 1 /\ \E k \in Played : out[i] = buffer[k]
<1> DEFINE new == Fresh(length)
<1>1. /\ new \in Seq(Sample) /\ Len(new) = length
      /\ \A i \in 1 .. length : new[i] = {<<waveforms + 1, i>>}
  BY FreshFacts
<1> HIDE DEF new
<1> DEFINE n == crossfade_len(new)
           fade_start == played_count - n
<1>2. /\ n \in Nat /\ n <= played_count /\ n <= length /\ played_count \in Nat
      /\ fade_start \in Nat
  BY <1>1 DEF crossfade_len, Lesser, TypeInv, AssemblerAssumption
<1>3. Output(new) = [i \in 1 .. length |->
        IF i <= n THEN Blend(buffer[fade_start + i], new[i], i, n) ELSE new[i]]
  BY <1>1 DEF Output
<1> HIDE DEF n
<1>4. ASSUME NEW i \in 1 .. length
      PROVE  /\ Output(new)[i] \in Sample
             /\ \/ Output(new)[i] = {<<waveforms + 1, i>>}
                \/ \E k \in Played : Output(new)[i] = buffer[k] \cup {<<waveforms + 1, i>>}
                \/ i = 1 /\ \E k \in Played : Output(new)[i] = buffer[k]
  <2>1. new[i] = {<<waveforms + 1, i>>} /\ new[i] \in Sample
    BY <1>1 DEF TypeInv, Sample
  <2>2. CASE ~(i <= n)
    BY <1>3, <2>1, <2>2
  <2>3. CASE i <= n
    <3> DEFINE k == fade_start + i
    <3>1. k \in Played /\ buffer[k] \in Sample
      BY <1>2, <2>3 DEF Played, TypeInv
    <3>2. Output(new)[i] = Blend(buffer[k], new[i], i, n)
      BY <1>3, <2>3
    <3> HIDE DEF k
    <3>3. \/ Output(new)[i] = new[i] \/ Output(new)[i] = buffer[k] \cup new[i]
          \/ i = 1 /\ Output(new)[i] = buffer[k]
      BY <3>2 DEF Blend
    <3>4. buffer[k] \cup new[i] \in Sample
      BY <2>1, <3>1 DEF Sample
    <3> QED
      BY <2>1, <3>1, <3>3, <3>4
  <2> QED
    BY <2>2, <2>3
<1>5. Output(new) \in Seq(Sample) /\ Len(Output(new)) = length
  BY <1>3, <1>4
<1> QED
  BY <1>4, <1>5 DEF new
-----------------------------------------------------------------------------
\* What every step leaves of the buffer: the played samples, and those it has appended.
Frozen ==
  /\ played_count' >= played_count
  /\ SubSeq(buffer', 1, played_count) = SubSeq(buffer, 1, played_count)

\* A push appends samples of a waveform that is new.
LEMMA PushStep ==
  ASSUME Inv, NEW length \in Nat, Push(length) PROVE Inv' /\ Frozen
<1> DEFINE L == Len(buffer)
<1>1. /\ buffer' \in Seq(Sample) /\ Len(buffer') = L + length /\ L \in Nat
      /\ \A i \in 1 .. L : buffer'[i] = buffer[i]
      /\ \A i \in 1 .. length : buffer'[L + i] = {<<waveforms + 1, i>>}
  <2> DEFINE F == Fresh(length)
  <2>1. /\ buffer \in Seq(Sample) /\ F \in Seq(Sample) /\ Len(F) = length /\ L \in Nat
        /\ \A i \in 1 .. length : F[i] = {<<waveforms + 1, i>>}
        /\ buffer' = buffer \o F
    <3>1. TypeInv /\ buffer' = buffer \o F
      BY DEF Inv, Push
    <3>2. /\ F \in Seq(Sample) /\ Len(F) = length
          /\ \A i \in 1 .. length : F[i] = {<<waveforms + 1, i>>}
      BY <3>1, FreshFacts, Zenon
    <3>3. buffer \in Seq(Sample) /\ L \in Nat
      BY <3>1 DEF TypeInv
    <3> QED
      BY <3>1, <3>2, <3>3
  <2> HIDE DEF F
  <2> QED
    BY <2>1, ConcatFacts
<1>2. /\ waveforms' = waveforms + 1 /\ UNCHANGED <<played_count, revised>>
      /\ waveforms \in Nat /\ revised \in 0 .. waveforms /\ played_count \in 0 .. L
  BY DEF Inv, TypeInv, Push
<1>3. TypeInv'
  BY <1>1, <1>2 DEF TypeInv
<1>4. \A i \in 1 .. Len(buffer') :
        i \in 1 .. L \/ \E j \in 1 .. length : i = L + j /\ buffer'[i] = {<<waveforms + 1, j>>}
  <2> TAKE i \in 1 .. Len(buffer')
  <2>1. CASE i \notin 1 .. L
    <3>1. i - L \in 1 .. length /\ i = L + (i - L)
      BY <1>1, <2>1
    <3> QED
      BY <1>1, <3>1
  <2> QED
    BY <2>1
<1>5. \A i \in 1 .. Len(buffer') : \A x \in buffer'[i] : x[1] <= waveforms'
  <2> SUFFICES ASSUME NEW i \in 1 .. Len(buffer'), NEW x \in buffer'[i] PROVE x[1] <= waveforms'
    OBVIOUS
  <2>1. CASE i \in 1 .. L
    <3>1. x \in buffer[i] /\ buffer[i] \in Sample
      BY <1>1, <2>1 DEF Inv, TypeInv
    <3>2. x[1] \in Nat /\ x[1] <= waveforms
      BY <2>1, <3>1 DEF Inv, Sample
    <3> QED
      BY <1>2, <3>2
  <2>2. ASSUME NEW j \in 1 .. length, buffer'[i] = {<<waveforms + 1, j>>}
        PROVE  x[1] <= waveforms'
    <3>1. x = <<waveforms + 1, j>>
      BY <2>2
    <3> QED
      BY <1>2, <3>1
  <2> QED
    BY <1>4, <2>1, <2>2
<1>6. ASSUME NEW p \in Pending' \ Pending PROVE New(p)'
  <2>1. p \notin 1 .. L /\ p \in 1 .. Len(buffer')
    BY <1>1, <1>2 DEF Pending
  <2>2. PICK j \in 1 .. length : p = L + j /\ buffer'[p] = {<<waveforms + 1, j>>}
    BY <1>4, <2>1
  <2> DEFINE x == <<waveforms + 1, j>>
  <2>3. ASSUME NEW q \in 1 .. p - 1 PROVE x \notin buffer'[q]
    <3>1. q \in 1 .. Len(buffer')
      BY <1>1, <2>1
    <3>2. CASE q \in 1 .. L
      BY <1>1, <1>2, <3>2 DEF Inv
    <3>3. CASE \E k \in 1 .. length : q = L + k /\ buffer'[q] = {<<waveforms + 1, k>>}
      BY <1>1, <2>2, <3>3
    <3> QED
      BY <1>4, <3>1, <3>2, <3>3
  <2>4. x \in buffer'[p] /\ x[1] >= revised'
    BY <1>2, <2>2
  <2> QED
    BY <2>3, <2>4 DEF New
<1>7. ASSUME NEW p \in Pending PROVE New(p) => New(p)'
  <2>1. p \in 1 .. L /\ 1 .. p - 1 \subseteq 1 .. L
    BY <1>1, <1>2 DEF Pending
  <2> QED
    BY <1>1, <1>2, <2>1 DEF New
<1>8. PlayedSamples' = PlayedSamples
  <2>1. \A i \in 1 .. played_count : i \in 1 .. L /\ buffer'[i] = buffer[i]
    BY <1>1, <1>2
  <2> QED
    BY <1>2, <2>1 DEF PlayedSamples
<1>9. PICK r \in Nat : \A p \in Pending : New(p) \/ (p = r /\ buffer[p] \in PlayedSamples)
  BY DEF Inv
<1>10. \A p \in Pending : buffer'[p] = buffer[p]
  BY <1>1, <1>2 DEF Pending
<1>11. \A p \in Pending' : New(p)' \/ (p = r /\ buffer'[p] \in PlayedSamples')
  BY <1>6, <1>7, <1>8, <1>9, <1>10
<1>12. Frozen
  BY <1>1, <1>2, SamePrefix DEF Frozen, Inv, TypeInv
<1> QED
  BY <1>3, <1>5, <1>11, <1>12 DEF Inv

\* What is played is no longer pending.
LEMMA MarkStep ==
  ASSUME Inv, NEW count \in Nat, MarkPlayed(count) PROVE Inv' /\ Frozen
<1>1. /\ UNCHANGED <<buffer, waveforms, revised>> /\ played_count' = played_count + count
      /\ played_count' \in 0 .. Len(buffer)
      /\ played_count \in 0 .. Len(buffer) /\ Len(buffer) \in Nat
  BY DEF Inv, TypeInv, MarkPlayed
<1>2. TypeInv' /\ \A i \in 1 .. Len(buffer') : \A x \in buffer'[i] : x[1] <= waveforms'
  BY <1>1 DEF Inv, TypeInv
<1>3. Pending' \subseteq Pending /\ PlayedSamples \subseteq PlayedSamples'
  BY <1>1 DEF Pending, PlayedSamples
<1>4. \A p : New(p)' <=> New(p)
  BY <1>1 DEF New
<1>5. PICK r \in Nat : \A p \in Pending : New(p) \/ (p = r /\ buffer[p] \in PlayedSamples)
  BY DEF Inv
<1>6. \A p \in Pending' : New(p)' \/ (p = r /\ buffer'[p] \in PlayedSamples')
  BY <1>1, <1>3, <1>4, <1>5
<1>7. Frozen
  BY <1>1 DEF Frozen
<1> QED
  BY <1>2, <1>6, <1>7 DEF Inv

\* A revision: all that is pending is of the new waveform, but for the first sample of its fade.
LEMMA ReplaceStep ==
  ASSUME AssemblerAssumption, Inv, NEW length \in Nat, replace_suffix(length),
         NEW P, P = played_count, NEW w, w = waveforms + 1,
         NEW out, out = Output(Fresh(length))
  PROVE  Inv' /\ Frozen
<1>1. /\ P \in 0 .. Len(buffer) /\ Len(buffer) \in Nat /\ P \in Nat /\ waveforms \in Nat
      /\ waveforms' = w /\ revised' = w /\ played_count' = P /\ TypeInv
      /\ buffer \in Seq(Sample)
  BY DEF Inv, TypeInv, replace_suffix
<1>2. /\ out \in Seq(Sample) /\ Len(out) = length
      /\ \A i \in 1 .. length :
           \/ out[i] = {<<w, i>>}
           \/ \E k \in Played : out[i] = buffer[k] \cup {<<w, i>>}
           \/ i = 1 /\ \E k \in Played : out[i] = buffer[k]
  <2>1. TypeInv
    BY <1>1
  <2>2. /\ Output(Fresh(length)) \in Seq(Sample) /\ Len(Output(Fresh(length))) = length
        /\ \A i \in 1 .. length :
             \/ Output(Fresh(length))[i] = {<<waveforms + 1, i>>}
             \/ \E k \in Played : Output(Fresh(length))[i] = buffer[k] \cup {<<waveforms + 1, i>>}
             \/ i = 1 /\ \E k \in Played : Output(Fresh(length))[i] = buffer[k]
    BY <2>1, OutputFacts
  <2> QED
    BY <2>2
<1>3. /\ buffer' \in Seq(Sample) /\ Len(buffer') = P + length
      /\ \A i \in 1 .. P : buffer'[i] = buffer[i]
      /\ \A i \in 1 .. length : buffer'[P + i] = out[i]
  <2> DEFINE old == SubSeq(buffer, 1, P)
  <2>1. old \in Seq(Sample) /\ Len(old) = P /\ \A i \in 1 .. P : old[i] = buffer[i]
    <3>1. \A i \in 1 .. P : buffer[i] \in Sample
      BY <1>1
    <3>2. /\ old \in Seq(Sample) /\ Len(old) = IF 1 <= P THEN P - 1 + 1 ELSE 0
          /\ \A i \in 1 .. P - 1 + 1 : old[i] = buffer[1 + i - 1]
      BY <1>1, <3>1, SubSeqProperties
    <3> QED
      BY <1>1, <3>2
  <2>2. buffer' = old \o out
    BY DEF replace_suffix
  <2> HIDE DEF old
  <2>3. /\ old \o out \in Seq(Sample) /\ Len(old \o out) = Len(old) + Len(out)
        /\ \A i \in 1 .. Len(old) : (old \o out)[i] = old[i]
        /\ \A i \in 1 .. Len(out) : (old \o out)[Len(old) + i] = out[i]
    <3>1. old \in Seq(Sample) /\ out \in Seq(Sample)
      BY <1>2, <2>1
    <3> QED
      BY ONLY <3>1, ConcatFacts
  <2> QED
    BY <1>2, <2>1, <2>2, <2>3
<1>4. TypeInv'
  BY <1>1, <1>3 DEF TypeInv
<1>5. \A k \in Played : /\ k \in 1 .. Len(buffer) /\ buffer'[k] = buffer[k]
                        /\ \A x \in buffer[k] : x[1] \in Nat /\ x[1] <= waveforms
  BY <1>1, <1>3 DEF Played, Inv, Sample
<1>6. \A i \in 1 .. Len(buffer') : i \in Played \/ \E j \in 1 .. length : i = P + j
  <2> TAKE i \in 1 .. Len(buffer')
  <2>1. CASE i \notin Played
    <3>1. i - P \in 1 .. length /\ i = P + (i - P)
      BY <1>1, <1>3, <2>1 DEF Played
    <3> QED
      BY <3>1
  <2> QED
    BY <2>1
\* A sample behind the played ones has audio of the new waveform of its own index only.
<1>7. ASSUME NEW j \in 1 .. length, NEW x \in buffer'[P + j]
      PROVE  x = <<w, j>> \/ (x[1] \in Nat /\ x[1] <= waveforms)
  BY <1>2, <1>3, <1>5, <1>7
<1>8. \A i \in 1 .. Len(buffer') : \A x \in buffer'[i] : x[1] <= waveforms'
  <2> SUFFICES ASSUME NEW i \in 1 .. Len(buffer'), NEW x \in buffer'[i] PROVE x[1] <= waveforms'
    OBVIOUS
  <2>1. CASE i \in Played
    BY <1>1, <1>5, <2>1
  <2>2. ASSUME NEW j \in 1 .. length, i = P + j PROVE x[1] <= waveforms'
    <3>1. x = <<w, j>> \/ (x[1] \in Nat /\ x[1] <= waveforms)
      BY <1>7, <2>2
    <3>2. <<w, j>>[1] = w
      OBVIOUS
    <3> QED
      BY <1>1, <3>1, <3>2
  <2> QED
    BY <1>6, <2>1, <2>2
<1>9. ASSUME NEW j \in 1 .. length, <<w, j>> \in buffer'[P + j] PROVE New(P + j)'
  <2> DEFINE x == <<w, j>>
  <2>1. ASSUME NEW q \in 1 .. P + j - 1 PROVE x \notin buffer'[q]
    <3>1. q \in 1 .. Len(buffer')
      BY <1>1, <1>3
    <3>2. CASE q \in Played
      BY <1>1, <1>5, <3>2
    <3>3. ASSUME NEW k \in 1 .. length, q = P + k PROVE x \notin buffer'[q]
      <4>1. k # j
        BY <1>1, <3>3
      <4> QED
        BY <1>1, <1>7, <3>3, <4>1
    <3> QED
      BY <1>6, <3>1, <3>2, <3>3
  <2> QED
    BY <1>1, <1>9, <2>1 DEF New
<1>10. PlayedSamples' = PlayedSamples
  BY <1>1, <1>3 DEF PlayedSamples
<1>11. ASSUME NEW p \in Pending' PROVE New(p)' \/ (p = P + 1 /\ buffer'[p] \in PlayedSamples')
  <2>1. PICK j \in 1 .. length : p = P + j
    BY <1>1, <1>3, <1>6 DEF Pending, Played
  <2>2. CASE <<w, j>> \in buffer'[p]
    BY <1>9, <2>1, <2>2
  <2>3. CASE j = 1 /\ \E k \in Played : buffer'[p] = buffer[k]
    BY <1>10, <2>1, <2>3 DEF PlayedSamples, Played
  <2> QED
    BY <1>2, <1>3, <2>1, <2>2, <2>3
<1>12. P + 1 \in Nat
  BY <1>1
<1>13. Frozen
  <2>1. SubSeq(buffer', 1, P) = SubSeq(buffer, 1, P)
    <3>1. P <= Len(buffer) /\ P <= Len(buffer')
      BY <1>1, <1>3
    <3> QED
      BY <1>1, <1>3, <3>1, SamePrefix
  <2> QED
    BY <1>1, <2>1 DEF Frozen
<1> QED
  BY <1>4, <1>8, <1>11, <1>12, <1>13 DEF Inv

-----------------------------------------------------------------------------
\* At first the buffer is empty.
LEMMA InvInit == ASSUME AssemblerInit PROVE Inv
BY EmptySeq DEF AssemblerInit, Inv, TypeInv, Pending

\* Every step keeps it, and what was played.
LEMMA InvNext ==
  ASSUME AssemblerAssumption, Inv, [AssemblerNext]_assemblervars PROVE Inv' /\ (Frozen \/ UNCHANGED assemblervars)
<1>1. CASE UNCHANGED assemblervars
  <2>1. /\ TypeInv' /\ Pending' = Pending /\ PlayedSamples' = PlayedSamples
        /\ UNCHANGED <<buffer, waveforms>>
    BY <1>1 DEF assemblervars, Inv, TypeInv, Pending, PlayedSamples
  <2>2. \A p : New(p)' = New(p)
    BY <1>1 DEF assemblervars, New
  <2> QED
    BY <1>1, <2>1, <2>2 DEF Inv
<1>2. ASSUME NEW length \in 0 .. MaxLength, Push(length) PROVE Inv' /\ Frozen
  BY <1>2, PushStep
<1>3. ASSUME NEW count \in 1 .. Len(buffer), MarkPlayed(count) PROVE Inv' /\ Frozen
  BY <1>3, MarkStep
<1>4. ASSUME NEW length \in 0 .. MaxLength, replace_suffix(length) PROVE Inv' /\ Frozen
  BY <1>4, ReplaceStep
<1> QED
  BY <1>1, <1>2, <1>3, <1>4 DEF AssemblerNext

\* The pending samples are new but for one, in every state.
LEMMA AssemblerInvariant == AssemblerSpec => []Inv
BY AssemblerAssumption, InvInit, InvNext, PTL DEF AssemblerSpec

(* What has been played never changes, and the played count never shrinks. *)
THEOREM PrefixFrozen == AssemblerSpec => PlayedPrefixFrozen
<1>1. Inv /\ [AssemblerNext]_assemblervars => [Frozen]_assemblervars
  BY AssemblerAssumption, InvNext
<1> QED
  BY <1>1, AssemblerInvariant, PTL DEF AssemblerSpec, PlayedPrefixFrozen, Frozen

(* A revision leaves nothing of the suffix it replaced. *)
THEOREM NoStale == AssemblerSpec => []NoStaleSuffix
<1>1. Inv => NoStaleSuffix
  BY DEF Inv, New, NoStaleSuffix, PendingSamples, Pending
<1> QED
  BY <1>1, AssemblerInvariant, PTL

(* However often the suffix is revised, no more than one sample waits to be heard again unmixed:
   the code breaks its promise that there is none (NoPlayedRepeated) by one sample only. *)
THEOREM OneRepeated == AssemblerSpec => []AtMostOneRepeated
<1>1. Inv => AtMostOneRepeated
  <2> SUFFICES ASSUME Inv PROVE AtMostOneRepeated
    OBVIOUS
  <2>1. PICK r \in Nat : \A p \in Pending : New(p) \/ (p = r /\ buffer[p] \in PlayedSamples)
    BY DEF Inv
  <2>2. ASSUME NEW p \in Pending, New(p) PROVE buffer[p] \notin PlayedSamples
    <3>1. 1 .. played_count \subseteq 1 .. p - 1
      BY DEF Inv, TypeInv, Pending
    <3> QED
      BY <2>2, <3>1 DEF New, PlayedSamples
  <2>3. Repeated \subseteq {r}
    BY <2>1, <2>2 DEF Repeated, Pending
  <2>4. IsFiniteSet({r}) /\ Cardinality({r}) = 1 /\ Cardinality(Repeated) <= Cardinality({r})
    BY <2>3, FS_Singleton, FS_Subset
  <2> QED
    BY <2>4 DEF AtMostOneRepeated
<1> QED
  BY <1>1, AssemblerInvariant, PTL
=============================================================================
