------------------------- MODULE RevisionAssembler -------------------------
(***************************************************************************)
(* RevisionWaveformAssembler of crates/tongues-tts/src/                    *)
(* revision_assembler.rs: the waveform of an utterance whose unplayed part *)
(* is replaced when the plan is revised.                                   *)
(*                                                                         *)
(* A sample is the set of the renderer samples it contains, each named by  *)
(* its waveform and its index there: the crossfade of two samples is their *)
(* union.  A call with non-finite samples is rejected, changing nothing,   *)
(* and drain_pending only copies the pending samples.                      *)
(***************************************************************************)
EXTENDS Naturals, Sequences, FiniteSets

CONSTANTS
  crossfade_samples,
  MaxWaveforms,       \* bound: waveforms the renderer produces
  MaxLength           \* bound: their length

ASSUME AssemblerAssumption ==
  /\ crossfade_samples \in Nat \ {0}      \* RevisionWaveformAssembler::new
  /\ MaxWaveforms \in Nat
  /\ MaxLength \in Nat

VARIABLES
  buffer,         \* all samples: played, then pending
  played_count,
  waveforms,      \* how many waveforms the renderer has produced
  revised         \* the one replace_suffix installed last, 0 at first (history)

assemblervars == <<buffer, played_count, waveforms, revised>>

Lesser(a, b) == IF a <= b THEN a ELSE b

AssemblerInit ==
  /\ buffer = << >>
  /\ played_count = 0
  /\ waveforms = 0
  /\ revised = 0

\* The next waveform the renderer produces, length samples long.
Fresh(length) == [i \in 1 .. length |-> {<<waveforms + 1, i>>}]

Push(length) ==
  /\ waveforms < MaxWaveforms
  /\ buffer' = buffer \o Fresh(length)
  /\ waveforms' = waveforms + 1
  /\ UNCHANGED <<played_count, revised>>

MarkPlayed(count) ==
  /\ played_count + count <= Len(buffer)
  /\ played_count' = played_count + count
  /\ UNCHANGED <<buffer, waveforms, revised>>

\* Mutant: the ramp starts one sample late.
Blend_Late(outgoing, incoming, i, n) ==
  CASE i <= 2            -> outgoing
    [] i = n /\ i > 2    -> incoming
    [] OTHER             -> outgoing \cup incoming

\* Sample i of a crossfade over n samples: the weight of the incoming sample is
\* (i - 1) / (n - 1), and 0 when n = 1.
Blend(outgoing, incoming, i, n) ==
  CASE i = 1           -> outgoing
    [] i = n /\ i # 1  -> incoming
    [] OTHER           -> outgoing \cup incoming

crossfade_len(new_pcm) ==
  Lesser(crossfade_samples, Lesser(played_count, Len(new_pcm)))

\* What replace_suffix appends to the played prefix and returns to the caller.
Output(new_pcm) ==
  LET n == crossfade_len(new_pcm)
      fade_start == played_count - n
  IN [i \in 1 .. Len(new_pcm) |->
        IF i <= n THEN Blend(buffer[fade_start + i], new_pcm[i], i, n)
                  ELSE new_pcm[i]]

\* Mutant: the pending samples are not discarded.
replace_suffix_KeepsPending(length) ==
  /\ waveforms < MaxWaveforms
  /\ buffer' = buffer \o Output(Fresh(length))
  /\ waveforms' = waveforms + 1
  /\ revised' = waveforms + 1
  /\ UNCHANGED played_count

\* Mutant: the crossfade overwrites the tail of the played prefix.
replace_suffix_FadesInPlace(length) ==
  /\ waveforms < MaxWaveforms
  /\ buffer' = SubSeq(buffer, 1, played_count - crossfade_len(Fresh(length)))
                 \o Output(Fresh(length))
  /\ waveforms' = waveforms + 1
  /\ revised' = waveforms + 1
  /\ UNCHANGED played_count

replace_suffix(length) ==
  /\ waveforms < MaxWaveforms
  /\ buffer' = SubSeq(buffer, 1, played_count) \o Output(Fresh(length))
  /\ waveforms' = waveforms + 1
  /\ revised' = waveforms + 1
  /\ UNCHANGED played_count

AssemblerNext ==
  \/ \E length \in 0 .. MaxLength : Push(length)
  \/ \E count \in 1 .. Len(buffer) : MarkPlayed(count)
  \/ \E length \in 0 .. MaxLength : replace_suffix(length)

AssemblerSpec == AssemblerInit /\ [][AssemblerNext]_assemblervars

-----------------------------------------------------------------------------
\* What has been played never changes, however the suffix is revised, and the
\* played count never shrinks ("The assembler never allows this to shrink").
PlayedPrefixFrozen ==
  [][ /\ played_count' >= played_count
      /\ SubSeq(buffer', 1, played_count) = SubSeq(buffer, 1, played_count) ]_assemblervars

PlayedSamples == {buffer[i] : i \in 1 .. played_count}
PendingSamples == {buffer[i] : i \in played_count + 1 .. Len(buffer)}

\* A revision leaves nothing of the suffix it replaced: until it is played,
\* a pending sample contains audio of the latest revision or of a later push,
\* apart from samples that had been played and are repeated by the crossfade.
NoStaleSuffix ==
  \A sample \in PendingSamples \ PlayedSamples : \E x \in sample : x[1] >= revised

Repeated == {i \in played_count + 1 .. Len(buffer) : buffer[i] \in PlayedSamples}

\* The module's comment, "without dropping or duplicating played samples"
\* (revision_assembler.rs:6-7), and what replace_suffix returns, "only the non-duplicated
\* portion of the new waveform" (:19): nothing that was played is to be played again.
\* The code does not keep it: at the first sample of a fade the outgoing side has weight 1.
NoPlayedRepeated == Repeated = {}

\* How far the code is from that promise, which it breaks: whatever the lengths of the fade,
\* of the played prefix and of the new waveforms, and however many revisions come one after
\* the other, no more than one sample waits to be heard again unmixed.
AtMostOneRepeated == Cardinality(Repeated) <= 1
=============================================================================
