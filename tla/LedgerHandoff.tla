--------------------------- MODULE LedgerHandoff ---------------------------
(***************************************************************************)
(* What the ledger hands to the audio device (collect_unplayed_pcm) and to *)
(* the assembler that splices a revision (build_revision_assembler), both  *)
(* computed from the ledger's state in crates/tongues-tts/src/             *)
(* tts_ledger.rs.  Audio is a sequence of samples here.                    *)
(***************************************************************************)
EXTENDS PlaybackLedger

CONSTANT Sample

ASSUME PcmAssumption == Pcm \subseteq Seq(Sample) /\ NoPcm = << >>

\* The sequences f gives to the positions, one after the other.
Concat(f) ==
  LET upTo[n \in 0 .. MaxSlots] == IF n = 0 THEN << >> ELSE upTo[n - 1] \o f[n]
  IN upTo[MaxSlots]

\* What f gives to the emissions in S, at their positions.
pieces(S, f) ==
  [s \in Slot |-> IF s \in DOMAIN emission_order /\ emission_order[s] \in S
                  THEN f[emission_order[s]] ELSE << >>]

entries_in_order(S, f) == Concat(pieces(S, f))

PcmOf(S) == entries_in_order(S, [e \in Known |-> entries[e].pcm])

\* Mutant: audio already queued is not collected.
Collectable_SkipsQueued(e) ==
  entries[e].committed /\ entries[e].delivery_state \in {"Synthesized", "Verified"}

Collectable(e) ==
  entries[e].committed /\ entries[e].delivery_state \notin {"Planned", "Played"}

collect_unplayed_pcm == PcmOf({e \in Known : Collectable(e)})

PlayedPcm == PcmOf(Played)

\* The assembler after the loop of push and mark_played.
assembler == [buffer |-> PcmOf(Known), played_count |-> Len(PlayedPcm)]

-----------------------------------------------------------------------------
\* Between calls, the prefix the assembler treats as played, and never changes,
\* is the audio that was played.
AssemblerPrefixIsPlayed ==
  incoming = 0 =>
    SubSeq(assembler.buffer, 1, assembler.played_count) = PlayedPcm

\* Nothing is lost or doubled between the two views: when every emission is
\* committed, the assembler's audio is the played audio followed by what
\* collect_unplayed_pcm gives to the device.
HandoffConserves ==
  incoming = 0 /\ (\A e \in Known : entries[e].committed) =>
    assembler.buffer = PlayedPcm \o collect_unplayed_pcm

\* What a listener has heard so far, and what is still to come.
heard ==
  entries_in_order(Played, [e \in Known |-> <<[id |-> e, audio |-> entries[e].pcm]>>])
plan == entries_in_order(Known \ Played, [e \in Known |-> <<e>>])

Promise == INSTANCE Playout WITH
  Audio <- Pcm \cup {NoPcm}, heard <- heard, plan <- plan

\* Seen by a listener the ledger is a playout: emissions are heard once, in plan
\* order, and no revision of the plan reaches what has been heard.
PlayoutPromise == Promise!Spec
=============================================================================
