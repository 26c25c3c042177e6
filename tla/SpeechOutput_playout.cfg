\* Emissions are scheduled once per delta and played in order.
SPECIFICATION OutputSpec
CONSTANTS
  Emission = {e1, e2, e3}
  Pcm <- Buffers
  NoPcm <- EmptyPcm
  Sample = {"a", "b", "c"}
  NoEntry = NoEntry
  Utterance = "u"
  PrefixPlayback = TRUE
  MaxSlots = 3
  MaxRevision = 2
  MaxChanges = 2
  Deltas <- UniqueDeltas
  crossfade_samples = 3
  MaxWaveforms = 4
  MaxLength = 4
SYMMETRY Symmetry
INVARIANTS PlayedIsPrefix AssemblerPrefixIsPlayed HandoffConserves
INVARIANTS NoStaleSuffix AtMostOneRepeated
PROPERTIES PlayoutPromise PlayedPrefixFrozen
\* Revisions and waveforms are bounded: who has seen the last one is at rest.
CHECK_DEADLOCK FALSE
