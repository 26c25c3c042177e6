SPECIFICATION Spec
CONSTANTS
  Emission = {e1, e2, e3}
  Pcm = {p1}
  NoPcm = NoPcm
  NoEntry = NoEntry
  Utterance = "u"
  PrefixPlayback = FALSE
  MaxSlots = 3
  MaxRevision = 2
  MaxChanges = 2
  Deltas <- UniqueDeltas
SYMMETRY Symmetry
PROPERTIES PlayedFrozen
\* Revisions are bounded: a ledger that has seen the last one is at rest.
CHECK_DEADLOCK FALSE
