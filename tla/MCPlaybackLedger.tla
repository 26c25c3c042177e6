-------------------------- MODULE MCPlaybackLedger --------------------------
(* Bounded instances of PlaybackLedger for TLC. *)
EXTENDS PlaybackLedger, TLC

CONSTANTS MaxRevision, MaxChanges

ChangeLists == UNION {[1 .. n -> PlanChange] : n \in 1 .. MaxChanges}

DistinctSchedules(changes) ==
  \A i, j \in DOMAIN changes :
    changes[i].kind = "Schedule" /\ changes[j].kind = "Schedule"
      /\ changes[i].id = changes[j].id => i = j

UniqueDeltas ==
  [utterance_id : {Utterance}, revision : 1 .. MaxRevision,
   changes : {c \in ChangeLists : DistinctSchedules(c)}]
    \cup [utterance_id : {"another"}, revision : {MaxRevision}, changes : {<< >>}]

Symmetry == Permutations(Emission) \cup Permutations(Pcm)
=============================================================================
