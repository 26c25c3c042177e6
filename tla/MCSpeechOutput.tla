--------------------------- MODULE MCSpeechOutput ---------------------------
(* A bounded instance of SpeechOutput for TLC: buffers of two samples and of *)
(* one, which sound different, and the empty one, so that a prefix of a      *)
(* wrong length is visible, and one in a wrong order.                        *)
EXTENDS SpeechOutput, TLC

CONSTANTS MaxRevision, MaxChanges

ChangeLists == UNION {[1 .. n -> PlanChange] : n \in 1 .. MaxChanges}

UniqueDeltas ==
  [utterance_id : {Utterance}, revision : 1 .. MaxRevision,
   changes : {c \in ChangeLists : \A i, j \in DOMAIN c :
                c[i].kind = "Schedule" /\ c[j].kind = "Schedule" /\ c[i].id = c[j].id
                  => i = j}]

EmptyPcm == << >>
Buffers == {<<"a", "b">>, <<"c">>}

Symmetry == Permutations(Emission)
=============================================================================
