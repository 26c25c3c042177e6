------------------------------ MODULE Playout ------------------------------
(***************************************************************************)
(* What revisable playback promises a listener, with no ledger in it:      *)
(* audio is heard one emission at a time, in the order of the plan; the    *)
(* plan behind what has been heard may be rewritten at any time; what was  *)
(* heard stays as it was and is not planned again.                         *)
(***************************************************************************)
EXTENDS Sequences, Naturals

CONSTANTS Emission, Audio

VARIABLES
  heard,   \* what has been played: a sequence of emissions with their audio
  plan     \* the emissions still to be played, in order

Init == heard = << >> /\ plan = << >>

Play ==
  /\ plan # << >>
  /\ \E a \in Audio : heard' = Append(heard, [id |-> Head(plan), audio |-> a])
  /\ plan' = Tail(plan)

Revise ==
  /\ plan' \in Seq(Emission)
  /\ \A i \in DOMAIN heard, j \in DOMAIN plan' : heard[i].id # plan'[j]
  /\ heard' = heard

Next == Play \/ Revise

Spec == Init /\ [][Next]_<<heard, plan>>
=============================================================================
