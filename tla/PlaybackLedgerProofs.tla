------------------------ MODULE PlaybackLedgerProofs ------------------------
(***************************************************************************)
(* What PlaybackLedger guarantees for every set of emissions, every set of *)
(* deltas and every bound.  TypeOK and PlayedWasCommitted need nothing of  *)
(* the callers; that the played emissions are a frozen prefix needs        *)
(* UniqueSchedules and PrefixPlayback, and LedgerInv is the strengthening  *)
(* that makes it inductive.                                                *)
(***************************************************************************)
EXTENDS LedgerHandoff, FiniteSetTheorems, SequenceTheorems, WellFoundedInduction, TLAPS

USE ConstantsAssumption

(* The type invariant: no call of the planner, the renderer or the player  *)
(* takes a field of the ledger out of its type.                            *)
THEOREM TypeCorrect == Spec => []TypeOK
<1>1. Init => TypeOK
  BY DEF Init, TypeOK, LedgerMetrics, Slot
<1>2. TypeOK /\ [Next]_vars => TypeOK'
  <2> SUFFICES ASSUME TypeOK, [Next]_vars PROVE TypeOK'
    OBVIOUS
  <2>1. ASSUME NEW d \in Deltas, ApplyDelta(d) PROVE TypeOK'
    BY <2>1 DEF TypeOK, ApplyDelta, ledger
  <2>2. ASSUME ApplyChange PROVE TypeOK'
    <3> DEFINE c == Head(todo)
    <3>1. c \in PlanChange /\ c.id \in Emission /\ todo' \in Seq(PlanChange)
      BY <2>2 DEF ApplyChange, TypeOK, PlanChange
    <3>2. CASE Schedule(c)
      <4>1. c.committed \in BOOLEAN
        BY <3>1, <3>2 DEF Schedule, PlanChange
      <4>2. [delivery_state |-> "Planned", committed |-> c.committed, pcm |-> NoPcm]
              \in LedgerEntry
        BY <4>1 DEF LedgerEntry, Delivery
      <4>3. entries' \in [Emission -> LedgerEntry \cup {NoEntry}]
        BY <3>1, <3>2, <4>2 DEF Schedule, TypeOK
      <4>4. PICK s \in Slot :
              emission_order' = [t \in DOMAIN emission_order \cup {s} |->
                                   IF t = s THEN c.id ELSE emission_order[t]]
        BY <3>2 DEF Schedule
      <4>5. /\ DOMAIN emission_order' \subseteq Slot
            /\ emission_order' \in [DOMAIN emission_order' -> Emission]
        BY <3>1, <4>4 DEF TypeOK
      <4> QED
        BY <2>2, <3>1, <3>2, <4>3, <4>5 DEF ApplyChange, Schedule, TypeOK
    <3>3. CASE Commit(c)
      <4>1. entries' \in [Emission -> LedgerEntry \cup {NoEntry}]
        BY <3>1, <3>3 DEF Commit, TypeOK, Known, LedgerEntry
      <4> QED
        BY <2>2, <3>1, <3>3, <4>1 DEF ApplyChange, Commit, TypeOK
    <3>4. CASE Cancel(c)
      <4>1. entries' \in [Emission -> LedgerEntry \cup {NoEntry}]
        BY <3>1, <3>4 DEF Cancel, TypeOK
      <4>2. metrics' \in LedgerMetrics
        <5>1. metrics.cancellation_count + 1 \in Nat
          BY DEF TypeOK, LedgerMetrics
        <5> QED
          BY <3>4, <5>1 DEF Cancel, TypeOK, LedgerMetrics
      <4> QED
        BY <2>2, <3>1, <3>4, <4>1, <4>2 DEF ApplyChange, Cancel, Keep, TypeOK
    <3>5. CASE ReplaceSuffix(c)
      <4>1. entries' \in [Emission -> LedgerEntry \cup {NoEntry}]
        BY <3>1, <3>5 DEF ReplaceSuffix, TypeOK
      <4>2. metrics' \in LedgerMetrics
        <5> DEFINE n == metrics.suffix_regeneration_count + 1
                   k == IF metrics.replace_pending
                        THEN metrics.suffix_regeneration_latencies + 1
                        ELSE metrics.suffix_regeneration_latencies
        <5>1. n \in Nat /\ k \in Nat
          BY DEF TypeOK, LedgerMetrics
        <5>2. metrics' = [metrics EXCEPT !.suffix_regeneration_count = n,
                                         !.suffix_regeneration_latencies = k,
                                         !.replace_pending = TRUE]
          BY <3>5 DEF ReplaceSuffix
        <5> HIDE DEF n, k
        <5> QED
          BY <5>1, <5>2 DEF TypeOK, LedgerMetrics
      <4> QED
        BY <2>2, <3>1, <3>5, <4>1, <4>2 DEF ApplyChange, ReplaceSuffix, Keep, TypeOK
    <3> QED
      BY <2>2, <3>2, <3>3, <3>4, <3>5 DEF ApplyChange
  <2>3. ASSUME FinishDelta PROVE TypeOK'
    <3>1. Cardinality(InState("Queued")) \in Nat
      BY FS_Subset, FS_CardinalityType DEF InState, Known
    <3>2. metrics' \in LedgerMetrics
      <4> DEFINE queued == Cardinality(InState("Queued"))
                 n == metrics.revision_count + 1
                 high == IF queued > metrics.queue_depth_high_water
                         THEN queued ELSE metrics.queue_depth_high_water
      <4>1. n \in Nat /\ high \in Nat
        BY <3>1 DEF TypeOK, LedgerMetrics
      <4>2. metrics' = [metrics EXCEPT !.revision_count = n,
                                       !.queue_depth_high_water = high]
        BY <2>3 DEF FinishDelta
      <4> HIDE DEF n, high
      <4> QED
        BY <4>1, <4>2 DEF TypeOK, LedgerMetrics
    <3> QED
      BY <2>3, <3>2 DEF FinishDelta, TypeOK, ledger
  <2>4. ASSUME NEW e \in Emission, NEW p \in Pcm \cup {NoPcm}, AttachPcm(e, p)
        PROVE TypeOK'
    <3>1. entries[e] \in LedgerEntry
      BY <2>4 DEF AttachPcm, TypeOK, Known
    <3>2. [entries[e] EXCEPT !.pcm = p, !.delivery_state = "Synthesized"] \in LedgerEntry
      BY <3>1 DEF LedgerEntry, Delivery
    <3> QED
      BY <2>4, <3>2 DEF AttachPcm, TypeOK
  <2>5. ASSUME NEW e \in Emission, NEW s \in Delivery, AdvanceState(e, s)
        PROVE TypeOK'
    <3>1. entries[e] \in LedgerEntry
      BY <2>5 DEF AdvanceState, TypeOK, Known
    <3>2. [entries[e] EXCEPT !.delivery_state = s] \in LedgerEntry
      BY <3>1 DEF LedgerEntry
    <3>3. metrics' \in LedgerMetrics
      <4> DEFINE k == IF metrics.replace_pending
                      THEN metrics.suffix_regeneration_latencies + 1
                      ELSE metrics.suffix_regeneration_latencies
      <4>1. k \in Nat
        BY DEF TypeOK, LedgerMetrics
      <4>2. \/ metrics' = metrics
            \/ metrics' = [metrics EXCEPT !.first_audio = TRUE,
                                          !.suffix_regeneration_latencies = k,
                                          !.replace_pending = FALSE]
        BY <2>5 DEF AdvanceState
      <4> HIDE DEF k
      <4> QED
        BY <4>1, <4>2 DEF TypeOK, LedgerMetrics
    <3> QED
      BY <2>5, <3>2, <3>3 DEF AdvanceState, TypeOK
  <2>6. CASE UNCHANGED vars
    BY <2>6 DEF vars, TypeOK
  <2> QED
    BY <2>1, <2>2, <2>3, <2>4, <2>5, <2>6 DEF Next
<1> QED
  BY <1>1, <1>2, PTL DEF Spec

-----------------------------------------------------------------------------
(* The commitment guard, for every use of the ledger: a played emission is *)
(* committed.  advance_state checks the flag, and nothing clears it while  *)
(* the entry lives.                                                        *)
THEOREM PlayedCommitted == Spec => []PlayedWasCommitted
<1>1. Init => PlayedWasCommitted
  BY DEF Init, PlayedWasCommitted, Played, InState, Known
<1>2. TypeOK /\ PlayedWasCommitted /\ [Next]_vars => PlayedWasCommitted'
  <2> SUFFICES ASSUME TypeOK, PlayedWasCommitted, [Next]_vars,
                      NEW x \in Emission, entries'[x] # NoEntry,
                      entries'[x].delivery_state = "Played"
               PROVE  entries'[x].committed
    BY DEF PlayedWasCommitted, Played, InState, Known
  <2> USE DEF TypeOK, PlayedWasCommitted, Played, InState, Known
  <2>1. CASE entries' = entries
    BY <2>1
  <2>2. ASSUME ApplyChange PROVE entries'[x].committed
    <3> DEFINE c == Head(todo)
    <3>1. c \in PlanChange /\ c.id \in Emission
      BY <2>2 DEF ApplyChange, PlanChange
    <3>2. CASE Schedule(c)
      BY <3>1, <3>2 DEF Schedule
    <3>3. CASE Commit(c)
      BY <3>1, <3>3 DEF Commit, LedgerEntry
    <3>4. CASE Cancel(c)
      BY <3>1, <3>4 DEF Cancel
    <3>5. CASE ReplaceSuffix(c)
      BY <3>1, <3>5 DEF ReplaceSuffix
    <3> QED
      BY <2>2, <3>2, <3>3, <3>4, <3>5 DEF ApplyChange
  <2>3. ASSUME NEW e \in Emission, NEW p \in Pcm \cup {NoPcm}, AttachPcm(e, p)
        PROVE entries'[x].committed
    BY <2>3 DEF AttachPcm, LedgerEntry
  <2>4. ASSUME NEW e \in Emission, NEW s \in Delivery, AdvanceState(e, s)
        PROVE entries'[x].committed
    BY <2>4 DEF AdvanceState, LedgerEntry
  <2> QED
    BY <2>1, <2>2, <2>3, <2>4 DEF Next, ApplyDelta, FinishDelta, ledger, vars
<1> QED
  BY <1>1, <1>2, TypeCorrect, PTL DEF Spec

-----------------------------------------------------------------------------
(* Audio is only exchanged by sending its emission back to Synthesized: an  *)
(* emission that stays verified or queued keeps the audio that was          *)
(* verified, whenever attach_pcm is called.                                 *)
THEOREM VerifiedKept == Spec => VerifiedAudioKept
<1>1. TypeOK /\ Next =>
        \A e \in Known :
          /\ entries'[e] # NoEntry
          /\ delivery_phase(entries[e].delivery_state) >= 2
          /\ delivery_phase(entries'[e].delivery_state) >= 2
          => entries'[e].pcm = entries[e].pcm
  <2> SUFFICES ASSUME TypeOK, Next, NEW x \in Emission, entries[x] \in LedgerEntry,
                      entries'[x] # NoEntry,
                      delivery_phase(entries'[x].delivery_state) >= 2
               PROVE  entries'[x].pcm = entries[x].pcm
    BY DEF TypeOK, Known
  <2> USE DEF TypeOK, LedgerEntry
  <2>1. CASE entries' = entries
    BY <2>1
  <2>2. ASSUME ApplyChange PROVE entries'[x].pcm = entries[x].pcm
    <3> DEFINE c == Head(todo)
    <3>1. c.id \in Emission
      BY <2>2 DEF ApplyChange, PlanChange
    <3>2. CASE Schedule(c)
      <4>1. c.id = x => entries'[x].delivery_state = "Planned"
        BY <3>1, <3>2 DEF Schedule
      <4> QED
        BY <3>1, <3>2, <4>1 DEF Schedule, delivery_phase
    <3>3. CASE Commit(c)
      BY <3>1, <3>3 DEF Commit
    <3>4. CASE Cancel(c)
      BY <3>1, <3>4 DEF Cancel
    <3>5. CASE ReplaceSuffix(c)
      BY <3>1, <3>5 DEF ReplaceSuffix
    <3> QED
      BY <2>2, <3>2, <3>3, <3>4, <3>5 DEF ApplyChange
  <2>3. ASSUME NEW e \in Emission, NEW p \in Pcm \cup {NoPcm}, AttachPcm(e, p)
        PROVE  entries'[x].pcm = entries[x].pcm
    <3>1. e = x => entries'[x].delivery_state = "Synthesized"
      BY <2>3 DEF AttachPcm
    <3> QED
      BY <2>3, <3>1 DEF AttachPcm, delivery_phase
  <2>4. ASSUME NEW e \in Emission, NEW s \in Delivery, AdvanceState(e, s)
        PROVE  entries'[x].pcm = entries[x].pcm
    BY <2>4 DEF AdvanceState
  <2> QED
    BY <2>1, <2>2, <2>3, <2>4 DEF Next, ApplyDelta, FinishDelta, ledger
<1> QED
  BY <1>1, TypeCorrect, PTL DEF Spec, VerifiedAudioKept

(* Every ReplaceSuffix is accounted for by one latency or is the one still  *)
(* pending, and the first audio played is on record.                        *)
THEOREM ReplacementsCounted == Spec => []ReplacementsAccounted
<1>1. Init => ReplacementsAccounted
  BY DEF Init, ReplacementsAccounted, Played, InState, Known
<1>2. TypeOK /\ ReplacementsAccounted /\ [Next]_vars => ReplacementsAccounted'
  <2> SUFFICES ASSUME TypeOK, ReplacementsAccounted, [Next]_vars
               PROVE  ReplacementsAccounted'
    OBVIOUS
  <2>1. metrics \in LedgerMetrics
    BY DEF TypeOK
  <2>2. CASE entries' = entries /\ metrics' = metrics
    BY <2>2 DEF ReplacementsAccounted, Played, InState, Known
  <2>3. ASSUME ApplyChange PROVE ReplacementsAccounted'
    <3> DEFINE c == Head(todo)
    <3>1. ASSUME NEW x \in Emission, entries'[x] # NoEntry,
                 entries'[x].delivery_state = "Played"
          PROVE  entries[x] # NoEntry /\ entries[x].delivery_state = "Played"
      <4> USE <3>1 DEF TypeOK, LedgerEntry
      <4>1. c.id \in Emission
        BY <2>3 DEF ApplyChange, PlanChange
      <4>2. CASE Schedule(c)
        BY <4>1, <4>2 DEF Schedule
      <4>3. CASE Commit(c)
        BY <4>1, <4>3 DEF Commit, Known
      <4>4. CASE Cancel(c)
        BY <4>1, <4>4 DEF Cancel
      <4>5. CASE ReplaceSuffix(c)
        BY <4>1, <4>5 DEF ReplaceSuffix
      <4> QED
        BY <2>3, <4>2, <4>3, <4>4, <4>5 DEF ApplyChange
    <3>11. Played' \subseteq Played
      BY <3>1 DEF Played, InState, Known
    <3>2. CASE UNCHANGED metrics
      BY <3>11, <3>2 DEF ReplacementsAccounted
    <3>3. CASE Cancel(c)
      BY <2>1, <3>11, <3>3 DEF Cancel, ReplacementsAccounted, LedgerMetrics
    <3>4. CASE ReplaceSuffix(c)
      BY <2>1, <3>11, <3>4 DEF ReplaceSuffix, ReplacementsAccounted, LedgerMetrics
    <3> QED
      BY <2>3, <3>2, <3>3, <3>4 DEF ApplyChange, Schedule, Commit
  <2>4. ASSUME FinishDelta PROVE ReplacementsAccounted'
    BY <2>1, <2>4 DEF FinishDelta, ledger, ReplacementsAccounted, Played, InState, Known,
                      LedgerMetrics
  <2>5. ASSUME NEW e \in Emission, NEW p \in Pcm \cup {NoPcm}, AttachPcm(e, p)
        PROVE  ReplacementsAccounted'
    BY <2>5 DEF AttachPcm, ReplacementsAccounted, Played, InState, Known, TypeOK, LedgerEntry
  <2>6. ASSUME NEW e \in Emission, NEW s \in Delivery, AdvanceState(e, s)
        PROVE  ReplacementsAccounted'
    <3>1. CASE s = "Played" /\ e \notin Played
      BY <2>1, <2>6, <3>1 DEF AdvanceState, ReplacementsAccounted, LedgerMetrics
    <3>2. CASE ~(s = "Played" /\ e \notin Played)
      <4>1. Played' \subseteq Played
        BY <2>6, <3>2 DEF AdvanceState, Played, InState, Known, TypeOK, LedgerEntry
      <4> QED
        BY <2>6, <3>2, <4>1 DEF AdvanceState, ReplacementsAccounted
    <3> QED
      BY <3>1, <3>2
  <2> QED
    BY <2>2, <2>3, <2>4, <2>5, <2>6 DEF Next, ApplyDelta, ledger, vars
<1> QED
  BY <1>1, <1>2, TypeCorrect, PTL DEF Spec

-----------------------------------------------------------------------------
(* The inductive invariant of the disciplined ledger: positions and entries *)
(* match, the played emissions are a prefix, and the changes still to be    *)
(* applied have not gone stale (they only wait while a delta is applied).   *)
LedgerInv ==
  /\ TypeOK
  /\ OrderMatchesEntries
  /\ PlayedIsPrefix
  /\ PendingChangesFit
  /\ incoming = 0 => todo = << >>

(* What the next change of a delta finds, and what it leaves for the rest.  *)
LEMMA NextChange ==
  ASSUME LedgerInv, ApplyChange
  PROVE  /\ Head(todo) = todo[1] /\ 1 \in DOMAIN todo
         /\ Head(todo) \in PlanChange /\ Head(todo).id \in Emission
         /\ \A i \in DOMAIN todo' : /\ i + 1 \in DOMAIN todo
                                    /\ todo'[i] = todo[i + 1]
                                    /\ i + 1 # 1
  BY DEF LedgerInv, TypeOK, ApplyChange, PlanChange

(* A change that neither adds an entry nor plays one keeps the changes      *)
(* behind it applicable.                                                    *)
LEMMA RestFits ==
  ASSUME LedgerInv, ApplyChange, Known' \subseteq Known, Played' \subseteq Played
  PROVE  PendingChangesFit'
<1>1. PendingChangesFit
  BY DEF LedgerInv
<1>2. ASSUME NEW i \in DOMAIN todo'
      PROVE  IF todo'[i].kind = "Schedule" THEN todo'[i].id \notin Known'
             ELSE todo'[i].kind \in {"Cancel", "ReplaceSuffix"} => todo'[i].id \notin Played'
  <2>1. i + 1 \in DOMAIN todo /\ todo'[i] = todo[i + 1]
    BY NextChange
  <2> QED
    BY <1>1, <2>1 DEF PendingChangesFit
<1>3. ASSUME NEW i \in DOMAIN todo', NEW j \in DOMAIN todo',
             todo'[i].kind = "Schedule", todo'[j].kind = "Schedule",
             todo'[i].id = todo'[j].id
      PROVE  i = j
  <2>1. /\ i + 1 \in DOMAIN todo /\ todo'[i] = todo[i + 1]
        /\ j + 1 \in DOMAIN todo /\ todo'[j] = todo[j + 1]
    BY NextChange
  <2>2. i + 1 = j + 1
    BY <1>1, <1>3, <2>1 DEF PendingChangesFit
  <2>3. todo' = Tail(todo) /\ todo \in Seq(PlanChange) /\ todo # << >>
    BY DEF ApplyChange, LedgerInv, TypeOK
  <2>4. i \in Nat /\ j \in Nat
    BY <2>3
  <2> QED
    BY <2>2, <2>4
<1> QED
  BY <1>2, <1>3 DEF PendingChangesFit

(* The suffix that a pending ReplaceSuffix removes holds no played emission: *)
(* its first emission is not played, and the played ones are a prefix.       *)
LEMMA SuffixUnplayed ==
  ASSUME LedgerInv, NEW x \in Emission, x \notin Played, NEW s \in Suffix(x)
  PROVE  emission_order[s] \notin Played
<1>1. PICK t \in DOMAIN emission_order : t <= s /\ emission_order[t] = x
  BY DEF Suffix
<1>2. CASE t = s
  BY <1>1, <1>2
<1>3. CASE t # s
  <2>1. s \in DOMAIN emission_order /\ t < s
    BY <1>1, <1>3 DEF Suffix, LedgerInv, TypeOK, Slot
  <2> QED
    BY <1>1, <2>1 DEF LedgerInv, PlayedIsPrefix
<1> QED
  BY <1>2, <1>3

(* The steps of the disciplined ledger, one by one.                          *)
LEMMA LedgerInvStep ==
  ASSUME UniqueSchedules, PrefixPlayback, LedgerInv, TypeOK', [Next]_vars
  PROVE  LedgerInv'
<1> USE DEF Known, Played, InState
<1>0. TypeOK /\ OrderMatchesEntries /\ PlayedIsPrefix /\ PendingChangesFit
  BY DEF LedgerInv
<1>1. ASSUME NEW d \in Deltas, ApplyDelta(d) PROVE LedgerInv'
  <2>1. UNCHANGED <<emission_order, entries>> /\ todo' = d.changes /\ incoming' # 0
    BY <1>1 DEF ApplyDelta, ledger
  <2>2. OrderMatchesEntries' /\ PlayedIsPrefix'
    BY <1>0, <2>1 DEF OrderMatchesEntries, PlayedIsPrefix
  <2>3. ASSUME NEW i \in DOMAIN todo'
        PROVE  IF todo'[i].kind = "Schedule" THEN todo'[i].id \notin Known
               ELSE todo'[i].kind \in {"Cancel", "ReplaceSuffix"} => todo'[i].id \notin Played
    <3>1. validate_change(d.changes[i])
      BY <1>1, <2>1 DEF ApplyDelta
    <3> QED
      BY <2>1, <3>1 DEF validate_change
  <2>4. PendingChangesFit'
    BY <2>1, <2>3 DEF PendingChangesFit, UniqueSchedules
  <2> QED
    BY <2>1, <2>2, <2>4 DEF LedgerInv
<1>2. ASSUME ApplyChange PROVE LedgerInv'
  <2> DEFINE c == Head(todo)
  <2>1. c = todo[1] /\ 1 \in DOMAIN todo /\ c \in PlanChange /\ c.id \in Emission
    BY <1>2, NextChange
  <2>2. incoming' # 0
    BY <1>2 DEF ApplyChange
  <2>3. CASE Schedule(c)
    <3>1. c.id \notin Known
      BY <1>0, <2>1, <2>3 DEF Schedule, PendingChangesFit
    <3>2. PICK s \in Slot :
            /\ Unused(s)
            /\ emission_order' = [t \in DOMAIN emission_order \cup {s} |->
                                    IF t = s THEN c.id ELSE emission_order[t]]
      BY <2>3 DEF Schedule
    <3>3. /\ DOMAIN emission_order' = DOMAIN emission_order \cup {s}
          /\ emission_order'[s] = c.id
          /\ \A t \in DOMAIN emission_order : /\ t # s /\ t < s
                                              /\ emission_order'[t] = emission_order[t]
                                              /\ emission_order[t] # c.id
      BY <1>0, <3>1, <3>2 DEF Unused, TypeOK, Slot, OrderMatchesEntries
    <3>4. /\ entries'[c.id].delivery_state = "Planned" /\ entries'[c.id] # NoEntry
          /\ \A e \in Emission : e # c.id => entries'[e] = entries[e]
      <4>1. entries'[c.id] =
              [delivery_state |-> "Planned", committed |-> c.committed, pcm |-> NoPcm]
        BY <1>0, <2>1, <2>3 DEF Schedule, TypeOK
      <4>2. c.committed \in BOOLEAN
        BY <2>1, <2>3 DEF Schedule, PlanChange
      <4>3. entries'[c.id] \in LedgerEntry
        BY <4>1, <4>2 DEF LedgerEntry, Delivery
      <4> QED
        BY <1>0, <2>1, <2>3, <4>1, <4>3 DEF Schedule, TypeOK
    <3>5. Known' = Known \cup {c.id} /\ Played' = Played
      BY <2>1, <3>1, <3>4
    <3>6. OrderMatchesEntries'
      BY <1>0, <3>3, <3>5 DEF OrderMatchesEntries
    <3>7. PlayedIsPrefix'
      <4> SUFFICES ASSUME NEW a \in DOMAIN emission_order', NEW b \in DOMAIN emission_order',
                          a < b, emission_order'[b] \in Played'
                   PROVE  emission_order'[a] \in Played'
        BY DEF PlayedIsPrefix
      <4>1. b # s
        BY <3>1, <3>3, <3>5
      <4>2. b \in DOMAIN emission_order /\ b < s
        BY <3>3, <4>1
      <4>3. a # s
        BY <1>0, <4>2 DEF TypeOK, Slot
      <4> QED
        BY <1>0, <3>3, <3>5, <4>2, <4>3 DEF PlayedIsPrefix
    <3>8. PendingChangesFit'
      <4>1. ASSUME NEW i \in DOMAIN todo'
            PROVE  IF todo'[i].kind = "Schedule" THEN todo'[i].id \notin Known'
                   ELSE todo'[i].kind \in {"Cancel", "ReplaceSuffix"} =>
                          todo'[i].id \notin Played'
        <5>1. i + 1 \in DOMAIN todo /\ todo'[i] = todo[i + 1] /\ i + 1 # 1
          BY <1>2, NextChange
        <5>2. todo'[i].kind = "Schedule" => todo'[i].id # c.id
          BY <1>0, <2>1, <2>3, <5>1 DEF PendingChangesFit, Schedule
        <5> QED
          BY <1>0, <3>5, <5>1, <5>2 DEF PendingChangesFit
      <4>2. Schedule(c) /\ todo' = Tail(todo) /\ todo \in Seq(PlanChange) /\ todo # << >>
        BY <1>0, <1>2, <2>3 DEF ApplyChange, TypeOK
      <4>3. ASSUME NEW i \in DOMAIN todo', NEW j \in DOMAIN todo',
                   todo'[i].kind = "Schedule", todo'[j].kind = "Schedule",
                   todo'[i].id = todo'[j].id
            PROVE  i = j
        <5>1. /\ i + 1 \in DOMAIN todo /\ todo'[i] = todo[i + 1]
              /\ j + 1 \in DOMAIN todo /\ todo'[j] = todo[j + 1]
          BY <1>2, NextChange
        <5>2. i + 1 = j + 1
          BY <1>0, <4>3, <5>1 DEF PendingChangesFit
        <5>3. i \in Nat /\ j \in Nat
          BY <4>2
        <5> QED
          BY <5>2, <5>3
      <4> QED
        BY <4>1, <4>3 DEF PendingChangesFit
    <3> QED
      BY <2>2, <3>6, <3>7, <3>8 DEF LedgerInv
  <2>4. CASE Commit(c)
    <3>1. \A e \in Emission : /\ entries'[e] # NoEntry <=> entries[e] # NoEntry
                              /\ entries[e] # NoEntry =>
                                   entries'[e].delivery_state = entries[e].delivery_state
      <4>1. \A e \in Emission \ {c.id} : entries'[e] = entries[e]
        BY <1>0, <2>4 DEF Commit, TypeOK
      <4>2. c.id \in Known => entries'[c.id] = [entries[c.id] EXCEPT !.committed = TRUE]
        BY <1>0, <2>1, <2>4 DEF Commit, TypeOK
      <4>3. c.id \in Known => entries[c.id] \in LedgerEntry
        BY <1>0, <2>1 DEF TypeOK
      <4>4. c.id \in Known => /\ entries'[c.id] \in LedgerEntry
                              /\ entries'[c.id].delivery_state = entries[c.id].delivery_state
        BY <4>2, <4>3 DEF LedgerEntry
      <4>5. c.id \notin Known => entries'[c.id] = entries[c.id]
        BY <2>4 DEF Commit
      <4> QED
        BY <2>1, <4>1, <4>4, <4>5
    <3>2. Known' = Known /\ Played' = Played
      <4>1. Known' = Known
        BY <3>1
      <4>2. \A e \in Emission : e \in Played' <=> e \in Played
        BY <3>1
      <4> QED
        BY <4>1, <4>2
    <3>3. emission_order' = emission_order
      BY <2>4 DEF Commit
    <3>4. OrderMatchesEntries' /\ PlayedIsPrefix'
      BY <1>0, <3>2, <3>3 DEF OrderMatchesEntries, PlayedIsPrefix
    <3> QED
      BY <1>2, <2>2, <3>2, <3>4, RestFits DEF LedgerInv
  <2>5. CASE Cancel(c)
    <3>1. /\ entries'[c.id] = NoEntry
          /\ \A e \in Emission \ {c.id} : entries'[e] = entries[e]
      BY <1>0, <2>1, <2>5 DEF Cancel, TypeOK
    <3>2. Known' = Known \ {c.id} /\ Played' = Played \ {c.id}
      BY <2>1, <3>1
    <3>3. /\ DOMAIN emission_order' = {s \in DOMAIN emission_order : emission_order[s] # c.id}
          /\ \A s \in DOMAIN emission_order' : emission_order'[s] = emission_order[s]
      BY <2>5 DEF Cancel, Keep
    <3>4. OrderMatchesEntries'
      BY <1>0, <3>2, <3>3 DEF OrderMatchesEntries
    <3>5. PlayedIsPrefix'
      BY <1>0, <3>2, <3>3 DEF PlayedIsPrefix
    <3> QED
      BY <1>2, <2>2, <3>2, <3>4, <3>5, RestFits DEF LedgerInv
  <2>6. CASE ReplaceSuffix(c)
    <3> DEFINE gone == {emission_order[s] : s \in Suffix(c.id)}
    <3>1. \A e \in Emission : entries'[e] = IF e \in gone THEN NoEntry ELSE entries[e]
      BY <2>6 DEF ReplaceSuffix
    <3>2. Known' = Known \ gone /\ Played' = Played \ gone
      BY <3>1
    <3>3. /\ DOMAIN emission_order' = DOMAIN emission_order \ Suffix(c.id)
          /\ \A s \in DOMAIN emission_order' : emission_order'[s] = emission_order[s]
      BY <2>6 DEF ReplaceSuffix, Keep
    <3>4. Suffix(c.id) \subseteq DOMAIN emission_order
      BY DEF Suffix
    <3>5. \A s \in DOMAIN emission_order' : emission_order[s] \notin gone
      BY <1>0, <3>3, <3>4 DEF OrderMatchesEntries
    <3>6. OrderMatchesEntries'
      BY <1>0, <3>2, <3>3, <3>4, <3>5 DEF OrderMatchesEntries
    <3>7. PlayedIsPrefix'
      BY <1>0, <3>2, <3>3, <3>5 DEF PlayedIsPrefix
    <3> QED
      BY <1>2, <2>2, <3>2, <3>6, <3>7, RestFits DEF LedgerInv
  <2> QED
    BY <1>2, <2>3, <2>4, <2>5, <2>6 DEF ApplyChange
<1>3. ASSUME FinishDelta PROVE LedgerInv'
  BY <1>0, <1>3 DEF FinishDelta, ledger, LedgerInv, OrderMatchesEntries, PlayedIsPrefix,
                    PendingChangesFit
<1>4. ASSUME NEW e \in Emission, NEW p \in Pcm \cup {NoPcm}, AttachPcm(e, p)
      PROVE  LedgerInv'
  <2>1. todo' = << >>
    BY <1>4 DEF AttachPcm, LedgerInv
  <2>2. entries[e] \in LedgerEntry
    BY <1>0, <1>4 DEF AttachPcm, TypeOK
  <2>3. entries'[e] = [entries[e] EXCEPT !.pcm = p, !.delivery_state = "Synthesized"]
    BY <1>0, <1>4 DEF AttachPcm, TypeOK
  <2>4. entries'[e] \in LedgerEntry /\ entries'[e].delivery_state = "Synthesized"
    BY <2>2, <2>3 DEF LedgerEntry, Delivery
  <2>5. \A x \in Emission \ {e} : entries'[x] = entries[x]
    BY <1>0, <1>4 DEF AttachPcm, TypeOK
  <2>6. Known' = Known /\ Played' = Played
    BY <1>4, <2>4, <2>5 DEF AttachPcm
  <2> QED
    BY <1>0, <1>4, <2>1, <2>6 DEF AttachPcm, LedgerInv, OrderMatchesEntries, PlayedIsPrefix,
                                  PendingChangesFit
<1>5. ASSUME NEW e \in Emission, NEW new_state \in Delivery, AdvanceState(e, new_state)
      PROVE  LedgerInv'
  <2>1. todo' = << >> /\ emission_order' = emission_order /\ e \in Known
    BY <1>5 DEF AdvanceState, LedgerInv
  <2>2. entries[e] \in LedgerEntry
    BY <1>0, <2>1 DEF TypeOK
  <2>3. entries'[e] = [entries[e] EXCEPT !.delivery_state = new_state]
    BY <1>0, <1>5 DEF AdvanceState, TypeOK
  <2>4. entries'[e] \in LedgerEntry /\ entries'[e].delivery_state = new_state
    BY <2>2, <2>3 DEF LedgerEntry
  <2>5. \A x \in Emission \ {e} : entries'[x] = entries[x]
    BY <1>0, <1>5 DEF AdvanceState, TypeOK
  <2>6. e \in Played => new_state = "Played"
    BY <1>5 DEF AdvanceState, delivery_phase, Delivery
  <2>7. Known' = Known /\ Played' = IF new_state = "Played" THEN Played \cup {e} ELSE Played
    BY <2>1, <2>4, <2>5, <2>6
  <2>8. OrderMatchesEntries'
    BY <1>0, <2>1, <2>7 DEF OrderMatchesEntries
  <2>9. PlayedIsPrefix'
    <3>1. CASE new_state = "Played"
      <4>1. InPlayOrder(e)
        BY <1>5, <3>1 DEF AdvanceState
      <4> QED
        BY <1>0, <2>1, <2>7, <3>1, <4>1 DEF PlayedIsPrefix, InPlayOrder
    <3>2. CASE new_state # "Played"
      BY <1>0, <2>1, <2>7, <3>2 DEF PlayedIsPrefix
    <3> QED
      BY <3>1, <3>2
  <2> QED
    BY <2>1, <2>8, <2>9 DEF LedgerInv, PendingChangesFit
<1>6. CASE UNCHANGED vars
  BY <1>0, <1>6 DEF vars, LedgerInv, OrderMatchesEntries, PlayedIsPrefix, PendingChangesFit
<1> QED
  BY <1>1, <1>2, <1>3, <1>4, <1>5, <1>6 DEF Next

LEMMA LedgerInvariant ==
  ASSUME UniqueSchedules, PrefixPlayback
  PROVE  Spec => []LedgerInv
<1>1. Init => LedgerInv
  BY DEF Init, LedgerInv, TypeOK, LedgerMetrics, Slot, OrderMatchesEntries, PlayedIsPrefix,
         PendingChangesFit, Known, Played, InState
<1>2. LedgerInv /\ TypeOK' /\ [Next]_vars => LedgerInv'
  BY LedgerInvStep
<1> QED
  BY <1>1, <1>2, TypeCorrect, PTL DEF Spec

(* With deltas that schedule an id once and a player that goes in order, the *)
(* ledger's two views of the schedule agree, the played emissions are a      *)
(* prefix of it and no validated change goes stale.                          *)
THEOREM PlayedPrefix ==
  ASSUME UniqueSchedules, PrefixPlayback
  PROVE  Spec => [](OrderMatchesEntries /\ PlayedIsPrefix /\ PendingChangesFit)
<1>1. LedgerInv => OrderMatchesEntries /\ PlayedIsPrefix /\ PendingChangesFit
  BY DEF LedgerInv
<1> QED
  BY <1>1, LedgerInvariant, PTL

(* No call of the disciplined ledger's removes a played emission, or changes *)
(* its entry.                                                                *)
LEMMA PlayedKept ==
  ASSUME LedgerInv, PlayedWasCommitted, Next, NEW x \in Played
  PROVE  entries'[x] = entries[x]
<1>0. /\ TypeOK /\ PendingChangesFit
      /\ x \in Emission /\ x \in Known /\ entries[x].delivery_state = "Played"
      /\ entries[x] \in LedgerEntry
  BY DEF LedgerInv, Played, InState, Known, TypeOK
<1>1. CASE entries' = entries
  BY <1>1
<1>2. ASSUME ApplyChange PROVE entries'[x] = entries[x]
  <2> DEFINE c == Head(todo)
  <2>1. c = todo[1] /\ 1 \in DOMAIN todo /\ c.id \in Emission
    BY <1>2, NextChange
  <2>2. CASE Schedule(c)
    <3>1. c.id # x
      BY <1>0, <2>1, <2>2 DEF Schedule, PendingChangesFit
    <3> QED
      BY <1>0, <2>2, <3>1 DEF Schedule, TypeOK
  <2>3. CASE Commit(c)
    <3>1. c.id = x => entries[x].committed = TRUE
      BY <1>0 DEF PlayedWasCommitted, LedgerEntry
    <3> QED
      BY <1>0, <2>3, <3>1 DEF Commit, TypeOK, LedgerEntry
  <2>4. CASE Cancel(c)
    <3>1. c.id # x
      BY <1>0, <2>1, <2>4 DEF Cancel, PendingChangesFit
    <3> QED
      BY <1>0, <2>4, <3>1 DEF Cancel, TypeOK
  <2>5. CASE ReplaceSuffix(c)
    <3>1. c.id \notin Played
      BY <1>0, <2>1, <2>5 DEF ReplaceSuffix, PendingChangesFit
    <3>2. \A s \in Suffix(c.id) : emission_order[s] # x
      BY <2>1, <3>1, SuffixUnplayed
    <3> QED
      BY <1>0, <2>5, <3>2 DEF ReplaceSuffix
  <2> QED
    BY <1>2, <2>2, <2>3, <2>4, <2>5 DEF ApplyChange
<1>3. ASSUME NEW e \in Emission, NEW p \in Pcm \cup {NoPcm}, AttachPcm(e, p)
      PROVE  entries'[x] = entries[x]
  BY <1>0, <1>3 DEF AttachPcm, TypeOK
<1>4. ASSUME NEW e \in Emission, NEW s \in Delivery, AdvanceState(e, s)
      PROVE  entries'[x] = entries[x]
  <2>1. CASE e = x
    <3>1. s = "Played"
      BY <1>0, <1>4, <2>1 DEF AdvanceState, delivery_phase, Delivery
    <3>2. entries'[x] = [entries[x] EXCEPT !.delivery_state = "Played"]
      BY <1>0, <1>4, <2>1, <3>1 DEF AdvanceState, TypeOK
    <3> QED
      BY <1>0, <3>2 DEF LedgerEntry
  <2>2. CASE e # x
    BY <1>0, <1>4, <2>2 DEF AdvanceState, TypeOK
  <2> QED
    BY <2>1, <2>2
<1> QED
  BY <1>1, <1>2, <1>3, <1>4 DEF Next, ApplyDelta, FinishDelta, ledger

(* Played audio is immutable: under the same assumptions no call removes a   *)
(* played emission or changes its entry.  This is invariant 2 of the code's  *)
(* module comment, which the ledger alone does not enforce.                  *)
THEOREM PlayedImmutable ==
  ASSUME UniqueSchedules, PrefixPlayback
  PROVE  Spec => PlayedFrozen
<1>1. LedgerInv /\ PlayedWasCommitted /\ [Next]_vars =>
        [\A e \in Played : entries'[e] = entries[e]]_vars
  BY PlayedKept
<1> QED
  BY <1>1, LedgerInvariant, PlayedCommitted, PTL DEF Spec, PlayedFrozen
-----------------------------------------------------------------------------
(* Concat, by induction on the positions: a set of naturals that has 0, and  *)
(* the successor of each of its elements, has them all.                      *)
LEMMA SetInduction ==
  ASSUME NEW S, 0 \in S, \A n \in Nat : n \in S => n + 1 \in S
  PROVE  Nat \subseteq S
<1> SUFFICES ASSUME Nat \ S # {} PROVE FALSE
  OBVIOUS
<1> DEFINE R == OpToRel(<, Nat)
<1>1. IsWellFoundedOn(R, Nat)
  BY NatLessThanWellFounded, Zenon
<1>2. \A x, y \in Nat : x < y => <<x, y>> \in R
  BY DEF OpToRel
<1> HIDE DEF R
<1>3. PICK x \in Nat \ S : \A y \in Nat \ S : <<y, x>> \notin R
  BY <1>1, WFMin
<1>4. x # 0 /\ x - 1 \in Nat /\ x - 1 < x
  OBVIOUS
<1>5. x - 1 \in S
  BY <1>2, <1>3, <1>4
<1> QED
  BY <1>4, <1>5

\* What is gathered of f up to each position.
Gathers(u, f, m) == u = [n \in 0 .. m |-> IF n = 0 THEN << >> ELSE u[n - 1] \o f[n]]

LEMMA GathersExists == ASSUME NEW f, NEW m \in Nat PROVE \E u : Gathers(u, f, m)
<1> DEFINE S == {k \in Nat : \E u : Gathers(u, f, k)}
<1>1. 0 \in S
  <2>1. Gathers([n \in 0 .. 0 |-> << >>], f, 0)
    BY DEF Gathers
  <2> QED
    BY <2>1
<1>2. ASSUME NEW k \in Nat, k \in S PROVE k + 1 \in S
  <2>1. PICK u : Gathers(u, f, k)
    BY <1>2
  <2> DEFINE v == [n \in 0 .. k + 1 |-> IF n = k + 1 THEN u[k] \o f[k + 1] ELSE u[n]]
  <2>2. u[0] = << >> /\ \A n \in 1 .. k : u[n] = u[n - 1] \o f[n]
    <3>1. \A n \in 0 .. k : u[n] = IF n = 0 THEN << >> ELSE u[n - 1] \o f[n]
      BY <2>1 DEF Gathers
    <3>2. 0 \in 0 .. k /\ \A n \in 1 .. k : n \in 0 .. k /\ n # 0
      OBVIOUS
    <3> QED
      BY <3>1, <3>2, Zenon
  <2>3. \A n \in 0 .. k + 1 : v[n] = IF n = 0 THEN << >> ELSE v[n - 1] \o f[n]
    <3> SUFFICES ASSUME NEW n \in 0 .. k + 1
                 PROVE  v[n] = IF n = 0 THEN << >> ELSE v[n - 1] \o f[n]
      OBVIOUS
    <3>1. CASE n = 0
      BY <2>2, <3>1
    <3>2. CASE n \in 1 .. k
      <4>1. v[n] = u[n] /\ v[n - 1] = u[n - 1] /\ n # 0
        BY <3>2
      <4>2. u[n] = u[n - 1] \o f[n]
        BY <2>2, <3>2
      <4> HIDE DEF v
      <4> QED
        BY <4>1, <4>2, Zenon
    <3>3. CASE n = k + 1
      <4>1. v[n] = u[k] \o f[k + 1] /\ v[n - 1] = u[k] /\ n # 0
        BY <3>3
      <4> QED
        BY <3>3, <4>1
    <3> QED
      BY <3>1, <3>2, <3>3
  <2>4. Gathers(v, f, k + 1)
    <3> HIDE DEF v
    <3>1. v = [n \in 0 .. k + 1 |-> v[n]]
      BY DEF v
    <3> QED
      BY <2>3, <3>1 DEF Gathers
  <2> QED
    BY <2>4
<1> HIDE DEF S
<1>3. Nat \subseteq S
  BY <1>1, <1>2, SetInduction
<1> QED
  BY <1>3 DEF S

\* Concatenation under a name of its own, for the provers to see nothing in it but these
\* facts.
Cat(a, b) == a \o b

LEMMA CatFacts ==
  ASSUME NEW S
  PROVE  /\ << >> \in Seq(S)
         /\ \A a \in Seq(S) : Cat(a, << >>) = a /\ Cat(<< >>, a) = a
         /\ \A a, b \in Seq(S) : Cat(a, b) \in Seq(S)
         /\ \A a, b, c \in Seq(S) : Cat(Cat(a, b), c) = Cat(a, Cat(b, c))
<1>1. ASSUME NEW a \in Seq(S), NEW b \in Seq(S), NEW c \in Seq(S)
      PROVE  (a \o b) \o c = a \o (b \o c)
  BY ConcatAssociative
<1>2. ASSUME NEW a \in Seq(S) PROVE a \o << >> = a /\ << >> \o a = a
  BY ConcatEmptySeq
<1>3. ASSUME NEW a \in Seq(S), NEW b \in Seq(S) PROVE a \o b \in Seq(S)
  BY ConcatProperties
<1> QED
  BY <1>1, <1>2, <1>3, EmptySeq DEF Cat

\* The sequence grows position by position.
LEMMA ConcatGrows ==
  ASSUME NEW f
  PROVE  \E u : /\ u[0] = << >> /\ \A n \in 1 .. MaxSlots : u[n] = Cat(u[n - 1], f[n])
                /\ Concat(f) = u[MaxSlots]
<1> DEFINE u == CHOOSE u : Gathers(u, f, MaxSlots)
<1>1. Gathers(u, f, MaxSlots)
  BY GathersExists
<1>2. Concat(f) = u[MaxSlots]
  BY DEF Concat, Gathers
<1> HIDE DEF u
<1>3. \A n \in 0 .. MaxSlots : u[n] = IF n = 0 THEN << >> ELSE Cat(u[n - 1], f[n])
  BY <1>1 DEF Gathers, Cat
<1>4. u[0] = << >> /\ \A n \in 1 .. MaxSlots : u[n] = Cat(u[n - 1], f[n])
  <2>1. 0 \in 0 .. MaxSlots /\ \A n \in 1 .. MaxSlots : n \in 0 .. MaxSlots /\ n # 0
    OBVIOUS
  <2> QED
    BY <1>3, <2>1, Zenon
<1> QED
  BY <1>2, <1>4

LEMMA ConcatType ==
  ASSUME NEW S, NEW f \in [Slot -> Seq(S)]
  PROVE  Concat(f) \in Seq(S)
<1>1. PICK u : /\ u[0] = << >> /\ \A n \in 1 .. MaxSlots : u[n] = Cat(u[n - 1], f[n])
               /\ Concat(f) = u[MaxSlots]
  BY ConcatGrows
<1> DEFINE T == {n \in Nat : n <= MaxSlots => u[n] \in Seq(S)}
<1>2. 0 \in T
  BY <1>1, EmptySeq
<1>3. ASSUME NEW n \in Nat, n \in T PROVE n + 1 \in T
  <2> SUFFICES ASSUME n + 1 <= MaxSlots PROVE u[n + 1] \in Seq(S)
    OBVIOUS
  <2>1. n + 1 \in 1 .. MaxSlots /\ u[n] \in Seq(S) /\ f[n + 1] \in Seq(S) /\ (n + 1) - 1 = n
    BY <1>3 DEF Slot
  <2>2. u[n + 1] = Cat(u[n], f[n + 1])
    BY <1>1, <2>1
  <2>3. \A x, y \in Seq(S) : Cat(x, y) \in Seq(S)
    BY CatFacts
  <2> QED
    BY <2>1, <2>2, <2>3, Zenon
<1> HIDE DEF T
<1>4. Nat \subseteq T
  BY <1>2, <1>3, SetInduction
<1> QED
  BY <1>1, <1>4 DEF T

LEMMA Regroup ==
  ASSUME NEW S, NEW a \in Seq(S), NEW b \in Seq(S), NEW c \in Seq(S), NEW d \in Seq(S),
         b = << >> \/ c = << >>
  PROVE  /\ Cat(a, c) \in Seq(S) /\ Cat(b, d) \in Seq(S)
         /\ Cat(Cat(a, b), Cat(c, d)) = Cat(Cat(a, c), Cat(b, d))
<1>0. /\ \A x \in Seq(S) : Cat(x, << >>) = x /\ Cat(<< >>, x) = x
      /\ \A x, y \in Seq(S) : Cat(x, y) \in Seq(S)
  BY CatFacts
<1>4. \A x, y, z \in Seq(S) : Cat(Cat(x, y), z) = Cat(x, Cat(y, z))
  BY CatFacts
<1>1. Cat(a, c) \in Seq(S) /\ Cat(b, d) \in Seq(S)
  BY <1>0, Zenon
<1>2. CASE b = << >>
  <2>1. Cat(a, << >>) = a /\ Cat(<< >>, d) = d
    BY <1>0, Zenon
  <2>2. Cat(Cat(a, c), d) = Cat(a, Cat(c, d))
    BY <1>4, Zenon
  <2> QED
    BY <1>1, <1>2, <2>1, <2>2
<1>3. CASE c = << >>
  <2>1. Cat(a, << >>) = a /\ Cat(<< >>, d) = d
    BY <1>0, Zenon
  <2>2. Cat(Cat(a, b), d) = Cat(a, Cat(b, d))
    BY <1>4, Zenon
  <2> QED
    BY <1>1, <1>3, <2>1, <2>2
<1> QED
  BY <1>2, <1>3

\* What f gives is parted into what g and h give, and g gives nothing behind what h gives.
InParts(V, f, g, h) ==
  /\ f \in [Slot -> Seq(V)] /\ g \in [Slot -> Seq(V)] /\ h \in [Slot -> Seq(V)]
  /\ \A s \in Slot : f[s] = Cat(g[s], h[s])
  /\ \A s, t \in Slot : s < t => h[s] = << >> \/ g[t] = << >>

LEMMA ConcatParts ==
  ASSUME NEW S, NEW f, NEW g, NEW h, InParts(S, f, g, h)
  PROVE  Concat(f) = Cat(Concat(g), Concat(h))
<1> USE DEF InParts
<1>1. PICK u : /\ u[0] = << >> /\ \A n \in 1 .. MaxSlots : u[n] = Cat(u[n - 1], f[n])
               /\ Concat(f) = u[MaxSlots]
  BY ConcatGrows
<1>2. PICK v : /\ v[0] = << >> /\ \A n \in 1 .. MaxSlots : v[n] = Cat(v[n - 1], g[n])
               /\ Concat(g) = v[MaxSlots]
  BY ConcatGrows
<1>3. PICK w : /\ w[0] = << >> /\ \A n \in 1 .. MaxSlots : w[n] = Cat(w[n - 1], h[n])
               /\ Concat(h) = w[MaxSlots]
  BY ConcatGrows
<1> DEFINE Fits(n) == /\ v[n] \in Seq(S) /\ w[n] \in Seq(S) /\ u[n] = Cat(v[n], w[n])
                      /\ w[n] = << >> \/ \A t \in Slot : n < t => g[t] = << >>
<1>4. Fits(0)
  <2>1. << >> \in Seq(S) /\ Cat(<< >>, << >>) = << >>
    BY CatFacts
  <2> QED
    BY <1>1, <1>2, <1>3, <2>1
<1>5. ASSUME NEW n \in Nat, n + 1 <= MaxSlots, Fits(n) PROVE Fits(n + 1)
  <2>1. /\ n + 1 \in 1 .. MaxSlots /\ n + 1 \in Slot /\ (n + 1) - 1 = n /\ Fits(n) /\ n < n + 1
    BY <1>5 DEF Slot
  <2> HIDE DEF Fits
  <2>2. /\ u[n + 1] = Cat(u[n], f[n + 1]) /\ v[n + 1] = Cat(v[n], g[n + 1])
        /\ w[n + 1] = Cat(w[n], h[n + 1])
    BY <1>1, <1>2, <1>3, <2>1
  <2> DEFINE a == v[n]
             b == w[n]
             c == g[n + 1]
             d == h[n + 1]
  <2>3. /\ a \in Seq(S) /\ b \in Seq(S) /\ c \in Seq(S) /\ d \in Seq(S)
        /\ u[n + 1] = Cat(Cat(a, b), Cat(c, d)) /\ v[n + 1] = Cat(a, c) /\ w[n + 1] = Cat(b, d)
        /\ b = << >> \/ c = << >>
    BY <2>1, <2>2 DEF Fits
  <2> HIDE DEF a, b, c, d
  <2>4. /\ Cat(a, c) \in Seq(S) /\ Cat(b, d) \in Seq(S)
        /\ Cat(Cat(a, b), Cat(c, d)) = Cat(Cat(a, c), Cat(b, d))
    BY <2>3, Regroup
  <2>5. /\ v[n + 1] \in Seq(S) /\ w[n + 1] \in Seq(S)
        /\ u[n + 1] = Cat(v[n + 1], w[n + 1])
    BY <2>3, <2>4
  <2>6. w[n + 1] = << >> \/ \A t \in Slot : n + 1 < t => g[t] = << >>
    <3>1. CASE b = << >> /\ d = << >>
      BY <2>3, <3>1, CatFacts
    <3>2. CASE b # << >>
      <4>1. \A t \in Slot : n + 1 < t => n < t
        BY DEF Slot
      <4> QED
        BY <2>1, <3>2, <4>1 DEF b, Fits
    <3>3. CASE d # << >>
      BY <2>1, <3>3 DEF d
    <3> QED
      BY <3>1, <3>2, <3>3
  <2> QED
    BY <2>5, <2>6 DEF Fits
<1> HIDE DEF Fits
<1> DEFINE T == {n \in Nat : n <= MaxSlots => Fits(n)}
<1>6. 0 \in T
  BY <1>4
<1>7. ASSUME NEW n \in Nat, n \in T PROVE n + 1 \in T
  BY <1>5, <1>7
<1> HIDE DEF T
<1>8. Nat \subseteq T
  BY <1>6, <1>7, SetInduction
<1>9. Fits(MaxSlots)
  BY <1>8 DEF T
<1> QED
  BY <1>1, <1>2, <1>3, <1>9 DEF Fits

\* One position gives all there is.
LEMMA ConcatOne ==
  ASSUME NEW S, NEW f \in [Slot -> Seq(S)], NEW s \in Slot,
         \A t \in Slot \ {s} : f[t] = << >>
  PROVE  Concat(f) = f[s]
<1>1. PICK u : /\ u[0] = << >> /\ \A n \in 1 .. MaxSlots : u[n] = Cat(u[n - 1], f[n])
               /\ Concat(f) = u[MaxSlots]
  BY ConcatGrows
<1>6. << >> \in Seq(S) /\ f[s] \in Seq(S)
  BY EmptySeq
<1>7. \A x \in Seq(S) : Cat(x, << >>) = x /\ Cat(<< >>, x) = x
  BY CatFacts
<1> DEFINE T == {n \in Nat : n <= MaxSlots => u[n] = IF n < s THEN << >> ELSE f[s]}
<1>2. 0 \in T
  BY <1>1 DEF Slot
<1>3. ASSUME NEW n \in Nat, n \in T PROVE n + 1 \in T
  <2> SUFFICES ASSUME n + 1 <= MaxSlots PROVE u[n + 1] = IF n + 1 < s THEN << >> ELSE f[s]
    OBVIOUS
  <2>1. /\ n + 1 \in Slot /\ (n + 1) - 1 = n /\ u[n] = IF n < s THEN << >> ELSE f[s]
        /\ s \in Nat
    BY <1>3 DEF Slot
  <2>2. u[n + 1] = Cat(u[n], f[n + 1]) /\ f[n + 1] \in Seq(S) /\ f[s] \in Seq(S)
    BY <1>1, <2>1 DEF Slot
  <2>3. Cat(<< >>, << >>) = << >> /\ Cat(<< >>, f[s]) = f[s] /\ Cat(f[s], << >>) = f[s]
    BY <1>6, <1>7, Zenon
  <2>4. CASE n + 1 < s
    <3>1. u[n] = << >> /\ f[n + 1] = << >>
      BY <2>1, <2>4
    <3> QED
      BY <2>2, <2>3, <2>4, <3>1
  <2>5. CASE n + 1 = s
    <3>1. u[n] = << >> /\ ~(n + 1 < s)
      BY <2>1, <2>5
    <3> QED
      BY <2>2, <2>3, <2>5, <3>1
  <2>6. CASE n + 1 > s
    <3>1. u[n] = f[s] /\ f[n + 1] = << >> /\ ~(n + 1 < s)
      BY <2>1, <2>6
    <3> QED
      BY <2>2, <2>3, <3>1
  <2> QED
    BY <2>1, <2>4, <2>5, <2>6
<1> HIDE DEF T
<1>4. Nat \subseteq T
  BY <1>2, <1>3, SetInduction
<1>5. MaxSlots \in Nat /\ ~(MaxSlots < s)
  BY DEF Slot
<1> QED
  BY <1>1, <1>4, <1>5 DEF T
-----------------------------------------------------------------------------
(* The views of LedgerHandoff.  Their pieces are sequences, position by      *)
(* position.                                                                 *)
LEMMA PiecesTyped ==
  ASSUME NEW V, NEW S, NEW f, \A e \in S : f[e] \in Seq(V)
  PROVE  pieces(S, f) \in [Slot -> Seq(V)]
<1>1. << >> \in Seq(V)
  BY EmptySeq
<1> QED
  BY <1>1 DEF pieces

(* What the ledger holds in order is what the played emissions give followed *)
(* by what the others give: the played ones are a prefix.                    *)
LEMMA PlayedFirst ==
  ASSUME LedgerInv, NEW V, NEW f, \A e \in Known : f[e] \in Seq(V)
  PROVE  /\ entries_in_order(Played, f) \in Seq(V)
         /\ entries_in_order(Known \ Played, f) \in Seq(V)
         /\ entries_in_order(Known, f)
              = entries_in_order(Played, f) \o entries_in_order(Known \ Played, f)
<1> DEFINE g == pieces(Played, f)
           h == pieces(Known \ Played, f)
           a == pieces(Known, f)
<1>1. Played \subseteq Known
  BY DEF Played, InState
<1>2. g \in [Slot -> Seq(V)] /\ h \in [Slot -> Seq(V)] /\ a \in [Slot -> Seq(V)]
  BY <1>1, PiecesTyped
<1>3. \A x \in Seq(V) : Cat(x, << >>) = x /\ Cat(<< >>, x) = x
  BY CatFacts
<1>4. << >> \in Seq(V)
  BY EmptySeq
<1>5. ASSUME NEW s \in Slot PROVE a[s] = Cat(g[s], h[s])
  <2>1. CASE s \in DOMAIN emission_order /\ emission_order[s] \in Known
    BY <1>1, <1>3, <2>1 DEF pieces
  <2>2. CASE ~(s \in DOMAIN emission_order /\ emission_order[s] \in Known)
    BY <1>1, <1>3, <1>4, <2>2 DEF pieces
  <2> QED
    BY <2>1, <2>2
<1>6. ASSUME NEW s \in Slot, NEW t \in Slot, s < t PROVE h[s] = << >> \/ g[t] = << >>
  <2>1. \A x, y \in DOMAIN emission_order :
          x < y /\ emission_order[y] \in Played => emission_order[x] \in Played
    BY DEF LedgerInv, PlayedIsPrefix
  <2> QED
    BY <1>6, <2>1 DEF pieces
<1> HIDE DEF g, h, a
<1>7. InParts(V, a, g, h)
  BY <1>2, <1>5, <1>6 DEF InParts
<1>8. Concat(a) = Cat(Concat(g), Concat(h))
  BY <1>7, ConcatParts
<1>9. Concat(g) \in Seq(V) /\ Concat(h) \in Seq(V)
  BY <1>2, ConcatType
<1> QED
  BY <1>8, <1>9 DEF g, h, a, entries_in_order, Cat

LEMMA PcmTyped ==
  ASSUME TypeOK, NEW e \in Known
  PROVE  [x \in Known |-> entries[x].pcm][e] \in Seq(Sample)
<1>1. entries[e] \in LedgerEntry
  BY DEF TypeOK, Known
<1>2. entries[e].pcm \in Pcm \cup {NoPcm}
  BY <1>1 DEF LedgerEntry
<1>3. << >> \in Seq(Sample)
  BY EmptySeq
<1> QED
  BY <1>2, <1>3, PcmAssumption

(* The assembler's frozen prefix is the audio that was played, whenever the  *)
(* ledger is handed over between two calls: an assembler rebuilt for a       *)
(* revision treats as played exactly the samples the listener heard.         *)
THEOREM AssemblerPrefix ==
  ASSUME UniqueSchedules, PrefixPlayback
  PROVE  Spec => []AssemblerPrefixIsPlayed
<1>1. LedgerInv => AssemblerPrefixIsPlayed
  <2> SUFFICES ASSUME LedgerInv
               PROVE  SubSeq(PcmOf(Known), 1, Len(PcmOf(Played))) = PcmOf(Played)
    BY DEF AssemblerPrefixIsPlayed, assembler, PlayedPcm
  <2> DEFINE f == [x \in Known |-> entries[x].pcm]
             p == PcmOf(Played)
             q == entries_in_order(Known \ Played, f)
  <2>1. \A e \in Known : f[e] \in Seq(Sample)
    BY PcmTyped DEF LedgerInv
  <2> HIDE DEF f
  <2>2. /\ entries_in_order(Played, f) \in Seq(Sample) /\ q \in Seq(Sample)
        /\ entries_in_order(Known, f) = entries_in_order(Played, f) \o q
    BY <2>1, PlayedFirst
  <2>3. p \in Seq(Sample) /\ q \in Seq(Sample) /\ PcmOf(Known) = p \o q
    BY <2>2 DEF f, PcmOf
  <2> HIDE DEF p, q
  <2>4. SubSeq(p \o q, 1, Len(p)) = p
    BY <2>3, SubSeqOfConcat1
  <2> QED
    BY <2>3, <2>4 DEF p
<1> QED
  BY <1>1, LedgerInvariant, PTL

\* Nothing has audio before attach_pcm hands it in, and attach_pcm moves on from Planned.
PlannedSilent ==
  \A e \in Known : entries[e].delivery_state = "Planned" => entries[e].pcm = NoPcm

LEMMA PlannedIsSilent == Spec => []PlannedSilent
<1>1. Init => PlannedSilent
  BY DEF Init, PlannedSilent, Known
<1>2. TypeOK /\ PlannedSilent /\ [Next]_vars => PlannedSilent'
  <2> SUFFICES ASSUME TypeOK, PlannedSilent, [Next]_vars, NEW x \in Emission,
                      entries'[x] # NoEntry, entries'[x].delivery_state = "Planned"
               PROVE  entries'[x].pcm = NoPcm
    BY DEF PlannedSilent, Known
  <2> USE DEF TypeOK, PlannedSilent, Known
  <2>1. CASE entries' = entries
    BY <2>1
  <2>2. ASSUME ApplyChange PROVE entries'[x].pcm = NoPcm
    <3> DEFINE c == Head(todo)
    <3>1. c \in PlanChange /\ c.id \in Emission
      BY <2>2 DEF ApplyChange, PlanChange
    <3>2. CASE Schedule(c)
      BY <3>1, <3>2 DEF Schedule
    <3>3. CASE Commit(c)
      BY <3>1, <3>3 DEF Commit, LedgerEntry
    <3>4. CASE Cancel(c)
      BY <3>1, <3>4 DEF Cancel
    <3>5. CASE ReplaceSuffix(c)
      BY <3>1, <3>5 DEF ReplaceSuffix
    <3> QED
      BY <2>2, <3>2, <3>3, <3>4, <3>5 DEF ApplyChange
  <2>3. ASSUME NEW e \in Emission, NEW p \in Pcm \cup {NoPcm}, AttachPcm(e, p)
        PROVE entries'[x].pcm = NoPcm
    BY <2>3 DEF AttachPcm, LedgerEntry
  <2>4. ASSUME NEW e \in Emission, NEW s \in Delivery, AdvanceState(e, s)
        PROVE entries'[x].pcm = NoPcm
    <3>1. e = x => entries[e].delivery_state = "Planned"
      BY <2>4 DEF AdvanceState, LedgerEntry, Delivery, delivery_phase
    <3> QED
      BY <2>4, <3>1 DEF AdvanceState, LedgerEntry
  <2> QED
    BY <2>1, <2>2, <2>3, <2>4 DEF Next, ApplyDelta, FinishDelta, ledger, vars
<1> QED
  BY <1>1, <1>2, TypeCorrect, PTL DEF Spec

(* Nothing is lost or doubled between the device and the assembler: with     *)
(* every emission committed, what was played and what collect_unplayed_pcm   *)
(* gives are the assembler's audio, each sample once and in order.           *)
THEOREM HandoffConserved ==
  ASSUME UniqueSchedules, PrefixPlayback
  PROVE  Spec => []HandoffConserves
<1>1. LedgerInv /\ PlannedSilent => HandoffConserves
  <2> SUFFICES ASSUME LedgerInv, PlannedSilent, \A e \in Known : entries[e].committed
               PROVE  PcmOf(Known) = PcmOf(Played) \o collect_unplayed_pcm
    BY DEF HandoffConserves, assembler, PlayedPcm
  <2> DEFINE f == [x \in Known |-> entries[x].pcm]
             C == {e \in Known : Collectable(e)}
  <2>1. \A e \in Known : f[e] \in Seq(Sample)
    BY PcmTyped DEF LedgerInv
  <2>2. ASSUME NEW s \in Slot PROVE pieces(Known \ Played, f)[s] = pieces(C, f)[s]
    <3>1. CASE s \in DOMAIN emission_order /\ emission_order[s] \in Known
      <4> DEFINE e == emission_order[s]
      <4>1. e \in Known \ Played /\ e \notin C => entries[e].delivery_state = "Planned"
        BY <3>1 DEF Collectable, Played, InState
      <4>2. e \in Known \ Played /\ e \notin C => f[e] = << >>
        BY <3>1, <4>1, PcmAssumption DEF PlannedSilent
      <4>3. e \in C => e \in Known \ Played
        BY <3>1 DEF Collectable, Played, InState
      <4> HIDE DEF C, f
      <4> QED
        BY <3>1, <4>2, <4>3 DEF pieces
    <3>2. CASE ~(s \in DOMAIN emission_order /\ emission_order[s] \in Known)
      BY <3>2 DEF pieces
    <3> QED
      BY <3>1, <3>2
  <2> HIDE DEF f, C
  <2>3. pieces(Known \ Played, f) = pieces(C, f)
    <3>1. /\ pieces(Known \ Played, f) = [s \in Slot |-> pieces(Known \ Played, f)[s]]
          /\ pieces(C, f) = [s \in Slot |-> pieces(C, f)[s]]
      BY DEF pieces
    <3> QED
      BY <2>2, <3>1, Zenon
  <2>4. entries_in_order(Known, f)
          = entries_in_order(Played, f) \o entries_in_order(Known \ Played, f)
    BY <2>1, PlayedFirst
  <2> QED
    BY <2>3, <2>4 DEF f, C, PcmOf, entries_in_order, collect_unplayed_pcm
<1> QED
  BY <1>1, LedgerInvariant, PlannedIsSilent, PTL
-----------------------------------------------------------------------------
(* The ledger implements Playout.                                            *)
Heard(S) == [id : S, audio : Pcm \cup {NoPcm}]

HeardOf == [x \in Known |-> <<[id |-> x, audio |-> entries[x].pcm]>>]
PlanOf == [x \in Known |-> <<x>>]

LEMMA HeardPieces ==
  ASSUME TypeOK, NEW V, Played \subseteq V, NEW e \in Played
  PROVE  HeardOf[e] \in Seq(Heard(V))
<1>1. e \in Known /\ entries[e] \in LedgerEntry
  BY DEF TypeOK, Played, InState, Known
<1>2. [id |-> e, audio |-> entries[e].pcm] \in Heard(V)
  BY <1>1 DEF Heard, LedgerEntry
<1> QED
  BY <1>1, <1>2 DEF HeardOf

LEMMA PlanPieces ==
  ASSUME NEW V, NEW e \in Known, e \in V
  PROVE  PlanOf[e] \in Seq(V)
BY DEF PlanOf

\* What is heard are played emissions, and what is planned are the others.
PromiseTyped == heard \in Seq(Heard(Played)) /\ plan \in Seq(Known \ Played)

LEMMA PromiseTypes == TypeOK => PromiseTyped
<1> SUFFICES ASSUME TypeOK
             PROVE  heard \in Seq(Heard(Played)) /\ plan \in Seq(Known \ Played)
  BY DEF PromiseTyped
<1>1. pieces(Played, HeardOf) \in [Slot -> Seq(Heard(Played))]
  <2>1. \A e \in Played : HeardOf[e] \in Seq(Heard(Played))
    BY HeardPieces
  <2> QED
    BY <2>1, PiecesTyped
<1>2. pieces(Known \ Played, PlanOf) \in [Slot -> Seq(Known \ Played)]
  <2>1. \A e \in Known \ Played : PlanOf[e] \in Seq(Known \ Played)
    BY PlanPieces
  <2> QED
    BY <2>1, PiecesTyped
<1>3. /\ Concat(pieces(Played, HeardOf)) \in Seq(Heard(Played))
      /\ Concat(pieces(Known \ Played, PlanOf)) \in Seq(Known \ Played)
  BY <1>1, <1>2, ConcatType
<1> QED
  BY <1>3 DEF heard, plan, entries_in_order, HeardOf, PlanOf

(* A played emission keeps its position.                                     *)
LEMMA PositionKept ==
  ASSUME LedgerInv, Next, NEW s \in DOMAIN emission_order, emission_order[s] \in Played
  PROVE  s \in DOMAIN emission_order' /\ emission_order'[s] = emission_order[s]
<1>1. CASE emission_order' = emission_order
  BY <1>1
<1>2. CASE ApplyChange
  <2> DEFINE c == Head(todo)
  <2>1. c = todo[1] /\ 1 \in DOMAIN todo /\ c.id \in Emission
    BY <1>2, NextChange
  <2>2. PendingChangesFit /\ s \in Nat
    BY DEF LedgerInv, TypeOK, Slot
  <2>3. CASE Schedule(c)
    <3>1. PICK t \in Slot :
            /\ Unused(t)
            /\ emission_order' = [x \in DOMAIN emission_order \cup {t} |->
                                    IF x = t THEN c.id ELSE emission_order[x]]
      BY <2>3 DEF Schedule
    <3>2. s # t
      BY <2>2, <3>1 DEF Unused
    <3> QED
      BY <3>1, <3>2
  <2>4. CASE Commit(c)
    BY <2>4 DEF Commit
  <2>5. CASE Cancel(c)
    <3>1. c.id # emission_order[s]
      BY <2>1, <2>2, <2>5 DEF Cancel, PendingChangesFit
    <3> QED
      BY <2>5, <3>1 DEF Cancel, Keep
  <2>6. CASE ReplaceSuffix(c)
    <3>1. c.id \notin Played
      BY <2>1, <2>2, <2>6 DEF ReplaceSuffix, PendingChangesFit
    <3>2. s \notin Suffix(c.id)
      BY <2>1, <3>1, SuffixUnplayed
    <3> QED
      BY <2>6, <3>2 DEF ReplaceSuffix, Keep
  <2> QED
    BY <1>2, <2>3, <2>4, <2>5, <2>6 DEF ApplyChange
<1> QED
  BY <1>1, <1>2 DEF Next, ApplyDelta, FinishDelta, AttachPcm, AdvanceState, ledger

(* Only the player plays.                                                    *)
LEMMA OnlyPlayerPlays ==
  ASSUME TypeOK, Next, NEW x \in Played', x \notin Played
  PROVE  \E e \in Emission : AdvanceState(e, "Played") /\ e \notin Played
<1> USE DEF TypeOK, Played, InState, Known
<1>1. CASE entries' = entries
  BY <1>1
<1>2. CASE ApplyChange
  <2> DEFINE c == Head(todo)
  <2>1. c.id \in Emission
    BY <1>2 DEF ApplyChange, PlanChange
  <2>2. CASE Schedule(c)
    BY <2>1, <2>2 DEF Schedule
  <2>3. CASE Commit(c)
    BY <2>1, <2>3 DEF Commit, LedgerEntry
  <2>4. CASE Cancel(c)
    BY <2>1, <2>4 DEF Cancel
  <2>5. CASE ReplaceSuffix(c)
    BY <2>1, <2>5 DEF ReplaceSuffix
  <2> QED
    BY <1>2, <2>2, <2>3, <2>4, <2>5 DEF ApplyChange
<1>3. ASSUME NEW e \in Emission, NEW p \in Pcm \cup {NoPcm}, AttachPcm(e, p)
      PROVE  FALSE
  BY <1>3 DEF AttachPcm, LedgerEntry
<1>4. ASSUME NEW e \in Emission, NEW s \in Delivery, AdvanceState(e, s)
      PROVE  s = "Played" /\ e = x
  BY <1>4 DEF AdvanceState, LedgerEntry
<1> QED
  BY <1>1, <1>2, <1>3, <1>4 DEF Next, ApplyDelta, FinishDelta, ledger

(* A step that plays nothing leaves what was heard as it was.                *)
LEMMA HeardStays ==
  ASSUME LedgerInv, LedgerInv', PlayedWasCommitted, Next,
         \A e \in Emission : e \notin Played => ~AdvanceState(e, "Played")
  PROVE  heard' = heard
<1> DEFINE g == pieces(Played, HeardOf)
<1>1. \A e \in Played : entries'[e] = entries[e]
  BY PlayedKept
<1>2. \A e \in Played : e \in Known /\ e \in Known'
  BY <1>1 DEF Played, InState, Known
<1>3. Played' = Played
  <2>1. Played \subseteq Played'
    BY <1>1, <1>2 DEF Played, InState
  <2>2. Played' \subseteq Played
    BY OnlyPlayerPlays DEF LedgerInv
  <2> QED
    BY <2>1, <2>2
<1>4. \A e \in Played : HeardOf'[e] = HeardOf[e]
  BY <1>1, <1>2 DEF HeardOf
<1>5. ASSUME NEW s \in Slot PROVE g'[s] = g[s]
  <2>1. CASE s \in DOMAIN emission_order /\ emission_order[s] \in Played
    BY <1>3, <1>4, <2>1, PositionKept DEF pieces
  <2>2. CASE ~(s \in DOMAIN emission_order /\ emission_order[s] \in Played)
    <3>1. ~(s \in DOMAIN emission_order' /\ emission_order'[s] \in Played)
      <4> SUFFICES ASSUME s \in DOMAIN emission_order', emission_order'[s] \in Played
                   PROVE  FALSE
        OBVIOUS
      <4>1. PICK t \in DOMAIN emission_order : emission_order[t] = emission_order'[s]
        BY <1>2 DEF LedgerInv, OrderMatchesEntries
      <4>2. t \in DOMAIN emission_order' /\ emission_order'[t] = emission_order'[s]
        BY <4>1, PositionKept
      <4>3. t = s
        BY <4>2 DEF LedgerInv, OrderMatchesEntries
      <4> QED
        BY <2>2, <4>1, <4>3
    <3> QED
      BY <1>3, <2>2, <3>1 DEF pieces
  <2> QED
    BY <2>1, <2>2
<1>6. g' = g
  <2>1. g' = [s \in Slot |-> g'[s]] /\ g = [s \in Slot |-> g[s]]
    BY DEF pieces
  <2> HIDE DEF g
  <2> QED
    BY <1>5, <2>1, Zenon
<1> QED
  BY <1>6 DEF heard, entries_in_order, HeardOf, Concat
(* Playing an emission plays the first one of the plan.                      *)
LEMMA PlayedNext ==
  ASSUME LedgerInv, PrefixPlayback, NEW e \in Emission, AdvanceState(e, "Played"),
         e \notin Played, NEW t \in DOMAIN emission_order, emission_order[t] = e
  PROVE  /\ heard' = heard \o HeardOf[e]
         /\ plan = PlanOf[e] \o plan'
<1>1. /\ TypeOK /\ e \in Known /\ InPlayOrder(e) /\ emission_order' = emission_order
      /\ entries' = [entries EXCEPT ![e] = [@ EXCEPT !.delivery_state = "Played"]]
      /\ entries[e] \in LedgerEntry /\ entries[e] # NoEntry
  BY DEF LedgerInv, AdvanceState, TypeOK, Known
<1>2. /\ entries'[e] # NoEntry /\ entries'[e].delivery_state = "Played"
      /\ entries'[e].pcm = entries[e].pcm
      /\ \A x \in Emission : x # e => entries'[x] = entries[x]
  <2>1. [entries[e] EXCEPT !.delivery_state = "Played"] \in LedgerEntry
    BY <1>1 DEF LedgerEntry, Delivery
  <2> QED
    BY <1>1, <2>1 DEF TypeOK, LedgerEntry
<1>3. Known' = Known /\ Played' = Played \cup {e}
  BY <1>1, <1>2 DEF Known, Played, InState
<1>4. HeardOf' = HeardOf /\ PlanOf' = PlanOf
  BY <1>2, <1>3 DEF HeardOf, PlanOf, Known
<1>5. t \in Slot /\ \A s \in DOMAIN emission_order : s # t => emission_order[s] # e
  BY <1>1 DEF TypeOK, LedgerInv, OrderMatchesEntries
<1>6. \A x \in Seq(Heard(Emission)) : Cat(x, << >>) = x /\ Cat(<< >>, x) = x
  BY CatFacts
<1>7. \A x \in Seq(Known) : Cat(x, << >>) = x /\ Cat(<< >>, x) = x
  BY CatFacts
<1>8. << >> \in Seq(Heard(Emission)) /\ << >> \in Seq(Known)
  BY EmptySeq
<1>9. /\ \A x \in Played \cup {e} : HeardOf[x] \in Seq(Heard(Emission))
      /\ \A x \in Known : PlanOf[x] \in Seq(Known)
  <2>1. \A x \in Played : HeardOf[x] \in Seq(Heard(Emission))
    BY <1>1, HeardPieces DEF Played, InState, Known
  <2>2. HeardOf[e] \in Seq(Heard(Emission))
    <3>1. [id |-> e, audio |-> entries[e].pcm] \in Heard(Emission)
      BY <1>1 DEF Heard, LedgerEntry
    <3> QED
      BY <1>1, <3>1 DEF HeardOf
  <2> QED
    BY <2>1, <2>2, PlanPieces
<1>10. heard' = heard \o HeardOf[e]
  <2> DEFINE f == pieces(Played \cup {e}, HeardOf)
             g == pieces(Played, HeardOf)
             h == [s \in Slot |-> IF s = t THEN HeardOf[e] ELSE << >>]
  <2>1. /\ f \in [Slot -> Seq(Heard(Emission))] /\ g \in [Slot -> Seq(Heard(Emission))]
        /\ h \in [Slot -> Seq(Heard(Emission))]
    BY <1>8, <1>9, PiecesTyped
  <2>2. ASSUME NEW s \in Slot PROVE f[s] = Cat(g[s], h[s])
    <3>1. CASE s = t
      BY <1>6, <1>9, <3>1 DEF pieces
    <3>2. CASE s # t
      <4>1. f[s] = g[s] /\ h[s] = << >>
        BY <1>5, <3>2 DEF pieces
      <4> QED
        BY <1>6, <2>1, <4>1
    <3> QED
      BY <3>1, <3>2
  <2>3. ASSUME NEW s \in Slot, NEW r \in Slot, s < r PROVE h[s] = << >> \/ g[r] = << >>
    <3>1. s = t /\ r \in DOMAIN emission_order => emission_order[r] \notin Played
      BY <2>3 DEF LedgerInv, PlayedIsPrefix
    <3> QED
      BY <3>1 DEF pieces
  <2>4. \A s \in Slot \ {t} : h[s] = << >>
    OBVIOUS
  <2>5. h[t] = HeardOf[e]
    BY <1>5
  <2>6. g' = f
    BY <1>1, <1>3, <1>4 DEF pieces
  <2> HIDE DEF f
  <2>7. heard = Concat(g) /\ heard' = Concat(f)
    BY <2>6 DEF heard, entries_in_order, HeardOf, Concat
  <2> DEFINE V == Heard(Emission)
  <2>8. /\ f \in [Slot -> Seq(V)] /\ g \in [Slot -> Seq(V)] /\ h \in [Slot -> Seq(V)]
        /\ InParts(V, f, g, h)
    BY <2>1, <2>2, <2>3 DEF InParts
  <2> HIDE DEF g, h, V
  <2>9. Concat(f) = Cat(Concat(g), Concat(h))
    BY <2>8, ConcatParts
  <2>10. Concat(h) = h[t]
    BY <1>5, <2>4, <2>8, ConcatOne
  <2> QED
    BY <2>5, <2>7, <2>9, <2>10 DEF Cat
<1>11. plan = PlanOf[e] \o plan'
  <2> DEFINE f == pieces(Known \ Played, PlanOf)
             g == [s \in Slot |-> IF s = t THEN PlanOf[e] ELSE << >>]
             h == pieces(Known \ (Played \cup {e}), PlanOf)
  <2>1. /\ f \in [Slot -> Seq(Known)] /\ g \in [Slot -> Seq(Known)]
        /\ h \in [Slot -> Seq(Known)]
    BY <1>1, <1>8, <1>9, PiecesTyped
  <2>2. ASSUME NEW s \in Slot PROVE f[s] = Cat(g[s], h[s])
    <3>1. CASE s = t
      BY <1>1, <1>7, <1>9, <3>1 DEF pieces
    <3>2. CASE s # t
      <4>1. f[s] = h[s] /\ g[s] = << >>
        BY <1>5, <3>2 DEF pieces
      <4> QED
        BY <1>7, <2>1, <4>1
    <3> QED
      BY <3>1, <3>2
  <2>3. ASSUME NEW s \in Slot, NEW r \in Slot, s < r PROVE h[s] = << >> \/ g[r] = << >>
    <3>1. r = t /\ s \in DOMAIN emission_order => emission_order[s] \in Played \cup {e}
      BY <1>1, <2>3 DEF InPlayOrder
    <3> QED
      BY <3>1 DEF pieces
  <2>4. \A s \in Slot \ {t} : g[s] = << >>
    OBVIOUS
  <2>5. g[t] = PlanOf[e]
    BY <1>5
  <2>6. f' = h
    BY <1>1, <1>3, <1>4 DEF pieces
  <2> HIDE DEF h
  <2>7. plan = Concat(f) /\ plan' = Concat(h)
    BY <2>6 DEF plan, entries_in_order, PlanOf, Concat
  <2> DEFINE V == Known
  <2>8. /\ f \in [Slot -> Seq(V)] /\ g \in [Slot -> Seq(V)] /\ h \in [Slot -> Seq(V)]
        /\ InParts(V, f, g, h)
    BY <2>1, <2>2, <2>3 DEF InParts
  <2> HIDE DEF f, g, V
  <2>9. Concat(f) = Cat(Concat(g), Concat(h))
    BY <2>8, ConcatParts
  <2>10. Concat(g) = g[t]
    BY <1>5, <2>4, <2>8, ConcatOne
  <2> QED
    BY <2>5, <2>7, <2>9, <2>10 DEF Cat
<1> QED
  BY <1>10, <1>11

LEMMA PromiseStep ==
  ASSUME PrefixPlayback, LedgerInv, LedgerInv', PlayedWasCommitted, [Next]_vars
  PROVE  [Promise!Next]_<<heard, plan>>
<1>1. TypeOK /\ TypeOK' /\ Known \subseteq Emission /\ Known' \subseteq Emission
  BY DEF LedgerInv, Known
<1>5. /\ heard \in Seq(Heard(Played))
      /\ heard' \in Seq(Heard(Played')) /\ plan' \in Seq(Known' \ Played')
  <2>1. TypeOK => PromiseTyped
    BY PromiseTypes
  <2>2. TypeOK' => PromiseTyped'
    BY PromiseTypes, PTL
  <2> QED
    BY <1>1, <2>1, <2>2 DEF PromiseTyped
<1>2. CASE UNCHANGED vars
  BY <1>2 DEF vars, heard, plan, entries_in_order, pieces, Concat, Known, Played, InState
<1>3. ASSUME NEW e \in Emission, AdvanceState(e, "Played"), e \notin Played
      PROVE  Promise!Play
  <2>1. e \in Known /\ entries[e] \in LedgerEntry
    BY <1>1, <1>3 DEF AdvanceState, Known, TypeOK
  <2>2. PICK t \in DOMAIN emission_order : emission_order[t] = e
    BY <2>1 DEF LedgerInv, OrderMatchesEntries
  <2>3. heard' = heard \o <<[id |-> e, audio |-> entries[e].pcm]>> /\ plan = <<e>> \o plan'
    BY <1>3, <2>1, <2>2, PlayedNext DEF HeardOf, PlanOf
  <2>4. heard \in Seq(Heard(Played)) /\ plan' \in Seq(Known' \ Played')
    BY <1>5
  <2>5. plan # << >> /\ Head(plan) = e /\ Tail(plan) = plan'
    BY <2>3, <2>4
  <2>6. heard' = Append(heard, [id |-> e, audio |-> entries[e].pcm])
    BY <2>3, <2>4, AppendIsConcat
  <2>7. entries[e].pcm \in Pcm \cup {NoPcm}
    BY <2>1 DEF LedgerEntry
  <2> QED
    BY <2>5, <2>6, <2>7 DEF Promise!Play
<1>4. ASSUME Next, \A e \in Emission : e \notin Played => ~AdvanceState(e, "Played")
      PROVE  Promise!Revise
  <2>1. heard' = heard
    BY <1>4, HeardStays
  <2>2. heard' \in Seq(Heard(Played')) /\ plan' \in Seq(Known' \ Played')
    BY <1>5
  <2>3. plan' \in Seq(Emission)
    BY <1>1, <2>2
  <2>4. ASSUME NEW i \in DOMAIN heard, NEW j \in DOMAIN plan' PROVE heard[i].id # plan'[j]
    <3> DEFINE H == Heard(Played')
               K == Known' \ Played'
    <3>1. heard \in Seq(H) /\ plan' \in Seq(K)
      BY <2>1, <2>2
    <3>2. \A h \in H, k \in K : h.id # k
      BY DEF Heard
    <3> HIDE DEF H, K
    <3>3. heard[i] \in H /\ plan'[j] \in K
      BY <3>1
    <3> QED
      BY <3>2, <3>3
  <2> QED
    BY <2>1, <2>3, <2>4 DEF Promise!Revise
<1> QED
  BY <1>2, <1>3, <1>4 DEF Promise!Next

(* The ledger implements Playout: under the same assumptions a listener      *)
(* hears the emissions in the order of the plan, each once, and whatever the *)
(* planner revises and the renderer hands in again leaves what was heard as  *)
(* it was and never plans it anew.                                           *)
THEOREM LedgerIsPlayout ==
  ASSUME UniqueSchedules, PrefixPlayback
  PROVE  Spec => PlayoutPromise
<1>1. Init => Promise!Init
  <2> SUFFICES ASSUME Init PROVE heard = << >> /\ plan = << >>
    BY DEF Promise!Init
  <2>1. TypeOK /\ Known = {} /\ Played = {}
    BY DEF Init, TypeOK, LedgerMetrics, Slot, Known, Played, InState
  <2>2. heard \in Seq(Heard({})) /\ plan \in Seq({})
    BY <2>1, PromiseTypes DEF PromiseTyped
  <2>3. Heard({}) = {}
    BY DEF Heard
  <2> QED
    BY <2>2, <2>3
<1>2. LedgerInv /\ LedgerInv' /\ PlayedWasCommitted /\ [Next]_vars
        => [Promise!Next]_<<heard, plan>>
  BY PromiseStep
<1> QED
  BY <1>1, <1>2, LedgerInvariant, PlayedCommitted, PTL
     DEF Spec, PlayoutPromise, Promise!Spec
=============================================================================
