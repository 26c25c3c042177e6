--------------------------- MODULE PlaybackLedger ---------------------------
(***************************************************************************)
(* The TTS playback ledger of crates/tongues-tts/src/tts_ledger.rs: the    *)
(* record of every synthesis chunk (an emission) of one utterance, from    *)
(* the plan that schedules it to the moment its audio has been played.     *)
(*                                                                         *)
(* Three callers share the ledger.  The planner revises the schedule       *)
(* (apply_delta), the renderer hands in audio (attach_pcm) and the player  *)
(* reports progress (advance_state).  A call that the code rejects returns *)
(* an error and changes nothing: it is a stuttering step here.             *)
(*                                                                         *)
(* apply_delta validates every change of a delta against the ledger as the *)
(* delta finds it, and only then applies the changes one by one.  The      *)
(* model keeps that order: ApplyDelta validates, ApplyChange applies the   *)
(* next change, FinishDelta records the revision.  The method holds        *)
(* `&mut self` throughout, so while a delta is being applied               *)
(* (incoming # 0) nothing else can happen.                                 *)
(***************************************************************************)
EXTENDS Naturals, FiniteSets, Sequences

CONSTANTS
  Emission,        \* emission ids
  Pcm,             \* the audio buffers a renderer can produce
  NoPcm,           \* the empty buffer
  NoEntry,         \* the ledger has no entry for an emission
  Utterance,       \* the id of this ledger's utterance
  Deltas,          \* the deltas planners may submit
  PrefixPlayback,  \* TRUE: the player reports emissions as played in order
  MaxSlots         \* bound: emission_order positions used in a behaviour

Delivery == {"Planned", "Synthesized", "Verified", "Queued", "Played"}

delivery_phase(state) ==
  CASE state = "Planned"     -> 0
    [] state = "Synthesized" -> 1
    [] state = "Verified"    -> 2
    [] state = "Queued"      -> 3
    [] state = "Played"      -> 4

\* played_at is left out: it is set exactly when delivery_state becomes Played.
LedgerEntry == [delivery_state : Delivery, committed : BOOLEAN, pcm : Pcm \cup {NoPcm}]

\* The morpheme ids are left out: no operation of the ledger reads them.
PlanChange == [kind : {"Schedule"}, id : Emission, committed : BOOLEAN]
                \cup [kind : {"Commit", "Cancel", "ReplaceSuffix"}, id : Emission]

ASSUME ConstantsAssumption ==
  /\ IsFiniteSet(Emission)
  /\ MaxSlots \in Nat
  /\ PrefixPlayback \in BOOLEAN
  /\ NoEntry \notin LedgerEntry
  /\ \A d \in Deltas : /\ d.revision \in Nat \ {0}
                       /\ d.changes \in Seq(PlanChange)

\* The planner never schedules one emission twice in a delta.
UniqueSchedules ==
  \A d \in Deltas : \A i, j \in DOMAIN d.changes :
    d.changes[i].kind = "Schedule" /\ d.changes[j].kind = "Schedule"
      /\ d.changes[i].id = d.changes[j].id => i = j

VARIABLES
  emission_order,   \* insertion order: position -> emission.  A position keeps
                    \* its number when an earlier one is removed, so only the
                    \* relative order of positions has a meaning.
  entries,          \* emission -> entry, or NoEntry
  current_revision,
  metrics,
  incoming,         \* revision of the delta being applied, 0 when there is none
  todo              \* its changes still to be applied

vars == <<emission_order, entries, current_revision, metrics, incoming, todo>>
ledger == <<emission_order, entries>>

Slot == 1 .. MaxSlots

\* The counters the code keeps; a list of latencies is the number recorded, and
\* replace_pending says that last_replace_at holds a time.
LedgerMetrics ==
  [revision_count : Nat, suffix_regeneration_count : Nat,
   suffix_regeneration_latencies : Nat, replace_pending : BOOLEAN,
   cancellation_count : Nat, queue_depth_high_water : Nat, first_audio : BOOLEAN]

Known == {e \in Emission : entries[e] # NoEntry}
InState(state) == {e \in Known : entries[e].delivery_state = state}
Played == InState("Played")

-----------------------------------------------------------------------------
Init ==
  /\ emission_order = [s \in {} |-> NoEntry]
  /\ entries = [e \in Emission |-> NoEntry]
  /\ current_revision = 0
  /\ metrics = [revision_count |-> 0, suffix_regeneration_count |-> 0,
                suffix_regeneration_latencies |-> 0, replace_pending |-> FALSE,
                cancellation_count |-> 0, queue_depth_high_water |-> 0,
                first_audio |-> FALSE]
  /\ incoming = 0
  /\ todo = << >>

-----------------------------------------------------------------------------
\* apply_delta

validate_change(change) ==
  CASE change.kind = "Schedule" -> change.id \notin Known
    [] change.kind = "Commit"   -> change.id \in Known
    [] OTHER                    -> change.id \in Known \ Played

Room(changes) == \A s \in DOMAIN emission_order \cup {0} : s + Len(changes) <= MaxSlots

ApplyDelta(delta) ==
  /\ incoming = 0
  /\ delta.utterance_id = Utterance
  /\ delta.revision > current_revision
  /\ \A i \in DOMAIN delta.changes : validate_change(delta.changes[i])
  /\ Room(delta.changes)
  /\ incoming' = delta.revision
  /\ todo' = delta.changes
  /\ UNCHANGED <<ledger, current_revision, metrics>>

Unused(s) == \A t \in DOMAIN emission_order : t < s

\* Mutant: a new emission takes the first free position, a cancelled one's too.
Schedule_ReusesPosition(change) ==
  /\ change.kind = "Schedule"
  /\ entries' = [entries EXCEPT ![change.id] =
       [delivery_state |-> "Planned", committed |-> change.committed, pcm |-> NoPcm]]
  /\ \E s \in Slot \ DOMAIN emission_order :
       emission_order' = [t \in DOMAIN emission_order \cup {s} |->
                            IF t = s THEN change.id ELSE emission_order[t]]
  /\ UNCHANGED metrics

Schedule(change) ==
  /\ change.kind = "Schedule"
  /\ entries' = [entries EXCEPT ![change.id] =
       [delivery_state |-> "Planned", committed |-> change.committed, pcm |-> NoPcm]]
  /\ \E s \in Slot :
       /\ Unused(s)
       /\ \A t \in Slot : Unused(t) => s <= t
       /\ emission_order' = [t \in DOMAIN emission_order \cup {s} |->
                               IF t = s THEN change.id ELSE emission_order[t]]
  /\ UNCHANGED metrics

Commit(change) ==
  /\ change.kind = "Commit"
  /\ entries' = IF change.id \in Known
                THEN [entries EXCEPT ![change.id].committed = TRUE]
                ELSE entries
  /\ UNCHANGED <<emission_order, metrics>>

Keep(slots) == emission_order' = [s \in slots |-> emission_order[s]]

Cancel(change) ==
  /\ change.kind = "Cancel"
  /\ entries' = [entries EXCEPT ![change.id] = NoEntry]
  /\ Keep({s \in DOMAIN emission_order : emission_order[s] # change.id})
  /\ metrics' = [metrics EXCEPT !.cancellation_count = @ + 1]

\* The positions at or after the first one that holds emission e.
Suffix(e) == {s \in DOMAIN emission_order :
                \E t \in DOMAIN emission_order : t <= s /\ emission_order[t] = e}

ReplaceSuffix(change) ==
  /\ change.kind = "ReplaceSuffix"
  /\ entries' = [e \in Emission |->
                   IF \E s \in Suffix(change.id) : emission_order[s] = e
                   THEN NoEntry ELSE entries[e]]
  /\ Keep(DOMAIN emission_order \ Suffix(change.id))
  /\ metrics' = [metrics EXCEPT
                   !.suffix_regeneration_count = @ + 1,
                   !.suffix_regeneration_latencies =
                     IF metrics.replace_pending THEN @ + 1 ELSE @,
                   !.replace_pending = TRUE]

ApplyChange ==
  /\ incoming # 0
  /\ todo # << >>
  /\ \/ Schedule(Head(todo))
     \/ Commit(Head(todo))
     \/ Cancel(Head(todo))
     \/ ReplaceSuffix(Head(todo))
  /\ todo' = Tail(todo)
  /\ UNCHANGED <<current_revision, incoming>>

FinishDelta ==
  /\ incoming # 0
  /\ todo = << >>
  /\ current_revision' = incoming
  /\ incoming' = 0
  /\ LET queued == Cardinality(InState("Queued"))
     IN metrics' = [metrics EXCEPT
                      !.revision_count = @ + 1,
                      !.queue_depth_high_water = IF queued > @ THEN queued ELSE @]
  /\ UNCHANGED <<ledger, todo>>

-----------------------------------------------------------------------------
\* attach_pcm and advance_state

AttachPcm(e, pcm) ==
  /\ incoming = 0
  /\ e \in Known \ Played
  /\ entries' = [entries EXCEPT ![e] = [@ EXCEPT !.pcm = pcm,
                                                 !.delivery_state = "Synthesized"]]
  /\ UNCHANGED <<emission_order, current_revision, metrics, incoming, todo>>

\* The player's own discipline, when it has one: an emission is reported as
\* played only when every earlier one has been.
InPlayOrder(e) ==
  \A s, t \in DOMAIN emission_order :
    s < t /\ emission_order[t] = e => emission_order[s] \in Played \cup {e}

AdvanceState(e, new_state) ==
  /\ incoming = 0
  /\ e \in Known
  /\ new_state = "Played" => entries[e].committed
  /\ delivery_phase(new_state) >= delivery_phase(entries[e].delivery_state)
  /\ PrefixPlayback /\ new_state = "Played" => InPlayOrder(e)
  /\ entries' = [entries EXCEPT ![e] = [@ EXCEPT !.delivery_state = new_state]]
  /\ metrics' = IF new_state = "Played" /\ e \notin Played
                THEN [metrics EXCEPT
                        !.first_audio = TRUE,
                        !.suffix_regeneration_latencies =
                          IF metrics.replace_pending THEN @ + 1 ELSE @,
                        !.replace_pending = FALSE]
                ELSE metrics
  /\ UNCHANGED <<emission_order, current_revision, incoming, todo>>

Next ==
  \/ \E d \in Deltas : ApplyDelta(d)
  \/ ApplyChange
  \/ FinishDelta
  \/ \E e \in Emission, p \in Pcm \cup {NoPcm} : AttachPcm(e, p)
  \/ \E e \in Emission, s \in Delivery : AdvanceState(e, s)

Spec == Init /\ [][Next]_vars

-----------------------------------------------------------------------------
\* Properties

\* Every variable keeps its type.
TypeOK ==
  /\ DOMAIN emission_order \subseteq Slot
  /\ emission_order \in [DOMAIN emission_order -> Emission]
  /\ entries \in [Emission -> LedgerEntry \cup {NoEntry}]
  /\ current_revision \in Nat
  /\ metrics \in LedgerMetrics
  /\ incoming \in Nat
  /\ todo \in Seq(PlanChange)

\* The commitment guard: whatever the planner, the renderer and the player do,
\* and however often an id is cancelled and scheduled again, audio of a
\* predicted emission is never played (tts_ledger.rs, invariant 1).
PlayedWasCommitted == \A e \in Played : entries[e].committed

\* emission_order and entries describe one set of emissions, each at exactly one
\* position, between any two changes of a delta.
OrderMatchesEntries ==
  /\ {emission_order[s] : s \in DOMAIN emission_order} = Known
  /\ \A s, t \in DOMAIN emission_order : emission_order[s] = emission_order[t] => s = t

\* The played emissions form a prefix of the schedule.
PlayedIsPrefix ==
  \A s, t \in DOMAIN emission_order :
    s < t /\ emission_order[t] \in Played => emission_order[s] \in Played

\* The validation at the start of a delta does not go stale while its changes are
\* applied: no change still to come schedules a known emission or cancels or
\* replaces a played one.
PendingChangesFit ==
  /\ \A i \in DOMAIN todo :
       IF todo[i].kind = "Schedule" THEN todo[i].id \notin Known
       ELSE todo[i].kind \in {"Cancel", "ReplaceSuffix"} => todo[i].id \notin Played
  /\ \A i, j \in DOMAIN todo :
       todo[i].kind = "Schedule" /\ todo[j].kind = "Schedule" /\ todo[i].id = todo[j].id
         => i = j

\* No step removes a played emission or changes its audio (tts_ledger.rs,
\* invariant 2), not even a ReplaceSuffix aimed at some other emission.
PlayedFrozen ==
  [][\A e \in Played : entries'[e] = entries[e]]_vars

\* Audio is only swapped by sending the emission back to Synthesized: an
\* emission that stays verified or queued keeps the audio that was verified.
VerifiedAudioKept ==
  [][\A e \in Known :
       /\ entries'[e] # NoEntry
       /\ delivery_phase(entries[e].delivery_state) >= 2
       /\ delivery_phase(entries'[e].delivery_state) >= 2
       => entries'[e].pcm = entries[e].pcm]_vars

\* Every ReplaceSuffix is accounted for by one latency, recorded when audio is
\* next played or the suffix is replaced again, or is the one still pending;
\* and once something was played, the first-audio latency is known.
ReplacementsAccounted ==
  /\ metrics.suffix_regeneration_count =
       metrics.suffix_regeneration_latencies + (IF metrics.replace_pending THEN 1 ELSE 0)
  /\ Played # {} => metrics.first_audio
=============================================================================
