---------------------------- MODULE SpeechOutput ----------------------------
(***************************************************************************)
(* The two owners of an utterance's audio on its way out, in one system:   *)
(* the ledger, with what it hands on, and the assembler that splices a     *)
(* revision.  The ledger builds an assembler by push and mark_played       *)
(* (build_revision_assembler), gives it to the caller and keeps no part in *)
(* it, so that each goes on by itself.                                     *)
(***************************************************************************)
EXTENDS LedgerHandoff, RevisionAssembler

OutputInit == Init /\ AssemblerInit

\* Bound: they share no state, and a behaviour is of one of them.
OutputNext ==
  \/ AssemblerInit /\ Next /\ UNCHANGED assemblervars
  \/ Init /\ AssemblerNext /\ UNCHANGED vars

OutputSpec == OutputInit /\ [][OutputNext]_<<vars, assemblervars>>
=============================================================================
