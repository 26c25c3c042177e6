---------------------------- MODULE Segmentation ----------------------------
(***************************************************************************)
(* Segmenters and their owners: a VAD pipeline with its bounded input,     *)
(* which feeds a segmenter of its own, or a program that makes any calls.  *)
(***************************************************************************)
EXTENDS SegmenterCalls, VadPipeline

SegmentationInit == CallsInit /\ Init

\* Bound: they share no state, and a behaviour is of one of them.
SegmentationNext ==
  \/ CallsInit /\ owner = "pipeline" /\ Next /\ UNCHANGED callvars
  \/ Init /\ CallsNext /\ UNCHANGED vars

SegmentationSpec ==
  /\ SegmentationInit /\ [][SegmentationNext]_<<callvars, vars>>
  /\ WF_vars(Pull) /\ WF_vars(EmitCompleteVadFrame)
=============================================================================
