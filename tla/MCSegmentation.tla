---------------------------- MODULE MCSegmentation ----------------------------
(* A bounded instance of Segmentation for TLC: two samples in a frame, and one, *)
(* two, three or four frames for the thresholds of the segmenter.               *)
EXTENDS Segmentation

\* 2 frames to open, 1 to end, 2 to close, at most 4, 3 of pre-roll.
Short ==
  [frame_ms |-> 10, speech_start_ms |-> 15, acoustic_end_silence_ms |-> 10,
   segment_end_silence_ms |-> 20, minimum_speech_ms |-> 25, pre_roll_ms |-> 30,
   maximum_segment_ms |-> 40]
===============================================================================
