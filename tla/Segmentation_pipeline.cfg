SPECIFICATION SegmentationSpec
CONSTANTS
  capacity = 2
  Steps = {0, 1, 2}
  Holes = {0, 1}
  Lengths = {3}
  Restarts = {0}
  MaxChunks = 3
  MaxReconnects = 1
  config <- Short
  Missing = {1}
  MaxFrames = 7
  samples_per_vad_frame = 2
INVARIANTS SegmentsContiguous SpeechReportedOnce NoSpeechRunLost LifecycleLawful
INVARIANTS GapsAnnounced AcceptedConserved FramesTrue SegmentsAreStretches NoAudioLost
PROPERTY PipelineEnds
\* Chunks and frames are bounded, and a stream that has ended does nothing more.
CHECK_DEADLOCK FALSE
