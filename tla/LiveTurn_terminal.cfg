SPECIFICATION Spec
CONSTANTS
  provider_capacity = 1
  turn_capacity = 1
  audio_capacity = 1
  stream_capacity = 1
  NoEvent = NoEvent
  MaxTokens = 3
  MaxSegments = 2
INVARIANT TerminalIsLast
\* A turn that is over does nothing more.
CHECK_DEADLOCK FALSE
