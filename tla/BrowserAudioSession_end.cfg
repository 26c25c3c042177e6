SPECIFICATION Spec
CONSTANTS
  capacity = 1
  Steps = {1}
  Holes = {0}
  Lengths = {1}
  Restarts = {}
  MaxChunks = 3
  MaxReconnects = 0
  probe_capacity = 2
  segment_capacity = 1
  MaxSegments = 2
PROPERTY EndArrives
\* A session that is over does nothing more, and one whose client says nothing waits.
CHECK_DEADLOCK FALSE
