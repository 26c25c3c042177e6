SPECIFICATION Spec
CONSTANTS
  Clients = {s1, f1, f2}
  Streams = {s1}
  NoClient = NoClient
  Providers = {"fixture", "whisper.cpp"}
  OfflineOnly = {"whisper.cpp"}
  maximum_concurrent_sessions <- Sessions
  estimated_memory_mb <- Memory
  maximum_estimated_memory_mb = 8
  session_capacity = 2
  MaxChunks = 1
INVARIANTS NoSessionLeak AdmittedIsServed TerminalMeansReleased
PROPERTY PermitsReturn
\* When every request is over nothing is left to do.
CHECK_DEADLOCK FALSE
