SPECIFICATION RecognitionSpec
CONSTANTS
  s1 = s1
  s2 = s2
  Stream <- Streams
  Silent = {s2}
  Segment = {1}
  Text <- TwoTexts
  NoStream = NoStream
  Faults = {"late", "range", "recommit"}
  MaxEvents <- Events
  Hypothesis <- Hypotheses
  Space = " "
  NoText = NoText
INVARIANTS AcceptedIsContiguous TextAgrees HypothesesSettled
PROPERTY CommittedGuarded
\* Events are bounded: once every stream has made its last one, all may be at rest.
CHECK_DEADLOCK FALSE
