SPECIFICATION Spec
CONSTANTS
  s1 = s1 s2 = s2 p1 = p1 b1 = b1 d1 = d1 d2 = d2
  Strokes <- MCStrokes
  Pages <- MCPages
  BlankPages <- MCBlankPages
  PageOf <- MCPageOf
  Dests <- MCDests
  None = None
  Broken = Broken
  Failures <- NoFailures
  MaxRequests = 2
  MaxRotations = 0
INVARIANT StoppedMeansSaved
CHECK_DEADLOCK FALSE
