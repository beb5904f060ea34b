SPECIFICATION FairSpec
CONSTANTS
  s1 = s1 s2 = s2 p1 = p1 b1 = b1 d1 = d1 d2 = d2
  Strokes <- MCStrokes
  Pages <- MCPages
  BlankPages <- MCBlankPages
  PageOf <- MCPageOf
  Dests <- MCDests
  None = None
  Broken = Broken
  Failures <- AllFailures
  MaxRequests = 2
  MaxRotations = 1
INVARIANTS
  TypeOK
  BaseOnDisk
  ACopySurvives
  NoEditIsLost
  FlaggedUnlessWriteFails
PROPERTIES
  DoneMeansSaved
  RequestsAnswered
CHECK_DEADLOCK FALSE
