SPECIFICATION Spec
CONSTANTS
  MaxNum = 4
  Values = {v1, v2}
  Data = {d1}
  Signature = Signature
  XRefStream = XRefStream
  None = None
  MaxIncrements = 3
  MaxEdits = 3
  MaxSaves = 1
  MaxFailures = 1
INVARIANTS
  FindsLastChange
