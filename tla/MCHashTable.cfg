\* Two threads, six keys: 5, 5 and 11 share home 5 in the first array; at most one growth, from 6 to 12 slots.
CONSTANTS
  k1 = k1
  k2 = k2
  k3 = k3
  k4 = k4
  k5 = k5
  k6 = k6
  t1 = t1
  t2 = t2
  None = None
  Threads = {t1, t2}
  Keys = {k1, k2, k3, k4, k5, k6}
  FastKeys = {k1}
  Hash <- MCHash
  InitialSize = 6
  MaxArrays = 2
SYMMETRY Symmetry
SPECIFICATION Spec
INVARIANTS
  TypeOK
  Findable
  LoadCounts
PROPERTIES
  OnlyCallsChangeContents
