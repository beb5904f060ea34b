\* One thread that removes an item: store->size keeps the bytes of what was removed.
CONSTANTS
  t1 = t1
  t2 = t2
  s1 = s1
  s2 = s2
  o1 = o1
  o2 = o2
  o3 = o3
  o4 = o4
  k1 = k1
  k2 = k2
  None = None
  Threads = {t1}
  Slots = {s1, s2}
  Objs = {o1, o2, o3, o4}
  Keys = {k1, k2}
  HashKeys = {k1}
  KeyOf <- MCKeyOf
  SizeOf <- MCSizeOf
  StoreMax = 32
  UIntMax = 255
  Requests = {8}
  Percents = {50}
  Removable = {k1}
  SerialClear = TRUE
SPECIFICATION Spec
INVARIANT SizeIsListed
