CONSTANTS
  Thread = {t1, t2}
  NoThread = NoThread
  ka = ka
  kb = kb
  ke = ke
  kc = kc
  Key <- MCKey
  EmptyKey = ke
  NoKey = NoKey
  Value = {v1, v2}
  Free = Free
  Entry = {e1, e2, e3}
  Block = {b1, b2, b3}
  NULL = NULL
  Search = {s1}
  LittleEndian = TRUE
  Mixed <- MCMixed
  Bytes <- MCBytes
  Address = {0, 1, 2}
  Capacities <- MCCapacities
  PowerOfTwo = {1, 2, 4, 8, 16, 32}
  IntLimit = 32
  SizeLimit = 64
  OutOfMemory = TRUE
SYMMETRY Symmetry
SPECIFICATION Spec
INVARIANTS
  ChainsWellFormed
  HeapIsExact
PROPERTIES
  ImplementsDictionary
  RoomForCapacity
