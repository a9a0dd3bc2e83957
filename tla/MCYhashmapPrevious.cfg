CONSTANTS
  Thread = {t1}
  NoThread = NoThread
  ka = ka
  kb = kb
  ke = ke
  kc = kc
  Key <- MCKey
  EmptyKey = ke
  NoKey = NoKey
  Value = {v1}
  Free = Free
  Entry = {e1, e2}
  Block = {b1, b2, b3}
  NULL = NULL
  Search = {}
  LittleEndian = TRUE
  Mixed <- MCMixed
  Bytes <- MCBytes
  Address = {0, 1, 2}
  Capacities = {2}
  PowerOfTwo = {1, 2, 4, 8}
  IntLimit = 32
  SizeLimit = 64
  OutOfMemory = FALSE
SPECIFICATION Spec
PROPERTY PreviousValueIsReturned
