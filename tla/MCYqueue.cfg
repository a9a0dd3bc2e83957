CONSTANTS
  Value = {v1, v2}
  Record = {r1, r2, r3, r4, r5}
  NULL = NULL
SPECIFICATION FairSpec
INVARIANTS
  WellFormed
  ArrayFits
PROPERTIES
  ImplementsDeque
  ReleaseEnds
