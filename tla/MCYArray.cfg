CONSTANTS
  Element = {e1, e2, e3, e4, e5, e6}
  NULL = NULL
  InitialLengths <- MCLengths
  Step = 4
  MaxLength = 6
SYMMETRY Symmetry
SPECIFICATION ArraySpec
INVARIANTS
  InBounds
  HeldIsOwned
PROPERTY OnlyOwnedIsReleased
