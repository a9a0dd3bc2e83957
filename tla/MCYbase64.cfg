CONSTANTS
  Block = {8, 17, 30, 40}
  SizeMod = 64
  Sizes = {0, 3, 16}
  Counts = {1, 4}
  Alignments = {1, 2, 8}
  Texts <- MCTexts
  MaxHeld = 1
  OutOfMemory = TRUE
  InitialLengths <- MCLengths
  DefaultIncrement = 3
  Values <- MCValues
  MaxText = 5
  Messages <- MCMessages
  CodeBlocks = {1, 3, 6}
SPECIFICATION Spec
INVARIANTS
  HoldsWhatWasAsked
  HeapIsOwned
  BufferHoldsText
  EncodesMessage
  DecodesMessage
