SPECIFICATION Spec
CONSTANTS
  NULL = NULL
  Ref = {r1, r2, r3, r4, r5, r6, r7}
  Failures = TRUE
  InputStream = {in1, in2}
  OutputStream = {out}
  Char <- MCChar
  Truncated <- MCTruncated
  MaxChars = 2
  MaxBeyond = 2
  Fields = 2
INVARIANTS
  RefsExact
  PendingRespected
  Utf16Exact
