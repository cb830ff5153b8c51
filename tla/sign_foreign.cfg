SPECIFICATION Spec
CONSTANTS
  d1 = d1
  d2 = d2
  None = None
  Doc = {d1, d2}
  Files <- MCFiles
  Linked <- MCLinked
  Patience = 5
CHECK_DEADLOCK FALSE
INVARIANT CountersignedWhatWasSigned
