SPECIFICATION Spec
CONSTANTS
  d1 = d1
  d2 = d2
  None = None
  Doc = {d1, d2}
  Files <- MCFiles
  Linked <- MCLinked
  Patience = 6
CHECK_DEADLOCK FALSE
INVARIANT TypeOK
INVARIANT RequestIsOfOneDocument
INVARIANT SignedWhatWasAsked
INVARIANT CountersignedPassedTheChecks
PROPERTY ImplementsOrder
