\* Two stamps, one attempt a look.
CONSTANTS
    None = None
    Stamp = {s1, s2}
    Attempts = 1
    TTL = 0
    MintTimeout = 0
    Margin = 0
    LastTime = 0
SPECIFICATION Spec
INVARIANTS
    AckedIsNeverOrphaned
CHECK_DEADLOCK FALSE
