\* Two stamps over one page life or several, two attempts a look; the clock
\* outlasts a session. The only fairness is that a fetch ends.
CONSTANTS
    None = None
    Stamp = {s1, s2}
    Attempts = 2
    TTL = 3
    MintTimeout = 1
    Margin = 1
    LastTime = 4
SPECIFICATION FairSpec
INVARIANTS
    TypeOK
    SessionOutlivesTheTrip
    ReceiptsHold
PROPERTIES
    ImplementsReceipt
    EveryCallReturns
    PendingCompletes
CHECK_DEADLOCK FALSE
