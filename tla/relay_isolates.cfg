\* One session and two submissions on two isolates, each of which may be
\* restarted with another secret or none: what is sealed on one is opened on
\* the other, and the log's bucket is shared.
CONSTANTS
    None = None
    Request = {r1, r2, r3}
    Isolate = {i1, i2}
    Caller = {c1}
    Secret = {s1, s2}
    Usable = {s1, s2}
    TTL = 0
    Window = 0
    Budget = 1
    LastTime = 1
SPECIFICATION Spec
SYMMETRY Symmetric
CONSTRAINT OneSession
INVARIANTS
    TypeOK
    ValidSessionHasToken
    CountIsHonest
    DeclineTellsTheTruth
PROPERTIES
    ImplementsGate
CHECK_DEADLOCK FALSE
