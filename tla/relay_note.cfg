\* Two submissions without a session, on an isolate whose counter is past a
\* budget of one.
CONSTANTS
    None = None
    Request = {r1, r2}
    Isolate = {i1}
    Caller = {c1}
    Secret = {s1}
    Usable = {s1}
    TTL = 1
    Window = 1
    Budget = 1
    LastTime = 1
SPECIFICATION Spec
INVARIANTS
    TokenlessNeverToldSpent
CHECK_DEADLOCK FALSE
