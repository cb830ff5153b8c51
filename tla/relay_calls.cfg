\* Two calls of any kind, from two callers: a session and a submission that
\* replays it, or two submissions sharing one mint.
CONSTANTS
    None = None
    Request = {r1, r2}
    Isolate = {i1}
    Caller = {c1, c2}
    Secret = {s1, s2}
    Usable = {s1}
    TTL = 0
    Window = 0
    Budget = 1
    LastTime = 1
SPECIFICATION FairSpec
INVARIANTS
    TokenRidesOnSession
PROPERTIES
    EveryCallAnswered
CHECK_DEADLOCK FALSE
