SPECIFICATION MCSpec
CONSTANTS
    b1 = b1
    s1 = s1
    Browsers = {b1, b2}
    Sessions = {s1, s2}
    Requests = {r1, r2}
    NoSession = NoSession
    IdleTimeout = 2
    AbsoluteTimeout = 3
    TouchThrottle = 0
    MaxTime = 4
SYMMETRY SessionSymmetry
INVARIANTS
    LoggedOutTokenDead
PROPERTIES
    EndedStaysEnded
CHECK_DEADLOCK FALSE
