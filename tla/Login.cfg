SPECIFICATION MCSpec
CONSTANTS
    b1 = b1
    s1 = s1
    u1 = u1
    e1 = e1
    Browsers = {b1, b2}
    States = {s1, s2}
    Subjects = {u1, u2}
    Emails = {e1, e2}
    Principals = {p1, p2}
    Callbacks = {c1, c2}
    NoState = NoState
    NoSubject = NoSubject
    NoEmail = NoEmail
    NoOne = NoOne
    NoBrowser = NoBrowser
    Lifetime = 1
    Retention = 1
    MaxTime = 2
INVARIANTS
    FlowSignsInOnce
    SessionForItsBrowser
    OneAccountPerSubject
PROPERTIES
    CallbackEnds
CHECK_DEADLOCK FALSE
