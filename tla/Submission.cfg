SPECIFICATION MCSpec
CONSTANTS
    r1 = r1
    r2 = r2
    r3 = r3
    h1 = h1
    Requests = {r1, r2, r3}
    Keys = {k1}
    NoKey = NoKey
    Hashes = {h1, h2}
    MaxExpiries = 1
INVARIANTS
    OneJobPerLifetime
    AnswersMatch
    CompensationSparesWinners
PROPERTIES
    RequestsEnd
CHECK_DEADLOCK FALSE
