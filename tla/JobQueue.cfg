SPECIFICATION FairSpec
CONSTANTS
    Jobs = {j1}
    Workers = {w1, w2}
    Clients = {c1}
    NoJob = NoJob
    RoleIdExists = TRUE
    MaxAttempts = 2
    NumArtifacts = 1
INVARIANTS
    PublishedByHolder
    OwnCommitSurvives
PROPERTIES
    TerminalIsFinal
    CancellationHolds
    ImplementsLifecycle
    Settles
CHECK_DEADLOCK FALSE
