SPECIFICATION Spec
CONSTANTS
    Jobs = {j1}
    Workers = {w1, w2}
    Clients = {c1}
    NoJob = NoJob
    RoleIdExists = TRUE
    MaxAttempts = 2
    NumArtifacts = 1
INVARIANT CommittedArtifactsStored
CHECK_DEADLOCK FALSE
