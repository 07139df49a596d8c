SPECIFICATION Spec
CONSTANTS
    org1 = org1
    org2 = org2
    call1 = call1
    call2 = call2
    hash1 = hash1
    hash2 = hash2
    unset = unset
    Orgs <- MCOrgs
    Calls <- MCCalls
    Hashes <- MCHashes
    Periods <- MCPeriods
    Deployments <- MCEnforced
    PageLimit = 1
    MaxRuns = 2
    MaxHolds = 1
    MaxClock = 1
    NoTenant = unset
    NoPeriod = 0
    NoHash = unset
    NoOutput = unset
SYMMETRY Symmetry
CHECK_DEADLOCK FALSE
INVARIANTS
    OwnRunFound
