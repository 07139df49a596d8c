SPECIFICATION Spec
CONSTANTS
    Settlements = {1, 2, 3, 4, 5}
    NumLines = 3
    Batches <- MCBatches
    DriftTolerance = 1
    SetsumMaxTerms = 3
    SetsumMaxCandidates = 4
    ExpansionMaxCandidates = 3
    SetsumMaxCombinations = 7
INVARIANTS
    OneCreditPerSettlement
    AccountedOnce
PROPERTIES
    UniqueWhenClaimed
CHECK_DEADLOCK FALSE
