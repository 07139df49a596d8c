SPECIFICATION CloseSpec
CONSTANTS
    Settlements = {1, 2}
    NumLines = 3
    Batches <- MCBatches
    Closes <- MCCloses
    DriftTolerance = 100
    SetsumMaxTerms = 5
    SetsumMaxCandidates = 200
    ExpansionMaxCandidates = 1
    SetsumMaxCombinations = 100
    SUFFIX_WINDOW = 3
    EXPORT_WINDOW = 5
    MAX_ACTIONS = 2
INVARIANTS BooksAgree CorrectionsCloseVariance PlanCountsOnce CertificateStands
CHECK_DEADLOCK FALSE
