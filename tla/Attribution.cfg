SPECIFICATION Spec
CONSTANTS
    NumLines = 3
    Settlements = {1, 2, 3}
    DATE_WINDOW_DAYS = 3
    MAX_CHALLENGES = 16
    SPLIT_DRIFT_PAISE = 0
    SPLIT_DATE_WINDOW = 5
    SPLIT_MAX_CANDIDATES = 2
    SPLIT_MAX_LEGS = 3
    MAX_SPLIT_COMBINATIONS = 50
    SETSUM_MAX_TERMS = 5
    SETSUM_MAX_CANDIDATES = 200
    SETSUM_EXPANSION_MAX_CANDIDATES = 16
    SETSUM_MAX_COMBINATIONS = 100
    Margins = {0, 600}
    Budgets = {3, 10000}
    Statements <- MCStatements
    RuleSets <- MCRuleSets
INVARIANTS ProofGate SolverOptimal NearTiesAbstain CutAbstains SplitsUnambiguous
CHECK_DEADLOCK FALSE
