SPECIFICATION EngineSpec
CONSTANTS
    NumNodes = 3
    Slots = 2
    Weight <- MCWeight
    Rank <- MCRank
    Needs <- MCNeeds
    FailFast = TRUE
    None = None
    Orphan = Orphan
    TopLevel <- MCTopLevel
    Uses <- MCUses
    Children <- MCChildren
    LogIds <- MCLogIds
    Tolerant = {}
    LeftOut = FALSE
    Interruptible = TRUE
INVARIANTS
    OnlyFirstFailureFails
    FirstFailureReported
    CancelledHasCause
    PassMeansAllRan
    ErrorIsGenuine
    FailureIsReal
PROPERTIES
    CancelledRunFinishes
