SPECIFICATION EngineSafety
CONSTANTS
    NumNodes = 3
    Slots = 2
    Weight <- MCWeight
    Rank <- MCRank
    Needs <- MCNeeds
    FailFast = TRUE
    None = None
    Orphan = Orphan
    TopLevel <- MCTopLevel
    Uses <- MCUses
    Children <- MCSharedChildren
    LogIds <- MCSharedLogIds
    Tolerant = {}
    LeftOut = FALSE
    Interruptible = FALSE
INVARIANTS
    PassMeansAllRan
