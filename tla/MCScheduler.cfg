SPECIFICATION Spec
CONSTANTS
    NumNodes = 5
    Slots = 3
    Weight <- MCWeight
    Rank <- MCRank
    Needs <- MCNeeds
    FailFast = TRUE
INVARIANTS
    TypeOK
    SlotAccounting
    ReadyIsExact
    NoIdleCapacity
    ReturnsDrained
PROPERTIES
    ImplementsPool
    Terminates
