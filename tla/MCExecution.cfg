SPECIFICATION ExecutionSpec
CONSTANTS
    NumNodes = 2
    Slots = 2
    Weight <- MCWeight
    Rank <- MCRank
    Needs <- MCNeeds
    FailFast = FALSE
    None = None
    Orphan = Orphan
    TopLevel <- MCTopLevel
    Uses <- MCUses
    Children <- MCChildren
    LogIds <- MCLogIds
    Tolerant = {2}
    LeftOut = FALSE
    Interruptible = TRUE
    Step <- MCStep
    Script <- MCScript
    Legs <- MCLegs
    MaxParallel <- MCMaxParallel
    Planned <- MCPlanned
INVARIANTS
    CompleteCollectsAll
    TornStepsCancelled
    StepsTold
    WithinSlots
