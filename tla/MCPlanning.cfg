SPECIFICATION PlanSafety
CONSTANTS
    Job <- MCJob
    Needs <- MCNeeds
    Kinds <- MCKinds
    Arm = FALSE
    NoJob = NoJob
    Branch <- MCBranch
    DefaultBranch = "main"
    File <- MCFile
    Declarations <- MCDeclarations
INVARIANTS
    ExactlyRunnableScheduled
    UnsupportedIsNeverPass
    RunFidelityIsWorst
