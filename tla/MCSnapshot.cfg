SPECIFICATION SnapshotSpec
CONSTANTS
    Path <- MCPath
    Ignored <- MCIgnored
    Content <- MCContent
    None = None
    Bases <- MCBases
    MaxMoves = 2
    Branch <- MCBranch
    DefaultBranch = "main"
    Declarations <- MCDeclarations
INVARIANTS
    CapturedAsSeen
    CommitHoldsSnapshot
    
    
    QuietCaptureSucceeds
CHECK_DEADLOCK FALSE
