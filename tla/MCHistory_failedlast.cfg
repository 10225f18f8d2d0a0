SPECIFICATION GitHubSpec
CONSTANTS
    Job <- MCJob
    Heuristic <- MCHeuristic
    Durations <- MCDurations
    MaxDurations = 2
    MaxRuns = 3
    Name <- MCName
    Variants <- MCVariants
    Shown <- MCShown
    FileOf <- MCFileOf
    Reports <- MCReports
INVARIANTS
    FailedLastFirst
CHECK_DEADLOCK FALSE
