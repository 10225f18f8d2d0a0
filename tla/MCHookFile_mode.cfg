SPECIFICATION HookSpec
CONSTANTS
    Proc = {p1, p2}
    Faults = {}
    MaxMoves = 1
INVARIANT InstalledIsExecutable
CHECK_DEADLOCK FALSE
