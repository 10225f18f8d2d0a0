SPECIFICATION HookSpec
CONSTANTS
    Proc = {p1, p2, p3}
    Faults = {"crash", "io"}
    MaxMoves = 2
SYMMETRY Interchangeable
INVARIANTS
    ToldHolds
    OwnIsRecognised
PROPERTY ForeignKept
CHECK_DEADLOCK FALSE
