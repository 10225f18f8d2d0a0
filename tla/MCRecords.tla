----------------------------- MODULE MCRecords ------------------------------
EXTENDS Records

CONSTANTS r1, r2

MCRun == {r1, r2}

AllStatuses == {"pass", "fail", "partial", "error", "cancelled", "skip"}

Anything == {"crash", "io"}
=============================================================================
