CONSTANTS
    Keys <- MCKeys
    Vals = {v1}
    Procs = {p1, p2}
    TTLs <- MCTTLs
    MaxCount = 2
    Absent = Absent
    CleanupEnabled = TRUE
SPECIFICATION Spec
INVARIANT TypeOK
PROPERTY ExpiredEventuallyRemoved
