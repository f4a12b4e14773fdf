CONSTANTS
    Procs = {p1, p2}
    Limit = 2
    RateTTL = 1
    CacheTTL = 2
    UsageTTL = 3
    MaxCalls = 1
    MaxRequests = 5
    Absent = Absent
SPECIFICATION Spec
INVARIANT TypeOK
INVARIANT AllowedPerMinute
SYMMETRY Symmetric
