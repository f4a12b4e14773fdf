CONSTANTS
    Procs = {p1, p2}
    ObjIds = {o1, o2, o3}
    PendingTTL = 1
    DayTTL = 2
    LicenseTTL = 4
    FreeLimit = 1
    MaxCalls = 1
    MaxRequests = 1
    ChainModes = {"uninit"}
    OpenRecord = TRUE
    Absent = Absent
SPECIFICATION Spec
PROPERTY LicensedGrantBacked
