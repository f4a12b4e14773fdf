CONSTANTS
    Procs = {p1}
    ObjIds = {o1, o2, o3}
    PendingTTL = 1
    DayTTL = 2
    LicenseTTL = 4
    FreeLimit = 1
    MaxCalls = 1
    MaxRequests = 2
    ChainModes = {"uninit"}
    OpenRecord = FALSE
    Absent = Absent
SPECIFICATION Spec
PROPERTY NoSaleWhileLicensed
