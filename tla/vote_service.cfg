CONSTANTS
    Procs = {p1, p2}
    Runner = Runner
    Votes = {v1, v2}
    VoteId <- MCVoteId
    VoteScore <- MCVoteScore
    Tool = "42"
    PendingTTL = 2
    VoteTTL = 3
    MaxSubmits = 2
    MaxBatches = 1
    Absent = Absent
SPECIFICATION Spec
INVARIANT TypeOK
SYMMETRY Symmetric
