SPECIFICATION FairSpec
CONSTANTS
    ShortSns = {n1, n2}
    LongSns = {n31}
    None = None
    Profiles = {p1, p2}
    Host = "slow"
    MaxRx = 2
    Heap = 1
    Tests <- SharedHeader
    Faults <- ReportedFaults
INVARIANTS
    RepliesAttributable
    VerdictStands
PROPERTIES
    Answered
