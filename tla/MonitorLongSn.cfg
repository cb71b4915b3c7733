SPECIFICATION Spec
CONSTANTS
    ShortSns = {n1}
    LongSns = {n31}
    None = None
    Profiles = {p1}
    Host = "slow"
    MaxRx = 2
    Heap = 1
    Tests <- SharedHeader
    Faults <- NoFaults
INVARIANTS
    SnReadable
