SPECIFICATION FairSpec
CONSTANTS
    ShortSns = {n1}
    LongSns = {}
    None = None
    Profiles = {p1}
    Host = "prompt"
    MaxRx = 2
    Heap = 1
    Tests <- SharedHeader
    Faults <- NoFaults
PROPERTIES
    Answered
