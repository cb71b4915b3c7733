SPECIFICATION Spec
CONSTANTS
    ShortSns = {n1, n2}
    LongSns = {}
    None = None
    Profiles = {p1, p2}
    Host = "eager"
    MaxRx = 2
    Heap = 1
    Tests <- OneTest
    Faults <- AllFaults
SYMMETRY StoreSymmetry
INVARIANTS
    MonTypeOK
    SnKept
    ProfileKept
