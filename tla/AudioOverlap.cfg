SPECIFICATION Spec
CONSTANTS
    Slots = {s1, s2}
    NoSlot = NoSlot
    Overlap = TRUE
    Reuse = FALSE
    Faults <- NoFaults
    RecSize = 2
    MiniBuf = 2
    FrameLen = 1
    PcmSize = 3
    PlayFrame = 2
    WavSize = 5
SYMMETRY SlotSymmetry
CHECK_DEADLOCK FALSE
INVARIANTS
    WithinBuffers
    DumpKeepsHeader
