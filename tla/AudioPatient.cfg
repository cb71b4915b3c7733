SPECIFICATION FairSpec
CONSTANTS
    Slots = {s1}
    NoSlot = NoSlot
    Overlap = FALSE
    Reuse = TRUE
    Faults <- AllFaults
    RecSize = 8
    MiniBuf = 3
    FrameLen = 2
    PcmSize = 5
    PlayFrame = 2
    WavSize = 7
INVARIANTS
    TypeOK
    PatientInv
    DriverOutlivesPlayer
    FramesNumbered
    RepliesTrue
    WithinBuffers
    ReleasedWhenIdle
PROPERTIES
    HostSeesProtocol
    AnsweredOrRefused
    TasksEnd
