SPECIFICATION CodecSpec
CONSTANTS
    Params <- SomeParams
    MaxFaults = 1
    Unset = Unset
INVARIANTS
    DacReported
