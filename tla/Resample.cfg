SPECIFICATION ResampleSpec
CONSTANTS
    Streams <- MCStreams
    Sizes = {1, 2, 5, 14}
    MaxFrames = 32
INVARIANTS
    ResampleTypeOK
    WithinOutput
    OutputWhole
    CountersBounded
    FilterKeepsUp
PROPERTY SoundGoesThrough
