SPECIFICATION AmpFairSpec
CONSTANTS
    OtherTables <- DemoTables
    Scripts <- SomeScripts
    CmdMax = 6
    Volumes = {5, 300}
    MaxLost = 2
INVARIANTS
    AmpTypeOK
    CoefsOffControls
    ControlReached
    PlaysWhenClean
    VolumeTaken
    SentAsWritten
PROPERTIES
    InitReturns
