CONSTANTS
    MaxPackets = 4
    MaxBytes = 3
    MaxGroups = 1
    MaxInput = 1
    SourcePackets = 1
    ParityPackets = 0
    VideoBytes = 2
    AuxBytes = 1
    MaxFrames = 3
    MaxAux = 0
    MaxResets = 1
SPECIFICATION FairSpec
CHECK_DEADLOCK FALSE
INVARIANTS
    VideoInCaptureOrder
PROPERTIES
    LoopsTerminate
