CONSTANTS
    MaxPackets = 5
    MaxBytes = 8
    MaxGroups = 2
    MaxInput = 2
    SourcePackets = 1
    ParityPackets = 1
    VideoBytes = 3
    AuxBytes = 1
    MaxFrames = 3
    MaxAux = 1
    MaxResets = 0
SPECIFICATION Spec
CHECK_DEADLOCK FALSE
INVARIANTS
    BytesExact
    WithinLimits
PROPERTIES
    PartlySentKept
