CONSTANTS
    Modes = {"mjpeg", "yuyv"}
    CamBuffers = 1
    DecodeBuffers = 1
    PoolSize = 2
    InputBuffers = 1
    Slices = 2
    MaxFrames = 3
    MaxFaults = 1
SPECIFICATION Spec
CHECK_DEADLOCK FALSE
INVARIANTS
    FrameDataAccounted
    UnitHasItsTimestamp
PROPERTIES
    ImplementsSurfacePool
    EverythingReturns
