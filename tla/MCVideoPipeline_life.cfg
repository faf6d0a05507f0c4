CONSTANTS
    Modes = {"mjpeg", "yuyv"}
    Recordings = {TRUE, FALSE}
    EyeImages = {TRUE, FALSE}
    BadThreshold = 2
    RecorderLimit = 0
    MaxFaults = 2
    MaxStarts = 1
SPECIFICATION Spec
CHECK_DEADLOCK FALSE
INVARIANTS
    QuietAfterStop
    TeardownRunsAlone
    EncoderAliveInCall
PROPERTIES
    StopReturns
    DirectVideoComesUp
