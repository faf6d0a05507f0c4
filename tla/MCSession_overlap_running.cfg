CONSTANTS
    Peers = {p1}
    NoPeer = NoPeer
    HeartbeatLimit = 1
    ActivePairing = FALSE
    PublishesAudio = TRUE
    PeerLostEnabled = TRUE
    Overlap = TRUE
    LateWork = FALSE
    MaxEpoch = 2
    MaxQueue = 1
SPECIFICATION Spec
INVARIANT
    RunningIsPairedAndNegotiated
