CONSTANTS
    Peers = {p1, p2}
    NoPeer = NoPeer
    HeartbeatLimit = 3
    ActivePairing = TRUE
    PublishesAudio = TRUE
    PeerLostEnabled = TRUE
    Overlap = FALSE
    LateWork = FALSE
    MaxEpoch = 2
    MaxQueue = 2
SPECIFICATION Spec
SYMMETRY PeerSymmetry
INVARIANTS
    TypeOK
    ConfigsBoundToSession
