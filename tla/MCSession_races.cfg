CONSTANTS
    Peers = {p1, p2}
    NoPeer = NoPeer
    HeartbeatLimit = 1
    ActivePairing = TRUE
    PublishesAudio = TRUE
    PeerLostEnabled = TRUE
    Overlap = TRUE
    LateWork = TRUE
    MaxEpoch = 2
    MaxQueue = 2
SPECIFICATION Spec
SYMMETRY PeerSymmetry
INVARIANTS
    UdpBoundToSession
    ConfigDescribesRunningVideo
    NegotiatingHasRetry
    UnregisteredSendsNothing

    
    
