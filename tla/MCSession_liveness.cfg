CONSTANTS
    Peers = {p1}
    NoPeer = NoPeer
    HeartbeatLimit = 1
    ActivePairing = FALSE
    PublishesAudio = TRUE
    PeerLostEnabled = TRUE
    Overlap = FALSE
    LateWork = FALSE
    MaxEpoch = 2
    MaxQueue = 1
SPECIFICATION FairSpec
PROPERTIES
    EventStreamRestored
    NegotiationEnds
