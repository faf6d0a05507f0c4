CONSTANTS
    Peers = {p1, p2}
    None = None
    MaxPairings = 2
    MaxEvents = 2
SPECIFICATION Spec
CHECK_DEADLOCK FALSE
INVARIANTS
    RetryArmed
    SubscribedIsHeld
    ConfigOfPairedPeer
PROPERTIES
    StreamsComeUp
