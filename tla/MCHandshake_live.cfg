CONSTANTS
    MaxAcks = 2
    MaxResets = 2
    MaxFlips = 2
SPECIFICATION Spec
PROPERTIES
    SilentPeerNoticed
    PeerMakesReady
    ReadyIsTold
    UdpStopReturns
