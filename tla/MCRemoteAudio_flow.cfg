CONSTANTS
    SeqMod = 10
    InitialPackets = 2
    MaxPackets = 3
    MaxSequenceGap = 3
    FirstIndex = 5
    MaxSent = 6
    MaxStreams = 2
    Window = 2
    MaxCalls = 3
SPECIFICATION Spec
CHECK_DEADLOCK FALSE
INVARIANTS
    BufferMoves
    TimelineStartsFresh
    SourceAliveInPush
    UplinkFlows
PROPERTIES
    PlayedInOrder
