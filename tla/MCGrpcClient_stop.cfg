CONSTANTS
    MaxSessions = 2
    MaxStreams = 3
    MaxEvents = 2
SPECIFICATION Spec
CHECK_DEADLOCK FALSE
INVARIANTS
    StreamReports
    CallsCancelled
PROPERTIES
    ClientStops
