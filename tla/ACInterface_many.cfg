CONSTANTS
    Apps = {a1, a2, a3}
    MaxSockets = 2
    MaxCommands = 2
    MaxStations = 0
    MaxSeqNum = 7
    gCWMaxRetransmit = 3
    Failures = TRUE
SYMMETRY AppSymmetry
SPECIFICATION Spec
INVARIANTS
    EnoughWaiters
    SocketCount
    OwnSocket
CHECK_DEADLOCK FALSE
