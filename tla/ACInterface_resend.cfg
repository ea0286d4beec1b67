CONSTANTS
    Apps = {a1}
    MaxSockets = 1
    MaxCommands = 1
    MaxStations = 0
    MaxSeqNum = 7
    gCWMaxRetransmit = 3
    Failures = FALSE
SPECIFICATION FairSpec
PROPERTIES
    RequestResolved
CHECK_DEADLOCK FALSE
