CONSTANTS
    Apps = {a1}
    MaxSockets = 1
    MaxCommands = 3
    MaxStations = 2
    MaxSeqNum = 4
    gCWMaxRetransmit = 3
    Failures = TRUE
SPECIFICATION FairSpec
INVARIANTS
    TypeOK
    ParametersAlive
    ReturnMeansFinished
    NoStaleCompletion
PROPERTIES
    ClosedSessionReleases
CHECK_DEADLOCK FALSE
