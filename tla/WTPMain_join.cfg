SPECIFICATION FairSpec
CONSTANTS
    MaxRetransmit = 2
    MaxDiscoveries = 1
    MaxSeqNum = 8
    MaxJoins = 2
    MaxFaults = 1
    Faults <- AllFaults
INVARIANTS TypeOK RunAgreement
PROPERTY ReachesRun
CHECK_DEADLOCK FALSE
