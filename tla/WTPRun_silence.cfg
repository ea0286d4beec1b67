CONSTANTS
    MaxRetransmitEcho = 1
    MaxRuns = 2
    MaxStray = 1
    Failures = TRUE
SPECIFICATION FairSpec
INVARIANTS TypeOK EchoGuarded DeadGuarded
PROPERTIES SilenceNoticed LeavesRun
CHECK_DEADLOCK FALSE
