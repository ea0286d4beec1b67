CONSTANTS
    MaxWTPs = 1
    WTPs = {w1}
    Kinds = {"control", "keepalive", "command"}
    MaxInputs = 4
    MaxThreads = 2
    Failures = TRUE
SPECIFICATION FairSpec
INVARIANTS
    SlotExclusive
    JoinGuarded
PROPERTIES
    QueueDrains
CHECK_DEADLOCK FALSE
