CONSTANTS
    MaxTimers = 3
    MaxTime = 4
    Delays = {1, 2}
    Second = 3
    AlmostNow = 1
SPECIFICATION FairSpec
INVARIANTS
    TypeOK
    FirstStaysInQueue
    QueueSorted
    WakeupArmed
    RemovedNeverStarts
    FreedAtMostOnce
    StartedAtMostOnce
PROPERTIES
    EveryTimerEnds
    ImplementsService
CHECK_DEADLOCK FALSE
