CONSTANTS
    MaxWTPs = 2
    WTPs = {w1, w2}
    Kinds = {"discovery", "control", "command"}
    MaxInputs = 3
    MaxThreads = 3
    Failures = FALSE
SPECIFICATION Spec
INVARIANTS
    TypeOK
    SlotExclusive
    SlotOwned
    OneSessionPerWTP
    PacketsToOwner
    ActiveCount
    JoinGuarded
PROPERTIES
    SessionUndisturbed
CHECK_DEADLOCK FALSE
