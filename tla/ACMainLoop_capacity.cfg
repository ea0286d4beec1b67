CONSTANTS
    MaxWTPs = 1
    WTPs = {w1, w2}
    Kinds = {"control"}
    MaxInputs = 3
    MaxThreads = 3
    Failures = FALSE
SPECIFICATION Spec
INVARIANTS
    AtMostMaxWTPs
CHECK_DEADLOCK FALSE
