SPECIFICATION Spec
CONSTANTS
    T = 2
    Lag = 1
    MaxTime = 9
    MaxQueue = 2
INVARIANTS
    TypeOK
    IdleGap
    OneWhitespace
CHECK_DEADLOCK FALSE
