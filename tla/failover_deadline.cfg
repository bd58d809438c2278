CONSTANTS
    MaxKeys = 2
    KeyStatus = {429}
    Deadlines = {TRUE}
SPECIFICATION Spec
INVARIANT WaitingClientIsAnswered
CHECK_DEADLOCK FALSE
