CONSTANTS
    MaxKeys = 2
    KeyStatus = {429}
    Deadlines = {FALSE}
SPECIFICATION Spec
INVARIANT NoBlameForClient
CHECK_DEADLOCK FALSE
