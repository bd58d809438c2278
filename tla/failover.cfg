CONSTANTS
    MaxKeys = 2
    KeyStatus = {429}
    Deadlines = {FALSE, TRUE}
SPECIFICATION FairSpec
INVARIANTS TypeOK TriesAll PermittedOnly AnswerFromLast
           OnlyLastReachesClient LastLogged NoSilentEnd
PROPERTIES ImplementsOneResponse EndsWhenClientLeft
CHECK_DEADLOCK FALSE
