SPECIFICATION ConversionSpec
CONSTANTS
    Tools = {0, 1}
    MaxEvents <- EventBounds
    MaxLines = 3
    MaxPending = 2
    Calls = {"a", "b"}
    MaxMessages <- MessageBounds
INVARIANTS
    RightCall
    WellFormed
    EndingTold
    FailsOverBeforeContent
    VerdictIgnoresCuts
    ToolsPaired
    TextKept
    ReasoningKept
    AnswerKept
PROPERTY RelaysAnswer
CHECK_DEADLOCK FALSE
