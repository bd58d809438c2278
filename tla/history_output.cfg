SPECIFICATION ConversionSpec
CONSTANTS
    Tools = {0}
    MaxEvents <- EventBounds
    MaxLines = 1
    MaxPending = 2
    Calls = {"a", "b"}
    MaxMessages <- MessageBounds
INVARIANT ToolOutputKept
CHECK_DEADLOCK FALSE
