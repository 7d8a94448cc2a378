\* Running goroutines make progress, time passes, and both goroutines go on
\* evaluating, calling as well now and then.
CONSTANTS
    c1 = c1
    c2 = c2
    Caller = {c1, c2}
    Operation = {"evaluate", "call"}
    SilentMode = TRUE
    AutoRenewToken = FALSE
    MaxGeneration = 2
SPECIFICATION BusySpec
PROPERTIES
    OperationsComplete
    SilentModeEnds
    ImplementsBreaker
