\* One caller that goes on evaluating, with silent mode or with mocks, one worker
\* or any number of them, and a key that changes.
CONSTANTS
    c1 = c1
    s1 = s1
    s2 = s2
    Caller = {c1}
    Key = {"K1", "K2"}
    Criterion = {}
    Options <- AnyWorkers
    MayClear = FALSE
    MayUnthrottle = FALSE
    MayMock <- NoSilentMode
    Slot = {s1, s2}
    MaxVersion = 1
SPECIFICATION BusySpec
PROPERTIES
    CacheMovesForward
    CacheConverges
