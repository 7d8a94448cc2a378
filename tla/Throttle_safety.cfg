\* Two callers, one worker, a switcher that is changed while it is evaluated,
\* frozen or not, mocks and ClearLogger.
CONSTANTS
    c1 = c1
    c2 = c2
    s1 = s1
    s2 = s2
    Caller = {c1, c2}
    Key = {"K1"}
    Criterion <- OneInput
    Options <- OneWorker
    MayClear = TRUE
    MayUnthrottle = TRUE
    MayMock <- OneWorker
    Slot = {s1, s2}
    MaxVersion = 0
SPECIFICATION Spec
SYMMETRY ThrottleSymmetry
INVARIANTS
    TypeOK
    WorkersBounded
    ServedForOwnInputs
    OneEntryPerInputs
PROPERTIES
    ImplementsCache
    FreezePins
