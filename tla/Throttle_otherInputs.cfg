\* A strategy is added to the switcher between two evaluations.
CONSTANTS
    c1 = c1
    s1 = s1
    Caller = {c1}
    Key = {"K1"}
    Criterion <- TwoStrategies
    Options <- Default
    MayClear = FALSE
    MayUnthrottle = FALSE
    MayMock = {}
    Slot = {s1}
    MaxVersion = 0
SPECIFICATION Spec
INVARIANTS
    ServedForOwnInputs
