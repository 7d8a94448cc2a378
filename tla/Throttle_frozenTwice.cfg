\* Two first evaluations of a frozen switcher, between which the configuration
\* changes.
CONSTANTS
    c1 = c1
    c2 = c2
    s1 = s1
    s2 = s2
    Caller = {c1, c2}
    Key = {"K1"}
    Criterion <- OneInput
    Options <- Frozen
    MayClear = FALSE
    MayUnthrottle = FALSE
    MayMock = {}
    Slot = {s1, s2}
    MaxVersion = 1
SPECIFICATION Spec
PROPERTIES
    FrozenUntilCleared
