\* Two goroutines, evaluating and calling, with every option on.
CONSTANTS
    c1 = c1
    c2 = c2
    Caller = {c1, c2}
    Operation = {"evaluate", "call"}
    SilentMode = TRUE
    AutoRenewToken = TRUE
    MaxGeneration = 3
SPECIFICATION Spec
SYMMETRY CallerSymmetry
INVARIANTS
    TypeOK
    OneRenewalChain
    NoSentinelOnWire
