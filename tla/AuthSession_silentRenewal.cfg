\* One goroutine and the background renewals.
CONSTANTS
    c1 = c1
    Caller = {c1}
    Operation = {"evaluate"}
    SilentMode = TRUE
    AutoRenewToken = TRUE
    MaxGeneration = 3
SPECIFICATION Spec
PROPERTIES
    RenewalSparesSilentMode
