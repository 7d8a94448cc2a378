\* One goroutine that builds and starts, another one that uses and stops.
CONSTANTS
    c1 = c1
    c2 = c2
    c3 = c3
    w1 = w1
    w2 = w2
    w3 = w3
    t1 = t1
    t2 = t2
    Client = {c1, c2, c3}
    Worker = {w1, w2, w3}
    NoClient = NoClient
    NoWorker = NoWorker
    Thread = {t1, t2}
    Starter = {t1}
    Key = {"K"}
    NoSwitcher = NoSwitcher
    AutoUpdate = TRUE
SPECIFICATION FairSpec
INVARIANTS
    TypeOK
    WorkStoppable
PROPERTIES
    SwitcherKept
    DefaultKept
    EveryCallReturns
