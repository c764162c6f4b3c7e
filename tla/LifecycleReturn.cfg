CONSTANTS
    Requests = {r1, r2}
    NoLock = NoLock
    NoConfig = NoConfig
    Ops = {"start", "stop"}
    Faults = {}
    App = TRUE
    Patient = FALSE
    MaxStarts = 1
SPECIFICATION FairSpec
PROPERTIES RequestsReturn
