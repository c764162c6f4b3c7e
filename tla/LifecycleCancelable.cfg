CONSTANTS
    Requests = {r1}
    NoLock = NoLock
    NoConfig = NoConfig
    Ops = {"start", "stop"}
    Faults = {}
    App = TRUE
    Patient = FALSE
    MaxStarts = 2
SPECIFICATION Spec
INVARIANTS PeriodicRunsCancelable
