CONSTANTS
    Requests = {r1}
    NoLock = NoLock
    NoConfig = NoConfig
    Ops = {"start", "stop"}
    Faults = {}
    App = FALSE
    Patient = FALSE
    MaxStarts = 1
SPECIFICATION Spec
INVARIANTS CancelledStartsDontStop
