CONSTANTS
    Requests = {r1}
    NoLock = NoLock
    NoConfig = NoConfig
    Ops = {"stop", "cli"}
    Faults = {}
    App = TRUE
    Patient = FALSE
    MaxStarts = 1
SPECIFICATION Spec
INVARIANTS CliStartLasts
