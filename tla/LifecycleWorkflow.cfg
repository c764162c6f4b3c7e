CONSTANTS
    Requests = {r1, r2}
    NoLock = NoLock
    NoConfig = NoConfig
    Ops = {"delete", "schedule", "workflow"}
    Faults = {}
    App = FALSE
    Patient = FALSE
    MaxStarts = 2
SPECIFICATION Spec
SYMMETRY MCSymmetry
PROPERTIES DeletedStaysDeleted
