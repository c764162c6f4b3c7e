CONSTANTS
    Requests = {r1, r2}
    NoLock = NoLock
    NoConfig = NoConfig
    Ops = {"create", "delete", "start", "stop", "update", "trigger", "workflow", "cli"}
    Faults = {"poststart", "cleanup", "clear"}
    App = TRUE
    Patient = FALSE
    MaxStarts = 2
SPECIFICATION Spec
SYMMETRY MCSymmetry
CONSTRAINTS NothingLost SecondStartLater
INVARIANTS AppsQuietInStop
PROPERTIES DeletedStaysDeleted
