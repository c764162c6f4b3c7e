CONSTANTS
    Requests = {r1, r2}
    NoLock = NoLock
    NoConfig = NoConfig
    Ops = {"create", "delete", "start", "stop"}
    Faults = {"configure", "prestart", "launch", "cc", "delay", "poststart", "cleanup"}
    App = FALSE
    Patient = TRUE
    MaxStarts = 3
SPECIFICATION Spec
SYMMETRY MCSymmetry
CONSTRAINT NoOverlap
INVARIANTS TypeOK NoOrphanVMs
