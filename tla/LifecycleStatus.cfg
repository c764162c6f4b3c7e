CONSTANTS
    Requests = {r1, r2}
    NoLock = NoLock
    NoConfig = NoConfig
    Ops = {"start", "workflow"}
    Faults = {}
    App = FALSE
    Patient = FALSE
    MaxStarts = 2
SPECIFICATION Spec
SYMMETRY MCSymmetry
CONSTRAINT NoOverlap
PROPERTIES WorkflowKeepsStatus
