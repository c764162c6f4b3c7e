CONSTANTS
    Clients = {c1, c2}
    Locations = {l1, l2}
    Values = {v1, v2}
    Scans <- MCScans
    MaxRevision = 4
    NoClient = NoClient
    NoRecord = NoRecord
SPECIFICATION Spec
SYMMETRY MCSymmetry
INVARIANTS TypeOK RevisionNamesOneWrite
PROPERTIES NoLostUpdate ImplementsVersionedMap
