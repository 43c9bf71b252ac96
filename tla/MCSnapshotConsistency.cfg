SPECIFICATION Spec
CONSTANTS
    Refreshers = {}
    Sessions = {}
    Requests = {q1}
    MaxContent = 2
    MaxNumber = 1
    None = None
INVARIANT SnapshotIsConsistent
CHECK_DEADLOCK FALSE
