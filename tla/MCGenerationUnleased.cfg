SPECIFICATION Spec
CONSTANTS
    Refreshers = {r1}
    Sessions = {}
    Requests = {q1}
    MaxContent = 2
    MaxNumber = 1
    None = None
INVARIANTS
    TypeOK
    SnapshotNamedOrUndone
    BetaMatchesRows
CHECK_DEADLOCK FALSE
