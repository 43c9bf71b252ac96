SPECIFICATION Spec
CONSTANTS
    Refreshers = {}
    Sessions = {s1}
    Requests = {}
    MaxContent = 2
    MaxNumber = 2
    None = None
INVARIANTS
    RenderedRowsNamedOrUndone
    RollbackRetiresCaches
PROPERTY GenerationNeverGoesBack
