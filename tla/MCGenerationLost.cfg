SPECIFICATION Spec
CONSTANTS
    Refreshers = {r1}
    Sessions = {}
    Requests = {}
    MaxContent = 2
    MaxNumber = 1
    None = None
PROPERTY GenerationNeverGoesBack
CHECK_DEADLOCK FALSE
