SPECIFICATION FairSpec
CONSTANTS
    Operations = {o1, o2, probe}
    None = None
INVARIANTS
    TypeOK
    MutualExclusion
    LocksGivenBack
    OwnerFileExplained
PROPERTIES
    UnlinksOnlyOwnRecord
    BusyOnlyWhileContended
    LeaseFreedAgain
    ImplementsExclusiveWriter
CHECK_DEADLOCK FALSE
