SPECIFICATION FairSpec
CONSTANTS
    Uploads = {plain, mixed}
    Excludable = {mixed}
    Shifting = {mixed}
    Base = base
    Repaired = repaired
    None = None
INVARIANTS
    TypeOK
    RolledBackLeavesNoTrace
    AnsweredBatchIsWhole
    AcceptedIsKept
    SuccessIsRecorded
    RollbackMeansDisturbed
PROPERTIES
    RulesOutliveRollback
    UploadAnswered
CHECK_DEADLOCK FALSE
