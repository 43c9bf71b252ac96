SPECIFICATION Spec
CONSTANTS
  ShardCount = 2
  NodeCounts = {1, 3}
INVARIANTS TypeOK SoundRun TerminationClaimTrue
PROPERTY ControllerReturns
CHECK_DEADLOCK FALSE
