SPECIFICATION Spec
CONSTANTS
  MaxMutations = 2
  QueueSize = 2
  MaxEscapes = 1
INVARIANT NothingLeftPending
CHECK_DEADLOCK FALSE
