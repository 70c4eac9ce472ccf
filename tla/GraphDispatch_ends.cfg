SPECIFICATION FairSpec
CONSTANTS
  Workers = {"pump1"}
  Owner <- PoolAndOther
  Nodes = {"n"}
  Actions = {"a", "repair"}
  Node <- OneNode
  Repair <- OneRepair
  LeaseTime = 2
  RetryTime = 1
  MaxLag = 0
  MaxAttempts = 2
  MaxRecoveries = 1
  MaxTransient = 2
  MaxReconciles = 1
PROPERTIES
  EveryDispatchEnds
  FailuresSurface
  ImplementsOutboxLease
