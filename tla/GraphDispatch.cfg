SPECIFICATION Spec
CONSTANTS
  Workers = {"pump1", "other"}
  Owner <- PoolAndOther
  Nodes = {"n"}
  Actions = {"a", "repair"}
  Node <- OneNode
  Repair <- OneRepair
  LeaseTime = 2
  RetryTime = 1
  MaxLag = 1
  MaxAttempts = 2
  MaxRecoveries = 1
  MaxTransient = 2
  MaxReconciles = 0
INVARIANTS
  TypeOK
  BudgetsHold
PROPERTIES
  OnlyOwnerChanges
