SPECIFICATION Spec
CONSTANTS
  Workers = {"pump1", "pump2"}
  Owner <- PoolAndOther
  Nodes = {"n"}
  Actions = {"a", "repair"}
  Node <- OneNode
  Repair <- OneRepair
  LeaseTime = 2
  RetryTime = 1
  MaxLag = 0
  MaxAttempts = 3
  MaxRecoveries = 2
  MaxTransient = 2
  MaxReconciles = 0
PROPERTIES
  StaleWorkerFenced
