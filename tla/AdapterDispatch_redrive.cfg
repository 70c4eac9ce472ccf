SPECIFICATION Spec
CONSTANTS
  Workers = {"w1", "w2"}
  MaxAttempts = 3
  MaxRecoveries = 1
  MaxTransient = 2
PROPERTIES
  RedriveCloses
CHECK_DEADLOCK FALSE
