SPECIFICATION FairSpec
CONSTANTS
  Workers = {"w1", "w2"}
  MaxAttempts = 3
  MaxRecoveries = 1
  MaxTransient = 2
INVARIANTS
  TypeOK
  CommittedIsSettled
  EndedAttemptRests
  NoLostDelivery
PROPERTIES
  EveryDispatchEnds
  FailuresSurface
CHECK_DEADLOCK FALSE
