SPECIFICATION FairSpec
CONSTANTS
  Events = {"e1", "e2"}
  LeaseTime = 1
  RetryTime = 1
  MaxAttempts = 3
  MaxRecoveries = 2
  MaxAge = 1
  MaxLate = 2
INVARIANTS
  TypeOK
  AcknowledgedIsHooked
  SilentOnlyByRecoveries
PROPERTIES
  ImplementsAtLeastOnce
  ImplementsOutboxLease
  EveryEventSettles
