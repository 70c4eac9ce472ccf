SPECIFICATION FairSpec
CONSTANTS
  Commands = {"up", "any"}
  KindsOf <- ByName
  Patient = {"up"}
  Cancelled = {"up"}
  MaxCrashes = 1
INVARIANTS
  TypeOK
  NothingLost
PROPERTIES
  AnsweredIsNotRedone
  QueuedCloseComesLast
  EveryCommandAnswered
CHECK_DEADLOCK FALSE
