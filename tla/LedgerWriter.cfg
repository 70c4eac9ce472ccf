SPECIFICATION HangingSpec
CONSTANTS
  MaxMutations = 3
  QueueSize = 2
  MaxEscapes = 1
INVARIANTS
  TypeOK
  AnswersMatchDatabase
  OutstandingIsExact
  CallbacksFollowCommit
  OnlyEscapesLose
PROPERTIES
  NoCommitAfterAbandon
  ImplementsMutationLog
  EveryMutationAnswered
  CloseIsBounded
  CloseAnswers
CHECK_DEADLOCK FALSE
