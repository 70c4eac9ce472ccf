SPECIFICATION Spec
CONSTANTS
  Turns = {"user1", "plugin1", "user2", "room3", "whole1"}
  Kind <- KindByName
  SessionOf <- SessionByName
  Sessions = {"s1", "s2", "s3"}
  Agents = {"a"}
  AgentOf <- OneAgent
  MaxActive = 2
  MaxFailures = 2
  MaxDefers = 1
INVARIANTS
  BoundedUnlessReleasedTwice
CHECK_DEADLOCK FALSE
