SPECIFICATION Spec
CONSTANTS
  Turns = {"user1", "plugin1", "room2"}
  Kind <- KindByName
  SessionOf <- SessionByName
  Sessions = {"s1", "s2"}
  Agents = {"a"}
  AgentOf <- OneAgent
  MaxActive = 1
  MaxFailures = 1
  MaxDefers = 1
INVARIANTS
  AgentBounded
CHECK_DEADLOCK FALSE
