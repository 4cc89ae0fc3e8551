CONSTANTS
  Flights = {"f1"}
  Agents = {"a"}
  Threads = {t1}
  Surfaces = {"local"}
  Cancelers = {}
  Recancel = FALSE
  AgentOf <- OneAgent
  MaxFlights = 2
  Budget = 1
  Forget = FALSE
  Calls = {c1, c2}
  Commands = {"ls", "cd", "rm", "sudo"}
  AgentAllow = {"ls", "cd"}
  RawNames = {"sudo"}
  QuarantineAllow = {"ls"}
  NeedsApproval = {"ls"}
  RestrictedDeny = {"cd"}
  AuditFails = TRUE
  MaxCommands = 2
SPECIFICATION Spec
CHECK_DEADLOCK FALSE
INVARIANTS AgentHeld RanOnRecord
PROPERTIES GateReturns
