CONSTANTS
  Handlers = {h1, h2}
  Keys = {"ann", "bea"}
  Entitled = {"ann"}
  Sessions = {"s1"}
  Users = {"cy"}
  RuleApprover = "noname"
  MaxViewers = 1
  MaxRequests = 1
  Faults = {}
SPECIFICATION Spec
CHECK_DEADLOCK FALSE
INVARIANTS SingleUse
