CONSTANTS
  Handlers = {h1, h2}
  Keys = {"ann", "bea"}
  Entitled = {"ann"}
  Sessions = {"s1"}
  Users = {"bea"}
  RuleApprover = "noname"
  MaxViewers = 1
  MaxRequests = 2
  Faults = {}
SPECIFICATION Spec
CHECK_DEADLOCK FALSE
SYMMETRY HandlerSymmetry
INVARIANTS AttachSafety RwApproved
