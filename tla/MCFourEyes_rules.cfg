CONSTANTS
  Requests = {r1}
  Deciders = {d1, d2}
  Forbidden = {d2}
  Users = {"alice", "bob"}
  Surfaces = {"shell", "http"}
  Rules <- TwoRules
  DefaultTTL = 1
  MaxTime = 1
  MaxCalls = 2
  Faults = {"postWrite", "auditLost", "auditSync", "writeMarker", "unlinkMarker", "crash"}
SPECIFICATION Spec
CHECK_DEADLOCK FALSE
INVARIANTS VerdictOnRecord
PROPERTIES ImplementsApproval EventuallySettled
