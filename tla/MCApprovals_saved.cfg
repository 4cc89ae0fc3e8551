CONSTANTS
  Requests = {}
  Deciders = {d1}
  Forbidden = {}
  Users = {"alice"}
  Surfaces = {"shell"}
  Rules <- OneRule
  DefaultTTL = 1
  MaxTime = 1
  MaxCalls = 1
  Faults = {}
  Ids = {"i1", "i2"}
  Handles = {"h1", "h2"}
  Principals <- ThePrincipals
  Cmds = {"rm", "cd"}
  Barred = {"cd"}
  BaseRules = {"rm"}
  GateCalls = {"c1"}
  Editors = {"e1", "e2"}
  Configs <- Plain
SPECIFICATION ApprovalsSpec
CHECK_DEADLOCK FALSE
INVARIANT SavedAtomically
