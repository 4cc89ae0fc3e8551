CONSTANTS
  Requests = {r1}
  Deciders = {d1, d2}
  Forbidden = {}
  Users = {"alice", "bob"}
  Surfaces = {"shell"}
  Rules <- OneRule
  DefaultTTL = 1
  MaxTime = 2
  MaxCalls = 2
  Faults = {"crash", "createMarker", "writeMarker", "unlinkClaim"}
  Ids = {"i1", "i2"}
  Handles = {"h1", "h2"}
  Principals <- ThePrincipals
  Cmds = {"rm", "cd"}
  Barred = {"cd"}
  BaseRules = {"rm"}
  GateCalls = {"c1"}
  Editors = {"e1", "e2"}
  Configs <- TheConfigs
SPECIFICATION ApprovalsSpec
CHECK_DEADLOCK FALSE
SYMMETRY Symmetry
INVARIANTS
  TypeOK OneDecider OneVerdict NoSilentLoss EffectOrRevert
  CommandsAuthorized ExplanationTrue
