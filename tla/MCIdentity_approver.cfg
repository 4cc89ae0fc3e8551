CONSTANTS
  Jobs = {"j1", "j2"}
  Tokens <- TheTokens
  Jwks <- TheJwks
  DeviceUsers = {"dev"}
  Registered = "own"
  Privileged = {"root"}
  Roles = {"ops"}
  Lifetime = 2
  TTL = 1
  DeviceTimeout = 1
  MaxCommands = 3
  MaxTime = 2
SPECIFICATION IdentitySpec
CHECK_DEADLOCK FALSE
INVARIANTS ApproverVerified
