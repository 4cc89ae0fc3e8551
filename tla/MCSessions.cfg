CONSTANTS
  AuthBodies = {"a"}
  RunBodies = {"r", "big"}
  Oversized = {"big"}
  MaxCalls = 2
  MaxCancels = 1
  MaxStrays = 1
  MaxOutput = 1
  MaxWritten = 1
  Conns = {"c1", "c2"}
  SessionChans = {"k1", "k2"}
  PreAuth = 1
  PerConn = 1
  PerUser = 1
  SessionCap = 1
  Gateways = {"g1"}
  Owners = {"s"}
  Forwards = {"d1", "d2"}
  IPs = {"ip1", "ip2"}
  TCPSlots = 1
  Logins = {"l1"}
  MaxScripted = 2
  MaxHups = 3
  MaxToggles = 3
  Flights = {"f1", "f2"}
  Agents = {"a"}
  Threads = {"t1", "t2"}
  Surfaces = {"local", "peer"}
  Cancelers = {"local"}
  Recancel = FALSE
  AgentOf <- OneAgent
  MaxFlights = 2
  Budget = 1
  Forget = TRUE
  Jobs = {"j1", "j2"}
  Tokens <- TheTokens
  Jwks <- TheJwks
  DeviceUsers = {"dev"}
  Registered = "own"
  Privileged = {"root"}
  Roles = {"ops"}
  Lifetime = 2
  TTL = 1
  DeviceTimeout = 1
  MaxCommands = 3
  MaxTime = 2
  Grantees = {"u"}
  Shares = {"o"}
  Attaches = {"a"}
  Lives = {1}
  MaxGrants = 2
  MaxClk = 2
  MaxKeys = 2
  MaxFrames = 1
  NumCmds = 3
  NumWorkers = 2
  MaxChunks = 2
  KeyBursts <- TheBursts
  Clips <- TheClips
  pasteReadSize = 4
  maxBracketPaste = 2
  MaxInputs = 2
  Lines <- TheLines
  Traps <- TheTraps
  MaxLines = 2
  MaxOut = 2
  MaxTyped = 2
  PipeRoom = 1
  Inquiries = {"r1", "r2"}
  Tasks = {"t", "x"}
  Unknown = {"x"}
  TaskSlots = 1
  Limit = 2
  ToolCalls = {"c1", "c2"}
  TailLimit = 2
  MaxScan = 4
SPECIFICATION SessionsSpec
CHECK_DEADLOCK FALSE
INVARIANTS
  AnswersInStep CancelsMeant NothingUnrecorded PlacesExact FlightSafety InputKept RanAsWritten
PROPERTIES
  AccessAsGranted ProcessGoverned
