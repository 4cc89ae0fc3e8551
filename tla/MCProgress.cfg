CONSTANTS
  AuthBodies = {"a"}
  RunBodies = {"r", "big"}
  Oversized = {"big"}
  MaxCalls = 1
  MaxCancels = 1
  MaxStrays = 0
  MaxOutput = 1
  MaxWritten = 1
  Conns = {"c1"}
  SessionChans = {"k1"}
  PreAuth = 1
  PerConn = 1
  PerUser = 1
  SessionCap = 1
  Gateways = {"g1"}
  Owners = {"s"}
  Forwards = {"d1"}
  IPs = {"ip1", "ip2"}
  TCPSlots = 1
  Ops = {"o1"}
  Trees = {"w"}
  Placed = {"f1"}
  Sources = {"src"}
  MaxInits = 1
  Logins = {"l1"}
  MaxScripted = 2
  MaxHups = 1
  MaxToggles = 1
  Flights = {"f1", "f2"}
  Agents = {"a"}
  Threads = {"t1"}
  Surfaces = {"local", "peer"}
  Cancelers = {"local"}
  Recancel = FALSE
  AgentOf <- OneAgent
  MaxFlights = 2
  Budget = 1
  Forget = TRUE
  Handlers = {"h1"}
  Keys = {"ann", "bea"}
  Entitled = {"ann"}
  Sessions = {"s1"}
  Users = {"cy"}
  RuleApprover = "bea"
  MaxViewers = 1
  MaxRequests = 1
  Faults = {"audit", "conn"}
  Procs = {"p1", "p2"}
  Hanging = {"p1"}
  Sizes = {"short"}
  ChainFaults = {"torn", "noNewline"}
  MaxAppends = 3
  MaxRotations = 1
  Jobs = {"j1", "j2"}
  Tokens <- TheTokens
  Jwks <- TheJwks
  DeviceUsers = {"dev"}
  Registered = "own"
  Privileged = {"root"}
  Roles = {"ops"}
  Lifetime = 2
  TTL = 1
  DeviceTimeout = 1
  MaxCommands = 1
  MaxTime = 2
  Grantees = {"u"}
  Shares = {"o"}
  Attaches = {"a"}
  Lives = {1}
  MaxGrants = 1
  MaxClk = 1
  MaxKeys = 1
  MaxFrames = 1
  NumCmds = 2
  NumWorkers = 2
  MaxChunks = 2
  KeyBursts <- TheBursts
  Clips <- OneClip
  pasteReadSize = 4
  maxBracketPaste = 2
  MaxInputs = 1
  Lines <- TheLines
  Traps <- TheTraps
  MaxLines = 1
  MaxOut = 1
  MaxTyped = 1
  PipeRoom = 1
  Inquiries = {"r1"}
  Tasks = {"t", "x"}
  Unknown = {"x"}
  TaskSlots = 1
  Limit = 2
  ToolCalls = {"c1"}
  TailLimit = 2
  MaxScan = 4
  MaxSecret = 1
  PipeUnits = 1
  KeyFiles = {1}
  Books <- OneBook
  BookParams = {"p"}
  ParItems = 2
  ParJobs = 2
SPECIFICATION ProgressSpec
CHECK_DEADLOCK FALSE
INVARIANTS
  RecordsKept
PROPERTIES
  CallsEnd PlacesGivenBack PromptsComeBack
