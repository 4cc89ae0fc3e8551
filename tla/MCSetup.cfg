CONSTANTS
  HostShells = {a1, a2}
  Hashes = {1, 2}
  HostUsers = {"u"}
  MaxSigners = 2
  Candidates <- TheCandidates
  MaxHostCmds = 3
  MaxHostActs = 1
  Servers = {b1, b2}
  NamedKeys = {"ann", "bea"}
  ApiCalls = {a1, a2}
  Pending = {"r"}
  MaxStarts = 2
  MaxSent = 2
  Peers = {"p", "q"}
  FindTime = 2
  MaxRetry = 2
  RateWindow = 2
  RateLimit = 2
  BanTime = 2
  MaxEntries = 1
  PeerCap = 1
  TableFull = "evict"
  MaxClock = 3
  MaxWrites = 2
  MaxFaults = 1
  MaxKnocks = 3
  FileLines <- TheFileLines
  Offers <- TheOffers
  LoginNames = {"ann", "root"}
  Root = "root"
  MaxGranted = 1
  Loaders = {"fg"}
  Batches <- TheBatches
  PluginNames = {"a", "b"}
  TopNames = {"x"}
  MaxLoads = 3
  Ops = {a1, a2}
  Trees = {"w"}
  Placed = {b1, b2}
  Sources = {"src"}
  MaxInits = 2
  ScriptLines <- TheLines
  Closers <- TheClosers
  MaxChunkLines = 3
  MaxScript = 4
SPECIFICATION SetupSpec
SYMMETRY Symmetry
CHECK_DEADLOCK FALSE
INVARIANTS
  HostSafety AdminSafety GuardSafety KeysSafety ChunksSafety
PROPERTIES
  PluginsSafety GridSafety
