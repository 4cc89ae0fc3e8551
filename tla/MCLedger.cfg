CONSTANTS
  Procs = {p1, p2, p3}
  Hanging = {}
  Sizes = {"short"}
  ChainFaults = {"crash", "power", "flat", "keyDir", "sync", "torn"}
  MaxAppends = 4
  MaxRotations = 0
  Shells = {"fg", "bg"}
  Values = {"x"}
  MaxIssued = 2
  Unset = "unset"
  Hosts = {"h", "i"}
  MaxLogins = 5
  FailWindow = 1
  FailBurst = 2
  FailGlobal = 3
  FailSources = 1
  MaxTime = 2
  Handoffs = {"p1", "p2"}
  Exp = 2
  Reissued = FALSE
  EndOfTime = 3
  MaxSecret = 2
  PipeUnits = 1
  KeyFiles = {1, 2}
  Books <- TheBooks
  BookParams = {"p", "q"}
  ParItems = 3
  ParJobs = 2
SPECIFICATION LedgerSpec
CHECK_DEADLOCK FALSE
SYMMETRY Symmetry
INVARIANTS
  LedgerWhole AckedRecorded CommandsKept LoginSafety OneUseInTime
