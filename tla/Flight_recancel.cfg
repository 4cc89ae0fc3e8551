CONSTANTS
  Flights = {"f1", "f2"}
  Agents = {"a"}
  Threads = {t1}
  Surfaces = {"local", "peer"}
  Cancelers = {"peer"}
  Recancel = TRUE
  AgentOf <- OneAgent
  MaxFlights = 2
  Budget = 1
  Forget = FALSE
SPECIFICATION FlightSpec
CHECK_DEADLOCK FALSE
INVARIANTS LocalSurvivesPeers
