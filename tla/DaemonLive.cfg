SPECIFICATION FairSpec
CONSTANTS
  Clients = {c1, c2}
  Keys = {k1}
  MaxTicks = 1
  ChanCap = 1
  MaxInFlight = 2
  MaxOfflineCount = 1
  Ops = {"start", "stop", "restart", "stopAll", "takeoverStop"}
  None = None
CHECK_DEADLOCK FALSE
PROPERTIES
  RequestsAnswered
  NoZombieEntry
  AcceptedStartRuns
