SPECIFICATION Spec
CONSTANTS
  Clients = {c1, c2, c3}
  Keys = {k1, k2}
  MaxTicks = 0
  ChanCap = 2
  MaxInFlight = 3
  MaxOfflineCount = 3
  Ops = {"start", "stop", "restart", "stopAll", "list", "stopDaemon"}
  None = None
SYMMETRY ClientSymmetry
CHECK_DEADLOCK FALSE
INVARIANTS
  TypeOK
  StopMeansDone
  RestartNeverOverlaps
PROPERTIES
  ReplacedIsCancelled
