SPECIFICATION Spec
CONSTANTS
  Clients = {c1, c2, c3}
  Keys = {k1}
  MaxTicks = 0
  ChanCap = 20
  MaxInFlight = 2
  MaxOfflineCount = 2
  Ops = {"start", "stop"}
  None = None
SYMMETRY ClientSymmetry
CHECK_DEADLOCK FALSE
INVARIANTS
  ListShowsRunning
