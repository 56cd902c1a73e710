SPECIFICATION Spec
CONSTANTS
  Clients = {c1, c2}
  Keys = {k1}
  MaxTicks = 2
  ChanCap = 2
  MaxInFlight = 2
  MaxOfflineCount = 3
  Ops = {"start", "register", "takeoverStop", "signal", "panic", "lifetime"}
  None = None
SYMMETRY ClientSymmetry
CHECK_DEADLOCK FALSE
INVARIANTS
  NoOrphan
