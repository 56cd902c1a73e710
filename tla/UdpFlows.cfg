SPECIFICATION LiveSpec
CONSTANTS
  Flows = {1}
  Shards = 2
  MaxDials = 2
  KeepaliveMax = 2
INVARIANTS EntriesLive OneSocketPerFlow DoneReclaims
PROPERTIES CancelStops IdleFlowsReclaimed
CHECK_DEADLOCK FALSE
