SPECIFICATION LiveSpec
CONSTANTS
  Limits <- MCLimits
  None = None
  Clis = {c1, c2}
  Kinds = {"start", "stop", "takeover"}
  Overlaps = {TRUE, FALSE}
INVARIANTS OneDaemonApart ServingIsReachable
PROPERTIES CommandsEnd StoppedDaemonExits
CHECK_DEADLOCK FALSE
