SPECIFICATION Spec
CONSTANTS
  Limits <- MCLimits
  None = None
  Clis = {c1, c2}
  Kinds = {"start"}
  Overlaps = {TRUE}
INVARIANT OneDaemon
CHECK_DEADLOCK FALSE
