SPECIFICATION FairSpec
CONSTANTS
  Tunnels = {k1, k2}
  Clis = {c1, c2}
  Lines <- MCLines
  Unset = Unset
  None = None
  MaxStarts = 2
  MaxOrders = 3
CHECK_DEADLOCK FALSE
INVARIANTS FromOneCommand RerunKeeps
PROPERTIES ComesBack
