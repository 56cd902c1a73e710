SPECIFICATION Spec
CONSTANTS
  Flows = {f1}
  Sizes = {1, 3, 5, 7}
  MaxSent = 3
  FragIDs = 2
  FragPayloadMax = 2
  MaxFrags = 3
  MaxDatagram = 7
  MaxConcurrent = 1
CHECK_DEADLOCK FALSE
INVARIANTS TypeOK SlotsBounded Integrity NoNeedlessLoss
