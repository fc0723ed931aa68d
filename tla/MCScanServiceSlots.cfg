SPECIFICATION Spec
CONSTANTS
  NScans = 3
  Scans <- Ids
  Editors = {}
  MaxRev = 0
  MaxRunning = 2
  MaxTracked = 2
  Requests = {}
  MaxRestarts = 0
INVARIANTS
  SlotSafety
CONSTRAINT SlotsOnly
CHECK_DEADLOCK FALSE
