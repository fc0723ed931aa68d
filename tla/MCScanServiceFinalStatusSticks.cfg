SPECIFICATION Spec
CONSTANTS
  NScans = 1
  Scans <- Ids
  Editors = {}
  MaxRev = 0
  MaxRunning = 1
  MaxTracked = 1
  Requests = {q1}
  MaxRestarts = 0
PROPERTIES
  FinalStatusSticks
