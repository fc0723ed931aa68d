SPECIFICATION Spec
CONSTANTS
  NScans = 1
  Scans <- Ids
  Editors = {}
  MaxRev = 2
  MaxRunning = 1
  MaxTracked = 1
  Requests = {q1, q2}
  MaxRestarts = 1
INVARIANTS
  TypeOK
  DecisionsSurvive
  RunningRowsOwned
PROPERTIES
  ImplementsRepository
