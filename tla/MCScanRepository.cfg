SPECIFICATION Spec
CONSTANTS
  Scans = {s1}
  Editors = {e1, e2}
  MaxRev = 3
SYMMETRY Symmetry
INVARIANTS
  TypeOK
  DecisionsDurable
  PlanEditsKept
  NothingOutlivesTheRow
