SPECIFICATION Spec
CONSTANTS
  Phases = {p1, p2, p3}
  Workers = {w1, w2}
  Durations = {1}
  Edits <- SomeEdits
  None = None
  MaxTime = 1
  MaxRequests = 4
SYMMETRY Symmetry
CHECK_DEADLOCK FALSE
INVARIANTS TypeOK Frontier DatesChained
PROPERTIES LockHolds
