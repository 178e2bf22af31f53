SPECIFICATION Spec
CONSTANTS
  Ids = {v1, v2, v3}
  Contents = {c1, c2}
  Approvers = {a1}
  Employees = {e1}
  Workers = {w1, w2}
  None = None
  Gone = Gone
  MaxRequests = 5
SYMMETRY Symmetry
CHECK_DEADLOCK FALSE
INVARIANTS TypeOK ApprovalFieldsTogether SignaturesCurrent
PROPERTIES PendingFrozen NotBypassed SignaturesNotLost
