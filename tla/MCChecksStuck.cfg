SPECIFICATION Spec
CONSTANTS
  Members = {m1}
  Workers = {w1}
  Allowance = 0
  Uploads = FALSE
  Crashes = FALSE
  None = None
INVARIANT SuccessMeansPaid
