SPECIFICATION Spec
CONSTANTS
  Members = {m1, m2}
  Workers = {w1, w2}
  Allowance = 1
  Uploads = TRUE
  Crashes = TRUE
  None = None
SYMMETRY MCSymmetry
INVARIANTS TypeOK OneRequestPays RunningCheckIsPaid PaymentAccounted
