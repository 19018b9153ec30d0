SPECIFICATION Spec
CONSTANTS
  Requests = {q1}
  Turns = {t1}
  Commands = {k1, k2}
  Evidences = {e1, e2}
  Degraded = Degraded
  Nobody = Nobody
  MaxGen = 2
  MaxOther = 1
SYMMETRY Symmetry
INVARIANTS
  RequestsTellRuns
  ExecutesAsReviewed
CHECK_DEADLOCK FALSE
