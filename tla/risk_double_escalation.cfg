SPECIFICATION Spec
CONSTANTS
  r1 = r1
  r2 = r2
  r3 = r3
  p1 = p1
  p2 = p2
  s1 = s1
  s2 = s2
  e1 = e1
  e2 = e2
  Requests = {r1, r2}
  Plans = {p1}
  FirstPlan = p1
  Steps = {s1}
  Escalations = {e1, e2}
  Ops <- EscalationOps
  Edits <- NoEdits
SYMMETRY Symmetry
CHECK_DEADLOCK FALSE
INVARIANT NoDuplicateEscalation
