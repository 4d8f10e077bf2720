SPECIFICATION Spec
CONSTANTS
  q1 = q1
  q2 = q2
  a1 = a1
  a2 = a2
  l1 = l1
  Requests = {q1, q2}
  Admins = {a1, a2}
  Listers = {l1}
  Results = {"succeeded"}
SYMMETRY Perms
INVARIANTS ApprovedOnce DenySettles
PROPERTY DecisionFinal
