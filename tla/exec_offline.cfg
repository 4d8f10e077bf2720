SPECIFICATION Spec
CONSTANTS
  e1 = e1
  e2 = e2
  h1 = h1
  h2 = h2
  Execs = {e1, e2}
  Hosts = {h1}
  Effects = {"allow"}
  Cancellable = {}
  MaxConn = 1
  OfflineCap = 1
  MaxRestarts = 0
  MaxCrashes = 0
  SpoolLossy = FALSE
  MayRefuse = FALSE
  Exits = {"succeeded"}
  Chatty = {}
INVARIANTS
  SettledAggregate
SYMMETRY ExecSymmetry
CHECK_DEADLOCK FALSE
