SPECIFICATION Spec
CONSTANTS
  e1 = e1
  e2 = e2
  h1 = h1
  h2 = h2
  Execs = {e1}
  Hosts = {h1}
  Effects = {"allow"}
  Cancellable = {e1}
  MaxConn = 1
  OfflineCap = 1
  MaxRestarts = 1
  MaxCrashes = 1
  SpoolLossy = TRUE
  MayRefuse = TRUE
  Exits = {"succeeded"}
  Chatty = {e1}
INVARIANTS
  NoUnaskedCancel
CHECK_DEADLOCK FALSE
