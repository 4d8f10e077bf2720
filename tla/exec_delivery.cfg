SPECIFICATION Spec
CONSTANTS
  e1 = e1
  e2 = e2
  h1 = h1
  h2 = h2
  Execs = {e1}
  Hosts = {h1}
  Effects = {"allow", "deny", "require_approval"}
  Cancellable = {}
  MaxConn = 2
  OfflineCap = 1
  MaxRestarts = 0
  MaxCrashes = 0
  SpoolLossy = TRUE
  MayRefuse = TRUE
  Exits = {"succeeded"}
  Chatty = {e1}
INVARIANTS
  TypeOK
  TruthfulVerdict
  GatedStart
  SessionServed
  SettledAggregate
PROPERTIES
  FinalIsFinal
  ImplementsLifecycle
CHECK_DEADLOCK FALSE
