SPECIFICATION SyncSpec
CONSTANTS
  PolicyIds = {"deny", "ask"}
  PolicyAdmins = {"ada", "bob"}
  MaxEdits = 2
  MaxStreams = 2
  MaxGuardCrashes = 0
INVARIANTS SettledGuardIsCurrent
CHECK_DEADLOCK FALSE
