SPECIFICATION PartsSpec
CONSTANTS
  SpoolRuns = {"r1", "r2"}
  MemCap = 1
  DiskCap = 2
  SpoolTTL = 1
  MaxClock = 2
  MaxRecs = 2
  MaxSpoolCrashes = 1
  RulePool <- Pool
  MaxRules = 2
  ActorRoles = {"operator", "admin"}
  CommandLines <- Lines
  TaskSteps = {"package", "reboot"}
  PolicyIds = {"deny", "ask"}
  PolicyAdmins = {"ada"}
  MaxEdits = 3
  MaxStreams = 2
  MaxGuardCrashes = 1
  MaxFires = 3
  Assignments <- PoolAssignments
  MaxApplies = 2
  MaxAgentStarts = 1
  WhenTokens = {"a", "true", "false", "fact", "nofact", "file", "!", "(", ")", "and", "or", "==", "!=", "in", "[", "]", ","}
  MaxTokens = 5
  MaxSteps = 3
  Names = {"x", "y"}
  MaxPathLen = 3
INVARIANTS
  SpoolInv
  PolicyInv
  
  WhenInv
PROPERTIES
  
  
  StepResultIsTrue
  
CHECK_DEADLOCK FALSE
