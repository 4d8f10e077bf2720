SPECIFICATION ServicesSpec
CONSTANTS
  Versions = {"v1", "v2", "v3"}
  FirstVersion = "v1"
  Broken = {"v3"}
  MaxDirectives = 3
  MaxAgentCrashes = 1
  JobHosts = {"h1", "h2"}
  Labels = {"web", "db"}
  MaxJobWrites = 3
  MaxFleetChanges = 3
  TaskPlans <- RebootPlans
  MaxTaskFaults = 1
  ProvRuns = {"r1", "r2"}
  MaxProvCalls = 4
  CredHosts = {"h1"}
  CredTokens = {"t1"}
  MaxClock = 2
  MaxCredEvents = 8
  FileAgents = {"a1"}
  Callers = {"c1"}
  MaxFileCalls = 2
  MaxFileFaults = 1
  PtySessions = {"s1"}
  MaxChunks = 2
  MaxStreamEnds = 1
INVARIANTS
  TaskInv
  FilesInv
PROPERTIES
  
  
  TaskSettles
  
  LeafFollowsRow
  CallIsAnswered
  
CHECK_DEADLOCK FALSE
