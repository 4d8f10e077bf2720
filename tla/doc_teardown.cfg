SPECIFICATION FilesSpec
CONSTANTS
  FileAgents = {"a1", "a2"}
  Callers = {"c1", "c2"}
  MaxFileCalls = 4
  MaxFileFaults = 1
PROPERTIES
  TeardownIsLocal
CHECK_DEADLOCK FALSE
