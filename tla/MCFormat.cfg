CONSTANTS
  Paths <- MCPaths
  NewDirs = {}
  Stored <- MCStored
  Datas = {"short"}
  Length <- MCLength
  LAST_CLUSTER = 5
  SPC = 1
  SLOTS = 2
  ENTRIES = 4
  MAX_FAULTS = 0
  MAX_CRASHES = 0
SPECIFICATION FormatSpec
INVARIANT RootKept
