CONSTANTS
  Paths <- DirPaths
  NewDirs = {}
  Stored <- MCStored
  Datas = {"short"}
  Length <- MCLength
  LAST_CLUSTER = 5
  SPC = 2
  SLOTS = 1
  MAX_FAULTS = 0
  MAX_CRASHES = 0
SPECIFICATION Spec
PROPERTIES RmRemoves
