CONSTANTS
  Paths <- DirPaths
  NewDirs <- MCNewDirs
  Stored <- MCStored
  Datas = {}
  Length <- MCLength
  LAST_CLUSTER = 8
  SPC = 1
  SLOTS = 2
  MAX_FAULTS = 2
  MAX_CRASHES = 1
SPECIFICATION Spec
INVARIANTS ChainsApart OneOwner
PROPERTIES CreateLosesOnlyTails
