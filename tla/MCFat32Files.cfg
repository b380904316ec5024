CONSTANTS
  Paths <- FilePaths
  NewDirs <- MCNewDirs
  Stored <- MCStored
  Datas = {"short", "long"}
  Length <- MCLength
  LAST_CLUSTER = 5
  SPC = 2
  SLOTS = 1
  MAX_FAULTS = 1
  MAX_CRASHES = 0
SPECIFICATION FairSpec
INVARIANTS TypeOK
PROPERTIES Isolation Acknowledged EveryCallReturns
