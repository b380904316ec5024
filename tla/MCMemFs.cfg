CONSTANTS
  HEAP_BASE = 8
  HEAP_SIZE = 144
  NODE_SIZE = 48
  Names = {"f", "g"}
  NewDirs = {"g"}
  Dirs = {"/"}
  Datas = {"short", "long"}
  Size <- MCSize
SPECIFICATION FairSpec
INVARIANTS TypeOK Descending Disjoint PrevLinks
PROPERTIES WalkDescends EveryCallReturns ImplementsFileStore
