CONSTANTS
  HEAP_BASE = 8
  HEAP_SIZE = 144
  NODE_SIZE = 48
  DB_SIZE = 96
  Names = {"f"}
  NewDirs = {}
  Dirs = {"/"}
  Datas = {}
  Size <- MCSize
SPECIFICATION KernelSpec
INVARIANT LsPrintsFiles
