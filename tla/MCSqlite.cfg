CONSTANTS
  HEAP_BASE = 8
  HEAP_SIZE = 88
  TableNames = {t, u, x}
  DbNames = {"x.db"}
  Values = {"long"}
  Lists <- MCLists
  Pieces <- MCPieces
  Size <- MCSize
  Columns = {3}
  MAX_TABLES = 2
  MAX_COLUMNS = 2
  MAX_ROWS = 2
  DB_SIZE = 8
  TEXT = 8
  PTR = 4
SPECIFICATION Spec
INVARIANTS TypeOK CellsApart
PROPERTIES ImplementsDatabase
SYMMETRY AnyNames
