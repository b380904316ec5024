CONSTANTS
  Files <- MCFiles
  NoFile = NoFile
  BUFFER = 5
  USER_BASE = 8
  WINDOW = 8
  USER_STACK_SIZE = 2
  WORDS = 24
  MAX_EXECS = 2
CHECK_DEADLOCK FALSE
SPECIFICATION Spec
INVARIANTS TypeOK EntersItsSegment RunsWhatWasNamed
PROPERTIES StaysInWindow
