CONSTANTS
  Letters <- MCLetters
  Others <- MCOthers
  ShiftKeys = {left, right}
  Outputs <- MCOutputs
  Prompt <- MCPrompt
  Exits <- MCExits
  Yes <- MCYes
  Skip <- MCSkip
  Garbage = "a"
  WIDTH = 3
  HEIGHT = 3
  MAX_CMD_LEN = 6
  MAX_ARGS = 2
  SQL_LEN = 4
SYMMETRY KeySymmetry
SPECIFICATION Spec
INVARIANTS TypeOK ShowsTheLine ShiftRecovers ParsesTheWords
PROPERTIES RunsTheLine
