CONSTANTS
  Configs <- MCOpenGop
  MaxIn = 18
  Gaps = {0}
  Jump = 0
  MaxGopLen = 8
  None = None
  Rows = 2
  Cols = 2
SPECIFICATION PSpec
INVARIANT ReferencesFinal
