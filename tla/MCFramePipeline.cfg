CONSTANTS
  Configs <- MCAll
  MaxIn = 18
  Gaps = {0}
  Jump = 0
  MaxGopLen = 8
  None = None
  Rows = 2
  Cols = 3
SPECIFICATION PSpec
INVARIANT RingReady StreamsInOrder ReferencesFinal
PROPERTY WaitsForReferences
