CONSTANTS
  Configs <- MCTemporal4
  MaxIn = 30
  Gaps = {0}
  Jump = 0
  MaxGopLen = 8
  None = None
SPECIFICATION OSpec
INVARIANT HeaderNeverFails
