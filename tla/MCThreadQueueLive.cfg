SPECIFICATION FairSpec
CONSTANTS
  Jobs = {j1, j2}
  Workers = {w1, w2}
  Main = Main
  Nobody = Nobody
  NoJob = NoJob
  MaxDeps = 2
  MaxHandles = 1
  SpawnMayFail = FALSE
PROPERTIES
  WaitReturns JobsEnd
