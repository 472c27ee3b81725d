SPECIFICATION Spec
CONSTANTS
  Jobs = {j1, j2, j3}
  Workers = {w1, w2}
  Main = Main
  Nobody = Nobody
  NoJob = NoJob
  MaxDeps = 2
  MaxHandles = 2
  SpawnMayFail = TRUE
SYMMETRY Perms
INVARIANTS
  TypeOK References NoSleepingOnWork
  AssertsHold NoLockCycle
PROPERTIES
  Implements
CHECK_DEADLOCK FALSE
