CONSTANTS
  Frames = 6
  MaxFrames = 6
  Latency = 3
  Reorder = 2
  ReconSize = 3
  LoopInputs = {TRUE, FALSE}
  MayFail = TRUE
  NoPic = NoPic
SPECIFICATION Spec
INVARIANT TypeOK
INVARIANT ArgsExclusive
INVARIANT AllWritten
PROPERTY EventuallyEnds
