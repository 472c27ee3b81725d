CONSTANTS
  Configs <- MCConfigs
  None = None
  RateConfigs <- MCRateConfigs
  AvgBits = 300
  BitsChoices <- MCBits
  NumLcus = 2
  MaxFrames = 7
  Frames <- MCFrames
  HeaderFields <- MCFields
  Symbols <- MCSymbols
  MaxSymbols = 2
  MaxSubstreams = 2
  InitialModels <- MCModels
  MAX_DEPTH = 1
  PictureConfigs <- MCPictureConfigs
  LcuQps = {28, 30}
  CuChoices <- MCCus
  Blocks <- MCBlocks
  EncoderConfigs <- MCEncs
  FrameChoices <- MCHeaderFrames
SPECIFICATION HandoverSpec
INVARIANT PicturesAlive BudgetExact StatsOfOneFrame FiltersInOrder ReferredPixelsFinal
  SliceIsExact EncryptionKeepsSyntax ParserGetsCus ParserGetsLevels HeadersDecode
