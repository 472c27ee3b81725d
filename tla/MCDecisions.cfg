CONSTANTS
  Geometries <- MCGeometries
  MaxFrames = 3
  OwfFrames = 2
  CommandLines <- MCLines
  Cpus = 8
  ErpDelta <- MCErp
  MaxOwf = 12
  Cus <- MCCus
  TileWidth = 152
  TileHeight = 120
  Slices <- MCSlices
  Motions <- MCMotions
  Vectors <- MCVectors
  MAX_DEPTH = 1
  Searches <- MCSearches
  Permitted <- MCPermitted
  Methods <- MCMethods
  SearchRange = 2
  BlockW = 4
  BlockH = 2
  PicW = 32
  PicH = 20
  Origins <- MCOrigins
  WholeVectors <- MCWhole
  Usable <- MCUsable
  OtherVectors <- MCOther
SPECIFICATION DecisionsSpec
INVARIANT SegmentsDecode JobsWait OpenedIsSound CandidatesMatch SearchIsConsistent SearchIsThorough PredictionIsExact
