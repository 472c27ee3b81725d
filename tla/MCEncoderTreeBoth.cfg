CONSTANTS
  Geometries <- MCBoth
  MaxFrames = 3
  OwfFrames = 2
SPECIFICATION EncoderSpec
INVARIANT RowsOfTilesAddressed
