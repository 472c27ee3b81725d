---------------------------- MODULE MCEncoderTree ----------------------------
EXTENDS EncoderTree

MCGeo(w, h, tileCols, tileRows, wpp, slices) ==
  [w |-> w, h |-> h, tileCols |-> tileCols, tileRows |-> tileRows, colSplit |-> <<>>, rowSplit |-> <<>>,
   wpp |-> wpp, slices |-> slices, sliceStarts |-> {0}, aud |-> FALSE, info |-> TRUE,
   fields |-> FALSE, hash |-> TRUE, vpsPeriod |-> 0]
MCGeometries ==
  {MCGeo(4, 3, 1, 1, TRUE, {}), MCGeo(1, 3, 1, 1, TRUE, {}), MCGeo(3, 1, 1, 1, TRUE, {"tiles"}),
   [MCGeo(5, 1, 3, 1, FALSE, {}) EXCEPT !.aud = TRUE, !.vpsPeriod = 2],
   [MCGeo(3, 2, 3, 1, FALSE, {"tiles"}) EXCEPT !.vpsPeriod = 1],
   [MCGeo(4, 4, 2, 2, TRUE, {}) EXCEPT !.info = FALSE], MCGeo(4, 4, 2, 2, TRUE, {"tiles"}),
   [MCGeo(2, 3, 1, 1, TRUE, {"wpp"}) EXCEPT !.fields = TRUE], MCGeo(3, 4, 1, 2, TRUE, {"tiles", "wpp"}),
   [MCGeo(5, 3, 2, 2, FALSE, {}) EXCEPT !.colSplit = <<192>>, !.rowSplit = <<128>>],
   [MCGeo(2, 4, 1, 1, FALSE, {}) EXCEPT !.sliceStarts = {0, 2, 6}, !.vpsPeriod = -1],
   [MCGeo(2, 4, 1, 2, FALSE, {}) EXCEPT !.sliceStarts = {0, 6}],
   [MCGeo(3, 4, 1, 1, TRUE, {}) EXCEPT !.sliceStarts = {0, 1}]}
MCBoth == {MCGeo(4, 4, 2, 2, TRUE, {"tiles", "wpp"})}
=============================================================================
