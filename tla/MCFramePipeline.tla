--------------------------- MODULE MCFramePipeline ---------------------------
EXTENDS FramePipeline, GopStructure

MCConfig(gop, low, open, period, refFrames, owf, interlaced) ==
  [gopLen |-> Len(gop), gop |-> gop, lowDelay |-> low, openGop |-> open,
   intraPeriod |-> period, refFrames |-> refFrames, owf |-> owf,
   interlaced |-> interlaced]

MCPyramids(open, period, owfs) ==
  {MCConfig(Gop8, FALSE, open, period, 4, owf, FALSE) : owf \in owfs}
MCDirect(owfs) ==
  {MCConfig(<<>>, FALSE, TRUE, period, 2, owf, interlaced) :
     period \in {1, 3}, owf \in owfs, interlaced \in BOOLEAN}
MCLowDelay(owfs) ==
  {MCConfig(LpGop(4, 3, 1, 2), TRUE, TRUE, 5, 2, owf, FALSE) : owf \in owfs}
    \cup {MCConfig(LpGop(8, 4, 2, 3), TRUE, TRUE, 0, 3, owf, FALSE) : owf \in owfs}

MCAll == MCPyramids(FALSE, 8, {2}) \cup MCPyramids(TRUE, 0, {8})
          \cup MCPyramids(TRUE, 8, {0, 1}) \cup MCPyramids(TRUE, 16, {7})
          \cup MCDirect({0, 1, 2}) \cup MCLowDelay({1, 3})
MCOpenGop    == {MCConfig(Gop8, FALSE, TRUE, 8, 4, 2, FALSE)}
=============================================================================
