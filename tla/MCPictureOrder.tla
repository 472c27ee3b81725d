--------------------------- MODULE MCPictureOrder ---------------------------
EXTENDS PictureOrder, GopStructure

MCConfig(gop, low, open, period, refFrames) ==
  [gopLen |-> Len(gop), gop |-> gop, lowDelay |-> low, openGop |-> open,
   intraPeriod |-> period, refFrames |-> refFrames]

(* --gop=8 with the accepted intra periods up to 32, but for 1, which is   *)
(* not a whole number of groups.                                           *)
MCOpen   == {MCConfig(Gop8, FALSE, TRUE, period, 4) : period \in {0, 8, 16, 24, 32}}
MCClosed == {MCConfig(Gop8, FALSE, FALSE, period, 4) : period \in {8, 16, 24, 32}}

(* --gop=0 and low delay groups that refer to the picture before each.     *)
MCDirect == {MCConfig(<<>>, FALSE, TRUE, period, refFrames) :
               period \in {0, 1, 5}, refFrames \in {1, 3}}
        \cup {MCConfig(LpGop(g, d, 1, refFrames), TRUE, TRUE, period, refFrames) :
               g \in 1..8, d \in {1, 4}, period \in {0, 1, 5, 8}, refFrames \in {1, 2, 4}}

(* --gop=lp-g8d4t2, the example of README.md, and with t = 4.              *)
MCTemporal2 == {MCConfig(LpGop(8, 4, 2, r), TRUE, TRUE, 0, r) : r \in 1..4}
MCTemporal4 == {MCConfig(LpGop(8, 4, 4, r), TRUE, TRUE, 0, r) : r \in 1..4}

MCAll      == MCOpen \cup MCClosed \cup MCDirect \cup MCTemporal2

=============================================================================
