------------------------------- MODULE TileGrid -------------------------------
(***************************************************************************)
(* The grid of tiles that kvz_encoder_control_init of src/src/encoder.c    *)
(* computes, in LCUs: the sizes of columns and rows, where they begin, and *)
(* the tile scan, in which the LCUs of a tile follow one another.  A grid  *)
(* is a record of the columns and rows of LCUs in the picture, w and h, and*)
(* the sizes of tiles, cols and rows.                                      *)
(***************************************************************************)
EXTENDS Integers, Sequences, SequencesExt

Total(list) == FoldLeft(LAMBDA a, b : a + b, 0, list)

(* The columns or rows of tiles; split are the positions in pixels where   *)
(* tiles begin, if they are given.                                         *)
TileSizes(count, split, lcus) ==
  LET start(i) == IF i = 0 THEN 0 ELSE split[i]
      given(i) == (start(i) - start(i - 1)) \div 64
      before == Total([i \in 1..(count - 1) |-> given(i)])
  IN IF split = <<>> THEN [i \in 1..count |-> (i * lcus) \div count - ((i - 1) * lcus) \div count]
     ELSE [i \in 1..count |-> IF i < count THEN given(i) ELSE lcus - before]

(* tiles_col_bd and tiles_row_bd: where tile i begins, counted from 1.     *)
Boundary(sizes, i) == Total(SubSeq(sizes, 1, i - 1))
TileAt(sizes, at) ==
  CHOOSE i \in 1..Len(sizes) : Boundary(sizes, i) <= at /\ at < Boundary(sizes, i + 1)

(* tiles_ctb_addr_rs_to_ts, its inverse, and tiles_tile_id: equations (6-7)*)
(* to (6-9).                                                               *)
RsToTs(g, rs) ==
  LET x == rs % g.w   y == rs \div g.w
      i == TileAt(g.cols, x)   j == TileAt(g.rows, y)
  IN g.rows[j] * Boundary(g.cols, i) + g.w * Boundary(g.rows, j)
       + (y - Boundary(g.rows, j)) * g.cols[i] + x - Boundary(g.cols, i)
TsToRs(g) == AntiFunction([rs \in 0..(g.w * g.h - 1) |-> RsToTs(g, rs)])
TileIds(g, toRs) ==
  [ts \in DOMAIN toRs |-> (TileAt(g.rows, toRs[ts] \div g.w) - 1) * Len(g.cols)
                            + TileAt(g.cols, toRs[ts] % g.w) - 1]
=============================================================================
