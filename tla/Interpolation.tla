----------------------------- MODULE Interpolation -----------------------------
(***************************************************************************)
(* Vectors of quarters of a pixel: the search that refines a vector of     *)
(* whole pixels (search_frac), the filters that make the blocks it         *)
(* compares (strategies/generic/ipol-generic.c), and the prediction of a   *)
(* unit from one or two pictures (src/src/inter.c).                        *)
(*                                                                         *)
(* The filters share their horizontal half: rows filtered for one block    *)
(* are used for the next one and by later steps of the search, and blocks  *)
(* one pixel apart are copied.  What is modelled of a sample is where it   *)
(* is: a filter turns samples of whole pixels into one at a fraction, so   *)
(* that a sample is its position, in quarters of a pixel for luma and      *)
(* eighths for chroma.  Sums, shifts and clipping of values are not        *)
(* modelled, and costs may have any order.                                 *)
(* Operators named Wrong... are plausible mistakes in the definition that  *)
(* follows them and are not part of the specification.                     *)
(***************************************************************************)
EXTENDS Integers, Sequences

CONSTANTS
  BlockW, BlockH,        (* of the unit; even                              *)
  PicW, PicH,            (* of the reference picture                       *)
  Origins,               (* places of the unit in the picture              *)
  WholeVectors,          (* best_mv of the search for whole pixels         *)
  Usable(_),             (* fracmv_within_tile                             *)
  OtherVectors           (* second vectors of units with two               *)

ASSUME BlockSize == BlockW \in Nat /\ BlockH \in Nat
ASSUME PictureSize == PicW \in Nat /\ PicH \in Nat
ASSUME VectorsInPlane ==
  /\ Origins \subseteq Int \X Int /\ WholeVectors \subseteq Int \X Int
  /\ OtherVectors \subseteq Int \X Int

VARIABLES
  origin,      (* info->origin                                             *)
  whole,       (* the vector of whole pixels                               *)
  level,       (* fme_level                                                *)
  fstep,       (* step, or Idle or Predicted                               *)
  vec,         (* mv                                                       *)
  bestIndex,   (* best_index                                               *)
  offset,      (* sample_off_x, sample_off_y                               *)
  hor,         (* intermediate and hor_first_cols                          *)
  filtered,    (* the four blocks                                          *)
  compared,    (* history: the vectors they were compared for              *)
  cheapest,    (* history: the vector of the block with the least cost     *)
  predicted    (* what the unit is predicted from, with its vectors        *)
fracVars == <<origin, whole, level, fstep, vec, bestIndex, offset, hor, filtered, compared, cheapest, predicted>>

Stale == <<>>
Idle == -1
Predicted == 5
Xs == 0..(BlockW - 1)
Ys == 0..(BlockH - 1)
Up(a, b) == <<a[1] + b[1], a[2] + b[2]>>
Scale(k, a) == <<k * a[1], k * a[2]>>
CutTo(lo, hi, v) == IF v < lo THEN lo ELSE IF v > hi THEN hi ELSE v

-----------------------------------------------------------------------------
(* Pixels of the reference around a block.                                 *)

(* What is at a place of the block of w by h at p, with a border for       *)
(* filters of a number of taps: the picture itself when the block is       *)
(* inside, or a copy in which lines are extended where it is not.          *)
Fetched(p, w, h, taps, picW, picH, c) ==
  LET half == taps \div 2
      outX == p[1] - half < 0 \/ p[1] - half + w + taps >= picW
      outY == p[2] - half < 0 \/ p[2] - half + h + taps >= picH
  IN <<IF outX THEN CutTo(0, picW - 1, c[1]) ELSE c[1],
       IF outX \/ outY THEN CutTo(0, picH - 1, c[2]) ELSE c[2]>>
Surroundings(p, w, h, taps) ==
  ((p[1] - taps \div 2)..(p[1] + w + taps \div 2 - 1)) \X ((p[2] - taps \div 2)..(p[2] + h + taps \div 2 - 1))
(* A decoder reads the nearest pixel of the picture.                       *)
Extended(p, w, h, taps, picW, picH) ==
  \A c \in Surroundings(p, w, h, taps) :
    Fetched(p, w, h, taps, picW, picH, c) = <<CutTo(0, picW - 1, c[1]), CutTo(0, picH - 1, c[2])>>

-----------------------------------------------------------------------------
(* The blocks of search_frac.  Places are relative to the pixel above and  *)
(* left of the block at the whole vector, so that the block begins at      *)
(* <<1, 1>>.  Column 0 of the rows is in hor_first_cols, the others are in *)
(* intermediate; row y is three pixels above y.                            *)

Rows == 0..(BlockH + 7)
Columns == 0..BlockW
Unfiltered == [k \in {"0", "2", "l", "r"} |-> [y \in Rows |-> [x \in Columns |-> Stale]]]
(* Eight pixels of a row, from three before x, through filter f.           *)
FilterRows(f, first) ==
  [y \in Rows |-> [x \in Columns |-> IF y >= first THEN <<4 * x + f, 4 * (y - 3)>> ELSE Stale]]
(* Eight rows from y through filter f.                                     *)
FilterColumn(rows, x, y, f) ==
  IF \E j \in 0..7 : rows[y + j][x] = Stale THEN Stale ELSE <<rows[y][x][1], rows[y + 3][x][2] + f>>
ColumnOfPixels(x, y, f) == <<4 * x, 4 * y + f>>

(* The top row is only needed for the diagonal blocks.                     *)
WrongFirstRow == 1
FirstRow == IF level > 1 THEN 0 ELSE 1
HalfHorVer ==
  LET right == [y \in Ys |-> [x \in Xs |-> hor'["2"][y + 4][x + 1]]]
      left  == [y \in Ys |-> [x \in Xs |-> IF x = 0 THEN hor'["2"][y + 4][0] ELSE right[y][x - 1]]]
      top   == [y \in Ys |-> [x \in Xs |-> ColumnOfPixels(x + 1, y, 2)]]
      bottom == [y \in Ys |-> [x \in Xs |-> IF y < BlockH - 1 THEN top[y + 1][x] ELSE ColumnOfPixels(x + 1, y + 1, 2)]]
  IN /\ hor' = [hor EXCEPT !["0"] = FilterRows(0, 0), !["2"] = FilterRows(2, FirstRow)]
     /\ filtered' = <<left, right, top, bottom>>

HalfDiag ==
  LET column(x, y) == FilterColumn(hor["2"], x, y, 2)
      topRight == [y \in Ys |-> [x \in Xs |-> column(x + 1, y)]]
      topLeft  == [y \in Ys |-> [x \in Xs |-> IF x = 0 THEN column(0, y) ELSE topRight[y][x - 1]]]
      bottomRight == [y \in Ys |-> [x \in Xs |-> IF y < BlockH - 1 THEN topRight[y + 1][x] ELSE column(x + 1, y + 1)]]
      bottomLeft == [y \in Ys |-> [x \in Xs |->
                       IF y < BlockH - 1 THEN topLeft[y + 1][x]
                       ELSE IF x > 0 THEN bottomRight[y][x - 1] ELSE column(0, y + 1)]]
  IN hor' = hor /\ filtered' = <<topLeft, topRight, bottomLeft, bottomRight>>

(* Filters one and three quarters on, by the half pixel that was best, and *)
(* whether they start at the next pixel.                                   *)
QuarterBefore(o) == IF o # 0 THEN 1 ELSE 3
QuarterAfter(o)  == IF o # 0 THEN 3 ELSE 1
NextBefore(o) == IF o < 1 THEN 0 ELSE 1
NextAfter(o)  == IF o < 0 THEN 0 ELSE 1
Half(o) == IF o # 0 THEN 2 ELSE 0
QuarterBlock(rows, dx, dy, f) == [y \in Ys |-> [x \in Xs |-> FilterColumn(rows, x + dx, y + dy, f)]]

QuarterHorVer ==
  LET ox == offset[1]
      oy == offset[2]
      middle == hor[IF ox # 0 THEN "2" ELSE "0"]
  IN /\ hor' = [hor EXCEPT !["l"] = FilterRows(QuarterBefore(ox), 0), !["r"] = FilterRows(QuarterAfter(ox), 0)]
     /\ filtered' = <<QuarterBlock(hor'["l"], NextBefore(ox), NextAfter(oy), Half(oy)),
                      QuarterBlock(hor'["r"], NextAfter(ox), NextAfter(oy), Half(oy)),
                      QuarterBlock(middle, NextAfter(ox), NextBefore(oy), QuarterBefore(oy)),
                      QuarterBlock(middle, NextAfter(ox), NextAfter(oy), QuarterAfter(oy))>>
QuarterDiag ==
  LET ox == offset[1]
      oy == offset[2]
  IN /\ hor' = hor
     /\ filtered' = <<QuarterBlock(hor["l"], NextBefore(ox), NextBefore(oy), QuarterBefore(oy)),
                      QuarterBlock(hor["r"], NextAfter(ox), NextBefore(oy), QuarterBefore(oy)),
                      QuarterBlock(hor["l"], NextBefore(ox), NextAfter(oy), QuarterAfter(oy)),
                      QuarterBlock(hor["r"], NextAfter(ox), NextAfter(oy), QuarterAfter(oy))>>

-----------------------------------------------------------------------------
(* search_frac.                                                            *)

Square == << <<-1, 0>>, <<1, 0>>, <<0, -1>>, <<0, 1>>, <<-1, -1>>, <<1, -1>>, <<-1, 1>>, <<1, 1>> >>
Towards(index) == IF index = 0 THEN <<0, 0>> ELSE Square[index]
LastHalf == IF level = 1 THEN 0 ELSE 1

SearchInteger ==
  /\ fstep = Idle
  /\ origin' \in Origins /\ whole' \in {v \in WholeVectors : Usable(Scale(4, v))} /\ level' \in 1..4
  /\ fstep' = 0 /\ vec' = Scale(2, whole') /\ bestIndex' = 0 /\ offset' = <<0, 0>>
  /\ hor' = Unfiltered /\ filtered' = <<>> /\ compared' = <<>> /\ cheapest' = Scale(4, whole')
  /\ UNCHANGED predicted

(* One of the blocks, or none, is better than all before.                  *)
SearchFractions ==
  /\ fstep \in 0..3 /\ fstep < level
  /\ CASE fstep = 0 -> HalfHorVer [] fstep = 1 -> HalfDiag
       [] fstep = 2 -> QuarterHorVer [] fstep = 3 -> QuarterDiag
  /\ LET first == IF fstep \in {0, 2} THEN 1 ELSE 5
         vector(j) == Scale(IF fstep < 2 THEN 2 ELSE 1, Up(vec, Square[first + j - 1]))
         moves == fstep = 1 \/ fstep = level - 1
     IN /\ compared' = [j \in 1..4 |-> IF Usable(vector(j)) THEN vector(j) ELSE Stale]
        /\ \E k \in {0} \cup {j \in 1..4 : Usable(vector(j))} :
             LET index == IF k = 0 THEN bestIndex ELSE first + k - 1
             IN /\ cheapest' = IF k = 0 THEN cheapest ELSE vector(k)
                /\ vec' = IF moves THEN Scale(IF fstep = LastHalf THEN 2 ELSE 1, Up(vec, Towards(index))) ELSE vec
                /\ offset' = IF fstep = LastHalf THEN Towards(index) ELSE offset
                /\ bestIndex' = IF fstep = LastHalf THEN 0 ELSE index
  /\ fstep' = fstep + 1
  /\ UNCHANGED <<origin, whole, level, predicted>>

-----------------------------------------------------------------------------
(* Prediction of a unit.                                                   *)

(* A sample of a plane in which a pixel has size parts, for a vector that  *)
(* is cut to whole pixels and the rest of it.                              *)
SampleAt(size, v, x, y) == <<size * (x + v[1] \div size) + (v[1] % size), size * (y + v[2] \div size) + (v[2] % size)>>
Prediction(size, v, w, h) == [y \in 0..(h - 1) |-> [x \in 0..(w - 1) |-> SampleAt(size, v, x, y)]]

(* Whole vectors are copied, from inside the picture or around it.         *)
CopiesFromInside(p, w, h, picW, picH) == p[1] >= 0 /\ p[2] >= 0 /\ p[1] + w <= picW /\ p[2] + h <= picH
PixelOfCopy(inside, picW, picH, c) == IF inside THEN c ELSE <<CutTo(0, picW - 1, c[1]), CutTo(0, picH - 1, c[2])>>
CopyIsExtended(p, inside, w, h, picW, picH) ==
  \A c \in (p[1]..(p[1] + w - 1)) \X (p[2]..(p[2] + h - 1)) :
    PixelOfCopy(inside, picW, picH, c) = <<CutTo(0, picW - 1, c[1]), CutTo(0, picH - 1, c[2])>>

FractionalLuma(v) == v[1] % 4 # 0 \/ v[2] % 4 # 0
FractionalChroma(v) == FractionalLuma(v) \/ (v[1] \div 4) % 2 # 0 \/ (v[2] \div 4) % 2 # 0
AtChroma(p) == <<p[1] \div 2, p[2] \div 2>>

Luma(v) ==
  LET at == Up(origin, <<v[1] \div 4, v[2] \div 4>>)
      good == IF FractionalLuma(v) THEN Extended(at, BlockW, BlockH, 8, PicW, PicH)
              ELSE CopyIsExtended(at, CopiesFromInside(at, BlockW, BlockH, PicW, PicH), BlockW, BlockH, PicW, PicH)
  IN IF good THEN Prediction(4, v, BlockW, BlockH) ELSE Stale
(* Whether a copy is inside is decided by its luma.                        *)
Chroma(v) ==
  LET at == Up(AtChroma(origin), <<v[1] \div 8, v[2] \div 8>>)
      w == BlockW \div 2
      h == BlockH \div 2
      inside == CopiesFromInside(Up(origin, <<v[1] \div 4, v[2] \div 4>>), BlockW, BlockH, PicW, PicH)
      good == IF FractionalChroma(v) THEN Extended(at, w, h, 4, PicW \div 2, PicH \div 2)
              ELSE CopyIsExtended(at, inside, w, h, PicW \div 2, PicH \div 2)
  IN IF good THEN Prediction(8, v, w, h) ELSE Stale

(* inter_recon_unipred writes to the LCU, or, fractions when there is a    *)
(* buffer of high precision, to that.                                      *)
ReconUni(v, hiPrec, bufs) ==
  [bufs EXCEPT !.recY = IF hiPrec /\ FractionalLuma(v) THEN @ ELSE Luma(v),
               !.hiY  = IF hiPrec /\ FractionalLuma(v) THEN Luma(v) ELSE @,
               !.recC = IF hiPrec /\ FractionalChroma(v) THEN @ ELSE Chroma(v),
               !.hiC  = IF hiPrec /\ FractionalChroma(v) THEN Chroma(v) ELSE @]
Buffers == [recY |-> Stale, recC |-> Stale, hiY |-> Stale, hiC |-> Stale]

PredictUni ==
  /\ fstep = level
  /\ LET rec == ReconUni(vec, FALSE, Buffers)
     IN predicted' = [vectors |-> <<vec>>, luma |-> <<rec.recY>>, chroma |-> <<rec.recC>>]
  /\ fstep' = Predicted
  /\ UNCHANGED <<origin, whole, level, vec, bestIndex, offset, hor, filtered, compared, cheapest>>

(* The first prediction is saved from the LCU before the second one is     *)
(* written there, unless it is in its buffer of high precision.            *)
NeedsBuffer(v) == v[1] % 8 # 0 \/ v[2] % 8 # 0
PredictBi ==
  /\ fstep = level
  /\ \E v \in OtherVectors : \E vs \in {<<vec, v>>, <<v, vec>>} :
       LET first == ReconUni(vs[1], NeedsBuffer(vs[1]), Buffers)
           second == ReconUni(vs[2], NeedsBuffer(vs[2]), [Buffers EXCEPT !.recY = first.recY, !.recC = first.recC])
       IN predicted' = [vectors |-> vs,
                        luma |-> <<IF FractionalLuma(vs[1]) THEN first.hiY ELSE first.recY,
                                   IF FractionalLuma(vs[2]) THEN second.hiY ELSE second.recY>>,
                        chroma |-> <<IF NeedsBuffer(vs[1]) THEN first.hiC ELSE first.recC,
                                     IF NeedsBuffer(vs[2]) THEN second.hiC ELSE second.recC>>]
  /\ fstep' = Predicted
  /\ UNCHANGED <<origin, whole, level, vec, bestIndex, offset, hor, filtered, compared, cheapest>>

NotPredicted == [vectors |-> <<>>, luma |-> <<>>, chroma |-> <<>>]
FracInit ==
  /\ origin = <<0, 0>> /\ whole = <<0, 0>> /\ level = 1 /\ fstep = Idle /\ vec = <<0, 0>> /\ bestIndex = 0
  /\ offset = <<0, 0>> /\ hor = Unfiltered /\ filtered = <<>> /\ compared = <<>> /\ cheapest = <<0, 0>>
  /\ predicted = NotPredicted
(* The next unit.                                                          *)
NextUnit ==
  /\ fstep = Predicted
  /\ origin' = <<0, 0>> /\ whole' = <<0, 0>> /\ level' = 1 /\ fstep' = Idle /\ vec' = <<0, 0>> /\ bestIndex' = 0
  /\ offset' = <<0, 0>> /\ hor' = Unfiltered /\ filtered' = <<>> /\ compared' = <<>> /\ cheapest' = <<0, 0>>
  /\ predicted' = NotPredicted
FracNext == SearchInteger \/ SearchFractions \/ PredictUni \/ PredictBi \/ NextUnit
FracSpec == FracInit /\ [][FracNext]_fracVars

-----------------------------------------------------------------------------
(* Every block the search compares is the one its vector stands for, in    *)
(* all samples, whatever was best before and however far the search goes   *)
(* (fme_level): no row that was not filtered for it, no column one off.    *)
(* The vector the search returns is that of the block with the least cost. *)
(* The unit is then predicted from the block a decoder takes for each of   *)
(* its vectors, luma and chroma, with pixels around the picture that       *)
(* repeat its border.                                                      *)
PredictionIsExact ==
  /\ fstep \in 0..4 =>
       Extended(Up(Up(origin, whole), <<-1, -1>>), BlockW + 1, BlockH + 1, 8, PicW, PicH)
  /\ compared # <<>> =>
       \A j \in 1..4 : compared[j] # Stale =>
         \A y \in Ys, x \in Xs :
           filtered[j][y][x] = Up(Scale(4, <<x + 1, y + 1>>), Up(compared[j], Scale(-4, whole)))
  /\ fstep = level => vec = cheapest
  /\ \A i \in 1..Len(predicted.vectors) :
       LET v == predicted.vectors[i]
       IN /\ predicted.luma[i] = [y \in Ys |-> [x \in Xs |-> Up(Scale(4, <<x, y>>), v)]]
          /\ predicted.chroma[i] =
               [y \in 0..(BlockH \div 2 - 1) |-> [x \in 0..(BlockW \div 2 - 1) |-> Up(Scale(8, <<x, y>>), v)]]
=============================================================================
