----------------------------- MODULE MotionProofs -----------------------------
(***************************************************************************)
(* Whatever the size of a unit, its picture and its vectors, the blocks    *)
(* that the search for fractions compares are those of their vectors, and  *)
(* the unit is predicted from the samples a decoder takes.  Whatever the   *)
(* permitted vectors, the candidates and the range, a search for whole     *)
(* pixels has compared all it stands for when it ends.                     *)
(***************************************************************************)
EXTENDS Interpolation, MotionSearch, TLAPS

Vector == Int \X Int
Moves  == (-1..1) \X (-1..1)

FracType ==
  /\ origin \in Vector /\ whole \in Vector /\ vec \in Vector /\ cheapest \in Vector
  /\ level \in 1..4 /\ fstep \in {Idle, Predicted} \cup 0..4
  /\ bestIndex \in 0..8 /\ offset \in Moves
  /\ hor \in [{"0", "2", "l", "r"} -> [Rows -> [Columns -> {Stale} \cup Vector]]]

(* Where vec and the vector of the best block are in each step.            *)
VectorsFollow ==
  /\ fstep = 0 => /\ vec = Scale(2, whole) /\ cheapest = Scale(4, whole)
                  /\ bestIndex = 0 /\ offset = <<0, 0>>
  /\ fstep = 1 /\ level > 1 => /\ vec = Scale(2, whole)
                               /\ cheapest = Scale(2, Up(vec, Towards(bestIndex)))
  /\ fstep \in {2, 3} /\ fstep < level => vec = Up(Scale(4, whole), Scale(2, offset))
  /\ fstep = 2 /\ level > 2 => cheapest = vec /\ bestIndex = 0
  /\ fstep = 3 /\ level > 3 => cheapest = Up(vec, Towards(bestIndex))
  /\ fstep = level => vec = cheapest
  /\ fstep \in 0..4 => fstep <= level

(* Which rows are filtered, and with what, when later blocks need them.    *)
RowsFiltered ==
  /\ fstep \in 1..4 /\ level > 1 =>
       hor["0"] = FilterRows(0, 0) /\ hor["2"] = FilterRows(2, 0)
  /\ fstep \in 3..4 /\ level > 3 =>
       /\ hor["l"] = FilterRows(QuarterBefore(offset[1]), 0)
       /\ hor["r"] = FilterRows(QuarterAfter(offset[1]), 0)

(* A block has the samples of a vector, from the whole one on.             *)
BlockOf(block, v, w) ==
  \A y \in Ys, x \in Xs :
    block[y][x] = Up(Scale(4, <<x + 1, y + 1>>), Up(v, Scale(-4, w)))

BlocksExact ==
  compared # <<>> => \A j \in 1..4 : compared[j] # Stale => BlockOf(filtered[j], compared[j], whole)

LumaOf(v)   == [y \in Ys |-> [x \in Xs |-> Up(Scale(4, <<x, y>>), v)]]
ChromaOf(v) == [y \in 0..(BlockH \div 2 - 1) |-> [x \in 0..(BlockW \div 2 - 1) |-> Up(Scale(8, <<x, y>>), v)]]
Exact(p) ==
  \A i \in 1..Len(p.vectors) :
    p.luma[i] = LumaOf(p.vectors[i]) /\ p.chroma[i] = ChromaOf(p.vectors[i])
PredictedExact == Exact(predicted)

FracInv == FracType /\ VectorsFollow /\ RowsFiltered /\ BlocksExact /\ PredictedExact

-----------------------------------------------------------------------------
(* Vectors and samples.                                                    *)

LEMMA UpType ==
  ASSUME NEW v \in Vector, NEW w \in Vector
  PROVE  Up(v, w) \in Vector
BY DEF Up, Vector

LEMMA ScaleType ==
  ASSUME NEW k \in Int, NEW v \in Vector
  PROVE  Scale(k, v) \in Vector
BY DEF Scale, Vector

LEMMA NotStale ==
  ASSUME NEW a \in Int, NEW b \in Int
  PROVE  <<a, b>> # Stale
BY DEF Stale

(* Whatever the block, a filter that reads around it reads the picture     *)
(* with its border extended.                                               *)
LEMMA AlwaysExtended ==
  ASSUME NEW p \in Vector, NEW w \in Nat, NEW h \in Nat, NEW taps \in {4, 8},
         NEW picW \in Int, NEW picH \in Int
  PROVE  Extended(p, w, h, taps, picW, picH)
<1> USE DEF Vector
<1> SUFFICES ASSUME NEW c \in Surroundings(p, w, h, taps)
             PROVE  Fetched(p, w, h, taps, picW, picH, c)
                      = <<CutTo(0, picW - 1, c[1]), CutTo(0, picH - 1, c[2])>>
  BY DEF Extended
<1>1. /\ c[1] \in Int /\ p[1] - taps \div 2 <= c[1] /\ c[1] <= p[1] + w + taps \div 2 - 1
      /\ c[2] \in Int /\ p[2] - taps \div 2 <= c[2] /\ c[2] <= p[2] + h + taps \div 2 - 1
  BY DEF Surroundings
<1>2. ~(p[1] - taps \div 2 < 0 \/ p[1] - taps \div 2 + w + taps >= picW)
        => CutTo(0, picW - 1, c[1]) = c[1]
  BY <1>1 DEF CutTo
<1>3. ~(p[2] - taps \div 2 < 0 \/ p[2] - taps \div 2 + h + taps >= picH)
        => CutTo(0, picH - 1, c[2]) = c[2]
  BY <1>1 DEF CutTo
<1> QED BY <1>2, <1>3 DEF Fetched

LEMMA FilteredRow ==
  ASSUME NEW f \in 0..3, NEW first \in 0..1,
         NEW x \in Columns, NEW y \in Rows, first <= y
  PROVE  FilterRows(f, first)[y][x] = <<4 * x + f, 4 * (y - 3)>>
BY DEF FilterRows

LEMMA FilteredColumn ==
  ASSUME NEW f \in 0..3, NEW g \in 0..3, NEW first \in 0..1,
         NEW x \in Columns, NEW y \in 0..BlockH, first <= y
  PROVE  FilterColumn(FilterRows(f, first), x, y, g) = <<4 * x + f, 4 * y + g>>
<1> DEFINE R == FilterRows(f, first)
<1>1. ASSUME NEW j \in 0..7
      PROVE  R[y + j][x] = <<4 * x + f, 4 * (y + j - 3)>>
  <2>1. y + j \in Rows /\ y + j >= first
    BY BlockSize DEF Rows
  <2>2. \A r \in Rows : r >= first => R[r][x] = <<4 * x + f, 4 * (r - 3)>>
    BY DEF FilterRows
  <2> QED BY <2>1, <2>2
<1>2. ASSUME NEW j \in 0..7
      PROVE  R[y + j][x] # Stale
  <2>1. 4 * x + f \in Int /\ 4 * (y + j - 3) \in Int
    BY BlockSize DEF Columns
  <2> HIDE DEF R
  <2> QED BY <1>1, <2>1, NotStale
<1>3. R[y][x][1] = 4 * x + f /\ R[y + 3][x][2] = 4 * y
  BY <1>1, BlockSize DEF Columns
<1> QED BY <1>2, <1>3 DEF FilterColumn

(* The block that is that far from the whole vector.                       *)
BlockAt(block, a, b) ==
  \A y \in Ys, x \in Xs : block[y][x] = <<4 * (x + 1) + a, 4 * (y + 1) + b>>

LEMMA BlockIsAt ==
  ASSUME NEW v \in Vector, whole \in Vector, NEW block,
         BlockAt(block, v[1] - 4 * whole[1], v[2] - 4 * whole[2])
  PROVE  BlockOf(block, v, whole)
<1> SUFFICES ASSUME NEW y \in Ys, NEW x \in Xs
             PROVE  block[y][x] = Up(Scale(4, <<x + 1, y + 1>>), Up(v, Scale(-4, whole)))
  BY DEF BlockOf
<1>1. block[y][x] = <<4 * (x + 1) + (v[1] - 4 * whole[1]), 4 * (y + 1) + (v[2] - 4 * whole[2])>>
  BY DEF BlockAt
<1>2. x \in Int /\ y \in Int
  BY BlockSize DEF Xs, Ys
<1> QED BY <1>1, <1>2 DEF Up, Scale, Vector

-----------------------------------------------------------------------------
(* The blocks of each step of the search.                                  *)

LEMMA HalfHorVerBlocks ==
  ASSUME level \in 1..4, HalfHorVer, DOMAIN hor = {"0", "2", "l", "r"}
  PROVE  \A j \in 1..4 : BlockAt(filtered'[j], 2 * Square[j][1], 2 * Square[j][2])
<1> DEFINE right == [y \in Ys |-> [x \in Xs |-> hor'["2"][y + 4][x + 1]]]
           left  == [y \in Ys |-> [x \in Xs |-> IF x = 0 THEN hor'["2"][y + 4][0] ELSE right[y][x - 1]]]
           top   == [y \in Ys |-> [x \in Xs |-> ColumnOfPixels(x + 1, y, 2)]]
           bottom == [y \in Ys |-> [x \in Xs |-> IF y < BlockH - 1 THEN top[y + 1][x] ELSE ColumnOfPixels(x + 1, y + 1, 2)]]
<1>1. filtered' = <<left, right, top, bottom>>
  BY DEF HalfHorVer
<1>2. hor'["2"] = FilterRows(2, FirstRow) /\ FirstRow \in 0..1
  BY DEF HalfHorVer, FirstRow
<1>3. ASSUME NEW y \in Ys, NEW x \in Columns
      PROVE  hor'["2"][y + 4][x] = <<4 * x + 2, 4 * (y + 1)>>
  <2>1. y + 4 \in Rows /\ FirstRow <= y + 4 /\ y \in Int
    BY <1>2, BlockSize DEF Ys, Rows
  <2>2. hor'["2"][y + 4][x] = <<4 * x + 2, 4 * ((y + 4) - 3)>>
    BY <1>2, <2>1, FilteredRow
  <2> QED BY <2>1, <2>2
<1>4. BlockAt(right, 2, 0)
  <2> SUFFICES ASSUME NEW y \in Ys, NEW x \in Xs
               PROVE  right[y][x] = <<4 * (x + 1) + 2, 4 * (y + 1) + 0>>
    BY DEF BlockAt
  <2>1. x + 1 \in Columns /\ right[y][x] = hor'["2"][y + 4][x + 1] /\ y \in Int
    BY BlockSize DEF Columns, Xs, Ys
  <2> QED BY <1>3, <2>1
<1>5. BlockAt(left, -2, 0)
  <2> SUFFICES ASSUME NEW y \in Ys, NEW x \in Xs
               PROVE  left[y][x] = <<4 * (x + 1) + (-2), 4 * (y + 1) + 0>>
    BY DEF BlockAt
  <2>1. x \in Columns /\ x \in Int /\ y \in Int /\ 0 \in Columns
    BY BlockSize DEF Columns, Xs, Ys
  <2>2. left[y][x] = hor'["2"][y + 4][x]
    <3>1. CASE x = 0
      BY <3>1
    <3>2. CASE x # 0
      <4>1. x - 1 \in Xs /\ (x - 1) + 1 = x
        BY <3>2, BlockSize DEF Xs
      <4> QED BY <3>2, <4>1
    <3> QED BY <3>1, <3>2
  <2>3. 4 * (x + 1) + (-2) = 4 * x + 2 /\ 4 * (y + 1) + 0 = 4 * (y + 1)
    BY <2>1
  <2> QED BY <1>3, <2>1, <2>2, <2>3
<1>6. BlockAt(top, 0, -2)
  BY BlockSize DEF BlockAt, ColumnOfPixels, Xs, Ys
<1>7. BlockAt(bottom, 0, 2)
  <2> SUFFICES ASSUME NEW y \in Ys, NEW x \in Xs
               PROVE  bottom[y][x] = <<4 * (x + 1) + 0, 4 * (y + 1) + 2>>
    BY DEF BlockAt
  <2>1. y \in Int /\ x \in Int /\ (y < BlockH - 1 => y + 1 \in Ys)
    BY BlockSize DEF Xs, Ys
  <2>2. bottom[y][x] = ColumnOfPixels(x + 1, y + 1, 2)
    <3>1. CASE y < BlockH - 1
      BY <2>1, <3>1
    <3>2. CASE ~(y < BlockH - 1)
      BY <3>2
    <3> QED BY <3>1, <3>2
  <2> QED BY <2>1, <2>2 DEF ColumnOfPixels
<1> HIDE DEF left, right, top, bottom
<1>8. /\ 2 * Square[1][1] = -2 /\ 2 * Square[1][2] = 0 /\ 2 * Square[2][1] = 2 /\ 2 * Square[2][2] = 0
      /\ 2 * Square[3][1] = 0 /\ 2 * Square[3][2] = -2 /\ 2 * Square[4][1] = 0 /\ 2 * Square[4][2] = 2
  BY DEF Square
<1>9. filtered'[1] = left /\ filtered'[2] = right /\ filtered'[3] = top /\ filtered'[4] = bottom
  BY <1>1
<1> SUFFICES ASSUME NEW j \in 1..4
             PROVE  BlockAt(filtered'[j], 2 * Square[j][1], 2 * Square[j][2])
  OBVIOUS
<1>10. j = 1 \/ j = 2 \/ j = 3 \/ j = 4
  OBVIOUS
<1> QED BY <1>4, <1>5, <1>6, <1>7, <1>8, <1>9, <1>10

LEMMA HalfDiagBlocks ==
  ASSUME HalfDiag, hor["2"] = FilterRows(2, 0)
  PROVE  \A j \in 1..4 : BlockAt(filtered'[j], 2 * Square[j + 4][1], 2 * Square[j + 4][2])
<1> DEFINE column(x, y) == FilterColumn(hor["2"], x, y, 2)
           topRight == [y \in Ys |-> [x \in Xs |-> column(x + 1, y)]]
           topLeft  == [y \in Ys |-> [x \in Xs |-> IF x = 0 THEN column(0, y) ELSE topRight[y][x - 1]]]
           bottomRight == [y \in Ys |-> [x \in Xs |-> IF y < BlockH - 1 THEN topRight[y + 1][x] ELSE column(x + 1, y + 1)]]
           bottomLeft == [y \in Ys |-> [x \in Xs |->
                            IF y < BlockH - 1 THEN topLeft[y + 1][x]
                            ELSE IF x > 0 THEN bottomRight[y][x - 1] ELSE column(0, y + 1)]]
<1>1. filtered' = <<topLeft, topRight, bottomLeft, bottomRight>>
  BY DEF HalfDiag
<1>2. ASSUME NEW x \in Columns, NEW y \in 0..BlockH
      PROVE  column(x, y) = <<4 * x + 2, 4 * y + 2>>
  <2>1. x \in Int /\ y \in Int
    BY BlockSize DEF Columns
  <2>2. 0 <= y /\ 2 \in 0..3 /\ 0 \in 0..1
    OBVIOUS
  <2>3. FilterColumn(FilterRows(2, 0), x, y, 2) = <<4 * x + 2, 4 * y + 2>>
    BY <2>2, FilteredColumn
  <2> QED BY <2>3
<1> HIDE DEF column
<1>3. ASSUME NEW x \in Xs, NEW y \in Ys
      PROVE  /\ x \in Int /\ y \in Int /\ x \in Columns /\ x + 1 \in Columns /\ 0 \in Columns
             /\ y \in 0..BlockH /\ y + 1 \in 0..BlockH
             /\ x # 0 => x - 1 \in Xs /\ (x - 1) + 1 = x
             /\ x > 0 <=> x # 0
             /\ y < BlockH - 1 => y + 1 \in Ys
  BY BlockSize DEF Xs, Ys, Columns
<1>4. ASSUME NEW x \in Xs, NEW y \in Ys
      PROVE  topRight[y][x] = column(x + 1, y)
  OBVIOUS
<1>5. ASSUME NEW x \in Xs, NEW y \in Ys
      PROVE  topLeft[y][x] = column(x, y)
  <2>1. CASE x = 0
    BY <2>1
  <2>2. CASE x # 0
    BY <1>3, <1>4, <2>2
  <2> QED BY <2>1, <2>2
<1>6. ASSUME NEW x \in Xs, NEW y \in Ys
      PROVE  bottomRight[y][x] = column(x + 1, y + 1)
  <2>1. CASE y < BlockH - 1
    BY <1>3, <1>4, <2>1
  <2>2. CASE ~(y < BlockH - 1)
    BY <2>2
  <2> QED BY <2>1, <2>2
<1>7. ASSUME NEW x \in Xs, NEW y \in Ys
      PROVE  bottomLeft[y][x] = column(x, y + 1)
  <2>1. CASE y < BlockH - 1
    BY <1>3, <1>5, <2>1
  <2>2. CASE ~(y < BlockH - 1) /\ x > 0
    BY <1>3, <1>6, <2>2
  <2>3. CASE ~(y < BlockH - 1) /\ x = 0
    BY <2>3
  <2> QED BY <1>3, <2>1, <2>2, <2>3
<1> HIDE DEF topLeft, topRight, bottomLeft, bottomRight
<1>8. BlockAt(topLeft, -2, -2) /\ BlockAt(topRight, 2, -2) /\ BlockAt(bottomLeft, -2, 2) /\ BlockAt(bottomRight, 2, 2)
  <2> SUFFICES ASSUME NEW y \in Ys, NEW x \in Xs
               PROVE  /\ topLeft[y][x] = <<4 * (x + 1) + (-2), 4 * (y + 1) + (-2)>>
                      /\ topRight[y][x] = <<4 * (x + 1) + 2, 4 * (y + 1) + (-2)>>
                      /\ bottomLeft[y][x] = <<4 * (x + 1) + (-2), 4 * (y + 1) + 2>>
                      /\ bottomRight[y][x] = <<4 * (x + 1) + 2, 4 * (y + 1) + 2>>
    BY DEF BlockAt
  <2>1. /\ topLeft[y][x] = <<4 * x + 2, 4 * y + 2>>
        /\ topRight[y][x] = <<4 * (x + 1) + 2, 4 * y + 2>>
        /\ bottomLeft[y][x] = <<4 * x + 2, 4 * (y + 1) + 2>>
        /\ bottomRight[y][x] = <<4 * (x + 1) + 2, 4 * (y + 1) + 2>>
    BY <1>2, <1>3, <1>4, <1>5, <1>6, <1>7
  <2>2. x \in Int /\ y \in Int
    BY <1>3
  <2> QED BY <2>1, <2>2
<1>9. /\ 2 * Square[1 + 4][1] = -2 /\ 2 * Square[1 + 4][2] = -2 /\ 2 * Square[2 + 4][1] = 2 /\ 2 * Square[2 + 4][2] = -2
      /\ 2 * Square[3 + 4][1] = -2 /\ 2 * Square[3 + 4][2] = 2 /\ 2 * Square[4 + 4][1] = 2 /\ 2 * Square[4 + 4][2] = 2
  BY DEF Square
<1>10. filtered'[1] = topLeft /\ filtered'[2] = topRight /\ filtered'[3] = bottomLeft /\ filtered'[4] = bottomRight
  BY <1>1
<1> SUFFICES ASSUME NEW j \in 1..4
             PROVE  BlockAt(filtered'[j], 2 * Square[j + 4][1], 2 * Square[j + 4][2])
  OBVIOUS
<1>11. j = 1 \/ j = 2 \/ j = 3 \/ j = 4
  OBVIOUS
<1> QED BY <1>8, <1>9, <1>10, <1>11

LEMMA QuarterBlockAt ==
  ASSUME NEW f \in 0..3, NEW g \in 0..3, NEW dx \in 0..1, NEW dy \in 0..1,
         NEW rows, rows = FilterRows(f, 0)
  PROVE  BlockAt(QuarterBlock(rows, dx, dy, g), 4 * (dx - 1) + f, 4 * (dy - 1) + g)
<1> SUFFICES ASSUME NEW y \in Ys, NEW x \in Xs
             PROVE  QuarterBlock(rows, dx, dy, g)[y][x]
                      = <<4 * (x + 1) + (4 * (dx - 1) + f), 4 * (y + 1) + (4 * (dy - 1) + g)>>
  BY DEF BlockAt
<1>1. x + dx \in Columns /\ y + dy \in 0..BlockH /\ 0 <= y + dy /\ x \in Int /\ y \in Int
  BY BlockSize DEF Columns, Xs, Ys
<1>2. FilterColumn(rows, x + dx, y + dy, g) = <<4 * (x + dx) + f, 4 * (y + dy) + g>>
  <2>1. 0 \in 0..1
    OBVIOUS
  <2> QED BY <1>1, <2>1, FilteredColumn
<1>3. QuarterBlock(rows, dx, dy, g)[y][x] = FilterColumn(rows, x + dx, y + dy, g)
  BY DEF QuarterBlock
<1> QED BY <1>1, <1>2, <1>3

(* The quarters before and after a half or whole pixel.                    *)
LEMMA Quarters ==
  ASSUME NEW o \in -1..1
  PROVE  /\ QuarterBefore(o) \in 0..3 /\ QuarterAfter(o) \in 0..3 /\ Half(o) \in 0..3
         /\ NextBefore(o) \in 0..1 /\ NextAfter(o) \in 0..1
         /\ 4 * (NextBefore(o) - 1) + QuarterBefore(o) = 2 * o - 1
         /\ 4 * (NextAfter(o) - 1) + QuarterAfter(o) = 2 * o + 1
         /\ 4 * (NextAfter(o) - 1) + Half(o) = 2 * o
BY DEF QuarterBefore, QuarterAfter, Half, NextBefore, NextAfter

LEMMA QuarterHorVerBlocks ==
  ASSUME QuarterHorVer, offset \in Moves, DOMAIN hor = {"0", "2", "l", "r"},
         hor["0"] = FilterRows(0, 0), hor["2"] = FilterRows(2, 0)
  PROVE  \A j \in 1..4 : BlockAt(filtered'[j], 2 * offset[1] + Square[j][1], 2 * offset[2] + Square[j][2])
<1> DEFINE ox == offset[1]
           oy == offset[2]
           middle == hor[IF ox # 0 THEN "2" ELSE "0"]
<1>1. ox \in -1..1 /\ oy \in -1..1
  BY DEF Moves
<1>2. middle = FilterRows(Half(ox), 0)
  BY DEF Half
<1>3. hor'["l"] = FilterRows(QuarterBefore(ox), 0) /\ hor'["r"] = FilterRows(QuarterAfter(ox), 0)
  BY DEF QuarterHorVer
<1>4. /\ filtered'[1] = QuarterBlock(hor'["l"], NextBefore(ox), NextAfter(oy), Half(oy))
      /\ filtered'[2] = QuarterBlock(hor'["r"], NextAfter(ox), NextAfter(oy), Half(oy))
      /\ filtered'[3] = QuarterBlock(middle, NextAfter(ox), NextBefore(oy), QuarterBefore(oy))
      /\ filtered'[4] = QuarterBlock(middle, NextAfter(ox), NextAfter(oy), QuarterAfter(oy))
  BY DEF QuarterHorVer
<1> HIDE DEF middle, ox, oy
<1>5. BlockAt(filtered'[1], 2 * ox - 1, 2 * oy)
  BY <1>1, <1>3, <1>4, QuarterBlockAt, Quarters
<1>6. BlockAt(filtered'[2], 2 * ox + 1, 2 * oy)
  BY <1>1, <1>3, <1>4, QuarterBlockAt, Quarters
<1>7. BlockAt(filtered'[3], 2 * ox, 2 * oy - 1)
  BY <1>1, <1>2, <1>4, QuarterBlockAt, Quarters
<1>8. BlockAt(filtered'[4], 2 * ox, 2 * oy + 1)
  BY <1>1, <1>2, <1>4, QuarterBlockAt, Quarters
<1>9. /\ 2 * ox + Square[1][1] = 2 * ox - 1 /\ 2 * oy + Square[1][2] = 2 * oy
      /\ 2 * ox + Square[2][1] = 2 * ox + 1 /\ 2 * oy + Square[2][2] = 2 * oy
      /\ 2 * ox + Square[3][1] = 2 * ox /\ 2 * oy + Square[3][2] = 2 * oy - 1
      /\ 2 * ox + Square[4][1] = 2 * ox /\ 2 * oy + Square[4][2] = 2 * oy + 1
  BY <1>1 DEF Square
<1> SUFFICES ASSUME NEW j \in 1..4
             PROVE  BlockAt(filtered'[j], 2 * ox + Square[j][1], 2 * oy + Square[j][2])
  BY DEF ox, oy
<1>10. j = 1 \/ j = 2 \/ j = 3 \/ j = 4
  OBVIOUS
<1> QED BY <1>5, <1>6, <1>7, <1>8, <1>9, <1>10

LEMMA QuarterDiagBlocks ==
  ASSUME QuarterDiag, offset \in Moves,
         hor["l"] = FilterRows(QuarterBefore(offset[1]), 0), hor["r"] = FilterRows(QuarterAfter(offset[1]), 0)
  PROVE  \A j \in 1..4 : BlockAt(filtered'[j], 2 * offset[1] + Square[j + 4][1], 2 * offset[2] + Square[j + 4][2])
<1> DEFINE ox == offset[1]
           oy == offset[2]
<1>1. ox \in -1..1 /\ oy \in -1..1
  BY DEF Moves
<1>2. hor["l"] = FilterRows(QuarterBefore(ox), 0) /\ hor["r"] = FilterRows(QuarterAfter(ox), 0)
  OBVIOUS
<1>3. /\ filtered'[1] = QuarterBlock(hor["l"], NextBefore(ox), NextBefore(oy), QuarterBefore(oy))
      /\ filtered'[2] = QuarterBlock(hor["r"], NextAfter(ox), NextBefore(oy), QuarterBefore(oy))
      /\ filtered'[3] = QuarterBlock(hor["l"], NextBefore(ox), NextAfter(oy), QuarterAfter(oy))
      /\ filtered'[4] = QuarterBlock(hor["r"], NextAfter(ox), NextAfter(oy), QuarterAfter(oy))
  BY DEF QuarterDiag
<1> HIDE DEF ox, oy
<1>4. BlockAt(filtered'[1], 2 * ox - 1, 2 * oy - 1)
  BY <1>1, <1>2, <1>3, QuarterBlockAt, Quarters
<1>5. BlockAt(filtered'[2], 2 * ox + 1, 2 * oy - 1)
  BY <1>1, <1>2, <1>3, QuarterBlockAt, Quarters
<1>6. BlockAt(filtered'[3], 2 * ox - 1, 2 * oy + 1)
  BY <1>1, <1>2, <1>3, QuarterBlockAt, Quarters
<1>7. BlockAt(filtered'[4], 2 * ox + 1, 2 * oy + 1)
  BY <1>1, <1>2, <1>3, QuarterBlockAt, Quarters
<1>8. /\ 2 * ox + Square[1 + 4][1] = 2 * ox - 1 /\ 2 * oy + Square[1 + 4][2] = 2 * oy - 1
      /\ 2 * ox + Square[2 + 4][1] = 2 * ox + 1 /\ 2 * oy + Square[2 + 4][2] = 2 * oy - 1
      /\ 2 * ox + Square[3 + 4][1] = 2 * ox - 1 /\ 2 * oy + Square[3 + 4][2] = 2 * oy + 1
      /\ 2 * ox + Square[4 + 4][1] = 2 * ox + 1 /\ 2 * oy + Square[4 + 4][2] = 2 * oy + 1
  BY <1>1 DEF Square
<1> SUFFICES ASSUME NEW j \in 1..4
             PROVE  BlockAt(filtered'[j], 2 * ox + Square[j + 4][1], 2 * oy + Square[j + 4][2])
  BY DEF ox, oy
<1>9. j = 1 \/ j = 2 \/ j = 3 \/ j = 4
  OBVIOUS
<1> QED BY <1>4, <1>5, <1>6, <1>7, <1>8, <1>9

-----------------------------------------------------------------------------
(* Prediction.                                                             *)

LEMMA SampleIs ==
  ASSUME NEW size \in {4, 8}, NEW v \in Vector, NEW x \in Int, NEW y \in Int
  PROVE  SampleAt(size, v, x, y) = Up(Scale(size, <<x, y>>), v)
<1>1. v[1] \in Int /\ v[2] \in Int
  BY DEF Vector
<1>2. ASSUME NEW a \in Int, NEW b \in Int
      PROVE  size * (b + a \div size) + (a % size) = size * b + a
  <2>1. CASE size = 4
    BY <2>1
  <2>2. CASE size = 8
    BY <2>2
  <2> QED BY <2>1, <2>2
<1> QED BY <1>1, <1>2 DEF SampleAt, Up, Scale

LEMMA LumaExact ==
  ASSUME origin \in Vector, NEW v \in Vector
  PROVE  Luma(v) = [y \in Ys |-> [x \in Xs |-> Up(Scale(4, <<x, y>>), v)]]
<1> DEFINE at == Up(origin, <<v[1] \div 4, v[2] \div 4>>)
           inside == CopiesFromInside(at, BlockW, BlockH, PicW, PicH)
<1>1. at \in Vector
  BY DEF Up, Vector
<1> HIDE DEF at
<1>2. Extended(at, BlockW, BlockH, 8, PicW, PicH)
  BY <1>1, BlockSize, PictureSize, AlwaysExtended
<1>3. CopyIsExtended(at, inside, BlockW, BlockH, PicW, PicH)
  BY <1>1, BlockSize, PictureSize DEF CopyIsExtended, PixelOfCopy, CopiesFromInside, CutTo, Vector
<1>4. Luma(v) = Prediction(4, v, BlockW, BlockH)
  BY <1>2, <1>3 DEF Luma, at
<1>5. Prediction(4, v, BlockW, BlockH) = [y \in Ys |-> [x \in Xs |-> Up(Scale(4, <<x, y>>), v)]]
  BY SampleIs, BlockSize DEF Prediction, Xs, Ys
<1> QED BY <1>4, <1>5

(* Half of a luma block that lies inside of the picture lies inside of the *)
(* half of the picture.                                                    *)
LEMMA HalvesInside ==
  ASSUME NEW o \in Int, NEW a \in Int, NEW w \in Nat, NEW pic \in Nat,
         (a \div 4) % 2 = 0, o + a \div 4 >= 0, o + a \div 4 + w <= pic
  PROVE  o \div 2 + a \div 8 >= 0 /\ o \div 2 + a \div 8 + w \div 2 <= pic \div 2
OBVIOUS

LEMMA ChromaExact ==
  ASSUME origin \in Vector, NEW v \in Vector
  PROVE  Chroma(v) = [y \in 0..(BlockH \div 2 - 1) |->
                        [x \in 0..(BlockW \div 2 - 1) |-> Up(Scale(8, <<x, y>>), v)]]
<1> DEFINE at == Up(AtChroma(origin), <<v[1] \div 8, v[2] \div 8>>)
           w == BlockW \div 2
           h == BlockH \div 2
           inside == CopiesFromInside(Up(origin, <<v[1] \div 4, v[2] \div 4>>), BlockW, BlockH, PicW, PicH)
<1>1. /\ origin[1] \in Int /\ origin[2] \in Int /\ v[1] \in Int /\ v[2] \in Int
      /\ at = <<origin[1] \div 2 + v[1] \div 8, origin[2] \div 2 + v[2] \div 8>>
  BY DEF Vector, Up, AtChroma
<1>2. at \in Vector /\ w \in Nat /\ h \in Nat /\ PicW \div 2 \in Nat /\ PicH \div 2 \in Nat
  BY <1>1, BlockSize, PictureSize DEF Vector
<1>3. inside /\ ~FractionalChroma(v) => CopiesFromInside(at, w, h, PicW \div 2, PicH \div 2)
  <2> SUFFICES ASSUME inside, ~FractionalChroma(v)
               PROVE  CopiesFromInside(at, w, h, PicW \div 2, PicH \div 2)
    OBVIOUS
  <2>1. /\ origin[1] + v[1] \div 4 >= 0 /\ origin[1] + v[1] \div 4 + BlockW <= PicW
        /\ origin[2] + v[2] \div 4 >= 0 /\ origin[2] + v[2] \div 4 + BlockH <= PicH
    BY DEF CopiesFromInside, Up
  <2>2. (v[1] \div 4) % 2 = 0 /\ (v[2] \div 4) % 2 = 0
    BY DEF FractionalChroma
  <2>3. /\ origin[1] \div 2 + v[1] \div 8 >= 0
        /\ origin[1] \div 2 + v[1] \div 8 + BlockW \div 2 <= PicW \div 2
    BY <1>1, <2>1, <2>2, BlockSize, PictureSize, HalvesInside
  <2>4. /\ origin[2] \div 2 + v[2] \div 8 >= 0
        /\ origin[2] \div 2 + v[2] \div 8 + BlockH \div 2 <= PicH \div 2
    BY <1>1, <2>1, <2>2, BlockSize, PictureSize, HalvesInside
  <2> QED BY <1>1, <2>3, <2>4 DEF CopiesFromInside
<1> HIDE DEF at, w, h, inside
<1>4. Extended(at, w, h, 4, PicW \div 2, PicH \div 2)
  BY <1>2, AlwaysExtended
<1>5. ~FractionalChroma(v) => CopyIsExtended(at, inside, w, h, PicW \div 2, PicH \div 2)
  <2>1. CASE ~inside
    BY <2>1 DEF CopyIsExtended, PixelOfCopy
  <2>2. CASE CopiesFromInside(at, w, h, PicW \div 2, PicH \div 2)
    BY <1>2, <2>2 DEF CopyIsExtended, PixelOfCopy, CopiesFromInside, CutTo, Vector
  <2> QED BY <1>3, <2>1, <2>2
<1>6. Chroma(v) = Prediction(8, v, BlockW \div 2, BlockH \div 2)
  BY <1>4, <1>5 DEF Chroma, at, w, h, inside
<1>7. Prediction(8, v, BlockW \div 2, BlockH \div 2)
        = [y \in 0..(BlockH \div 2 - 1) |-> [x \in 0..(BlockW \div 2 - 1) |-> Up(Scale(8, <<x, y>>), v)]]
  <2>1. \A y \in 0..(BlockH \div 2 - 1), x \in 0..(BlockW \div 2 - 1) :
          SampleAt(8, v, x, y) = Up(Scale(8, <<x, y>>), v)
    BY SampleIs
  <2> QED BY <2>1 DEF Prediction
<1> QED BY <1>6, <1>7

-----------------------------------------------------------------------------
(* The invariant.                                                          *)

LEMMA UnfilteredType ==
  /\ Unfiltered \in [{"0", "2", "l", "r"} -> [Rows -> [Columns -> {Stale} \cup Vector]]]
  /\ \A f \in 0..3, first \in 0..1 : FilterRows(f, first) \in [Rows -> [Columns -> {Stale} \cup Vector]]
<1>1. Unfiltered \in [{"0", "2", "l", "r"} -> [Rows -> [Columns -> {Stale} \cup Vector]]]
  BY DEF Unfiltered
<1>2. ASSUME NEW f \in 0..3, NEW first \in 0..1
      PROVE  FilterRows(f, first) \in [Rows -> [Columns -> {Stale} \cup Vector]]
  <2>1. \A y \in Rows, x \in Columns : <<4 * x + f, 4 * (y - 3)>> \in Vector
    BY BlockSize DEF Rows, Columns, Vector
  <2> QED BY <2>1 DEF FilterRows
<1> QED BY <1>1, <1>2

LEMMA FracInitInv == FracInit => FracInv
<1> SUFFICES ASSUME FracInit PROVE FracInv
  OBVIOUS
<1>1. FracType
  BY UnfilteredType DEF FracInit, FracType, Vector, Moves, Idle
<1>2. VectorsFollow /\ RowsFiltered
  BY DEF FracInit, VectorsFollow, RowsFiltered, Idle
<1>3. BlocksExact
  BY DEF FracInit, BlocksExact
<1>4. PredictedExact
  BY DEF FracInit, PredictedExact, Exact, NotPredicted
<1> QED BY <1>1, <1>2, <1>3, <1>4 DEF FracInv

LEMMA SearchIntegerInv ==
  ASSUME FracInv, SearchInteger
  PROVE  FracInv'
<1>1. /\ origin' \in Vector /\ whole' \in Vector /\ level' \in 1..4 /\ fstep' = 0
      /\ vec' = Scale(2, whole') /\ bestIndex' = 0 /\ offset' = <<0, 0>> /\ hor' = Unfiltered
      /\ compared' = <<>> /\ cheapest' = Scale(4, whole') /\ predicted' = predicted
  BY VectorsInPlane DEF SearchInteger, Vector
<1>2. FracType'
  BY <1>1, UnfilteredType, ScaleType DEF FracType, Moves, Idle
<1>3. VectorsFollow' /\ RowsFiltered'
  BY <1>1 DEF VectorsFollow, RowsFiltered
<1>4. BlocksExact'
  BY <1>1 DEF BlocksExact
<1>5. PredictedExact'
  BY <1>1 DEF FracInv, PredictedExact
<1> QED BY <1>2, <1>3, <1>4, <1>5 DEF FracInv

LEMMA NextUnitInv ==
  ASSUME FracInv, NextUnit
  PROVE  FracInv'
<1>1. FracType'
  BY UnfilteredType DEF NextUnit, FracType, Vector, Moves, Idle
<1>2. VectorsFollow' /\ RowsFiltered'
  BY DEF NextUnit, VectorsFollow, RowsFiltered, Idle
<1>3. BlocksExact'
  BY DEF NextUnit, BlocksExact
<1>4. PredictedExact'
  BY DEF NextUnit, PredictedExact, Exact, NotPredicted
<1> QED BY <1>1, <1>2, <1>3, <1>4 DEF FracInv

(* What a step of the search compares, as the step says it.                *)
LEMMA TowardsType ==
  /\ \A k \in 1..8 : Square[k] \in Moves
  /\ \A k \in 0..8 : Towards(k) \in Moves
  /\ Towards(0) = <<0, 0>>
BY DEF Square, Towards, Moves

LEMMA QuarterVector ==
  ASSUME NEW w \in Vector, NEW o \in Moves, NEW s \in Moves
  PROVE  LET v == Scale(1, Up(Up(Scale(4, w), Scale(2, o)), s))
         IN /\ v \in Vector
            /\ v[1] - 4 * w[1] = 2 * o[1] + s[1]
            /\ v[2] - 4 * w[2] = 2 * o[2] + s[2]
<1>1. /\ w[1] \in Int /\ w[2] \in Int /\ o[1] \in Int /\ o[2] \in Int
      /\ s[1] \in Int /\ s[2] \in Int
  BY DEF Vector, Moves
<1>2. Scale(1, Up(Up(Scale(4, w), Scale(2, o)), s))
        = <<4 * w[1] + 2 * o[1] + s[1], 4 * w[2] + 2 * o[2] + s[2]>>
  BY <1>1 DEF Scale, Up
<1> QED BY <1>1, <1>2 DEF Vector

LEMMA SearchFractionsBlocks ==
  ASSUME FracInv, SearchFractions, NEW j \in 1..4
  PROVE  LET first == IF fstep \in {0, 2} THEN 1 ELSE 5
             v == Scale(IF fstep < 2 THEN 2 ELSE 1, Up(vec, Square[first + j - 1]))
         IN v \in Vector /\ BlockOf(filtered'[j], v, whole)
<1> DEFINE first == IF fstep \in {0, 2} THEN 1 ELSE 5
           v == Scale(IF fstep < 2 THEN 2 ELSE 1, Up(vec, Square[first + j - 1]))
<1>1. /\ whole \in Vector /\ vec \in Vector /\ level \in 1..4 /\ offset \in Moves
      /\ DOMAIN hor = {"0", "2", "l", "r"}
      /\ fstep \in 0..3 /\ fstep < level
  BY DEF FracInv, FracType, SearchFractions
<1>2. Square[j] \in Moves /\ Square[j + 4] \in Moves
  BY TowardsType
<1>3. CASE fstep = 0
  <2>1. v = Scale(2, Up(vec, Square[j])) /\ vec = Scale(2, whole)
    BY <1>3 DEF FracInv, VectorsFollow
  <2>2. v \in Vector /\ v[1] - 4 * whole[1] = 2 * Square[j][1] /\ v[2] - 4 * whole[2] = 2 * Square[j][2]
    BY <1>1, <1>2, <2>1 DEF Scale, Up, Vector, Moves
  <2>3. HalfHorVer
    BY <1>3 DEF SearchFractions
  <2>4. BlockAt(filtered'[j], 2 * Square[j][1], 2 * Square[j][2])
    BY <1>1, <2>3, HalfHorVerBlocks
  <2> QED BY <1>1, <2>2, <2>4, BlockIsAt
<1>4. CASE fstep = 1
  <2>1. v = Scale(2, Up(vec, Square[j + 4])) /\ vec = Scale(2, whole)
    <3>1. 5 + j - 1 = j + 4
      OBVIOUS
    <3> QED BY <1>1, <1>4, <3>1 DEF FracInv, VectorsFollow
  <2>2. v \in Vector /\ v[1] - 4 * whole[1] = 2 * Square[j + 4][1] /\ v[2] - 4 * whole[2] = 2 * Square[j + 4][2]
    BY <1>1, <1>2, <2>1 DEF Scale, Up, Vector, Moves
  <2>3. HalfDiag
    BY <1>4 DEF SearchFractions
  <2>4. hor["2"] = FilterRows(2, 0)
    BY <1>1, <1>4 DEF FracInv, RowsFiltered
  <2>5. BlockAt(filtered'[j], 2 * Square[j + 4][1], 2 * Square[j + 4][2])
    BY <2>3, <2>4, HalfDiagBlocks
  <2> QED BY <1>1, <2>2, <2>5, BlockIsAt
<1>5. CASE fstep = 2
  <2>1. v = Scale(1, Up(vec, Square[j])) /\ vec = Up(Scale(4, whole), Scale(2, offset))
    BY <1>1, <1>5 DEF FracInv, VectorsFollow
  <2>2. /\ v \in Vector
        /\ v[1] - 4 * whole[1] = 2 * offset[1] + Square[j][1]
        /\ v[2] - 4 * whole[2] = 2 * offset[2] + Square[j][2]
    <3>1. v = Scale(1, Up(Up(Scale(4, whole), Scale(2, offset)), Square[j]))
      BY <2>1
    <3> HIDE DEF v
    <3> QED BY <1>1, <1>2, <3>1, QuarterVector
  <2>3. QuarterHorVer
    BY <1>5 DEF SearchFractions
  <2>4. hor["0"] = FilterRows(0, 0) /\ hor["2"] = FilterRows(2, 0)
    BY <1>1, <1>5 DEF FracInv, RowsFiltered
  <2>5. BlockAt(filtered'[j], 2 * offset[1] + Square[j][1], 2 * offset[2] + Square[j][2])
    BY <1>1, <2>3, <2>4, QuarterHorVerBlocks
  <2> QED BY <1>1, <2>2, <2>5, BlockIsAt
<1>6. CASE fstep = 3
  <2>1. v = Scale(1, Up(vec, Square[j + 4])) /\ vec = Up(Scale(4, whole), Scale(2, offset))
    <3>1. 5 + j - 1 = j + 4
      OBVIOUS
    <3> QED BY <1>1, <1>6, <3>1 DEF FracInv, VectorsFollow
  <2>2. /\ v \in Vector
        /\ v[1] - 4 * whole[1] = 2 * offset[1] + Square[j + 4][1]
        /\ v[2] - 4 * whole[2] = 2 * offset[2] + Square[j + 4][2]
    <3>1. v = Scale(1, Up(Up(Scale(4, whole), Scale(2, offset)), Square[j + 4]))
      BY <2>1
    <3> HIDE DEF v
    <3> QED BY <1>1, <1>2, <3>1, QuarterVector
  <2>3. QuarterDiag
    BY <1>6 DEF SearchFractions
  <2>4. hor["l"] = FilterRows(QuarterBefore(offset[1]), 0) /\ hor["r"] = FilterRows(QuarterAfter(offset[1]), 0)
    BY <1>1, <1>6 DEF FracInv, RowsFiltered
  <2>5. BlockAt(filtered'[j], 2 * offset[1] + Square[j + 4][1], 2 * offset[2] + Square[j + 4][2])
    BY <1>1, <2>3, <2>4, QuarterDiagBlocks
  <2> QED BY <1>1, <2>2, <2>5, BlockIsAt
<1> QED BY <1>1, <1>3, <1>4, <1>5, <1>6

LEMMA SearchFractionsHor ==
  ASSUME FracInv, SearchFractions
  PROVE  /\ hor' \in [{"0", "2", "l", "r"} -> [Rows -> [Columns -> {Stale} \cup Vector]]]
         /\ level > 1 => hor'["0"] = FilterRows(0, 0) /\ hor'["2"] = FilterRows(2, 0)
         /\ fstep \in {2, 3} /\ level > 3 =>
              /\ hor'["l"] = FilterRows(QuarterBefore(offset[1]), 0)
              /\ hor'["r"] = FilterRows(QuarterAfter(offset[1]), 0)
<1>1. /\ hor \in [{"0", "2", "l", "r"} -> [Rows -> [Columns -> {Stale} \cup Vector]]]
      /\ level \in 1..4 /\ fstep \in 0..3 /\ fstep < level /\ offset \in Moves
  BY DEF FracInv, FracType, SearchFractions
<1>2. CASE fstep = 0
  <2>1. hor' = [hor EXCEPT !["0"] = FilterRows(0, 0), !["2"] = FilterRows(2, FirstRow)]
    BY <1>2 DEF SearchFractions, HalfHorVer
  <2>2. FirstRow \in 0..1 /\ (level > 1 => FirstRow = 0)
    BY DEF FirstRow
  <2>3. /\ FilterRows(0, 0) \in [Rows -> [Columns -> {Stale} \cup Vector]]
        /\ FilterRows(2, FirstRow) \in [Rows -> [Columns -> {Stale} \cup Vector]]
    BY <2>2, UnfilteredType
  <2>4. hor'["0"] = FilterRows(0, 0) /\ hor'["2"] = FilterRows(2, FirstRow)
    BY <1>1, <2>1
  <2>5. hor' \in [{"0", "2", "l", "r"} -> [Rows -> [Columns -> {Stale} \cup Vector]]]
    BY <1>1, <2>1, <2>3
  <2>6. level > 1 => hor'["0"] = FilterRows(0, 0) /\ hor'["2"] = FilterRows(2, 0)
    BY <2>2, <2>4
  <2>7. ~(fstep \in {2, 3})
    BY <1>2
  <2> QED BY <2>5, <2>6, <2>7
<1>3. CASE fstep \in {1, 3}
  <2>1. HalfDiag \/ QuarterDiag
    <3>1. CASE fstep = 1
      BY <3>1 DEF SearchFractions
    <3>2. CASE fstep = 3
      BY <3>2 DEF SearchFractions
    <3> QED BY <1>3, <3>1, <3>2
  <2>2. hor' = hor
    BY <2>1, Zenon DEF HalfDiag, QuarterDiag
  <2> QED BY <1>1, <1>3, <2>2 DEF FracInv, RowsFiltered
<1>4. CASE fstep = 2
  <2>1. hor' = [hor EXCEPT !["l"] = FilterRows(QuarterBefore(offset[1]), 0), !["r"] = FilterRows(QuarterAfter(offset[1]), 0)]
    BY <1>4 DEF SearchFractions, QuarterHorVer
  <2>2. QuarterBefore(offset[1]) \in 0..3 /\ QuarterAfter(offset[1]) \in 0..3 /\ 0 \in 0..1
    BY <1>1 DEF QuarterBefore, QuarterAfter
  <2>3. /\ FilterRows(QuarterBefore(offset[1]), 0) \in [Rows -> [Columns -> {Stale} \cup Vector]]
        /\ FilterRows(QuarterAfter(offset[1]), 0) \in [Rows -> [Columns -> {Stale} \cup Vector]]
    BY <2>2, UnfilteredType
  <2> QED BY <1>1, <1>4, <2>1, <2>3 DEF FracInv, RowsFiltered
<1> QED BY <1>1, <1>2, <1>3, <1>4

LEMMA SearchFractionsInv ==
  ASSUME FracInv, SearchFractions
  PROVE  FracInv'
<1> DEFINE first == IF fstep \in {0, 2} THEN 1 ELSE 5
           vector(j) == Scale(IF fstep < 2 THEN 2 ELSE 1, Up(vec, Square[first + j - 1]))
           moves == fstep = 1 \/ fstep = level - 1
<1>1. /\ origin \in Vector /\ whole \in Vector /\ vec \in Vector /\ cheapest \in Vector
      /\ level \in 1..4 /\ offset \in Moves /\ bestIndex \in 0..8
      /\ fstep \in 0..3 /\ fstep < level
  BY DEF FracInv, FracType, SearchFractions
<1>2. /\ origin' = origin /\ whole' = whole /\ level' = level /\ predicted' = predicted
      /\ fstep' = fstep + 1
      /\ compared' = [j \in 1..4 |-> IF Usable(vector(j)) THEN vector(j) ELSE Stale]
  BY DEF SearchFractions
<1>3. PICK k \in {0} \cup {j \in 1..4 : Usable(vector(j))} :
        LET number == IF k = 0 THEN bestIndex ELSE first + k - 1
        IN /\ cheapest' = IF k = 0 THEN cheapest ELSE vector(k)
           /\ vec' = IF moves THEN Scale(IF fstep = LastHalf THEN 2 ELSE 1, Up(vec, Towards(number))) ELSE vec
           /\ offset' = IF fstep = LastHalf THEN Towards(number) ELSE offset
           /\ bestIndex' = IF fstep = LastHalf THEN 0 ELSE number
  BY DEF SearchFractions
<1> DEFINE number == IF k = 0 THEN bestIndex ELSE first + k - 1
           factor == IF fstep < 2 THEN 2 ELSE 1
<1>4. /\ cheapest' = IF k = 0 THEN cheapest ELSE vector(k)
      /\ vec' = IF moves THEN Scale(IF fstep = LastHalf THEN 2 ELSE 1, Up(vec, Towards(number))) ELSE vec
      /\ offset' = IF fstep = LastHalf THEN Towards(number) ELSE offset
      /\ bestIndex' = IF fstep = LastHalf THEN 0 ELSE number
  BY <1>3
<1>5. number \in 0..8 /\ Towards(number) \in Moves /\ Towards(number) \in Vector
  <2>1. number \in 0..8
    BY <1>1, <1>3
  <2> QED BY <2>1, TowardsType DEF Moves, Vector
(* The cheapest block is that of the best number.                           *)
<1>6. cheapest' = Scale(factor, Up(vec, Towards(number)))
  <2>1. CASE k # 0
    <3>1. k \in 1..4 /\ number = first + k - 1 /\ number # 0
      BY <1>1, <2>1
    <3>2. Towards(number) = Square[first + k - 1]
      BY <3>1 DEF Towards
    <3> QED BY <1>4, <2>1, <3>2
  <2>2. CASE k = 0
    <3>1. number = bestIndex /\ cheapest' = cheapest
      BY <1>4, <2>2
    <3>2. CASE fstep = 0
      <4>1. vec = Scale(2, whole) /\ cheapest = Scale(4, whole) /\ bestIndex = 0
        BY <3>2 DEF FracInv, VectorsFollow
      <4> QED BY <1>1, <3>1, <3>2, <4>1, TowardsType DEF Scale, Up, Vector
    <3>3. CASE fstep = 1
      <4>1. cheapest = Scale(2, Up(vec, Towards(bestIndex)))
        BY <1>1, <3>3 DEF FracInv, VectorsFollow
      <4> QED BY <3>1, <3>3, <4>1
    <3>4. CASE fstep = 2
      <4>1. cheapest = vec /\ bestIndex = 0
        BY <1>1, <3>4 DEF FracInv, VectorsFollow
      <4> QED BY <1>1, <3>1, <3>4, <4>1, TowardsType DEF Scale, Up, Vector
    <3>5. CASE fstep = 3
      <4>1. cheapest = Up(vec, Towards(bestIndex))
        BY <1>1, <3>5 DEF FracInv, VectorsFollow
      <4> QED BY <1>1, <1>5, <3>1, <3>5, <4>1, UpType DEF Scale, Vector
    <3> QED BY <1>1, <3>2, <3>3, <3>4, <3>5
  <2> QED BY <2>1, <2>2
<1>7. Up(vec, Towards(number)) \in Vector
  BY <1>1, <1>5, UpType
<1>8. LastHalf = IF level = 1 THEN 0 ELSE 1
  BY DEF LastHalf
<1>9. cheapest' \in Vector /\ vec' \in Vector /\ offset' \in Moves /\ bestIndex' \in 0..8
  BY <1>1, <1>4, <1>5, <1>6, <1>7, ScaleType
<1>10. FracType'
  BY <1>1, <1>2, <1>9, SearchFractionsHor DEF FracType
<1>11. VectorsFollow'
  <2> HIDE DEF number, factor
  <2>1. CASE fstep = 0 /\ level = 1
    <3>1. vec' = Scale(2, Up(vec, Towards(number))) /\ cheapest' = vec'
      BY <1>4, <1>6, <1>8, <2>1 DEF factor
    <3> QED BY <1>2, <2>1, <3>1 DEF VectorsFollow
  <2>2. CASE fstep = 0 /\ level > 1
    <3>1. vec' = vec /\ bestIndex' = number /\ vec = Scale(2, whole)
      BY <1>1, <1>4, <1>8, <2>2 DEF FracInv, VectorsFollow, number
    <3>2. cheapest' = Scale(2, Up(vec, Towards(number)))
      BY <1>6, <2>2 DEF factor
    <3> QED BY <1>1, <1>2, <2>2, <3>1, <3>2 DEF VectorsFollow
  <2>3. CASE fstep = 1
    <3>1. /\ vec' = Scale(2, Up(vec, Towards(number))) /\ cheapest' = vec' /\ bestIndex' = 0
          /\ offset' = Towards(number) /\ vec = Scale(2, whole)
      BY <1>1, <1>4, <1>6, <1>8, <2>3 DEF FracInv, VectorsFollow, factor
    <3>2. vec' = Up(Scale(4, whole), Scale(2, offset'))
      BY <1>1, <1>5, <3>1 DEF Scale, Up, Vector
    <3> QED BY <1>1, <1>2, <2>3, <3>1, <3>2 DEF VectorsFollow
  <2>4. CASE fstep = 2 /\ level = 3
    <3>1. vec' = Scale(1, Up(vec, Towards(number))) /\ cheapest' = vec' /\ offset' = offset
      BY <1>1, <1>4, <1>6, <1>8, <2>4 DEF factor
    <3> QED BY <1>2, <2>4, <3>1 DEF VectorsFollow
  <2>5. CASE fstep = 2 /\ level > 3
    <3>1. /\ vec' = vec /\ bestIndex' = number /\ offset' = offset
          /\ vec = Up(Scale(4, whole), Scale(2, offset))
      BY <1>1, <1>4, <1>8, <2>5 DEF FracInv, VectorsFollow
    <3>2. cheapest' = Up(vec, Towards(number))
      BY <1>6, <1>7, <2>5 DEF factor, Scale, Vector
    <3> QED BY <1>1, <1>2, <2>5, <3>1, <3>2 DEF VectorsFollow
  <2>6. CASE fstep = 3
    <3>1. vec' = Scale(1, Up(vec, Towards(number))) /\ cheapest' = vec'
      BY <1>1, <1>4, <1>6, <1>8, <2>6 DEF factor
    <3> QED BY <1>1, <1>2, <2>6, <3>1 DEF VectorsFollow
  <2> QED BY <1>1, <2>1, <2>2, <2>3, <2>4, <2>5, <2>6
<1>12. RowsFiltered'
  <2>1. fstep' \in 3..4 /\ level > 3 => fstep \in {2, 3} /\ fstep # LastHalf
    BY <1>1, <1>2, <1>8
  <2>2. fstep' \in 3..4 /\ level > 3 => offset' = offset
    BY <1>4, <2>1
  <2> QED BY <1>2, <2>1, <2>2, SearchFractionsHor DEF RowsFiltered
<1>13. BlocksExact'
  <2> SUFFICES ASSUME NEW j \in 1..4, compared'[j] # Stale
               PROVE  BlockOf(filtered'[j], compared'[j], whole')
    BY Zenon DEF BlocksExact
  <2>1. compared'[j] = vector(j)
    BY <1>2
  <2>2. BlockOf(filtered'[j], vector(j), whole)
    BY SearchFractionsBlocks
  <2> QED BY <1>2, <2>1, <2>2
<1>14. PredictedExact'
  BY <1>2 DEF FracInv, PredictedExact
<1> QED BY <1>10, <1>11, <1>12, <1>13, <1>14 DEF FracInv

(* A unit is predicted from one picture or from two.                       *)
LEMMA NeedsBufferIs ==
  ASSUME NEW v \in Vector
  PROVE  (FractionalLuma(v) => NeedsBuffer(v)) /\ (FractionalChroma(v) <=> NeedsBuffer(v))
BY DEF FractionalLuma, FractionalChroma, NeedsBuffer, Vector

LEMMA PredictUniInv ==
  ASSUME FracInv, PredictUni
  PROVE  Exact(predicted')
<1>1. origin \in Vector /\ vec \in Vector
  BY DEF FracInv, FracType
<1>2. predicted' = [vectors |-> <<vec>>, luma |-> <<Luma(vec)>>, chroma |-> <<Chroma(vec)>>]
  BY DEF PredictUni, ReconUni, Buffers
<1>3. Luma(vec) = LumaOf(vec) /\ Chroma(vec) = ChromaOf(vec)
  BY <1>1, LumaExact, ChromaExact DEF LumaOf, ChromaOf
<1> QED BY <1>2, <1>3 DEF Exact

LEMMA PredictBiInv ==
  ASSUME FracInv, PredictBi
  PROVE  Exact(predicted')
<1>1. origin \in Vector /\ vec \in Vector
  BY DEF FracInv, FracType
<1>2. PICK v \in OtherVectors : \E vs \in {<<vec, v>>, <<v, vec>>} :
       LET first == ReconUni(vs[1], NeedsBuffer(vs[1]), Buffers)
           second == ReconUni(vs[2], NeedsBuffer(vs[2]), [Buffers EXCEPT !.recY = first.recY, !.recC = first.recC])
       IN predicted' = [vectors |-> vs,
                        luma |-> <<IF FractionalLuma(vs[1]) THEN first.hiY ELSE first.recY,
                                   IF FractionalLuma(vs[2]) THEN second.hiY ELSE second.recY>>,
                        chroma |-> <<IF NeedsBuffer(vs[1]) THEN first.hiC ELSE first.recC,
                                     IF NeedsBuffer(vs[2]) THEN second.hiC ELSE second.recC>>]
  BY DEF PredictBi
<1>3. PICK vs \in {<<vec, v>>, <<v, vec>>} :
       LET first == ReconUni(vs[1], NeedsBuffer(vs[1]), Buffers)
           second == ReconUni(vs[2], NeedsBuffer(vs[2]), [Buffers EXCEPT !.recY = first.recY, !.recC = first.recC])
       IN predicted' = [vectors |-> vs,
                        luma |-> <<IF FractionalLuma(vs[1]) THEN first.hiY ELSE first.recY,
                                   IF FractionalLuma(vs[2]) THEN second.hiY ELSE second.recY>>,
                        chroma |-> <<IF NeedsBuffer(vs[1]) THEN first.hiC ELSE first.recC,
                                     IF NeedsBuffer(vs[2]) THEN second.hiC ELSE second.recC>>]
  BY <1>2
<1> DEFINE v1 == vs[1]
           v2 == vs[2]
           first == ReconUni(v1, NeedsBuffer(v1), Buffers)
           between == [Buffers EXCEPT !.recY = first.recY, !.recC = first.recC]
           second == ReconUni(v2, NeedsBuffer(v2), between)
<1>4. v1 \in Vector /\ v2 \in Vector /\ vs = <<v1, v2>>
  BY <1>1, VectorsInPlane DEF Vector
<1>5. ASSUME NEW u \in Vector, NEW bufs, DOMAIN bufs = {"recY", "recC", "hiY", "hiC"}
      PROVE  LET r == ReconUni(u, NeedsBuffer(u), bufs)
             IN /\ (IF FractionalLuma(u) THEN r.hiY ELSE r.recY) = LumaOf(u)
                /\ (IF NeedsBuffer(u) THEN r.hiC ELSE r.recC) = ChromaOf(u)
  <2>1. Luma(u) = LumaOf(u) /\ Chroma(u) = ChromaOf(u)
    BY <1>1, LumaExact, ChromaExact DEF LumaOf, ChromaOf
  <2>2. (FractionalLuma(u) => NeedsBuffer(u)) /\ (FractionalChroma(u) <=> NeedsBuffer(u))
    BY NeedsBufferIs
  <2> QED BY <1>5, <2>1, <2>2 DEF ReconUni
<1>6. DOMAIN Buffers = {"recY", "recC", "hiY", "hiC"} /\ DOMAIN between = {"recY", "recC", "hiY", "hiC"}
  BY DEF Buffers
<1> HIDE DEF v1, v2, first, between, second
<1>7. /\ (IF FractionalLuma(v1) THEN first.hiY ELSE first.recY) = LumaOf(v1)
      /\ (IF NeedsBuffer(v1) THEN first.hiC ELSE first.recC) = ChromaOf(v1)
  BY <1>4, <1>5, <1>6 DEF first
<1>8. /\ (IF FractionalLuma(v2) THEN second.hiY ELSE second.recY) = LumaOf(v2)
      /\ (IF NeedsBuffer(v2) THEN second.hiC ELSE second.recC) = ChromaOf(v2)
  BY <1>4, <1>5, <1>6 DEF second
<1>9. predicted' = [vectors |-> <<v1, v2>>, luma |-> <<LumaOf(v1), LumaOf(v2)>>,
                    chroma |-> <<ChromaOf(v1), ChromaOf(v2)>>]
  BY <1>3, <1>4, <1>7, <1>8 DEF v1, v2, first, between, second
<1> QED BY <1>9 DEF Exact

LEMMA PredictInv ==
  ASSUME FracInv, PredictUni \/ PredictBi
  PROVE  FracInv'
<1>1. /\ fstep' = Predicted /\ origin' = origin /\ whole' = whole /\ level' = level /\ vec' = vec
      /\ bestIndex' = bestIndex /\ offset' = offset /\ hor' = hor /\ filtered' = filtered
      /\ compared' = compared /\ cheapest' = cheapest
  BY DEF PredictUni, PredictBi
<1>2. FracType'
  BY <1>1 DEF FracInv, FracType
<1>3. VectorsFollow' /\ RowsFiltered'
  BY <1>1, <1>2 DEF FracType, VectorsFollow, RowsFiltered, Predicted
<1>4. BlocksExact'
  BY <1>1 DEF FracInv, BlocksExact
<1>5. PredictedExact'
  BY PredictUniInv, PredictBiInv DEF PredictedExact
<1> QED BY <1>2, <1>3, <1>4, <1>5 DEF FracInv

LEMMA FracInvHolds == FracInv => PredictionIsExact
<1> SUFFICES ASSUME FracInv PROVE PredictionIsExact
  OBVIOUS
<1>1. Extended(Up(Up(origin, whole), <<-1, -1>>), BlockW + 1, BlockH + 1, 8, PicW, PicH)
  <2>1. origin \in Vector /\ whole \in Vector /\ <<-1, -1>> \in Vector
    BY DEF FracInv, FracType, Vector
  <2>2. Up(Up(origin, whole), <<-1, -1>>) \in Vector
    BY <2>1, UpType
  <2>3. BlockW + 1 \in Nat /\ BlockH + 1 \in Nat /\ PicW \in Int /\ PicH \in Int
    BY BlockSize, PictureSize
  <2> QED BY <2>2, <2>3, AlwaysExtended
<1>2. compared # <<>> =>
        \A j \in 1..4 : compared[j] # Stale =>
          \A y \in Ys, x \in Xs :
            filtered[j][y][x] = Up(Scale(4, <<x + 1, y + 1>>), Up(compared[j], Scale(-4, whole)))
  BY DEF FracInv, BlocksExact, BlockOf
<1>3. fstep = level => vec = cheapest
  BY DEF FracInv, VectorsFollow
<1>4. \A i \in 1..Len(predicted.vectors) :
        /\ predicted.luma[i] = LumaOf(predicted.vectors[i])
        /\ predicted.chroma[i] = ChromaOf(predicted.vectors[i])
  BY DEF FracInv, PredictedExact, Exact
<1> QED BY <1>1, <1>2, <1>3, <1>4, Zenon DEF PredictionIsExact, LumaOf, ChromaOf

(* For units and pictures of any size, any vectors, any tile and any       *)
(* fme_level: search_frac compares the block of each vector and returns the*)
(* cheapest, and inter_recon predicts from the samples a decoder takes.    *)
THEOREM PredictionIsExactCorrect == FracSpec => []PredictionIsExact
<1>1. FracInit => FracInv
  BY FracInitInv
<1>2. FracInv /\ [FracNext]_fracVars => FracInv'
  <2> SUFFICES ASSUME FracInv, [FracNext]_fracVars
               PROVE  FracInv'
    OBVIOUS
  <2>1. CASE SearchInteger
    BY <2>1, SearchIntegerInv
  <2>2. CASE SearchFractions
    BY <2>2, SearchFractionsInv
  <2>3. CASE PredictUni \/ PredictBi
    BY <2>3, PredictInv
  <2>4. CASE NextUnit
    BY <2>4, NextUnitInv
  <2>5. CASE UNCHANGED fracVars
    BY <2>5 DEF fracVars, FracInv, FracType, VectorsFollow, RowsFiltered, BlocksExact, PredictedExact
  <2> QED BY <2>1, <2>2, <2>3, <2>4, <2>5 DEF FracNext
<1>3. FracInv => PredictionIsExact
  BY FracInvHolds
<1> QED BY <1>1, <1>2, <1>3, PTL DEF FracSpec

-----------------------------------------------------------------------------
(* The search for vectors of whole pixels.                                 *)

(* Each search has its own steps.                                          *)
StepsOfSearch ==
  /\ step \in {"early", "early again"} => method.early # "off"
  /\ step = "hexagon" => method.search = "hex"
  /\ step = "diamond" => method.search = "dia"
  /\ step \in {"grid", "zero grid", "star"} => method.search = "tz"
  /\ step \in {"full extra", "full merge"} => method.search = "full"
  /\ step \in {"early", "early again", "pattern"} => method.search # "full"
  /\ step \in {"start", "early", "early again", "pattern", "hexagon", "diamond", "grid",
               "zero grid", "star", "full extra", "full merge", "done"}

BestChecked == (best # NoVector => best \in checked) /\ checked \subseteq Permitted

StartChecked ==
  step \notin {"start", "full extra", "full merge"} /\ method.search # "full" => Seen(StartingPoints(method))

(* Before the pattern, without early termination.                          *)
AtStart ==
  /\ step = "start" => best = NoVector
  /\ step = "pattern" /\ method.early = "off" =>
       mv = Centre /\ (best = NoVector \/ best \in StartingPoints(method))

(* The hexagon has been looked at, and the best is its centre, or the next *)
(* one.                                                                    *)
HexagonChecked ==
  step = "hexagon" /\ method.early = "off" =>
    /\ index \in 0..8 /\ mv \in Vector
    /\ mv \in Permitted => mv \in checked
    /\ Seen(Points(Around(mv, LargeHexbs)))
    /\ index = 0 => best \in {NoVector, mv}
    /\ index # 0 => best = Plus(mv, LargeHexbs[index])

HexagonDone ==
  step = "done" /\ method.search = "hex" /\ method.early = "off" /\ method.steps < 0 =>
    /\ Seen(Points(Around(mv, LargeHexbs))) /\ Seen(Points(Around(mv, SmallHexbs)))
    /\ best # NoVector => best \in {mv} \cup Points(Around(mv, SmallHexbs))

(* The centre of a diamond is the best, and one point may be left out.     *)
DiamondCentred ==
  step = "diamond" /\ method.early = "off" => best = mv /\ from \in 0..4

DiamondDone ==
  step = "done" /\ method.search = "dia" /\ method.early = "off" /\ method.steps < 0 =>
    /\ best \in {NoVector, mv}
    /\ \A i \in (1..4) \ {from} : Seen({Plus(mv, Diamond[i])})

StepsLeft == method \in Methods /\ (method.steps < 0 => steps = method.steps)

(* Distances double; larger ones than those of the star do not matter.     *)
Doubling == {1, 2, 4, 8, 16, 32, 64, 128}
PatternsChecked ==
  /\ step \in {"grid", "zero grid", "star"} =>
       index \in Nat /\ distance \in Nat /\ (distance \in Doubling \/ distance > 128)
  /\ step \in {"grid", "zero grid"} /\ method.early = "off" /\ index = 0 =>
       best = NoVector \/ best \in StartingPoints(method)
  /\ step = "star" =>
       /\ index = 0 => best \in {NoVector, mv}
       /\ \A d \in Distances : d < distance => Seen(Points(Around(mv, Pattern(d))))

StarDone ==
  step = "done" /\ method.search = "tz" /\ method.early = "off" /\ best # NoVector =>
    best \in StartingPoints(method) \/ \A d \in Distances : Seen(Points(Around(best, Pattern(d))))

WindowsChecked ==
  /\ step \in {"full extra", "full merge"} \/ (step = "done" /\ method.search = "full") => Seen(Window(<<0, 0>>))
  /\ step = "full merge" \/ (step = "done" /\ method.search = "full") =>
       MvInMerge(Cut(method.extra), method) \/ Seen(Window(Cut(method.extra)))
  /\ step = "full merge" =>
       /\ index \in Nat \ {0}
       /\ \A i \in 1..Len(method.merge) : i < index => Seen(Window(Cut(method.merge[i])))
  /\ step = "done" /\ method.search = "full" =>
       \A i \in 1..Len(method.merge) : Seen(Window(Cut(method.merge[i])))

MeInv == /\ StepsOfSearch /\ BestChecked /\ StartChecked /\ AtStart /\ StepsLeft
         /\ HexagonChecked /\ HexagonDone /\ DiamondCentred /\ DiamondDone
         /\ PatternsChecked /\ StarDone /\ WindowsChecked

LEMMA MeInvHolds == MeInv => SearchIsThorough
BY DEF MeInv, BestChecked, StartChecked, HexagonDone, DiamondDone, StarDone, WindowsChecked, SearchIsThorough

(* What is checked stays checked, and what is given to a check is.         *)
LEMMA Checks ==
  ASSUME BestChecked, NEW ps, NEW k \in LastBetter(ps), CheckMvCosts(ps, k)
  PROVE  /\ BestChecked'
         /\ checked \subseteq checked' /\ Points(ps) \cap Permitted \subseteq checked'
         /\ k = 0 => best' = best
         /\ k # 0 => k \in 1..Len(ps) /\ best' = ps[k] /\ best' \in Permitted
<1>1. checked' = checked \cup (Points(ps) \cap Permitted)
  BY DEF CheckMvCosts
<1>2. k = 0 => best' = best
  BY DEF CheckMvCosts
<1>3. k # 0 => k \in 1..Len(ps) /\ best' = ps[k] /\ best' \in Permitted /\ ps[k] \in Points(ps)
  BY DEF CheckMvCosts, LastBetter, Points
<1> QED BY <1>1, <1>2, <1>3 DEF BestChecked

LEMMA ChecksAll ==
  ASSUME BestChecked, NEW vs, CheckAll(vs)
  PROVE  /\ BestChecked'
         /\ checked \subseteq checked' /\ vs \cap Permitted \subseteq checked'
         /\ best' = best \/ best' \in vs \cap Permitted
BY DEF BestChecked, CheckAll

LEMMA NoVectorIsNone == NoVector \notin Vector
<1>1. \A v \in Vector : Len(v) = 2
  BY DEF Vector
<1>2. Len(NoVector) = 0
  BY DEF NoVector
<1> QED BY <1>1, <1>2

(* Two hexagons next to each other: a point of the second is the centre of *)
(* the first, one of its points, or one of the three new ones.             *)
New(i) == {LargeHexbs[NextStart(i)], LargeHexbs[NextStart(i) + 1], LargeHexbs[NextStart(i) + 2]}

LEMMA HexagonsOverlap ==
  ASSUME NEW i \in 1..8, NEW k \in 1..8
  PROVE  \/ Plus(LargeHexbs[i], LargeHexbs[k]) = <<0, 0>>
         \/ \E j \in 1..8 : Plus(LargeHexbs[i], LargeHexbs[k]) = LargeHexbs[j]
         \/ LargeHexbs[k] \in New(i)
<1>1. NextStart(i) \in 1..6
  BY DEF NextStart
<1> DEFINE H == LargeHexbs
<1>2. /\ H[1] = <<1, -2>> /\ H[2] = <<2, 0>> /\ H[3] = <<1, 2>> /\ H[4] = <<-1, 2>>
      /\ H[5] = <<-2, 0>> /\ H[6] = <<-1, -2>> /\ H[7] = <<1, -2>> /\ H[8] = <<2, 0>>
  BY DEF LargeHexbs
<1> HIDE DEF H
<1>3. CASE i \in {1, 7}
  <2>1. NextStart(i) = 6 /\ H[i] = <<1, -2>>
    BY <1>2, <1>3 DEF NextStart
  <2>2. k \in {1, 2, 6, 7, 8} => H[k] \in {H[6], H[6 + 1], H[6 + 2]}
    BY <1>2
  <2>3. k = 3 => Plus(H[i], H[k]) = H[2]
    BY <1>2, <2>1 DEF Plus
  <2>4. k = 4 => Plus(H[i], H[k]) = <<0, 0>>
    BY <1>2, <2>1 DEF Plus
  <2>5. k = 5 => Plus(H[i], H[k]) = H[6]
    BY <1>2, <2>1 DEF Plus
  <2> QED BY <2>1, <2>2, <2>3, <2>4, <2>5 DEF New, H
<1>4. CASE i \in {2, 8}
  <2>1. NextStart(i) = 1 /\ H[i] = <<2, 0>>
    BY <1>2, <1>4 DEF NextStart
  <2>2. k \in {1, 2, 3, 7, 8} => H[k] \in {H[1], H[1 + 1], H[1 + 2]}
    BY <1>2
  <2>3. k = 4 => Plus(H[i], H[k]) = H[3]
    BY <1>2, <2>1 DEF Plus
  <2>4. k = 5 => Plus(H[i], H[k]) = <<0, 0>>
    BY <1>2, <2>1 DEF Plus
  <2>5. k = 6 => Plus(H[i], H[k]) = H[1]
    BY <1>2, <2>1 DEF Plus
  <2> QED BY <2>1, <2>2, <2>3, <2>4, <2>5 DEF New, H
<1>5. CASE i = 3
  <2>1. NextStart(i) = 2 /\ H[i] = <<1, 2>>
    BY <1>2, <1>5 DEF NextStart
  <2>2. k \in {2, 3, 4, 8} => H[k] \in {H[2], H[2 + 1], H[2 + 2]}
    BY <1>2
  <2>3. k \in {1, 7} => Plus(H[i], H[k]) = H[2]
    BY <1>2, <2>1 DEF Plus
  <2>4. k = 6 => Plus(H[i], H[k]) = <<0, 0>>
    BY <1>2, <2>1 DEF Plus
  <2>5. k = 5 => Plus(H[i], H[k]) = H[4]
    BY <1>2, <2>1 DEF Plus
  <2> QED BY <2>1, <2>2, <2>3, <2>4, <2>5 DEF New, H
<1>6. CASE i = 4
  <2>1. NextStart(i) = 3 /\ H[i] = <<-1, 2>>
    BY <1>2, <1>6 DEF NextStart
  <2>2. k \in {3, 4, 5} => H[k] \in {H[3], H[3 + 1], H[3 + 2]}
    BY <1>2
  <2>3. k \in {2, 8} => Plus(H[i], H[k]) = H[3]
    BY <1>2, <2>1 DEF Plus
  <2>4. k \in {1, 7} => Plus(H[i], H[k]) = <<0, 0>>
    BY <1>2, <2>1 DEF Plus
  <2>5. k = 6 => Plus(H[i], H[k]) = H[5]
    BY <1>2, <2>1 DEF Plus
  <2> QED BY <2>1, <2>2, <2>3, <2>4, <2>5 DEF New, H
<1>7. CASE i = 5
  <2>1. NextStart(i) = 4 /\ H[i] = <<-2, 0>>
    BY <1>2, <1>7 DEF NextStart
  <2>2. k \in {4, 5, 6} => H[k] \in {H[4], H[4 + 1], H[4 + 2]}
    <3>1. 4 + 1 = 5 /\ 4 + 2 = 6
      OBVIOUS
    <3> QED BY <3>1
  <2>3. k = 3 => Plus(H[i], H[k]) = H[4]
    BY <1>2, <2>1 DEF Plus
  <2>4. k \in {2, 8} => Plus(H[i], H[k]) = <<0, 0>>
    BY <1>2, <2>1 DEF Plus
  <2>5. k \in {1, 7} => Plus(H[i], H[k]) = H[6]
    BY <1>2, <2>1 DEF Plus
  <2> QED BY <2>1, <2>2, <2>3, <2>4, <2>5 DEF New, H
<1>8. CASE i = 6
  <2>1. NextStart(i) = 5 /\ H[i] = <<-1, -2>>
    BY <1>2, <1>8 DEF NextStart
  <2>2. k \in {1, 5, 6, 7} => H[k] \in {H[5], H[5 + 1], H[5 + 2]}
    BY <1>2
  <2>3. k = 4 => Plus(H[i], H[k]) = H[5]
    BY <1>2, <2>1 DEF Plus
  <2>4. k = 3 => Plus(H[i], H[k]) = <<0, 0>>
    BY <1>2, <2>1 DEF Plus
  <2>5. k \in {2, 8} => Plus(H[i], H[k]) = H[1]
    BY <1>2, <2>1 DEF Plus
  <2> QED BY <2>1, <2>2, <2>3, <2>4, <2>5 DEF New, H
<1> QED BY <1>3, <1>4, <1>5, <1>6, <1>7, <1>8

LEMMA MeInitInv == MeInit => MeInv
<1> SUFFICES ASSUME MeInit PROVE MeInv
  OBVIOUS
<1>1. step = "start" /\ method \in Methods /\ steps = method.steps /\ best = NoVector /\ checked = {}
  BY DEF MeInit
<1> QED BY <1>1 DEF MeInv, StepsOfSearch, BestChecked, StartChecked, AtStart, StepsLeft,
                    HexagonChecked, HexagonDone, DiamondCentred, DiamondDone, PatternsChecked, StarDone, WindowsChecked

LEMMA SearchNextPuInv ==
  ASSUME MeInv, SearchNextPu
  PROVE  MeInv'
<1>1. /\ step' = "start" /\ method' \in Methods /\ steps' = method'.steps /\ best' = NoVector
      /\ checked' = {}
  BY DEF SearchNextPu
<1> QED BY <1>1 DEF MeInv, StepsOfSearch, BestChecked, StartChecked, AtStart, StepsLeft,
                    HexagonChecked, HexagonDone, DiamondCentred, DiamondDone, PatternsChecked, StarDone, WindowsChecked

LEMMA SelectStartingPointInv ==
  ASSUME MeInv, SelectStartingPoint
  PROVE  MeInv'
<1>1. /\ method' = method /\ method.search # "full" /\ CheckAll(StartingPoints(method)) /\ steps' = steps
      /\ step' = IF method.early # "off" THEN "early" ELSE "pattern"
      /\ mv' = IF best' = NoVector THEN <<0, 0>> ELSE best'
      /\ step = "start"
  BY DEF SelectStartingPoint, Goto
<1>2. BestChecked' /\ StartingPoints(method) \cap Permitted \subseteq checked'
      /\ (best' = best \/ best' \in StartingPoints(method))
  BY <1>1, ChecksAll DEF MeInv
<1>3. StartChecked'
  BY <1>1, <1>2 DEF StartChecked, Seen
<1>4. AtStart'
  BY <1>1, <1>2 DEF MeInv, AtStart, Centre
<1>5. StepsOfSearch' /\ StepsLeft'
  BY <1>1 DEF MeInv, StepsOfSearch, StepsLeft
<1>6. HexagonChecked' /\ HexagonDone' /\ DiamondCentred' /\ DiamondDone' /\ PatternsChecked' /\ StarDone' /\ WindowsChecked'
  BY <1>1 DEF HexagonChecked, HexagonDone, DiamondCentred, DiamondDone, PatternsChecked, StarDone, WindowsChecked
<1> QED BY <1>2, <1>3, <1>4, <1>5, <1>6 DEF MeInv

LEMMA EarlyTerminateInv ==
  ASSUME MeInv, EarlyTerminate
  PROVE  MeInv'
<1>1. /\ method' = method /\ steps' = steps /\ step \in {"early", "early again"}
      /\ step' \in {"done", "early again", "pattern"}
  BY DEF EarlyTerminate, Goto
<1>2. \E ps : \E k \in LastBetter(ps) : CheckMvCosts(ps, k)
  BY DEF EarlyTerminate
<1>3. BestChecked' /\ checked \subseteq checked'
  BY <1>2, Checks DEF MeInv
<1>4. method.early # "off" /\ method.search # "full"
  BY <1>1 DEF MeInv, StepsOfSearch
<1>5. StartChecked'
  BY <1>1, <1>3, <1>4 DEF MeInv, StartChecked, Seen
<1>6. StepsOfSearch' /\ StepsLeft' /\ AtStart'
  BY <1>1, <1>4 DEF MeInv, StepsOfSearch, StepsLeft, AtStart
<1>7. HexagonChecked' /\ HexagonDone' /\ DiamondCentred' /\ DiamondDone' /\ PatternsChecked' /\ StarDone' /\ WindowsChecked'
  BY <1>1, <1>4 DEF HexagonChecked, HexagonDone, DiamondCentred, DiamondDone, PatternsChecked, StarDone, WindowsChecked
<1> QED BY <1>3, <1>5, <1>6, <1>7 DEF MeInv

(* The hexagon.                                                            *)
LEMMA AroundPoints ==
  ASSUME NEW v, NEW k \in 1..8
  PROVE  /\ Len(Around(v, LargeHexbs)) = 8 /\ Len(LargeHexbs) = 8
         /\ Around(v, LargeHexbs)[k] = Plus(v, LargeHexbs[k])
         /\ LargeHexbs[k] \in Vector
         /\ LargeHexbs[7] = LargeHexbs[1] /\ LargeHexbs[8] = LargeHexbs[2]
<1>1. Len(LargeHexbs) = 8
  BY DEF LargeHexbs
<1>2. Around(v, LargeHexbs) = [i \in 1..8 |-> Plus(v, LargeHexbs[i])]
  BY <1>1 DEF Around
<1>3. LargeHexbs[k] \in Vector /\ LargeHexbs[7] = LargeHexbs[1] /\ LargeHexbs[8] = LargeHexbs[2]
  BY DEF LargeHexbs, Vector
<1> QED BY <1>1, <1>2, <1>3

LEMMA CentreKnown ==
  ASSUME MeInv, step = "pattern", method.early = "off"
  PROVE  /\ mv \in Vector /\ mv = Centre
         /\ mv \in Permitted => mv \in checked
         /\ best = NoVector \/ best = mv
<1>1. mv = Centre
  BY DEF MeInv, AtStart
<1>2. CASE best = NoVector
  <2>1. mv = <<0, 0>>
    BY <1>1, <1>2 DEF Centre
  <2>2. <<0, 0>> \in StartingPoints(method) /\ <<0, 0>> \in Vector
    BY DEF StartingPoints, Vector
  <2>3. Seen(StartingPoints(method))
    BY DEF MeInv, StartChecked, StepsOfSearch
  <2> QED BY <1>1, <1>2, <2>1, <2>2, <2>3 DEF Seen
<1>3. CASE best # NoVector
  <2>1. mv = best
    BY <1>1, <1>3 DEF Centre
  <2>2. best \in checked /\ best \in Vector
    BY <1>3, PermittedVectors DEF MeInv, BestChecked, Vector
  <2> QED BY <1>1, <2>1, <2>2
<1> QED BY <1>2, <1>3

LEMMA SearchHexagonInv ==
  ASSUME MeInv, SearchHexagon
  PROVE  MeInv'
<1> DEFINE ps == Around(mv, SubSeq(LargeHexbs, 1, 6))
<1>1. /\ method' = method /\ steps' = steps /\ mv' = mv /\ step = "pattern" /\ step' = "hexagon"
      /\ method.search = "hex"
  BY DEF SearchHexagon, Goto
<1>2. PICK k \in LastBetter(ps) : CheckMvCosts(ps, k) /\ index' = k
  BY DEF SearchHexagon
<1>3. Len(ps) = 6 /\ \A i \in 1..6 : ps[i] = Plus(mv, LargeHexbs[i])
  <2>1. Len(SubSeq(LargeHexbs, 1, 6)) = 6 /\ \A i \in 1..6 : SubSeq(LargeHexbs, 1, 6)[i] = LargeHexbs[i]
    BY DEF LargeHexbs
  <2> QED BY <2>1 DEF Around
<1> HIDE DEF ps
<1>4. /\ BestChecked' /\ checked \subseteq checked' /\ Points(ps) \cap Permitted \subseteq checked'
      /\ k = 0 => best' = best
      /\ k # 0 => k \in 1..6 /\ best' = ps[k]
  BY <1>2, <1>3, Checks DEF MeInv
<1>5. StartChecked'
  BY <1>1, <1>4 DEF MeInv, StartChecked, Seen
<1>6. HexagonChecked'
  <2> SUFFICES ASSUME method.early = "off"
               PROVE  /\ k \in 0..8 /\ mv \in Vector /\ (mv \in Permitted => mv \in checked')
                      /\ Points(Around(mv, LargeHexbs)) \cap Permitted \subseteq checked'
                      /\ k = 0 => best' \in {NoVector, mv}
                      /\ k # 0 => best' = Plus(mv, LargeHexbs[k])
    BY <1>1, <1>2 DEF HexagonChecked, Seen
  <2>1. mv \in Vector /\ (mv \in Permitted => mv \in checked) /\ (best = NoVector \/ best = mv)
    BY <1>1, CentreKnown
  <2>2. Points(Around(mv, LargeHexbs)) \subseteq Points(ps)
    <3>1. \A i \in 1..6 : Plus(mv, LargeHexbs[i]) \in Points(ps)
      BY <1>3 DEF Points
    <3>2. \A i \in 1..8 : Plus(mv, LargeHexbs[i]) \in Points(ps)
      <4>1. LargeHexbs[7] = LargeHexbs[1] /\ LargeHexbs[8] = LargeHexbs[2]
        BY DEF LargeHexbs
      <4>2. Plus(mv, LargeHexbs[7]) \in Points(ps) /\ Plus(mv, LargeHexbs[8]) \in Points(ps)
        BY <3>1, <4>1
      <4> SUFFICES ASSUME NEW i \in 1..8 PROVE Plus(mv, LargeHexbs[i]) \in Points(ps)
        OBVIOUS
      <4>3. i \in 1..6 \/ i = 7 \/ i = 8
        OBVIOUS
      <4>4. CASE i \in 1..6
        BY <3>1, <4>4
      <4> QED BY <4>2, <4>3, <4>4
    <3>3. \A p \in Points(Around(mv, LargeHexbs)) : \E i \in 1..8 : p = Plus(mv, LargeHexbs[i])
      BY AroundPoints DEF Points
    <3> QED BY <3>2, <3>3
  <2>3. k \in 0..8
    BY <1>4
  <2> QED BY <1>3, <1>4, <2>1, <2>2, <2>3
<1>7. StepsOfSearch' /\ StepsLeft' /\ AtStart'
  BY <1>1 DEF MeInv, StepsOfSearch, StepsLeft, AtStart
<1>8. HexagonDone' /\ DiamondCentred' /\ DiamondDone' /\ PatternsChecked' /\ StarDone' /\ WindowsChecked'
  BY <1>1 DEF HexagonDone, DiamondCentred, DiamondDone, PatternsChecked, StarDone, WindowsChecked
<1> QED BY <1>4, <1>5, <1>6, <1>7, <1>8 DEF MeInv

LEMMA MoveHexagonInv ==
  ASSUME MeInv, MoveHexagon
  PROVE  MeInv'
<1> DEFINE start == NextStart(index)
           ps == Around(mv', [i \in 1..3 |-> IF start + i - 1 \in DOMAIN LargeHexbs THEN LargeHexbs[start + i - 1] ELSE <<0, 0>>])
<1>1. /\ method' = method /\ step = "hexagon" /\ step' = step /\ index # 0
      /\ mv' = Plus(mv, LargeHexbs[index])
      /\ steps' = IF steps > 0 THEN steps - 1 ELSE steps
  BY DEF MoveHexagon
<1>2. PICK k \in LastBetter(ps) : CheckMvCosts(ps, k) /\ index' = IF k = 0 THEN 0 ELSE start + k - 1
  BY DEF MoveHexagon
<1>3. /\ BestChecked' /\ checked \subseteq checked' /\ Points(ps) \cap Permitted \subseteq checked'
      /\ k = 0 => best' = best
      /\ k # 0 => k \in 1..Len(ps) /\ best' = ps[k]
  BY <1>2, Checks DEF MeInv
<1>4. StepsOfSearch' /\ StepsLeft' /\ AtStart'
  <2>1. StepsOfSearch' /\ AtStart'
    BY <1>1 DEF MeInv, StepsOfSearch, AtStart
  <2>2. method \in Methods /\ method.steps \in Int /\ (method.steps < 0 => steps = method.steps)
    BY StepsOfMethods DEF MeInv, StepsLeft
  <2> QED BY <1>1, <2>1, <2>2 DEF StepsLeft
<1>5. StartChecked'
  BY <1>1, <1>3 DEF MeInv, StartChecked, Seen
<1>6. HexagonDone' /\ DiamondCentred' /\ DiamondDone' /\ PatternsChecked' /\ StarDone' /\ WindowsChecked'
  BY <1>1 DEF HexagonDone, DiamondCentred, DiamondDone, PatternsChecked, StarDone, WindowsChecked
<1>7. HexagonChecked'
  <2> SUFFICES ASSUME method.early = "off"
               PROVE  /\ index' \in 0..8 /\ mv' \in Vector /\ (mv' \in Permitted => mv' \in checked')
                      /\ Points(Around(mv', LargeHexbs)) \cap Permitted \subseteq checked'
                      /\ index' = 0 => best' \in {NoVector, mv'}
                      /\ index' # 0 => best' = Plus(mv', LargeHexbs[index'])
    BY <1>1 DEF HexagonChecked, Seen
  <2>1. /\ index \in 1..8 /\ mv \in Vector /\ (mv \in Permitted => mv \in checked)
        /\ Points(Around(mv, LargeHexbs)) \cap Permitted \subseteq checked
        /\ best = mv'
    BY <1>1 DEF MeInv, HexagonChecked, Seen
  <2>2. start \in 1..6
    BY <2>1 DEF NextStart
  <2>3. Len(ps) = 3 /\ \A i \in 1..3 : ps[i] = Plus(mv', LargeHexbs[start + i - 1])
    <3>1. DOMAIN LargeHexbs = 1..8
      BY DEF LargeHexbs
    <3>2. \A i \in 1..3 : start + i - 1 \in DOMAIN LargeHexbs
      BY <2>2, <3>1
    <3> HIDE DEF start
    <3> DEFINE qs == [i \in 1..3 |-> IF start + i - 1 \in DOMAIN LargeHexbs THEN LargeHexbs[start + i - 1] ELSE <<0, 0>>]
    <3>3. \A i \in 1..3 : qs[i] = LargeHexbs[start + i - 1]
      BY <3>2
    <3>4. Len(qs) = 3
      OBVIOUS
    <3> HIDE DEF qs
    <3>5. Around(mv', qs) = [i \in 1..3 |-> Plus(mv', qs[i])]
      BY <3>4 DEF Around
    <3> QED BY <3>3, <3>5 DEF qs
  <2> HIDE DEF ps
  <2>4. mv' \in Vector /\ best \in checked
    <3>1. LargeHexbs[index] \in Vector
      BY <2>1, AroundPoints
    <3>2. mv' \in Vector
      BY <1>1, <2>1, <3>1 DEF Plus, Vector
    <3> QED BY <2>1, <3>2, NoVectorIsNone DEF MeInv, BestChecked
  <2>5. \A i \in 1..8 : Plus(mv', LargeHexbs[i]) \in {mv} \cup Points(Around(mv, LargeHexbs)) \cup Points(ps)
    <3> SUFFICES ASSUME NEW i \in 1..8
                 PROVE  Plus(mv', LargeHexbs[i]) \in {mv} \cup Points(Around(mv, LargeHexbs)) \cup Points(ps)
      OBVIOUS
    <3>1. Plus(mv', LargeHexbs[i]) = Plus(mv, Plus(LargeHexbs[index], LargeHexbs[i]))
      <4>1. LargeHexbs[index] \in Vector /\ LargeHexbs[i] \in Vector
        BY <2>1, AroundPoints
      <4> QED BY <1>1, <2>1, <4>1 DEF Plus, Vector
    <3>2. CASE Plus(LargeHexbs[index], LargeHexbs[i]) = <<0, 0>>
      BY <2>1, <3>1, <3>2 DEF Plus, Vector
    <3>3. CASE \E j \in 1..8 : Plus(LargeHexbs[index], LargeHexbs[i]) = LargeHexbs[j]
      BY <3>1, <3>3, AroundPoints DEF Points
    <3>4. CASE LargeHexbs[i] \in New(index)
      <4>1. PICK j \in 1..3 : LargeHexbs[i] = LargeHexbs[start + j - 1]
        <5>1. start + 1 - 1 = start /\ start + 2 - 1 = start + 1 /\ start + 3 - 1 = start + 2
          BY <2>2
        <5>2. LargeHexbs[i] \in {LargeHexbs[start], LargeHexbs[start + 1], LargeHexbs[start + 2]}
          BY <3>4 DEF New
        <5> QED BY <5>1, <5>2
      <4> QED BY <2>3, <4>1 DEF Points
    <3> QED BY <2>1, <3>2, <3>3, <3>4, HexagonsOverlap
  <2>6. Points(Around(mv', LargeHexbs)) \cap Permitted \subseteq checked'
    <3>1. \A p \in Points(Around(mv', LargeHexbs)) : \E i \in 1..8 : p = Plus(mv', LargeHexbs[i])
      BY AroundPoints DEF Points
    <3> QED BY <1>3, <2>1, <2>5, <3>1
  <2>7. index' \in 0..8 /\ (k = 0 <=> index' = 0)
    BY <1>2, <1>3, <2>2, <2>3
  <2>8. index' # 0 => best' = Plus(mv', LargeHexbs[index'])
    BY <1>2, <1>3, <2>3, <2>7
  <2> QED BY <1>3, <2>1, <2>4, <2>6, <2>7, <2>8
<1> QED BY <1>3, <1>4, <1>5, <1>6, <1>7 DEF MeInv

LEMMA SearchInsideHexagonInv ==
  ASSUME MeInv, SearchInsideHexagon
  PROVE  MeInv'
<1> DEFINE ps == Around(mv, SmallHexbs)
<1>1. /\ method' = method /\ steps' = steps /\ mv' = mv /\ step = "hexagon" /\ step' = "done"
      /\ index = 0 \/ steps = 0
  BY DEF SearchInsideHexagon, Goto
<1>2. PICK k \in LastBetter(ps) : CheckMvCosts(ps, k)
  BY DEF SearchInsideHexagon
<1>3. /\ BestChecked' /\ checked \subseteq checked' /\ Points(ps) \cap Permitted \subseteq checked'
      /\ k = 0 => best' = best
      /\ k # 0 => k \in 1..Len(ps) /\ best' = ps[k]
  BY <1>2, Checks DEF MeInv
<1>4. method.search = "hex"
  BY <1>1 DEF MeInv, StepsOfSearch
<1>5. StepsOfSearch' /\ StepsLeft' /\ AtStart'
  BY <1>1 DEF MeInv, StepsOfSearch, StepsLeft, AtStart
<1>6. StartChecked'
  BY <1>1, <1>3 DEF MeInv, StartChecked, Seen
<1>7. HexagonDone'
  <2> SUFFICES ASSUME method.early = "off", method.steps < 0
               PROVE  /\ Points(Around(mv, LargeHexbs)) \cap Permitted \subseteq checked'
                      /\ Points(ps) \cap Permitted \subseteq checked'
                      /\ best' # NoVector => best' \in {mv} \cup Points(ps)
    BY <1>1 DEF HexagonDone, Seen
  <2>1. index = 0
    BY <1>1, StepsOfMethods DEF MeInv, StepsLeft
  <2>2. Points(Around(mv, LargeHexbs)) \cap Permitted \subseteq checked /\ best \in {NoVector, mv}
    BY <1>1, <2>1 DEF MeInv, HexagonChecked, Seen
  <2> HIDE DEF ps
  <2>3. k # 0 => best' \in Points(ps)
    BY <1>3 DEF Points
  <2> QED BY <1>3, <2>2, <2>3
<1>8. HexagonChecked' /\ DiamondCentred' /\ DiamondDone' /\ PatternsChecked' /\ StarDone' /\ WindowsChecked'
  BY <1>1, <1>4 DEF HexagonChecked, DiamondCentred, DiamondDone, PatternsChecked, StarDone, WindowsChecked
<1> QED BY <1>3, <1>5, <1>6, <1>7, <1>8 DEF MeInv

(* The diamond.  A step leaves out at most the point named by from; all    *)
(* others are compared, and if none of them is better the centre stays the *)
(* best.                                                                   *)
LEMMA SearchDiamondInv ==
  ASSUME MeInv, SearchDiamond
  PROVE  MeInv'
<1> DEFINE ps == Around(mv, Diamond)
<1>1. /\ method' = method /\ steps' = steps /\ step = "pattern" /\ method.search = "dia" /\ from' = 0
  BY DEF SearchDiamond
<1>2. PICK k \in LastBetter(ps) :
        /\ CheckMvCosts(ps, k)
        /\ IF k = 0 THEN step' = "done" /\ mv' = mv ELSE step' = "diamond" /\ mv' = ps[k]
  BY DEF SearchDiamond, Goto
<1>3. /\ BestChecked' /\ checked \subseteq checked' /\ Points(ps) \cap Permitted \subseteq checked'
      /\ k = 0 => best' = best
      /\ k # 0 => best' = ps[k]
  BY <1>2, Checks DEF MeInv
<1>4. \A i \in 1..4 : Plus(mv, Diamond[i]) \in Points(ps)
  <2>1. Len(Diamond) = 4
    BY DEF Diamond
  <2>2. Len(ps) = 4 /\ \A i \in 1..4 : ps[i] = Plus(mv, Diamond[i])
    BY <2>1 DEF Around
  <2> HIDE DEF ps
  <2> QED BY <2>2 DEF Points
<1> HIDE DEF ps
<1>5. step' \in {"done", "diamond"}
  BY <1>2
<1>6. DiamondCentred'
  <2>1. step' = "diamond" => k # 0
    BY <1>2
  <2> QED BY <1>1, <1>2, <1>3, <2>1 DEF DiamondCentred
<1>7. DiamondDone'
  <2> SUFFICES ASSUME step' = "done", method.early = "off"
               PROVE  /\ best' \in {NoVector, mv'}
                      /\ \A i \in 1..4 : {Plus(mv', Diamond[i])} \cap Permitted \subseteq checked'
    BY <1>1 DEF DiamondDone, Seen
  <2>1. k = 0 /\ mv' = mv /\ best' = best
    BY <1>2, <1>3
  <2>2. best = NoVector \/ best = mv
    BY <1>1, CentreKnown
  <2> QED BY <1>3, <1>4, <2>1, <2>2
<1>8. StartChecked'
  BY <1>1, <1>3 DEF MeInv, StartChecked, Seen
<1>9. StepsOfSearch' /\ StepsLeft' /\ AtStart'
  BY <1>1, <1>5 DEF MeInv, StepsOfSearch, StepsLeft, AtStart
<1>10. HexagonChecked' /\ HexagonDone' /\ PatternsChecked' /\ StarDone' /\ WindowsChecked'
  BY <1>1, <1>5 DEF HexagonChecked, HexagonDone, PatternsChecked, StarDone, WindowsChecked
<1> QED BY <1>3, <1>6, <1>7, <1>8, <1>9, <1>10 DEF MeInv

LEMMA MoveDiamondInv ==
  ASSUME MeInv, MoveDiamond
  PROVE  MeInv'
<1> DEFINE others == IF from = 0 THEN <<1, 2, 3, 4>>
                     ELSE [i \in 1..3 |-> IF i < from THEN i ELSE i + 1]
           ps == [i \in 1..Len(others) |-> Plus(mv, Diamond[others[i]])]
<1>1. method' = method /\ step = "diamond"
  BY DEF MoveDiamond
<1>2. PICK k \in LastBetter(ps) :
        /\ CheckMvCosts(ps, k)
        /\ steps' = IF steps > 0 THEN steps - 1 ELSE steps
        /\ IF k = 0 THEN step' = "done" /\ mv' = mv /\ from' = from
           ELSE /\ mv' = ps[k] /\ from' = FromDir(others[k] - 1) + 1
                /\ step' = IF steps' # 0 THEN "diamond" ELSE "done"
  BY DEF MoveDiamond, Goto
<1>3. /\ BestChecked' /\ checked \subseteq checked' /\ Points(ps) \cap Permitted \subseteq checked'
      /\ k = 0 => best' = best
      /\ k # 0 => k \in 1..Len(ps) /\ best' = ps[k]
  BY <1>2, Checks DEF MeInv
<1>4. from \in 0..4 => /\ Len(others) \in {3, 4}
                       /\ \A i \in 1..Len(others) : others[i] \in 1..4
                       /\ \A j \in (1..4) \ {from} : \E i \in 1..Len(others) : others[i] = j
  <2>1. CASE from = 0
    <3>1. others = <<1, 2, 3, 4>>
      BY <2>1
    <3>2. Len(others) = 4 /\ others[1] = 1 /\ others[2] = 2 /\ others[3] = 3 /\ others[4] = 4
      BY <3>1
    <3> HIDE DEF others
    <3>3. \A i \in 1..4 : others[i] = i
      BY <3>2
    <3> QED BY <3>2, <3>3
  <2>2. CASE from \in 1..4
    <3>1. others = [i \in 1..3 |-> IF i < from THEN i ELSE i + 1]
      BY <2>2
    <3> HIDE DEF others
    <3>2. Len(others) = 3 /\ \A i \in 1..3 : others[i] = IF i < from THEN i ELSE i + 1
      BY <3>1
    <3>3. \A i \in 1..3 : others[i] \in 1..4
      BY <2>2, <3>2
    <3>4. ASSUME NEW j \in (1..4) \ {from} PROVE \E i \in 1..3 : others[i] = j
      <4>1. CASE j < from
        <5>1. j \in 1..3
          BY <2>2, <4>1
        <5> QED BY <3>2, <4>1, <5>1
      <4>2. CASE j > from
        <5>1. j - 1 \in 1..3 /\ ~(j - 1 < from) /\ (j - 1) + 1 = j
          BY <2>2, <4>2
        <5> QED BY <3>2, <5>1
      <4> QED BY <2>2, <4>1, <4>2
    <3> QED BY <3>2, <3>3, <3>4
  <2> QED BY <2>1, <2>2
<1> HIDE DEF others
<1>5. Len(others) \in Nat => /\ Len(ps) = Len(others)
                             /\ \A i \in 1..Len(others) : ps[i] = Plus(mv, Diamond[others[i]])
  OBVIOUS
<1> HIDE DEF ps
<1>6. step' \in {"done", "diamond"} /\ (steps' = steps \/ (steps > 0 /\ steps' = steps - 1))
  BY <1>2
<1>7. method.search = "dia"
  BY <1>1 DEF MeInv, StepsOfSearch
<1>8. method.early = "off" => best = mv /\ from \in 0..4
  BY <1>1 DEF MeInv, DiamondCentred
<1>9. method \in Methods /\ method.steps \in Int /\ (method.steps < 0 => steps = method.steps)
  BY StepsOfMethods DEF MeInv, StepsLeft
<1>10. DiamondCentred'
  <2> SUFFICES ASSUME step' = "diamond", method.early = "off"
               PROVE  best' = mv' /\ from' \in 0..4
    BY <1>1 DEF DiamondCentred
  <2>1. k # 0 /\ mv' = ps[k] /\ from' = FromDir(others[k] - 1) + 1
    BY <1>2
  <2>2. others[k] \in 1..4
    BY <1>3, <1>4, <1>5, <1>8, <2>1
  <2>3. from' \in 0..4
    BY <2>1, <2>2 DEF FromDir
  <2> QED BY <1>3, <2>1, <2>3
<1>11. DiamondDone'
  <2> SUFFICES ASSUME step' = "done", method.early = "off", method.steps < 0
               PROVE  /\ best' \in {NoVector, mv'}
                      /\ \A j \in (1..4) \ {from'} : {Plus(mv', Diamond[j])} \cap Permitted \subseteq checked'
    BY <1>1 DEF DiamondDone, Seen
  <2>1. steps' # 0
    BY <1>2, <1>9
  <2>2. k = 0 /\ mv' = mv /\ from' = from
    BY <1>2, <2>1
  <2>3. best' = mv'
    BY <1>3, <1>8, <2>2
  <2>4. ASSUME NEW j \in (1..4) \ {from} PROVE Plus(mv, Diamond[j]) \in Points(ps)
    <3>1. PICK i \in 1..Len(others) : others[i] = j
      BY <1>4, <1>8
    <3>2. Len(others) \in Nat
      BY <1>4, <1>8
    <3> QED BY <1>5, <3>1, <3>2 DEF Points
  <2> QED BY <1>3, <2>2, <2>3, <2>4
<1>12. StartChecked'
  BY <1>1, <1>3, <1>7 DEF MeInv, StartChecked, Seen
<1>13. StepsOfSearch' /\ StepsLeft' /\ AtStart'
  <2>1. StepsOfSearch'
    BY <1>1, <1>6, <1>7 DEF MeInv, StepsOfSearch
  <2>2. StepsLeft'
    BY <1>1, <1>6, <1>9 DEF StepsLeft
  <2>3. AtStart'
    BY <1>6 DEF AtStart
  <2> QED BY <2>1, <2>2, <2>3
<1>14. HexagonChecked' /\ HexagonDone' /\ PatternsChecked' /\ StarDone' /\ WindowsChecked'
  BY <1>1, <1>6, <1>7 DEF HexagonChecked, HexagonDone, PatternsChecked, StarDone, WindowsChecked
<1> QED BY <1>3, <1>10, <1>11, <1>12, <1>13, <1>14 DEF MeInv

(* The TZ search.                                                          *)
LEMMA StartTzInv ==
  ASSUME MeInv, StartTz
  PROVE  MeInv'
<1>1. /\ method' = method /\ steps' = steps /\ step = "pattern" /\ method.search = "tz" /\ step' = "grid"
      /\ index' = 0 /\ distance' = 1 /\ best' = best /\ checked' = checked
  BY DEF StartTz, Goto
<1>2. StepsOfSearch' /\ StepsLeft' /\ AtStart' /\ BestChecked' /\ StartChecked'
  BY <1>1 DEF MeInv, StepsOfSearch, StepsLeft, AtStart, BestChecked, StartChecked, Seen
<1>3. PatternsChecked'
  BY <1>1 DEF MeInv, AtStart, PatternsChecked, Doubling
<1>4. HexagonChecked' /\ HexagonDone' /\ DiamondCentred' /\ DiamondDone' /\ StarDone' /\ WindowsChecked'
  BY <1>1 DEF HexagonChecked, HexagonDone, DiamondCentred, DiamondDone, StarDone, WindowsChecked
<1> QED BY <1>2, <1>3, <1>4 DEF MeInv

(* Between a distance and its double there is no other one.                *)
LEMMA NextDistance ==
  ASSUME NEW n \in Nat, n \in Doubling \/ n > 128
  PROVE  /\ 2 * n \in Nat /\ (2 * n \in Doubling \/ 2 * n > 128) /\ n # 0
         /\ \A d \in Distances : d < 2 * n => d < n \/ d = n
<1>1. CASE n \in Doubling
  BY <1>1 DEF Doubling, Distances
<1>2. CASE n > 128
  BY <1>2 DEF Distances
<1> QED BY <1>1, <1>2

LEMMA SearchPatternInv ==
  ASSUME MeInv, SearchPattern
  PROVE  MeInv'
<1> DEFINE ps == Around(mv, Pattern(distance))
<1>1. /\ method' = method /\ steps' = steps /\ mv' = mv /\ step' = step
      /\ step \in {"grid", "zero grid", "star"} /\ distance' = 2 * distance
  BY DEF SearchPattern
<1>2. PICK k \in LastBetter(ps) : CheckMvCosts(ps, k) /\ index' = IF k = 0 THEN index ELSE distance
  BY DEF SearchPattern
<1>3. /\ BestChecked' /\ checked \subseteq checked' /\ Points(ps) \cap Permitted \subseteq checked'
      /\ k = 0 => best' = best
  BY <1>2, Checks DEF MeInv
<1>4. StepsOfSearch' /\ StepsLeft' /\ AtStart'
  BY <1>1 DEF MeInv, StepsOfSearch, StepsLeft, AtStart
<1>5. StartChecked'
  BY <1>1, <1>3 DEF MeInv, StartChecked, Seen
<1>6. PatternsChecked'
  <2>1. /\ index \in Nat /\ distance \in Nat /\ (distance \in Doubling \/ distance > 128)
        /\ step \in {"grid", "zero grid"} /\ method.early = "off" /\ index = 0 =>
             best = NoVector \/ best \in StartingPoints(method)
        /\ step = "star" /\ index = 0 => best \in {NoVector, mv}
        /\ step = "star" => \A d \in Distances : d < distance => Seen(Points(Around(mv, Pattern(d))))
    BY <1>1 DEF MeInv, PatternsChecked
  <2>2. /\ distance' \in Nat /\ (distance' \in Doubling \/ distance' > 128)
        /\ \A d \in Distances : d < distance' => d < distance \/ d = distance
        /\ distance # 0
    BY <1>1, <2>1, NextDistance
  <2>3. index' \in Nat /\ (index' = 0 => index = 0 /\ best' = best)
    BY <1>2, <1>3, <2>1, <2>2
  <2>4. step = "star" => \A d \in Distances : d < distance' => Points(Around(mv, Pattern(d))) \cap Permitted \subseteq checked'
    BY <1>3, <2>1, <2>2 DEF Seen
  <2> HIDE DEF ps
  <2> QED BY <1>1, <2>1, <2>2, <2>3, <2>4 DEF PatternsChecked, Seen
<1>7. HexagonChecked' /\ HexagonDone' /\ DiamondCentred' /\ DiamondDone' /\ StarDone' /\ WindowsChecked'
  BY <1>1 DEF HexagonChecked, HexagonDone, DiamondCentred, DiamondDone, StarDone, WindowsChecked
<1> QED BY <1>3, <1>4, <1>5, <1>6, <1>7 DEF MeInv

LEMMA EndPatternInv ==
  ASSUME MeInv, EndPattern
  PROVE  MeInv'
<1>1. /\ method' = method /\ steps' = steps /\ best' = best /\ checked' = checked /\ distance' = 1
      /\ step \in {"grid", "zero grid", "star"} /\ method.search = "tz"
      /\ step' \in {"zero grid", "star", "done"}
  BY DEF EndPattern, Goto, MeInv, StepsOfSearch
<1>2. /\ step' = "zero grid" => step = "grid" /\ index' = index
      /\ step' = "star" => mv' = Centre /\ index' = 0
      /\ step' = "done" => mv' = mv /\ ~(index > 0) /\ index' = index /\ (step = "star" => distance > SearchRange)
  <2>1. CASE step = "grid" /\ mv # <<0, 0>>
    BY <1>1, <2>1 DEF EndPattern, Goto
  <2>2. CASE ~(step = "grid" /\ mv # <<0, 0>>) /\ index > 0
    BY <1>1, <2>2 DEF EndPattern, Goto
  <2>3. CASE ~(step = "grid" /\ mv # <<0, 0>>) /\ ~(index > 0)
    BY <1>1, <2>3 DEF EndPattern, Goto
  <2> QED BY <2>1, <2>2, <2>3
<1>3. StepsOfSearch' /\ StepsLeft' /\ AtStart' /\ BestChecked' /\ StartChecked'
  BY <1>1 DEF MeInv, StepsOfSearch, StepsLeft, AtStart, BestChecked, StartChecked, Seen
<1>4. /\ index \in Nat /\ distance \in Nat
      /\ step \in {"grid", "zero grid"} /\ method.early = "off" /\ index = 0 =>
           best = NoVector \/ best \in StartingPoints(method)
      /\ step = "star" /\ index = 0 => best \in {NoVector, mv}
      /\ step = "star" => \A d \in Distances : d < distance => Seen(Points(Around(mv, Pattern(d))))
  BY <1>1 DEF MeInv, PatternsChecked
<1>5. PatternsChecked'
  <2>1. step' = "star" => best' \in {NoVector, mv'}
    BY <1>1, <1>2 DEF Centre
  <2>2. \A d \in Distances : ~(d < 1)
    BY DEF Distances
  <2>3. index' \in Nat /\ distance' \in Nat /\ distance' \in Doubling
    <3>1. index' = index \/ index' = 0
      BY <1>1, <1>2
    <3>2. index \in Nat
      BY <1>4
    <3>3. distance' = 1
      BY <1>1
    <3>4. distance' \in Nat /\ distance' \in Doubling
      BY <3>3 DEF Doubling
    <3> QED BY <3>1, <3>2, <3>4
  <2> QED BY <1>1, <1>2, <1>4, <2>1, <2>2, <2>3 DEF PatternsChecked
<1>6. StarDone'
  <2> SUFFICES ASSUME step' = "done", method.early = "off", best # NoVector
               PROVE  \/ best \in StartingPoints(method)
                      \/ \A d \in Distances : Seen(Points(Around(best, Pattern(d))))
    BY <1>1 DEF StarDone, Seen
  <2>1. index = 0
    <3>1. index \in Nat
      BY <1>4
    <3>2. ~(index > 0)
      BY <1>2
    <3> QED BY <3>1, <3>2
  <2>2. CASE step = "star"
    <3>1. \A d \in Distances : d < distance
      BY <1>2, <1>4, <2>2, RangeNat DEF Distances
    <3> QED BY <1>4, <2>1, <2>2, <3>1
  <2> QED BY <1>1, <1>4, <2>1, <2>2
<1>7. HexagonChecked' /\ HexagonDone' /\ DiamondCentred' /\ DiamondDone' /\ WindowsChecked'
  BY <1>1 DEF HexagonChecked, HexagonDone, DiamondCentred, DiamondDone, WindowsChecked
<1> QED BY <1>3, <1>5, <1>6, <1>7 DEF MeInv

(* The full search.                                                        *)
LEMMA SearchMvFullInv ==
  ASSUME MeInv, SearchMvFull
  PROVE  MeInv'
<1>1. /\ method' = method /\ steps' = steps /\ step = "start" /\ method.search = "full"
      /\ step' = "full extra" /\ CheckAll(Window(<<0, 0>>))
  BY DEF SearchMvFull, Goto
<1>2. BestChecked' /\ Window(<<0, 0>>) \cap Permitted \subseteq checked'
  BY <1>1, ChecksAll DEF MeInv
<1>3. StepsOfSearch' /\ StepsLeft' /\ AtStart' /\ StartChecked'
  BY <1>1 DEF MeInv, StepsOfSearch, StepsLeft, AtStart, StartChecked
<1>4. WindowsChecked'
  BY <1>1, <1>2 DEF WindowsChecked, Seen
<1>5. HexagonChecked' /\ HexagonDone' /\ DiamondCentred' /\ DiamondDone' /\ PatternsChecked' /\ StarDone'
  BY <1>1 DEF HexagonChecked, HexagonDone, DiamondCentred, DiamondDone, PatternsChecked, StarDone
<1> QED BY <1>2, <1>3, <1>4, <1>5 DEF MeInv

LEMMA SearchFullExtraInv ==
  ASSUME MeInv, SearchFullExtra
  PROVE  MeInv'
<1>1. /\ method' = method /\ steps' = steps /\ step = "full extra" /\ step' = "full merge" /\ index' = 1
      /\ UNCHANGED <<best, checked>> \/ CheckAll(Window(Cut(method.extra)))
  BY DEF SearchFullExtra, Goto
<1>2. BestChecked' /\ checked \subseteq checked'
  <2>1. CASE UNCHANGED <<best, checked>>
    BY <2>1 DEF MeInv, BestChecked
  <2>2. CASE CheckAll(Window(Cut(method.extra)))
    BY <2>2, ChecksAll DEF MeInv
  <2> QED BY <1>1, <2>1, <2>2
<1>3. method.search = "full" /\ Seen(Window(<<0, 0>>))
  BY <1>1 DEF MeInv, StepsOfSearch, WindowsChecked
<1>4. StepsOfSearch' /\ StepsLeft' /\ AtStart' /\ StartChecked'
  BY <1>1, <1>3 DEF MeInv, StepsOfSearch, StepsLeft, AtStart, StartChecked
<1>5. WindowsChecked'
  <2>1. \A i \in 1..Len(method.merge) : ~(i < 1)
    OBVIOUS
  <2>2. Window(<<0, 0>>) \cap Permitted \subseteq checked'
    BY <1>2, <1>3 DEF Seen
  <2>3. index' \in Nat \ {0} /\ \A i \in 1..Len(method'.merge) : ~(i < index')
    <3>1. index' = 1 /\ method' = method
      BY <1>1
    <3> QED BY <2>1, <3>1
  <2>4. step' # "done"
    BY <1>1
  <2>5. ~MvInMerge(Cut(method.extra), method) => Window(Cut(method.extra)) \cap Permitted \subseteq checked'
    <3> SUFFICES ASSUME ~MvInMerge(Cut(method.extra), method)
                 PROVE  Window(Cut(method.extra)) \cap Permitted \subseteq checked'
      OBVIOUS
    <3>1. CheckAll(Window(Cut(method.extra)))
      BY DEF SearchFullExtra
    <3> QED BY <3>1, ChecksAll DEF MeInv
  <2> HIDE DEF Window, Cut
  <2> QED BY <1>1, <2>2, <2>3, <2>4, <2>5 DEF WindowsChecked, Seen
<1>6. HexagonChecked' /\ HexagonDone' /\ DiamondCentred' /\ DiamondDone' /\ PatternsChecked' /\ StarDone'
  BY <1>1 DEF HexagonChecked, HexagonDone, DiamondCentred, DiamondDone, PatternsChecked, StarDone
<1> QED BY <1>2, <1>4, <1>5, <1>6 DEF MeInv

LEMMA SearchFullMergeInv ==
  ASSUME MeInv, SearchFullMerge
  PROVE  MeInv'
<1> DEFINE v == Cut(method.merge[index])
           before == Window(<<0, 0>>) \cup UNION {Window(Cut(method.merge[j])) : j \in 1..(index - 1)}
           vs == IF v = <<0, 0>> THEN {} ELSE Window(v) \ before
<1>1. method' = method /\ steps' = steps /\ step = "full merge"
  BY DEF SearchFullMerge
<1>2. \/ index > Len(method.merge) /\ step' = "done" /\ UNCHANGED <<index, best, checked>>
      \/ ~(index > Len(method.merge)) /\ CheckAll(vs) /\ index' = index + 1 /\ step' = step
  BY DEF SearchFullMerge, Goto
<1>3. /\ method.search = "full" /\ Seen(Window(<<0, 0>>)) /\ index \in Nat \ {0}
      /\ \A i \in 1..Len(method.merge) : i < index => Seen(Window(Cut(method.merge[i])))
      /\ ~MvInMerge(Cut(method.extra), method) => Seen(Window(Cut(method.extra)))
  BY <1>1 DEF MeInv, StepsOfSearch, WindowsChecked
<1>4. CASE index > Len(method.merge) /\ step' = "done" /\ UNCHANGED <<index, best, checked>>
  <2>1. StepsOfSearch' /\ StepsLeft' /\ AtStart' /\ BestChecked' /\ StartChecked'
    BY <1>1, <1>3, <1>4 DEF MeInv, StepsOfSearch, StepsLeft, AtStart, BestChecked, StartChecked
  <2>2. \A i \in 1..Len(method.merge) : i < index
    BY <1>3, <1>4
  <2>3. WindowsChecked'
    BY <1>1, <1>3, <1>4, <2>2 DEF WindowsChecked, Seen
  <2>4. HexagonChecked' /\ HexagonDone' /\ DiamondCentred' /\ DiamondDone' /\ PatternsChecked' /\ StarDone'
    BY <1>1, <1>3, <1>4 DEF HexagonChecked, HexagonDone, DiamondCentred, DiamondDone, PatternsChecked, StarDone
  <2> QED BY <2>1, <2>3, <2>4 DEF MeInv
<1>5. CASE ~(index > Len(method.merge)) /\ CheckAll(vs) /\ index' = index + 1 /\ step' = step
  <2>1. BestChecked' /\ checked \subseteq checked' /\ vs \cap Permitted \subseteq checked'
    BY <1>5, ChecksAll DEF MeInv
  <2>2. before \cap Permitted \subseteq checked
    <3>1. \A j \in 1..(index - 1) : Window(Cut(method.merge[j])) \cap Permitted \subseteq checked
      <4>1. \A j \in 1..(index - 1) : j \in 1..Len(method.merge) /\ j < index
        BY <1>3, <1>5
      <4> QED BY <1>3, <4>1 DEF Seen
    <3> QED BY <1>3, <3>1 DEF Seen
  <2>3. Window(v) \cap Permitted \subseteq checked'
    <3> HIDE DEF before, v
    <3>1. CASE v = <<0, 0>>
      BY <1>3, <2>1, <3>1 DEF Seen
    <3>2. CASE v # <<0, 0>>
      BY <2>1, <2>2, <3>2
    <3> QED BY <3>1, <3>2
  <2>4. \A i \in 1..Len(method.merge) : i < index + 1 => Window(Cut(method.merge[i])) \cap Permitted \subseteq checked'
    <3>1. \A i \in 1..Len(method.merge) : i < index + 1 => i < index \/ i = index
      BY <1>3
    <3> QED BY <1>3, <2>1, <2>3, <3>1 DEF Seen
  <2>5. StepsOfSearch' /\ StepsLeft' /\ AtStart' /\ StartChecked'
    BY <1>1, <1>3, <1>5 DEF MeInv, StepsOfSearch, StepsLeft, AtStart, StartChecked
  <2>6. WindowsChecked'
    <3>1. Window(<<0, 0>>) \cap Permitted \subseteq checked'
      BY <1>3, <2>1 DEF Seen
    <3>2. index' \in Nat \ {0} /\ step' = "full merge" /\ index' = index + 1 /\ method' = method
      <4>1. index' = index + 1 /\ step' = step
        BY <1>5
      <4>2. index \in Nat \ {0}
        BY <1>3
      <4>3. step' = "full merge" /\ method' = method
        BY <1>1, <4>1
      <4>4. index' \in Nat \ {0}
        BY <4>1, <4>2
      <4> QED BY <4>1, <4>3, <4>4
    <3>3. \A i \in 1..Len(method'.merge) : i < index' => Window(Cut(method'.merge[i])) \cap Permitted \subseteq checked'
      BY <2>4, <3>2
    <3>4. ~MvInMerge(Cut(method'.extra), method') => Window(Cut(method'.extra)) \cap Permitted \subseteq checked'
      BY <1>3, <2>1, <3>2 DEF Seen
    <3> QED BY <3>1, <3>2, <3>3, <3>4 DEF WindowsChecked, Seen
  <2>7. HexagonChecked' /\ HexagonDone' /\ DiamondCentred' /\ DiamondDone' /\ PatternsChecked' /\ StarDone'
    BY <1>1, <1>3, <1>5 DEF HexagonChecked, HexagonDone, DiamondCentred, DiamondDone, PatternsChecked, StarDone
  <2> QED BY <2>1, <2>5, <2>6, <2>7 DEF MeInv
<1> QED BY <1>2, <1>4, <1>5

(* For any vectors that are permitted, any candidates and any range: what  *)
(* SearchIsThorough says that a search of search_inter.c has looked at     *)
(* when it ends, whatever it left out on the way because it knew it: the   *)
(* candidates for all searches that have a start, the hexagon and the      *)
(* diamond without early termination and without a limit of steps, the TZ  *)
(* search without early termination, and the windows of the full search.   *)
THEOREM SearchIsThoroughCorrect == MeSpec => []SearchIsThorough
<1>1. MeInit => MeInv
  BY MeInitInv
<1>2. MeInv /\ [MeNext]_meVars => MeInv'
  <2> SUFFICES ASSUME MeInv, [MeNext]_meVars
               PROVE  MeInv'
    OBVIOUS
  <2>1. CASE SelectStartingPoint
    BY <2>1, SelectStartingPointInv
  <2>2. CASE EarlyTerminate
    BY <2>2, EarlyTerminateInv
  <2>3. CASE SearchHexagon
    BY <2>3, SearchHexagonInv
  <2>4. CASE MoveHexagon
    BY <2>4, MoveHexagonInv
  <2>5. CASE SearchInsideHexagon
    BY <2>5, SearchInsideHexagonInv
  <2>6a. CASE SearchDiamond
    BY <2>6a, SearchDiamondInv
  <2>6b. CASE MoveDiamond
    BY <2>6b, MoveDiamondInv
  <2>7. CASE StartTz
    BY <2>7, StartTzInv
  <2>8. CASE SearchPattern
    BY <2>8, SearchPatternInv
  <2>9. CASE EndPattern
    BY <2>9, EndPatternInv
  <2>10. CASE SearchMvFull
    BY <2>10, SearchMvFullInv
  <2>11. CASE SearchFullExtra
    BY <2>11, SearchFullExtraInv
  <2>12. CASE SearchFullMerge
    BY <2>12, SearchFullMergeInv
  <2>13. CASE SearchNextPu
    BY <2>13, SearchNextPuInv
  <2>14. CASE UNCHANGED meVars
    <3>1. /\ method' = method /\ step' = step /\ mv' = mv /\ index' = index /\ steps' = steps
          /\ distance' = distance /\ best' = best /\ checked' = checked /\ from' = from
      BY <2>14 DEF meVars
    <3>2. StepsOfSearch' /\ BestChecked' /\ StartChecked' /\ StepsLeft'
      BY <3>1 DEF MeInv, StepsOfSearch, BestChecked, StartChecked, StepsLeft, Seen
    <3>3. AtStart'
      BY <3>1 DEF MeInv, AtStart, Centre
    <3>4. HexagonChecked' /\ HexagonDone' /\ DiamondCentred' /\ DiamondDone'
      BY <3>1 DEF MeInv, HexagonChecked, HexagonDone, DiamondCentred, DiamondDone, Seen
    <3>5. PatternsChecked' /\ StarDone'
      BY <3>1 DEF MeInv, PatternsChecked, StarDone, Seen
    <3>6. WindowsChecked'
      BY <3>1 DEF MeInv, WindowsChecked, Seen
    <3> QED BY <3>2, <3>3, <3>4, <3>5, <3>6 DEF MeInv
  <2> QED BY <2>1, <2>2, <2>3, <2>4, <2>5, <2>6a, <2>6b, <2>7, <2>8, <2>9, <2>10, <2>11, <2>12, <2>13, <2>14
          DEF MeNext
<1>3. MeInv => SearchIsThorough
  BY MeInvHolds
<1> QED BY <1>1, <1>2, <1>3, PTL DEF MeSpec
=============================================================================
