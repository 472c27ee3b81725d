--------------------------- MODULE MotionCandidates ---------------------------
(***************************************************************************)
(* Prediction of motion (src/src/inter.c) and its use by the search of a   *)
(* prediction unit (src/src/search_inter.c).                               *)
(*                                                                         *)
(* An encoder never sends which neighbours it predicted from: the decoder  *)
(* derives the same list of candidates from the motion of the blocks it    *)
(* has decoded, and is told an index into it.  Kvazaar derives its lists   *)
(* with loops of its own for what is decoded before what.                  *)
(*                                                                         *)
(* A reference picture is its POC.  A motion is [dir, mv, ref]: dir is 1,  *)
(* 2 or 3 for L0, L1 or both, ref[l] a position in list l; of a colocated  *)
(* block, ref[l] is the POC.  A block that is intra or not available is    *)
(* NoMotion.  A unit has its place in a tile, its size, the CU it is part  *)
(* of, and whether candidates A1 and B1 may be used to merge.              *)
(* Operators whose names begin with Std are the decoder's (ITU-T H.265,    *)
(* 6.4 and 8.5.3.2).                                                       *)
(* Operators named Wrong... are plausible mistakes in the definition that  *)
(* follows them and are not part of the specification.                     *)
(***************************************************************************)
EXTENDS Integers, FiniteSets, SequencesExt

CONSTANTS
  Cus,               (* coding units: [x, y, size]                         *)
  TileWidth,
  TileHeight,
  Slices,            (* what a unit sees of its slice: records             *)
  Motions(_, _, _),  (* motions of a neighbour, by unit, slice and place   *)
  Vectors(_)         (* vectors the search may find in a slice             *)

VARIABLES
  unit,     (* the prediction unit that is searched                        *)
  slice,
  places,   (* the neighbours that are there                               *)
  motions,  (* the motion of each neighbour                                *)
  merging,  (* the merge candidates                                        *)
  found     (* the motion that was found, and the candidate it merges with *)
candVars == <<unit, slice, places, motions, merging, found>>

LCU_WIDTH          == 64
MRG_MAX_NUM_CANDS  == 5
AMVP_MAX_NUM_CANDS == 2
NoMotion == [dir |-> 0]
Nothing  == [idx |-> -1]
SpatialPlaces  == {"a0", "a1", "b0", "b1", "b2"}
TemporalPlaces == {"h", "c3"}

Least(a, b) == IF a < b THEN a ELSE b
Clamp(lo, hi, v) == IF v < lo THEN lo ELSE IF v > hi THEN hi ELSE v
Magnitude(v) == IF v < 0 THEN -v ELSE v
(* Division in C rounds towards zero.                                      *)
Quotient(n, d) ==
  LET q == Magnitude(n) \div Magnitude(d) IN IF (n < 0) = (d < 0) THEN q ELSE -q
Has(m, l) == m.dir \in {l, 3}
Pocs(s) == UNION {{s.lists[l][i] : i \in 1..Len(s.lists[l])} : l \in 1..2}

-----------------------------------------------------------------------------
(* Prediction units: for each partition, the place and the size of its     *)
(* units in quarters of the CU.                                            *)
Partitions ==
  [TwoNxTwoN |-> << <<0, 0, 4, 4>> >>,
   TwoNxN |-> << <<0, 0, 4, 2>>, <<0, 2, 4, 2>> >>, NxTwoN |-> << <<0, 0, 2, 4>>, <<2, 0, 2, 4>> >>,
   TwoNxnU |-> << <<0, 0, 4, 1>>, <<0, 1, 4, 3>> >>, TwoNxnD |-> << <<0, 0, 4, 3>>, <<0, 3, 4, 1>> >>,
   nLxTwoN |-> << <<0, 0, 1, 4>>, <<1, 0, 3, 4>> >>, nRxTwoN |-> << <<0, 0, 3, 4>>, <<3, 0, 1, 4>> >>]
Unit(cu, part, i) ==
  LET p == Partitions[part][i]
      quarter == cu.size \div 4
  IN [x |-> cu.x + p[1] * quarter, y |-> cu.y + p[2] * quarter, w |-> p[3] * quarter, h |-> p[4] * quarter,
      part |-> part, i |-> i, cu |-> cu]
PartModes(cu) ==
  {"TwoNxTwoN", "TwoNxN", "NxTwoN"} \cup
  (IF cu.size = 8 THEN {} ELSE {"TwoNxnU", "TwoNxnD", "nLxTwoN", "nRxTwoN"})
UseA1(u) == u.i = 1 \/ u.w >= u.h
UseB1(u) == u.i = 1 \/ u.w <= u.h

-----------------------------------------------------------------------------
(* Which neighbours are there.                                             *)

LowBit(n) == CHOOSE b \in {4, 8, 16, 32, 64} : n % b = 0 /\ (n \div b) % 2 = 1
UnitSize(u) == Least(LowBit(u.w), LowBit(u.h))
(* Whether the block of a size at (x, y) is right and low in its parent.   *)
IsRight(x, size) == x % (2 * size) # 0

(* Up the quadtree while the neighbour is next to the parent too.          *)
IsA0Coded(u) ==
  LET y == u.y + u.h - UnitSize(u)
      coded[size \in {4, 8, 16, 32, 64}] ==
        /\ size < LCU_WIDTH
        /\ ~IsRight(u.x, size)
        /\ IsRight((y \div size) * size, size) => coded[2 * size]
  IN coded[UnitSize(u)]

WrongIsB0Coded(u) ==
  LET x == u.x + u.w - UnitSize(u)
  IN ~(IsRight(x, UnitSize(u)) /\ IsRight(u.y, UnitSize(u)))
IsB0Coded(u) ==
  LET x == u.x + u.w - UnitSize(u)
      coded[size \in {4, 8, 16, 32, 64}] ==
        \/ size >= LCU_WIDTH
        \/ ~IsRight((x \div size) * size, size)
        \/ ~IsRight(u.y, size) /\ coded[2 * size]
  IN coded[UnitSize(u)]

SpatialCandidates(u) ==
  LET localX == u.x % LCU_WIDTH
      localY == u.y % LCU_WIDTH
      left  == u.x # 0
      above == u.y # 0
  IN (IF left THEN {"a1"} ELSE {})
     \cup (IF left /\ localY + u.h < LCU_WIDTH /\ u.y + u.h < TileHeight /\ IsA0Coded(u) THEN {"a0"} ELSE {})
     \cup (IF /\ above /\ u.x + u.w < TileWidth /\ IsB0Coded(u)
              /\ localX + u.w < LCU_WIDTH \/ localY = 0
           THEN {"b0"} ELSE {})
     \cup (IF above THEN {"b1"} ELSE {})
     \cup (IF left /\ above THEN {"b2"} ELSE {})

(* The block at the lower right must be in the same row of LCUs; positions *)
(* are in the picture, of which there is one tile when TMVP is on.         *)
TemporalCandidates(u) ==
  (IF u.x + u.w < TileWidth /\ u.y + u.h < TileHeight /\ (u.y + u.h) % LCU_WIDTH # 0 THEN {"h"} ELSE {})
  \cup (IF u.x + u.w \div 2 < TileWidth /\ u.y + u.h \div 2 < TileHeight THEN {"c3"} ELSE {})

-----------------------------------------------------------------------------
(* Candidates for the prediction of vectors.                               *)

ScaledMv(mv, scale) ==
  LET scaled == scale * mv
  IN Clamp(-32768, 32767, (scaled + 127 + (IF scaled < 0 THEN 1 ELSE 0)) \div 256)

ApplyMvScaling(current, neighbor, mv) ==
  LET td == Clamp(-128, 127, neighbor)
      scale == Clamp(-4096, 4095,
                 (Clamp(-128, 127, current) * Quotient(16384 + Magnitude(td) \div 2, td) + 32) \div 64)
  IN IF current = neighbor THEN mv ELSE <<ScaledMv(mv[1], scale), ScaledMv(mv[2], scale)>>

RefPoc(s, m, l) == s.lists[l][m.ref[l] + 1]

(* One vector, or none: of the list itself, or of the other one.           *)
AddMvp(s, m, l, pic, scaling) ==
  LET lists == SelectSeq(<<l, 3 - l>>, LAMBDA k : Has(m, k) /\ (scaling \/ RefPoc(s, m, k) = pic))
      vector(k) == IF scaling THEN ApplyMvScaling(s.poc - pic, s.poc - RefPoc(s, m, k), m.mv[k]) ELSE m.mv[k]
  IN IF lists = <<>> THEN <<>> ELSE <<vector(lists[1])>>
FirstMvp(s, ms, l, pic, scaling) ==
  FoldLeft(LAMBDA mvp, m : IF mvp = <<>> THEN AddMvp(s, m, l, pic, scaling) ELSE mvp, <<>>, ms)

(* The colocated picture is the first of L0.  L1 of the colocated block is *)
(* preferred when a picture that is later in output order is in use.       *)
TemporalMv(s, pic, col, l) ==
  LET wanted == IF \E p \in Pocs(s) : p > s.poc THEN 2 ELSE l
      vector(from) == ApplyMvScaling(s.poc - pic, s.lists[1][1] - col.ref[from], col.mv[from])
  IN vector(IF Has(col, wanted) THEN wanted ELSE 3 - wanted)
Colocated(n) == IF n.h # NoMotion THEN n.h ELSE n.c3

MvCand(s, n, l, pic) ==
  LET a == <<n.a0, n.a1>>
      b == <<n.b0, n.b1, n.b2>>
      orScaled(mvp, ms) == IF mvp # <<>> THEN mvp ELSE FirstMvp(s, ms, l, pic, TRUE)
      left    == orScaled(FirstMvp(s, a, l, pic, FALSE), a)
      hasLeft == n.a0 # NoMotion \/ n.a1 # NoMotion
      second(two) == two \o (IF hasLeft \/ Len(two) = 2 THEN <<>> ELSE FirstMvp(s, b, l, pic, TRUE))
      unique(both) == IF Len(both) = 2 /\ both[1] = both[2] THEN <<both[1]>> ELSE both
      temporal(mvps) == mvps \o (IF /\ s.tmvp /\ s.poc > 1 /\ Len(mvps) < AMVP_MAX_NUM_CANDS
                                    /\ Colocated(n) # NoMotion
                                 THEN <<TemporalMv(s, pic, Colocated(n), l)>> ELSE <<>>)
  IN SubSeq(temporal(unique(second(left \o FirstMvp(s, b, l, pic, FALSE)))) \o << <<0, 0>>, <<0, 0>> >>,
            1, AMVP_MAX_NUM_CANDS)

-----------------------------------------------------------------------------
(* Candidates to merge with.                                               *)

Merge(m, duplicates) == IF m = NoMotion \/ m \in duplicates THEN <<>> ELSE <<m>>

SpatialMerge(u, n) ==
  LET a1 == IF UseA1(u) THEN n.a1 ELSE NoMotion
      b1 == IF UseB1(u) THEN n.b1 ELSE NoMotion
      four == Merge(a1, {}) \o Merge(b1, {a1}) \o Merge(n.b0, {b1}) \o Merge(n.a0, {a1})
  IN four \o IF Len(four) < 4 THEN Merge(n.b2, {a1, b1}) ELSE <<>>

(* Unused halves of a motion are cleared (inter_clear_cu_unused).          *)
Uni(l, mv, ref) ==
  [dir |-> l, mv |-> [k \in 1..2 |-> IF k = l THEN mv ELSE <<0, 0>>],
   ref |-> [k \in 1..2 |-> IF k = l THEN ref ELSE 255]]
Bi(mv0, ref0, mv1, ref1) == [dir |-> 3, mv |-> <<mv0, mv1>>, ref |-> <<ref0, ref1>>]

TemporalMerge(s, n) ==
  LET mv(l) == TemporalMv(s, s.lists[l][1], Colocated(n), l)
  IN IF ~s.tmvp \/ Colocated(n) = NoMotion THEN <<>>
     ELSE IF s.type = "B" THEN <<Bi(mv(1), 0, mv(2), 0)>> ELSE <<Uni(1, mv(1), 0)>>

PriorityList == << <<1, 2>>, <<2, 1>>, <<1, 3>>, <<3, 1>>, <<2, 3>>, <<3, 2>>,
                   <<1, 4>>, <<4, 1>>, <<2, 4>>, <<4, 2>>, <<3, 4>>, <<4, 3>> >>
SameMotion(s, m, n) == RefPoc(s, m, 1) = RefPoc(s, n, 2) /\ m.mv[1] = n.mv[2]
Combined(m, n) == Bi(m.mv[1], m.ref[1], n.mv[2], n.ref[2])
Combinable(s, m, n) == Has(m, 1) /\ Has(n, 2) /\ ~SameMotion(s, m, n)

(* Pairs are tried in turn until the list is full.                         *)
CombinedMerge(s, ms) ==
  LET pairs == SubSeq(PriorityList, 1, Len(ms) * (Len(ms) - 1))
      grown[i \in 0..Len(pairs)] ==
        IF i = 0 THEN ms
        ELSE LET m == ms[pairs[i][1]]
                 n == ms[pairs[i][2]]
             IN IF Len(grown[i - 1]) < MRG_MAX_NUM_CANDS /\ Combinable(s, m, n)
                THEN Append(grown[i - 1], Combined(m, n)) ELSE grown[i - 1]
  IN IF s.type = "B" /\ Len(ms) < MRG_MAX_NUM_CANDS THEN grown[Len(pairs)] ELSE ms

Zero(s, ref) == IF s.type = "B" THEN Bi(<<0, 0>>, ref, <<0, 0>>, ref) ELSE Uni(1, <<0, 0>>, ref)
ZeroMerge(s, i) ==
  LET before == {p \in Pocs(s) : p < s.poc}
      numRef == IF s.type = "B" THEN Least(Cardinality(before), Cardinality(Pocs(s) \ before))
                ELSE Cardinality(Pocs(s))
  IN Zero(s, IF i >= numRef - 1 THEN 0 ELSE i)

MergeCand(s, u, n) ==
  LET filled(derived) ==
        [i \in 1..MRG_MAX_NUM_CANDS |->
           IF i <= Len(derived) THEN derived[i] ELSE ZeroMerge(s, i - Len(derived) - 1)]
  IN filled(CombinedMerge(s, SpatialMerge(u, n) \o TemporalMerge(s, n)))

-----------------------------------------------------------------------------
(* The search of a prediction unit.                                        *)

SearchPu ==
  /\ unit = Nothing
  /\ \E cu \in Cus : \E part \in PartModes(cu) : \E i \in 1..Len(Partitions[part]) :
       unit' = Unit(cu, part, i)
  /\ slice' \in Slices
  /\ places' = SpatialCandidates(unit') \cup (IF slice'.tmvp THEN TemporalCandidates(unit') ELSE {})
  /\ LET Of(p) == {NoMotion} \cup IF p \in places' THEN Motions(unit', slice', p) ELSE {}
     IN motions' \in [a0 : Of("a0"), a1 : Of("a1"), b0 : Of("b0"), b1 : Of("b1"), b2 : Of("b2"),
                      h : Of("h"), c3 : Of("c3")]
  /\ merging' = MergeCand(slice', unit', motions')
  /\ found' = Nothing

(* The list a picture is found in first, L0 before L1, and where.          *)
ListOf(s, pic) ==
  LET at == {<<l, i>> \in (1..2) \X (1..16) : i <= Len(s.lists[l]) /\ s.lists[l][i] = pic}
  IN CHOOSE x \in at : \A y \in at : x[2] < y[2] \/ (x[2] = y[2] /\ x[1] <= y[1])

FirstMatch(Matches(_)) ==
  LET at == {i \in 1..MRG_MAX_NUM_CANDS : Matches(merging[i])}
  IN IF at = {} THEN 0 ELSE CHOOSE i \in at : \A j \in at : i <= j

SearchPuRef ==
  /\ unit # Nothing /\ found = Nothing
  /\ \E pic \in Pocs(slice), mv \in Vectors(slice) :
       LET at == ListOf(slice, pic)
           Matches(m) == m.dir # 3 /\ m.mv[m.dir] = mv /\ RefPoc(slice, m, m.dir) = pic
       IN found' = [motion |-> Uni(at[1], mv, at[2] - 1), idx |-> FirstMatch(Matches)]
  /\ UNCHANGED <<unit, slice, places, motions, merging>>

CanUseBipred(u, s) == s.type = "B" /\ s.bipred /\ u.w + u.h >= 16
SearchPuBipred ==
  /\ unit # Nothing /\ found = Nothing
  /\ CanUseBipred(unit, slice)
  /\ \E k \in 1..Len(PriorityList) :
       LET m == merging[PriorityList[k][1]]
           n == merging[PriorityList[k][2]]
           Matches(c) == c.mv = Combined(m, n).mv /\ c.ref = Combined(m, n).ref
       IN /\ Combinable(slice, m, n)
          /\ found' = [motion |-> Combined(m, n), idx |-> FirstMatch(Matches)]
  /\ UNCHANGED <<unit, slice, places, motions, merging>>

CandInit ==
  /\ unit = Nothing /\ slice = Nothing /\ places = {} /\ motions = Nothing /\ merging = <<>>
  /\ found = Nothing
(* The unit is done, and another one is searched.                          *)
EndPu ==
  /\ found # Nothing
  /\ unit' = Nothing /\ slice' = Nothing /\ places' = {} /\ motions' = Nothing /\ merging' = <<>>
  /\ found' = Nothing
CandNext == SearchPu \/ SearchPuRef \/ SearchPuBipred \/ EndPu
CandSpec == CandInit /\ [][CandNext]_candVars

-----------------------------------------------------------------------------
(* What the decoder derives.                                               *)

(* Blocks of 4x4 samples in the order of decoding.                         *)
StdAddress(x, y) ==
  LET bit(v, i) == (v \div (4 * 2^i)) % 2
      z(i) == (bit(x, i) + 2 * bit(y, i)) * 4^i
  IN ((y \div 64) * ((TileWidth + 63) \div 64) + x \div 64) * 256 + z(0) + z(1) + z(2) + z(3)
StdAvailable(u, x, y) ==
  /\ x \in 0..(TileWidth - 1) /\ y \in 0..(TileHeight - 1)
  /\ \/ /\ x \in u.cu.x..(u.cu.x + u.cu.size - 1)
        /\ y \in u.cu.y..(u.cu.y + u.cu.size - 1)
     \/ StdAddress(x, y) < StdAddress(u.x, u.y)
StdPlaces(u) ==
  {p \in SpatialPlaces :
     CASE p = "a0" -> StdAvailable(u, u.x - 1, u.y + u.h)
       [] p = "a1" -> StdAvailable(u, u.x - 1, u.y + u.h - 1)
       [] p = "b0" -> StdAvailable(u, u.x + u.w, u.y - 1)
       [] p = "b1" -> StdAvailable(u, u.x + u.w - 1, u.y - 1)
       [] p = "b2" -> StdAvailable(u, u.x - 1, u.y - 1)}
  \cup (IF /\ u.y \div 64 = (u.y + u.h) \div 64 /\ u.x + u.w < TileWidth /\ u.y + u.h < TileHeight
        THEN {"h"} ELSE {})
  \cup {"c3"}

StdScaled(tb, td, mv) ==
  LET d == Clamp(-128, 127, td)
      factor == Clamp(-4096, 4095, (Clamp(-128, 127, tb) * Quotient(16384 + Magnitude(d) \div 2, d) + 32) \div 64)
      rounded(v) == LET size == (Magnitude(v) + 127) \div 256 IN IF v < 0 THEN -size ELSE size
      scaled(v)  == Clamp(-32768, 32767, rounded(v))
      both(f)    == <<scaled(f * mv[1]), scaled(f * mv[2])>>
  IN both(factor)

StdColocated(s, pic, n, l) ==
  LET col == IF n.h # NoMotion THEN n.h ELSE n.c3
      forward == \A p \in Pocs(s) : p <= s.poc
      from == IF ~Has(col, 1) THEN 2 ELSE IF ~Has(col, 2) THEN 1 ELSE IF forward THEN l ELSE 2
      vector(td, mv) == IF td = s.poc - pic THEN mv ELSE StdScaled(s.poc - pic, td, mv)
  IN IF ~s.tmvp \/ col = NoMotion THEN <<>>
     ELSE <<vector(s.lists[1][1] - col.ref[from], col.mv[from])>>

(* The motion of the first neighbour that has any, with and without the    *)
(* condition that it is to the picture itself.                             *)
StdNeighbour(s, ms, l, pic, same) ==
  LET list(m) == IF Has(m, l) /\ (same => RefPoc(s, m, l) = pic) THEN l
                 ELSE IF Has(m, 3 - l) /\ (same => RefPoc(s, m, 3 - l) = pic) THEN 3 - l ELSE 0
      at == {i \in 1..Len(ms) : list(ms[i]) # 0}
      vector(m, k) == IF RefPoc(s, m, k) = pic THEN m.mv[k]
                      ELSE StdScaled(s.poc - pic, s.poc - RefPoc(s, m, k), m.mv[k])
      first(m) == vector(m, list(m))
  IN IF at = {} THEN <<>> ELSE <<first(ms[CHOOSE i \in at : \A j \in at : i <= j])>>
StdMvpList(s, n, l, pic) ==
  LET a == <<n.a0, n.a1>>   b == <<n.b0, n.b1, n.b2>>
      isScaled == n.a0 # NoMotion \/ n.a1 # NoMotion
      orScaled(mv, ms) == IF mv # <<>> THEN mv ELSE StdNeighbour(s, ms, l, pic, FALSE)
      spatial(mvA, mvB) == IF mvA = mvB THEN mvA ELSE mvA \o mvB
      two(above) == IF isScaled THEN spatial(orScaled(StdNeighbour(s, a, l, pic, TRUE), a), above)
                    ELSE spatial(above, StdNeighbour(s, b, l, pic, FALSE))
      list(mvs) == mvs \o (IF Len(mvs) = 2 THEN <<>> ELSE StdColocated(s, pic, n, l))
  IN SubSeq(list(two(StdNeighbour(s, b, l, pic, TRUE))) \o << <<0, 0>>, <<0, 0>> >>, 1, 2)

StdMergeList(s, u, n) ==
  LET second(parts) == u.i = 2 /\ u.part \in parts
      a1 == IF second({"NxTwoN", "nLxTwoN", "nRxTwoN"}) THEN NoMotion ELSE n.a1
      b1 == IF second({"TwoNxN", "TwoNxnU", "TwoNxnD"}) \/ n.b1 = a1 THEN NoMotion ELSE n.b1
      aboveUnit == IF second({"TwoNxN", "TwoNxnU", "TwoNxnD"}) THEN NoMotion ELSE n.b1
      b0 == IF n.b0 = aboveUnit THEN NoMotion ELSE n.b0
      a0 == IF n.a0 = a1 THEN NoMotion ELSE n.a0
      b2(four) == IF Len(four) = 4 \/ n.b2 \in {NoMotion, a1, aboveUnit} THEN <<>> ELSE <<n.b2>>
      spatial(four) == four \o b2(four)
      col(l) == StdColocated(s, s.lists[l][1], n, l)
      temporal == IF ~s.tmvp \/ Colocated(n) = NoMotion THEN <<>>
                  ELSE IF s.type = "B" THEN <<Bi(col(1)[1], 0, col(2)[1], 0)>> ELSE <<Uni(1, col(1)[1], 0)>>
      pairs(list) == SelectSeq(SubSeq(PriorityList, 1, Least(12, Len(list) * (Len(list) - 1))),
                               LAMBDA p : Combinable(s, list[p[1]], list[p[2]]))
      combined(list) == FoldLeft(LAMBDA all, p : Append(all, Combined(list[p[1]], list[p[2]])), list, pairs(list))
      numRefs == IF s.type = "B" THEN Least(Len(s.lists[1]), Len(s.lists[2])) ELSE Len(s.lists[1])
      zero(i) == Zero(s, IF i < numRefs THEN i ELSE 0)
      filled(list) == [i \in 1..5 |-> IF i <= Len(list) THEN list[i] ELSE zero(i - Len(list) - 1)]
      whole(list) == filled(IF s.type = "B" THEN combined(list) ELSE list)
  IN whole(spatial(SelectSeq(<<a1, b1, b0, a0>>, LAMBDA m : m # NoMotion)) \o temporal)
(* Small units that merge are predicted from one picture.                  *)
StdMerged(s, u, n, idx) ==
  LET restricted(m) == IF m.dir = 3 /\ u.w + u.h = 12 THEN Uni(1, m.mv[1], m.ref[1]) ELSE m
  IN restricted(StdMergeList(s, u, n)[idx])

-----------------------------------------------------------------------------
(* What the encoder predicts from is what the decoder predicts from: the   *)
(* same neighbours are taken to be decoded, for every unit of every CU     *)
(* (is_a0_cand_coded, is_b0_cand_coded and the borders of the LCU and the  *)
(* tile); the predictors of the vectors of the motion that was found are   *)
(* the decoder's; and a unit that is merged with a candidate has the       *)
(* motion the decoder takes from that index, although the lists may differ *)
(* in zero candidates, that repeat earlier ones.  No unit that the         *)
(* decoder would restrict to one picture has two.                          *)
CandidatesMatch ==
  /\ unit # Nothing => places \cap SpatialPlaces = StdPlaces(unit) \cap SpatialPlaces
  /\ unit # Nothing /\ slice.tmvp => places \cap TemporalPlaces = StdPlaces(unit) \cap TemporalPlaces
  /\ found # Nothing =>
       /\ \A l \in {k \in 1..2 : Has(found.motion, k)} :
            LET same(pic) == MvCand(slice, motions, l, pic) = StdMvpList(slice, motions, l, pic)
            IN same(RefPoc(slice, found.motion, l))
       /\ found.idx > 0 => StdMerged(slice, unit, motions, found.idx) = found.motion
       /\ unit.w + unit.h = 12 => found.motion.dir # 3
=============================================================================
