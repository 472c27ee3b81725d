------------------------------ MODULE LcuFilters ------------------------------
(***************************************************************************)
(* What the job of an LCU does with the pixels of the reconstruction       *)
(* (encoder_state_worker_encode_lcu of src/src/encoderstate.c): search     *)
(* writes them, deblocking (src/src/filter.c) and SAO (src/src/sao.c)      *)
(* filter them in place.  Both filters need pixels on the right and below  *)
(* that are not there yet, so each LCU leaves a margin to its neighbours,  *)
(* and the pixels that those need unfiltered are kept in buffers.          *)
(*                                                                         *)
(* The jobs of a frame run in parallel, ordered as in Wavefront; each is a *)
(* sequence of steps here.  A pixel is <<plane, x, y>>; which filters have *)
(* changed it is all that is kept of its value.  Every edge of the 8x8     *)
(* grid is taken to be the edge of a block, and every filter to change     *)
(* whatever it may change, which is when most depends on the order.        *)
(* Operators named Wrong... are plausible mistakes in the definition that  *)
(* follows them and are not part of the specification.                     *)
(***************************************************************************)
EXTENDS Integers, FiniteSets, FiniteSetsExt

CONSTANT Frames  (* records: L is LCU_WIDTH, W and H the size of the frame *)
                 (* in pixels, deblock and sao say which filters are on    *)

(* Frames are padded to whole CUs, and an LCU is wider than the margins.   *)
ASSUME FrameSizes ==
  \A f \in Frames : /\ f.L \in Nat /\ f.L % 16 = 0 /\ f.L > 0
                    /\ f.W \in Nat /\ f.W % 8 = 0 /\ f.W > 0
                    /\ f.H \in Nat /\ f.H % 8 = 0 /\ f.H > f.L
                    /\ f.deblock \in BOOLEAN /\ f.sao \in BOOLEAN

VARIABLES
  fr,         (* the frame                                                 *)
  step,       (* what the job of each LCU does next                        *)
  recon,      (* the LCUs that have been written to frame->rec             *)
  filtered,   (* the segments of edges that have been deblocked            *)
  final,      (* the pixels that SAO has written                           *)
  search,     (* hor_buf_search and ver_buf_search: the pixels in them that*)
              (* no filter had changed when they were saved                *)
  beforeSao   (* hor_buf_before_sao and ver_buf_before_sao: pairs of the   *)
              (* buffer and a pixel that was deblocked when it was saved   *)

filterVars == <<fr, step, recon, filtered, final, search, beforeSao>>

DEBLOCK_DELAY_PX == 8
WrongSaoDelay    == DEBLOCK_DELAY_PX
SAO_DELAY_PX     == DEBLOCK_DELAY_PX + 2

L    == fr.L
Cols == (fr.W + L - 1) \div L
Rows == (fr.H + L - 1) \div L
Lcus == (0..(Cols - 1)) \X (0..(Rows - 1))

Lower(a, b) == IF a < b THEN a ELSE b

(* The jobs of a frame wait for each other, and those of a later frame for *)
(* the LCUs that its motion vectors may reach, as in Wavefront.            *)
Neighbours(c) ==
  {d \in Lcus : \/ d = <<c[1] - 1, c[2]>>
                \/ d = <<Lower(c[1] + 1, Cols - 1), c[2] - 1>>}
Down  == 1   (* encoder_control_t.max_inter_ref_lcu                        *)
Right == 1
Reach(c) == {d \in Lcus : d[2] <= c[2] + Down /\ d[1] + d[2] <= c[1] + c[2] + Down + Right}

X0(c) == c[1] * L
Y0(c) == c[2] * L
SizeX(c) == Lower(L, fr.W - X0(c))
SizeY(c) == Lower(L, fr.H - Y0(c))
HasLeft(c)  == c[1] > 0
HasAbove(c) == c[2] > 0
HasRight(c) == c[1] < Cols - 1
HasBelow(c) == c[2] < Rows - 1
Without(n, cond) == IF cond THEN n ELSE 0

(* Chroma is sampled at half the width and the height.                     *)
Planes      == {"Y", "C"}
Scale(p)    == IF p = "Y" THEN 1 ELSE 2
Width(p)    == fr.W \div Scale(p)
Height(p)   == fr.H \div Scale(p)
LcuOf(px)   == <<(px[2] * Scale(px[1])) \div L, (px[3] * Scale(px[1])) \div L>>
Area(p, x, y, w, h) == {p} \X (x..(x + w - 1)) \X (y..(y + h - 1))
LcuArea(c)  == UNION {Area(p, X0(c) \div Scale(p), Y0(c) \div Scale(p),
                           SizeX(c) \div Scale(p), SizeY(c) \div Scale(p)) : p \in Planes}
Pixels      == UNION {Area(p, 0, 0, Width(p), Height(p)) : p \in Planes}

-----------------------------------------------------------------------------
(* Deblocking.  A segment <<plane, dir, x, y>> is the part of an edge along*)
(* four pixels; (x, y) is its first pixel on the right or below.           *)

(* What filter_deblock_edge_luma and filter_deblock_edge_chroma read, on   *)
(* both sides of the edge, and what they may change.                       *)
Across(s, n) == IF s[2] = "ver" THEN Area(s[1], s[3] - n, s[4], 2 * n, 4)
                                ELSE Area(s[1], s[3], s[4] - n, 4, 2 * n)
ReadBy(s)    == Across(s, IF s[1] = "Y" THEN 4 ELSE 2)

(* The segment of either direction that may change a pixel, if there is    *)
(* one: filters change three pixels of luma and one of chroma.             *)
Touch(p) == IF p = "Y" THEN 3 ELSE 1
Edge(p, n, size) ==   (* the edge of the grid near the coordinate n        *)
  LET e == ((n + Touch(p)) \div 8) * 8
  IN IF e > 0 /\ e < size /\ n < e + Touch(p) THEN {e} ELSE {}
Ver(px) == {<<px[1], "ver", e, (px[3] \div 4) * 4>> : e \in Edge(px[1], px[2], Width(px[1]))}
Hor(px) == {<<px[1], "hor", (px[2] \div 4) * 4, e>> : e \in Edge(px[1], px[3], Height(px[1]))}

(* An edge of length n from a pixel, in segments.                          *)
Segments(p, dir, x, y, n) ==
  {<<p, dir, x + Without(4 * i, dir = "hor"), y + Without(4 * i, dir = "ver")>> :
     i \in 0..(n \div 4 - 1)}

(* filter_deblock_unit for a block of 8x8 luma pixels: "the last 4 pixels  *)
(* will be deblocked when processing the next LCU".                        *)
LastOfLcu(x)      == (x + 8) % L = 0 /\ x + 8 # fr.W
Unit(dir, x, y) ==
  LET less == Without(4, dir = "hor" /\ LastOfLcu(x))
      at   == IF dir = "ver" THEN x \div 2 ELSE y \div 2
  IN IF (dir = "ver" /\ x = 0) \/ (dir = "hor" /\ y = 0) THEN {}
     ELSE Segments("Y", dir, x, y, 8 - less)
          \cup (IF at % 8 = 0 THEN Segments("C", dir, x \div 2, y \div 2, 4 - less) ELSE {})

(* filter_deblock_lcu_inside                                               *)
OnGrid(from, to) == {n \in from..(to - 1) : n % 8 = 0}
Inside(c, dir) ==
  UNION {Unit(dir, x, y) : x \in OnGrid(X0(c), X0(c) + SizeX(c)),
                           y \in OnGrid(Y0(c), Y0(c) + SizeY(c))}

(* filter_deblock_lcu_rightmost: the last 4 pixels of each plane of the LCU*)
(* on the left.                                                            *)
Rightmost(c) ==
  IF ~HasLeft(c) THEN {}
  ELSE UNION {LET yp == Y0(c) \div Scale(p) IN
              {<<p, "hor", X0(c) \div Scale(p) - 4, y>> :
                  y \in {n \in yp..(Lower(yp + L \div Scale(p), Height(p)) - 1) :
                           (n - yp) % 8 = 0 /\ n > 0}} : p \in Planes}

(* The states of a pixel of an LCU that has been searched.                 *)
Unfiltered(px) == LcuOf(px) \in recon /\ (Ver(px) \cup Hor(px)) \cap filtered = {}
                                      /\ px \notin final
Deblocked(px)  == LcuOf(px) \in recon /\ px \notin final
                  /\ (fr.deblock => Ver(px) \cup Hor(px) \subseteq filtered)

-----------------------------------------------------------------------------
(* The buffers.                                                            *)

(* init_lcu_t reads the row above, up to half an LCU further right, and the*)
(* column on the left.                                                     *)
SearchReads(c) ==
  UNION {LET s == Scale(p) IN
         (IF HasAbove(c)
            THEN Area(p, X0(c) \div s - Without(1, HasLeft(c)), Y0(c) \div s - 1,
                      Lower(L + L \div 2, fr.W - X0(c)) \div s + Without(1, HasLeft(c)), 1)
            ELSE {})
         \cup (IF HasLeft(c)
            THEN Area(p, X0(c) \div s - 1, Y0(c) \div s - Without(1, HasAbove(c)),
                      1, SizeY(c) \div s + Without(1, HasAbove(c)))
            ELSE {}) : p \in Planes}

(* encoder_state_recdata_to_bufs: the last row and column of the LCU.      *)
LastRowAndColumn(c) ==
  UNION {LET s == Scale(p) IN
         Area(p, X0(c) \div s, (Y0(c) + SizeY(c) - 1) \div s, SizeX(c) \div s, 1)
         \cup Area(p, (X0(c) + SizeX(c) - 1) \div s, Y0(c) \div s, 1, SizeY(c) \div s) :
           p \in Planes}

(* encoder_state_recdata_before_sao_to_bufs: the last row and the last     *)
(* column that SAO will change, as far as they have been deblocked.        *)
Extent(size, hasNext, hasPrevious) ==
  size - DEBLOCK_DELAY_PX + Without(DEBLOCK_DELAY_PX, ~hasNext)
       + Without(DEBLOCK_DELAY_PX, hasPrevious)
SavedRow(c) ==
  LET x == X0(c) - Without(DEBLOCK_DELAY_PX, HasLeft(c))
      y == Y0(c) + L - SAO_DELAY_PX - 1
  IN IF ~HasBelow(c) THEN {}
     ELSE UNION {Area(p, x \div Scale(p), y \div Scale(p),
                      Extent(SizeX(c), HasRight(c), HasLeft(c)) \div Scale(p), 1) : p \in Planes}
SavedColumn(c) ==
  LET x == X0(c) + L - SAO_DELAY_PX - 1
      y == Y0(c) - Without(DEBLOCK_DELAY_PX, HasAbove(c))
  IN IF ~HasRight(c) THEN {}
     ELSE UNION {Area(p, x \div Scale(p), y \div Scale(p), 1,
                      Extent(SizeY(c), HasBelow(c), HasAbove(c)) \div Scale(p)) : p \in Planes}

-----------------------------------------------------------------------------
(* SAO: encoder_sao_reconstruct.  The area runs from SAO_DELAY_PX before   *)
(* the LCU to SAO_DELAY_PX before its end.                                 *)

From(hasPrevious)   == -Without(SAO_DELAY_PX, hasPrevious)
To(size, hasNext)   == size - Without(SAO_DELAY_PX, hasNext)
SaoArea(c, p, left, above, right, below) ==
  LET s  == Scale(p)
      x0 == From(HasLeft(c)) \div s - left
      y0 == From(HasAbove(c)) \div s - above
      x2 == To(SizeX(c), HasRight(c)) \div s + right
      y2 == To(SizeY(c), HasBelow(c)) \div s + below
  IN Area(p, X0(c) \div s + x0, Y0(c) \div s + y0, x2 - x0, y2 - y0)

(* What sao_buf holds: the column on the left and the row above from the   *)
(* buffers, the column where both have a pixel, and the rest from          *)
(* frame->rec.                                                             *)
One(cond) == Without(1, cond)
FromRec(c)    == UNION {SaoArea(c, p, 0, 0, One(HasRight(c)), One(HasBelow(c))) : p \in Planes}
SaoReads(c)   == UNION {SaoArea(c, p, One(HasLeft(c)), One(HasAbove(c)), One(HasRight(c)),
                                One(HasBelow(c))) : p \in Planes}
FromColumn(c) == {px \in SaoReads(c) : \E p \in Planes : px[1] = p
                    /\ px[2] = X0(c) \div Scale(p) + From(HasLeft(c)) \div Scale(p) - 1}
FromRow(c)    == SaoReads(c) \ (FromRec(c) \cup FromColumn(c))

(* What is right in sao_buf.                                               *)
Good(c) == {px \in FromRec(c) : Deblocked(px)}
           \cup {px \in FromColumn(c) : <<"ver", px>> \in beforeSao}
           \cup {px \in FromRow(c) : <<"hor", px>> \in beforeSao}

(* g_sao_edge_offsets; kvz_sao_reconstruct leaves a pixel alone whose      *)
(* neighbours of a class are not both in the frame.                        *)
Classes == {{<<-1, 0>>, <<1, 0>>}, {<<0, -1>>, <<0, 1>>},
            {<<-1, -1>>, <<1, 1>>}, {<<1, -1>>, <<-1, 1>>}}
InFrame(px) == px[2] \in 0..(Width(px[1]) - 1) /\ px[3] \in 0..(Height(px[1]) - 1)
Beside(px, d) == <<px[1], px[2] + d[1], px[3] + d[2]>>
SaoInput(px) ==
  {px} \cup UNION {{Beside(px, d) : d \in k} :
                     k \in {j \in Classes : \A d \in j : InFrame(Beside(px, d))}}

SaoWrites(c) == UNION {SaoArea(c, p, 0, 0, 0, 0) : p \in Planes}

-----------------------------------------------------------------------------
(* The steps of encoder_state_worker_encode_lcu.                           *)

FilterInit ==
  /\ fr \in Frames
  /\ step = [c \in Lcus |-> "search"]
  /\ recon = {} /\ filtered = {} /\ final = {} /\ search = {} /\ beforeSao = {}

AfterSearch  == IF fr.deblock THEN "ver" ELSE IF fr.sao THEN "save" ELSE "done"
AfterDeblock == IF fr.sao THEN "save" ELSE "done"
Goes(c, next) == step' = [step EXCEPT ![c] = next]
MaySearch(c) == step[c] = "search" /\ \A d \in Neighbours(c) : step[d] = "done"

(* kvz_search_lcu, then encoder_state_recdata_to_bufs.                     *)
SearchLcu(c) ==
  /\ MaySearch(c) /\ Goes(c, AfterSearch)
  /\ UNCHANGED <<fr, filtered, final, beforeSao>>
  /\ recon' = recon \cup {c}
  /\ search' = search \cup {px \in LastRowAndColumn(c) : Unfiltered(px)'}

(* kvz_filter_deblock_lcu                                                  *)
DeblockVer(c) ==
  /\ step[c] = "ver" /\ Goes(c, "right")
  /\ filtered' = filtered \cup Inside(c, "ver")
  /\ UNCHANGED <<fr, recon, final, search, beforeSao>>
DeblockRightmost(c) ==
  /\ step[c] = "right" /\ Goes(c, "hor")
  /\ filtered' = filtered \cup Rightmost(c)
  /\ UNCHANGED <<fr, recon, final, search, beforeSao>>
DeblockHor(c) ==
  /\ step[c] = "hor" /\ Goes(c, AfterDeblock)
  /\ filtered' = filtered \cup Inside(c, "hor")
  /\ UNCHANGED <<fr, recon, final, search, beforeSao>>

SaveBeforeSao(c) ==
  /\ step[c] = "save" /\ Goes(c, "sao")
  /\ beforeSao' = beforeSao \cup ({"hor"} \X {px \in SavedRow(c) : Deblocked(px)})
                            \cup ({"ver"} \X {px \in SavedColumn(c) : Deblocked(px)})
  /\ UNCHANGED <<fr, recon, filtered, final, search>>

SaoReconstruct(c) ==
  /\ step[c] = "sao" /\ Goes(c, "done")
  /\ final' = final \cup SaoWrites(c)
  /\ UNCHANGED <<fr, recon, filtered, search, beforeSao>>

FrameDone == (\A c \in Lcus : step[c] = "done") /\ UNCHANGED filterVars

FilterNext ==
  \/ \E c \in Lcus :
       \/ SearchLcu(c) \/ DeblockVer(c) \/ DeblockRightmost(c) \/ DeblockHor(c)
       \/ SaveBeforeSao(c) \/ SaoReconstruct(c)
  \/ FrameDone

FilterSpec == FilterInit /\ [][FilterNext]_filterVars

-----------------------------------------------------------------------------
(* Properties.                                                             *)

(* Intra prediction in an LCU uses its neighbours before deblocking and    *)
(* SAO, which have changed the picture there by then: the buffers of search*)
(* hold all of them.                                                       *)
IntraReadsUnfiltered == \A c \in Lcus : MaySearch(c) => SearchReads(c) \subseteq search

(* Vertical edges are filtered once, before the horizontal edges of the    *)
(* same pixels, and those once, before SAO; however the jobs interleave.   *)
VerReady(s) == s \notin filtered /\ \A px \in ReadBy(s) :
                 LcuOf(px) \in recon /\ Hor(px) \cap filtered = {} /\ px \notin final
HorReady(s) == s \notin filtered /\ \A px \in ReadBy(s) :
                 LcuOf(px) \in recon /\ Ver(px) \subseteq filtered /\ px \notin final
DeblockedInOrder == \A c \in Lcus :
  /\ step[c] = "ver" => \A s \in Inside(c, "ver") : VerReady(s)
  /\ step[c] = "right" => \A s \in Rightmost(c) : HorReady(s)
  /\ step[c] = "hor" => \A s \in Inside(c, "hor") : HorReady(s)

(* SAO changes each pixel once, from pixels that have been deblocked and   *)
(* not yet changed by SAO, wherever it takes them from; and what intra     *)
(* prediction reads has not been filtered at all.                          *)
SaoReadsDeblocked == \A c \in Lcus : step[c] = "sao" =>
  /\ SaoWrites(c) \cap final = {}
  /\ \A px \in SaoWrites(c) : SaoInput(px) \subseteq Good(c)
FiltersInOrder == IntraReadsUnfiltered /\ DeblockedInOrder /\ SaoReadsDeblocked

(* The margin of fracmv_within_tile (src/src/search_inter.c): "make sure we*)
(* don't refer to pixels for which SAO reconstruction has not been done",  *)
(* or that have not been deblocked.  If all LCUs in the reach of an LCU    *)
(* have been encoded, then every pixel that its motion vectors may refer to*)
(* has its last value; a pixel outside stands for one at the border.       *)
WrongMargin == IF fr.sao \/ fr.deblock THEN DEBLOCK_DELAY_PX ELSE 0
Margin == IF fr.sao THEN SAO_DELAY_PX ELSE IF fr.deblock THEN DEBLOCK_DELAY_PX ELSE 0
Settled(px) == IF fr.sao THEN px \in final ELSE Deblocked(px)
Ahead(n) == (n + 1 + Margin) \div L   (* of the block that ends at n       *)
MayRefer(c, x, y) ==
  /\ Ahead(y) <= c[2] + Down
  /\ Ahead(x) + Ahead(y) <= c[1] + c[2] + Down + Right
Border(n, size) == IF n < size THEN n ELSE size - 1
ReferredPixelsFinal ==
  \A c \in Lcus : Reach(c) \subseteq {d \in Lcus : step[d] = "done"} =>
    \A x \in 0..(fr.W + L), y \in 0..(fr.H + L) : MayRefer(c, x, y) =>
      \A p \in Planes : Settled(<<p, Border(x \div Scale(p), Width(p)),
                                     Border(y \div Scale(p), Height(p))>>)
=============================================================================
