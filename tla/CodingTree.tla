------------------------------ MODULE CodingTree ------------------------------
(***************************************************************************)
(* The syntax of coding tree units: src/src/encode_coding_tree.c, with the *)
(* QP that kvz_set_cu_qps in encoderstate.c gives coding units without     *)
(* coefficients and the candidates of intra modes of intra.c.              *)
(*                                                                         *)
(* A picture is the sequence of its coding units in coding order, as the   *)
(* search leaves them in the CU array.  Coding it gives a sequence of      *)
(* syntax elements <<name, context, value>>; how a value becomes bins is   *)
(* in EntropyCoding.  The second half of the module parses such a sequence *)
(* in the way of clause 7.3.8 of the standard and has to get back the      *)
(* coding units.  MAX_DEPTH is a parameter, so that a small LCU has CUs of *)
(* all depths: a CU of depth 0 is larger than the largest transform and a  *)
(* CU of MAX_DEPTH is 8 pixels wide, as in the code.                       *)
(* Operators named Wrong... are plausible mistakes in the definition that  *)
(* follows them and are not part of the specification.                     *)
(***************************************************************************)
EXTENDS FiniteSets, SequencesExt, SyntaxReader

CONSTANTS
  MAX_DEPTH,       (* the depth of a CU of 8 pixels                        *)
  PictureConfigs,  (* records: width, height, slice, chroma, lossless, amp,*)
                   (* trDepthIntra, qpDelta, refs (ref_LX_size)            *)
  LcuQps,          (* the QPs that an LCU may get                          *)
  CuChoices(_, _)  (* the CUs that may be at a depth of a picture: records *)
                   (* without position and QP                              *)

VARIABLES
  pic,   (* the configuration                                              *)
  cus,   (* the CUs decided so far, in coding order                        *)
  lcuQp  (* the QP of the LCU that is searched                             *)
treeVars == <<pic, cus, lcuQp>>

LCU_WIDTH == 8 * 2^MAX_DEPTH
CuWidth(depth) == LCU_WIDTH \div 2^depth
SliceQp == 30
Covers(c, x, y) ==
  c.x <= x /\ x < c.x + CuWidth(c.depth) /\ c.y <= y /\ y < c.y + CuWidth(c.depth)
CuAt(list, x, y) == CHOOSE c \in ToSet(list) : Covers(c, x, y)
LcuAt(c) == <<c.x \div LCU_WIDTH, c.y \div LCU_WIDTH>>

(* kvz_part_mode_offsets, in quarters of the width of the CU.              *)
Offsets(part) ==
  CASE part = "2Nx2N" -> << <<0, 0>> >>
    [] part = "2NxN"  -> << <<0, 0>>, <<0, 2>> >>
    [] part = "Nx2N"  -> << <<0, 0>>, <<2, 0>> >>
    [] part = "NxN"   -> << <<0, 0>>, <<2, 0>>, <<0, 2>>, <<2, 2>> >>
    [] part = "2NxnU" -> << <<0, 0>>, <<0, 1>> >>
    [] part = "2NxnD" -> << <<0, 0>>, <<0, 3>> >>
    [] part = "nLx2N" -> << <<0, 0>>, <<1, 0>> >>
    [] part = "nRx2N" -> << <<0, 0>>, <<3, 0>> >>
PuX(c, i) == c.x + (Offsets(c.part)[i][1] * CuWidth(c.depth)) \div 4
PuY(c, i) == c.y + (Offsets(c.part)[i][2] * CuWidth(c.depth)) \div 4
NumPus(c) == Len(Offsets(c.part))

(* cbf_is_set: a transform block with coefficients of this colour in the   *)
(* block of the CU at the depth; chroma has no blocks of 4 luma pixels.    *)
CbfIsSet(c, x, y, depth, color) ==
  LET d == IF color = "y" THEN depth ELSE IF depth > MAX_DEPTH THEN MAX_DEPTH ELSE depth
      w == CuWidth(d)
  IN \E t \in c.coded : t[3] = color /\ (c.x + t[1]) \div w = x \div w /\ (c.y + t[2]) \div w = y \div w

-----------------------------------------------------------------------------
(* The search: CUs one after the other, in coding order.                   *)

RECURSIVE ZOrder(_, _, _)
ZOrder(x, y, w) ==
  IF w = 8 THEN << <<x, y>> >>
  ELSE LET h == w \div 2
       IN ZOrder(x, y, h) \o ZOrder(x + h, y, h) \o ZOrder(x, y + h, h) \o ZOrder(x + h, y + h, h)
LcuOrder(w, h) ==
  LET cols == (w + LCU_WIDTH - 1) \div LCU_WIDTH
      rows == (h + LCU_WIDTH - 1) \div LCU_WIDTH
  IN [i \in 1..(cols * rows) |->
        <<((i - 1) % cols) * LCU_WIDTH, ((i - 1) \div cols) * LCU_WIDTH>>]
Positions ==
  SelectSeq(FlattenSeq([i \in 1..Len(LcuOrder(pic.width, pic.height)) |->
                          ZOrder(LcuOrder(pic.width, pic.height)[i][1],
                                 LcuOrder(pic.width, pic.height)[i][2], LCU_WIDTH)]),
            LAMBDA p : p[1] < pic.width /\ p[2] < pic.height)
Uncovered == SelectSeq(Positions, LAMBDA p : \A i \in 1..Len(cus) : ~Covers(cus[i], p[1], p[2]))
Complete == Uncovered = <<>>

TreeInit == pic \in PictureConfigs /\ cus = <<>> /\ lcuQp = SliceQp

AddCu ==
  /\ ~Complete
  /\ LET p == Head(Uncovered) IN
     \E depth \in 0..MAX_DEPTH :
       /\ p[1] % CuWidth(depth) = 0 /\ p[1] + CuWidth(depth) <= pic.width
       /\ p[2] % CuWidth(depth) = 0 /\ p[2] + CuWidth(depth) <= pic.height
       /\ \E c \in CuChoices(pic, depth) :
            LET new == [x |-> p[1], y |-> p[2], depth |-> depth] @@ c IN
            /\ lcuQp' \in (IF cus # <<>> /\ LcuAt(Last(cus)) = LcuAt(new) THEN {lcuQp}
                           ELSE IF pic.qpDelta THEN LcuQps ELSE {SliceQp})
            /\ cus' = Append(cus, [qp |-> lcuQp'] @@ new)
  /\ UNCHANGED pic

TreeNext == AddCu \/ (Complete /\ UNCHANGED treeVars)
TreeSpec == TreeInit /\ [][TreeNext]_treeVars

-----------------------------------------------------------------------------
(* set_cu_qps: a CU before the first one with coefficients of its LCU gets *)
(* the QP that a decoder predicts.  The quantisation group is the LCU, so  *)
(* that kvz_get_cu_ref_qp is the QP of the last CU of the LCU before.      *)
SetCuQps(list) ==
  LET step(acc, c) ==
        LET first == acc.list = <<>> \/ LcuAt(Last(acc.list)) # LcuAt(c)
            last  == IF first /\ acc.list # <<>> THEN Last(acc.list).qp ELSE acc.last
            found == (~first /\ acc.found) \/ c.coded # {}
        IN [list |-> Append(acc.list, [c EXCEPT !.qp = IF found THEN c.qp ELSE last]),
            last |-> last, found |-> found]
  IN FoldLeft(step, [list |-> <<>>, last |-> SliceQp, found |-> FALSE], list).list
CodedCus == IF pic.qpDelta THEN SetCuQps(cus) ELSE cus

(* kvz_intra_get_dir_luma_predictor, and the neighbours that are given to  *)
(* it: not the one above across the border of the LCU.                     *)
ModeAt(list, x, y) ==
  LET c == CuAt(list, x, y)
      i == CHOOSE j \in 1..NumPus(c) :
             /\ PuX(c, j) <= x /\ PuY(c, j) <= y
             /\ \A k \in 1..NumPus(c) : PuX(c, k) <= x /\ PuY(c, k) <= y => k <= j
  IN IF c.type = "intra" THEN c.modes[i] ELSE 1
WrongAboveMode(list, x, y) == IF y > 0 THEN ModeAt(list, x, y - 1) ELSE 1
AboveMode(list, x, y) == IF y % LCU_WIDTH > 0 THEN ModeAt(list, x, y - 1) ELSE 1
Predictors(list, x, y) ==
  LET preds(left, above) ==
        IF left # above
          THEN <<left, above, IF left # 0 /\ above # 0 THEN 0 ELSE IF left + above < 2 THEN 26 ELSE 1>>
        ELSE IF left > 1 THEN <<left, ((left + 29) % 32) + 2, ((left - 1) % 32) + 2>>
        ELSE <<0, 1, 26>>
  IN preds(IF x > 0 THEN ModeAt(list, x - 1, y) ELSE 1, AboveMode(list, x, y))

-----------------------------------------------------------------------------
(* The coder: what has been written, must_code_qp_delta and last_qp.       *)

Emit(s, name, ctx, value) == [s EXCEPT !.out = Append(@, <<name, ctx, value>>)]
EmitIf(cond, s, name, ctx, value) == IF cond THEN Emit(s, name, ctx, value) ELSE s
Bypass == -1
Flag(b) == IF b THEN 1 ELSE 0
Abs(n) == IF n < 0 THEN -n ELSE n

(* encode_transform_unit: the chroma of four blocks of 4 pixels is coded   *)
(* after the luma of the last of them.                                     *)
TransformUnit(s, c, x, y, depth) ==
  LET small  == depth > MAX_DEPTH
      chroma == ~small \/ (x % 8 # 0 /\ y % 8 # 0)
      set(color) == CbfIsSet(c, x, y, depth, color)
      luma   == EmitIf(set("y"), s, "residual y", depth, 1)
      u      == EmitIf(chroma /\ set("u"), luma, "residual u", depth, 1)
  IN EmitIf(chroma /\ set("v"), u, "residual v", depth, 1)

QpDelta(s, c) ==
  IF s.must THEN [Emit(s, "cu_qp_delta", 0, c.qp - s.lastQp) EXCEPT !.must = FALSE] ELSE s

MaxTrDepth(c) ==
  IF c.type = "intra" THEN pic.trDepthIntra + Flag(c.part = "NxN") ELSE 0

RECURSIVE TransformCoeff(_, _, _, _, _, _, _, _)
TransformCoeff(s, c, x, y, depth, trDepth, parentU, parentV) ==
  LET split  == c.trDepth > depth
      u      == CbfIsSet(c, x, y, depth, "u")
      v      == CbfIsSet(c, x, y, depth, "v")
      luma   == CbfIsSet(c, x, y, depth, "y")
      chroma == depth <= MAX_DEPTH /\ pic.chroma
      half   == CuWidth(depth + 1)
      s1 == EmitIf(/\ depth > 0 /\ depth <= MAX_DEPTH /\ trDepth < MaxTrDepth(c)
                   /\ ~(c.type = "intra" /\ c.part = "NxN" /\ trDepth = 0),
                   s, "split_transform_flag", depth, Flag(split))
      s2 == EmitIf(chroma /\ (trDepth = 0 \/ parentU), s1, "cbf_cb", trDepth, Flag(u))
      s3 == EmitIf(chroma /\ (trDepth = 0 \/ parentV), s2, "cbf_cr", trDepth, Flag(v))
      s4 == EmitIf(c.type = "intra" \/ trDepth > 0 \/ u \/ v,
                   s3, "cbf_luma", Flag(trDepth = 0), Flag(luma))
  IN IF split
       THEN FoldLeft(LAMBDA acc, p : TransformCoeff(acc, c, p[1], p[2], depth + 1, trDepth + 1, u, v),
                     s3, << <<x, y>>, <<x + half, y>>, <<x, y + half>>, <<x + half, y + half>> >>)
     ELSE IF luma \/ u \/ v THEN TransformUnit(QpDelta(s4, c), c, x, y, depth)
     ELSE s4

(* kvz_encode_mvd                                                          *)
EncodeMvd(s, mvd) ==
  LET s1 == Emit(Emit(s, "greater0", 0, Flag(mvd[1] # 0)), "greater0", 0, Flag(mvd[2] # 0))
      s2 == EmitIf(mvd[2] # 0, EmitIf(mvd[1] # 0, s1, "greater1", 1, Flag(Abs(mvd[1]) > 1)),
                   "greater1", 1, Flag(Abs(mvd[2]) > 1))
      part(t, d) == EmitIf(d # 0, EmitIf(Abs(d) > 1, t, "abs_minus2", Bypass, Abs(d) - 2),
                           "sign", Bypass, Flag(d < 0))
  IN part(part(s2, mvd[1]), mvd[2])

(* encode_inter_prediction_unit; frame->ref_list is always REF_PIC_LIST_0. *)
RefList(s, pu, list) ==
  LET s1 == EmitIf(pic.refs[list] > 1, s, "ref_idx", 0, pu.ref[list])
  IN IF pu.dir = 3 - list THEN s
     ELSE Emit(EncodeMvd(s1, pu.mvd[list]), "mvp_flag", 0, pu.cand[list])
PredictionUnit(s, c, pu) ==
  LET s1 == Emit(s, "merge_flag", 0, Flag(pu.merged))
      s2 == EmitIf(c.part = "2Nx2N" \/ CuWidth(c.depth) # 8, s1, "inter_pred_bi", c.depth, Flag(pu.dir = 3))
      s3 == EmitIf(pu.dir < 3, s2, "inter_pred_list", 4, pu.dir - 1)
  IN IF pu.merged THEN Emit(s1, "merge_idx", 0, pu.idx)
     ELSE RefList(RefList(IF pic.slice = "B" THEN s3 ELSE s1, pu, 1), pu, 2)

(* encode_intra_coding_unit                                                *)
Reduced(mode, preds) ==
  LET sorted == SortSeq(preds, <)
      step(m, i) == IF m > sorted[i] THEN m - 1 ELSE m
  IN FoldLeft(step, mode, <<3, 2, 1>>)
ChromaModes == <<0, 26, 10, 1>>
ChromaIndex(c) ==
  LET same(mode) == {i \in 1..4 : ChromaModes[i] = mode}
  IN IF c.chromaMode = c.modes[1] THEN 4
     ELSE (CHOOSE i \in same(IF c.chromaMode = 34 THEN c.modes[1] ELSE c.chromaMode) : TRUE) - 1
IntraUnit(s, list, c) ==
  LET preds(i) == Predictors(list, PuX(c, i), PuY(c, i))
      pus      == [i \in 1..NumPus(c) |-> i]
      isMpm(mode, p) == \E k \in 1..3 : p[k] = mode
      code(t, mode, p) ==
        IF isMpm(mode, p) THEN Emit(t, "mpm_idx", Bypass, (CHOOSE k \in 1..3 : p[k] = mode) - 1)
        ELSE Emit(t, "rem_intra_luma_pred_mode", Bypass, Reduced(mode, p))
      flags  == FoldLeft(LAMBDA t, i : Emit(t, "prev_intra_luma_pred_flag", 0,
                                            Flag(isMpm(c.modes[i], preds(i)))), s, pus)
      luma   == FoldLeft(LAMBDA t, i : code(t, c.modes[i], preds(i)), flags, pus)
  IN TransformCoeff(EmitIf(pic.chroma, luma, "intra_chroma_pred_mode", 0, ChromaIndex(c)),
                    c, c.x, c.y, c.depth, 0, FALSE, FALSE)

(* encode_part_mode                                                        *)
Horizontal == {"2NxN", "2NxnU", "2NxnD"}
PartMode(s, c) ==
  LET s1 == Emit(s, "part_mode", 0, Flag(c.part = "2Nx2N"))
      s2 == Emit(s1, "part_mode", 1, Flag(c.part \in Horizontal))
      s3 == Emit(s2, "part_mode", 3, Flag(c.part \in {"2NxN", "Nx2N"}))
  IN IF c.type = "intra" THEN (IF c.depth = MAX_DEPTH THEN s1 ELSE s)
     ELSE IF c.part = "2Nx2N" THEN s1
     ELSE IF ~(pic.amp /\ c.depth < MAX_DEPTH) THEN s2
     ELSE IF c.part \in {"2NxN", "Nx2N"} THEN s3
     ELSE Emit(s3, "part_mode", Bypass, Flag(c.part \in {"2NxnD", "nRx2N"}))

Left(list, x, y, has(_))  == Flag(x > 0 /\ has(CuAt(list, x - 1, y)))
Above(list, x, y, has(_)) == Flag(y > 0 /\ has(CuAt(list, x, y - 1)))

CodingUnit(s, list, c) ==
  LET inSkip(n) == n.skipped
      skipCtx == Left(list, c.x, c.y, inSkip) + Above(list, c.x, c.y, inSkip)
      inter   == pic.slice # "I"
      s1 == EmitIf(pic.lossless, s, "cu_transquant_bypass_flag", 0, 1)
      s2 == EmitIf(inter, s1, "cu_skip_flag", skipCtx, Flag(c.skipped))
      s3 == PartMode(EmitIf(inter, s2, "pred_mode_flag", 0, Flag(c.type = "intra")), c)
      s4 == FoldLeft(LAMBDA acc, pu : PredictionUnit(acc, c, pu), s3, c.pus)
      s5 == EmitIf(c.part # "2Nx2N" \/ ~c.pus[1].merged, s4, "rqt_root_cbf", 0, Flag(c.coded # {}))
  IN IF c.skipped THEN Emit(s2, "merge_idx", 0, c.pus[1].idx)
     ELSE IF c.type = "intra" THEN IntraUnit(s3, list, c)
     ELSE IF c.coded # {} THEN TransformCoeff(s5, c, c.x, c.y, c.depth, 0, FALSE, FALSE)
     ELSE s5

(* kvz_encode_coding_tree, up to and including last_qp.                    *)
InPicture(x, y) == x < pic.width /\ y < pic.height
RECURSIVE CodingQuadtree(_, _, _, _, _)
CodingQuadtree(s0, list, x, y, depth) ==
  LET c      == CuAt(list, x, y)
      w      == CuWidth(depth)
      half   == w \div 2
      border == pic.width < x + w \/ pic.height < y + w
      deeper(n) == n.depth > depth
      s  == IF depth = 0 /\ pic.qpDelta THEN [s0 EXCEPT !.must = TRUE] ELSE s0
      s1 == EmitIf(~border /\ depth # MAX_DEPTH, s, "split_cu_flag",
                   Left(list, x, y, deeper) + Above(list, x, y, deeper), Flag(c.depth > depth))
      right == x + w
      last  == /\ right % LCU_WIDTH = 0 \/ right >= pic.width
               /\ (y + w) % LCU_WIDTH = 0 \/ y + w >= pic.height
      quarters == SelectSeq(<< <<x, y>>, <<x + half, y>>, <<x, y + half>>, <<x + half, y + half>> >>,
                            LAMBDA p : InPicture(p[1], p[2]))
  IN IF depth # MAX_DEPTH /\ (c.depth > depth \/ border)
       THEN FoldLeft(LAMBDA acc, p : CodingQuadtree(acc, list, p[1], p[2], depth + 1), s1, quarters)
     ELSE Then(CodingUnit(s1, list, c), LAMBDA s2 :
            IF pic.qpDelta /\ last THEN [s2 EXCEPT !.lastQp = c.qp] ELSE s2)

Syntax(list) ==
  FoldLeft(LAMBDA s, p : CodingQuadtree(s, list, p[1], p[2], 0),
           [out |-> <<>>, must |-> FALSE, lastQp |-> SliceQp], LcuOrder(pic.width, pic.height)).out

-----------------------------------------------------------------------------
(* A parser in the way of the standard: what is left of the input, whether *)
(* all elements so far were the expected ones, the value of the last one,  *)
(* and the CUs with their QPs.                                             *)

Code(d, x, y, color) == [d EXCEPT !.coded = @ \cup {<<x, y, color>>}]

(* transform_unit                                                          *)
ParseUnit(d, x, y, depth, blkIdx, cb, cr, luma) ==
  LET base == IF depth > MAX_DEPTH THEN <<8 * (x \div 8), 8 * (y \div 8)>> ELSE <<x, y>>
      chroma == depth <= MAX_DEPTH \/ blkIdx = 4
      delta == IF ~d.must THEN d
               ELSE Then(GetElem(d, "cu_qp_delta", 0), LAMBDA e : [e EXCEPT !.must = FALSE, !.delta = e.v])
      residual(coded, e, name, at, color) ==
        IF coded THEN Code(GetElem(e, name, depth), at[1], at[2], color) ELSE e
  IN IF luma = 1 \/ cb = 1 \/ cr = 1
       THEN Then(residual(luma = 1, delta, "residual y", <<x, y>>, "y"), LAMBDA e :
            Then(residual(chroma /\ cb = 1, e, "residual u", base, "u"), LAMBDA f :
              residual(chroma /\ cr = 1, f, "residual v", base, "v")))
     ELSE d

(* transform_tree                                                          *)
RECURSIVE ParseTree(_, _, _, _, _, _, _, _, _)
ParseTree(d, c, x, y, depth, trafoDepth, blkIdx, parentCb, parentCr) ==
  LET intraSplit == c.type = "intra" /\ c.part = "NxN"
      interSplit == c.type = "inter" /\ c.part # "2Nx2N" /\ trafoDepth = 0
      maxDepth   == IF c.type = "intra" THEN pic.trDepthIntra + Flag(intraSplit) ELSE 0
      half       == CuWidth(depth + 1)
      hasCbf(parent) == depth <= MAX_DEPTH /\ pic.chroma /\ (trafoDepth = 0 \/ parent = 1)
      inferred(parent) == IF depth > MAX_DEPTH /\ trafoDepth > 0 THEN parent ELSE 0
      at == << <<x, y>>, <<x + half, y>>, <<x, y + half>>, <<x + half, y + half>> >>
      parts(d0, cb, cr) ==
        FoldLeft(LAMBDA acc, i : ParseTree(acc, c, at[i][1], at[i][2], depth + 1, trafoDepth + 1, i, cb, cr),
                 d0, <<1, 2, 3, 4>>)
      unit(d0, cb, cr) ==
        Then(GetElemIf(c.type = "intra" \/ trafoDepth # 0 \/ cb = 1 \/ cr = 1,
                       d0, "cbf_luma", Flag(trafoDepth = 0), 1), LAMBDA dl :
          ParseUnit([dl EXCEPT !.trDepth = depth], x, y, depth, blkIdx, cb, cr, dl.v))
  IN Then(GetElemIf(/\ depth > 0 /\ depth <= MAX_DEPTH /\ trafoDepth < maxDepth
                    /\ ~(intraSplit /\ trafoDepth = 0), d, "split_transform_flag", depth,
                    Flag(depth = 0 \/ (intraSplit /\ trafoDepth = 0) \/ interSplit)), LAMBDA ds :
     Then(GetElemIf(hasCbf(parentCb), ds, "cbf_cb", trafoDepth, inferred(parentCb)), LAMBDA du :
     Then(GetElemIf(hasCbf(parentCr), du, "cbf_cr", trafoDepth, inferred(parentCr)), LAMBDA dv :
       IF ds.v = 1 THEN parts(dv, du.v, dv.v) ELSE unit(dv, du.v, dv.v))))

(* mvd_coding and prediction_unit                                          *)
ParseMvd(d) ==
  LET part(e, greater0, greater1, put(_, _)) ==
        Then(GetElemIf(greater1, e, "abs_minus2", Bypass, greater0 - 2), LAMBDA a :
        Then(GetElemIf(greater0 = 1, a, "sign", Bypass, 0), LAMBDA s :
          put(s, (a.v + 2) * (1 - 2 * s.v))))
  IN Then(GetElem(d, "greater0", 0), LAMBDA h :
     Then(GetElem(h, "greater0", 0), LAMBDA v :
     Then(GetElemIf(h.v = 1, v, "greater1", 1, 0), LAMBDA h1 :
     Then(GetElemIf(v.v = 1, h1, "greater1", 1, 0), LAMBDA v1 :
       part(part(v1, h.v, h1.v = 1, LAMBDA e, n : [e EXCEPT !.mvd[1] = n]),
            v.v, v1.v = 1, LAMBDA e, n : [e EXCEPT !.mvd[2] = n])))))
ParseList(d, list, dir) ==
  IF dir = 3 - list THEN [d EXCEPT !.v = <<0, <<0, 0>>, 0>>]
  ELSE Then(GetElemIf(pic.refs[list] > 1, d, "ref_idx", 0, 0), LAMBDA r :
       Then(GetElem(ParseMvd(r), "mvp_flag", 0), LAMBDA p :
         [p EXCEPT !.v = <<r.v, p.mvd, p.v>>]))
Merged(idx) == [merged |-> TRUE, idx |-> idx]
ParsePu(d, depth, part) ==
  LET add(e, pu) == [e EXCEPT !.pus = Append(@, pu)]
      lists(e, dir) ==
        Then(ParseList(e, 1, dir), LAMBDA l0 :
        Then(ParseList(l0, 2, dir), LAMBDA l1 :
          add(l1, [merged |-> FALSE, dir |-> dir, ref |-> <<l0.v[1], l1.v[1]>>,
                   mvd |-> <<l0.v[2], l1.v[2]>>, cand |-> <<l0.v[3], l1.v[3]>>])))
      notMerged(flag) ==
        Then(GetElemIf(pic.slice = "B" /\ ~(part # "2Nx2N" /\ CuWidth(depth) = 8),
                       flag, "inter_pred_bi", depth, 0), LAMBDA bi :
        Then(GetElemIf(pic.slice = "B" /\ bi.v = 0, bi, "inter_pred_list", 4, 0), LAMBDA uni :
          lists(uni, IF bi.v = 1 THEN 3 ELSE uni.v + 1)))
  IN Then(GetElem(d, "merge_flag", 0), LAMBDA flag :
       IF flag.v = 1 THEN Then(GetElem(flag, "merge_idx", 0), LAMBDA idx : add(idx, Merged(idx.v)))
       ELSE notMerged(flag))

(* Clause 8.4.2: the candidates of the intra mode of a prediction block.   *)
Candidates(list, x, y) ==
  LET third(a, b) == CASE a # 0 /\ b # 0 -> 0 [] a # 1 /\ b # 1 -> 1 [] OTHER -> 26
      three(a, b) == IF a # b THEN <<a, b, third(a, b)>>
                     ELSE IF a < 2 THEN <<0, 1, 26>>
                     ELSE <<a, 2 + ((a + 29) % 32), 2 + ((a - 2 + 1) % 32)>>
  IN three(IF x = 0 THEN 1 ELSE ModeAt(list, x - 1, y),
           IF y - 1 < LCU_WIDTH * (y \div LCU_WIDTH) THEN 1 ELSE ModeAt(list, x, y - 1))
ParseMode(d, cand) ==
  LET full(rem) == FoldLeft(LAMBDA m, k : IF m >= k THEN m + 1 ELSE m, rem, SortSeq(cand, <))
      add(e, mode) == [e EXCEPT !.modes = Append(@, mode)]
  IN IF d.flags[Len(d.modes) + 1] = 1
       THEN Then(GetElem(d, "mpm_idx", Bypass), LAMBDA e : add(e, cand[e.v + 1]))
     ELSE Then(GetElem(d, "rem_intra_luma_pred_mode", Bypass), LAMBDA e : add(e, full(e.v)))
ParseModes(d0, c0) ==
  LET pus == [i \in 1..NumPus(c0) |-> i]
      flag(d, i) == Then(GetElem(d, "prev_intra_luma_pred_flag", 0), LAMBDA e :
                      [e EXCEPT !.flags = Append(@, e.v)])
      mode(d, i) ==
        ParseMode(d, Candidates(Append(d.list, [c0 EXCEPT !.modes = d.modes]), PuX(c0, i), PuY(c0, i)))
      chosen(d) == IF d.v = 4 THEN d.modes[1] ELSE ChromaModes[d.v + 1]
      chroma(d) == IF d.v # 4 /\ chosen(d) = d.modes[1] THEN 34 ELSE chosen(d)
  IN Then(FoldLeft(mode, FoldLeft(flag, d0, pus), pus), LAMBDA d1 :
     Then(GetElemIf(pic.chroma, d1, "intra_chroma_pred_mode", 0, 4), LAMBDA d2 :
       [d2 EXCEPT !.chromaMode = IF pic.chroma THEN chroma(d2) ELSE 0]))

(* part_mode: Table 9-43 of the standard, the bins after the first.        *)
ParsePart(d, depth, intra) ==
  LET is(e, part) == [e EXCEPT !.part = part]
      amp == pic.amp /\ depth < MAX_DEPTH
      asymmetric(two, four) == IF two = 1 THEN (IF four = 0 THEN "2NxnU" ELSE "2NxnD")
                               ELSE IF four = 0 THEN "nLx2N" ELSE "nRx2N"
      rest(one) ==
        Then(GetElem(one, "part_mode", 1), LAMBDA two :
        Then(GetElemIf(amp, two, "part_mode", 3, 1), LAMBDA three :
          IF three.v = 1 THEN is(three, IF two.v = 1 THEN "2NxN" ELSE "Nx2N")
          ELSE Then(GetElem(three, "part_mode", Bypass), LAMBDA four :
                 is(four, asymmetric(two.v, four.v)))))
  IN Then(GetElemIf(~intra \/ depth = MAX_DEPTH, d, "part_mode", 0, 1), LAMBDA one :
       IF one.v = 1 THEN is(one, "2Nx2N") ELSE IF intra THEN is(one, "NxN") ELSE rest(one))

(* coding_unit, and the QP of clause 8.6.1.                                *)
Clean(d) == [d EXCEPT !.coded = {}, !.modes = <<>>, !.flags = <<>>, !.pus = <<>>, !.chromaMode = 0]
ParseCu(d0, x, y, depth) ==
  LET inSkip(n) == n.skipped
      ctx  == Left(d0.list, x, y, inSkip) + Above(d0.list, x, y, inSkip)
      inter == pic.slice # "I"
      cu(e, type, skipped) ==
        [x |-> x, y |-> y, depth |-> depth, type |-> type, skipped |-> skipped,
         part |-> e.part, trDepth |-> e.trDepth,
         coded |-> {<<t[1] - x, t[2] - y, t[3]>> : t \in e.coded}, modes |-> e.modes,
         chromaMode |-> e.chromaMode, pus |-> e.pus, qp |-> e.groupQp + e.delta]
      add(e, type, skipped) == [e EXCEPT !.list = Append(@, cu(e, type, skipped))]
      tree(e, type) == ParseTree(e, cu(e, type, FALSE), x, y, depth, 0, 1, 0, 0)
      skippedCu(e) == Then(GetElem(e, "merge_idx", 0), LAMBDA idx :
        add([idx EXCEPT !.pus = <<Merged(idx.v)>>, !.part = "2Nx2N"], "inter", TRUE))
      intraCu(e) == add(tree(ParseModes(e, cu(e, "intra", FALSE)), "intra"), "intra", FALSE)
      interCu(e) ==
        Then(FoldLeft(LAMBDA d, i : ParsePu(d, depth, e.part), e, Offsets(e.part)), LAMBDA pus :
        Then(GetElemIf(e.part # "2Nx2N" \/ ~pus.pus[1].merged, pus, "rqt_root_cbf", 0, 1), LAMBDA root :
          add(IF root.v = 1 THEN tree(root, "inter") ELSE root, "inter", FALSE)))
  IN Then(GetElemIf(pic.lossless, [Clean(d0) EXCEPT !.trDepth = depth], "cu_transquant_bypass_flag", 0, 1),
          LAMBDA d :
     Then(GetElemIf(inter, d, "cu_skip_flag", ctx, 0), LAMBDA skip :
       IF skip.v = 1 THEN skippedCu(skip)
       ELSE Then(GetElemIf(inter, skip, "pred_mode_flag", 0, 1), LAMBDA mode :
              IF mode.v = 1 THEN intraCu(ParsePart(mode, depth, TRUE))
              ELSE interCu(ParsePart(mode, depth, FALSE)))))

RECURSIVE ParseQuadtree(_, _, _, _)
ParseQuadtree(d0, x, y, depth) ==
  LET w    == CuWidth(depth)
      half == w \div 2
      fits == x + w <= pic.width /\ y + w <= pic.height
      deeper(n) == n.depth > depth
      new  == [d0 EXCEPT !.must = pic.qpDelta, !.delta = 0,
                         !.groupQp = IF d0.list = <<>> \/ ~pic.qpDelta THEN SliceQp ELSE Last(d0.list).qp]
      parts == SelectSeq(<< <<x, y>>, <<x + half, y>>, <<x, y + half>>, <<x + half, y + half>> >>,
                         LAMBDA p : p[1] < pic.width /\ p[2] < pic.height)
      deeperCtx == Left(d0.list, x, y, deeper) + Above(d0.list, x, y, deeper)
  IN Then(GetElemIf(fits /\ depth < MAX_DEPTH, IF depth = 0 THEN new ELSE d0, "split_cu_flag",
                    deeperCtx, Flag(depth < MAX_DEPTH)), LAMBDA s :
       IF ~s.ok THEN s
       ELSE IF s.v = 1 THEN FoldLeft(LAMBDA acc, p : ParseQuadtree(acc, p[1], p[2], depth + 1), s, parts)
       ELSE ParseCu(s, x, y, depth))

Parsed(syntax) ==
  FoldLeft(LAMBDA d, p : ParseQuadtree(d, p[1], p[2], 0),
           [in |-> syntax, ok |-> TRUE, v |-> 0, list |-> <<>>, must |-> FALSE, delta |-> 0,
            groupQp |-> SliceQp, trDepth |-> 0, coded |-> {}, modes |-> <<>>, flags |-> <<>>,
            pus |-> <<>>, chromaMode |-> 0, part |-> "2Nx2N", mvd |-> <<0, 0>>],
           LcuOrder(pic.width, pic.height))

-----------------------------------------------------------------------------
(* Properties.                                                             *)

(* A decoder that parses what is written gets the coding units that the    *)
(* search decided, with the modes, vectors, transform trees, coefficients  *)
(* and QPs that the encoder has used for them: every condition under which *)
(* an element is left out is the one under which a decoder infers it, the  *)
(* contexts are those of the neighbours that a decoder knows, and units    *)
(* without coefficients have the QP that deblocking in a decoder uses.     *)
(* Only the transform depth of a unit without residual is not transmitted. *)
ParserGetsCus ==
  LET seen(c) == IF c.skipped \/ (c.type = "inter" /\ c.coded = {})
                   THEN [c EXCEPT !.trDepth = c.depth] ELSE c
      same(list, coded) == list = [i \in 1..Len(coded) |-> seen(coded[i])]
  IN Complete =>
       Then(CodedCus, LAMBDA coded :
       Then(Parsed(Syntax(coded)), LAMBDA d : d.ok /\ d.in = <<>> /\ same(d.list, coded)))
=============================================================================
