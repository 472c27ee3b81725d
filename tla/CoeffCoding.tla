----------------------------- MODULE CoeffCoding -----------------------------
(***************************************************************************)
(* The levels of a transform block: quantisation and sign bit hiding       *)
(* (strategies/generic/quant-generic.c, rdo.c), the coding of the levels   *)
(* (kvz_encode_coeff_nxn in encode_coding_tree.c) and its contexts         *)
(* (context.c).                                                            *)
(*                                                                         *)
(* A coefficient is a number of eighths of the quantisation step.  The     *)
(* costs by which RDOQ decides are not modelled: it may decide for any of  *)
(* the levels that it considers.  The second half of the module parses the *)
(* syntax in the way of clause 7.3.8.11 of the standard.  Operators named  *)
(* Wrong... are plausible mistakes and not part of the specification.      *)
(***************************************************************************)
EXTENDS FiniteSets, SequencesExt, SyntaxReader

CONSTANT Blocks
  (* records: color ("y" or "c"), type ("intra" or "inter"), mode, depth,  *)
  (* coefs (a function of some positions), rdoq, slice, trskip, signhide,  *)
  (* lossless                                                              *)

VARIABLES
  block,   (* the block that is coded                                      *)
  levels   (* its levels, once it is quantised                             *)
coeffVars == <<block, levels>>

Smaller(a, b) == IF a < b THEN a ELSE b
Magnitude(n)  == IF n < 0 THEN -n ELSE n

-----------------------------------------------------------------------------
(* The order of coefficients.                                              *)

BlockWidth(b) == IF b.color = "y" \/ b.depth = 4 THEN 64 \div 2^b.depth ELSE 32 \div 2^b.depth
(* kvz_get_scan_order                                                      *)
ScanOrder(b) ==
  IF b.type = "intra" /\ b.depth >= 3 /\ b.mode \in 6..14 THEN "ver"
  ELSE IF b.type = "intra" /\ b.depth >= 3 /\ b.mode \in 22..30 THEN "hor" ELSE "diag"
(* The tables of tables.c: positions <<x, y>> of a square.                 *)
Before(scan, p, q) ==
  CASE scan = "diag" -> p[1] + p[2] < q[1] + q[2] \/ (p[1] + p[2] = q[1] + q[2] /\ p[1] < q[1])
    [] scan = "hor"  -> p[2] < q[2] \/ (p[2] = q[2] /\ p[1] < q[1])
    [] scan = "ver"  -> p[1] < q[1] \/ (p[1] = q[1] /\ p[2] < q[2])
ScanTable ==
  [n \in {1, 2, 4}, scan \in {"diag", "hor", "ver"} |->
     SortSeq([i \in 1..(n * n) |-> <<(i - 1) % n, (i - 1) \div n>>], LAMBDA p, q : Before(scan, p, q))]
Scan(n, scan) == ScanTable[n, scan]
(* Groups and the positions in them count from 0, as in the code.          *)
Groups(b) == Scan(BlockWidth(b) \div 4, ScanOrder(b))
GroupAt(b, g) == Groups(b)[g + 1]
PosAt(b, g, n) ==
  LET cg == GroupAt(b, g)
      p  == Scan(4, ScanOrder(b))[n + 1]
  IN <<4 * cg[1] + p[1], 4 * cg[2] + p[2]>>
LastGroup(b) == Len(Groups(b)) - 1
Positions4(b) == (0..(BlockWidth(b) - 1)) \X (0..(BlockWidth(b) - 1))
InGroup(l, b, g) == {n \in 0..15 : l[PosAt(b, g, n)] # 0}
LastPos(l, b, g)  == CHOOSE n \in InGroup(l, b, g) : \A m \in InGroup(l, b, g) : m <= n
FirstPos(l, b, g) == CHOOSE n \in InGroup(l, b, g) : \A m \in InGroup(l, b, g) : m >= n
CodedGroups(l, b) == {g \in 0..LastGroup(b) : InGroup(l, b, g) # {}}
LastCoded(l, b) == CHOOSE g \in CodedGroups(l, b) : \A h \in CodedGroups(l, b) : h <= g

-----------------------------------------------------------------------------
(* kvz_quant and kvz_rdoq, with 9 bits of fraction.                        *)

Coef(b, p) == IF p \in DOMAIN b.coefs THEN b.coefs[p] ELSE 0
Signed(b, p, level) == IF Coef(b, p) < 0 THEN -level ELSE level
SumOfLevels(l) ==
  FoldFunctionOnSet(LAMBDA v, sum : sum + Magnitude(v), 0, l, {p \in DOMAIN l : l[p] # 0})

PlainLevel(b, p) ==
  (64 * Magnitude(Coef(b, p)) + (IF b.slice = "I" THEN 171 ELSE 85)) \div 512
Delta(b, p) == (64 * Magnitude(Coef(b, p)) - 512 * PlainLevel(b, p)) \div 2

(* kvz_get_coded_level: the levels that may be the best.                   *)
MaxLevel(b, p) == (64 * Magnitude(Coef(b, p)) + 256) \div 512
RdoqChoices(b, p, last) ==
  LET max == MaxLevel(b, p)
  IN (IF max = 0 THEN {} ELSE {max, IF max > 1 THEN max - 1 ELSE 1})
     \cup (IF ~last /\ max < 3 THEN {0} ELSE {})
(* All choices of levels, groups that are reset to 0 and last coefficients.*)
RdoqLevels(b) ==
  LET max  == [p \in Positions4(b) |-> MaxLevel(b, p)]
      last == PosAt(b, LastCoded(max, b), LastPos(max, b, LastCoded(max, b)))
      sig  == {p \in Positions4(b) : max[p] # 0}
      full == {f \in [sig -> UNION {RdoqChoices(b, p, p = last) : p \in sig}] :
                 \A p \in sig : f[p] \in RdoqChoices(b, p, p = last)}
      groups(f) == {g \in 1..(LastCoded(max, b) - 1) : \E p \in sig : p[1] \div 4 = GroupAt(b, g)[1]
                                                      /\ p[2] \div 4 = GroupAt(b, g)[2]}
      zeroed(f, zero) ==
        [p \in Positions4(b) |->
           IF p \notin sig \/ \E g \in zero : GroupAt(b, g) = <<p[1] \div 4, p[2] \div 4>> THEN 0 ELSE f[p]]
      order(p) == CHOOSE k \in 0..(16 * Len(Groups(b)) - 1) : PosAt(b, k \div 16, k % 16) = p
      ends(l) == {p \in sig : l[p] # 0 /\ \A q \in sig : order(q) > order(p) => l[q] <= 1}
      cut(l, p) == [q \in Positions4(b) |-> IF order(q) > order(p) THEN 0 ELSE Signed(b, q, l[q])]
  IN IF sig = {} THEN {max}
     ELSE {[p \in Positions4(b) |-> 0]} \cup
          UNION {{cut(l, p) : p \in ends(l)} :
                   l \in UNION {{zeroed(f, zero) : zero \in SUBSET groups(f)} : f \in full}}

-----------------------------------------------------------------------------
(* Sign bit hiding: in a group where the distance of the first and the last*)
(* coefficient is 4 or more, the parity of the sum gives the first sign.   *)

HidesSign(l, b, g) ==
  InGroup(l, b, g) # {} /\ LastPos(l, b, g) - FirstPos(l, b, g) >= 4
SumInGroup(l, b, g) == SumOfLevels([n \in 0..15 |-> l[PosAt(b, g, n)]])
SignBit(l, b, g) == IF l[PosAt(b, g, FirstPos(l, b, g))] > 0 THEN 0 ELSE 1
MustChange(l, b, g) == HidesSign(l, b, g) /\ SignBit(l, b, g) # SumInGroup(l, b, g) % 2

(* The changes <<position, change>> of kvz_rdoq_sign_hiding: any of them   *)
(* may be the cheapest.                                                    *)
Candidates4(l, b, g, lastGroup) ==
  0..(IF g = lastGroup THEN LastPos(l, b, g) ELSE 15)
WrongChanges(l, b, g, lastGroup) == {<<n, 1>> : n \in Candidates4(l, b, g, lastGroup)}
Changes(l, b, g, lastGroup) ==
  LET at(n)   == l[PosAt(b, g, n)]
      first   == FirstPos(l, b, g)
      sign(n) == IF Coef(b, PosAt(b, g, n)) >= 0 THEN 0 ELSE 1
  IN {<<n, 1>> : n \in {m \in Candidates4(l, b, g, lastGroup) :
                          ~(at(m) = 0 /\ m < first /\ sign(m) # SignBit(l, b, g))}}
     \cup {<<n, -1>> : n \in {m \in Candidates4(l, b, g, lastGroup) :
                                at(m) # 0 /\ ~(m = first /\ Magnitude(at(m)) = 1)}}
(* kvz_quant takes the change of the coefficient that is nearest to the    *)
(* next level, and of two of them the one that is later in scan order.     *)
Cheapest(side, cost(_)) ==
  {c \in side : \A d \in side : cost(c) < cost(d) \/ (cost(c) = cost(d) /\ c[1] >= d[1])}
PlainChanges(l, b, g, lastGroup) ==
  LET delta(c) == Delta(b, PosAt(b, g, c[1]))
      zero(c)  == l[PosAt(b, g, c[1])] = 0
  IN Cheapest({c \in Changes(l, b, g, lastGroup) : zero(c) \/ c[2] = (IF delta(c) > 0 THEN 1 ELSE -1)},
              LAMBDA c : -c[2] * delta(c))
Changed(l, b, p, change) ==
  [l EXCEPT ![p] = IF Coef(b, p) >= 0 THEN @ + change ELSE @ - change]
Hidden(b, l) ==
  LET changed(m, g, last) ==
        {Changed(m, b, PosAt(b, g, c[1]), c[2]) :
           c \in IF b.rdoq THEN Changes(m, b, g, last) ELSE PlainChanges(m, b, g, last)}
      groups(last) ==
        FoldLeft(LAMBDA set, g : UNION {IF MustChange(m, b, g) THEN changed(m, g, last) ELSE {m} : m \in set},
                 {l}, [i \in 1..(last + 1) |-> last + 1 - i])
  IN IF ~b.signhide \/ SumOfLevels(l) < 2 THEN {l} ELSE groups(LastCoded(l, b))

CoeffInit == block \in Blocks /\ levels = <<>>

(* kvz_quantize_residual                                                   *)
Quantize ==
  /\ levels = <<>>
  /\ levels' \in UNION {Hidden(block, l) :
                          l \in IF block.rdoq THEN RdoqLevels(block)
                                ELSE {[p \in Positions4(block) |->
                                         Signed(block, p, PlainLevel(block, p))]}}
  /\ UNCHANGED block
CoeffDone == levels # <<>> /\ UNCHANGED coeffVars
CoeffNext == Quantize \/ CoeffDone
CoeffSpec == CoeffInit /\ [][CoeffNext]_coeffVars

-----------------------------------------------------------------------------
(* kvz_encode_coeff_nxn: the syntax elements <<name, context, value>>.     *)

Elem(s, name, ctx, value) == Append(s, <<name, ctx, value>>)
ElemIf(cond, s, name, ctx, value) == IF cond THEN Elem(s, name, ctx, value) ELSE s
EpContext == -1

GroupIdx == <<0, 1, 2, 3, 4, 4, 5, 5, 6, 6, 6, 6, 7, 7, 7, 7>>
MinInGroup == <<0, 1, 2, 3, 4, 6, 8, 12>>

(* encode_last_significant_xy: the prefixes are unary.                     *)
LastContext(b) ==
  LET index == CHOOSE k \in 0..3 : BlockWidth(b) = 4 * 2^k
  IN IF b.color = "y" THEN [offset |-> index * 3 + (index + 1) \div 4, shift |-> (index + 3) \div 4]
     ELSE [offset |-> 0, shift |-> index]
LastPrefix(s, b, name, idx) ==
  LET max == GroupIdx[BlockWidth(b)]
      ctx(i) == LastContext(b).offset + i \div 2^LastContext(b).shift
      ones == FoldLeft(LAMBDA acc, i : Elem(acc, name, ctx(i - 1), 1), s, [i \in 1..idx |-> i])
  IN ElemIf(idx < max, ones, name, ctx(idx), 0)
LastSuffix(s, name, pos) ==
  LET idx == GroupIdx[pos + 1]
  IN ElemIf(idx > 3, s, name, (idx - 2) \div 2, pos - MinInGroup[idx + 1])
LastXY(s, b, pos) ==
  LET x == IF ScanOrder(b) = "ver" THEN pos[2] ELSE pos[1]
      y == IF ScanOrder(b) = "ver" THEN pos[1] ELSE pos[2]
      prefixes == LastPrefix(LastPrefix(s, b, "last_x", GroupIdx[x + 1]), b, "last_y", GroupIdx[y + 1])
  IN LastSuffix(LastSuffix(prefixes, "last_x_suffix", x), "last_y_suffix", y)

(* kvz_context_get_sig_coeff_group, _calc_pattern_sig_ctx and _get_sig_ctx_inc*)
RightOf(cg) == <<cg[1] + 1, cg[2]>>
BelowOf(cg) == <<cg[1], cg[2] + 1>>
GroupContext(sig, cg) == IF RightOf(cg) \in sig \/ BelowOf(cg) \in sig THEN 1 ELSE 0
Pattern(sig, cg) ==
  (IF RightOf(cg) \in sig THEN 1 ELSE 0) + (IF BelowOf(cg) \in sig THEN 2 ELSE 0)
SigContext(b, pattern, p) ==
  LET map == <<0, 1, 4, 5, 2, 3, 4, 5, 6, 6, 8, 8, 7, 7, 8, 8>>
      x   == p[1] % 4
      y   == p[2] % 4
      twoOne(n) == IF n = 0 THEN 2 ELSE IF n = 1 THEN 1 ELSE 0
      cnt == CASE pattern = 0 -> IF x + y = 0 THEN 2 ELSE IF x + y <= 2 THEN 1 ELSE 0
               [] pattern = 1 -> twoOne(y)
               [] pattern = 2 -> twoOne(x)
               [] pattern = 3 -> 2
      offset == IF BlockWidth(b) = 8 THEN (IF ScanOrder(b) = "diag" THEN 9 ELSE 15)
                ELSE IF b.color = "y" THEN 21 ELSE 12
  IN IF p = <<0, 0>> THEN 0
     ELSE IF BlockWidth(b) = 4 THEN map[4 * p[2] + p[1] + 1]
     ELSE (IF b.color = "y" /\ p[1] \div 4 + p[2] \div 4 > 0 THEN 3 ELSE 0) + offset + cnt

(* A group: its flags, levels and signs; c1 goes on from group to group.   *)
SigFlags(s, b, l, g, isLast, pattern) ==
  LET some(n) == \E m \in (n + 1)..15 : l[PosAt(b, g, m)] # 0
      flag(acc, n, p) ==
        ElemIf(n > 0 \/ g = 0 \/ some(n), acc, "sig", SigContext(b, pattern, p), IF l[p] # 0 THEN 1 ELSE 0)
      all(count) == FoldLeft(LAMBDA acc, i : flag(acc, count - i, PosAt(b, g, count - i)), s,
                             [i \in 1..count |-> i])
  IN all(IF isLast THEN LastPos(l, b, g) ELSE 16)

LevelsOf(l, b, g) ==   (* in the order in which they are coded            *)
  SelectSeq([i \in 1..16 |-> l[PosAt(b, g, 16 - i)]], LAMBDA v : v # 0)
NextC1(c1, flag) == IF flag = 1 THEN 0 ELSE IF c1 \in 1..2 THEN c1 + 1 ELSE c1
BaseLevel(idx, first2) == IF idx <= 8 THEN 2 + first2 ELSE 1
GreaterFlags(s, v, set) ==
  LET one(t, i) == Then(IF Magnitude(v[i]) > 1 THEN 1 ELSE 0, LAMBDA f :
                     [out |-> Elem(t.out, "greater1", 4 * set + t.c1, f), c1 |-> NextC1(t.c1, f)])
      big == {i \in 1..Smaller(Len(v), 8) : Magnitude(v[i]) > 1}
      two(out) == IF big = {} THEN out
                  ELSE Then(CHOOSE k \in big : \A m \in big : k <= m, LAMBDA i :
                         Elem(out, "greater2", set, IF Magnitude(v[i]) > 2 THEN 1 ELSE 0))
  IN Then(FoldLeft(one, [out |-> s, c1 |-> 1], [i \in 1..Smaller(Len(v), 8) |-> i]), LAMBDA ones :
       [ones EXCEPT !.out = two(@)])
Signs(s, v, n) ==
  FoldLeft(LAMBDA t, i : Elem(t, "sign", EpContext, IF v[i] < 0 THEN 1 ELSE 0), s, [i \in 1..n |-> i])
Remaining(s, v) ==
  LET step(t, i, abs, base) ==
        [out |-> ElemIf(abs >= base, t.out, "remaining", t.rice, abs - base),
         rice |-> IF abs >= base /\ abs > 3 * 2^t.rice THEN Smaller(t.rice + 1, 4) ELSE t.rice,
         first2 |-> IF abs >= 2 THEN 0 ELSE t.first2]
  IN FoldLeft(LAMBDA t, i : step(t, i, Magnitude(v[i]), BaseLevel(i, t.first2)),
              [out |-> s, rice |-> 0, first2 |-> 1], [i \in 1..Len(v) |-> i]).out
GroupLevels(acc, b, l, g) ==
  LET set  == (IF g > 0 /\ b.color = "y" THEN 2 ELSE 0) + (IF acc.c1 = 0 THEN 1 ELSE 0)
      hide == b.signhide /\ ~b.lossless /\ HidesSign(l, b, g)
      coded(v) ==
        Then(GreaterFlags(acc.out, v, set), LAMBDA t :
        Then(Signs(t.out, v, IF hide THEN Len(v) - 1 ELSE Len(v)), LAMBDA s :
          [out |-> IF t.c1 = 0 \/ Len(v) > 8 THEN Remaining(s, v) ELSE s, c1 |-> t.c1]))
  IN Then(LevelsOf(l, b, g), LAMBDA v : IF v = <<>> THEN acc ELSE coded(v))

CodeGroup(acc, b, l, g, last, sig, cg) ==
  Then(ElemIf(g # last /\ g # 0, acc.out, "coded_sub_block_flag", GroupContext(sig, cg),
              IF cg \in sig THEN 1 ELSE 0), LAMBDA out :
    IF cg \in sig \/ g = 0
      THEN GroupLevels([acc EXCEPT !.out = SigFlags(out, b, l, g, g = last, Pattern(sig, cg))], b, l, g)
    ELSE [acc EXCEPT !.out = out])
CoeffSyntax(b, l) ==
  LET head == ElemIf(BlockWidth(b) = 4 /\ b.trskip, <<>>, "transform_skip_flag", 0, 0)
      groups(last, sig) ==
        FoldLeft(LAMBDA acc, g : CodeGroup(acc, b, l, g, last, sig, GroupAt(b, g)),
                 [out |-> LastXY(head, b, PosAt(b, last, LastPos(l, b, last))), c1 |-> 1],
                 [i \in 1..(last + 1) |-> last + 1 - i])
  IN groups(LastCoded(l, b), {GroupAt(b, g) : g \in CodedGroups(l, b)}).out

-----------------------------------------------------------------------------
(* A parser in the way of the standard.                                    *)

GetUnary(d, name, ctx(_), max) ==
  LET step(acc, i) ==
        IF acc.stop THEN acc
        ELSE Then(GetElem(acc.d, name, ctx(i - 1)), LAMBDA e :
               [d |-> [e EXCEPT !.v = IF e.v = 1 THEN i ELSE i - 1], stop |-> e.v = 0])
  IN FoldLeft(step, [d |-> [d EXCEPT !.v = 0], stop |-> FALSE], [i \in 1..max |-> i]).d

(* Clause 7.4.9.11: only blocks of 4 pixels, and of 8 luma pixels, are     *)
(* scanned by their mode.                                                  *)
StdScan(b) ==
  IF b.type = "intra" /\ (BlockWidth(b) = 4 \/ (BlockWidth(b) = 8 /\ b.color = "y"))
    THEN IF b.mode \in 6..14 THEN "ver" ELSE IF b.mode \in 22..30 THEN "hor" ELSE "diag"
  ELSE "diag"
StdPos(b, i, n) ==
  LET cg == Scan(BlockWidth(b) \div 4, StdScan(b))[i + 1]
      p  == Scan(4, StdScan(b))[n + 1]
  IN <<4 * cg[1] + p[1], 4 * cg[2] + p[2]>>
StdLog2(b) == CHOOSE k \in 2..5 : BlockWidth(b) = 2^k

(* Clause 9.3.4.2.5                                                        *)
StdSigContext(b, csbf, p) ==
  LET xS == p[1] \div 4   yS == p[2] \div 4   xP == p[1] % 4   yP == p[2] % 4
      prev == (IF <<xS + 1, yS>> \in csbf THEN 1 ELSE 0) + (IF <<xS, yS + 1>> \in csbf THEN 2 ELSE 0)
      base == CASE prev = 0 -> (IF xP + yP = 0 THEN 2 ELSE IF xP + yP < 3 THEN 1 ELSE 0)
                [] prev = 1 -> (IF yP = 0 THEN 2 ELSE IF yP = 1 THEN 1 ELSE 0)
                [] prev = 2 -> (IF xP = 0 THEN 2 ELSE IF xP = 1 THEN 1 ELSE 0)
                [] prev = 3 -> 2
  IN IF BlockWidth(b) = 4 THEN <<0, 1, 4, 5, 2, 3, 4, 5, 6, 6, 8, 8, 7, 7, 8>>[4 * p[2] + p[1] + 1]
     ELSE IF p = <<0, 0>> THEN 0
     ELSE IF b.color = "y"
       THEN base + (IF <<xS, yS>> # <<0, 0>> THEN 3 ELSE 0)
            + (IF BlockWidth(b) = 8 THEN (IF StdScan(b) = "diag" THEN 9 ELSE 15) ELSE 21)
     ELSE base + (IF BlockWidth(b) = 8 THEN 9 ELSE 12)

ParseLast(d0, b) ==
  LET log2   == StdLog2(b)
      ctx(i) == IF b.color = "y" THEN 3 * (log2 - 2) + (log2 - 1) \div 4 + i \div 2^((log2 + 1) \div 4)
                ELSE i \div 2^(log2 - 2)
      bits(n) == n \div 2 - 1
      last(p, suffix) == IF p <= 3 THEN p ELSE 2^bits(p) * (2 + (p % 2)) + suffix
      swap(x, y) == IF StdScan(b) = "ver" THEN <<y, x>> ELSE <<x, y>>
  IN Then(GetUnary(d0, "last_x", ctx, 2 * log2 - 1), LAMBDA xp :
     Then(GetUnary(xp, "last_y", ctx, 2 * log2 - 1), LAMBDA yp :
     Then(GetElemIf(xp.v > 3, yp, "last_x_suffix", bits(xp.v), 0), LAMBDA xs :
     Then(GetElemIf(yp.v > 3, xs, "last_y_suffix", bits(yp.v), 0), LAMBDA ys :
       [ys EXCEPT !.v = swap(last(xp.v, xs.v), last(yp.v, ys.v))]))))

(* The levels of a group, when the positions of its coefficients are known *)
(* (ns, from the last one): greater1 flags, one greater2 flag, signs and   *)
(* what remains.                                                           *)
ParseGreater1(d, set, n) ==
  LET one(acc, k) ==
        Then(GetElem(acc[1], "greater1", 4 * set + Smaller(3, acc[2])), LAMBDA e :
          <<e, IF e.v = 1 \/ acc[2] = 0 THEN 0 ELSE acc[2] + 1, Append(acc[3], e.v)>>)
  IN FoldLeft(one, <<d, 1, <<>>>>, [k \in 1..Smaller(n, 8) |-> k])
ParseSigns(d, n) ==
  LET sign(acc, k) == Then(GetElem(acc[1], "sign", EpContext), LAMBDA e : <<e, Append(acc[2], e.v)>>)
  IN FoldLeft(sign, <<d, <<>>>>, [k \in 1..n |-> k])
ParseRemaining(d0, b, i, ns, g1, first, two, hidden, signs) ==
  LET base(k) == 1 + (IF k <= 8 THEN g1[k] ELSE 0) + (IF k \in first THEN two ELSE 0)
      more(k) == base(k) = (IF k <= 8 THEN (IF k \in first THEN 3 ELSE 2) ELSE 1)
      neg(k, sum) == IF hidden /\ k = Len(ns) THEN sum % 2 ELSE signs[k]
      put(acc, k, d, abs) ==
        [d |-> [d EXCEPT !.levels[StdPos(b, i, ns[k])] = IF neg(k, acc.sum + abs) = 1 THEN -abs ELSE abs],
         rice |-> IF more(k) /\ abs > 3 * 2^acc.rice THEN Smaller(acc.rice + 1, 4) ELSE acc.rice,
         sum |-> acc.sum + abs]
      level(acc, k) ==
        Then(GetElemIf(more(k), acc.d, "remaining", acc.rice, 0), LAMBDA e : put(acc, k, e, base(k) + e.v))
  IN FoldLeft(level, [d |-> d0, rice |-> 0, sum |-> 0], [k \in 1..Len(ns) |-> k]).d
ParseLevels(d0, b, i, ns) ==
  LET n == Len(ns)
      set == (IF i = 0 \/ b.color = "c" THEN 0 ELSE 2) + (IF d0.ctx1 = 0 THEN 1 ELSE 0)
      hidden == b.signhide /\ ~b.lossless /\ ns[1] - ns[n] > 3
      first(g1) == {k \in DOMAIN g1 : g1[k] = 1 /\ \A m \in 1..(k - 1) : g1[m] = 0}
  IN Then(ParseGreater1(d0, set, n), LAMBDA ones :
     Then(GetElemIf(first(ones[3]) # {}, ones[1], "greater2", set, 0), LAMBDA two :
     Then(ParseSigns(two, IF hidden THEN n - 1 ELSE n), LAMBDA signs :
       [ParseRemaining(signs[1], b, i, ns, ones[3], first(ones[3]), two.v, hidden, signs[2])
          EXCEPT !.ctx1 = ones[2]])))

(* The flags of group i, from the position that is given, then its levels. *)
ParseSigs(d, b, i, csbf, infer, from, ns) ==
  LET step(acc, k) ==
        LET n == from + 1 - k
        IN Then(GetElemIf(n > 0 \/ ~acc.infer, acc.d, "sig", StdSigContext(b, csbf, StdPos(b, i, n)), 1),
                LAMBDA e : [d |-> e, infer |-> acc.infer /\ e.v = 0,
                            ns |-> IF e.v = 1 THEN Append(acc.ns, n) ELSE acc.ns])
  IN FoldLeft(step, [d |-> d, infer |-> infer, ns |-> ns], [k \in 1..(from + 1) |-> k])
ParseGroup(d, b, i, at) ==   (* at: where the last coefficient is          *)
  LET cg    == Scan(BlockWidth(b) \div 4, StdScan(b))[i + 1]
      near  == <<cg[1] + 1, cg[2]>> \in d.csbf \/ <<cg[1], cg[2] + 1>> \in d.csbf
      isLast == i = at \div 16
      sigs(c) == ParseSigs([c EXCEPT !.csbf = @ \cup {cg}], b, i, c.csbf, ~isLast /\ i > 0,
                           IF isLast THEN (at % 16) - 1 ELSE 15, IF isLast THEN <<at % 16>> ELSE <<>>)
      rest(s) == IF s.ns = <<>> THEN s.d ELSE ParseLevels(s.d, b, i, s.ns)
  IN IF ~d.ok THEN d
     ELSE Then(GetElemIf(~isLast /\ i > 0, d, "coded_sub_block_flag", IF near THEN 1 ELSE 0, 1), LAMBDA c :
            IF c.v = 0 THEN c ELSE rest(sigs(c)))

ParsedLevels(b, syntax) ==
  LET w    == BlockWidth(b)
      d0   == [in |-> syntax, ok |-> TRUE, v |-> 0, levels |-> [p \in Positions4(b) |-> 0],
               ctx1 |-> 1, csbf |-> {}]
      at(pos) == CHOOSE k \in 0..(w * w - 1) : StdPos(b, k \div 16, k % 16) = pos
      groups(d, k) ==
        FoldLeft(LAMBDA e, i : ParseGroup(e, b, i, k), d, [i \in 1..(k \div 16 + 1) |-> k \div 16 + 1 - i])
  IN Then(GetElemIf(w = 4 /\ b.trskip, d0, "transform_skip_flag", 0, 0), LAMBDA d1 :
     Then(ParseLast(d1, b), LAMBDA d2 : groups(d2, at(d2.v))))

-----------------------------------------------------------------------------
(* Properties.                                                             *)

(* A decoder gets the levels of every block, whichever way the quantiser   *)
(* decides: with the sign that is hidden in the parity of a group, even    *)
(* when the change that was made for the parity has moved the first or the *)
(* last coefficient of the group, and with the same contexts and Rice      *)
(* parameters for all of them.                                             *)
ParserGetsLevels ==
  levels # <<>> /\ CodedGroups(levels, block) # {} =>
    Then(ParsedLevels(block, CoeffSyntax(block, levels)), LAMBDA d :
      d.ok /\ d.in = <<>> /\ d.levels = levels)
=============================================================================
