--------------------------- MODULE SearchTreeProofs ---------------------------
(***************************************************************************)
(* Whatever the size of an LCU and of its picture, and whatever ranges of  *)
(* depths are searched, the search of the coding tree leaves every cell    *)
(* with the mode that was decided for it, with its pixels and its          *)
(* coefficients, and finds what comes before a CU final.                   *)
(*                                                                         *)
(* The invariant speaks of each call that has not returned: in its level   *)
(* and below, what comes before its CU is final; one level further down,   *)
(* so are the quarters it has searched; and its own level has the mode it  *)
(* keeps in mind.  A callee works within the quarter that its caller has   *)
(* come to, in the caller's next level and below, which keeps all that.    *)
(***************************************************************************)
EXTENDS SearchTree, TLAPS

Parts == {"info", "pixels", "coeffs"}
Blocks ==
  {at \in (0..(Width(0) - 1)) \X (0..(Width(0) - 1)) \X Depths :
     at[1] % Width(at[3]) = 0 /\ at[2] % Width(at[3]) = 0}
Modes ==
  {NotSet} \cup [at : Blocks, type : {"inter", "intra"},
                 part : {"2Nx2N", "NxN", "smp", "amp"}, empty : BOOLEAN]
Trees == [Depths -> [Cells -> [Parts -> Modes]]]
CallRecords ==
  [at : Blocks, step : {"modes", "split", "leaf"}, mode : Modes, child : 0..4]

TreeType ==
  /\ search \in Searches /\ work \in Trees /\ decided \in [Cells -> Modes]

(* The levels that no range of depths exceeds: a CU there, or below, which *)
(* is inside the picture can be coded.                                     *)
Deepest(d) ==
  d >= search.intraDepths[2] /\ (search.inter => d >= search.interDepths[2])

CallOk(s) ==
  /\ s.step # "modes" => ~Outside(s.at)
  /\ s.step # "split" => s.child = 0
  /\ s.step = "split" =>
       s.at[3] < MAX_PU_DEPTH /\ (Deepest(s.at[3]) => ~Inside(s.at))
  /\ s.step = "leaf" => s.mode # NotSet
  /\ s.mode # NotSet => s.mode.at = s.at /\ Inside(s.at) /\ s.step # "modes"

(* Each call has been made for a quarter of its caller's CU.               *)
Linked ==
  /\ stack \in Seq(CallRecords)
  /\ \A i \in 1..Len(stack) : CallOk(stack[i]) /\ stack[i].at[3] = i - 1
  /\ stack # <<>> => stack[1].at = <<0, 0, 0>>
  /\ \A i \in 1..(Len(stack) - 1) :
       /\ stack[i].step = "split" /\ stack[i].child < 4
       /\ stack[i + 1].at = Quarter(stack[i].at, stack[i].child)
Nested ==
  \A i, j \in 1..Len(stack) : i < j =>
    Area(stack[j].at) \subseteq Area(Quarter(stack[i].at, stack[i].child))

(* A cell of a level has the mode that was decided for it.                 *)
Agrees(l, c) == work[l][c].info = decided[c] /\ work[l][c].pixels = decided[c]
AgreesFrom(d, S) == \A l \in d..MAX_PU_DEPTH : \A c \in S : Agrees(l, c)

(* Decided CUs lie in S as a whole, and level l has their coefficients.    *)
Settled(l, S) ==
  \A c \in S :
    /\ decided[c] # NotSet
    /\ decided[c].empty \/ work[l][c].coeffs = decided[c]
    /\ \A o \in Area(decided[c].at) : o \in S /\ decided[o] = decided[c]

(* The cells of the quarters that have been searched.                      *)
Done(s) ==
  {c \in InPicture : \E j \in 0..(s.child - 1) : c \in Area(Quarter(s.at, j))}

LevelsOf(s) ==
  /\ AgreesFrom(s.at[3], Before(s.at))
  /\ AgreesFrom(s.at[3] + 1, Done(s))
  /\ Settled(s.at[3] + 1, Done(s))
  /\ s.mode # NotSet =>
       \A c \in Area(s.at) :
         /\ work[s.at[3]][c].info = s.mode /\ work[s.at[3]][c].pixels = s.mode
         /\ s.mode.empty \/ work[s.at[3]][c].coeffs = s.mode

Complete ==
  stack = <<>> => /\ \A c \in InPicture : Agrees(0, c)
                  /\ Settled(0, InPicture)

SearchInv ==
  /\ TreeType /\ Linked /\ Nested /\ Complete
  /\ \A i \in 1..Len(stack) : LevelsOf(stack[i])

-----------------------------------------------------------------------------
(* Blocks of an LCU and their quarters.                                    *)

LEMMA WidthIs ==
  ASSUME NEW d \in Depths
  PROVE  /\ Width(d) \in {1, 2, 4, 8, 16} /\ Width(MAX_PU_DEPTH) = 1
         /\ d < MAX_PU_DEPTH => Width(d) = 2 * Width(d + 1)
<1>1. PICK m \in 1..4 : m = MAX_PU_DEPTH
  BY DepthFits DEF MAX_PU_DEPTH
<1>2. d \in 0..m
  BY <1>1 DEF Depths
<1>3. m - d + 1 \in 1..5 /\ m - m + 1 = 1 /\ m - (d + 1) + 1 = m - d
  BY <1>2
<1> DEFINE widths == <<1, 2, 4, 8, 16>>
<1>4. /\ widths[1] = 1 /\ widths[2] = 2 /\ widths[3] = 4 /\ widths[4] = 8 /\ widths[5] = 16
  OBVIOUS
<1> HIDE DEF widths
<1>5. /\ Width(d) = widths[m - d + 1] /\ Width(MAX_PU_DEPTH) = widths[m - m + 1]
      /\ Width(d + 1) = widths[m - (d + 1) + 1]
  BY <1>1 DEF Width, widths
<1>6. PICK n \in 1..5 : n = m - d + 1
  BY <1>3
<1>7. Width(d) = widths[n] /\ Width(d + 1) = widths[n - 1] /\ Width(MAX_PU_DEPTH) = widths[1]
  <2>1. m - (d + 1) + 1 = n - 1
    BY <1>2, <1>6
  <2> QED
    BY <1>3, <1>5, <1>6, <2>1
<1>8. d < MAX_PU_DEPTH => n > 1
  BY <1>1, <1>2, <1>6
<1>9. widths[n] \in {1, 2, 4, 8, 16}
  BY <1>4
<1>10. n > 1 => widths[n] = 2 * widths[n - 1]
  BY <1>4
<1> QED
  BY <1>4, <1>7, <1>8, <1>9, <1>10

LEMMA BlockIs ==
  ASSUME NEW at \in Blocks
  PROVE  /\ at[1] \in Nat /\ at[2] \in Nat /\ at[3] \in Depths
         /\ at = <<at[1], at[2], at[3]>>
         /\ at[1] % Width(at[3]) = 0 /\ at[2] % Width(at[3]) = 0
         /\ at[1] \in 0..(Width(0) - 1) /\ at[2] \in 0..(Width(0) - 1)
  BY DEF Blocks

(* Wider blocks are whole numbers of narrower ones.                        *)
LEMMA WidthDivides ==
  ASSUME NEW d \in Depths, NEW e \in Depths, e <= d
  PROVE  \E q \in {1, 2, 4, 8, 16} : Width(e) = q * Width(d)
<1>1. PICK m \in 1..4 : m = MAX_PU_DEPTH
  BY DepthFits DEF MAX_PU_DEPTH
<1> DEFINE widths == <<1, 2, 4, 8, 16>>
<1>2. \A i \in 1..5, j \in 1..5 : j <= i =>
        \E q \in {1, 2, 4, 8, 16} : widths[i] = q * widths[j]
  <2>1. \A i \in 1..5 : widths[i] = 1 * widths[i] /\ widths[i] = widths[i] * widths[1]
    OBVIOUS
  <2>2. /\ widths[3] = 2 * widths[2] /\ widths[4] = 4 * widths[2] /\ widths[5] = 8 * widths[2]
        /\ widths[4] = 2 * widths[3] /\ widths[5] = 4 * widths[3] /\ widths[5] = 2 * widths[4]
    OBVIOUS
  <2>3. \A i \in 1..5 : widths[i] \in {1, 2, 4, 8, 16}
    OBVIOUS
  <2> HIDE DEF widths
  <2>4. SUFFICES ASSUME NEW i \in 1..5, NEW j \in 1..5, j <= i
                 PROVE  \E q \in {1, 2, 4, 8, 16} : widths[i] = q * widths[j]
    OBVIOUS
  <2>5. CASE i = j
    BY <2>1, <2>5
  <2>6. CASE j = 1
    BY <2>1, <2>3, <2>6
  <2>7. CASE i # j /\ j # 1
    <3>1. \/ j = 2 /\ i \in {3, 4, 5}
          \/ j = 3 /\ i \in {4, 5}
          \/ j = 4 /\ i = 5
      BY <2>4, <2>7
    <3> QED
      BY <2>2, <3>1
  <2> QED
    BY <2>5, <2>6, <2>7
<1>3. PICK i \in 1..5 : i = m - e + 1
  BY <1>1 DEF Depths
<1>4. PICK j \in 1..5 : j = m - d + 1
  BY <1>1 DEF Depths
<1>5. Width(e) = widths[i] /\ Width(d) = widths[j]
  BY <1>1, <1>3, <1>4 DEF Width
<1>6. j <= i
  BY <1>1, <1>3, <1>4 DEF Depths
<1> HIDE DEF widths
<1> QED
  BY <1>2, <1>5, <1>6

LEMMA RoomFor ==
  ASSUME NEW w \in {1, 2, 4, 8, 16}, NEW q \in {1, 2, 4, 8, 16}, NEW n, n = q * w,
         NEW x \in 0..(n - 1), x % w = 0
  PROVE  x + w <= n
<1>1. CASE w = 1
  BY <1>1
<1>2. CASE w = 2
  BY <1>2
<1>3. CASE w = 4
  BY <1>3
<1>4. CASE w = 8
  BY <1>4
<1>5. CASE w = 16
  BY <1>5
<1> QED
  BY <1>1, <1>2, <1>3, <1>4, <1>5

Near(v, from, w) == from <= v /\ v < from + w

LEMMA AreaIs ==
  ASSUME NEW at \in Blocks
  PROVE  /\ Area(at) \subseteq Cells
         /\ \A c \in Cells : c \in Area(at) <=>
              Near(c[1], at[1], Width(at[3])) /\ Near(c[2], at[2], Width(at[3]))
         /\ <<at[1], at[2]>> \in Area(at)
<1>1. PICK w \in {1, 2, 4, 8, 16} : w = Width(at[3])
  BY BlockIs, WidthIs
<1>2. 0 \in Depths /\ at[3] \in Depths /\ 0 <= at[3]
  BY BlockIs, DepthFits DEF Depths, MAX_PU_DEPTH
<1>3. PICK q \in {1, 2, 4, 8, 16} : Width(0) = q * w
  BY <1>1, <1>2, WidthDivides
<1>4. PICK n : n = Width(0)
  OBVIOUS
<1>5. n = q * w /\ n \in {1, 2, 4, 8, 16}
  BY <1>2, <1>3, <1>4, WidthIs
<1>6. PICK x, y : x = at[1] /\ y = at[2]
  OBVIOUS
<1>7. x \in 0..(n - 1) /\ y \in 0..(n - 1) /\ x % w = 0 /\ y % w = 0
  BY <1>1, <1>4, <1>6, BlockIs
<1>8. x + w <= n /\ y + w <= n
  BY <1>5, <1>7, RoomFor
<1>9. Area(at) = (x..(x + w - 1)) \X (y..(y + w - 1)) /\ Cells = (0..(n - 1)) \X (0..(n - 1))
  BY <1>1, <1>4, <1>6 DEF Area, Cells
<1>10. Area(at) \subseteq Cells
  BY <1>5, <1>7, <1>8, <1>9
<1>11. \A c \in Cells : c \in Area(at) <=> Near(c[1], x, w) /\ Near(c[2], y, w)
  BY <1>5, <1>7, <1>9 DEF Near
<1>12. <<x, y>> \in Area(at)
  BY <1>7, <1>9
<1> QED
  BY <1>1, <1>6, <1>10, <1>11, <1>12

LEMMA Bits ==
  ASSUME NEW x \in 0..15
  PROVE  \E a \in 0..1, b \in 0..1, c \in 0..1, d \in 0..1 :
           /\ x = a + 2 * b + 4 * c + 8 * d
           /\ (x \div 1) % 2 = a /\ (x \div 2) % 2 = b
           /\ (x \div 4) % 2 = c /\ (x \div 8) % 2 = d
<1> DEFINE a == (x \div 1) % 2  b == (x \div 2) % 2
           c == (x \div 4) % 2  d == (x \div 8) % 2
<1>1. a \in 0..1 /\ b \in 0..1 /\ c \in 0..1 /\ d \in 0..1
  OBVIOUS
<1>2. x = a + 2 * b + 4 * c + 8 * d
  OBVIOUS
<1> QED
  BY <1>1, <1>2

(* Quarters in the order of their numbers, p + 2 * r.                      *)
InEarlier(v, w, x, y, h, p, r) ==
  \E i \in 0..1, j \in 0..1 :
    /\ i + 2 * j < p + 2 * r
    /\ Near(v, x + i * h, h) /\ Near(w, y + j * h, h)

LEMMA OrderOfQuarters ==
  ASSUME NEW h \in {1, 2, 4, 8}, NEW x \in 0..15, NEW y \in 0..15,
         x % (2 * h) = 0, y % (2 * h) = 0,
         NEW v \in 0..15, NEW w \in 0..15, NEW p \in 0..1, NEW r \in 0..1
  PROVE  ZOrder(<<v, w>>) < ZOrder(<<x + p * h, y + r * h>>) <=>
           \/ ZOrder(<<v, w>>) < ZOrder(<<x, y>>)
           \/ InEarlier(v, w, x, y, h, p, r)
<1>1. PICK xa \in 0..1, xb \in 0..1, xc \in 0..1, xd \in 0..1 :
        /\ x = xa + 2 * xb + 4 * xc + 8 * xd
        /\ (x \div 1) % 2 = xa /\ (x \div 2) % 2 = xb
        /\ (x \div 4) % 2 = xc /\ (x \div 8) % 2 = xd
  BY Bits
<1>2. PICK ya \in 0..1, yb \in 0..1, yc \in 0..1, yd \in 0..1 :
        /\ y = ya + 2 * yb + 4 * yc + 8 * yd
        /\ (y \div 1) % 2 = ya /\ (y \div 2) % 2 = yb
        /\ (y \div 4) % 2 = yc /\ (y \div 8) % 2 = yd
  BY Bits
<1>3. PICK va \in 0..1, vb \in 0..1, vc \in 0..1, vd \in 0..1 :
        /\ v = va + 2 * vb + 4 * vc + 8 * vd
        /\ (v \div 1) % 2 = va /\ (v \div 2) % 2 = vb
        /\ (v \div 4) % 2 = vc /\ (v \div 8) % 2 = vd
  BY Bits
<1>4. PICK wa \in 0..1, wb \in 0..1, wc \in 0..1, wd \in 0..1 :
        /\ w = wa + 2 * wb + 4 * wc + 8 * wd
        /\ (w \div 1) % 2 = wa /\ (w \div 2) % 2 = wb
        /\ (w \div 4) % 2 = wc /\ (w \div 8) % 2 = wd
  BY Bits
<1> DEFINE Z(a, b, c, d, e, f, g, k) == (a + 2 * e) + 4 * (b + 2 * f) + 16 * (c + 2 * g) + 64 * (d + 2 * k)
<1>5. ZOrder(<<x, y>>) = Z(xa, xb, xc, xd, ya, yb, yc, yd)
  BY <1>1, <1>2 DEF ZOrder
<1>6. ZOrder(<<v, w>>) = Z(va, vb, vc, vd, wa, wb, wc, wd)
  BY <1>3, <1>4 DEF ZOrder
<1>7. CASE h = 8
  <2>1. xa = 0 /\ xb = 0 /\ xc = 0 /\ xd = 0 /\ ya = 0 /\ yb = 0 /\ yc = 0 /\ yd = 0
    BY <1>1, <1>2, <1>7
  <2>2. x = 0 /\ y = 0
    BY <1>1, <1>2, <2>1
  <2>3. PICK s, t : s = x + p * 8 /\ t = y + r * 8
    OBVIOUS
  <2>4. /\ (s \div 1) % 2 = 0 /\ (s \div 2) % 2 = 0 /\ (s \div 4) % 2 = 0 /\ (s \div 8) % 2 = p
        /\ (t \div 1) % 2 = 0 /\ (t \div 2) % 2 = 0 /\ (t \div 4) % 2 = 0 /\ (t \div 8) % 2 = r
    BY <2>2, <2>3
  <2>5. ZOrder(<<s, t>>) = Z(0, 0, 0, p, 0, 0, 0, r)
    BY <2>4 DEF ZOrder
  <2>6. \A i \in 0..1, j \in 0..1 :
          Near(v, x + i * 8, 8) /\ Near(w, y + j * 8, 8) <=>
            /\ vd = i /\ wd = j
    BY <1>3, <1>4, <2>2 DEF Near
  <2> QED
    BY <1>5, <1>6, <1>7, <2>1, <2>3, <2>5, <2>6 DEF InEarlier
<1>8. CASE h = 4
  <2>1. xa = 0 /\ xb = 0 /\ xc = 0 /\ ya = 0 /\ yb = 0 /\ yc = 0
    BY <1>1, <1>2, <1>8
  <2>2. x = 8 * xd /\ y = 8 * yd
    BY <1>1, <1>2, <2>1
  <2>3. PICK s, t : s = x + p * 4 /\ t = y + r * 4
    OBVIOUS
  <2>4. /\ (s \div 1) % 2 = 0 /\ (s \div 2) % 2 = 0 /\ (s \div 4) % 2 = p /\ (s \div 8) % 2 = xd
        /\ (t \div 1) % 2 = 0 /\ (t \div 2) % 2 = 0 /\ (t \div 4) % 2 = r /\ (t \div 8) % 2 = yd
    BY <2>2, <2>3
  <2>5. ZOrder(<<s, t>>) = Z(0, 0, p, xd, 0, 0, r, yd)
    BY <2>4 DEF ZOrder
  <2>6. \A i \in 0..1, j \in 0..1 :
          Near(v, x + i * 4, 4) /\ Near(w, y + j * 4, 4) <=>
            /\ vc = i /\ wc = j
            /\ vd = xd /\ wd = yd
    BY <1>3, <1>4, <2>2 DEF Near
  <2> QED
    BY <1>5, <1>6, <1>8, <2>1, <2>3, <2>5, <2>6 DEF InEarlier
<1>9. CASE h = 2
  <2>1. xa = 0 /\ xb = 0 /\ ya = 0 /\ yb = 0
    BY <1>1, <1>2, <1>9
  <2>2. x = 4 * xc + 8 * xd /\ y = 4 * yc + 8 * yd
    BY <1>1, <1>2, <2>1
  <2>3. PICK s, t : s = x + p * 2 /\ t = y + r * 2
    OBVIOUS
  <2>4. /\ (s \div 1) % 2 = 0 /\ (s \div 2) % 2 = p /\ (s \div 4) % 2 = xc /\ (s \div 8) % 2 = xd
        /\ (t \div 1) % 2 = 0 /\ (t \div 2) % 2 = r /\ (t \div 4) % 2 = yc /\ (t \div 8) % 2 = yd
    BY <2>2, <2>3
  <2>5. ZOrder(<<s, t>>) = Z(0, p, xc, xd, 0, r, yc, yd)
    BY <2>4 DEF ZOrder
  <2>6. \A i \in 0..1, j \in 0..1 :
          Near(v, x + i * 2, 2) /\ Near(w, y + j * 2, 2) <=>
            /\ vb = i /\ wb = j
            /\ vc = xc /\ wc = yc
            /\ vd = xd /\ wd = yd
    BY <1>3, <1>4, <2>2 DEF Near
  <2> QED
    BY <1>5, <1>6, <1>9, <2>1, <2>3, <2>5, <2>6 DEF InEarlier
<1>10. CASE h = 1
  <2>1. xa = 0 /\ ya = 0
    BY <1>1, <1>2, <1>10
  <2>2. x = 2 * xb + 4 * xc + 8 * xd /\ y = 2 * yb + 4 * yc + 8 * yd
    BY <1>1, <1>2, <2>1
  <2>3. PICK s, t : s = x + p * 1 /\ t = y + r * 1
    OBVIOUS
  <2>4. /\ (s \div 1) % 2 = p /\ (s \div 2) % 2 = xb /\ (s \div 4) % 2 = xc /\ (s \div 8) % 2 = xd
        /\ (t \div 1) % 2 = r /\ (t \div 2) % 2 = yb /\ (t \div 4) % 2 = yc /\ (t \div 8) % 2 = yd
    BY <2>2, <2>3
  <2>5. ZOrder(<<s, t>>) = Z(p, xb, xc, xd, r, yb, yc, yd)
    BY <2>4 DEF ZOrder
  <2>6. \A i \in 0..1, j \in 0..1 :
          Near(v, x + i * 1, 1) /\ Near(w, y + j * 1, 1) <=>
            /\ va = i /\ wa = j
            /\ vb = xb /\ wb = yb
            /\ vc = xc /\ wc = yc
            /\ vd = xd /\ wd = yd
    BY <1>3, <1>4, <2>2 DEF Near
  <2> QED
    BY <1>5, <1>6, <1>10, <2>1, <2>3, <2>5, <2>6 DEF InEarlier
<1> QED
  BY <1>7, <1>8, <1>9, <1>10

(* A block, the width of its quarters and the place of one of them.        *)
LEMMA QuarterIs ==
  ASSUME NEW at \in Blocks, at[3] < MAX_PU_DEPTH, NEW k \in 0..3
  PROVE  /\ Quarter(at, k) \in Blocks /\ Quarter(at, k)[3] = at[3] + 1
         /\ at[3] + 1 \in Depths
         /\ \E h \in {1, 2, 4, 8} :
              /\ Width(at[3]) = 2 * h /\ Width(at[3] + 1) = h
              /\ at[1] \in 0..15 /\ at[2] \in 0..15
              /\ at[1] % (2 * h) = 0 /\ at[2] % (2 * h) = 0
              /\ Quarter(at, k)[1] = at[1] + (k % 2) * h
              /\ Quarter(at, k)[2] = at[2] + (k \div 2) * h
<1>1. at[3] \in Depths /\ at[3] + 1 \in Depths /\ 0 \in Depths
  BY BlockIs, DepthFits DEF Depths, MAX_PU_DEPTH
<1>2. PICK w \in {1, 2, 4, 8, 16} : w = Width(at[3])
  BY <1>1, WidthIs
<1>3. PICK h \in {1, 2, 4, 8, 16} : h = Width(at[3] + 1)
  BY <1>1, WidthIs
<1>4. w = 2 * h
  BY <1>1, <1>2, <1>3, WidthIs
<1>5. h \in {1, 2, 4, 8}
  BY <1>4
<1>6. PICK n \in {1, 2, 4, 8, 16} : n = Width(0)
  BY <1>1, WidthIs
<1>7. PICK x, y : x = at[1] /\ y = at[2]
  OBVIOUS
<1>8. x \in 0..(n - 1) /\ y \in 0..(n - 1) /\ x % w = 0 /\ y % w = 0
  BY <1>2, <1>6, <1>7, BlockIs
<1>9. <<x, y>> \in Area(at) /\ Area(at) \subseteq Cells
  BY <1>7, AreaIs
<1>10. x + w <= n /\ y + w <= n
  <2>1. PICK q \in {1, 2, 4, 8, 16} : n = q * w
    <3>1. 0 <= at[3]
      BY <1>1 DEF Depths
    <3> QED
      BY <1>1, <1>2, <1>6, <3>1, WidthDivides
  <2> QED
    BY <1>8, <2>1, RoomFor
<1>11. PICK p \in 0..1, r \in 0..1 : p = k % 2 /\ r = k \div 2
  OBVIOUS
<1>12. Quarter(at, k) = <<x + p * h, y + r * h, at[3] + 1>>
  BY <1>3, <1>7, <1>11 DEF Quarter
<1>13. /\ (x + p * h) % h = 0 /\ (y + r * h) % h = 0
       /\ x + p * h \in 0..(n - 1) /\ y + r * h \in 0..(n - 1)
  <2>1. CASE h = 1
    BY <1>4, <1>8, <1>10, <2>1
  <2>2. CASE h = 2
    BY <1>4, <1>8, <1>10, <2>2
  <2>3. CASE h = 4
    BY <1>4, <1>8, <1>10, <2>3
  <2>4. CASE h = 8
    BY <1>4, <1>8, <1>10, <2>4
  <2> QED
    BY <1>5, <2>1, <2>2, <2>3, <2>4
<1>14. Quarter(at, k) \in Blocks
  BY <1>1, <1>3, <1>6, <1>12, <1>13 DEF Blocks
<1>15. x \in 0..15 /\ y \in 0..15
  BY <1>8
<1> QED
  BY <1>1, <1>2, <1>3, <1>4, <1>5, <1>7, <1>8, <1>11, <1>12, <1>14, <1>15

LEMMA QuarterIn ==
  ASSUME NEW at \in Blocks, at[3] < MAX_PU_DEPTH, NEW k \in 0..3
  PROVE  /\ Area(Quarter(at, k)) \subseteq Area(at)
         /\ \A j \in 0..3, c \in Area(Quarter(at, k)) :
              c \in Area(Quarter(at, j)) => j = k
<1>1. PICK h \in {1, 2, 4, 8} : Width(at[3]) = 2 * h /\ Width(at[3] + 1) = h
  BY QuarterIs
<1>2. PICK x \in 0..15, y \in 0..15 : x = at[1] /\ y = at[2]
  BY QuarterIs
<1>3. \A j \in 0..3 :
        /\ Quarter(at, j) \in Blocks /\ Quarter(at, j)[3] = at[3] + 1
        /\ Quarter(at, j)[1] = x + (j % 2) * h /\ Quarter(at, j)[2] = y + (j \div 2) * h
  <2> SUFFICES ASSUME NEW j \in 0..3
               PROVE  /\ Quarter(at, j) \in Blocks /\ Quarter(at, j)[3] = at[3] + 1
                      /\ Quarter(at, j)[1] = x + (j % 2) * h
                      /\ Quarter(at, j)[2] = y + (j \div 2) * h
    OBVIOUS
  <2>1. Quarter(at, j) \in Blocks /\ Quarter(at, j)[3] = at[3] + 1
    BY QuarterIs
  <2>2. Quarter(at, j) = <<x + (j % 2) * h, y + (j \div 2) * h, at[3] + 1>>
    BY <1>1, <1>2 DEF Quarter
  <2> QED
    BY <2>1, <2>2
<1>4. \A j \in 0..3 : Area(Quarter(at, j)) \subseteq Cells
  BY <1>3, AreaIs
<1>5. \A j \in 0..3, c \in Cells : c \in Area(Quarter(at, j)) <=>
        Near(c[1], x + (j % 2) * h, h) /\ Near(c[2], y + (j \div 2) * h, h)
  BY <1>1, <1>3, AreaIs
<1>6. \A c \in Cells : c \in Area(at) <=> Near(c[1], x, 2 * h) /\ Near(c[2], y, 2 * h)
  BY <1>1, <1>2, AreaIs
<1>7. \A c \in Cells : c[1] \in Int /\ c[2] \in Int
  BY DEF Cells
<1>8. SUFFICES ASSUME NEW c \in Cells, c \in Area(Quarter(at, k))
               PROVE  /\ c \in Area(at)
                      /\ \A j \in 0..3 : c \in Area(Quarter(at, j)) => j = k
  BY <1>4
<1>9. PICK v \in Int, w \in Int : v = c[1] /\ w = c[2]
  BY <1>7
<1>10. PICK p \in 0..1, r \in 0..1 : p = k % 2 /\ r = k \div 2 /\ k = p + 2 * r
  OBVIOUS
<1>11. Near(v, x + p * h, h) /\ Near(w, y + r * h, h)
  BY <1>5, <1>8, <1>9, <1>10
<1>12. Near(v, x, 2 * h) /\ Near(w, y, 2 * h)
  BY <1>11 DEF Near
<1>13. ASSUME NEW j \in 0..3, c \in Area(Quarter(at, j)) PROVE j = k
  <2>1. PICK i \in 0..1, s \in 0..1 : i = j % 2 /\ s = j \div 2 /\ j = i + 2 * s
    OBVIOUS
  <2>2. Near(v, x + i * h, h) /\ Near(w, y + s * h, h)
    BY <1>5, <1>9, <1>13, <2>1
  <2>3. i = p /\ s = r
    BY <1>11, <2>2 DEF Near
  <2> QED
    BY <1>10, <2>1, <2>3
<1> QED
  BY <1>6, <1>8, <1>9, <1>12, <1>13

LEMMA QuartersCover ==
  ASSUME NEW at \in Blocks, at[3] < MAX_PU_DEPTH, NEW c \in Area(at)
  PROVE  \E k \in 0..3 : c \in Area(Quarter(at, k))
<1>1. PICK h \in {1, 2, 4, 8} : Width(at[3]) = 2 * h /\ Width(at[3] + 1) = h
  <2>1. 0 \in 0..3
    OBVIOUS
  <2> QED
    BY <2>1, QuarterIs
<1>2. PICK x \in Int, y \in Int : x = at[1] /\ y = at[2]
  BY BlockIs
<1>3. c \in Cells /\ Near(c[1], x, 2 * h) /\ Near(c[2], y, 2 * h)
  BY <1>1, <1>2, AreaIs
<1>4. \A j \in 0..3 : c \in Area(Quarter(at, j)) <=>
        Near(c[1], x + (j % 2) * h, h) /\ Near(c[2], y + (j \div 2) * h, h)
  <2> SUFFICES ASSUME NEW j \in 0..3
               PROVE  c \in Area(Quarter(at, j)) <=>
                        Near(c[1], x + (j % 2) * h, h) /\ Near(c[2], y + (j \div 2) * h, h)
    OBVIOUS
  <2>1. /\ Quarter(at, j) \in Blocks /\ Quarter(at, j)[3] = at[3] + 1
        /\ Quarter(at, j)[1] = x + (j % 2) * h /\ Quarter(at, j)[2] = y + (j \div 2) * h
    BY <1>1, <1>2, QuarterIs
  <2> QED
    BY <1>1, <1>3, <2>1, AreaIs
<1>5. PICK v \in Int, w \in Int : v = c[1] /\ w = c[2]
  BY <1>3 DEF Cells
<1>6. \E i \in 0..1, s \in 0..1 : Near(v, x + i * h, h) /\ Near(w, y + s * h, h)
  <2>1. \E i \in 0..1 : Near(v, x + i * h, h)
    BY <1>3, <1>5 DEF Near
  <2>2. \E s \in 0..1 : Near(w, y + s * h, h)
    BY <1>3, <1>5 DEF Near
  <2> QED
    BY <2>1, <2>2
<1>7. PICK i \in 0..1, s \in 0..1 : Near(v, x + i * h, h) /\ Near(w, y + s * h, h)
  BY <1>6
<1>8. PICK j \in 0..3 : j = i + 2 * s
  OBVIOUS
<1>9. j % 2 = i /\ j \div 2 = s
  BY <1>8
<1> QED
  BY <1>4, <1>5, <1>7, <1>9

(* What is coded before a quarter: what is before the block, and the       *)
(* quarters before.                                                        *)
LEMMA BeforeQuarter ==
  ASSUME NEW at \in Blocks, at[3] < MAX_PU_DEPTH, NEW k \in 0..3
  PROVE  Before(Quarter(at, k)) =
           Before(at) \cup {c \in InPicture : \E j \in 0..(k - 1) : c \in Area(Quarter(at, j))}
<1>1. PICK h \in {1, 2, 4, 8} : /\ Width(at[3]) = 2 * h /\ Width(at[3] + 1) = h
                                /\ at[1] % (2 * h) = 0 /\ at[2] % (2 * h) = 0
  BY QuarterIs
<1>2. PICK x \in 0..15, y \in 0..15 : x = at[1] /\ y = at[2]
  BY QuarterIs
<1>3. \A j \in 0..3 :
        /\ Quarter(at, j) \in Blocks /\ Quarter(at, j)[3] = at[3] + 1
        /\ Quarter(at, j)[1] = x + (j % 2) * h /\ Quarter(at, j)[2] = y + (j \div 2) * h
  <2> SUFFICES ASSUME NEW j \in 0..3
               PROVE  /\ Quarter(at, j) \in Blocks /\ Quarter(at, j)[3] = at[3] + 1
                      /\ Quarter(at, j)[1] = x + (j % 2) * h
                      /\ Quarter(at, j)[2] = y + (j \div 2) * h
    OBVIOUS
  <2>1. Quarter(at, j) \in Blocks /\ Quarter(at, j)[3] = at[3] + 1
    BY QuarterIs
  <2>2. Quarter(at, j) = <<x + (j % 2) * h, y + (j \div 2) * h, at[3] + 1>>
    BY <1>1, <1>2 DEF Quarter
  <2> QED
    BY <2>1, <2>2
<1>4. \A j \in 0..3, c \in Cells : c \in Area(Quarter(at, j)) <=>
        Near(c[1], x + (j % 2) * h, h) /\ Near(c[2], y + (j \div 2) * h, h)
  BY <1>1, <1>3, AreaIs
<1>5. PICK p \in 0..1, r \in 0..1 : p = k % 2 /\ r = k \div 2 /\ k = p + 2 * r
  OBVIOUS
<1>6. /\ Quarter(at, k)[1] = x + p * h /\ Quarter(at, k)[2] = y + r * h
  BY <1>3, <1>5
<1>7. SUFFICES ASSUME NEW c \in InPicture
               PROVE  ZOrder(c) < ZOrder(<<x + p * h, y + r * h>>) <=>
                        \/ ZOrder(c) < ZOrder(<<x, y>>)
                        \/ \E j \in 0..(k - 1) : c \in Area(Quarter(at, j))
  BY <1>2, <1>6 DEF Before
<1>8. c \in Cells
  BY DEF InPicture
<1>9. PICK v \in 0..15, w \in 0..15 : c = <<v, w>>
  <2>1. PICK n \in {1, 2, 4, 8, 16} : n = Width(0)
    <3>1. 0 \in Depths
      BY DepthFits DEF Depths, MAX_PU_DEPTH
    <3> QED
      BY <3>1, WidthIs
  <2>2. \A i \in 0..(n - 1) : i \in 0..15
    OBVIOUS
  <2> QED
    BY <1>8, <2>1, <2>2 DEF Cells
<1>10. x % (2 * h) = 0 /\ y % (2 * h) = 0
  BY <1>1, <1>2
<1>11. ZOrder(<<v, w>>) < ZOrder(<<x + p * h, y + r * h>>) <=>
         \/ ZOrder(<<v, w>>) < ZOrder(<<x, y>>)
         \/ InEarlier(v, w, x, y, h, p, r)
  <2>1. /\ h \in {1, 2, 4, 8} /\ x \in 0..15 /\ y \in 0..15 /\ v \in 0..15 /\ w \in 0..15
        /\ p \in 0..1 /\ r \in 0..1
    OBVIOUS
  <2> QED
    BY <1>10, <2>1, OrderOfQuarters, Zenon
<1>12. InEarlier(v, w, x, y, h, p, r) <=> \E j \in 0..(k - 1) : c \in Area(Quarter(at, j))
  <2>1. ASSUME NEW i \in 0..1, NEW j \in 0..1, i + 2 * j < p + 2 * r,
               Near(v, x + i * h, h), Near(w, y + j * h, h)
        PROVE  \E m \in 0..(k - 1) : c \in Area(Quarter(at, m))
    <3>1. PICK m \in 0..3 : m = i + 2 * j
      OBVIOUS
    <3>2. m % 2 = i /\ m \div 2 = j /\ m \in 0..(k - 1)
      BY <1>5, <2>1, <3>1
    <3>3. c \in Area(Quarter(at, m))
      BY <1>4, <1>8, <1>9, <2>1, <3>2
    <3> QED
      BY <3>2, <3>3
  <2>2. ASSUME NEW m \in 0..(k - 1), c \in Area(Quarter(at, m))
        PROVE  \E i \in 0..1, j \in 0..1 :
                 /\ i + 2 * j < p + 2 * r
                 /\ Near(v, x + i * h, h) /\ Near(w, y + j * h, h)
    <3>0. m \in 0..3
      OBVIOUS
    <3>1. PICK i \in 0..1, j \in 0..1 : i = m % 2 /\ j = m \div 2 /\ m = i + 2 * j
      BY <3>0
    <3>2. Near(v, x + i * h, h) /\ Near(w, y + j * h, h)
      BY <1>4, <1>8, <1>9, <2>2, <3>0, <3>1
    <3>3. i + 2 * j < p + 2 * r
      BY <1>5, <3>1
    <3> QED
      BY <3>2, <3>3
  <2> QED
    BY <2>1, <2>2 DEF InEarlier
<1> QED
  BY <1>9, <1>11, <1>12

LEMMA NothingBefore == Before(<<0, 0, 0>>) = {}
<1>1. ZOrder(<<0, 0>>) = 0
  <2>1. (0 \div 1) % 2 = 0 /\ (0 \div 2) % 2 = 0 /\ (0 \div 4) % 2 = 0 /\ (0 \div 8) % 2 = 0
    OBVIOUS
  <2> QED
    BY <2>1 DEF ZOrder
<1>2. ASSUME NEW c \in Cells PROVE ~(ZOrder(c) < 0)
  <2>1. PICK v \in Int, w \in Int : c = <<v, w>>
    BY DEF Cells
  <2>2. \A n \in {1, 2, 4, 8} : (v \div n) % 2 \in 0..1 /\ (w \div n) % 2 \in 0..1
    OBVIOUS
  <2> QED
    BY <2>1, <2>2 DEF ZOrder
<1>3. Before(<<0, 0, 0>>) = {c \in InPicture : ZOrder(c) < ZOrder(<<0, 0>>)}
  BY DEF Before
<1>4. InPicture \subseteq Cells
  BY DEF InPicture
<1> QED
  BY <1>1, <1>2, <1>3, <1>4, Zenon

-----------------------------------------------------------------------------
(* What is coded before a block is not in it.                              *)

LEMMA CornerFirst ==
  ASSUME NEW n \in {1, 2, 4, 8, 16}, NEW x \in 0..15, NEW y \in 0..15,
         x % n = 0, y % n = 0, NEW v \in 0..15, NEW w \in 0..15,
         Near(v, x, n), Near(w, y, n)
  PROVE  ~(ZOrder(<<v, w>>) < ZOrder(<<x, y>>))
<1>1. PICK xa \in 0..1, xb \in 0..1, xc \in 0..1, xd \in 0..1 :
        /\ x = xa + 2 * xb + 4 * xc + 8 * xd
        /\ (x \div 1) % 2 = xa /\ (x \div 2) % 2 = xb
        /\ (x \div 4) % 2 = xc /\ (x \div 8) % 2 = xd
  BY Bits
<1>2. PICK ya \in 0..1, yb \in 0..1, yc \in 0..1, yd \in 0..1 :
        /\ y = ya + 2 * yb + 4 * yc + 8 * yd
        /\ (y \div 1) % 2 = ya /\ (y \div 2) % 2 = yb
        /\ (y \div 4) % 2 = yc /\ (y \div 8) % 2 = yd
  BY Bits
<1>3. PICK va \in 0..1, vb \in 0..1, vc \in 0..1, vd \in 0..1 :
        /\ v = va + 2 * vb + 4 * vc + 8 * vd
        /\ (v \div 1) % 2 = va /\ (v \div 2) % 2 = vb
        /\ (v \div 4) % 2 = vc /\ (v \div 8) % 2 = vd
  BY Bits
<1>4. PICK wa \in 0..1, wb \in 0..1, wc \in 0..1, wd \in 0..1 :
        /\ w = wa + 2 * wb + 4 * wc + 8 * wd
        /\ (w \div 1) % 2 = wa /\ (w \div 2) % 2 = wb
        /\ (w \div 4) % 2 = wc /\ (w \div 8) % 2 = wd
  BY Bits
<1> DEFINE Z(a, b, c, d, e, f, g, k) == (a + 2 * e) + 4 * (b + 2 * f) + 16 * (c + 2 * g) + 64 * (d + 2 * k)
<1>5. ZOrder(<<x, y>>) = Z(xa, xb, xc, xd, ya, yb, yc, yd)
  BY <1>1, <1>2 DEF ZOrder
<1>6. ZOrder(<<v, w>>) = Z(va, vb, vc, vd, wa, wb, wc, wd)
  BY <1>3, <1>4 DEF ZOrder
<1>7. CASE n = 1
  <2>2. /\ va = xa /\ wa = ya
        /\ vb = xb /\ wb = yb
        /\ vc = xc /\ wc = yc
        /\ vd = xd /\ wd = yd
    BY <1>1, <1>2, <1>3, <1>4, <1>7 DEF Near
  <2> QED
    BY <1>5, <1>6, <2>2
<1>8. CASE n = 2
  <2>1. xa = 0 /\ ya = 0
    BY <1>1, <1>2, <1>8
  <2>2. /\ vb = xb /\ wb = yb
        /\ vc = xc /\ wc = yc
        /\ vd = xd /\ wd = yd
    BY <1>1, <1>2, <1>3, <1>4, <1>8, <2>1 DEF Near
  <2> QED
    BY <1>5, <1>6, <2>1, <2>2
<1>9. CASE n = 4
  <2>1. xa = 0 /\ xb = 0 /\ ya = 0 /\ yb = 0
    BY <1>1, <1>2, <1>9
  <2>2. /\ vc = xc /\ wc = yc
        /\ vd = xd /\ wd = yd
    BY <1>1, <1>2, <1>3, <1>4, <1>9, <2>1 DEF Near
  <2> QED
    BY <1>5, <1>6, <2>1, <2>2
<1>10. CASE n = 8
  <2>1. xa = 0 /\ xb = 0 /\ xc = 0 /\ ya = 0 /\ yb = 0 /\ yc = 0
    BY <1>1, <1>2, <1>10
  <2>2. /\ vd = xd /\ wd = yd
    BY <1>1, <1>2, <1>3, <1>4, <1>10, <2>1 DEF Near
  <2> QED
    BY <1>5, <1>6, <2>1, <2>2
<1>11. CASE n = 16
  <2>1. xa = 0 /\ xb = 0 /\ xc = 0 /\ xd = 0 /\ ya = 0 /\ yb = 0 /\ yc = 0 /\ yd = 0
    BY <1>1, <1>2, <1>11
  <2> QED
    BY <1>5, <1>6, <2>1
<1> QED
  BY <1>7, <1>8, <1>9, <1>10, <1>11

LEMMA BeforeApart ==
  ASSUME NEW at \in Blocks, NEW c \in Before(at)
  PROVE  c \notin Area(at) /\ c \in InPicture /\ c \in Cells
<1>1. c \in InPicture /\ c \in Cells /\ ZOrder(c) < ZOrder(<<at[1], at[2]>>)
  BY DEF Before, InPicture
<1>2. PICK n \in {1, 2, 4, 8, 16} : n = Width(0)
  <2>1. 0 \in Depths
    BY DepthFits DEF Depths, MAX_PU_DEPTH
  <2> QED
    BY <2>1, WidthIs
<1>3. \A i \in 0..(n - 1) : i \in 0..15
  OBVIOUS
<1>4. PICK v \in 0..15, w \in 0..15 : c = <<v, w>>
  BY <1>1, <1>2, <1>3 DEF Cells
<1>5. PICK x \in 0..15, y \in 0..15 : x = at[1] /\ y = at[2]
  BY <1>2, <1>3, BlockIs
<1>6. PICK k \in {1, 2, 4, 8, 16} : k = Width(at[3])
  BY BlockIs, WidthIs
<1>7. x % k = 0 /\ y % k = 0
  BY <1>5, <1>6, BlockIs
<1>8. c \in Area(at) <=> Near(v, x, k) /\ Near(w, y, k)
  BY <1>1, <1>4, <1>5, <1>6, AreaIs
<1>9. Near(v, x, k) /\ Near(w, y, k) => ~(ZOrder(c) < ZOrder(<<x, y>>))
  BY <1>4, <1>7, CornerFirst
<1> QED
  BY <1>1, <1>5, <1>8, <1>9

-----------------------------------------------------------------------------
(* The operations on the levels.                                           *)

LEMMA TreeIs ==
  ASSUME NEW tree \in Trees, NEW l \in Depths, NEW c \in Cells, NEW q \in Parts
  PROVE  /\ tree[l] \in [Cells -> [Parts -> Modes]]
         /\ tree[l][c] \in [Parts -> Modes] /\ tree[l][c][q] \in Modes
  BY DEF Trees

(* A level with the same in some parts of the cells of an area.            *)
Filled(new, old, d, area, parts, mode) ==
  /\ new \in Trees
  /\ \A l \in Depths, c \in Cells, q \in Parts :
       new[l][c][q] = IF l = d /\ c \in area /\ q \in parts THEN mode ELSE old[l][c][q]

LEMMA FillIs ==
  ASSUME NEW tree \in Trees, NEW d \in Depths, NEW area, NEW part \in Parts,
         NEW mode \in Modes
  PROVE  Filled(Fill(tree, d, area, part, mode), tree, d, area, {part}, mode)
<1>1. PICK cells : cells = [c \in Cells |-> IF c \in area THEN [tree[d][c] EXCEPT ![part] = mode]
                                            ELSE tree[d][c]]
  OBVIOUS
<1>2. \A c \in Cells : tree[d][c] \in [Parts -> Modes]
  BY TreeIs DEF Parts
<1>3. \A c \in Cells : [tree[d][c] EXCEPT ![part] = mode] \in [Parts -> Modes]
  BY <1>2
<1>4. cells \in [Cells -> [Parts -> Modes]]
  BY <1>1, <1>2, <1>3
<1>5. Fill(tree, d, area, part, mode) = [tree EXCEPT ![d] = cells]
  BY <1>1 DEF Fill, Trees
<1>6. [tree EXCEPT ![d] = cells] \in Trees
  BY <1>4 DEF Trees
<1>7. ASSUME NEW l \in Depths, NEW c \in Cells, NEW q \in Parts
      PROVE  [tree EXCEPT ![d] = cells][l][c][q] =
               IF l = d /\ c \in area /\ q = part THEN mode ELSE tree[l][c][q]
  <2>1. CASE l # d
    BY <2>1 DEF Trees
  <2>2. CASE l = d
    <3>1. [tree EXCEPT ![d] = cells][l] = cells
      BY <2>2 DEF Trees
    <3>2. cells[c] = IF c \in area THEN [tree[d][c] EXCEPT ![part] = mode] ELSE tree[d][c]
      BY <1>1
    <3>3. [tree[d][c] EXCEPT ![part] = mode][q] = IF q = part THEN mode ELSE tree[d][c][q]
      BY <1>2
    <3>4. CASE c \in area
      BY <2>2, <3>1, <3>2, <3>3, <3>4
    <3>5. CASE c \notin area
      BY <2>2, <3>1, <3>2, <3>5
    <3> QED
      BY <3>4, <3>5
  <2> QED
    BY <2>1, <2>2
<1> QED
  BY <1>5, <1>6, <1>7 DEF Filled

LEMMA FillAllIs ==
  ASSUME NEW tree \in Trees, NEW d \in Depths, NEW area, NEW mode \in Modes
  PROVE  Filled(FillAll(tree, d, area, mode), tree, d, area, Parts, mode)
<1>1. "info" \in Parts /\ "pixels" \in Parts /\ "coeffs" \in Parts
  BY DEF Parts
<1>2. PICK t1 : t1 = Fill(tree, d, area, "info", mode)
  OBVIOUS
<1>3. Filled(t1, tree, d, area, {"info"}, mode)
  BY <1>1, <1>2, FillIs
<1>4. PICK t2 : t2 = Fill(t1, d, area, "pixels", mode)
  OBVIOUS
<1>5. t1 \in Trees
  BY <1>3 DEF Filled
<1>6. Filled(t2, t1, d, area, {"pixels"}, mode)
  BY <1>1, <1>4, <1>5, FillIs
<1>7. PICK t3 : t3 = Fill(t2, d, area, "coeffs", mode)
  OBVIOUS
<1>8. t2 \in Trees
  BY <1>6 DEF Filled
<1>9. Filled(t3, t2, d, area, {"coeffs"}, mode)
  BY <1>1, <1>7, <1>8, FillIs
<1>10. FillAll(tree, d, area, mode) = t3
  BY <1>2, <1>4, <1>7 DEF FillAll
<1>11. t3 \in Trees
  BY <1>9 DEF Filled
<1>12. ASSUME NEW l \in Depths, NEW c \in Cells, NEW q \in Parts
       PROVE  t3[l][c][q] = IF l = d /\ c \in area /\ q \in Parts THEN mode ELSE tree[l][c][q]
  <2>1. t1[l][c][q] = IF l = d /\ c \in area /\ q \in {"info"} THEN mode ELSE tree[l][c][q]
    BY <1>3 DEF Filled
  <2>2. t2[l][c][q] = IF l = d /\ c \in area /\ q \in {"pixels"} THEN mode ELSE t1[l][c][q]
    BY <1>6 DEF Filled
  <2>3. t3[l][c][q] = IF l = d /\ c \in area /\ q \in {"coeffs"} THEN mode ELSE t2[l][c][q]
    BY <1>9 DEF Filled
  <2> QED
    BY <2>1, <2>2, <2>3 DEF Parts
<1> QED
  BY <1>10, <1>11, <1>12 DEF Filled

Copied(new, old, from, to, area, parts) ==
  /\ new \in Trees
  /\ \A l \in Depths, c \in Cells, q \in Parts :
       new[l][c][q] = IF l = to /\ c \in area /\ q \in parts THEN old[from][c][q] ELSE old[l][c][q]

LEMMA CopyToIs ==
  ASSUME NEW tree \in Trees, NEW from \in Depths, NEW to \in Depths, NEW area, NEW parts
  PROVE  Copied(CopyTo(tree, from, to, area, parts), tree, from, to, area, parts)
<1>1. PICK cells : cells = [c \in Cells |-> [q \in Parts |->
                              IF c \in area /\ q \in parts THEN tree[from][c][q] ELSE tree[to][c][q]]]
  OBVIOUS
<1>2. cells \in [Cells -> [Parts -> Modes]]
  BY <1>1, TreeIs
<1>3. DOMAIN Blank = Parts
  BY DEF Blank, Parts
<1>4. CopyTo(tree, from, to, area, parts) = [tree EXCEPT ![to] = cells]
  BY <1>1, <1>3 DEF CopyTo, Trees
<1>5. [tree EXCEPT ![to] = cells] \in Trees
  BY <1>2 DEF Trees
<1>6. ASSUME NEW l \in Depths, NEW c \in Cells, NEW q \in Parts
      PROVE  [tree EXCEPT ![to] = cells][l][c][q] =
               IF l = to /\ c \in area /\ q \in parts THEN tree[from][c][q] ELSE tree[l][c][q]
  BY <1>1 DEF Trees
<1> QED
  BY <1>4, <1>5, <1>6 DEF Copied

(* What changed lies in an area, at some level or further down.            *)
Outlying(new, old, d, area) ==
  \A l \in Depths, c \in Cells, q \in Parts :
    l < d \/ c \notin area => new[l][c][q] = old[l][c][q]

LEMMA ReconstructedIs ==
  ASSUME NEW tree \in Trees, NEW m \in Modes, m # NotSet,
         m.type = "inter" => m.at[3] <= MAX_DEPTH
  PROVE  /\ Reconstructed(tree, m) \in Trees
         /\ Outlying(Reconstructed(tree, m), tree, m.at[3], Area(m.at))
         /\ \A c \in Area(m.at) :
              /\ Reconstructed(tree, m)[m.at[3]][c].info = m
              /\ Reconstructed(tree, m)[m.at[3]][c].pixels = m
              /\ m.empty \/ Reconstructed(tree, m)[m.at[3]][c].coeffs = m
<1>1. m \in [at : Blocks, type : {"inter", "intra"},
             part : {"2Nx2N", "NxN", "smp", "amp"}, empty : BOOLEAN]
  BY DEF Modes
<1>2. PICK at \in Blocks : at = m.at
  BY <1>1
<1>3. PICK d \in Depths : d = at[3]
  BY BlockIs
<1>4. PICK area \in SUBSET Cells : area = Area(at)
  BY AreaIs
<1>5. \A t \in Trees, n \in Modes : Filled(FillAll(t, d, area, n), t, d, area, Parts, n)
  BY <1>3, FillAllIs
<1>6. CASE ~(m.type = "inter" /\ search.zeroCost)
  <2>1. Reconstructed(tree, m) = FillAll(tree, d, area, m)
    BY <1>2, <1>3, <1>4, <1>6 DEF Reconstructed
  <2>2. Filled(FillAll(tree, d, area, m), tree, d, area, Parts, m)
    BY <1>5
  <2>3. Outlying(FillAll(tree, d, area, m), tree, d, area)
    BY <2>2 DEF Filled, Outlying, Depths
  <2>4. ASSUME NEW c \in area, NEW q \in Parts
        PROVE  FillAll(tree, d, area, m)[d][c][q] = m
    BY <2>2 DEF Filled
  <2>5. FillAll(tree, d, area, m) \in Trees
    BY <2>2 DEF Filled
  <2> QED
    BY <1>2, <1>3, <1>4, <2>1, <2>3, <2>4, <2>5 DEF Parts
<1>7. CASE m.type = "inter" /\ search.zeroCost
  <2>1. d + 1 \in Depths
    BY <1>2, <1>3, <1>7, DepthFits DEF Depths, MAX_PU_DEPTH
  <2>2. PICK with, without : /\ with = [m EXCEPT !.empty = FALSE]
                             /\ without = [m EXCEPT !.empty = TRUE]
    OBVIOUS
  <2>3. with \in Modes /\ without \in Modes
    BY <1>1, <2>2 DEF Modes
  <2>4. IF m.empty THEN m = without ELSE m = with
    BY <1>1, <2>2
  <2>5. "info" \in Parts /\ "pixels" \in Parts /\ "coeffs" \in Parts
    BY DEF Parts
  <2>6. PICK t1 : t1 = Fill(tree, d + 1, area, "pixels", without)
    OBVIOUS
  <2>7. Filled(t1, tree, d + 1, area, {"pixels"}, without)
    BY <2>1, <2>3, <2>5, <2>6, FillIs
  <2>8. PICK t2 : t2 = FillAll(t1, d, area, with)
    OBVIOUS
  <2>9. Filled(t2, t1, d, area, Parts, with)
    <3>1. t1 \in Trees
      BY <2>7 DEF Filled
    <3> QED
      BY <1>5, <2>3, <2>8, <3>1
  <2>10. Outlying(t2, tree, d, area)
    <3> SUFFICES ASSUME NEW l \in Depths, NEW c \in Cells, NEW q \in Parts, l < d \/ c \notin area
                 PROVE  t2[l][c][q] = tree[l][c][q]
      BY DEF Outlying
    <3>1. ~(l = d /\ c \in area) /\ ~(l = d + 1 /\ c \in area)
      BY <1>3 DEF Depths
    <3> QED
      BY <2>7, <2>9, <3>1 DEF Filled
  <2>11. CASE ~m.empty
    <3>1. Reconstructed(tree, m) = t2
      BY <1>2, <1>3, <1>4, <1>7, <2>2, <2>6, <2>8, <2>11 DEF Reconstructed
    <3>2. ASSUME NEW c \in area, NEW q \in Parts PROVE t2[d][c][q] = m
      BY <2>4, <2>9, <2>11 DEF Filled
    <3>3. t2 \in Trees
      BY <2>9 DEF Filled
    <3> QED
      BY <1>2, <1>3, <1>4, <2>5, <2>10, <3>1, <3>2, <3>3
  <2>12. CASE m.empty
    <3>1. PICK t3 : t3 = CopyTo(t2, d + 1, d, area, {"pixels"})
      OBVIOUS
    <3>2. Copied(t3, t2, d + 1, d, area, {"pixels"})
      <4>1. t2 \in Trees
        BY <2>9 DEF Filled
      <4> QED
        BY <2>1, <3>1, <4>1, CopyToIs
    <3>3. PICK t4 : t4 = Fill(t3, d, area, "info", m)
      OBVIOUS
    <3>4. Filled(t4, t3, d, area, {"info"}, m)
      <4>1. t3 \in Trees
        BY <3>2 DEF Copied
      <4> QED
        BY <2>5, <3>3, <4>1, FillIs
    <3>5. Reconstructed(tree, m) = t4
      BY <1>2, <1>3, <1>4, <1>7, <2>2, <2>6, <2>8, <2>12, <3>1, <3>3 DEF Reconstructed
    <3>6. Outlying(t4, tree, d, area)
      <4> SUFFICES ASSUME NEW l \in Depths, NEW c \in Cells, NEW q \in Parts, l < d \/ c \notin area
                   PROVE  t4[l][c][q] = tree[l][c][q]
        BY DEF Outlying
      <4>1. ~(l = d /\ c \in area)
        BY DEF Depths
      <4>2. t3[l][c][q] = t2[l][c][q]
        BY <3>2, <4>1 DEF Copied
      <4>3. t4[l][c][q] = t3[l][c][q]
        BY <3>4, <4>1 DEF Filled
      <4> QED
        BY <2>10, <4>2, <4>3 DEF Outlying
    <3>7. ASSUME NEW c \in area
          PROVE  t4[d][c]["info"] = m /\ t4[d][c]["pixels"] = m
      <4>1. t4[d][c]["info"] = m
        BY <2>5, <3>4 DEF Filled
      <4>2. t4[d][c]["pixels"] = t3[d][c]["pixels"]
        BY <2>5, <3>4 DEF Filled
      <4>3. t3[d][c]["pixels"] = t2[d + 1][c]["pixels"]
        BY <2>5, <3>2 DEF Copied
      <4>4. t2[d + 1][c]["pixels"] = t1[d + 1][c]["pixels"]
        BY <2>1, <2>5, <2>9, <1>3 DEF Depths, Filled
      <4>5. t1[d + 1][c]["pixels"] = without
        BY <2>1, <2>5, <2>7 DEF Filled
      <4> QED
        BY <2>4, <2>12, <4>1, <4>2, <4>3, <4>4, <4>5
    <3>8. t4 \in Trees
      BY <3>4 DEF Filled
    <3> QED
      BY <1>2, <1>3, <1>4, <2>12, <3>5, <3>6, <3>7, <3>8
  <2> QED
    BY <2>11, <2>12
<1> QED
  BY <1>6, <1>7

LEMMA OutlyingTwice ==
  ASSUME NEW a, NEW b, NEW c, NEW d, NEW area, Outlying(b, a, d, area), Outlying(c, b, d, area)
  PROVE  Outlying(c, a, d, area)
  BY DEF Outlying

LEMMA PartitionsIs ==
  ASSUME NEW tree \in Trees, NEW at \in Blocks
  PROVE  /\ WithPartitions(tree, at) \in Trees
         /\ Outlying(WithPartitions(tree, at), tree, at[3], Area(at))
<1>1. ASSUME NEW t \in Trees, NEW part \in {"smp", "amp"}
      PROVE  /\ TryPartition(t, at, part) \in Trees
             /\ Outlying(TryPartition(t, at, part), t, at[3], Area(at))
  <2>1. CASE CanUseInter(at) /\ part \in InterParts(at)
    <3>1. at[3] \in Depths /\ at[3] + 1 \in Depths
      BY <2>1, BlockIs, DepthFits DEF CanUseInter, Depths, MAX_PU_DEPTH
    <3>2. PICK m : m = Mode(at, "inter", part, FALSE)
      OBVIOUS
    <3>3. m \in Modes
      BY <3>2 DEF Mode, Modes
    <3>4. PICK u : u = Fill(t, at[3] + 1, Area(at), "info", m)
      OBVIOUS
    <3>5. "info" \in Parts
      BY DEF Parts
    <3>6. Filled(u, t, at[3] + 1, Area(at), {"info"}, m)
      BY <3>1, <3>3, <3>4, <3>5, FillIs
    <3>7. Outlying(u, t, at[3], Area(at))
      BY <3>1, <3>6 DEF Filled, Outlying, Depths
    <3>8. TryPartition(t, at, part) = u
      BY <2>1, <3>2, <3>4 DEF TryPartition
    <3> QED
      BY <3>6, <3>7, <3>8 DEF Filled
  <2>2. CASE ~(CanUseInter(at) /\ part \in InterParts(at))
    BY <2>2 DEF TryPartition, Outlying
  <2> QED
    BY <2>1, <2>2
<1>2. PICK t : t = TryPartition(tree, at, "smp")
  OBVIOUS
<1>3. t \in Trees /\ Outlying(t, tree, at[3], Area(at))
  BY <1>1, <1>2
<1>4. PICK u : u = TryPartition(t, at, "amp")
  OBVIOUS
<1>5. u \in Trees /\ Outlying(u, t, at[3], Area(at))
  BY <1>1, <1>3, <1>4
<1>6. WithPartitions(tree, at) = u
  BY <1>2, <1>4 DEF WithPartitions
<1> QED
  BY <1>3, <1>5, <1>6, OutlyingTwice

LEMMA CopyUpIs ==
  ASSUME NEW tree \in Trees, NEW at \in Blocks, at[3] < MAX_PU_DEPTH
  PROVE  Copied(CopyUp(tree, at), tree, at[3] + 1, at[3], Area(at), Parts)
<1>1. at[3] \in Depths /\ at[3] + 1 \in Depths
  BY BlockIs, DepthFits DEF Depths, MAX_PU_DEPTH
<1> QED
  BY <1>1, CopyToIs DEF CopyUp, Parts

LEMMA CopyDownIs ==
  ASSUME NEW tree \in Trees, NEW at \in Blocks
  PROVE  /\ CopyDown(tree, at) \in Trees
         /\ Outlying(CopyDown(tree, at), tree, at[3], Area(at))
         /\ \A c \in Cells, q \in Parts : CopyDown(tree, at)[at[3]][c][q] = tree[at[3]][c][q]
         /\ \A l \in Depths, c \in Area(at), q \in {"info", "pixels"} :
              l > at[3] => CopyDown(tree, at)[l][c][q] = tree[at[3]][c][q]
<1>1. PICK d \in Depths : d = at[3]
  BY BlockIs
<1>2. PICK down : down = CopyDown(tree, at)
  OBVIOUS
<1>3. PICK parts : parts = {"info", "pixels"}
  OBVIOUS
<1>4. down = [l \in Depths |-> IF l <= d THEN tree[l] ELSE CopyTo(tree, d, l, Area(at), parts)[l]]
  BY <1>1, <1>2, <1>3 DEF CopyDown
<1>5. \A l \in Depths : Copied(CopyTo(tree, d, l, Area(at), parts), tree, d, l, Area(at), parts)
  BY CopyToIs
<1>6. ASSUME NEW l \in Depths, ~(l <= d)
      PROVE  /\ down[l] \in [Cells -> [Parts -> Modes]]
             /\ \A c \in Cells, q \in Parts :
                  down[l][c][q] = IF c \in Area(at) /\ q \in parts THEN tree[d][c][q] ELSE tree[l][c][q]
  <2>1. PICK t : t = CopyTo(tree, d, l, Area(at), parts)
    OBVIOUS
  <2>2. Copied(t, tree, d, l, Area(at), parts)
    BY <1>5, <2>1
  <2>3. down[l] = t[l]
    BY <1>4, <1>6, <2>1
  <2> QED
    BY <2>2, <2>3 DEF Copied, Trees
<1>7. ASSUME NEW l \in Depths, l <= d PROVE down[l] = tree[l]
  BY <1>4, <1>7
<1>8. down \in Trees
  <2>1. down = [l \in Depths |-> down[l]]
    BY <1>4
  <2>2. ASSUME NEW l \in Depths PROVE down[l] \in [Cells -> [Parts -> Modes]]
    BY <1>6, <1>7 DEF Trees
  <2> QED
    BY <2>1, <2>2 DEF Trees
<1>9. Outlying(down, tree, d, Area(at))
  <2> SUFFICES ASSUME NEW l \in Depths, NEW c \in Cells, NEW q \in Parts, l < d \/ c \notin Area(at)
               PROVE  down[l][c][q] = tree[l][c][q]
    BY DEF Outlying
  <2>1. CASE l <= d
    BY <1>7, <2>1
  <2>2. CASE ~(l <= d)
    <3>1. c \notin Area(at)
      BY <2>2 DEF Depths
    <3> QED
      BY <1>6, <2>2, <3>1
  <2> QED
    BY <2>1, <2>2
<1>10. \A c \in Cells, q \in Parts : down[d][c][q] = tree[d][c][q]
  BY <1>7 DEF Depths
<1>11. ASSUME NEW l \in Depths, NEW c \in Area(at), NEW q \in parts, l > d
       PROVE  down[l][c][q] = tree[d][c][q]
  <2>1. c \in Cells
    BY AreaIs
  <2>2. q \in Parts
    BY <1>3 DEF Parts
  <2>3. ~(l <= d)
    BY <1>11 DEF Depths
  <2> QED
    BY <1>6, <2>1, <2>2, <2>3
<1> QED
  BY <1>1, <1>2, <1>3, <1>8, <1>9, <1>10, <1>11

-----------------------------------------------------------------------------
(* A step that works on one block keeps what is known of the others.       *)

Changed(d, area) ==
  /\ search' = search /\ work' \in Trees /\ decided' \in [Cells -> Modes]
  /\ Outlying(work', work, d, area)
  /\ \A c \in Cells : c \notin area => decided'[c] = decided[c]

LEMMA BeforeKept ==
  ASSUME TreeType, NEW at \in Blocks, AgreesFrom(at[3], Before(at)),
         NEW d, NEW area \in SUBSET Area(at), Changed(d, area)
  PROVE  AgreesFrom(at[3], Before(at))'
<1>1. \A c \in Before(at) : c \in Cells /\ c \notin area
  BY BeforeApart
<1>2. Before(at)' = Before(at)
  BY DEF Before, InPicture, Changed
<1> SUFFICES ASSUME NEW l \in at[3]..MAX_PU_DEPTH, NEW c \in Before(at)
             PROVE  Agrees(l, c)'
  BY <1>2 DEF AgreesFrom
<1>3. l \in Depths
  BY BlockIs DEF Depths
<1>4. "info" \in Parts /\ "pixels" \in Parts
  BY DEF Parts
<1>5. Agrees(l, c)
  BY DEF AgreesFrom
<1>6. /\ decided'[c] = decided[c] /\ work'[l][c]["info"] = work[l][c]["info"]
      /\ work'[l][c]["pixels"] = work[l][c]["pixels"]
  BY <1>1, <1>3, <1>4 DEF Changed, Outlying
<1> QED
  BY <1>5, <1>6 DEF Agrees

LEMMA DoneIs ==
  ASSUME NEW s \in CallRecords, s.at[3] < MAX_PU_DEPTH, s.child < 4
  PROVE  /\ \A c \in Done(s) : c \in Cells /\ c \in Area(s.at) /\ c \notin Area(Quarter(s.at, s.child))
         /\ Before(Quarter(s.at, s.child)) = Before(s.at) \cup Done(s)
<1>1. s.at \in Blocks /\ s.child \in 0..3
  BY DEF CallRecords
<1>2. PICK k \in 0..3 : k = s.child
  BY <1>1
<1>3. ASSUME NEW c \in Done(s)
      PROVE  c \in Cells /\ c \in Area(s.at) /\ c \notin Area(Quarter(s.at, k))
  <2>1. PICK j \in 0..(k - 1) : c \in Area(Quarter(s.at, j))
    BY <1>2 DEF Done
  <2>2. j \in 0..3 /\ j # k
    OBVIOUS
  <2>3. c \in Area(s.at)
    BY <1>1, <2>1, <2>2, QuarterIn
  <2>4. c \notin Area(Quarter(s.at, k))
    BY <1>1, <2>1, <2>2, QuarterIn
  <2> QED
    BY <1>1, <2>3, <2>4, AreaIs
<1>4. Before(Quarter(s.at, k)) = Before(s.at) \cup Done(s)
  BY <1>1, <1>2, BeforeQuarter DEF Done
<1> QED
  BY <1>2, <1>3, <1>4

LEMMA OthersKept ==
  ASSUME TreeType, NEW s \in CallRecords, s.at[3] < MAX_PU_DEPTH, s.child < 4, LevelsOf(s),
         NEW d \in Depths, d > s.at[3], NEW area \in SUBSET Area(Quarter(s.at, s.child)),
         Changed(d, area)
  PROVE  LevelsOf(s)'
<1>1. s.at \in Blocks /\ s.child \in 0..3 /\ s.at[3] \in Depths /\ s.at[3] + 1 \in Depths
  BY BlockIs, DepthFits DEF CallRecords, Depths, MAX_PU_DEPTH
<1>2. area \subseteq Area(s.at) /\ Area(s.at) \subseteq Cells
  BY <1>1, QuarterIn, AreaIs
<1>3. AgreesFrom(s.at[3], Before(s.at))'
  BY <1>1, <1>2, BeforeKept DEF LevelsOf
<1>4. Done(s)' = Done(s) /\ \A c \in Done(s) : c \in Cells /\ c \notin area
  <2>1. Done(s)' = Done(s)
    BY DEF Done, InPicture, Changed
  <2> QED
    BY <2>1, DoneIs
<1>5. "info" \in Parts /\ "pixels" \in Parts /\ "coeffs" \in Parts
  BY DEF Parts
<1>6. \A l \in Depths, c \in Done(s) :
        /\ decided'[c] = decided[c] /\ work'[l][c]["info"] = work[l][c]["info"]
        /\ work'[l][c]["pixels"] = work[l][c]["pixels"] /\ work'[l][c]["coeffs"] = work[l][c]["coeffs"]
  BY <1>4, <1>5 DEF Changed, Outlying
<1>7. AgreesFrom(s.at[3] + 1, Done(s))'
  <2> SUFFICES ASSUME NEW l \in (s.at[3] + 1)..MAX_PU_DEPTH, NEW c \in Done(s)
               PROVE  Agrees(l, c)'
    BY <1>4 DEF AgreesFrom
  <2>1. l \in Depths
    BY <1>1 DEF Depths
  <2>2. Agrees(l, c)
    BY DEF LevelsOf, AgreesFrom
  <2> QED
    BY <1>6, <2>1, <2>2 DEF Agrees
<1>8. Settled(s.at[3] + 1, Done(s))'
  <2> SUFFICES ASSUME NEW c \in Done(s)
               PROVE  /\ decided'[c] # NotSet
                      /\ decided'[c].empty \/ work'[s.at[3] + 1][c].coeffs = decided'[c]
                      /\ \A o \in Area(decided'[c].at) : o \in Done(s) /\ decided'[o] = decided'[c]
    BY <1>4 DEF Settled
  <2>1. /\ decided[c] # NotSet
        /\ decided[c].empty \/ work[s.at[3] + 1][c].coeffs = decided[c]
        /\ \A o \in Area(decided[c].at) : o \in Done(s) /\ decided[o] = decided[c]
    BY DEF LevelsOf, Settled
  <2>2. decided'[c] = decided[c] /\ work'[s.at[3] + 1][c]["coeffs"] = work[s.at[3] + 1][c]["coeffs"]
    BY <1>1, <1>6
  <2>3. \A o \in Done(s) : decided'[o] = decided[o]
    BY <1>1, <1>6
  <2> QED
    BY <2>1, <2>2, <2>3
<1>9. ASSUME s.mode # NotSet
      PROVE  \A c \in Area(s.at) :
               /\ work'[s.at[3]][c].info = s.mode /\ work'[s.at[3]][c].pixels = s.mode
               /\ s.mode.empty \/ work'[s.at[3]][c].coeffs = s.mode
  <2> SUFFICES ASSUME NEW c \in Area(s.at)
               PROVE  /\ work'[s.at[3]][c].info = s.mode /\ work'[s.at[3]][c].pixels = s.mode
                      /\ s.mode.empty \/ work'[s.at[3]][c].coeffs = s.mode
    OBVIOUS
  <2>1. c \in Cells /\ s.at[3] < d
    BY <1>1, <1>2 DEF Depths
  <2>2. \A q \in Parts : work'[s.at[3]][c][q] = work[s.at[3]][c][q]
    BY <1>1, <2>1 DEF Changed, Outlying
  <2>3. /\ work[s.at[3]][c].info = s.mode /\ work[s.at[3]][c].pixels = s.mode
        /\ s.mode.empty \/ work[s.at[3]][c].coeffs = s.mode
    BY <1>9 DEF LevelsOf
  <2> QED
    BY <1>5, <2>2, <2>3
<1> QED
  BY <1>3, <1>7, <1>8, <1>9 DEF LevelsOf

-----------------------------------------------------------------------------
(* The stack.                                                              *)

LEMMA BelowIs ==
  ASSUME Linked, stack # <<>>, NEW n, n = Len(stack)
  PROVE  /\ n \in Nat \ {0}
         /\ \A i \in 1..n : stack[i] \in CallRecords
         /\ Top = stack[n] /\ Top \in CallRecords
         /\ Below \in Seq(CallRecords) /\ Len(Below) = n - 1
         /\ \A i \in 1..(n - 1) : Below[i] = stack[i]
<1>1. stack \in Seq(CallRecords)
  BY DEF Linked
<1>2. n \in Nat \ {0}
  BY <1>1
<1>3. \A i \in 1..n : stack[i] \in CallRecords
  BY <1>1, <1>2
<1>4. Below = SubSeq(stack, 1, n - 1)
  BY DEF Below
<1>5. Below \in Seq(CallRecords) /\ Len(Below) = n - 1
  BY <1>1, <1>2, <1>4
<1>6. \A i \in 1..(n - 1) : Below[i] = stack[i]
  BY <1>1, <1>2, <1>4
<1> QED
  BY <1>2, <1>3, <1>5, <1>6 DEF Top

(* A call whose callee has returned.                                       *)
Resumed(s) == [s EXCEPT !.child = @ + 1]

LEMMA ReturnIs ==
  ASSUME Linked, stack # <<>>, NEW n, n = Len(stack), NEW back, back = Return(Below)
  PROVE  /\ n = 1 => back = <<>>
         /\ n > 1 => /\ back \in Seq(CallRecords) /\ Len(back) = n - 1
                     /\ \A i \in 1..(n - 2) : back[i] = stack[i]
                     /\ back[n - 1] = Resumed(stack[n - 1])
<1>1. /\ n \in Nat \ {0}
      /\ Below \in Seq(CallRecords) /\ Len(Below) = n - 1
      /\ \A i \in 1..(n - 1) : Below[i] = stack[i]
  BY BelowIs
<1>2. ASSUME n = 1 PROVE back = <<>>
  BY <1>1, <1>2 DEF Return
<1>3. ASSUME n > 1
      PROVE  /\ back \in Seq(CallRecords) /\ Len(back) = n - 1
             /\ \A i \in 1..(n - 2) : back[i] = stack[i]
             /\ back[n - 1] = Resumed(stack[n - 1])
  <2>1. PICK k \in Nat \ {0} : k = n - 1
    BY <1>1, <1>3
  <2>2. PICK below \in Seq(CallRecords) : below = Below /\ Len(below) = k
    BY <1>1, <2>1
  <2>3. below # <<>> /\ k \in 1..Len(below)
    BY <2>1, <2>2
  <2>4. back = [below EXCEPT ![k] = Resumed(below[k])]
    BY <2>2, <2>3 DEF Return, Resumed
  <2>5. below[k] = stack[k]
    BY <1>1, <2>1, <2>2
  <2>6. stack[k].child < 4 /\ stack[k] \in CallRecords
    <3>1. k \in 1..(Len(stack) - 1)
      BY <1>1, <2>1
    <3>2. stack[k].child < 4
      BY <3>1 DEF Linked
    <3> QED
      BY <2>2, <2>3, <2>5, <3>2
  <2>7. Resumed(below[k]) \in CallRecords
    BY <2>5, <2>6 DEF Resumed, CallRecords
  <2>8. back \in Seq(CallRecords) /\ Len(back) = k /\ back[k] = Resumed(below[k])
    BY <2>2, <2>3, <2>4, <2>7
  <2>9. ASSUME NEW i \in 1..(n - 2) PROVE back[i] = stack[i]
    <3>1. i \in 1..k /\ i # k /\ i \in 1..(n - 1)
      BY <1>1, <2>1
    <3>2. back[i] = below[i]
      BY <2>2, <2>4, <3>1
    <3> QED
      BY <1>1, <2>2, <3>1, <3>2
  <2> QED
    BY <2>1, <2>5, <2>8, <2>9
<1> QED
  BY <1>2, <1>3

LEMMA ResumedIs ==
  ASSUME NEW s \in CallRecords, s.child < 4
  PROVE  /\ Resumed(s) \in CallRecords /\ Resumed(s).at = s.at /\ Resumed(s).step = s.step
         /\ Resumed(s).mode = s.mode /\ Resumed(s).child = s.child + 1
  BY DEF Resumed, CallRecords

(* What is known of a caller while its callees work.                       *)
LEMMA CallerIs ==
  ASSUME SearchInv, NEW i \in 1..Len(stack), NEW j \in 1..Len(stack), i < j
  PROVE  /\ stack[i] \in CallRecords /\ stack[i].step = "split" /\ stack[i].child < 4
         /\ stack[i].at[3] = i - 1 /\ stack[i].at[3] < MAX_PU_DEPTH
         /\ stack[j].at[3] = j - 1
         /\ Area(stack[j].at) \subseteq Area(Quarter(stack[i].at, stack[i].child))
         /\ LevelsOf(stack[i])
<1>1. stack \in Seq(CallRecords) /\ Len(stack) \in Nat
  BY DEF SearchInv, Linked
<1>2. i \in 1..(Len(stack) - 1)
  BY <1>1
<1>3. stack[i].step = "split" /\ stack[i].child < 4
  BY <1>2 DEF SearchInv, Linked
<1>4. CallOk(stack[i]) /\ stack[i].at[3] = i - 1 /\ stack[j].at[3] = j - 1
  BY DEF SearchInv, Linked
<1>5. stack[i].at[3] < MAX_PU_DEPTH
  BY <1>3, <1>4 DEF CallOk
<1> QED
  BY <1>1, <1>3, <1>4, <1>5 DEF SearchInv, Nested

LEMMA CallersKept ==
  ASSUME SearchInv, NEW j \in 1..Len(stack), Changed(stack[j].at[3], Area(stack[j].at)),
         NEW i \in 1..Len(stack), i < j, NEW s, s = stack[i]
  PROVE  LevelsOf(s)'
<1>1. /\ stack[i] \in CallRecords /\ stack[i].child < 4 /\ LevelsOf(stack[i])
      /\ stack[i].at[3] = i - 1 /\ stack[i].at[3] < MAX_PU_DEPTH /\ stack[j].at[3] = j - 1
      /\ Area(stack[j].at) \subseteq Area(Quarter(stack[i].at, stack[i].child))
  BY CallerIs
<1>2. stack[j].at[3] \in Depths
  <2>1. stack[j] \in CallRecords
    BY DEF SearchInv, Linked
  <2> QED
    BY <2>1, BlockIs DEF CallRecords
<1>3. stack[j].at[3] > stack[i].at[3]
  BY <1>1
<1>4. TreeType
  BY DEF SearchInv
<1> QED
  BY <1>1, <1>2, <1>3, <1>4, OthersKept

(* What a call leaves behind: the CU is final, in its own level and in     *)
(* those below, where the next quarters will be searched.                  *)
Finished(at) ==
  /\ \A l \in at[3]..(IF at[3] = 0 THEN 0 ELSE MAX_PU_DEPTH) :
       \A c \in Area(at) \cap InPicture : Agrees(l, c)
  /\ Settled(at[3], Area(at) \cap InPicture)

LEMMA DoneGrows ==
  ASSUME NEW s \in CallRecords, s.child < 4
  PROVE  Done(Resumed(s)) = Done(s) \cup (Area(Quarter(s.at, s.child)) \cap InPicture)
<1>1. Resumed(s).at = s.at /\ Resumed(s).child = s.child + 1 /\ s.child \in 0..3
  BY ResumedIs DEF CallRecords
<1>2. 0..(Resumed(s).child - 1) = 0..(s.child - 1) \cup {s.child}
  BY <1>1
<1> QED
  BY <1>1, <1>2 DEF Done

LEMMA CallerResumed ==
  ASSUME SearchInv, NEW i \in 1..Len(stack), i + 1 = Len(stack), NEW s, s = stack[i],
         NEW at, at = stack[i + 1].at, Changed(at[3], Area(at)), Finished(at)'
  PROVE  LevelsOf(Resumed(s))'
<1>1. i + 1 \in 1..Len(stack) /\ i < i + 1
  BY DEF SearchInv, Linked
<1>2. /\ s \in CallRecords /\ s.child < 4
      /\ s.at[3] < MAX_PU_DEPTH /\ s.at[3] + 1 = at[3] /\ s.at[3] \in Nat
  BY <1>1, CallerIs
<1>3. at = Quarter(s.at, s.child)
  <2>1. i \in 1..(Len(stack) - 1)
    BY <1>1
  <2> QED
    BY <2>1 DEF SearchInv, Linked
<1>4. LevelsOf(s)'
  BY <1>1, CallersKept
<1>5. Resumed(s).at = s.at /\ Resumed(s).mode = s.mode
  BY <1>2, ResumedIs
<1> DEFINE rest == Area(at) \cap InPicture
<1>6. Done(Resumed(s))' = Done(s)' \cup rest'
  <2>1. Done(Resumed(s)) = Done(s) \cup rest
    BY <1>2, <1>3, DoneGrows
  <2>2. Done(Resumed(s))' = Done(Resumed(s)) /\ Done(s)' = Done(s) /\ rest' = rest
    BY DEF Done, InPicture, Changed
  <2> QED
    BY <2>1, <2>2
<1>7. AgreesFrom(s.at[3], Before(s.at))' /\ AgreesFrom(s.at[3] + 1, Done(s))' /\ Settled(s.at[3] + 1, Done(s))'
  BY <1>4 DEF LevelsOf
<1>8. AgreesFrom(s.at[3] + 1, rest)' /\ Settled(s.at[3] + 1, rest)'
  <2>1. at[3] # 0
    BY <1>2
  <2> QED
    BY <1>2, <2>1 DEF Finished, AgreesFrom
<1>9. AgreesFrom(s.at[3] + 1, Done(Resumed(s)))'
  BY <1>6, <1>7, <1>8 DEF AgreesFrom
<1>10. Settled(s.at[3] + 1, Done(Resumed(s)))'
  BY <1>6, <1>7, <1>8 DEF Settled
<1>11. s.mode # NotSet =>
         \A c \in Area(s.at) :
           /\ work'[s.at[3]][c].info = s.mode /\ work'[s.at[3]][c].pixels = s.mode
           /\ s.mode.empty \/ work'[s.at[3]][c].coeffs = s.mode
  BY <1>4 DEF LevelsOf
<1> QED
  BY <1>5, <1>7, <1>9, <1>10, <1>11 DEF LevelsOf

(* A call that returns keeps the invariant.                                *)
LEMMA ReturnKeeps ==
  ASSUME SearchInv, stack # <<>>, stack' = Return(Below),
         NEW at, at = Top.at, Changed(at[3], Area(at)), Finished(at)'
  PROVE  SearchInv'
<1>1. PICK n : n = Len(stack)
  OBVIOUS
<1>2. /\ n \in Nat \ {0} /\ Top = stack[n]
      /\ \A i \in 1..n : stack[i] \in CallRecords
  BY <1>1, BelowIs DEF SearchInv
<1>3. TreeType'
  BY DEF SearchInv, TreeType, Changed
<1>4. CASE n = 1
  <2>1. stack' = <<>>
    BY <1>1, <1>4, ReturnIs DEF SearchInv
  <2>2. Len(stack') = 0 /\ 1..0 = {} /\ stack' \in Seq(CallRecords)
    BY <2>1
  <2>3. Linked' /\ Nested'
    BY <2>1, <2>2 DEF Linked, Nested
  <2>4. at = <<0, 0, 0>>
    BY <1>1, <1>2, <1>4 DEF SearchInv, Linked
  <2>5. Area(at) = Cells
    <3>1. 0 \in Depths
      BY DepthFits DEF Depths, MAX_PU_DEPTH
    <3>2. Width(0) \in Nat
      BY <3>1, WidthIs
    <3>3. at[1] = 0 /\ at[2] = 0 /\ at[3] = 0
      BY <2>4
    <3> QED
      BY <3>2, <3>3 DEF Area, Cells
  <2>6. (Area(at) \cap InPicture)' = InPicture'
    BY <2>5 DEF InPicture
  <2>7. (\A c \in InPicture : Agrees(0, c))' /\ Settled(0, InPicture)'
    <3>1. at[3] = 0 /\ 0 \in 0..0
      BY <2>4
    <3> QED
      BY <2>6, <3>1 DEF Finished
  <2> QED
    BY <1>3, <2>2, <2>3, <2>7 DEF SearchInv, Complete
<1>5. CASE n > 1
  <2>1. PICK k \in Nat \ {0} : k = n - 1
    BY <1>2, <1>5
  <2>2. /\ stack' \in Seq(CallRecords) /\ Len(stack') = k
        /\ \A i \in 1..(k - 1) : stack'[i] = stack[i]
        /\ stack'[k] = Resumed(stack[k])
    <3>1. n - 2 = k - 1
      BY <1>2, <2>1
    <3> QED
      BY <1>1, <1>5, <2>1, <3>1, ReturnIs DEF SearchInv
  <2>3. /\ \A i \in 1..(k - 1) : i \in 1..Len(stack) /\ i < k /\ i < n /\ i + 1 \in 1..k /\ i \in 1..(Len(stack) - 1)
        /\ \A i \in 1..k : i \in 1..Len(stack) /\ i < n
        /\ k \in 1..Len(stack) /\ k + 1 = Len(stack) /\ n \in 1..Len(stack) /\ k < n
    BY <1>1, <1>2, <2>1
  <2>4. /\ stack[k] \in CallRecords /\ stack[k].child < 4 /\ stack[k].step = "split"
        /\ Resumed(stack[k]).at = stack[k].at /\ Resumed(stack[k]).step = stack[k].step
        /\ Resumed(stack[k]).mode = stack[k].mode
    BY <2>3, CallerIs, ResumedIs
  <2>5. \A i \in 1..k : /\ stack'[i].at = stack[i].at /\ stack'[i].step = stack[i].step
                        /\ stack'[i].mode = stack[i].mode
    <3> SUFFICES ASSUME NEW i \in 1..k
                 PROVE  /\ stack'[i].at = stack[i].at /\ stack'[i].step = stack[i].step
                        /\ stack'[i].mode = stack[i].mode
      OBVIOUS
    <3>1. CASE i = k
      BY <2>2, <2>4, <3>1
    <3>2. CASE i # k
      <4>1. i \in 1..(k - 1)
        BY <3>2
      <4> QED
        BY <2>2, <4>1
    <3> QED
      BY <3>1, <3>2
  <2>6. Linked'
    <3>1. ASSUME NEW i \in 1..k
          PROVE  CallOk(stack[i])' /\ stack'[i].at[3] = i - 1
      <4>1. CallOk(stack[i]) /\ stack[i].at[3] = i - 1 /\ stack[i].step = "split"
        BY <2>3, CallerIs DEF SearchInv, Linked
      <4>2. search' = search
        BY DEF Changed
      <4> QED
        BY <2>5, <4>1, <4>2 DEF CallOk, Outside, Inside, Deepest
    <3>2. stack'[1].at = <<0, 0, 0>>
      <4>1. 1 \in 1..k
        OBVIOUS
      <4> QED
        BY <2>5, <4>1 DEF SearchInv, Linked
    <3>3. ASSUME NEW i \in 1..(k - 1)
          PROVE  /\ stack'[i].step = "split" /\ stack'[i].child < 4
                 /\ stack'[i + 1].at = Quarter(stack'[i].at, stack'[i].child)
      <4>1. /\ stack[i].step = "split" /\ stack[i].child < 4
            /\ stack[i + 1].at = Quarter(stack[i].at, stack[i].child)
        BY <2>3 DEF SearchInv, Linked
      <4> QED
        BY <2>2, <2>3, <2>5, <4>1
    <3> QED
      BY <2>2, <3>1, <3>2, <3>3 DEF Linked
  <2>7. Nested'
    <3> SUFFICES ASSUME NEW i \in 1..k, NEW j \in 1..k, i < j
                 PROVE  Area(stack'[j].at) \subseteq Area(Quarter(stack'[i].at, stack'[i].child))
      BY <2>2 DEF Nested, Area, Quarter
    <3>1. i \in 1..(k - 1)
      OBVIOUS
    <3>2. Area(stack[j].at) \subseteq Area(Quarter(stack[i].at, stack[i].child))
      BY <2>3, CallerIs
    <3> QED
      BY <2>2, <2>5, <3>1, <3>2
  <2>8. Complete'
    <3>1. stack' # <<>>
      BY <2>2
    <3> QED
      BY <3>1 DEF Complete
  <2>9. ASSUME NEW i \in 1..k PROVE LevelsOf(stack[i])'
    <3>1. CASE i = k
      <4>1. PICK s : s = stack[k]
        OBVIOUS
      <4>2. at = stack[k + 1].at
        BY <1>1, <1>2, <2>3
      <4>3. LevelsOf(Resumed(s))'
        BY <2>3, <4>1, <4>2, CallerResumed
      <4> QED
        BY <2>2, <3>1, <4>1, <4>3
    <3>2. CASE i # k
      <4>1. i \in 1..(k - 1)
        BY <3>2
      <4>2. PICK s : s = stack[i]
        OBVIOUS
      <4>3. LevelsOf(s)'
        BY <1>2, <2>3, <4>1, <4>2, CallersKept
      <4> QED
        BY <2>2, <4>1, <4>2, <4>3
    <3> QED
      BY <3>1, <3>2
  <2> QED
    BY <1>3, <2>2, <2>6, <2>7, <2>8, <2>9 DEF SearchInv
<1> QED
  BY <1>2, <1>4, <1>5

-----------------------------------------------------------------------------
(* The steps.                                                              *)

LEMMA OutlyingNothing ==
  ASSUME NEW d, NEW area, UNCHANGED <<search, work, decided>>, TreeType
  PROVE  Changed(d, area)
  BY DEF Changed, Outlying, TreeType

LEMMA OutsideKeeps ==
  ASSUME SearchInv, SearchOutside
  PROVE  SearchInv'
<1>1. stack # <<>> /\ stack' = Return(Below) /\ UNCHANGED <<search, work, decided>>
  BY DEF SearchOutside
<1>2. PICK at \in Blocks : at = Top.at
  BY <1>1, BelowIs DEF SearchInv, CallRecords
<1>3. Changed(at[3], Area(at))
  BY <1>1, OutlyingNothing DEF SearchInv
<1>4. Area(at) \cap InPicture = {}
  <2> SUFFICES ASSUME NEW c \in Area(at), c \in InPicture PROVE FALSE
    OBVIOUS
  <2>1. c \in Cells /\ c[1] < search.width /\ c[2] < search.height
    BY DEF InPicture
  <2>2. PICK w \in Nat : w = Width(at[3])
    BY BlockIs, WidthIs
  <2>3. Near(c[1], at[1], w) /\ Near(c[2], at[2], w)
    BY <2>1, <2>2, AreaIs
  <2>4. at[1] \in Nat /\ at[2] \in Nat
    BY BlockIs
  <2>5. PICK x, y : c = <<x, y>> /\ x \in 0..(Width(0) - 1) /\ y \in 0..(Width(0) - 1)
    BY <2>1 DEF Cells
  <2>6. x \in Nat /\ y \in Nat
    BY <2>5
  <2>7. search.width \in Nat /\ search.height \in Nat
    BY SearchesFit DEF SearchInv, TreeType
  <2>8. at[1] >= search.width \/ at[2] >= search.height
    BY <1>1, <1>2 DEF SearchOutside, Outside
  <2> QED
    BY <2>1, <2>3, <2>4, <2>5, <2>6, <2>7, <2>8 DEF Near
<1>5. Finished(at)'
  <2>1. (Area(at) \cap InPicture)' = {}
    BY <1>1, <1>4 DEF InPicture
  <2> QED
    BY <2>1 DEF Finished, Settled
<1> QED
  BY <1>1, <1>2, <1>3, <1>5, ReturnKeeps

LEMMA QuartersKeep ==
  ASSUME SearchInv, KeepQuarters
  PROVE  SearchInv'
<1>1. /\ stack # <<>> /\ stack' = Return(Below) /\ UNCHANGED <<search, decided>>
      /\ work' = CopyUp(work, Top.at) /\ Top.step = "split" /\ Top.child = 4
  BY DEF KeepQuarters
<1>2. PICK n \in Nat \ {0} : n = Len(stack) /\ Top = stack[n] /\ n \in 1..Len(stack)
  BY <1>1, BelowIs DEF SearchInv
<1>3. PICK s \in CallRecords : s = Top
  BY <1>1, BelowIs DEF SearchInv
<1>4. CallOk(s) /\ LevelsOf(s)
  BY <1>2, <1>3 DEF SearchInv, Linked
<1>5. PICK at \in Blocks : at = s.at
  BY DEF CallRecords
<1>6. at[3] < MAX_PU_DEPTH /\ at[3] \in Depths /\ at[3] + 1 \in Depths
  BY <1>1, <1>3, <1>4, <1>5, BlockIs, DepthFits DEF CallOk, Depths, MAX_PU_DEPTH
<1>7. Area(at) \subseteq Cells
  BY AreaIs
<1>8. Done(s) = Area(at) \cap InPicture
  <2>1. s.child - 1 = 3
    BY <1>1, <1>3
  <2>2. \A c \in Area(at) : \E k \in 0..3 : c \in Area(Quarter(at, k))
    BY <1>6, QuartersCover
  <2>3. \A k \in 0..3 : Area(Quarter(at, k)) \subseteq Area(at)
    BY <1>6, QuarterIn
  <2> QED
    BY <1>5, <2>1, <2>2, <2>3 DEF Done
<1>9. Copied(work', work, at[3] + 1, at[3], Area(at), Parts)
  <2>1. work \in Trees
    BY DEF SearchInv, TreeType
  <2> QED
    BY <1>1, <1>3, <1>5, <1>6, <2>1, CopyUpIs
<1>10. Changed(at[3], Area(at))
  <2>1. work' \in Trees
    BY <1>9 DEF Copied
  <2>2. Outlying(work', work, at[3], Area(at))
    BY <1>6, <1>9 DEF Copied, Outlying, Depths
  <2> QED
    BY <1>1, <2>1, <2>2 DEF Changed, SearchInv, TreeType
<1>11. Finished(at)'
  <2> DEFINE S == Area(at) \cap InPicture
  <2>1. S' = S
    BY <1>1 DEF InPicture
  <2>2. "info" \in Parts /\ "pixels" \in Parts /\ "coeffs" \in Parts
    BY DEF Parts
  <2>3. ASSUME NEW l \in at[3]..MAX_PU_DEPTH, NEW c \in S
        PROVE  Agrees(l, c)'
    <3>1. c \in Cells /\ l \in Depths
      BY <1>6, <1>7 DEF Depths
    <3>2. CASE l = at[3]
      <4>1. Agrees(at[3] + 1, c)
        <5>1. at[3] + 1 \in (at[3] + 1)..MAX_PU_DEPTH
          BY <1>6 DEF Depths
        <5> QED
          BY <1>4, <1>5, <1>8, <5>1 DEF LevelsOf, AgreesFrom
      <4>2. /\ work'[l][c]["info"] = work[at[3] + 1][c]["info"]
            /\ work'[l][c]["pixels"] = work[at[3] + 1][c]["pixels"]
        BY <1>9, <2>2, <3>1, <3>2 DEF Copied
      <4> QED
        BY <1>1, <4>1, <4>2 DEF Agrees
    <3>3. CASE l # at[3]
      <4>1. Agrees(l, c)
        <5>1. l \in (at[3] + 1)..MAX_PU_DEPTH
          BY <1>6, <3>3 DEF Depths
        <5> QED
          BY <1>4, <1>5, <1>8, <5>1 DEF LevelsOf, AgreesFrom
      <4>2. /\ work'[l][c]["info"] = work[l][c]["info"]
            /\ work'[l][c]["pixels"] = work[l][c]["pixels"]
        BY <1>9, <2>2, <3>1, <3>3 DEF Copied
      <4> QED
        BY <1>1, <4>1, <4>2 DEF Agrees
    <3> QED
      BY <3>2, <3>3
  <2>4. Settled(at[3], S)'
    <3>1. Settled(at[3] + 1, S)
      BY <1>4, <1>5, <1>8 DEF LevelsOf
    <3>2. \A c \in S : work'[at[3]][c]["coeffs"] = work[at[3] + 1][c]["coeffs"]
      BY <1>6, <1>7, <1>9, <2>2 DEF Copied
    <3> QED
      BY <1>1, <2>1, <3>1, <3>2 DEF Settled
  <2>5. \A l \in at[3]..(IF at[3] = 0 THEN 0 ELSE MAX_PU_DEPTH) : l \in at[3]..MAX_PU_DEPTH
    BY <1>6 DEF Depths
  <2> QED
    BY <2>1, <2>3, <2>4, <2>5 DEF Finished
<1> QED
  BY <1>1, <1>3, <1>5, <1>10, <1>11, ReturnKeeps

(* A CU that keeps a mode of its own is inside the picture.                *)
LEMMA InsideIs ==
  ASSUME TreeType, NEW at \in Blocks, Inside(at)
  PROVE  Area(at) \subseteq InPicture
<1> SUFFICES ASSUME NEW c \in Area(at) PROVE c \in InPicture
  OBVIOUS
<1>1. c \in Cells
  BY AreaIs
<1>2. PICK w \in Nat : w = Width(at[3])
  BY BlockIs, WidthIs
<1>3. Near(c[1], at[1], w) /\ Near(c[2], at[2], w)
  BY <1>1, <1>2, AreaIs
<1>4. at[1] \in Nat /\ at[2] \in Nat
  BY BlockIs
<1>5. PICK x, y : c = <<x, y>> /\ x \in 0..(Width(0) - 1) /\ y \in 0..(Width(0) - 1)
  BY <1>1 DEF Cells
<1>6. x \in Nat /\ y \in Nat
  BY <1>5
<1>7. search.width \in Nat /\ search.height \in Nat
  BY SearchesFit DEF TreeType
<1>8. at[1] + w <= search.width /\ at[2] + w <= search.height
  BY <1>2 DEF Inside
<1>9. c[1] < search.width /\ c[2] < search.height
  BY <1>3, <1>4, <1>5, <1>6, <1>7, <1>8 DEF Near
<1> QED
  BY <1>1, <1>9 DEF InPicture

(* Keeping a mode that the level has, in that level and those below.       *)
LEMMA DownKeeps ==
  ASSUME TreeType, NEW at \in Blocks, NEW m \in Modes, m # NotSet, m.at = at, Inside(at),
         NEW tree \in Trees, Outlying(tree, work, at[3], Area(at)),
         \A c \in Area(at) :
           /\ tree[at[3]][c].info = m /\ tree[at[3]][c].pixels = m
           /\ m.empty \/ tree[at[3]][c].coeffs = m,
         \/ work' = CopyDown(tree, at)
         \/ work' = tree /\ at[3] = 0,
         decided' = [c \in Cells |-> IF c \in Area(at) THEN m ELSE decided[c]],
         search' = search
  PROVE  Changed(at[3], Area(at)) /\ Finished(at)'
<1>1. at[3] \in Depths /\ Area(at) \subseteq Cells
  BY BlockIs, AreaIs
<1>2. "info" \in Parts /\ "pixels" \in Parts /\ "coeffs" \in Parts
  BY DEF Parts
<1>3. /\ work' \in Trees /\ Outlying(work', tree, at[3], Area(at))
      /\ \A c \in Cells, q \in Parts : work'[at[3]][c][q] = tree[at[3]][c][q]
      /\ at[3] = 0 \/ \A l \in Depths, c \in Area(at), q \in {"info", "pixels"} :
                        l > at[3] => work'[l][c][q] = tree[at[3]][c][q]
  <2>1. CASE work' = CopyDown(tree, at)
    BY <2>1, CopyDownIs
  <2>2. CASE work' = tree /\ at[3] = 0
    BY <2>2 DEF Outlying
  <2> QED
    BY <2>1, <2>2
<1>4. Changed(at[3], Area(at))
  <2>1. Outlying(work', work, at[3], Area(at))
    BY <1>3, OutlyingTwice
  <2>2. decided' \in [Cells -> Modes] /\ \A c \in Cells : c \notin Area(at) => decided'[c] = decided[c]
    BY DEF TreeType
  <2> QED
    BY <1>3, <2>1, <2>2 DEF Changed
<1>5. (Area(at) \cap InPicture)' = Area(at)
  <2>1. Area(at) \cap InPicture = Area(at)
    BY InsideIs
  <2>2. InPicture' = InPicture
    BY DEF InPicture
  <2> QED
    BY <2>1, <2>2 DEF Area
<1>6. \A c \in Area(at) : decided'[c] = m
  BY <1>1
<1>7. ASSUME NEW l \in at[3]..(IF at[3] = 0 THEN 0 ELSE MAX_PU_DEPTH), NEW c \in Area(at)
      PROVE  Agrees(l, c)'
  <2>1. c \in Cells /\ l \in Depths /\ (at[3] = 0 => l = at[3])
    BY <1>1, DepthFits DEF Depths, MAX_PU_DEPTH
  <2>2. work'[l][c]["info"] = tree[at[3]][c]["info"] /\ work'[l][c]["pixels"] = tree[at[3]][c]["pixels"]
    <3>1. CASE l = at[3]
      BY <1>2, <1>3, <2>1, <3>1
    <3>2. CASE l # at[3]
      <4>1. l > at[3] /\ at[3] # 0
        BY <1>1, <2>1, <3>2 DEF Depths
      <4> QED
        BY <1>3, <2>1, <4>1
    <3> QED
      BY <3>1, <3>2
  <2> QED
    BY <1>6, <2>2 DEF Agrees
<1>8. Settled(at[3], Area(at))'
  <2>1. ASSUME NEW c \in Area(at)
        PROVE  /\ decided'[c] # NotSet
               /\ decided'[c].empty \/ work'[at[3]][c].coeffs = decided'[c]
               /\ \A o \in Area(decided'[c].at) : o \in Area(at) /\ decided'[o] = decided'[c]
    <3>1. work'[at[3]][c]["coeffs"] = tree[at[3]][c]["coeffs"]
      BY <1>1, <1>2, <1>3
    <3> QED
      BY <1>6, <3>1
  <2>2. Area(at)' = Area(at)
    BY DEF Area
  <2> QED
    BY <2>1, <2>2 DEF Settled
<1> QED
  BY <1>4, <1>5, <1>7, <1>8 DEF Finished

LEMMA TopIs ==
  ASSUME SearchInv, stack # <<>>
  PROVE  /\ Top \in CallRecords /\ Top.at \in Blocks /\ Top.mode \in Modes
         /\ CallOk(Top) /\ LevelsOf(Top) /\ TreeType
         /\ Top.step = "split" => Top.at[3] < MAX_PU_DEPTH
<1>1. PICK n \in Nat \ {0} : n = Len(stack) /\ Top = stack[n] /\ n \in 1..Len(stack)
  BY BelowIs DEF SearchInv
<1>2. Top \in CallRecords
  BY BelowIs DEF SearchInv
<1>3. CallOk(Top) /\ LevelsOf(Top)
  BY <1>1 DEF SearchInv, Linked
<1> QED
  BY <1>2, <1>3 DEF CallRecords, CallOk, SearchInv

LEMMA CuKeeps ==
  ASSUME SearchInv, KeepCu
  PROVE  SearchInv'
<1>1. /\ stack # <<>> /\ stack' = Return(Below) /\ search' = search
      /\ Top.step \in {"split", "leaf"} /\ Top.mode # NotSet
      /\ work' = IF Top.step = "leaf" \/ Top.at[3] > 0 THEN CopyDown(work, Top.at) ELSE work
      /\ decided' = [c \in Cells |-> IF c \in Area(Top.mode.at) THEN Top.mode ELSE decided[c]]
  BY DEF KeepCu, Decided
<1>2. PICK s \in CallRecords : s = Top
  BY <1>1, TopIs
<1>3. /\ TreeType /\ s.at \in Blocks /\ s.mode \in Modes /\ s.mode.at = s.at /\ Inside(s.at)
      /\ LevelsOf(s)
  BY <1>1, <1>2, TopIs DEF CallOk
<1>4. PICK at \in Blocks : at = s.at
  BY <1>3
<1>5. PICK m \in Modes : m = s.mode /\ m # NotSet /\ m.at = at
  BY <1>1, <1>2, <1>3, <1>4
<1>6. work \in Trees /\ Outlying(work, work, at[3], Area(at))
  BY <1>3 DEF TreeType, Outlying
<1>7. \A c \in Area(at) :
        /\ work[at[3]][c].info = m /\ work[at[3]][c].pixels = m
        /\ m.empty \/ work[at[3]][c].coeffs = m
  BY <1>3, <1>4, <1>5 DEF LevelsOf
<1>8. \/ work' = CopyDown(work, at)
      \/ work' = work /\ at[3] = 0
  <2>1. at[3] \in Nat
    BY BlockIs DEF Depths
  <2> QED
    BY <1>1, <1>2, <1>4, <2>1
<1>9. decided' = [c \in Cells |-> IF c \in Area(at) THEN m ELSE decided[c]]
  BY <1>1, <1>2, <1>5
<1>10. Changed(at[3], Area(at)) /\ Finished(at)'
  BY <1>1, <1>3, <1>4, <1>5, <1>6, <1>7, <1>8, <1>9, DownKeeps
<1> QED
  BY <1>1, <1>2, <1>4, <1>10, ReturnKeeps

LEMMA ModeOfQuarterKeeps ==
  ASSUME SearchInv, KeepModeOfQuarter
  PROVE  SearchInv'
<1>1. PICK at, m, tried :
        /\ stack # <<>> /\ at = Top.at /\ m = Mode(at, "intra", "2Nx2N", FALSE)
        /\ tried = FillAll(work, at[3], Area(at), m)
        /\ Inside(at)
        /\ work' = IF at[3] > 0 THEN CopyDown(tried, at) ELSE tried
        /\ Decided(m) /\ stack' = Return(Below) /\ search' = search
  BY DEF KeepModeOfQuarter
<1>2. TreeType /\ at \in Blocks
  BY <1>1, TopIs
<1>3. at[3] \in Depths /\ at[3] \in Nat /\ Area(at) \subseteq Cells
  <2>1. at[3] \in Depths /\ Area(at) \subseteq Cells
    BY <1>2, BlockIs, AreaIs
  <2> QED
    BY <2>1 DEF Depths
<1>4. m \in Modes /\ m # NotSet /\ m.at = at
  BY <1>1, <1>2 DEF Mode, Modes, NotSet
<1>5. work \in Trees
  BY <1>2 DEF TreeType
<1>6. Filled(tried, work, at[3], Area(at), Parts, m)
  BY <1>1, <1>3, <1>4, <1>5, FillAllIs
<1>7. tried \in Trees /\ Outlying(tried, work, at[3], Area(at))
  BY <1>3, <1>6 DEF Filled, Outlying, Depths
<1>8. "info" \in Parts /\ "pixels" \in Parts /\ "coeffs" \in Parts
  BY DEF Parts
<1>9. \A c \in Area(at) :
        /\ tried[at[3]][c].info = m /\ tried[at[3]][c].pixels = m
        /\ m.empty \/ tried[at[3]][c].coeffs = m
  BY <1>3, <1>6, <1>8 DEF Filled
<1>10. \/ work' = CopyDown(tried, at)
       \/ work' = tried /\ at[3] = 0
  <2>1. at[3] > 0 \/ at[3] = 0
    BY <1>3
  <2> QED
    BY <1>1, <2>1
<1>11. decided' = [c \in Cells |-> IF c \in Area(at) THEN m ELSE decided[c]]
  BY <1>1, <1>4 DEF Decided
<1>12. search' = search /\ Inside(at)
  BY <1>1
<1>13. Changed(at[3], Area(at)) /\ Finished(at)'
  BY <1>2, <1>4, <1>7, <1>9, <1>10, <1>11, <1>12, DownKeeps
<1> QED
  BY <1>1, <1>13, ReturnKeeps

(* A quarter lies, like its CU, in the quarters of the other calls.        *)
LEMMA QuarterKeeps ==
  ASSUME SearchInv, SearchQuarter
  PROVE  SearchInv'
<1>1. PICK call :
        /\ stack # <<>> /\ Top.step = "split" /\ Top.child < 4
        /\ call = Call(Quarter(Top.at, Top.child))
        /\ stack' = Append(stack, call)
        /\ UNCHANGED <<search, work, decided>>
  BY DEF SearchQuarter
<1>2. PICK s \in CallRecords : s = Top
  BY <1>1, TopIs
<1>3. /\ s.at \in Blocks /\ s.at[3] < MAX_PU_DEPTH /\ s.child \in 0..3 /\ LevelsOf(s) /\ TreeType
      /\ CallOk(s)
  BY <1>1, <1>2, TopIs DEF CallRecords
<1>4. PICK at : at = Quarter(s.at, s.child)
  OBVIOUS
<1>5. at \in Blocks /\ at[3] = s.at[3] + 1
  BY <1>3, <1>4, QuarterIs
<1>6. /\ call.at = at /\ call.step = "modes" /\ call.mode = NotSet /\ call.child = 0
      /\ call \in CallRecords
  BY <1>1, <1>2, <1>4, <1>5 DEF Call, CallRecords, Modes
<1>7. PICK n \in Nat \ {0} : /\ n = Len(stack) /\ Top = stack[n] /\ n \in 1..Len(stack)
                             /\ \A i \in 1..n : stack[i] \in CallRecords
  BY <1>1, BelowIs DEF SearchInv
<1>8. /\ stack' \in Seq(CallRecords) /\ Len(stack') = n + 1
      /\ \A i \in 1..n : stack'[i] = stack[i]
      /\ stack'[n + 1] = call
  <2>1. stack \in Seq(CallRecords)
    BY DEF SearchInv, Linked
  <2> QED
    BY <1>1, <1>6, <1>7, <2>1
<1>9. \A i \in 1..(n + 1) : i \in 1..n \/ i = n + 1
  OBVIOUS
<1>10. TreeType'
  BY <1>1, <1>3 DEF TreeType
<1>11. Linked'
  <2>1. ASSUME NEW i \in 1..(n + 1)
        PROVE  CallOk(stack[i])' /\ stack'[i].at[3] = i - 1
    <3>1. CASE i \in 1..n
      <4>1. CallOk(stack[i]) /\ stack[i].at[3] = i - 1
        BY <1>7, <3>1 DEF SearchInv, Linked
      <4> QED
        BY <1>1, <1>8, <3>1, <4>1 DEF CallOk, Outside, Inside, Deepest
    <3>2. CASE i = n + 1
      <4>1. s.at[3] = n - 1
        BY <1>2, <1>7 DEF SearchInv, Linked
      <4>2. stack'[i] = call /\ call.at[3] = i - 1
        BY <1>5, <1>6, <1>8, <3>2, <4>1
      <4>3. CallOk(stack[i])'
        BY <1>6, <4>2 DEF CallOk
      <4> QED
        BY <4>2, <4>3
    <3> QED
      BY <1>9, <3>1, <3>2
  <2>2. stack'[1].at = <<0, 0, 0>>
    <3>1. 1 \in 1..n
      OBVIOUS
    <3> QED
      BY <1>1, <1>8, <3>1 DEF SearchInv, Linked
  <2>3. ASSUME NEW i \in 1..n
        PROVE  /\ stack'[i].step = "split" /\ stack'[i].child < 4
               /\ stack'[i + 1].at = Quarter(stack'[i].at, stack'[i].child)
    <3>1. CASE i = n
      BY <1>1, <1>2, <1>4, <1>6, <1>7, <1>8, <3>1
    <3>2. CASE i # n
      <4>1. i \in 1..(Len(stack) - 1) /\ i + 1 \in 1..n
        BY <1>7, <3>2
      <4>2. /\ stack[i].step = "split" /\ stack[i].child < 4
            /\ stack[i + 1].at = Quarter(stack[i].at, stack[i].child)
        BY <4>1 DEF SearchInv, Linked
      <4> QED
        BY <1>8, <4>1, <4>2
    <3> QED
      BY <3>1, <3>2
  <2>4. Len(stack') - 1 = n
    BY <1>8
  <2> QED
    BY <1>8, <2>1, <2>2, <2>3, <2>4 DEF Linked
<1>12. Nested'
  <2> SUFFICES ASSUME NEW i \in 1..(n + 1), NEW j \in 1..(n + 1), i < j
               PROVE  Area(stack'[j].at) \subseteq Area(Quarter(stack'[i].at, stack'[i].child))
    BY <1>8 DEF Nested, Area, Quarter
  <2>1. i \in 1..n
    OBVIOUS
  <2>2. CASE j \in 1..n
    BY <1>7, <1>8, <2>1, <2>2 DEF SearchInv, Nested
  <2>3. CASE j = n + 1
    <3>1. CASE i = n
      BY <1>2, <1>4, <1>6, <1>7, <1>8, <2>3, <3>1
    <3>2. CASE i # n
      <4>1. Area(s.at) \subseteq Area(Quarter(stack[i].at, stack[i].child))
        <5>1. i < n
          BY <3>2
        <5> QED
          BY <1>2, <1>7, <2>1, <5>1 DEF SearchInv, Nested
      <4>2. Area(at) \subseteq Area(s.at)
        BY <1>3, <1>4, QuarterIn
      <4> QED
        BY <1>6, <1>8, <2>1, <2>3, <4>1, <4>2
    <3> QED
      BY <3>1, <3>2
  <2> QED
    BY <1>9, <2>2, <2>3
<1>13. Complete'
  <2>1. stack' # <<>>
    BY <1>8
  <2> QED
    BY <2>1 DEF Complete
<1>14. ASSUME NEW r, LevelsOf(r) PROVE LevelsOf(r)'
  BY <1>1, <1>14 DEF LevelsOf, AgreesFrom, Settled, Agrees, Before, Done, InPicture
<1>15. LevelsOf(call)
  <2>1. Done(call) = {}
    <3>1. 0..(call.child - 1) = {}
      BY <1>6
    <3> QED
      BY <3>1 DEF Done
  <2>2. Before(at) = Before(s.at) \cup Done(s)
    BY <1>1, <1>2, <1>3, <1>4, DoneIs
  <2>3. AgreesFrom(at[3], Before(at))
    <3>1. s.at[3] \in Nat
      BY <1>3, BlockIs DEF Depths
    <3>2. \A l \in at[3]..MAX_PU_DEPTH : l \in s.at[3]..MAX_PU_DEPTH /\ l \in (s.at[3] + 1)..MAX_PU_DEPTH
      BY <1>5, <3>1
    <3> QED
      BY <1>3, <2>2, <3>2 DEF LevelsOf, AgreesFrom
  <2> QED
    BY <1>6, <2>1, <2>3 DEF LevelsOf, AgreesFrom, Settled
<1>16. ASSUME NEW i \in 1..(n + 1) PROVE LevelsOf(stack[i])'
  <2>1. CASE i \in 1..n
    <3>1. PICK r : r = stack[i]
      OBVIOUS
    <3>2. LevelsOf(r)
      BY <1>7, <2>1, <3>1 DEF SearchInv
    <3> QED
      BY <1>8, <1>14, <2>1, <3>1, <3>2
  <2>2. CASE i = n + 1
    <3>1. LevelsOf(call)'
      BY <1>14, <1>15
    <3> QED
      BY <1>8, <2>2, <3>1
  <2> QED
    BY <1>9, <2>1, <2>2
<1> QED
  BY <1>8, <1>10, <1>11, <1>12, <1>13, <1>16 DEF SearchInv

(* Rounding up reaches the end of a narrower block.                        *)
LEMMA RoundedUp ==
  ASSUME NEW w \in {1, 2, 4, 8, 16}, NEW q \in {1, 2, 4, 8, 16}, NEW m, m = q * w,
         NEW x \in Nat, x % w = 0, NEW v \in Nat, x <= v
  PROVE  x + w <= (v \div m) * m + m
<1>1. m \in Nat \ {0}
  OBVIOUS
<1>2. PICK c \in Nat : c = v \div m
  BY <1>1
<1>3. v < c * m + m
  <2>1. ASSUME NEW k \in {1, 2, 4, 8, 16, 32, 64, 128, 256} PROVE v < (v \div k) * k + k
    BY <2>1
  <2>2. m \in {1, 2, 4, 8, 16, 32, 64, 128, 256}
    OBVIOUS
  <2> QED
    BY <1>2, <2>1, <2>2
<1>4. PICK a \in Nat : x = a * w
  <2>1. ASSUME NEW k \in {1, 2, 4, 8, 16}, x % k = 0 PROVE x = (x \div k) * k /\ x \div k \in Nat
    BY <2>1
  <2> QED
    BY <2>1
<1>5. PICK e \in Nat : e = c * q + q
  OBVIOUS
<1>6. c * m + m = e * w
  BY <1>5
<1>7. a * w < e * w
  <2>1. a * w < c * m + m
    BY <1>1, <1>3, <1>4
  <2> QED
    BY <1>6, <2>1
<1>8. a * w + w <= e * w
  <2>1. ASSUME NEW k \in {1, 2, 4, 8, 16}, a * k < e * k PROVE a * k + k <= e * k
    BY <2>1
  <2> QED
    BY <1>7, <2>1
<1> QED
  BY <1>2, <1>4, <1>6, <1>8

LEMMA RangesAre ==
  ASSUME TreeType
  PROVE  /\ \E lo \in Nat, hi \in Depths : lo <= hi /\ search.intraDepths[1] = lo /\ search.intraDepths[2] = hi
         /\ \E lo \in Nat, hi \in Depths : /\ lo <= hi /\ hi <= MAX_DEPTH
                                           /\ search.interDepths[1] = lo /\ search.interDepths[2] = hi
         /\ search.width \in Nat /\ search.height \in Nat
<1>1. search \in Searches
  BY DEF TreeType
<1>2. MAX_DEPTH \in 0..3 /\ MAX_PU_DEPTH = MAX_DEPTH + 1
  BY DepthFits DEF MAX_PU_DEPTH
<1>3. PICK lo \in 0..MAX_PU_DEPTH, hi \in 0..MAX_PU_DEPTH : lo <= hi /\ search.intraDepths = <<lo, hi>>
  BY <1>1, SearchesFit
<1>4. PICK low \in 0..MAX_DEPTH, high \in 0..MAX_DEPTH : low <= high /\ search.interDepths = <<low, high>>
  BY <1>1, SearchesFit
<1>5. lo \in Nat /\ hi \in Depths /\ low \in Nat /\ high \in Depths /\ high <= MAX_DEPTH
  BY <1>2, <1>3, <1>4 DEF Depths
<1> QED
  BY <1>1, <1>3, <1>4, <1>5, SearchesFit

(* In the quarters of a CU that the picture ends in, all is allowed.       *)
LEMMA ForcedIs ==
  ASSUME TreeType, NEW p \in Blocks, p[3] < MAX_PU_DEPTH, NEW k \in 0..3, ~Inside(p),
         NEW range, range[2] \in Depths, range[2] <= p[3]
  PROVE  SplitForced(Quarter(p, k), range)
<1>1. PICK h \in {1, 2, 4, 8} :
        /\ Width(p[3]) = 2 * h /\ p[1] % (2 * h) = 0 /\ p[2] % (2 * h) = 0
        /\ Quarter(p, k)[1] = p[1] + (k % 2) * h /\ Quarter(p, k)[2] = p[2] + (k \div 2) * h
  BY QuarterIs
<1>2. PICK w \in {1, 2, 4, 8, 16} : w = 2 * h
  OBVIOUS
<1>3. p[3] \in Depths /\ p[1] \in Nat /\ p[2] \in Nat
  BY BlockIs
<1>4. PICK q \in {1, 2, 4, 8, 16} : Width(range[2]) = q * w
  BY <1>1, <1>2, <1>3, WidthDivides
<1>5. PICK m : m = q * w
  OBVIOUS
<1>6. m \in Nat \ {0}
  BY <1>5
<1>7. PICK x \in Nat, y \in Nat, u \in Nat, v \in Nat :
        x = p[1] /\ y = p[2] /\ u = x + (k % 2) * h /\ v = y + (k \div 2) * h
  <2>1. k % 2 \in 0..1 /\ k \div 2 \in 0..1
    OBVIOUS
  <2> QED
    BY <1>3, <2>1
<1>8. x <= u /\ y <= v
  <2>1. k % 2 \in 0..1 /\ k \div 2 \in 0..1
    OBVIOUS
  <2>2. (k % 2) * h \in Nat /\ (k \div 2) * h \in Nat
    BY <2>1
  <2> QED
    BY <1>7, <2>2
<1>9. x + w <= (u \div m) * m + m /\ y + w <= (v \div m) * m + m
  <2>1. x % w = 0 /\ y % w = 0
    BY <1>1, <1>2, <1>7
  <2> QED
    BY <1>5, <1>8, <2>1, RoundedUp
<1>10. search.width \in Nat /\ search.height \in Nat
  BY RangesAre
<1>11. x + w > search.width \/ y + w > search.height
  BY <1>1, <1>2, <1>7, <1>10 DEF Inside
<1>12. (u \div m) * m + m \in Nat /\ (v \div m) * m + m \in Nat
  BY <1>6
<1>13. (u \div m) * m + m > search.width \/ (v \div m) * m + m > search.height
  BY <1>9, <1>10, <1>11, <1>12
<1>14. Quarter(p, k)[1] = u /\ Quarter(p, k)[2] = v /\ Width(range[2]) = m
  BY <1>1, <1>4, <1>5, <1>7
<1> QED
  BY <1>13, <1>14 DEF SplitForced

LEMMA CuModesAre ==
  ASSUME TreeType, NEW at \in Blocks
  PROVE  /\ \A m \in CuModes(at) : /\ m \in Modes /\ m # NotSet /\ m.at = at
                                   /\ m.type = "inter" => at[3] <= MAX_DEPTH
         /\ CanUseInter(at) \/ CanUseIntra(at) => CuModes(at) # {}
<1>1. PICK interParts : interParts = IF CanUseInter(at) THEN {"2Nx2N"} \cup InterParts(at) ELSE {}
  OBVIOUS
<1>2. PICK empties : empties = IF CanUseIntra(at) THEN BOOLEAN ELSE {}
  OBVIOUS
<1>3. PICK intraPart : intraPart = IF at[3] > MAX_DEPTH THEN "NxN" ELSE "2Nx2N"
  OBVIOUS
<1>4. CuModes(at) = {Mode(at, "inter", part, e) : part \in interParts, e \in BOOLEAN}
                    \cup {Mode(at, "intra", intraPart, e) : e \in empties}
  BY <1>1, <1>2, <1>3 DEF CuModes
<1>5. ASSUME NEW part \in interParts
      PROVE  CanUseInter(at) /\ part \in {"2Nx2N", "smp", "amp"} /\ at[3] <= MAX_DEPTH
  <2>1. CanUseInter(at)
    BY <1>1, <1>5
  <2>2. part \in {"2Nx2N"} \cup InterParts(at)
    BY <1>1, <2>1
  <2>3. part \in {"2Nx2N", "smp", "amp"}
    BY <2>2 DEF InterParts
  <2> QED
    BY <2>1, <2>3 DEF CanUseInter
<1>6. ASSUME NEW m \in CuModes(at)
      PROVE  /\ m \in Modes /\ m # NotSet /\ m.at = at
             /\ m.type = "inter" => at[3] <= MAX_DEPTH
  <2>1. CASE m \in {Mode(at, "inter", part, e) : part \in interParts, e \in BOOLEAN}
    <3>1. PICK part \in interParts, e \in BOOLEAN : m = Mode(at, "inter", part, e)
      BY <2>1
    <3>2. part \in {"2Nx2N", "smp", "amp"} /\ at[3] <= MAX_DEPTH
      BY <1>5
    <3> QED
      BY <3>1, <3>2 DEF Mode, Modes, NotSet
  <2>2. CASE m \in {Mode(at, "intra", intraPart, e) : e \in empties}
    <3>1. PICK e \in empties : m = Mode(at, "intra", intraPart, e)
      BY <2>2
    <3>2. e \in BOOLEAN /\ intraPart \in {"NxN", "2Nx2N"}
      BY <1>2, <1>3
    <3> QED
      BY <3>1, <3>2 DEF Mode, Modes, NotSet
  <2> QED
    BY <1>4, <2>1, <2>2
<1>7. ASSUME CanUseInter(at) PROVE Mode(at, "inter", "2Nx2N", TRUE) \in CuModes(at)
  <2>1. "2Nx2N" \in interParts /\ TRUE \in BOOLEAN
    BY <1>1, <1>7
  <2>2. PICK part \in interParts, e \in BOOLEAN : part = "2Nx2N" /\ e = TRUE
    BY <2>1
  <2>3. Mode(at, "inter", part, e) \in CuModes(at)
    BY <1>4
  <2> QED
    BY <2>2, <2>3
<1>8. ASSUME CanUseIntra(at) PROVE Mode(at, "intra", intraPart, TRUE) \in CuModes(at)
  <2>1. PICK e \in empties : e = TRUE
    BY <1>2, <1>8
  <2>2. Mode(at, "intra", intraPart, e) \in CuModes(at)
    BY <1>4
  <2> QED
    BY <2>1, <2>2
<1> QED
  BY <1>6, <1>7, <1>8

(* A CU inside the picture has modes to choose from in the levels that no  *)
(* range of depths exceeds: its depth ends a range, or the picture ends in *)
(* the CU that it is a quarter of.                                         *)
LEMMA DeepestHasModes ==
  ASSUME SearchInv, stack # <<>>, Deepest(Top.at[3])
  PROVE  CuModes(Top.at) # {}
<1>1. PICK at \in Blocks : at = Top.at
  BY TopIs
<1>2. TreeType
  BY DEF SearchInv
<1>3. PICK lo \in Nat, hi \in Depths : lo <= hi /\ search.intraDepths[1] = lo /\ search.intraDepths[2] = hi
  BY <1>2, RangesAre
<1>4. PICK low \in Nat, high \in Depths : /\ low <= high /\ high <= MAX_DEPTH
                                          /\ search.interDepths[1] = low /\ search.interDepths[2] = high
  BY <1>2, RangesAre
<1>5. PICK d \in Nat : d = at[3]
  BY <1>1, BlockIs DEF Depths
<1>6. hi \in Nat /\ high \in Nat /\ d >= hi /\ (search.inter => d >= high)
  BY <1>1, <1>3, <1>4, <1>5 DEF Deepest, Depths
<1>7. CASE d = hi
  <2>1. Within(at[3], search.intraDepths)
    BY <1>3, <1>5, <1>6, <1>7 DEF Within
  <2> QED
    BY <1>1, <1>2, <2>1, CuModesAre DEF CanUseIntra
<1>8. CASE search.inter /\ d = high
  <2>1. Within(at[3], search.interDepths) /\ at[3] <= MAX_DEPTH
    BY <1>4, <1>5, <1>6, <1>8 DEF Within
  <2> QED
    BY <1>1, <1>2, <1>8, <2>1, CuModesAre DEF CanUseInter
<1>9. CASE d # hi /\ ~(search.inter /\ d = high)
  <2>1. PICK n \in Nat \ {0} : n = Len(stack) /\ Top = stack[n] /\ n \in 1..Len(stack)
    BY BelowIs DEF SearchInv
  <2>2. d = n - 1
    BY <1>1, <1>5, <2>1 DEF SearchInv, Linked
  <2>3. PICK i \in Nat : i = n - 1 /\ i \in 1..Len(stack) /\ i < n /\ i \in 1..(Len(stack) - 1) /\ i + 1 = n
    <3>1. d > 0
      BY <1>5, <1>6, <1>9
    <3>2. n > 1
      BY <2>2, <3>1
    <3>3. PICK k \in Nat : k = n - 1 /\ k > 0
      BY <3>2
    <3> QED
      BY <2>1, <3>3
  <2>4. PICK s \in CallRecords : s = stack[i]
    BY <2>1, <2>3, CallerIs
  <2>5. /\ s.step = "split" /\ s.child \in 0..3 /\ s.at \in Blocks /\ s.at[3] < MAX_PU_DEPTH
        /\ s.at[3] = i - 1
    BY <2>1, <2>3, <2>4, CallerIs DEF CallRecords
  <2>6. CallOk(s) /\ at = Quarter(s.at, s.child)
    BY <1>1, <2>1, <2>3, <2>4 DEF SearchInv, Linked
  <2>7. s.at[3] >= hi /\ (search.inter => s.at[3] >= high) /\ hi <= s.at[3]
    BY <1>6, <1>9, <2>2, <2>3, <2>5
  <2>8. ~Inside(s.at)
    BY <1>3, <1>4, <2>5, <2>6, <2>7 DEF CallOk, Deepest
  <2>9. SplitForced(at, search.intraDepths)
    BY <1>2, <1>3, <2>5, <2>6, <2>7, <2>8, ForcedIs
  <2> QED
    BY <1>1, <1>2, <2>9, CuModesAre DEF CanUseIntra
<1> QED
  BY <1>7, <1>8, <1>9

LEMMA ModesKeep ==
  ASSUME SearchInv, SearchModes
  PROVE  SearchInv'
<1>1. PICK m, usable, tried, reset, call :
        /\ stack # <<>> /\ Top.step = "modes" /\ ~Outside(Top.at)
        /\ usable = (IF Inside(Top.at) THEN CuModes(Top.at) ELSE {})
        /\ m \in IF usable = {} THEN {NotSet} ELSE usable
        /\ tried = IF Inside(Top.at) THEN WithPartitions(work, Top.at) ELSE work
        /\ reset = Fill(tried, Top.at[3], {<<Top.at[1], Top.at[2]>>}, "info", NotSet)
        /\ work' = IF m = NotSet THEN reset ELSE Reconstructed(tried, m)
        /\ call = [Top EXCEPT !.step = IF CanSplit(Top.at, m) THEN "split" ELSE "leaf", !.mode = m]
        /\ stack' = Append(Below, call)
        /\ UNCHANGED <<search, decided>>
  BY DEF SearchModes
<1>2. PICK s \in CallRecords : s = Top
  BY <1>1, TopIs
<1>3. /\ s.at \in Blocks /\ LevelsOf(s) /\ TreeType /\ CallOk(s) /\ s.child = 0 /\ work \in Trees
  <2>1. s.at \in Blocks /\ LevelsOf(s) /\ TreeType /\ CallOk(s)
    BY <1>1, <1>2, TopIs
  <2> QED
    BY <1>1, <1>2, <2>1 DEF CallOk, TreeType
<1>4. PICK at \in Blocks : at = s.at
  BY <1>3
<1>5. at[3] \in Depths /\ Area(at) \subseteq Cells /\ <<at[1], at[2]>> \in Area(at)
  BY BlockIs, AreaIs
<1>6. m = NotSet \/ (m \in CuModes(at) /\ Inside(at))
  <2>1. Top.at = at
    BY <1>2, <1>4
  <2>2. usable = IF Inside(at) THEN CuModes(at) ELSE {}
    BY <1>1, <2>1
  <2>3. m \in IF usable = {} THEN {NotSet} ELSE usable
    BY <1>1
  <2>4. CASE usable = {}
    BY <2>3, <2>4
  <2>5. CASE usable # {}
    <3>1. m \in usable
      BY <2>3, <2>5
    <3> QED
      BY <2>2, <3>1
  <2> QED
    BY <2>4, <2>5
<1>7. m # NotSet => /\ m \in Modes /\ m.at = at /\ Inside(at)
                    /\ m.type = "inter" => m.at[3] <= MAX_DEPTH
  BY <1>3, <1>6, CuModesAre
<1>8. m \in Modes
  <2>1. NotSet \in Modes
    BY DEF Modes
  <2> QED
    BY <1>7, <2>1
<1>9. tried \in Trees /\ Outlying(tried, work, at[3], Area(at))
  <2>1. Outlying(work, work, at[3], Area(at))
    BY DEF Outlying
  <2>2. /\ WithPartitions(work, at) \in Trees
        /\ Outlying(WithPartitions(work, at), work, at[3], Area(at))
    BY <1>3, PartitionsIs
  <2>3. tried = work \/ tried = WithPartitions(work, at)
    BY <1>1, <1>2, <1>4
  <2> QED
    BY <1>3, <2>1, <2>2, <2>3
<1>10. /\ work' \in Trees /\ Outlying(work', tried, at[3], Area(at))
       /\ m # NotSet =>
            \A c \in Area(at) :
              /\ work'[at[3]][c].info = m /\ work'[at[3]][c].pixels = m
              /\ m.empty \/ work'[at[3]][c].coeffs = m
  <2>1. CASE m = NotSet
    <3>1. PICK area : area = {<<at[1], at[2]>>}
      OBVIOUS
    <3>2. work' = Fill(tried, at[3], area, "info", NotSet)
      BY <1>1, <1>2, <1>4, <2>1, <3>1
    <3>3. "info" \in Parts
      BY DEF Parts
    <3>4. Filled(work', tried, at[3], area, {"info"}, NotSet)
      BY <1>5, <1>8, <1>9, <2>1, <3>2, <3>3, FillIs
    <3>5. area \subseteq Area(at)
      BY <1>5, <3>1
    <3>6. Outlying(work', tried, at[3], Area(at))
      <4> SUFFICES ASSUME NEW l \in Depths, NEW c \in Cells, NEW q \in Parts, l < at[3] \/ c \notin Area(at)
                   PROVE  work'[l][c][q] = tried[l][c][q]
        BY DEF Outlying
      <4>1. ~(l = at[3] /\ c \in area)
        BY <1>5, <3>5 DEF Depths
      <4> QED
        BY <3>4, <4>1 DEF Filled
    <3> QED
      BY <2>1, <3>4, <3>6 DEF Filled
  <2>2. CASE m # NotSet
    <3>1. work' = Reconstructed(tried, m)
      BY <1>1, <2>2
    <3>2. m \in Modes /\ m.at = at /\ (m.type = "inter" => m.at[3] <= MAX_DEPTH)
      BY <1>7, <2>2
    <3>3. /\ Reconstructed(tried, m) \in Trees
          /\ Outlying(Reconstructed(tried, m), tried, m.at[3], Area(m.at))
          /\ \A c \in Area(m.at) :
               /\ Reconstructed(tried, m)[m.at[3]][c].info = m
               /\ Reconstructed(tried, m)[m.at[3]][c].pixels = m
               /\ m.empty \/ Reconstructed(tried, m)[m.at[3]][c].coeffs = m
      BY <1>9, <2>2, <3>2, ReconstructedIs
    <3> QED
      BY <3>1, <3>2, <3>3
  <2> QED
    BY <2>1, <2>2
<1>11. Changed(at[3], Area(at))
  <2>1. Outlying(work', work, at[3], Area(at))
    BY <1>9, <1>10, OutlyingTwice
  <2> QED
    BY <1>1, <1>3, <1>10, <2>1 DEF Changed, TreeType
<1>12. /\ call.at = at /\ call.mode = m /\ call.child = 0
       /\ call.step = (IF CanSplit(at, m) THEN "split" ELSE "leaf")
       /\ call \in CallRecords
  <2>1. PICK step \in {"split", "leaf"} : step = IF CanSplit(at, m) THEN "split" ELSE "leaf"
    OBVIOUS
  <2>2. call = [s EXCEPT !.step = step, !.mode = m]
    BY <1>1, <1>2, <1>4, <2>1
  <2> QED
    BY <1>3, <1>4, <1>8, <2>1, <2>2 DEF CallRecords
<1>13. CallOk(call)
  <2>1. ~Outside(at)
    BY <1>1, <1>2, <1>4
  <2>2. ASSUME call.step = "split"
        PROVE  at[3] < MAX_PU_DEPTH /\ (Deepest(at[3]) => ~Inside(at))
    <3>1. PICK lo \in Nat, hi \in Depths : lo <= hi /\ search.intraDepths[1] = lo /\ search.intraDepths[2] = hi
      BY <1>3, RangesAre
    <3>2. PICK low \in Nat, high \in Depths : /\ low <= high /\ high <= MAX_DEPTH
                                              /\ search.interDepths[1] = low /\ search.interDepths[2] = high
      BY <1>3, RangesAre
    <3>3. PICK d \in Depths : d = at[3]
      BY <1>5
    <3>4. /\ d \in Nat /\ hi \in Nat /\ high \in Nat /\ MAX_PU_DEPTH \in Nat
          /\ hi <= MAX_PU_DEPTH /\ d <= MAX_PU_DEPTH /\ high < MAX_PU_DEPTH
      BY <3>2, DepthFits DEF Depths, MAX_PU_DEPTH
    <3>5. CanSplit(at, m)
      BY <1>12, <2>2
    <3>6. CASE d < hi \/ (search.inter /\ d < high)
      <4>1. ~Deepest(at[3])
        BY <3>1, <3>2, <3>3, <3>4, <3>6 DEF Deepest
      <4> QED
        BY <3>3, <3>4, <3>6, <4>1
    <3>7. CASE m = NotSet
      <4>1. Deepest(at[3]) => ~Inside(at)
        <5> SUFFICES ASSUME Deepest(at[3]), Inside(at) PROVE FALSE
          OBVIOUS
        <5>1. CuModes(at) # {}
          BY <1>1, <1>2, <1>4, DeepestHasModes
        <5>2. m \in CuModes(at)
          BY <1>1, <1>2, <1>4, <5>1
        <5> QED
          BY <1>3, <3>7, <5>2, CuModesAre
      <4>2. d # MAX_PU_DEPTH
        <5> SUFFICES ASSUME d = MAX_PU_DEPTH PROVE FALSE
          OBVIOUS
        <5>1. Width(at[3]) = 1
          BY <3>3, WidthIs
        <5>2. at[1] \in Nat /\ at[2] \in Nat /\ search.width \in Nat /\ search.height \in Nat
          BY <1>3, BlockIs, RangesAre
        <5>3. Inside(at)
          BY <2>1, <5>1, <5>2 DEF Inside, Outside
        <5>4. Deepest(at[3])
          BY <3>1, <3>2, <3>3, <3>4 DEF Deepest
        <5> QED
          BY <4>1, <5>3, <5>4
      <4> QED
        BY <3>3, <3>4, <4>1, <4>2
    <3> QED
      BY <3>1, <3>2, <3>3, <3>5, <3>6, <3>7 DEF CanSplit
  <2>3. call.step = "leaf" => m # NotSet
    BY <1>12 DEF CanSplit
  <2> QED
    BY <1>7, <1>12, <2>1, <2>2, <2>3 DEF CallOk
<1>14. PICK n \in Nat \ {0} : /\ n = Len(stack) /\ Top = stack[n] /\ n \in 1..Len(stack)
                              /\ \A i \in 1..n : stack[i] \in CallRecords
                              /\ Below \in Seq(CallRecords) /\ Len(Below) = n - 1
                              /\ \A i \in 1..(n - 1) : Below[i] = stack[i]
  BY <1>1, BelowIs DEF SearchInv
<1>15. /\ stack' \in Seq(CallRecords) /\ Len(stack') = n
       /\ \A i \in 1..(n - 1) : stack'[i] = stack[i]
       /\ stack'[n] = call
  <2>1. PICK below \in Seq(CallRecords) : below = Below
    BY <1>14
  <2>2. stack' = Append(below, call) /\ Len(below) = n - 1
    BY <1>1, <1>14, <2>1
  <2>3. stack' \in Seq(CallRecords) /\ Len(stack') = n /\ stack'[n] = call
    BY <1>12, <1>14, <2>2
  <2>4. \A i \in 1..(n - 1) : stack'[i] = below[i]
    BY <1>12, <1>14, <2>2
  <2> QED
    BY <1>14, <2>1, <2>3, <2>4
<1>16. \A i \in 1..n : /\ i \in 1..(n - 1) \/ i = n
                       /\ stack'[i].at = stack[i].at
  <2>1. stack[n].at = at
    BY <1>2, <1>4, <1>14
  <2>2. \A i \in 1..n : i \in 1..(n - 1) \/ i = n
    OBVIOUS
  <2> QED
    BY <1>12, <1>15, <2>1, <2>2
<1>17. TreeType'
  BY <1>3, <1>11 DEF TreeType, Changed
<1>18. Linked'
  <2>1. ASSUME NEW i \in 1..n
        PROVE  CallOk(stack[i])' /\ stack'[i].at[3] = i - 1
    <3>1. CallOk(stack[i]) /\ stack[i].at[3] = i - 1
      BY <1>14 DEF SearchInv, Linked
    <3>2. ASSUME NEW r, CallOk(r) PROVE CallOk(r)'
      BY <1>1, <3>2 DEF CallOk, Outside, Inside, Deepest
    <3>3. CASE i \in 1..(n - 1)
      BY <1>15, <3>1, <3>2, <3>3
    <3>4. CASE i = n
      <4>1. CallOk(call)'
        BY <1>13, <3>2
      <4> QED
        BY <1>15, <1>16, <3>1, <3>4, <4>1
    <3> QED
      BY <1>16, <3>3, <3>4
  <2>2. stack'[1].at = <<0, 0, 0>>
    <3>1. 1 \in 1..n
      OBVIOUS
    <3> QED
      BY <1>1, <1>16, <3>1 DEF SearchInv, Linked
  <2>3. ASSUME NEW i \in 1..(n - 1)
        PROVE  /\ stack'[i].step = "split" /\ stack'[i].child < 4
               /\ stack'[i + 1].at = Quarter(stack'[i].at, stack'[i].child)
    <3>1. /\ stack[i].step = "split" /\ stack[i].child < 4
          /\ stack[i + 1].at = Quarter(stack[i].at, stack[i].child)
      BY <1>14 DEF SearchInv, Linked
    <3>2. i + 1 \in 1..n
      OBVIOUS
    <3> QED
      BY <1>15, <1>16, <3>1, <3>2
  <2> QED
    BY <1>15, <2>1, <2>2, <2>3 DEF Linked
<1>19. Nested'
  <2> SUFFICES ASSUME NEW i \in 1..n, NEW j \in 1..n, i < j
               PROVE  Area(stack'[j].at) \subseteq Area(Quarter(stack'[i].at, stack'[i].child))
    BY <1>15 DEF Nested, Area, Quarter
  <2>1. i \in 1..(n - 1)
    OBVIOUS
  <2>2. Area(stack[j].at) \subseteq Area(Quarter(stack[i].at, stack[i].child))
    BY <1>14 DEF SearchInv, Nested
  <2> QED
    BY <1>15, <1>16, <2>1, <2>2
<1>20. Complete'
  <2>1. stack' # <<>>
    BY <1>15
  <2> QED
    BY <2>1 DEF Complete
<1>21. LevelsOf(call)'
  <2>1. Done(call)' = {}
    <3>1. 0..(call.child - 1) = {}
      BY <1>12
    <3> QED
      BY <3>1 DEF Done
  <2>2. AgreesFrom(at[3], Before(at))'
    BY <1>3, <1>4, <1>11, BeforeKept DEF LevelsOf
  <2>3. AgreesFrom(at[3] + 1, Done(call))' /\ Settled(at[3] + 1, Done(call))'
    BY <2>1 DEF AgreesFrom, Settled
  <2> QED
    BY <1>10, <1>12, <2>2, <2>3 DEF LevelsOf
<1>22. ASSUME NEW i \in 1..n PROVE LevelsOf(stack[i])'
  <2>1. CASE i \in 1..(n - 1)
    <3>1. PICK r : r = stack[i]
      OBVIOUS
    <3>2. stack[n].at = at /\ i < n /\ i \in 1..Len(stack)
      BY <1>2, <1>4, <1>14, <2>1
    <3>3. LevelsOf(r)'
      BY <1>11, <1>14, <3>1, <3>2, CallersKept
    <3> QED
      BY <1>15, <2>1, <3>1, <3>3
  <2>2. CASE i = n
    BY <1>15, <1>21, <2>2
  <2> QED
    BY <1>16, <2>1, <2>2
<1> QED
  BY <1>15, <1>17, <1>18, <1>19, <1>20, <1>22 DEF SearchInv

LEMMA StartOk ==
  ASSUME TreeType, stack = <<Call(<<0, 0, 0>>)>>
  PROVE  SearchInv
<1>1. PICK at : at = <<0, 0, 0>>
  OBVIOUS
<1>2. 0 \in Depths
  BY DepthFits DEF Depths, MAX_PU_DEPTH
<1>3. at \in Blocks /\ at[3] = 0
  <2>1. Width(0) \in {1, 2, 4, 8, 16}
    BY <1>2, WidthIs
  <2>2. 0 \in 0..(Width(0) - 1) /\ 0 % Width(0) = 0
    BY <2>1
  <2> QED
    BY <1>1, <1>2, <2>2 DEF Blocks
<1>4. PICK call : call = Call(at)
  OBVIOUS
<1>5. /\ call.at = at /\ call.step = "modes" /\ call.mode = NotSet /\ call.child = 0
      /\ call \in CallRecords
  BY <1>3, <1>4 DEF Call, CallRecords, Modes
<1>6. stack = <<call>>
  BY <1>1, <1>4
<1>7. stack \in Seq(CallRecords) /\ Len(stack) = 1 /\ stack[1] = call /\ stack # <<>>
  BY <1>5, <1>6
<1>8. Linked
  <2>1. CallOk(call)
    BY <1>5 DEF CallOk
  <2> QED
    BY <1>1, <1>3, <1>5, <1>7, <2>1 DEF Linked
<1>9. Nested /\ Complete
  BY <1>7 DEF Nested, Complete
<1>10. LevelsOf(call)
  <2>1. Done(call) = {}
    <3>1. 0..(call.child - 1) = {}
      BY <1>5
    <3> QED
      BY <3>1 DEF Done
  <2>2. Before(at) = {}
    BY <1>1, NothingBefore
  <2> QED
    BY <1>5, <2>1, <2>2 DEF LevelsOf, AgreesFrom, Settled
<1> QED
  BY <1>7, <1>8, <1>9, <1>10 DEF SearchInv

LEMMA BlankIs ==
  ASSUME NEW tree, tree = [l \in Depths |-> [c \in Cells |-> Blank]],
         NEW modes, modes = [c \in Cells |-> NotSet]
  PROVE  tree \in Trees /\ modes \in [Cells -> Modes]
<1>1. NotSet \in Modes
  BY DEF Modes
<1>2. Blank \in [Parts -> Modes]
  BY <1>1 DEF Blank, Parts
<1> QED
  BY <1>1, <1>2 DEF Trees

LEMMA SearchStarts == SearchInit => SearchInv
  BY BlankIs, StartOk DEF SearchInit, TreeType

(* A new search starts like the first one.                                 *)
LEMMA SearchRestarts == SearchLcu => SearchInit'
  BY DEF SearchLcu, SearchInit

LEMMA SearchStep ==
  ASSUME SearchInv, SearchInit' => SearchInv', [SearchNext]_searchVars
  PROVE  SearchInv'
<1>1. CASE SearchLcu
  BY <1>1, SearchRestarts
<1>2. CASE SearchOutside
  BY <1>2, OutsideKeeps
<1>3. CASE SearchModes
  BY <1>3, ModesKeep
<1>4. CASE SearchQuarter
  BY <1>4, QuarterKeeps
<1>5. CASE KeepQuarters
  BY <1>5, QuartersKeep
<1>6. CASE KeepCu
  BY <1>6, CuKeeps
<1>7. CASE KeepModeOfQuarter
  BY <1>7, ModeOfQuarterKeeps
<1>8. CASE UNCHANGED searchVars
  <2>1. search' = search /\ work' = work /\ stack' = stack /\ decided' = decided
    BY <1>8 DEF searchVars
  <2>2. TreeType'
    BY <2>1 DEF SearchInv, TreeType
  <2>3. ASSUME NEW r, CallOk(r) PROVE CallOk(r)'
    BY <2>1, <2>3 DEF CallOk, Outside, Inside, Deepest
  <2>4. Linked'
    BY <2>1, <2>3 DEF SearchInv, Linked
  <2>5. Nested'
    BY <2>1 DEF SearchInv, Nested
  <2>6. Complete'
    BY <2>1 DEF SearchInv, Complete, Settled, Agrees, InPicture
  <2>7. ASSUME NEW r, LevelsOf(r) PROVE LevelsOf(r)'
    BY <2>1, <2>7 DEF LevelsOf, AgreesFrom, Settled, Agrees, Before, Done, InPicture
  <2> QED
    BY <2>1, <2>2, <2>4, <2>5, <2>6, <2>7 DEF SearchInv
<1> QED
  BY <1>1, <1>2, <1>3, <1>4, <1>5, <1>6, <1>7, <1>8 DEF SearchNext

LEMMA SearchIsOk == SearchInv => SearchIsConsistent
<1> SUFFICES ASSUME SearchInv PROVE SearchIsConsistent
  OBVIOUS
<1>1. ASSUME NEW i \in 1..Len(stack) PROVE stack[i].at[3] \in Depths
  <2>1. stack[i] \in CallRecords
    BY DEF SearchInv, Linked
  <2> QED
    BY <2>1, BlockIs DEF CallRecords
<1>2. ASSUME stack # <<>>,
             NEW l \in Top.at[3]..MAX_PU_DEPTH, NEW c \in Before(Top.at)
      PROVE  work[l][c].info = decided[c] /\ work[l][c].pixels = decided[c]
  BY <1>2, TopIs DEF LevelsOf, AgreesFrom, Agrees
<1>3. ASSUME stack = <<>>, NEW c \in InPicture
      PROVE  /\ work[0][c].info = decided[c] /\ work[0][c].info # NotSet
             /\ work[0][c].pixels = work[0][c].info
             /\ work[0][c].info.empty \/ work[0][c].coeffs = work[0][c].info
             /\ \A other \in Area(work[0][c].info.at) : work[0][other].info = work[0][c].info
  <2>1. (\A o \in InPicture : Agrees(0, o)) /\ Settled(0, InPicture)
    BY <1>3 DEF SearchInv, Complete
  <2> QED
    BY <2>1 DEF Agrees, Settled
<1> QED
  BY <1>1, <1>2, <1>3 DEF SearchIsConsistent

(* When a CU is searched, what comes before it in the order of coding is   *)
(* final in its level and below (search.c:415); at the end, level 0 has    *)
(* the decided mode of each cell, with its pixels and coefficients.        *)
THEOREM SearchIsConsistentCorrect == SearchSpec => []SearchIsConsistent
<1>1. SearchInit => SearchInv
  BY SearchStarts
<1>2. SearchInv /\ (SearchInit' => SearchInv') /\ [SearchNext]_searchVars => SearchInv'
  BY SearchStep
<1>3. SearchInv => SearchIsConsistent
  BY SearchIsOk
<1> QED
  BY <1>1, <1>2, <1>3, PTL DEF SearchSpec
=============================================================================
