----------------------- MODULE InputFrameBufferProofs -----------------------
(***************************************************************************)
(* The input frame buffer gives back every picture once, for groups of any *)
(* length in any order, open and closed, for every length of the sequence; *)
(* and it keeps the promise of PictureReorder, on which EncMain builds.    *)
(***************************************************************************)
EXTENDS InputFrameBuffer, FiniteSetTheorems, WellFoundedInduction, TLAPS

(* The pictures that have come and not gone are each in the slot of their  *)
(* index, and nothing else is in the buffer.                               *)
Left(n) == (0..(n - 1)) \ returned
Stored(pics, n) ==
  /\ pics \in [0..(BufSize - 1) -> Nat \cup {None}]
  /\ \A p \in Left(n) : pics[Slot(p - 1)] = p
  /\ \A s \in 0..(BufSize - 1) :
       pics[s] # None => pics[s] \in Left(n) /\ Slot(pics[s] - 1) = s

(* The positions of the current group that have been passed, returned if   *)
(* their pictures exist, and what has been returned in total.              *)
PicAt(k)  == GopStart + PocOffset(k)
Passed(n) == {k \in 0..(GopOffset + gopSkipped - 1) : PicAt(k) < n}
Groups(n) == /\ GopStart >= 0 /\ (GopOffset = 0 => gopSkipped = 0)
             /\ returned = (0..GopStart) \cup {PicAt(k) : k \in Passed(n)}

(* How far the output is behind the input, once it has started.            *)
Started == numOut > 0
Lagging == /\ numIn <= numOut + Enough - 1
           /\ ~ended => /\ gopSkipped = 0
                        /\ numIn # numOut + Enough - 1 => ~Started

Kinds == /\ cfg \in Configs /\ assertsOk = TRUE
         /\ numIn \in Nat /\ numOut \in 0..numIn /\ gopSkipped \in Nat
         /\ returned \subseteq 0..(numIn - 1)
         /\ IsFiniteSet(returned) /\ Cardinality(returned) = numOut

DirectInv == Direct => /\ picBuffer = [s \in 0..(BufSize - 1) |-> None]
                       /\ numOut = numIn

BufferedInv == ~Direct => /\ Stored(picBuffer, numIn) /\ Lagging
                          /\ IF Started THEN Groups(numIn) ELSE gopSkipped = 0

BufferInv == Kinds /\ DirectInv /\ BufferedInv

-----------------------------------------------------------------------------
(* Division.                                                               *)

LEMMA ProductGrows ==
  ASSUME NEW k \in Nat, k > 0, NEW q \in Int, k * q < k, k * q > -k
  PROVE  q = 0
<1>1. q >= 1 => k * q >= k
  OBVIOUS
<1>2. q <= -1 => k * q <= -k
  OBVIOUS
<1> QED
  BY <1>1, <1>2

LEMMA Division ==
  ASSUME NEW a \in Nat, NEW k \in Nat, k > 0
  PROVE  a = k * (a \div k) + (a % k) /\ a \div k \in Int /\ a % k \in 0..(k - 1)
OBVIOUS

LEMMA QuotientNat ==
  ASSUME NEW a \in Nat, NEW k \in Nat, k > 0
  PROVE  a \div k \in Nat
OBVIOUS

LEMMA DivisionUnique ==
  ASSUME NEW a \in Nat, NEW k \in Nat, k > 0, NEW q \in Int, NEW r \in 0..(k - 1),
         a = k * q + r
  PROVE  a \div k = q /\ a % k = r
<1>1. PICK p \in Int, t \in 0..(k - 1) :
        a = k * p + t /\ p = a \div k /\ t = a % k
  BY Division
<1>2. k * (p - q) = r - t
  BY <1>1
<1>3. p - q = 0
  BY <1>2, ProductGrows
<1> QED
  BY <1>1, <1>2, <1>3

LEMMA ModDistinct ==
  ASSUME NEW a \in Nat, NEW b \in Nat, NEW k \in Nat, k > 0, a < b, b < a + k
  PROVE  a % k # b % k
<1> SUFFICES ASSUME a % k = b % k PROVE FALSE
  OBVIOUS
<1>1. PICK q \in Int : a = k * q + (a % k)
  BY Division
<1>2. PICK p \in Int : b = k * p + (b % k)
  BY Division
<1>3. a % k \in Nat
  BY Division
<1>4. k * (p - q) = b - a
  BY <1>1, <1>2, <1>3
<1>5. p - q = 0
  BY <1>4, ProductGrows
<1> QED
  BY <1>4, <1>5

(* The remainder of a sum, one of whose terms is a multiple.               *)
LEMMA ModOfSum ==
  ASSUME NEW k \in Nat, k > 0, NEW m \in Nat, NEW r \in Nat
  PROVE  (k * m + r) % k = r % k
<1>1. PICK q \in Int, t \in 0..(k - 1) : r = k * q + t /\ t = r % k
  BY Division
<1> DEFINE a == k * m + r
           p == m + q
<1>2. k * m \in Nat
  OBVIOUS
<1>3. a \in Nat
  BY <1>2
<1>4. p \in Int /\ a = k * p + t
  BY <1>1
<1> HIDE DEF a, p
<1>5. a % k = t
  BY <1>3, <1>4, DivisionUnique
<1> QED
  BY <1>1, <1>5 DEF a

(* Positions go round.                                                     *)
LEMMA ModNext ==
  ASSUME NEW a \in Nat, NEW k \in Nat, k > 0
  PROVE  (a + 1) % k = IF (a % k) + 1 = k THEN 0 ELSE (a % k) + 1
<1>1. PICK q \in Int, t \in 0..(k - 1) : a = k * q + t /\ t = a % k
  BY Division
<1>2. CASE t + 1 = k
  <2>1. a + 1 = k * (q + 1) + 0 /\ q + 1 \in Int /\ 0 \in 0..(k - 1)
    BY <1>1, <1>2
  <2> QED
    BY <1>1, <1>2, <2>1, DivisionUnique
<1>3. CASE t + 1 # k
  <2>1. a + 1 = k * q + (t + 1) /\ t + 1 \in 0..(k - 1)
    BY <1>1, <1>3
  <2> QED
    BY <1>1, <1>3, <2>1, DivisionUnique
<1> QED
  BY <1>2, <1>3

(* Closed groups: period pictures and an intra picture, in turns.          *)
ClosedOffset(x, g, period) == (x - x \div (period + 1)) % g

LEMMA Divided ==
  ASSUME NEW a \in Nat, NEW k \in Nat, k > 0
  PROVE  \E q \in Nat : \E r \in 0..(k - 1) :
           a = k * q + r /\ q = a \div k /\ r = a % k
BY Division, QuotientNat

LEMMA ClosedOffsetIs ==
  ASSUME NEW x \in Nat, NEW g \in Nat, g > 0,
         NEW period \in Nat, period > 0, period % g = 0
  PROVE  /\ x % (period + 1) \in 0..period
         /\ ClosedOffset(x, g, period) = (x % (period + 1)) % g
<1>1. PICK k \in Nat : k = period + 1
  OBVIOUS
<1>2. PICK q \in Nat, r \in 0..(k - 1) :
        x = k * q + r /\ q = x \div k /\ r = x % k
  BY <1>1, Divided
<1>3. PICK m \in Nat : period = g * m
  <2>1. PICK n \in Nat, t \in 0..(g - 1) :
          period = g * n + t /\ n = period \div g /\ t = period % g
    BY Divided
  <2>2. t = 0
    BY <2>1
  <2> QED
    BY <2>1, <2>2
<1>4. x - q = period * q + r
  <2>1. \A p, b \in Nat : (p + 1) * b = p * b + b
    OBVIOUS
  <2>2. k * q = period * q + q /\ period * q \in Nat
    BY <1>1, <2>1
  <2>3. x = k * q + r /\ k * q \in Nat
    BY <1>2, <2>2
  <2> QED
    BY <2>2, <2>3
<1>5. PICK n \in Nat : n = m * q
  OBVIOUS
<1>6. period * q = g * n
  BY <1>3, <1>5
<1>7. r \in Nat
  BY <1>2
<1>8. (g * n + r) % g = r % g
  BY <1>7, ModOfSum
<1>9. (x - x \div k) % g = r % g
  <2>1. x - x \div k = g * n + r
    BY <1>2, <1>4, <1>6
  <2> QED
    BY <1>8, <2>1
<1>10. x % (period + 1) = r /\ r \in 0..period
  BY <1>1, <1>2
<1>11. ClosedOffset(x, g, period) = (x - x \div k) % g
  BY <1>1, Zenon DEF ClosedOffset
<1> QED
  BY <1>9, <1>10, <1>11

Following(k, g) == IF k + 1 = g THEN 0 ELSE k + 1

LEMMA ClosedNext ==
  ASSUME NEW x \in Nat, NEW g \in Nat, g > 0,
         NEW period \in Nat, period > 0, period % g = 0
  PROVE  /\ x % (period + 1) = period =>
              ClosedOffset(x, g, period) = 0 /\ ClosedOffset(x + 1, g, period) = 0
         /\ x % (period + 1) # period =>
              ClosedOffset(x + 1, g, period) = Following(ClosedOffset(x, g, period), g)
<1>1. PICK k \in Nat : k = period + 1
  OBVIOUS
<1>2. PICK r \in Nat : r = x % k
  BY <1>1, Division
<1>3. PICK s \in Nat : s = (x + 1) % k
  BY <1>1, Division
<1>4. ClosedOffset(x, g, period) = r % g
  BY <1>1, <1>2, ClosedOffsetIs
<1>5. ClosedOffset(x + 1, g, period) = s % g
  BY <1>1, <1>3, ClosedOffsetIs
<1>6. s = IF r + 1 = k THEN 0 ELSE r + 1
  BY <1>1, <1>2, <1>3, ModNext
<1>7. 0 % g = 0
  OBVIOUS
<1>8. (r + 1) % g = IF (r % g) + 1 = g THEN 0 ELSE (r % g) + 1
  BY ModNext
<1>9. CASE r = period
  <2>1. r % g = 0 /\ s % g = 0
    BY <1>1, <1>6, <1>7, <1>9
  <2> QED
    BY <1>1, <1>2, <1>4, <1>5, <1>9, <2>1
<1>10. CASE r # period
  <2>1. s % g = IF (r % g) + 1 = g THEN 0 ELSE (r % g) + 1
    BY <1>1, <1>6, <1>8, <1>10
  <2> QED
    BY <1>1, <1>2, <1>4, <1>5, <1>10, <2>1 DEF Following
<1> QED
  BY <1>9, <1>10

-----------------------------------------------------------------------------
(* The shape of a configuration whose pictures are reordered.              *)
LEMMA Shape ==
  ASSUME cfg \in Configs, ~Direct
  PROVE  /\ cfg.gopLen \in Nat /\ cfg.gopLen > 0 /\ cfg.gopLen <= MaxGopLen
         /\ BufSize \in Nat /\ BufSize = 3 * cfg.gopLen
         /\ Enough \in Nat /\ Enough >= cfg.gopLen /\ Enough <= cfg.gopLen + 1
         /\ Enough = cfg.gopLen + 1 <=> IsClosed
         /\ \A k \in 0..(cfg.gopLen - 1) : PocOffset(k) \in 1..cfg.gopLen
         /\ \A p \in 1..cfg.gopLen : \E k \in 0..(cfg.gopLen - 1) : PocOffset(k) = p
         /\ \A j, k \in 0..(cfg.gopLen - 1) : PocOffset(j) = PocOffset(k) => j = k
         /\ PocOffset(cfg.gopLen) = 0
         /\ cfg.intraPeriod \in Nat
         /\ IsClosed => cfg.intraPeriod > 0 /\ cfg.intraPeriod % cfg.gopLen = 0
<1>1. cfg.gopLen \in Nat /\ cfg.gopLen # 0 /\ ~cfg.lowDelay /\ cfg.gopLen <= MaxGopLen
      /\ cfg.intraPeriod \in Nat
  BY ConfigsShape DEF Direct
<1>2. /\ \A k \in 1..cfg.gopLen : cfg.gop[k].poc \in 1..cfg.gopLen
      /\ \A p \in 1..cfg.gopLen : \E k \in 1..cfg.gopLen : cfg.gop[k].poc = p
      /\ \A j, k \in 1..cfg.gopLen : cfg.gop[j].poc = cfg.gop[k].poc => j = k
      /\ ~cfg.openGop => cfg.intraPeriod % cfg.gopLen = 0
  BY <1>1, GroupsWhole
<1>3. \A k \in 0..(cfg.gopLen - 1) : /\ PocOffset(k) = cfg.gop[k + 1].poc
                                     /\ k + 1 \in 1..cfg.gopLen
  BY <1>1 DEF PocOffset
<1>4. \A p \in 1..cfg.gopLen : \E k \in 0..(cfg.gopLen - 1) : PocOffset(k) = p
  <2> SUFFICES ASSUME NEW p \in 1..cfg.gopLen
               PROVE  \E k \in 0..(cfg.gopLen - 1) : PocOffset(k) = p
    OBVIOUS
  <2>1. PICK i \in 1..cfg.gopLen : cfg.gop[i].poc = p
    BY <1>2
  <2>2. i - 1 \in 0..(cfg.gopLen - 1) /\ (i - 1) + 1 = i
    BY <1>1
  <2> QED
    BY <1>3, <2>1, <2>2
<1>5. \A j, k \in 0..(cfg.gopLen - 1) : PocOffset(j) = PocOffset(k) => j = k
  <2> SUFFICES ASSUME NEW j \in 0..(cfg.gopLen - 1), NEW k \in 0..(cfg.gopLen - 1),
                      PocOffset(j) = PocOffset(k)
               PROVE  j = k
    OBVIOUS
  <2>1. j + 1 = k + 1
    BY <1>2, <1>3
  <2> QED
    BY <2>1
<1>6. \A k \in 0..(cfg.gopLen - 1) : PocOffset(k) \in 1..cfg.gopLen
  BY <1>2, <1>3
<1>7. PocOffset(cfg.gopLen) = 0
  BY <1>1 DEF PocOffset
<1>8. /\ Enough = IF IsClosed THEN cfg.gopLen + 1 ELSE cfg.gopLen
      /\ BufSize = 3 * cfg.gopLen
  BY <1>1 DEF Enough, BufSize
<1>9. IsClosed => cfg.intraPeriod > 0 /\ cfg.intraPeriod % cfg.gopLen = 0
  BY <1>2 DEF IsClosed
<1> QED
  BY <1>1, <1>4, <1>5, <1>6, <1>7, <1>8, <1>9

(* The position in the group when x + 1 pictures have been returned.       *)
OffsetAt(x) ==
  IF ~cfg.openGop /\ cfg.intraPeriod > 0
    THEN ClosedOffset(x, cfg.gopLen, cfg.intraPeriod) ELSE x % cfg.gopLen
DueAt(x) == IsClosed /\ x % (cfg.intraPeriod + 1) = cfg.intraPeriod

LEMMA OffsetNext ==
  ASSUME cfg \in Configs, ~Direct, NEW x \in Nat
  PROVE  /\ OffsetAt(x) \in 0..(cfg.gopLen - 1)
         /\ OffsetAt(0) = 0
         /\ DueAt(x) => OffsetAt(x) = 0 /\ OffsetAt(x + 1) = 0
         /\ ~DueAt(x) => OffsetAt(x + 1) = Following(OffsetAt(x), cfg.gopLen)
<1>1. PICK g \in Nat : g = cfg.gopLen /\ g > 0
  BY Shape
<1>2. PICK p \in Nat : p = cfg.intraPeriod
  BY Shape
<1>3. CASE ~cfg.openGop /\ cfg.intraPeriod > 0
  <2>1. IsClosed /\ p > 0 /\ p % g = 0
    BY <1>1, <1>2, <1>3, Shape DEF IsClosed
  <2>2. \A y \in Nat : OffsetAt(y) = ClosedOffset(y, g, p)
    BY <1>1, <1>2, <1>3 DEF OffsetAt
  <2>3. ClosedOffset(x, g, p) \in 0..(g - 1)
    <3>1. /\ x % (p + 1) \in 0..p
          /\ ClosedOffset(x, g, p) = (x % (p + 1)) % g
      BY <1>1, <2>1, ClosedOffsetIs, Zenon
    <3>2. PICK r \in Nat : r = x % (p + 1)
      BY <3>1
    <3>3. r % g \in 0..(g - 1)
      BY <1>1, Division
    <3> QED
      BY <3>1, <3>2, <3>3
  <2>4. ClosedOffset(0, g, p) = 0
    <3>1. 0 % (p + 1) = 0 /\ 0 % g = 0
      BY <1>1
    <3>2. ClosedOffset(0, g, p) = (0 % (p + 1)) % g
      BY <1>1, <2>1, ClosedOffsetIs
    <3> QED
      BY <3>1, <3>2
  <2>5. /\ x % (p + 1) = p =>
             ClosedOffset(x, g, p) = 0 /\ ClosedOffset(x + 1, g, p) = 0
        /\ x % (p + 1) # p =>
             ClosedOffset(x + 1, g, p) = Following(ClosedOffset(x, g, p), g)
    BY <1>1, <2>1, ClosedNext, Zenon
  <2>6. DueAt(x) <=> x % (p + 1) = p
    BY <1>2, <2>1 DEF DueAt
  <2>7. x + 1 \in Nat /\ 0 \in Nat
    OBVIOUS
  <2> QED
    BY <1>1, <2>2, <2>3, <2>4, <2>5, <2>6, <2>7
<1>4. CASE ~(~cfg.openGop /\ cfg.intraPeriod > 0)
  <2>1. \A y \in Nat : OffsetAt(y) = y % g
    BY <1>1, <1>4 DEF OffsetAt
  <2>2. ~DueAt(x)
    BY <1>4 DEF DueAt, IsClosed
  <2>3. x % g \in 0..(g - 1) /\ 0 % g = 0
    BY <1>1, Division
  <2>4. (x + 1) % g = IF (x % g) + 1 = g THEN 0 ELSE (x % g) + 1
    BY <1>1, ModNext
  <2>5. x + 1 \in Nat /\ 0 \in Nat
    OBVIOUS
  <2> QED
    BY <1>1, <2>1, <2>2, <2>3, <2>4, <2>5 DEF Following
<1> QED
  BY <1>3, <1>4

LEMMA OffsetIs ==
  ASSUME cfg \in Configs, ~Direct, numOut \in Nat, numOut > 0
  PROVE  /\ numOut - 1 \in Nat
         /\ GopOffset = OffsetAt(numOut - 1)
         /\ IrapDue <=> DueAt(numOut - 1)
<1>1. numOut - 1 \in Nat
  OBVIOUS
<1>2. CASE ~cfg.openGop /\ cfg.intraPeriod > 0
  <2>1. ExtraFrames = (numOut - 1) \div (cfg.intraPeriod + 1)
    BY <1>2 DEF ExtraFrames
  <2>2. OffsetAt(numOut - 1)
          = ((numOut - 1) - (numOut - 1) \div (cfg.intraPeriod + 1)) % cfg.gopLen
    BY <1>2, Zenon DEF OffsetAt, ClosedOffset
  <2> QED
    BY <1>1, <2>1, <2>2, Zenon DEF GopOffset, IrapDue, DueAt
<1>3. CASE ~(~cfg.openGop /\ cfg.intraPeriod > 0)
  <2>1. ExtraFrames = 0 /\ OffsetAt(numOut - 1) = (numOut - 1) % cfg.gopLen
    BY <1>3 DEF ExtraFrames, OffsetAt
  <2>2. numOut - 1 - 0 = numOut - 1
    BY <1>1
  <2> QED
    BY <1>1, <2>1, <2>2 DEF GopOffset, IrapDue, DueAt
<1> QED
  BY <1>1, <1>2, <1>3 DEF IrapDue, DueAt

-----------------------------------------------------------------------------
(* The slots of the buffer.                                                *)

LEMMA SlotOf ==
  ASSUME cfg \in Configs, ~Direct, NEW p \in Nat
  PROVE  Slot(p - 1) \in 0..(BufSize - 1)
<1>1. PICK b \in Nat : b = BufSize /\ b > 0
  BY Shape
<1>2. PICK a \in Nat : a = p - 1 + b
  BY <1>1
<1> QED
  BY <1>1, <1>2, Division DEF Slot

(* Pictures that are not further apart than the buffer is long have slots  *)
(* of their own.                                                           *)
LEMMA SlotsDiffer ==
  ASSUME cfg \in Configs, ~Direct, NEW p \in Nat, NEW q \in Nat,
         p # q, p - q < BufSize, q - p < BufSize
  PROVE  Slot(p - 1) # Slot(q - 1)
<1>1. PICK b \in Nat : b = BufSize /\ b > 0
  BY Shape
<1>2. PICK a \in Nat : a = p - 1 + b
  BY <1>1
<1>3. PICK c \in Nat : c = q - 1 + b
  BY <1>1
<1>4. a % b # c % b
  <2>1. (a < c /\ c < a + b) \/ (c < a /\ a < c + b)
    BY <1>1, <1>2, <1>3
  <2> QED
    BY <1>1, <2>1, ModDistinct
<1> QED
  BY <1>1, <1>2, <1>3, <1>4 DEF Slot

(* The slot of an arriving picture is free.                                *)
LEMMA StoreNew ==
  ASSUME cfg \in Configs, ~Direct, numIn \in Nat, returned \subseteq 0..(numIn - 1),
         Stored(picBuffer, numIn), \A q \in Left(numIn) : numIn - q < BufSize
  PROVE  /\ picBuffer[Slot(numIn - 1)] = None
         /\ Stored([picBuffer EXCEPT ![Slot(numIn - 1)] = numIn], numIn + 1)
<1> DEFINE s == Slot(numIn - 1)
           pics == [picBuffer EXCEPT ![s] = numIn]
<1>1. s \in 0..(BufSize - 1)
  BY SlotOf
<1>2. /\ picBuffer \in [0..(BufSize - 1) -> Nat \cup {None}]
      /\ \A p \in Left(numIn) : picBuffer[Slot(p - 1)] = p
      /\ \A t \in 0..(BufSize - 1) :
           picBuffer[t] # None =>
             picBuffer[t] \in Left(numIn) /\ Slot(picBuffer[t] - 1) = t
  BY DEF Stored
<1>3. \A q \in Left(numIn) : q \in Nat /\ Slot(q - 1) # s
  <2> SUFFICES ASSUME NEW q \in Left(numIn) PROVE q \in Nat /\ Slot(q - 1) # s
    OBVIOUS
  <2>1. q \in Nat /\ q # numIn /\ numIn - q < BufSize /\ q - numIn < BufSize
    BY Shape DEF Left
  <2> QED
    BY <2>1, SlotsDiffer
<1>4. picBuffer[s] = None
  BY <1>1, <1>2, <1>3
<1>5. Left(numIn + 1) = Left(numIn) \cup {numIn}
  BY DEF Left
<1> HIDE DEF s
<1>6. /\ pics \in [0..(BufSize - 1) -> Nat \cup {None}]
      /\ pics[s] = numIn
      /\ \A t \in 0..(BufSize - 1) : t # s => pics[t] = picBuffer[t]
  BY <1>1, <1>2
<1> HIDE DEF pics
<1>7. ASSUME NEW p \in Left(numIn + 1) PROVE pics[Slot(p - 1)] = p
  <2>1. CASE p = numIn
    BY <1>6, <2>1 DEF s
  <2>2. CASE p # numIn
    <3>1. p \in Left(numIn)
      BY <1>5, <2>2
    <3>2. Slot(p - 1) \in 0..(BufSize - 1) /\ Slot(p - 1) # s
      BY <1>3, <3>1, SlotOf
    <3> QED
      BY <1>2, <1>6, <3>1, <3>2
  <2> QED
    BY <2>1, <2>2
<1>8. ASSUME NEW t \in 0..(BufSize - 1), pics[t] # None
      PROVE  pics[t] \in Left(numIn + 1) /\ Slot(pics[t] - 1) = t
  <2>1. CASE t = s
    BY <1>5, <1>6, <2>1 DEF s
  <2>2. CASE t # s
    BY <1>2, <1>5, <1>6, <1>8, <2>2
  <2> QED
    BY <2>1, <2>2
<1>9. Stored(pics, numIn + 1)
  BY <1>6, <1>7, <1>8 DEF Stored
<1> QED
  BY <1>4, <1>9 DEF pics, s

(* A picture that is due is in the buffer, and is nowhere else.            *)
LEMMA TakeOut ==
  ASSUME cfg \in Configs, ~Direct, NEW n \in Nat, NEW pics, Stored(pics, n),
         NEW p \in Left(n)
  PROVE  /\ pics[Slot(p - 1)] = p /\ p # None
         /\ cfg' = cfg /\ numIn' = n /\ returned' = returned \cup {p}
              /\ picBuffer' = Without(pics, p - 1)
            => Stored(picBuffer, numIn)'
<1>1. /\ pics \in [0..(BufSize - 1) -> Nat \cup {None}]
      /\ \A q \in Left(n) : pics[Slot(q - 1)] = q
      /\ \A t \in 0..(BufSize - 1) :
           pics[t] # None => pics[t] \in Left(n) /\ Slot(pics[t] - 1) = t
  BY DEF Stored
<1>2. \A q \in Left(n) : q \in Nat /\ q # None
  BY NoneNew DEF Left
<1>3. ASSUME cfg' = cfg, numIn' = n, returned' = returned \cup {p},
             picBuffer' = Without(pics, p - 1)
      PROVE  Stored(picBuffer, numIn)'
  <2>1. PICK s \in 0..(BufSize - 1) : s = Slot(p - 1)
    BY <1>2, SlotOf
  <2>2. /\ picBuffer' \in [0..(BufSize - 1) -> Nat \cup {None}]
        /\ picBuffer'[s] = None
        /\ \A t \in 0..(BufSize - 1) : t # s => picBuffer'[t] = pics[t]
    BY <1>1, <1>3, <2>1 DEF Without
  <2>3. BufSize' = BufSize /\ (\A i : Slot(i)' = Slot(i))
    BY <1>3 DEF BufSize, Slot
  <2>4. Left(numIn)' = Left(n) \ {p}
    BY <1>3 DEF Left
  <2>5. ASSUME NEW q \in Left(n) \ {p} PROVE picBuffer'[Slot(q - 1)] = q
    <3>1. Slot(q - 1) \in 0..(BufSize - 1) /\ pics[Slot(q - 1)] = q
      BY <1>1, <1>2, SlotOf
    <3>2. Slot(q - 1) # s
      BY <1>1, <2>1, <3>1
    <3> QED
      BY <2>2, <3>1, <3>2
  <2>6. ASSUME NEW t \in 0..(BufSize - 1), picBuffer'[t] # None
        PROVE  picBuffer'[t] \in Left(n) \ {p} /\ Slot(picBuffer'[t] - 1) = t
    <3>1. t # s /\ picBuffer'[t] = pics[t]
      BY <2>2, <2>6
    <3>2. pics[t] \in Left(n) /\ Slot(pics[t] - 1) = t
      BY <1>1, <2>6, <3>1
    <3> QED
      BY <2>1, <3>1, <3>2
  <2> QED
    BY <2>2, <2>3, <2>4, <2>5, <2>6 DEF Stored
<1> QED
  BY <1>1, <1>2, <1>3

-----------------------------------------------------------------------------
(* The search for an available picture.                                    *)

(* A set of numbers has a least one: the one up to which there are fewest  *)
(* numbers, as inclusion of finite sets is well-founded.                   *)
LEMMA LeastExists ==
  ASSUME NEW T \in SUBSET Nat, T # {}
  PROVE  \E k \in T : \A j \in T : k <= j
<1>1. PICK last \in T : TRUE
  OBVIOUS
<1> DEFINE low == T \cap (0..last)
           starts == {0..k : k \in low}
<1>2. last \in Nat /\ last \in Int /\ 0 \in Int
  BY <1>1
<1>3. starts \subseteq FiniteSubsetsOf(0..last)
  <2>1. IsFiniteSet(0..last)
    BY <1>2, FS_Interval, Zenon
  <2>2. ASSUME NEW k \in low
        PROVE  0..k \subseteq 0..last /\ IsFiniteSet(0..k)
    <3>1. 0..k \subseteq 0..last
      BY <1>2
    <3> QED
      BY <2>1, <3>1, FS_Subset, Zenon
  <2> QED
    BY <2>2 DEF FiniteSubsetsOf
<1>4. starts # {}
  BY <1>1, <1>2
<1>5. IsWellFoundedOn(StrictSubsetOrdering(0..last), FiniteSubsetsOf(0..last))
  BY FS_StrictSubsetOrderingWellFounded, Zenon
<1>6. PICK s \in starts : \A t \in starts : ~ (<<t, s>> \in StrictSubsetOrdering(0..last))
  <2> HIDE DEF starts
  <2> QED
    BY <1>3, <1>4, <1>5, WFMin, Zenon
<1>7. PICK m \in low : s = 0..m
  BY <1>6
<1>8. ASSUME NEW k \in T PROVE m <= k
  <2> SUFFICES ASSUME k < m PROVE FALSE
    BY <1>2, <1>8
  <2>1. k \in low
    BY <1>2
  <2>2. 0..k \subseteq 0..last /\ 0..m \subseteq 0..last /\ 0..k \subseteq 0..m
    BY <1>2
  <2>3. m \in 0..m /\ m \notin 0..k
    BY <1>2
  <2>4. 0..k \in starts
    BY <2>1
  <2> HIDE DEF starts, low
  <2> QED
    BY <1>6, <1>7, <2>2, <2>3, <2>4 DEF StrictSubsetOrdering
<1> QED
  BY <1>7, <1>8

(* What holds when the second half of kvz_encoder_feed_frame starts.       *)
Ready(n) == /\ cfg \in Configs /\ ~Direct /\ n \in Nat /\ gopSkipped \in Nat
            /\ numOut \in Nat /\ numOut < n
            /\ returned \subseteq 0..(n - 1)
            /\ IsFiniteSet(returned) /\ Cardinality(returned) = numOut

LEMMA Position ==
  ASSUME NEW n, Ready(n), Started
  PROVE  /\ GopOffset \in 0..(cfg.gopLen - 1) /\ GopStart \in Int
         /\ numOut = GopStart + GopOffset + 1
         /\ \A k \in 0..(cfg.gopLen - 1) :
              /\ PicAt(k) \in (GopStart + 1)..(GopStart + cfg.gopLen)
              /\ IdxAt(k) = PicAt(k) - 1
         /\ \A p \in (GopStart + 1)..(GopStart + cfg.gopLen) :
              \E k \in 0..(cfg.gopLen - 1) : PicAt(k) = p
         /\ \A j, k \in 0..(cfg.gopLen - 1) : PicAt(j) = PicAt(k) => j = k
<1>1. PICK g \in Nat : g = cfg.gopLen /\ g > 0
  BY Shape DEF Ready
<1>2. GopOffset \in 0..(g - 1)
  BY <1>1, OffsetIs, OffsetNext DEF Ready, Started
<1>3. GopStart \in Int /\ numOut = GopStart + GopOffset + 1
  BY <1>2 DEF GopStart, Ready
<1>4. /\ \A k \in 0..(g - 1) : PocOffset(k) \in 1..g
      /\ \A p \in 1..g : \E k \in 0..(g - 1) : PocOffset(k) = p
      /\ \A j, k \in 0..(g - 1) : PocOffset(j) = PocOffset(k) => j = k
  BY <1>1, Shape DEF Ready
<1> HIDE DEF GopStart, GopOffset
<1>5. \A k \in 0..(g - 1) : /\ PicAt(k) \in (GopStart + 1)..(GopStart + g)
                            /\ IdxAt(k) = PicAt(k) - 1
  BY <1>3, <1>4 DEF PicAt, IdxAt
<1>6. ASSUME NEW p \in (GopStart + 1)..(GopStart + g)
      PROVE  \E k \in 0..(g - 1) : PicAt(k) = p
  <2>1. p - GopStart \in 1..g
    BY <1>1, <1>3
  <2>2. PICK k \in 0..(g - 1) : PocOffset(k) = p - GopStart
    BY <1>4, <2>1
  <2>3. PicAt(k) = p
    BY <1>3, <2>2 DEF PicAt
  <2> QED
    BY <2>3
<1>7. ASSUME NEW j \in 0..(g - 1), NEW k \in 0..(g - 1), PicAt(j) = PicAt(k)
      PROVE  j = k
  <2>1. PocOffset(j) = PocOffset(k)
    BY <1>3, <1>4, <1>7 DEF PicAt
  <2> QED
    BY <1>4, <2>1
<1> QED
  BY <1>1, <1>2, <1>3, <1>5, <1>6, <1>7

(* As long as pictures are left, one of the current group is.              *)
LEMMA GroupGoesOn ==
  ASSUME NEW n, Ready(n), Started, GopStart >= 0,
         0..GopStart \subseteq returned
  PROVE  \E p \in (GopStart + 1)..(GopStart + cfg.gopLen) : p \in Left(n)
<1> SUFFICES ASSUME \A p \in (GopStart + 1)..(GopStart + cfg.gopLen) : p \notin Left(n)
             PROVE  FALSE
  OBVIOUS
<1>1. PICK g \in Nat : g = cfg.gopLen /\ g > 0
  BY Shape DEF Ready
<1>2. PICK s \in Nat : s = GopStart /\ numOut <= s + g
  BY <1>1, Position
<1>3. PICK m \in Nat : (m = s + g \/ m = n - 1) /\ m <= s + g /\ m < n
  <2>1. CASE s + g < n
    BY <2>1
  <2>2. CASE ~(s + g < n)
    <3>1. n - 1 \in Nat /\ n - 1 <= s + g /\ n - 1 < n
      BY <2>2 DEF Ready
    <3> QED
      BY <3>1
  <2> QED
    BY <2>1, <2>2
<1>4. 0..m \subseteq returned
  BY <1>1, <1>2, <1>3 DEF Left, Ready
<1>5. Cardinality(0..m) <= Cardinality(returned)
  BY <1>4, FS_Subset, Zenon DEF Ready
<1>6. Cardinality(0..m) = m + 1
  <2>1. m \in Int /\ 0 \in Int
    OBVIOUS
  <2>2. Cardinality(0..m) = IF 0 > m THEN 0 ELSE m - 0 + 1
    BY <2>1, FS_Interval, Zenon
  <2> QED
    BY <2>2
<1> QED
  BY <1>2, <1>3, <1>5, <1>6 DEF Ready

(* The first position that is found has a picture that was not returned,   *)
(* and those that were skipped have none.                                  *)
LEMMA Found ==
  ASSUME NEW n, Ready(n), Started, Groups(n)
  PROVE  /\ Present(n) # {}
         /\ FirstPresent(n) \in (GopOffset + gopSkipped)..(cfg.gopLen - 1)
         /\ PicAt(FirstPresent(n)) \in Left(n)
         /\ IdxAt(FirstPresent(n)) = PicAt(FirstPresent(n)) - 1
         /\ \A j \in (GopOffset + gopSkipped)..(FirstPresent(n) - 1) : PicAt(j) >= n
<1>1. PICK g \in Nat : g = cfg.gopLen /\ g > 0 /\ Enough \in Nat /\ g <= Enough
  BY Shape DEF Ready
<1>2. /\ GopOffset \in 0..(g - 1) /\ GopStart \in Int
      /\ \A k \in 0..(g - 1) : /\ PicAt(k) \in (GopStart + 1)..(GopStart + g)
                               /\ IdxAt(k) = PicAt(k) - 1
      /\ \A p \in (GopStart + 1)..(GopStart + g) : \E k \in 0..(g - 1) : PicAt(k) = p
      /\ \A j, k \in 0..(g - 1) : PicAt(j) = PicAt(k) => j = k
  BY <1>1, Position
<1>3. /\ GopStart >= 0
      /\ returned = (0..GopStart) \cup {PicAt(k) : k \in Passed(n)}
  BY DEF Groups
<1> HIDE DEF GopStart, GopOffset
<1>4. PICK f \in Nat : f = GopOffset + gopSkipped
  BY <1>2 DEF Ready
<1>5. n \in Nat
  BY DEF Ready
<1>6. Tried = f..(Enough - 1)
  BY <1>4 DEF Tried
<1>4a. Passed(n) = {k \in 0..(f - 1) : PicAt(k) < n}
  BY <1>2, <1>4 DEF Passed, Ready
<1>7. ASSUME NEW k \in 0..(g - 1)
      PROVE  k \in Present(n) <=> k >= f /\ PicAt(k) < n
  <2>1. IdxAt(k) = PicAt(k) - 1 /\ PicAt(k) \in Int
    BY <1>2
  <2>2. k \in Tried <=> k >= f
    BY <1>1, <1>6
  <2> QED
    BY <1>5, <2>1, <2>2 DEF Present
<1>8. PICK p \in (GopStart + 1)..(GopStart + g) : p \in Left(n)
  BY <1>1, <1>3, GroupGoesOn
<1>9. PICK l \in 0..(g - 1) : PicAt(l) = p
  BY <1>2, <1>8
<1>10. l \in Present(n)
  <2>1. p < n /\ p \notin returned
    BY <1>2, <1>5, <1>8 DEF Left
  <2>2. l \notin Passed(n)
    BY <1>3, <1>9, <2>1
  <2>3. l >= f
    BY <1>9, <1>4a, <2>1, <2>2
  <2> QED
    BY <1>7, <1>9, <2>1, <2>3
<1>11. Present(n) \subseteq Nat
  BY <1>1, <1>4, <1>6 DEF Present
<1>12. \E k \in Present(n) : \A j \in Present(n) : k <= j
  BY <1>10, <1>11, LeastExists, Zenon
<1>13. PICK k \in Present(n) : k = FirstPresent(n) /\ \A j \in Present(n) : k <= j
  BY <1>12, Zenon DEF FirstPresent
<1>14. k \in f..(g - 1) /\ k \in 0..(g - 1) /\ k <= l
  BY <1>1, <1>4, <1>6, <1>10, <1>13 DEF Present
<1>15. PicAt(k) < n /\ PicAt(k) > GopStart /\ PicAt(k) \in Nat
  BY <1>2, <1>3, <1>7, <1>13, <1>14
<1>16. PicAt(k) \notin returned
  <2> SUFFICES ASSUME NEW j \in Passed(n), PicAt(j) = PicAt(k) PROVE FALSE
    BY <1>2, <1>3, <1>15
  <2>1. j \in 0..(f - 1)
    BY <1>4a
  <2>2. j \in 0..(g - 1) /\ j # k
    BY <1>4, <1>14, <2>1
  <2> QED
    BY <1>2, <1>14, <2>2
<1>17. PicAt(k) \in Left(n)
  BY <1>5, <1>15, <1>16 DEF Left
<1>18. ASSUME NEW j \in f..(k - 1) PROVE PicAt(j) >= n
  <2>1. j \in 0..(g - 1) /\ j >= f /\ j < k
    BY <1>4, <1>14
  <2>2. j \notin Present(n)
    BY <1>13, <1>14, <2>1
  <2> QED
    BY <1>2, <1>5, <1>7, <2>1, <2>2
<1>19. k \in (GopOffset + gopSkipped)..(cfg.gopLen - 1)
  BY <1>1, <1>4, <1>14
<1>20. IdxAt(k) = PicAt(k) - 1
  BY <1>2, <1>14
<1> QED
  BY <1>4, <1>10, <1>13, <1>17, <1>18, <1>19, <1>20

-----------------------------------------------------------------------------
(* The next position after each kind of output.                            *)

LEMMA PositionNext ==
  ASSUME NEW n, Ready(n), Started, cfg' = cfg, numOut' = numOut + 1
  PROVE  /\ IrapDue => /\ GopOffset = 0 /\ GopOffset' = 0
                       /\ GopStart' = GopStart + 1
         /\ ~IrapDue /\ GopOffset + 1 # cfg.gopLen =>
              GopOffset' = GopOffset + 1 /\ GopStart' = GopStart
         /\ ~IrapDue /\ GopOffset + 1 = cfg.gopLen =>
              GopOffset' = 0 /\ GopStart' = GopStart + cfg.gopLen
<1>1. PICK g \in Nat : g = cfg.gopLen /\ g > 0
  BY Shape DEF Ready
<1>2. numOut \in Nat /\ numOut > 0
  BY DEF Ready, Started
<1>3. PICK x \in Nat : x = numOut - 1 /\ x + 1 = numOut' - 1
  BY <1>2
<1>4. GopOffset = OffsetAt(x) /\ (IrapDue <=> DueAt(x))
  BY <1>2, <1>3, OffsetIs DEF Ready
<1>5. GopOffset' = OffsetAt(x + 1)
  <2>1. GopOffset' = IF ~cfg.openGop /\ cfg.intraPeriod > 0
                       THEN ((x + 1) - (x + 1) \div (cfg.intraPeriod + 1)) % cfg.gopLen
                       ELSE ((x + 1) - 0) % cfg.gopLen
    BY <1>3 DEF GopOffset, ExtraFrames
  <2>2. OffsetAt(x + 1) = IF ~cfg.openGop /\ cfg.intraPeriod > 0
                       THEN ((x + 1) - (x + 1) \div (cfg.intraPeriod + 1)) % cfg.gopLen
                       ELSE (x + 1) % cfg.gopLen
    BY Zenon DEF OffsetAt, ClosedOffset
  <2>3. (x + 1) - 0 = x + 1
    OBVIOUS
  <2> QED
    BY <2>1, <2>2, <2>3
<1>6. /\ OffsetAt(x) \in 0..(g - 1)
      /\ DueAt(x) => OffsetAt(x) = 0 /\ OffsetAt(x + 1) = 0
      /\ ~DueAt(x) => OffsetAt(x + 1) = Following(OffsetAt(x), g)
  BY <1>1, OffsetNext DEF Ready
<1>7. GopStart = x - GopOffset /\ GopStart' = (x + 1) - GopOffset'
  BY <1>3 DEF GopStart
<1> QED
  BY <1>1, <1>4, <1>5, <1>6, <1>7 DEF Following

(* The pictures of a group are returned and its last one is due: then it is*)
(* complete, as so many pictures have been returned.                       *)
LEMMA GroupIsFull ==
  ASSUME NEW m \in Nat, NEW ret, ret \subseteq 0..m,
         Cardinality(ret) = m + 1
  PROVE  ret = 0..m
<1>1. m \in Int /\ 0 \in Int
  OBVIOUS
<1>2. IsFiniteSet(0..m) /\ Cardinality(0..m) = IF 0 > m THEN 0 ELSE m - 0 + 1
  BY <1>1, FS_Interval, Zenon
<1>3. Cardinality(0..m) = m + 1
  BY <1>2
<1>4. Cardinality(ret) = Cardinality(0..m) => ret = 0..m
  BY <1>2, FS_Subset, Zenon
<1> QED
  BY <1>3, <1>4

LEMMA GroupStep ==
  ASSUME NEW n, Ready(n), Started, Groups(n), ~IrapDue,
         cfg' = cfg, numOut' = numOut + 1, numIn' = n,
         returned' = returned \cup {PicAt(FirstPresent(n))},
         gopSkipped' = FirstPresent(n) - GopOffset
  PROVE  /\ Groups(numIn)' /\ gopSkipped' \in Nat
         /\ Cardinality(returned') = numOut + 1 /\ IsFiniteSet(returned')
         /\ returned' \subseteq 0..(n - 1)
<1>1. PICK g \in Nat : g = cfg.gopLen /\ g > 0
  BY Shape DEF Ready
<1>2. /\ GopOffset \in 0..(g - 1) /\ GopStart \in Int
      /\ numOut = GopStart + GopOffset + 1
      /\ \A j \in 0..(g - 1) : PicAt(j) \in (GopStart + 1)..(GopStart + g)
  BY <1>1, Position
<1>3. /\ GopStart >= 0
      /\ returned = (0..GopStart) \cup {PicAt(j) : j \in Passed(n)}
  BY DEF Groups
<1>4. PICK k : /\ k = FirstPresent(n)
               /\ k \in (GopOffset + gopSkipped)..(g - 1) /\ PicAt(k) \in Left(n)
               /\ \A j \in (GopOffset + gopSkipped)..(k - 1) : PicAt(j) >= n
  BY <1>1, Found
<1>5. gopSkipped \in Nat /\ n \in Nat /\ returned \subseteq 0..(n - 1)
  BY DEF Ready
<1>6. \A j : PicAt(j) = GopStart + PocOffset(j)
  BY DEF PicAt
<1>7. \A j : PocOffset(j)' = PocOffset(j)
  BY DEF PocOffset
<1>8. /\ GopOffset + 1 # g => GopOffset' = GopOffset + 1 /\ GopStart' = GopStart
      /\ GopOffset + 1 = g => GopOffset' = 0 /\ GopStart' = GopStart + g
  BY <1>1, PositionNext
<1> HIDE DEF GopStart, GopOffset
<1>9. k \in Nat /\ gopSkipped' = k - GopOffset /\ gopSkipped' \in Nat
  BY <1>2, <1>4, <1>5
<1>10. /\ PicAt(k) \notin returned /\ PicAt(k) < n
       /\ returned' \subseteq 0..(n - 1)
  <2>1. PicAt(k) \in 0..(n - 1) /\ PicAt(k) \notin returned
    BY <1>4 DEF Left
  <2>2. returned' = returned \cup {PicAt(k)}
    BY <1>4
  <2>3. PicAt(k) < n
    BY <1>5, <2>1
  <2> QED
    BY <1>5, <2>1, <2>2, <2>3
<1>11. IsFiniteSet(returned') /\ Cardinality(returned') = numOut + 1
  BY <1>4, <1>10, FS_AddElement DEF Ready
<1>12. \A j \in 0..k : PicAt(j) < n => j \in Passed(n) \/ j = k
  <2> SUFFICES ASSUME NEW j \in 0..k, PicAt(j) < n, j # k PROVE j \in Passed(n)
    OBVIOUS
  <2>1. j \in 0..(g - 1) /\ PicAt(j) \in Int
    BY <1>2, <1>4, <1>5
  <2>2. ~(j >= GopOffset + gopSkipped)
    BY <1>2, <1>4, <1>5, <2>1
  <2> QED
    BY <1>2, <1>5, <2>1, <2>2 DEF Passed
<1>13. Passed(n) \cup {k} = {j \in 0..k : PicAt(j) < n}
  <2>1. \A j \in Passed(n) : j \in 0..k /\ PicAt(j) < n
    BY <1>2, <1>4, <1>5 DEF Passed
  <2>2. k \in 0..k /\ PicAt(k) < n
    BY <1>9, <1>10
  <2> QED
    BY <1>12, <2>1, <2>2
<1>14. returned' = (0..GopStart) \cup {PicAt(j) : j \in Passed(n) \cup {k}}
  BY <1>3, <1>4
<1>15. CASE GopOffset + 1 # g
  <2>1. GopOffset' + gopSkipped' - 1 = k
    BY <1>2, <1>8, <1>9, <1>15
  <2>2. \A j : PicAt(j)' = PicAt(j)
    BY <1>6, <1>7, <1>8, <1>15 DEF PicAt
  <2>3. Passed(numIn)' = {j \in 0..k : PicAt(j) < n}
    BY <2>1, <2>2 DEF Passed
  <2>4. returned' = (0..GopStart') \cup {PicAt(j)' : j \in Passed(numIn)'}
    BY <1>8, <1>13, <1>14, <1>15, <2>2, <2>3
  <2>5. GopOffset' # 0 /\ GopStart' >= 0
    BY <1>2, <1>3, <1>8, <1>15
  <2> QED
    BY <1>9, <1>10, <1>11, <2>4, <2>5 DEF Groups
<1>16. CASE GopOffset + 1 = g
  <2>1. gopSkipped' = 0 /\ GopOffset' = 0 /\ GopStart' = GopStart + g /\ GopStart' \in Nat
    BY <1>1, <1>2, <1>3, <1>4, <1>5, <1>8, <1>9, <1>16
  <2>2. Passed(numIn)' = {}
    BY <2>1 DEF Passed
  <2>3. returned' \subseteq 0..(GopStart + g)
    <3>1. \A j \in Passed(n) \cup {k} : PicAt(j) \in 0..(GopStart + g)
      BY <1>2, <1>3, <1>4, <1>5, <1>13
    <3> QED
      BY <1>1, <1>2, <1>3, <1>14, <3>1
  <2>4. numOut + 1 = (GopStart + g) + 1 /\ GopStart + g \in Nat
    BY <1>1, <1>2, <1>3, <1>16
  <2>5. returned' = 0..(GopStart + g)
    BY <1>11, <2>3, <2>4, GroupIsFull
  <2> QED
    BY <1>9, <1>10, <1>11, <2>1, <2>2, <2>5 DEF Groups
<1> QED
  BY <1>15, <1>16

(* The intra picture between two closed groups.                            *)
LEMMA IrapStep ==
  ASSUME NEW n, Ready(n), Started, Groups(n), IrapDue,
         cfg' = cfg, numOut' = numOut + 1, numIn' = n,
         returned' = returned \cup {GopStart + 1}, gopSkipped' = gopSkipped
  PROVE  /\ GopStart + 1 \in Left(n) /\ Groups(numIn)' /\ gopSkipped = 0
         /\ Cardinality(returned') = numOut + 1 /\ IsFiniteSet(returned')
         /\ returned' \subseteq 0..(n - 1)
<1>1. /\ GopOffset = 0 /\ GopOffset' = 0 /\ GopStart' = GopStart + 1
      /\ GopStart \in Int /\ numOut = GopStart + GopOffset + 1
  BY Position, PositionNext
<1>2. GopStart >= 0 /\ gopSkipped = 0
  BY <1>1 DEF Groups
<1> HIDE DEF GopStart, GopOffset
<1>3. Passed(n) = {} /\ Passed(numIn)' = {}
  BY <1>1, <1>2 DEF Passed
<1>4. returned = 0..GopStart
  BY <1>3 DEF Groups
<1>5. GopStart + 1 \in Left(n)
  BY <1>1, <1>2, <1>4 DEF Left, Ready
<1>6. returned' = 0..(GopStart + 1)
  BY <1>1, <1>2, <1>4
<1>7. Groups(numIn)'
  BY <1>1, <1>2, <1>3, <1>6 DEF Groups
<1>8. IsFiniteSet(returned') /\ Cardinality(returned') = numOut + 1
  BY <1>5, FS_AddElement DEF Left, Ready
<1>9. returned' \subseteq 0..(n - 1)
  BY <1>5 DEF Left, Ready
<1> QED
  BY <1>2, <1>5, <1>7, <1>8, <1>9

(* The first picture is a group of its own.                                *)
LEMMA FirstStep ==
  ASSUME NEW n, Ready(n), ~Started, cfg' = cfg, numOut' = 1, numIn' = n,
         returned' = returned \cup {0}, gopSkipped' = 0
  PROVE  /\ 0 \in Left(n) /\ Groups(numIn)'
         /\ Cardinality(returned') = numOut + 1 /\ IsFiniteSet(returned')
         /\ returned' \subseteq 0..(n - 1)
<1>1. returned = {} /\ numOut = 0
  BY FS_EmptySet DEF Ready, Started
<1>2. GopOffset' = 0
  <2>1. GopOffset' = IF ~cfg.openGop /\ cfg.intraPeriod > 0
                       THEN (0 - 0 \div (cfg.intraPeriod + 1)) % cfg.gopLen
                       ELSE (0 - 0) % cfg.gopLen
    <3>1. 1 - 1 = 0
      OBVIOUS
    <3> QED
      BY <3>1 DEF GopOffset, ExtraFrames
  <2>2. cfg.intraPeriod + 1 \in Nat /\ cfg.intraPeriod + 1 > 0
        /\ cfg.gopLen \in Nat /\ cfg.gopLen > 0
    BY Shape DEF Ready
  <2>3. \A k \in Nat : k > 0 => 0 \div k = 0 /\ 0 % k = 0
    OBVIOUS
  <2>4. 0 - 0 = 0
    OBVIOUS
  <2> QED
    BY <2>1, <2>2, <2>3, <2>4
<1>3. GopStart' = 0
  BY <1>2 DEF GopStart
<1>4. Passed(numIn)' = {}
  BY <1>2 DEF Passed
<1>5. returned' = 0..0 /\ 0 \in Left(n)
  BY <1>1 DEF Left, Ready
<1>6. Groups(numIn)'
  BY <1>2, <1>3, <1>4, <1>5 DEF Groups
<1>7. IsFiniteSet(returned') /\ Cardinality(returned') = numOut + 1
  BY <1>5, FS_AddElement DEF Left, Ready
<1> QED
  BY <1>5, <1>6, <1>7 DEF Left, Ready

-----------------------------------------------------------------------------
(* The second half of kvz_encoder_feed_frame.                              *)

Begun(n) == IF Started THEN Groups(n) ELSE gopSkipped = 0

(* Picture p is returned; it overtakes only pictures of its own group.     *)
Returned(n, p) ==
  /\ p \in Left(n) /\ \A q \in Left(n) : p <= q + cfg.gopLen - 1
  /\ returned' = returned \cup {p} /\ numOut' = numOut + 1 /\ numIn' = n
  /\ assertsOk' = TRUE /\ gopSkipped' \in Nat
  /\ gopSkipped = 0 /\ numOut + cfg.gopLen <= n => gopSkipped' = 0
  /\ Stored(picBuffer, numIn)' /\ Groups(numIn)'
  /\ returned' \subseteq 0..(n - 1)
  /\ IsFiniteSet(returned') /\ Cardinality(returned') = numOut + 1
  /\ out'.pic = p
  /\ PocOffset(cfg.gopLen - 1) > 1 => numOut + 2 <= p + cfg.gopLen

(* Taking the picture that is due does what the caller is to see.          *)
LEMMA Taken ==
  ASSUME NEW n, Ready(n), NEW pics, Stored(pics, n), assertsOk = TRUE,
         NEW p \in Left(n), NEW dts, NEW k, Take(pics, p - 1, dts, k),
         numIn' = n, cfg' = cfg
  PROVE  /\ Stored(picBuffer, numIn)' /\ assertsOk' = TRUE
         /\ returned' = returned \cup {p} /\ numOut' = numOut + 1 /\ out'.pic = p
<1>1. pics[Slot(p - 1)] = p /\ p # None
  BY TakeOut DEF Ready
<1>2. assertsOk' = TRUE
  BY <1>1 DEF Take
<1>3. returned' = returned \cup {p} /\ numOut' = numOut + 1 /\ out'.pic = p
  BY <1>1 DEF Take, Return
<1>4. picBuffer' = Without(pics, p - 1)
  BY DEF Take
<1>5. Stored(picBuffer, numIn)'
  BY <1>3, <1>4, TakeOut DEF Ready
<1> QED
  BY <1>2, <1>3, <1>5

LEMMA OutputFirst ==
  ASSUME NEW n, Ready(n), NEW pics, Stored(pics, n), assertsOk = TRUE, ~Started,
         gopSkipped = 0, NEW pts, NEW d, Output(pics, pts, n, d), cfg' = cfg
  PROVE  Returned(n, 0)
<1>1. numOut = 0 /\ returned = {}
  BY FS_EmptySet DEF Ready, Started
<1>2. numIn' = n /\ Take(pics, -1, DtsOf(pts, d), 0) /\ gopSkipped' = 0
  BY <1>1 DEF Output
<1>3. 0 \in Left(n)
  BY <1>1 DEF Left, Ready
<1>4. Take(pics, 0 - 1, DtsOf(pts, d), 0)
  <2>1. -1 = 0 - 1
    OBVIOUS
  <2> QED
    BY <1>2, <2>1, Zenon
<1>5. /\ Stored(picBuffer, numIn)' /\ assertsOk' = TRUE
      /\ returned' = returned \cup {0} /\ numOut' = numOut + 1 /\ out'.pic = 0
  BY <1>2, <1>3, <1>4, Taken
<1>6. /\ Groups(numIn)' /\ returned' \subseteq 0..(n - 1)
      /\ Cardinality(returned') = numOut + 1 /\ IsFiniteSet(returned')
  BY <1>1, <1>2, <1>5, FirstStep
<1>7. \A q \in Left(n) : 0 <= q + cfg.gopLen - 1
  BY Shape DEF Left, Ready
<1>8. PocOffset(cfg.gopLen - 1) > 1 => numOut + 2 <= 0 + cfg.gopLen
  <2>1. PICK g \in Nat : g = cfg.gopLen /\ g > 0 /\ PocOffset(g - 1) \in 1..g
    BY Shape DEF Ready
  <2> QED
    BY <1>1, <2>1
<1> QED
  BY <1>2, <1>3, <1>5, <1>6, <1>7, <1>8 DEF Returned

LEMMA OutputIrap ==
  ASSUME NEW n, Ready(n), NEW pics, Stored(pics, n), assertsOk = TRUE, Started,
         Groups(n), IrapDue, NEW pts, NEW d, Output(pics, pts, n, d), cfg' = cfg
  PROVE  Returned(n, GopStart + 1)
<1> DEFINE p == GopStart + 1
<1>1. /\ numIn' = n /\ gopSkipped' = gopSkipped
      /\ Take(pics, GopStart, DtsOf(pts, d), GopOffset + gopSkipped)
  BY DEF Output, Started
<1>2. GopStart \in Int /\ GopStart >= 0
  BY Position DEF Groups
<1>3. 0..GopStart \subseteq returned
  BY DEF Groups
<1>4. p \in Left(n)
  <2>1. GopOffset = 0 /\ numOut = GopStart + GopOffset + 1
    BY Position, OffsetIs, OffsetNext DEF Ready, Started
  <2>2. gopSkipped = 0
    BY <2>1 DEF Groups
  <2> HIDE DEF GopStart, GopOffset
  <2>3. Passed(n) = {}
    BY <2>1, <2>2 DEF Passed
  <2>4. returned = 0..GopStart
    BY <2>3 DEF Groups
  <2> QED
    BY <1>2, <2>1, <2>4 DEF Left, Ready
<1>5. GopStart = p - 1
  BY <1>2
<1>6. Take(pics, p - 1, DtsOf(pts, d), GopOffset + gopSkipped)
  BY <1>1, <1>5, Zenon
<1>7. \A q \in Left(n) : q \in Nat /\ q > GopStart
  BY <1>2, <1>3 DEF Left, Ready
<1>8. \A q \in Left(n) : p <= q + cfg.gopLen - 1
  <2> HIDE DEF GopStart
  <2> QED
    BY <1>2, <1>7, Shape DEF Ready
<1> HIDE DEF p
<1>9. /\ Stored(picBuffer, numIn)' /\ assertsOk' = TRUE
      /\ returned' = returned \cup {p} /\ numOut' = numOut + 1 /\ out'.pic = p
  BY <1>1, <1>4, <1>6, Taken
<1>10. /\ Groups(numIn)' /\ returned' \subseteq 0..(n - 1) /\ gopSkipped = 0
       /\ Cardinality(returned') = numOut + 1 /\ IsFiniteSet(returned')
  BY <1>1, <1>9, IrapStep DEF p
<1>11. PocOffset(cfg.gopLen - 1) > 1 => numOut + 2 <= p + cfg.gopLen
  <2>1. PICK g \in Nat : g = cfg.gopLen /\ g > 0 /\ PocOffset(g - 1) \in 1..g
    BY Shape DEF Ready
  <2>2. GopOffset = 0 /\ numOut = GopStart + GopOffset + 1
    BY Position, OffsetIs, OffsetNext DEF Ready, Started
  <2> HIDE DEF GopStart, GopOffset
  <2> QED
    BY <1>2, <2>1, <2>2 DEF p
<1> QED
  BY <1>1, <1>4, <1>8, <1>9, <1>10, <1>11 DEF Returned, p

LEMMA OutputFound ==
  ASSUME NEW n, Ready(n), NEW pics, Stored(pics, n), assertsOk = TRUE, Started,
         Groups(n), ~IrapDue, NEW pts, NEW d, Output(pics, pts, n, d), cfg' = cfg
  PROVE  Returned(n, PicAt(FirstPresent(n)))
<1>1. PICK g \in Nat : g = cfg.gopLen /\ g > 0
  BY Shape DEF Ready
<1>2. PICK k : /\ k = FirstPresent(n) /\ k \in (GopOffset + gopSkipped)..(g - 1)
               /\ IdxAt(k) = PicAt(k) - 1 /\ PicAt(k) \in Left(n)
               /\ \A j \in (GopOffset + gopSkipped)..(k - 1) : PicAt(j) >= n
  BY <1>1, Found
<1>3. PICK p \in Left(n) : p = PicAt(k)
  BY <1>2
<1>4. numIn' = n /\ gopSkipped' = k - GopOffset /\ Take(pics, p - 1, DtsOf(pts, d), k)
  <2>1. ~(numOut = 0) /\ Present(n) # {}
    BY Found DEF Started
  <2>2. /\ numIn' = n /\ gopSkipped' = k - GopOffset
        /\ Take(pics, IdxAt(k), DtsOf(pts, d), k)
    BY <1>2, <2>1 DEF Output
  <2> QED
    BY <1>2, <1>3, <2>2, Zenon
<1>5. /\ Stored(picBuffer, numIn)' /\ assertsOk' = TRUE
      /\ returned' = returned \cup {p} /\ numOut' = numOut + 1 /\ out'.pic = p
  BY <1>4, Taken
<1>6. /\ Groups(numIn)' /\ gopSkipped' \in Nat
      /\ Cardinality(returned') = numOut + 1 /\ IsFiniteSet(returned')
      /\ returned' \subseteq 0..(n - 1)
  BY <1>2, <1>3, <1>4, <1>5, GroupStep
<1>7. /\ GopOffset \in 0..(g - 1) /\ GopStart \in Int
      /\ numOut = GopStart + GopOffset + 1
      /\ \A j \in 0..(g - 1) : PicAt(j) \in (GopStart + 1)..(GopStart + g)
  BY <1>1, Position
<1>8. 0..GopStart \subseteq returned /\ GopStart >= 0
  BY DEF Groups
<1> HIDE DEF GopStart, GopOffset
<1>9. gopSkipped \in Nat /\ n \in Nat
  BY DEF Ready
<1>10. gopSkipped = 0 /\ numOut + g <= n => gopSkipped' = 0
  <2> SUFFICES ASSUME gopSkipped = 0, numOut + g <= n, k # GopOffset PROVE FALSE
    BY <1>4, <1>7
  <2>1. GopOffset \in (GopOffset + gopSkipped)..(k - 1)
    BY <1>2, <1>7
  <2>2. PicAt(GopOffset) >= n
    BY <1>2, <2>1
  <2> QED
    BY <1>1, <1>7, <1>9, <2>2
<1>11. ASSUME NEW q \in Left(n) PROVE p <= q + g - 1
  <2>1. q \in Nat /\ q > GopStart
    BY <1>7, <1>8, <1>9 DEF Left
  <2>2. p \in Int /\ p <= GopStart + g
    BY <1>2, <1>3, <1>7, <1>9
  <2> QED
    BY <1>1, <1>7, <2>1, <2>2
<1>12. PocOffset(g - 1) > 1 => numOut + 2 <= p + g
  <2>1. PocOffset(g - 1) \in 1..g
    BY <1>1, Shape DEF Ready
  <2>2. k \in 0..(g - 1) /\ k >= GopOffset
    BY <1>2, <1>7, <1>9
  <2>3. p \in Int /\ p >= GopStart + 1
    BY <1>3, <1>7, <2>2
  <2>4. CASE GopOffset = g - 1
    <3>1. k = g - 1
      BY <1>1, <2>2, <2>4
    <3>2. p = GopStart + PocOffset(g - 1)
      BY <1>3, <3>1 DEF PicAt
    <3> QED
      BY <1>1, <1>7, <2>1, <2>4, <3>2
  <2>5. CASE GopOffset # g - 1
    BY <1>1, <1>7, <2>3, <2>5
  <2> QED
    BY <2>4, <2>5
<1> QED
  BY <1>1, <1>2, <1>3, <1>4, <1>5, <1>6, <1>10, <1>11, <1>12 DEF Returned

LEMMA OutputStep ==
  ASSUME NEW n, Ready(n), NEW pics, Stored(pics, n), assertsOk = TRUE, Begun(n),
         NEW pts, NEW d, Output(pics, pts, n, d), cfg' = cfg
  PROVE  \E p \in Left(n) : Returned(n, p)
<1>1. CASE ~Started
  BY <1>1, OutputFirst DEF Begun, Returned
<1>2. CASE Started /\ IrapDue
  BY <1>2, OutputIrap DEF Begun, Returned
<1>3. CASE Started /\ ~IrapDue
  BY <1>3, OutputFound DEF Begun, Returned
<1> QED
  BY <1>1, <1>2, <1>3

-----------------------------------------------------------------------------
(* The steps keep the invariant.                                           *)

LEMMA InitOk ==
  ASSUME Init PROVE BufferInv
<1>1. /\ cfg \in Configs /\ assertsOk = TRUE /\ numIn = 0 /\ numOut = 0
      /\ gopSkipped = 0 /\ returned = {} /\ ended = FALSE
      /\ picBuffer = [s \in 0..(BufSize - 1) |-> None]
  BY DEF Init
<1>2. Kinds
  BY <1>1, FS_EmptySet DEF Kinds
<1>3. DirectInv
  BY <1>1 DEF DirectInv
<1>4. ASSUME ~Direct PROVE Stored(picBuffer, numIn) /\ Lagging /\ ~Started
  <2>1. Left(numIn) = {}
    BY <1>1 DEF Left
  <2>2. Stored(picBuffer, numIn)
    BY <1>1, <2>1 DEF Stored
  <2>3. Lagging
    BY <1>1, <1>4, Shape DEF Lagging, Started
  <2> QED
    BY <1>1, <2>2, <2>3 DEF Started
<1> QED
  BY <1>1, <1>2, <1>3, <1>4 DEF BufferInv, BufferedInv

LEMMA DirectStep ==
  ASSUME BufferInv, FeedDirect, cfg' = cfg
  PROVE  BufferInv'
<1>1. /\ Direct /\ numIn' = numIn + 1 /\ numOut' = numOut + 1
      /\ returned' = returned \cup {numIn}
      /\ picBuffer' = picBuffer /\ gopSkipped' = gopSkipped /\ assertsOk' = assertsOk
  BY DEF FeedDirect, Return
<1>2. /\ cfg \in Configs /\ assertsOk = TRUE /\ numIn \in Nat /\ numOut = numIn
      /\ gopSkipped \in Nat /\ returned \subseteq 0..(numIn - 1)
      /\ IsFiniteSet(returned) /\ Cardinality(returned) = numOut
      /\ picBuffer = [s \in 0..(BufSize - 1) |-> None]
  BY <1>1 DEF BufferInv, Kinds, DirectInv
<1>3. Direct' /\ BufSize' = BufSize
  BY <1>1 DEF Direct, BufSize
<1>4. IsFiniteSet(returned') /\ Cardinality(returned') = numOut + 1
  <2>1. numIn \notin returned
    BY <1>2
  <2> QED
    BY <1>1, <1>2, <2>1, FS_AddElement
<1>5. returned' \subseteq 0..numIn /\ numIn = numIn' - 1
  BY <1>1, <1>2
<1>6. Kinds'
  BY <1>1, <1>2, <1>4, <1>5 DEF Kinds
<1> QED
  BY <1>1, <1>2, <1>3, <1>6 DEF BufferInv, DirectInv, BufferedInv

(* What the step of the code says of the pictures, for the invariant and   *)
(* for the promise of PictureReorder.                                      *)
LEMMA ReturnKeeps ==
  ASSUME BufferInv, cfg' = cfg, NEW n, Ready(n), NEW p, Returned(n, p),
         n <= numOut + Enough, n >= numIn,
         ~ended' => gopSkipped = 0 /\ n = numOut + Enough
  PROVE  BufferInv'
<1>1. /\ cfg \in Configs /\ ~Direct /\ n \in Nat /\ numOut \in Nat /\ numOut < n
  BY DEF Ready
<1>2. /\ numOut' = numOut + 1 /\ numIn' = n /\ assertsOk' = TRUE /\ gopSkipped' \in Nat
      /\ gopSkipped = 0 /\ numOut + cfg.gopLen <= n => gopSkipped' = 0
      /\ Stored(picBuffer, numIn)' /\ Groups(numIn)'
      /\ returned' \subseteq 0..(n - 1)
      /\ IsFiniteSet(returned') /\ Cardinality(returned') = numOut + 1
  BY DEF Returned
<1>3. ~Direct' /\ Enough' = Enough /\ Started'
  BY <1>1, <1>2 DEF Direct, Enough, IsClosed, Started
<1>4. Kinds'
  BY <1>1, <1>2 DEF Kinds
<1>5. Lagging'
  <2>1. Enough \in Nat /\ cfg.gopLen \in Nat /\ cfg.gopLen <= Enough
    BY <1>1, Shape
  <2>2. numIn' <= numOut' + Enough' - 1
    BY <1>1, <1>2, <1>3, <2>1
  <2>3. ~ended' => gopSkipped' = 0 /\ numIn' = numOut' + Enough' - 1
    BY <1>1, <1>2, <1>3, <2>1
  <2> QED
    BY <2>2, <2>3 DEF Lagging
<1> QED
  BY <1>2, <1>3, <1>4, <1>5 DEF BufferInv, DirectInv, BufferedInv

(* Pictures in the buffer are of this group or of the next one.            *)
LEMMA Spanned ==
  ASSUME BufferInv, ~Direct
  PROVE  \A q \in Left(numIn) : numIn - q < BufSize
<1>1. PICK g \in Nat : /\ g = cfg.gopLen /\ g > 0 /\ BufSize = 3 * g
                       /\ Enough \in Nat /\ Enough <= g + 1
  BY Shape DEF BufferInv, Kinds
<1>2. /\ numIn \in Nat /\ numOut \in 0..numIn /\ numIn <= numOut + Enough - 1
  BY DEF BufferInv, Kinds, BufferedInv, Lagging
<1> SUFFICES ASSUME NEW q \in Left(numIn) PROVE numIn - q < 3 * g
  BY <1>1
<1>3. q \in Nat /\ q < numIn /\ q \notin returned
  BY <1>2 DEF Left
<1>4. CASE ~Started
  BY <1>1, <1>2, <1>3, <1>4 DEF Started
<1>5. CASE Started
  <2>1. Ready(numIn + 1)
    BY <1>2 DEF BufferInv, Kinds, Ready
  <2>2. /\ GopOffset \in 0..(g - 1) /\ GopStart \in Int
        /\ numOut = GopStart + GopOffset + 1
    BY <1>1, <1>5, <2>1, Position
  <2>3. GopStart >= 0 /\ 0..GopStart \subseteq returned
    BY <1>5 DEF BufferInv, BufferedInv, Groups
  <2> HIDE DEF GopStart, GopOffset
  <2>4. q > GopStart
    BY <1>3, <2>2, <2>3
  <2> QED
    BY <1>1, <1>2, <1>3, <2>2, <2>4
<1> QED
  BY <1>4, <1>5

(* An arriving picture is not in what has been passed of the group.        *)
LEMMA ArrivalOpens ==
  ASSUME BufferInv, ~Direct, ~ended, numIn + 1 >= Enough
  PROVE  Ready(numIn + 1) /\ Begun(numIn + 1) /\ numIn + 1 = numOut + Enough
<1>1. PICK g \in Nat : g = cfg.gopLen /\ g > 0 /\ Enough \in Nat /\ g <= Enough
  BY Shape DEF BufferInv, Kinds
<1>2. /\ numIn \in Nat /\ numOut \in 0..numIn /\ numIn <= numOut + Enough - 1
      /\ gopSkipped = 0 /\ (numIn # numOut + Enough - 1 => ~Started)
  BY DEF BufferInv, Kinds, BufferedInv, Lagging
<1>3. numIn = numOut + Enough - 1
  BY <1>1, <1>2 DEF Started
<1>4. Ready(numIn + 1)
  BY <1>2 DEF BufferInv, Kinds, Ready
<1>5. ASSUME Started PROVE Groups(numIn + 1)
  <2>1. /\ GopOffset \in 0..(g - 1) /\ GopStart \in Int
        /\ numOut = GopStart + GopOffset + 1
        /\ \A j \in 0..(g - 1) : PicAt(j) \in (GopStart + 1)..(GopStart + g)
    BY <1>1, <1>4, <1>5, Position
  <2>2. Groups(numIn)
    BY <1>5 DEF BufferInv, BufferedInv
  <2> HIDE DEF GopStart, GopOffset
  <2>3. ASSUME NEW k \in 0..(GopOffset + gopSkipped - 1)
        PROVE  PicAt(k) < numIn + 1 <=> PicAt(k) < numIn
    <3>1. k \in 0..(g - 1) /\ GopOffset >= 1
      BY <1>2, <2>1
    <3>2. PicAt(k) \in Int /\ PicAt(k) <= GopStart + g
      BY <1>1, <2>1, <3>1
    <3> QED
      BY <1>1, <1>2, <1>3, <2>1, <3>1, <3>2
  <2>4. Passed(numIn + 1) = Passed(numIn)
    BY <2>3 DEF Passed
  <2> QED
    BY <2>2, <2>4 DEF Groups
<1> QED
  BY <1>1, <1>2, <1>3, <1>4, <1>5 DEF Begun

(* A picture is kept while less than a group has come.                     *)
Kept == /\ numIn' = numIn + 1 /\ numIn' < Enough /\ returned' = returned
        /\ returned = {}

LEMMA BufferedStep ==
  ASSUME BufferInv, ~ended, FeedBuffered, cfg' = cfg, ended' = ended
  PROVE  /\ BufferInv'
         /\ Kept \/ \E p \in Left(numIn + 1) : Returned(numIn + 1, p)
<1> DEFINE s == Slot(numIn - 1)
           n == numIn + 1
           pics == [picBuffer EXCEPT ![s] = numIn]
           pts == [ptsBuffer EXCEPT ![s] = Pts(numIn)]
           d == IF n = Enough THEN pts[BufSize - 1] - Pts(numIn) ELSE delay
<1>1. ~Direct
  BY DEF FeedBuffered
<1>2. /\ cfg \in Configs /\ assertsOk = TRUE /\ numIn \in Nat /\ numOut \in 0..numIn
      /\ gopSkipped = 0 /\ returned \subseteq 0..(numIn - 1)
      /\ IsFiniteSet(returned) /\ Cardinality(returned) = numOut
      /\ Stored(picBuffer, numIn) /\ numIn <= numOut + Enough - 1
      /\ numIn # numOut + Enough - 1 => ~Started
  BY <1>1 DEF BufferInv, Kinds, BufferedInv, Lagging
<1>3. picBuffer[s] = None /\ Stored(pics, n)
  BY <1>1, <1>2, Spanned, StoreNew
<1>4. Enough \in Nat
  BY <1>1, <1>2, Shape
<1>5. CASE n < Enough
  <2>1. /\ picBuffer' = pics /\ numIn' = n /\ gopSkipped' = gopSkipped
        /\ assertsOk' = assertsOk /\ numOut' = numOut /\ returned' = returned
    BY <1>3, <1>5 DEF FeedBuffered, ReturnNull
  <2>2. ~Started /\ numOut = 0 /\ returned = {}
    <3>1. ~Started /\ numOut = 0
      BY <1>2, <1>4, <1>5 DEF Started
    <3> QED
      BY <1>2, <3>1, FS_EmptySet
  <2>3. Kinds'
    BY <1>2, <2>1, <2>2 DEF Kinds
  <2>4. Stored(picBuffer, numIn)'
    <3>1. BufSize' = BufSize /\ (\A i : Slot(i)' = Slot(i)) /\ Left(numIn)' = Left(n)
      BY <2>1 DEF BufSize, Slot, Left
    <3> HIDE DEF pics, n
    <3> QED
      BY <1>3, <2>1, <3>1 DEF Stored
  <2>5. ~Direct' /\ ~Started' /\ Enough' = Enough
    BY <1>1, <2>1, <2>2 DEF Direct, Started, Enough, IsClosed
  <2>6. Lagging'
    BY <1>2, <1>4, <1>5, <2>1, <2>2, <2>5 DEF Lagging
  <2>7. Kept
    BY <1>5, <2>1, <2>2 DEF Kept
  <2> QED
    BY <1>2, <2>1, <2>3, <2>4, <2>5, <2>6, <2>7 DEF BufferInv, DirectInv, BufferedInv
<1>6. CASE ~(n < Enough)
  <2>1. Output(pics, pts, n, d)
    BY <1>3, <1>6 DEF FeedBuffered
  <2>2. numIn + 1 >= Enough
    BY <1>2, <1>4, <1>6
  <2>3. Ready(n) /\ Begun(n) /\ n = numOut + Enough
    BY <1>1, <2>2, ArrivalOpens
  <2>4. n >= numIn
    BY <1>2
  <2> HIDE DEF n, pics, pts, d
  <2>5. PICK p \in Left(n) : Returned(n, p)
    BY <1>2, <1>3, <2>1, <2>3, OutputStep
  <2>6. BufferInv'
    <3>1. n <= numOut + Enough
      BY <1>2, <1>4, <2>3
    <3> QED
      BY <1>2, <2>3, <2>4, <2>5, <3>1, ReturnKeeps
  <2> QED
    BY <2>5, <2>6 DEF n
<1> QED
  BY <1>5, <1>6

LEMMA FlushStep ==
  ASSUME BufferInv, Flush
  PROVE  /\ BufferInv'
         /\ \/ numIn' = numIn /\ returned' = returned /\ numOut = numIn
            \/ ~Direct /\ \E p \in Left(numIn) : Returned(numIn, p)
<1>1. cfg' = cfg /\ ended' = TRUE
  BY DEF Flush
<1>2. /\ cfg \in Configs /\ assertsOk = TRUE /\ numIn \in Nat /\ numOut \in 0..numIn
      /\ gopSkipped \in Nat /\ returned \subseteq 0..(numIn - 1)
      /\ IsFiniteSet(returned) /\ Cardinality(returned) = numOut
      /\ (Direct => numOut = numIn)
  BY DEF BufferInv, Kinds, DirectInv
<1>3. CASE Direct \/ AllReturned
  <2>1. /\ picBuffer' = picBuffer /\ numIn' = numIn /\ gopSkipped' = gopSkipped
        /\ assertsOk' = assertsOk /\ numOut' = numOut /\ returned' = returned
    BY <1>3 DEF Flush, ReturnNull, bufVars
  <2>2. numOut = numIn
    BY <1>2, <1>3 DEF AllReturned
  <2>3. Kinds'
    BY <1>1, <1>2, <2>1 DEF Kinds
  <2>4. /\ Direct' = Direct /\ BufSize' = BufSize /\ Enough' = Enough
        /\ Started' = Started /\ GopStart' = GopStart /\ GopOffset' = GopOffset
        /\ (\A i : Slot(i)' = Slot(i)) /\ (\A k : PocOffset(k)' = PocOffset(k))
    BY <1>1, <2>1 DEF Direct, BufSize, Enough, IsClosed, Started, GopStart, GopOffset,
                      ExtraFrames, Slot, PocOffset
  <2>5. DirectInv'
    BY <2>1, <2>4 DEF BufferInv, DirectInv
  <2>6. BufferedInv'
    <3>1. Left(numIn)' = Left(numIn)
      BY <2>1 DEF Left
    <3>2. Stored(picBuffer, numIn) => Stored(picBuffer, numIn)'
      BY <2>1, <2>4, <3>1 DEF Stored
    <3>3. Groups(numIn) => Groups(numIn)'
      <4>1. \A k : PicAt(k)' = PicAt(k)
        BY <2>4 DEF PicAt
      <4>2. Passed(numIn)' = Passed(numIn)
        BY <2>1, <2>4, <4>1 DEF Passed
      <4> QED
        BY <2>1, <2>4, <4>1, <4>2 DEF Groups
    <3>4. Lagging => Lagging'
      BY <1>1, <2>1, <2>4 DEF Lagging
    <3> QED
      BY <2>1, <2>4, <3>2, <3>3, <3>4 DEF BufferInv, BufferedInv
  <2> QED
    BY <2>1, <2>2, <2>3, <2>5, <2>6 DEF BufferInv
<1>4. CASE ~(Direct \/ AllReturned)
  <2>1. Output(picBuffer, ptsBuffer, numIn, ShortDelay)
    BY <1>4 DEF Flush
  <2>2. Ready(numIn)
    BY <1>2, <1>4 DEF Ready, AllReturned
  <2>3. Stored(picBuffer, numIn) /\ Begun(numIn) /\ numIn <= numOut + Enough - 1
    BY <1>4 DEF BufferInv, BufferedInv, Begun, Lagging
  <2>4. PICK p \in Left(numIn) : Returned(numIn, p)
    BY <1>1, <1>2, <2>1, <2>2, <2>3, OutputStep
  <2>5. BufferInv'
    <3>1. numIn <= numOut + Enough /\ numIn >= numIn
      BY <1>2, <1>4, <2>3, Shape
    <3> QED
      BY <1>1, <2>2, <2>4, <3>1, ReturnKeeps
  <2> QED
    BY <1>4, <2>4, <2>5
<1> QED
  BY <1>3, <1>4

LEMMA StepKeeps ==
  ASSUME BufferInv, [Next]_vars
  PROVE  BufferInv'
<1>1. ASSUME Feed PROVE BufferInv'
  <2>1. ~ended /\ cfg' = cfg /\ ended' = ended
    BY <1>1 DEF Feed
  <2>2. CASE FeedDirect
    BY <2>1, <2>2, DirectStep
  <2>3. CASE FeedBuffered
    BY <2>1, <2>3, BufferedStep
  <2> QED
    BY <1>1, <2>2, <2>3 DEF Feed
<1>2. ASSUME Flush PROVE BufferInv'
  BY <1>2, FlushStep
<1>3. ASSUME UNCHANGED vars PROVE BufferInv'
  <2>1. /\ cfg' = cfg /\ numIn' = numIn /\ numOut' = numOut /\ returned' = returned
        /\ picBuffer' = picBuffer /\ gopSkipped' = gopSkipped
        /\ assertsOk' = assertsOk /\ ended' = ended
    BY <1>3 DEF vars, bufVars
  <2>2. Kinds' = Kinds
    BY <2>1 DEF Kinds
  <2>3. DirectInv' = DirectInv
    BY <2>1 DEF DirectInv, Direct, BufSize
  <2>4. BufferedInv' = BufferedInv
    BY <2>1 DEF BufferedInv, Direct, Stored, Left, Slot, BufSize, Lagging, Enough,
                IsClosed, Started, Groups, Passed, PicAt, PocOffset, GopStart,
                GopOffset, ExtraFrames
  <2> QED
    BY <2>2, <2>3, <2>4 DEF BufferInv
<1> QED
  BY <1>1, <1>2, <1>3 DEF Next

(* What the buffer holds is what has come and not gone.                    *)
LEMMA HeldIs == BufferInv => Held = Given \ returned
<1> SUFFICES ASSUME BufferInv PROVE Held = Given \ returned
  OBVIOUS
<1>1. Left(numIn) = Given \ returned
  BY DEF Left, Given
<1>2. CASE Direct
  <2>1. picBuffer = [s \in 0..(BufSize - 1) |-> None] /\ numOut = numIn
    BY <1>2 DEF BufferInv, DirectInv
  <2>2. Held = {}
    BY <2>1 DEF Held
  <2>3. numIn \in Nat /\ returned \subseteq 0..(numIn - 1) /\ Cardinality(returned) = numIn
    BY <2>1 DEF BufferInv, Kinds
  <2>4. returned = Given
    <3>1. CASE numIn = 0
      BY <2>3, <3>1 DEF Given
    <3>2. CASE numIn # 0
      <4>1. PICK m \in Nat : m = numIn - 1 /\ numIn = m + 1
        BY <2>3, <3>2
      <4> QED
        BY <2>3, <4>1, GroupIsFull DEF Given
    <3> QED
      BY <3>1, <3>2
  <2> QED
    BY <2>2, <2>4
<1>3. CASE ~Direct
  <2>1. Stored(picBuffer, numIn) /\ cfg \in Configs
    BY <1>3 DEF BufferInv, BufferedInv, Kinds
  <2>2. ASSUME NEW p \in Left(numIn) PROVE p \in Held
    <3>1. p \in Nat /\ p # None
      BY NoneNew DEF Left
    <3>2. Slot(p - 1) \in DOMAIN picBuffer /\ picBuffer[Slot(p - 1)] = p
      BY <1>3, <2>1, <3>1, SlotOf DEF Stored
    <3> QED
      BY <3>1, <3>2 DEF Held
  <2>3. ASSUME NEW p \in Held PROVE p \in Left(numIn)
    <3>1. PICK s \in DOMAIN picBuffer : picBuffer[s] = p /\ p # None
      BY <2>3 DEF Held
    <3> QED
      BY <2>1, <3>1 DEF Stored
  <2> QED
    BY <1>1, <2>2, <2>3
<1> QED
  BY <1>2, <1>3

LEMMA HeldNext == BufferInv' => Held' = (0..(numIn' - 1)) \ returned'
<1>1. (BufferInv => Held = Given \ returned)'
  BY HeldIs, PTL
<1> QED
  BY <1>1 DEF Given

(* No picture is lost or returned twice, for every length of the sequence  *)
(* and every group: an arriving picture finds its slot free, the picture   *)
(* that is due is in the buffer, and the search for one ends in the group. *)
THEOREM NoPictureLostCorrect == Spec => []NoPictureLost
<1>1. Init => BufferInv
  BY InitOk
<1>2. BufferInv /\ [Next]_vars => BufferInv'
  BY StepKeeps
<1>3. BufferInv => NoPictureLost
  BY HeldIs DEF NoPictureLost, BufferInv, Kinds
<1> QED
  BY <1>1, <1>2, <1>3, PTL DEF Spec

-----------------------------------------------------------------------------
(* The promise of PictureReorder.                                          *)

LEMMA SameCardinality == \A S : Reorder!Cardinality(S) = Cardinality(S)
BY Zenon DEF Reorder!Cardinality, Cardinality

(* A picture is given back: it overtakes only pictures of its group.       *)
LEMMA GiveBack ==
  ASSUME BufferInv, BufferInv', ~Direct, NEW new, numIn' = numIn + Cardinality(new),
         NEW p, Returned(numIn', p), Held \cup new = Left(numIn')
  PROVE  Reorder!Call(new)
<1>1. /\ p \in Left(numIn') /\ \A q \in Left(numIn') : p <= q + cfg.gopLen - 1
      /\ returned' = returned \cup {p}
  BY DEF Returned
<1>2. Held' = Left(numIn') \ {p}
  <2>1. Held' = (0..(numIn' - 1)) \ returned'
    BY HeldNext
  <2> QED
    BY <1>1, <2>1 DEF Left
<1>3. \A q \in Left(numIn') : p <= q + (MaxGopLen - 1)
  <2>1. numIn' \in Nat
    BY DEF BufferInv, Kinds
  <2>2. cfg.gopLen \in Nat /\ cfg.gopLen <= MaxGopLen /\ MaxGopLen \in Nat
    BY Shape, BoundsNat DEF BufferInv, Kinds
  <2> QED
    BY <1>1, <2>1, <2>2 DEF Left
<1> QED
  BY <1>1, <1>2, <1>3, SameCardinality DEF Reorder!Call, Reorder!MayGive

LEMMA CallKept ==
  ASSUME BufferInv, BufferInv', ~Direct, Kept
  PROVE  Reorder!Call({numIn})
<1>1. /\ numIn \in Nat /\ numIn + 1 < Enough /\ Enough \in Nat
      /\ Enough <= cfg.gopLen + 1 /\ cfg.gopLen <= MaxGopLen /\ cfg.gopLen \in Nat
      /\ MaxGopLen \in Nat
  BY Shape, BoundsNat DEF BufferInv, Kinds, Kept
<1>2. Held \cup {numIn} = 0..numIn
  BY <1>1, HeldIs DEF Kept, Given
<1>3. Held' = 0..numIn
  <2>1. Held' = (0..(numIn' - 1)) \ returned'
    BY HeldNext
  <2> QED
    BY <1>1, <2>1 DEF Kept
<1>4. Cardinality(0..numIn) = numIn + 1
  <2>1. numIn \in Int /\ 0 \in Int
    BY <1>1
  <2>2. Cardinality(0..numIn) = IF 0 > numIn THEN 0 ELSE numIn - 0 + 1
    BY <2>1, FS_Interval, Zenon
  <2> QED
    BY <1>1, <2>2
<1>5. numIn + 1 <= MaxGopLen
  BY <1>1
<1>6. Cardinality({numIn}) = 1
  BY FS_Singleton
<1>7. Cardinality(Held \cup {numIn}) <= MaxGopLen /\ Held' = Held \cup {numIn}
  BY <1>2, <1>3, <1>4, <1>5
<1> QED
  BY <1>6, <1>7, SameCardinality DEF Reorder!Call, Kept

LEMMA CallDirect ==
  ASSUME BufferInv, BufferInv', FeedDirect, cfg' = cfg
  PROVE  Reorder!Call({numIn})
<1>1. Direct /\ Direct' /\ numIn' = numIn + 1
  BY DEF FeedDirect, Direct
<1>2. numIn \in Nat /\ MaxGopLen \in Nat /\ MaxGopLen >= 1
  BY BoundsNat DEF BufferInv, Kinds
<1>3. Held = {} /\ Held' = {}
  BY <1>1 DEF BufferInv, DirectInv, Held
<1>4. numIn <= numIn + (MaxGopLen - 1)
  BY <1>2
<1>5. Cardinality({numIn}) = 1
  BY FS_Singleton
<1> QED
  BY <1>1, <1>3, <1>4, <1>5, SameCardinality DEF Reorder!Call, Reorder!MayGive

LEMMA CallFed ==
  ASSUME BufferInv, BufferInv', Feed
  PROVE  numIn < MaxIn /\ Reorder!Call({numIn})
<1>1. numIn < MaxIn /\ ~ended /\ cfg' = cfg /\ ended' = ended
  BY DEF Feed
<1>2. CASE FeedDirect
  BY <1>1, <1>2, CallDirect
<1>3. CASE FeedBuffered
  <2>1. ~Direct
    BY <1>3 DEF FeedBuffered
  <2>2. CASE Kept
    BY <1>1, <2>1, <2>2, CallKept
  <2>3. CASE \E p \in Left(numIn + 1) : Returned(numIn + 1, p)
    <3>1. PICK p \in Left(numIn + 1) : Returned(numIn + 1, p)
      BY <2>3
    <3>2. numIn' = numIn + 1
      BY <3>1 DEF Returned
    <3>3. Cardinality({numIn}) = 1
      BY FS_Singleton
    <3>4. Held \cup {numIn} = Left(numIn + 1)
      BY HeldIs DEF Given, Left, BufferInv, Kinds
    <3>5. Reorder!Call({numIn})
      BY <2>1, <3>1, <3>2, <3>3, <3>4, GiveBack
    <3> QED
      BY <1>1, <3>5
  <2> QED
    BY <1>1, <1>3, <2>2, <2>3, BufferedStep
<1> QED
  BY <1>2, <1>3 DEF Feed

LEMMA CallFlushed ==
  ASSUME BufferInv, BufferInv', Flush
  PROVE  Reorder!Call({})
<1>1. numIn \in Nat /\ numIn + 0 = numIn /\ Cardinality({}) = 0
  BY FS_EmptySet DEF BufferInv, Kinds
<1>2. CASE numIn' = numIn /\ returned' = returned /\ numOut = numIn
  <2>1. returned \subseteq 0..(numIn - 1) /\ Cardinality(returned) = numIn
    BY <1>2 DEF BufferInv, Kinds
  <2>2. returned = Given
    <3>1. CASE numIn = 0
      BY <2>1, <3>1 DEF Given
    <3>2. CASE numIn # 0
      <4>1. PICK m \in Nat : m = numIn - 1 /\ numIn = m + 1
        BY <1>1, <3>2
      <4> QED
        BY <2>1, <4>1, GroupIsFull DEF Given
    <3> QED
      BY <3>1, <3>2
  <2>3. Held = {}
    BY <2>2, HeldIs
  <2>4. Held' = (0..(numIn' - 1)) \ returned'
    BY HeldNext
  <2> QED
    BY <1>1, <1>2, <2>2, <2>3, <2>4, SameCardinality DEF Reorder!Call, Given
<1>3. CASE ~Direct /\ \E p \in Left(numIn) : Returned(numIn, p)
  <2>1. PICK p \in Left(numIn) : Returned(numIn, p)
    BY <1>3
  <2>2. numIn' = numIn /\ Held \cup {} = Left(numIn)
    BY <2>1, HeldIs DEF Given, Left, Returned
  <2> QED
    BY <1>1, <1>3, <2>1, <2>2, GiveBack
<1> QED
  BY <1>2, <1>3, FlushStep

(* The buffer keeps the promise of PictureReorder for groups of any        *)
(* length: a picture overtakes only pictures of its own group, no more     *)
(* than a group of pictures is kept back, and a call without a picture     *)
(* gives one back as long as there is one.                                 *)
THEOREM BufferReorders == Spec => Implements
<1>1. Init => Reorder!Init
  <2> SUFFICES ASSUME Init PROVE Reorder!Init
    OBVIOUS
  <2>1. Held = Given \ returned
    BY InitOk, HeldIs
  <2> QED
    BY <2>1 DEF Init, Given, Reorder!Init
<1>2. BufferInv /\ BufferInv' /\ [Next]_vars => [Reorder!Next]_Reorder!vars
  <2> SUFFICES ASSUME BufferInv, BufferInv', [Next]_vars
               PROVE  [Reorder!Next]_Reorder!vars
    OBVIOUS
  <2>1. CASE Feed
    BY <2>1, CallFed DEF Reorder!Next
  <2>2. CASE Flush
    BY <2>2, CallFlushed DEF Reorder!Next
  <2>3. CASE UNCHANGED vars
    BY <2>3 DEF vars, bufVars, Held, Reorder!vars
  <2> QED
    BY <2>1, <2>2, <2>3 DEF Next
<1> QED
  BY <1>1, <1>2, InitOk, StepKeeps, PTL DEF Spec, Implements, Reorder!Spec

-----------------------------------------------------------------------------
(* Decoding times.                                                         *)

(* The DTS of the picture that is returned after x others, when n have     *)
(* come.  A sequence with less than a group has a delay of its own.        *)
Delay(n)    == Pts(0) - Pts((IF n < Enough THEN n ELSE Enough) - 1)
DtsAt(x, n) == IF x < cfg.gopLen - 1 THEN Pts(x) + Delay(n)
               ELSE Pts(x - cfg.gopLen + 2)

(* The times of the last pictures are there, the delay is known once enough*)
(* pictures have come, and this was the last DTS.                          *)
Times(pts, n) ==
  /\ pts \in [0..(BufSize - 1) -> Nat]
  /\ \A p \in 0..(n - 1) : n <= p + BufSize => pts[Slot(p - 1)] = Pts(p)
DtsInv ==
  /\ gapAt \in Nat
  /\ Direct /\ Started => lastDts = Pts(numOut - 1)
  /\ ~Direct => /\ Times(ptsBuffer, numIn)
                /\ numIn >= Enough => delay = Delay(numIn)
                /\ Started => lastDts = DtsAt(numOut - 1, numIn)

LEMMA PtsGrow ==
  ASSUME gapAt \in Nat
  PROVE  /\ \A p \in Nat : Pts(p) \in Nat
         /\ \A p, q \in Nat : p < q => Pts(p) < Pts(q)
         /\ \A p, q \in Nat : p <= q => Pts(p) <= Pts(q)
BY BoundsNat DEF Pts

(* Groups of two pictures at least, as the last is not the first.          *)
LEMMA Long ==
  ASSUME cfg \in Configs, ~Direct
  PROVE  /\ cfg.gopLen \in Nat /\ cfg.gopLen >= 2 /\ PocOffset(cfg.gopLen - 1) > 1
         /\ Enough \in Nat /\ Enough >= cfg.gopLen /\ Enough <= cfg.gopLen + 1
         /\ BufSize = 3 * cfg.gopLen /\ BufSize \in Nat
<1>1. PICK g \in Nat : g = cfg.gopLen /\ g > 0 /\ ~cfg.lowDelay
  BY Shape DEF Direct
<1>2. cfg.gop[g].poc > 1
  BY <1>1, LastIsLater
<1>3. PocOffset(g - 1) = cfg.gop[(g - 1) + 1].poc /\ (g - 1) + 1 = g
  BY <1>1 DEF PocOffset
<1>4. PocOffset(g - 1) \in 1..g
  BY <1>1, Shape
<1> QED
  BY <1>1, <1>2, <1>3, <1>4, Shape

LEMMA DtsGrows ==
  ASSUME cfg \in Configs, ~Direct, gapAt \in Nat, NEW n \in Nat, NEW x \in Nat, x + 1 < n
  PROVE  DtsAt(x, n) < DtsAt(x + 1, n)
<1>1. PICK g \in Nat : /\ g = cfg.gopLen /\ g >= 2 /\ Enough \in Nat
                       /\ Enough >= g /\ Enough <= g + 1
  BY Long
<1>2. PICK m \in Nat : m = (IF n < Enough THEN n ELSE Enough) - 1
  BY <1>1
<1>3. Delay(n) = Pts(0) - Pts(m) /\ Pts(0) \in Nat /\ Pts(m) \in Nat
  BY <1>2, PtsGrow DEF Delay
<1>4. CASE x + 1 < g - 1
  <2>1. DtsAt(x, n) = Pts(x) + Delay(n) /\ DtsAt(x + 1, n) = Pts(x + 1) + Delay(n)
    BY <1>1, <1>4 DEF DtsAt
  <2>2. Pts(x) \in Nat /\ Pts(x + 1) \in Nat /\ Pts(x) < Pts(x + 1)
    BY PtsGrow
  <2> QED
    BY <1>3, <2>1, <2>2
<1>5. CASE x + 1 = g - 1
  <2>1. DtsAt(x, n) = Pts(x) + Delay(n) /\ DtsAt(x + 1, n) = Pts(1)
    <3>1. (x + 1) - g + 2 = 1
      BY <1>1, <1>5
    <3> QED
      BY <1>1, <1>5, <3>1 DEF DtsAt
  <2>2. x <= m
    BY <1>1, <1>2, <1>5
  <2>3. Pts(x) \in Nat /\ Pts(x) <= Pts(m) /\ Pts(1) \in Nat /\ Pts(0) < Pts(1)
    BY <1>2, <2>2, PtsGrow
  <2> QED
    BY <1>3, <2>1, <2>3
<1>6. CASE x + 1 > g - 1
  <2>1. PICK y \in Nat : y = x - g + 2 /\ y + 1 = (x + 1) - g + 2
    BY <1>1, <1>6
  <2>2. DtsAt(x, n) = Pts(y) /\ DtsAt(x + 1, n) = Pts(y + 1)
    BY <1>1, <1>6, <2>1 DEF DtsAt
  <2>3. Pts(y) < Pts(y + 1)
    BY PtsGrow
  <2> QED
    BY <2>2, <2>3
<1> QED
  BY <1>1, <1>4, <1>5, <1>6

LEMMA DtsInTime ==
  ASSUME cfg \in Configs, ~Direct, gapAt \in Nat, NEW n \in Nat, NEW x \in Nat, x < n,
         NEW p \in Nat, x + 2 <= p + cfg.gopLen
  PROVE  DtsAt(x, n) <= Pts(p)
<1>1. PICK g \in Nat : /\ g = cfg.gopLen /\ g >= 2 /\ Enough \in Nat
                       /\ Enough >= g /\ Enough <= g + 1
  BY Long
<1>2. PICK m \in Nat : m = (IF n < Enough THEN n ELSE Enough) - 1
  BY <1>1
<1>3. Delay(n) = Pts(0) - Pts(m) /\ Pts(0) \in Nat /\ Pts(m) \in Nat
  BY <1>2, PtsGrow DEF Delay
<1>4. CASE x < g - 1
  <2>1. DtsAt(x, n) = Pts(x) + Delay(n)
    BY <1>1, <1>4 DEF DtsAt
  <2>2. x <= m
    BY <1>1, <1>2, <1>4
  <2>3. Pts(x) \in Nat /\ Pts(x) <= Pts(m) /\ Pts(p) \in Nat /\ Pts(0) <= Pts(p)
    BY <1>2, <2>2, PtsGrow
  <2> QED
    BY <1>3, <2>1, <2>3
<1>5. CASE x >= g - 1
  <2>1. PICK y \in Nat : y = x - g + 2 /\ y <= p
    BY <1>1, <1>5
  <2>2. DtsAt(x, n) = Pts(y)
    BY <1>1, <1>5, <2>1 DEF DtsAt
  <2> QED
    BY <2>1, <2>2, PtsGrow
<1> QED
  BY <1>1, <1>4, <1>5

LEMMA SlotIs ==
  ASSUME cfg \in Configs, ~Direct
  PROVE  /\ \A i \in Nat : Slot(i) = i % BufSize
         /\ Slot(0 - 1) = BufSize - 1
<1>1. PICK b \in Nat : b = BufSize /\ b > 0
  BY Long
<1>2. ASSUME NEW i \in Nat PROVE Slot(i) = i % b
  <2>1. (b * 1 + i) % b = i % b
    BY <1>1, ModOfSum
  <2>2. b * 1 + i = i + b
    BY <1>1
  <2> QED
    BY <1>1, <2>1, <2>2 DEF Slot
<1>3. Slot(0 - 1) = b - 1
  <2>1. b - 1 \in Nat /\ b - 1 = b * 0 + (b - 1) /\ b - 1 \in 0..(b - 1)
    BY <1>1
  <2>2. (b - 1) % b = b - 1
    BY <1>1, <2>1, DivisionUnique
  <2>3. (0 - 1) + b = b - 1
    BY <1>1
  <2> QED
    BY <1>1, <2>2, <2>3 DEF Slot
<1> QED
  BY <1>1, <1>2, <1>3

LEMMA DtsOfIs ==
  ASSUME NEW n, Ready(n), NEW pts, Times(pts, n), n <= numOut + Enough, gapAt \in Nat
  PROVE  DtsOf(pts, Delay(n)) = DtsAt(numOut, n)
<1>1. PICK g \in Nat : /\ g = cfg.gopLen /\ g >= 2 /\ Enough \in Nat
                       /\ Enough >= g /\ Enough <= g + 1 /\ BufSize = 3 * g
  BY Long DEF Ready
<1>2. n \in Nat /\ numOut \in Nat /\ numOut < n /\ cfg \in Configs /\ ~Direct
  BY DEF Ready
<1>3. \A p \in 0..(n - 1) : n <= p + 3 * g => pts[Slot(p - 1)] = Pts(p)
  BY <1>1 DEF Times
<1>4. CASE numOut = 0
  <2>1. pts[BufSize - 1] = Pts(0)
    <3>1. pts[Slot(0 - 1)] = Pts(0)
      BY <1>1, <1>2, <1>3, <1>4
    <3> QED
      BY <1>2, <3>1, SlotIs
  <2>2. DtsOf(pts, Delay(n)) = pts[BufSize - 1] + Delay(n)
    BY <1>4 DEF DtsOf
  <2>3. DtsAt(numOut, n) = Pts(0) + Delay(n)
    BY <1>1, <1>4 DEF DtsAt
  <2> QED
    BY <2>1, <2>2, <2>3
<1>5. CASE numOut # 0 /\ numOut < g - 1
  <2>1. PICK i \in Nat : i = numOut - 1
    BY <1>2, <1>5
  <2>2. pts[i % BufSize] = Pts(numOut)
    <3>1. pts[Slot(numOut - 1)] = Pts(numOut)
      BY <1>1, <1>2, <1>3, <1>5
    <3> QED
      BY <1>2, <2>1, <3>1, SlotIs
  <2>3. DtsOf(pts, Delay(n)) = pts[i % BufSize] + Delay(n)
    BY <1>1, <1>5, <2>1 DEF DtsOf
  <2>4. DtsAt(numOut, n) = Pts(numOut) + Delay(n)
    BY <1>1, <1>5 DEF DtsAt
  <2> QED
    BY <2>2, <2>3, <2>4
<1>6. CASE numOut # 0 /\ ~(numOut < g - 1)
  <2>1. PICK i \in Nat : i = numOut - (g - 1) /\ i + 1 = numOut - g + 2
    BY <1>1, <1>2, <1>6
  <2>2. pts[i % BufSize] = Pts(i + 1)
    <3>1. i + 1 \in 0..(n - 1) /\ n <= (i + 1) + 3 * g /\ (i + 1) - 1 = i
      BY <1>1, <1>2, <1>6, <2>1
    <3>2. pts[Slot(i)] = Pts(i + 1)
      BY <1>3, <3>1
    <3> QED
      BY <1>2, <2>1, <3>2, SlotIs
  <2>3. DtsOf(pts, Delay(n)) = pts[i % BufSize]
    BY <1>1, <1>6, <2>1 DEF DtsOf
  <2>4. DtsAt(numOut, n) = Pts(i + 1)
    BY <1>1, <1>6, <2>1 DEF DtsAt
  <2> QED
    BY <2>2, <2>3, <2>4
<1> QED
  BY <1>4, <1>5, <1>6

LEMMA OutputDts ==
  ASSUME NEW n, Ready(n), NEW p, Returned(n, p), NEW pics, NEW pts, Times(pts, n),
         NEW d, d = Delay(n), Output(pics, pts, n, d), n <= numOut + Enough, gapAt \in Nat
  PROVE  /\ lastDts' = DtsAt(numOut, n) /\ ptsBuffer' = pts /\ delay' = Delay(n)
         /\ lastDts' <= Pts(out'.pic)
<1>1. /\ numOut' = numOut + 1 /\ out'.pic = p /\ p \in Left(n)
      /\ PocOffset(cfg.gopLen - 1) > 1 => numOut + 2 <= p + cfg.gopLen
  BY DEF Returned
<1>2. n \in Nat /\ numOut \in Nat /\ numOut < n /\ cfg \in Configs /\ ~Direct
  BY DEF Ready
<1>3. lastDts' = DtsOf(pts, d)
  <2>1. numOut' # numOut
    BY <1>1, <1>2
  <2> QED
    BY <2>1 DEF Output, Take, Return, ReturnNull
<1>4. p \in Nat /\ numOut + 2 <= p + cfg.gopLen
  BY <1>1, <1>2, Long DEF Left
<1>5. lastDts' = DtsAt(numOut, n)
  BY <1>3, DtsOfIs
<1>6. DtsAt(numOut, n) <= Pts(p)
  BY <1>2, <1>4, DtsInTime
<1>7. ptsBuffer' = pts /\ delay' = d
  BY DEF Output
<1> QED
  BY <1>1, <1>5, <1>6, <1>7

(* The invariant in the next state, in terms of this one.                  *)
LEMMA DtsInvNext ==
  ASSUME cfg' = cfg, gapAt' = gapAt, gapAt \in Nat,
         Direct /\ Started' => lastDts' = Pts(numOut' - 1),
         ~Direct => /\ Times(ptsBuffer', numIn')
                    /\ numIn' >= Enough => delay' = Delay(numIn')
                    /\ Started' => lastDts' = DtsAt(numOut' - 1, numIn')
  PROVE  DtsInv'
<1>1. /\ Direct' = Direct /\ BufSize' = BufSize /\ Enough' = Enough
      /\ \A p : Pts(p)' = Pts(p)
      /\ \A i : Slot(i)' = Slot(i)
  BY DEF Direct, BufSize, Enough, IsClosed, Pts, Slot
<1>2. /\ \A m : Delay(m)' = Delay(m)
      /\ \A x, m : DtsAt(x, m)' = DtsAt(x, m)
  BY <1>1 DEF Delay, DtsAt
<1> QED
  BY <1>1, <1>2 DEF DtsInv, Times, Delay, DtsAt

LEMMA TimeStored ==
  ASSUME cfg \in Configs, ~Direct, gapAt \in Nat, numIn \in Nat, Times(ptsBuffer, numIn)
  PROVE  Times([ptsBuffer EXCEPT ![Slot(numIn - 1)] = Pts(numIn)], numIn + 1)
<1> DEFINE s == Slot(numIn - 1)
           pts == [ptsBuffer EXCEPT ![s] = Pts(numIn)]
<1>1. s \in 0..(BufSize - 1) /\ Pts(numIn) \in Nat /\ BufSize \in Nat
  BY SlotOf, PtsGrow, Long
<1>2. /\ ptsBuffer \in [0..(BufSize - 1) -> Nat]
      /\ \A p \in 0..(numIn - 1) : numIn <= p + BufSize => ptsBuffer[Slot(p - 1)] = Pts(p)
  BY DEF Times
<1> HIDE DEF s
<1>3. /\ pts \in [0..(BufSize - 1) -> Nat] /\ pts[s] = Pts(numIn)
      /\ \A t \in 0..(BufSize - 1) : t # s => pts[t] = ptsBuffer[t]
  BY <1>1, <1>2
<1> HIDE DEF pts
<1>4. ASSUME NEW p \in 0..numIn, numIn + 1 <= p + BufSize
      PROVE  pts[Slot(p - 1)] = Pts(p)
  <2>1. CASE p = numIn
    BY <1>3, <2>1 DEF s
  <2>2. CASE p # numIn
    <3>1. p \in Nat /\ p \in 0..(numIn - 1) /\ numIn <= p + BufSize
      BY <1>1, <1>4, <2>2
    <3>2. Slot(p - 1) # s
      <4>1. p # numIn /\ p - numIn < BufSize /\ numIn - p < BufSize
        BY <1>1, <1>4, <2>2
      <4> QED
        BY <3>1, <4>1, SlotsDiffer DEF s
    <3>3. Slot(p - 1) \in 0..(BufSize - 1)
      BY <3>1, SlotOf
    <3> QED
      BY <1>2, <1>3, <3>1, <3>2, <3>3
  <2> QED
    BY <2>1, <2>2
<1>5. (numIn + 1) - 1 = numIn
  OBVIOUS
<1>6. Times(pts, numIn + 1)
  BY <1>3, <1>4, <1>5 DEF Times
<1> QED
  BY <1>6 DEF pts, s

InTime == numOut' > numOut => /\ numOut > 0 => lastDts' > lastDts
                              /\ lastDts' <= Pts(out'.pic)

LEMMA DirectDts ==
  ASSUME BufferInv, DtsInv, FeedDirect, cfg' = cfg, gapAt' = gapAt
  PROVE  DtsInv' /\ InTime
<1>1. /\ Direct /\ numOut' = numOut + 1 /\ lastDts' = Pts(numIn) /\ out'.pic = numIn
  BY DEF FeedDirect, Return
<1>2. numIn \in Nat /\ numOut = numIn /\ gapAt \in Nat
  BY <1>1 DEF BufferInv, Kinds, DirectInv, DtsInv
<1>3. DtsInv'
  <2>1. lastDts' = Pts(numOut' - 1)
    BY <1>1, <1>2
  <2> QED
    BY <1>1, <1>2, <2>1, DtsInvNext
<1>4. numOut > 0 => lastDts' > lastDts
  <2> SUFFICES ASSUME numOut > 0 PROVE lastDts' > lastDts
    OBVIOUS
  <2>1. lastDts = Pts(numOut - 1)
    BY <1>1 DEF DtsInv, Started
  <2>2. numOut - 1 \in Nat /\ numOut - 1 < numIn
    BY <1>2
  <2>3. Pts(numOut - 1) < Pts(numIn) /\ Pts(numOut - 1) \in Nat /\ Pts(numIn) \in Nat
    BY <1>2, <2>2, PtsGrow
  <2> QED
    BY <1>1, <2>1, <2>3
<1>5. lastDts' <= Pts(out'.pic)
  BY <1>1, <1>2, PtsGrow
<1> QED
  BY <1>3, <1>4, <1>5 DEF InTime

(* What is common to a picture that comes and the end of the sequence.     *)
LEMMA OutputInTime ==
  ASSUME DtsInv, cfg' = cfg, gapAt' = gapAt,
         NEW n, Ready(n), NEW p, Returned(n, p), NEW pics, NEW pts, Times(pts, n),
         NEW d, d = Delay(n), Output(pics, pts, n, d), n <= numOut + Enough,
         Started => DtsAt(numOut - 1, numIn) = DtsAt(numOut - 1, n)
  PROVE  DtsInv' /\ InTime
<1>1. n \in Nat /\ numOut \in Nat /\ numOut < n /\ cfg \in Configs /\ ~Direct
  BY DEF Ready
<1>2. gapAt \in Nat
  BY DEF DtsInv
<1>3. /\ lastDts' = DtsAt(numOut, n) /\ ptsBuffer' = pts /\ delay' = Delay(n)
      /\ lastDts' <= Pts(out'.pic)
  BY <1>2, OutputDts
<1>4. numOut' = numOut + 1 /\ numIn' = n
  BY DEF Returned
<1>5. numOut' - 1 = numOut
  BY <1>1, <1>4
<1>6. DtsInv'
  BY <1>1, <1>2, <1>3, <1>4, <1>5, DtsInvNext
<1>7. numOut > 0 => lastDts' > lastDts
  <2> SUFFICES ASSUME numOut > 0 PROVE lastDts' > lastDts
    OBVIOUS
  <2>1. lastDts = DtsAt(numOut - 1, n)
    BY <1>1 DEF DtsInv, Started
  <2>2. PICK x \in Nat : x = numOut - 1 /\ x + 1 = numOut /\ x + 1 < n
    BY <1>1
  <2>3. DtsAt(x, n) < DtsAt(x + 1, n)
    BY <1>1, <1>2, <2>2, DtsGrows
  <2> QED
    BY <1>3, <2>1, <2>2, <2>3
<1> QED
  BY <1>3, <1>6, <1>7 DEF InTime

LEMMA BufferedDts ==
  ASSUME BufferInv, DtsInv, ~ended, FeedBuffered, cfg' = cfg, gapAt' = gapAt
  PROVE  DtsInv' /\ InTime
<1> DEFINE s == Slot(numIn - 1)
           n == numIn + 1
           pics == [picBuffer EXCEPT ![s] = numIn]
           pts == [ptsBuffer EXCEPT ![s] = Pts(numIn)]
           d == IF n = Enough THEN pts[BufSize - 1] - Pts(numIn) ELSE delay
<1>1. ~Direct
  BY DEF FeedBuffered
<1>2. /\ cfg \in Configs /\ assertsOk = TRUE /\ numIn \in Nat /\ numOut \in 0..numIn
      /\ returned \subseteq 0..(numIn - 1)
      /\ Stored(picBuffer, numIn) /\ numIn <= numOut + Enough - 1
      /\ numIn # numOut + Enough - 1 => ~Started
  BY <1>1 DEF BufferInv, Kinds, BufferedInv, Lagging
<1>3. picBuffer[s] = None /\ Stored(pics, n)
  BY <1>1, <1>2, Spanned, StoreNew
<1>4. /\ Enough \in Nat /\ Enough >= 2 /\ BufSize \in Nat /\ Enough <= BufSize
  BY <1>1, <1>2, Long
<1>5. /\ gapAt \in Nat /\ Times(ptsBuffer, numIn)
      /\ numIn >= Enough => delay = Delay(numIn)
  BY <1>1 DEF DtsInv
<1>6. Times(pts, n)
  BY <1>1, <1>2, <1>5, TimeStored
<1>7. CASE n < Enough
  <2>1. /\ ptsBuffer' = pts /\ numIn' = n /\ numOut' = numOut
    BY <1>3, <1>7 DEF FeedBuffered, ReturnNull
  <2>2. ~Started /\ numOut = 0
    BY <1>2, <1>4, <1>7 DEF Started
  <2>3. ~Started' /\ ~(numIn' >= Enough) /\ ~(numOut' > numOut)
    BY <1>2, <1>4, <1>7, <2>1, <2>2 DEF Started
  <2>4. DtsInv'
    BY <1>1, <1>5, <1>6, <2>1, <2>3, DtsInvNext
  <2> QED
    BY <2>3, <2>4 DEF InTime
<1>8. CASE ~(n < Enough)
  <2>1. Output(pics, pts, n, d)
    BY <1>3, <1>8 DEF FeedBuffered
  <2>2. Ready(n) /\ Begun(n) /\ n = numOut + Enough
    BY <1>1, <1>2, <1>4, <1>8, ArrivalOpens
  <2>3. d = Delay(n)
    <3>1. CASE n = Enough
      <4>1. pts[Slot(0 - 1)] = Pts(0)
        BY <1>2, <1>4, <1>6, <3>1 DEF Times
      <4>2. pts[BufSize - 1] = Pts(0)
        BY <1>1, <1>2, <4>1, SlotIs
      <4>3. Delay(n) = Pts(0) - Pts(numIn)
        <5>1. Enough - 1 = numIn
          BY <1>2, <3>1
        <5> QED
          BY <3>1, <5>1 DEF Delay
      <4> HIDE DEF pts, n
      <4> QED
        BY <3>1, <4>2, <4>3
    <3>2. CASE n # Enough
      <4>1. numIn >= Enough /\ ~(numIn < Enough)
        BY <1>2, <1>4, <1>8, <3>2
      <4>2. Delay(n) = Delay(numIn)
        BY <1>8, <4>1 DEF Delay
      <4> HIDE DEF pts, n
      <4> QED
        BY <1>5, <3>2, <4>1, <4>2
    <3> QED
      BY <3>1, <3>2
  <2>4. Started => DtsAt(numOut - 1, numIn) = DtsAt(numOut - 1, n)
    <3> SUFFICES ASSUME Started PROVE DtsAt(numOut - 1, numIn) = DtsAt(numOut - 1, n)
      OBVIOUS
    <3>1. ~(numIn < Enough)
      BY <1>2, <1>4 DEF Started
    <3>2. Delay(n) = Delay(numIn)
      BY <1>8, <3>1 DEF Delay
    <3> HIDE DEF n
    <3> QED
      BY <3>2 DEF DtsAt
  <2> HIDE DEF n, pics, pts, d
  <2>5. PICK p \in Left(n) : Returned(n, p)
    BY <1>2, <1>3, <2>1, <2>2, OutputStep
  <2>6. n <= numOut + Enough
    BY <1>2, <1>4, <2>2
  <2> QED
    BY <1>6, <2>1, <2>2, <2>3, <2>4, <2>5, <2>6, OutputInTime
<1> QED
  BY <1>7, <1>8

LEMMA FlushDts ==
  ASSUME BufferInv, DtsInv, Flush
  PROVE  DtsInv' /\ InTime
<1>1. cfg' = cfg /\ gapAt' = gapAt
  BY DEF Flush
<1>2. /\ cfg \in Configs /\ assertsOk = TRUE /\ numIn \in Nat /\ numOut \in 0..numIn
      /\ gopSkipped \in Nat /\ returned \subseteq 0..(numIn - 1)
      /\ IsFiniteSet(returned) /\ Cardinality(returned) = numOut
      /\ gapAt \in Nat
  BY DEF BufferInv, Kinds, DtsInv
<1>3. CASE Direct \/ AllReturned
  <2>1. /\ ptsBuffer' = ptsBuffer /\ numIn' = numIn /\ numOut' = numOut
        /\ delay' = delay /\ lastDts' = lastDts /\ Started' = Started
    BY <1>3 DEF Flush, ReturnNull, bufVars, Started
  <2>2. DtsInv'
    BY <1>1, <1>2, <2>1, DtsInvNext DEF DtsInv
  <2> QED
    BY <1>2, <2>1, <2>2 DEF InTime
<1>4. CASE ~(Direct \/ AllReturned)
  <2>1. Output(picBuffer, ptsBuffer, numIn, ShortDelay)
    BY <1>4 DEF Flush
  <2>2. Ready(numIn)
    BY <1>2, <1>4 DEF Ready, AllReturned
  <2>3. Stored(picBuffer, numIn) /\ Begun(numIn) /\ numIn <= numOut + Enough - 1
    BY <1>4 DEF BufferInv, BufferedInv, Begun, Lagging
  <2>4. PICK p \in Left(numIn) : Returned(numIn, p)
    BY <1>1, <1>2, <2>1, <2>2, <2>3, OutputStep
  <2>5. Times(ptsBuffer, numIn) /\ (numIn >= Enough => delay = Delay(numIn))
    BY <1>4 DEF DtsInv
  <2>6. Enough \in Nat /\ BufSize \in Nat /\ Enough <= BufSize
    BY <1>2, <1>4, Long
  <2>7. ShortDelay = Delay(numIn)
    <3>1. CASE numIn < Enough
      <4>1. PICK i \in Nat : i = numIn - 1 /\ i - 1 = numIn - 2
        BY <1>2, <2>2 DEF Ready
      <4>2. ptsBuffer[Slot(0 - 1)] = Pts(0) /\ ptsBuffer[Slot(i - 1)] = Pts(i)
        BY <1>2, <2>5, <2>6, <3>1, <4>1 DEF Times
      <4>3. ptsBuffer[BufSize - 1] = Pts(0)
        BY <1>2, <1>4, <4>2, SlotIs
      <4>4. ShortDelay = ptsBuffer[BufSize - 1] - ptsBuffer[Slot(i - 1)]
        BY <3>1, <4>1 DEF ShortDelay
      <4>5. Delay(numIn) = Pts(0) - Pts(i)
        BY <3>1, <4>1 DEF Delay
      <4> QED
        BY <4>2, <4>3, <4>4, <4>5
    <3>2. CASE ~(numIn < Enough)
      BY <1>2, <2>5, <2>6, <3>2 DEF ShortDelay
    <3> QED
      BY <3>1, <3>2
  <2>8. numIn <= numOut + Enough
    BY <1>2, <2>3, <2>6
  <2> QED
    BY <1>1, <2>1, <2>2, <2>4, <2>5, <2>7, <2>8, OutputInTime
<1> QED
  BY <1>3, <1>4

LEMMA TimesInit == Init => BufferInv /\ DtsInv
<1> SUFFICES ASSUME Init PROVE BufferInv /\ DtsInv
  OBVIOUS
<1>1. /\ numIn = 0 /\ numOut = 0 /\ cfg \in Configs /\ gapAt \in Nat
      /\ ptsBuffer = [t \in 0..(BufSize - 1) |-> 0]
  BY BoundsNat DEF Init
<1>2. ~Direct => Enough \in Nat /\ Enough >= 2
  BY <1>1, Long
<1>3. Times(ptsBuffer, numIn)
  BY <1>1 DEF Times
<1> QED
  BY <1>1, <1>2, <1>3, InitOk DEF DtsInv, Started

LEMMA TimesStep == BufferInv /\ DtsInv /\ [Next]_vars => BufferInv' /\ DtsInv'
<1> SUFFICES ASSUME BufferInv, DtsInv, [Next]_vars PROVE DtsInv'
  BY StepKeeps
<1>1. CASE Next
  BY <1>1, DirectDts, BufferedDts, FlushDts DEF Next, Feed
<1>2. CASE UNCHANGED vars
  <2>1. /\ cfg' = cfg /\ gapAt' = gapAt /\ ptsBuffer' = ptsBuffer /\ numIn' = numIn
        /\ numOut' = numOut /\ delay' = delay /\ lastDts' = lastDts
    BY <1>2 DEF vars, bufVars
  <2>2. Started' = Started
    BY <2>1 DEF Started
  <2> QED
    BY <2>1, <2>2, DtsInvNext DEF DtsInv
<1> QED
  BY <1>1, <1>2

(* Decoding times increase and no picture is shown before it is decoded,   *)
(* for groups of any length, however the presentation times jump, and for  *)
(* sequences that are shorter than a group.                                *)
THEOREM DecodingTimesCorrect == Spec => DecodingTimes
<1>1. BufferInv /\ DtsInv /\ [Next]_vars
        => [numOut' > numOut => /\ numOut > 0 => lastDts' > lastDts
                                /\ lastDts' <= Pts(out'.pic)]_vars
  BY DirectDts, BufferedDts, FlushDts DEF Next, Feed, InTime
<1> QED
  BY <1>1, TimesInit, TimesStep, PTL DEF Spec, DecodingTimes
=============================================================================
