-------------------------- MODULE PictureOrderProofs --------------------------
(***************************************************************************)
(* The order of the pictures and their references, for groups of pictures  *)
(* of every kind, every intra period that is a whole number of groups if   *)
(* they are coded out of order (PeriodsFit), and sequences of every        *)
(* length: what a decoder shows, where it can start, and that it means the *)
(* same pictures as the encoder.                                           *)
(***************************************************************************)
EXTENDS PictureOrder, InputFrameBufferProofs, FunctionTheorems

-----------------------------------------------------------------------------
(* The entries of a list at some of its places.                            *)

Upto(I, m) == {j \in I : j <= m}

LEMMA UptoFinite ==
  ASSUME NEW len \in Nat, NEW I \in SUBSET (1..len), NEW m \in Int
  PROVE  IsFiniteSet(Upto(I, m)) /\ Cardinality(Upto(I, m)) \in Nat
<1>0. IsFiniteSet(1..len)
  BY FS_Interval
<1>1. Upto(I, m) \subseteq 1..len
  BY DEF Upto
<1> QED
  BY <1>0, <1>1, FS_Subset, FS_CardinalityType

(* For each number up to that of the places there is the place that is so  *)
(* many-th.                                                                *)
LEMMA PlaceExists ==
  ASSUME NEW len \in Nat, NEW I \in SUBSET (1..len), NEW n \in 1..Cardinality(I)
  PROVE  \E i \in I : Cardinality(Upto(I, i)) = n
<1> DEFINE T == {m \in Nat : n <= Cardinality(Upto(I, m))}
<1>0. \A j \in I : j \in Nat /\ j >= 1 /\ j <= len
  OBVIOUS
<1>1. Upto(I, len) = I /\ Upto(I, 0) = {}
  <2>1. \A j \in I : j <= len /\ ~(j <= 0)
    BY <1>0
  <2>2. Upto(I, len) = I
    BY <2>1 DEF Upto
  <2>3. Upto(I, 0) = {}
    BY <2>1 DEF Upto
  <2> QED
    BY <2>2, <2>3
<1>2. Cardinality(I) \in Nat /\ n \in Nat /\ n >= 1 /\ n <= Cardinality(I)
  <2>1. Cardinality(I) \in Nat
    <3>0. len \in Int
      OBVIOUS
    <3>1. Cardinality(Upto(I, len)) \in Nat
      BY <3>0, UptoFinite
    <3> QED
      BY <1>1, <3>1, Zenon
  <2> QED
    BY <2>1
<1>3. len \in T
  BY <1>1, <1>2
<1>4. PICK m \in T : \A j \in T : m <= j
  BY <1>3, LeastExists
<1>5. m \in Nat /\ m > 0 /\ n <= Cardinality(Upto(I, m))
  BY <1>1, <1>2, <1>4, FS_EmptySet
<1>6. m - 1 \in Nat /\ ~(n <= Cardinality(Upto(I, m - 1)))
  BY <1>4, <1>5
<1>7. Cardinality(Upto(I, m - 1)) \in Nat /\ IsFiniteSet(Upto(I, m - 1))
  <2>1. m - 1 \in Int
    BY <1>5
  <2> QED
    BY <2>1, UptoFinite
<1>8. m \in I
  <2>0. SUFFICES ASSUME m \notin I PROVE FALSE
    OBVIOUS
  <2>1. Upto(I, m) = Upto(I, m - 1)
    <3>1. \A j \in I : j <= m <=> j <= m - 1
      BY <1>0, <1>5, <2>0
    <3> QED
      BY <3>1, Zenon DEF Upto
  <2> QED
    BY <1>5, <1>6, <2>1
<1>9. Upto(I, m) = Upto(I, m - 1) \cup {m} /\ m \notin Upto(I, m - 1)
  <2>1. /\ \A j \in I : j <= m <=> (j <= m - 1 \/ j = m)
        /\ ~(m <= m - 1)
    BY <1>0, <1>5
  <2>2. \A j : j \in Upto(I, m) <=> (j \in Upto(I, m - 1) \/ j = m)
    BY <1>8, <2>1, Zenon DEF Upto
  <2>3. m \notin Upto(I, m - 1)
    BY <2>1, Zenon DEF Upto
  <2> QED
    BY <2>2, <2>3, Zenon
<1>10. Cardinality(Upto(I, m)) = Cardinality(Upto(I, m - 1)) + 1
  BY <1>7, <1>9, FS_AddElement
<1> QED
  BY <1>2, <1>5, <1>6, <1>7, <1>8, <1>10

LEMMA PlaceIs ==
  ASSUME NEW len \in Nat, NEW I \in SUBSET (1..len), NEW n \in 1..Cardinality(I)
  PROVE  Place(I, n) \in I /\ Cardinality(Upto(I, Place(I, n))) = n
<1>1. \E i \in I : Cardinality(Upto(I, i)) = n
  BY PlaceExists
<1> QED
  BY <1>1, Zenon DEF Place, Upto

(* What is selected from a list: entries of it, each once.                 *)
LEMMA EntriesSelected ==
  ASSUME NEW S, NEW list \in Seq(S), NEW I \in SUBSET (DOMAIN list)
  PROVE  /\ EntriesAt(list, I) \in Seq(S)
         /\ Len(EntriesAt(list, I)) = Cardinality(I) /\ Cardinality(I) \in Nat
         /\ DOMAIN EntriesAt(list, I) = 1..Cardinality(I)
         /\ \A n \in 1..Cardinality(I) : /\ Place(I, n) \in I
                                         /\ EntriesAt(list, I)[n] = list[Place(I, n)]
         /\ \A m, n \in 1..Cardinality(I) : Place(I, m) = Place(I, n) => m = n
<1>1. DOMAIN list = 1..Len(list) /\ Len(list) \in Nat
  OBVIOUS
<1>2. Cardinality(I) \in Nat
  <2>1. IsFiniteSet(1..Len(list))
    BY <1>1, FS_Interval
  <2> QED
    BY <1>1, <2>1, FS_Subset, FS_CardinalityType
<1>3. \A n \in 1..Cardinality(I) : /\ Place(I, n) \in I
                                   /\ Cardinality(Upto(I, Place(I, n))) = n
  BY <1>1, PlaceIs
<1>4. \A n \in 1..Cardinality(I) : list[Place(I, n)] \in S
  BY <1>3
<1>5. EntriesAt(list, I) \in [1..Cardinality(I) -> S]
  BY <1>4 DEF EntriesAt
<1>6. EntriesAt(list, I) \in Seq(S) /\ Len(EntriesAt(list, I)) = Cardinality(I)
  BY <1>2, <1>5
<1>7. \A n \in 1..Cardinality(I) : EntriesAt(list, I)[n] = list[Place(I, n)]
  BY DEF EntriesAt
<1>8. \A m, n \in 1..Cardinality(I) : Place(I, m) = Place(I, n) => m = n
  BY <1>3, Zenon
<1> QED
  BY <1>2, <1>3, <1>5, <1>6, <1>7, <1>8

(* The first entries of a list, if the places are those up to some place.  *)
LEMMA FirstPlaces ==
  ASSUME NEW len \in Nat, NEW n \in 1..len
  PROVE  Cardinality(1..len) = len /\ Place(1..len, n) = n
<1>1. Cardinality(1..len) = len
  BY FS_Interval
<1>2. \A i \in 1..len : Upto(1..len, i) = 1..i
  BY DEF Upto
<1>3. \A i \in 1..len : Cardinality(1..i) = i
  BY FS_Interval
<1>4. /\ Place(1..len, n) \in 1..len
      /\ Cardinality(Upto(1..len, Place(1..len, n))) = n
  BY <1>1, PlaceIs
<1> QED
  BY <1>1, <1>2, <1>3, <1>4

(* A list without repetition has as many elements as entries.              *)
LEMMA DistinctCount ==
  ASSUME NEW S, NEW list \in Seq(S),
         \A i, j \in DOMAIN list : list[i] = list[j] => i = j
  PROVE  Cardinality(Elements(list)) = Len(list) /\ IsFiniteSet(Elements(list))
<1>1. DOMAIN list = 1..Len(list) /\ Len(list) \in Nat
  OBVIOUS
<1>2. IsFiniteSet(1..Len(list)) /\ Cardinality(1..Len(list)) = Len(list)
  BY <1>1, FS_Interval
<1>3. list \in Bijection(1..Len(list), Elements(list))
  <2>1. list \in [1..Len(list) -> Elements(list)]
    BY <1>1 DEF Elements
  <2>2. \A e \in Elements(list) : \E i \in 1..Len(list) : list[i] = e
    BY <1>1 DEF Elements
  <2> QED
    BY <1>1, <2>1, <2>2, Fun_IsBij
<1> QED
  BY <1>2, <1>3, FS_Bijection DEF ExistsBijection

-----------------------------------------------------------------------------
(* What comes out of the input buffer.                                     *)

(* A picture has come out, and where it stands in its group.               *)
Shown(pic, dts, k) == [pic |-> pic, dts |-> dts, offset |-> k]

Comes ==
  /\ \E k \in Nat : out' = Shown(out'.pic, lastDts', k)
  /\ out'.pic \in Nat /\ out'.pic \notin returned
  /\ returned' = returned \cup {out'.pic} /\ numOut' = numOut + 1
  /\ Direct \/ ~Started => out'.pic = numOut
  /\ ~Direct /\ Started =>
       /\ GopStart >= 0 /\ returned \subseteq 0..(GopStart + cfg.gopLen)
       /\ IrapDue => out'.pic = GopStart + 1
       /\ ~IrapDue => /\ out'.offset \in 0..(cfg.gopLen - 1)
                      /\ out'.pic = PicAt(out'.offset)

Nothing == out' = None /\ numOut' = numOut /\ returned' = returned

LEMMA TakeShows ==
  ASSUME NEW pics, NEW idx, NEW dts, NEW k, Take(pics, idx, dts, k)
  PROVE  out' = Shown(out'.pic, lastDts', k) /\ out'.offset = k
BY DEF Take, Return, Shown

LEMMA GroupsWithin ==
  ASSUME NEW n, Ready(n), Started, Groups(n)
  PROVE  GopStart >= 0 /\ returned \subseteq 0..(GopStart + cfg.gopLen)
<1>1. PICK g \in Nat : g = cfg.gopLen /\ g > 0
  BY Shape DEF Ready
<1>2. /\ GopStart \in Int /\ numOut = GopStart + GopOffset + 1
      /\ GopOffset \in 0..(g - 1)
      /\ \A k \in 0..(g - 1) : PicAt(k) \in (GopStart + 1)..(GopStart + g)
  BY <1>1, Position
<1>3. /\ GopStart >= 0 /\ returned \subseteq Nat
      /\ returned = (0..GopStart) \cup {PicAt(k) : k \in Passed(n)}
  BY DEF Groups, Ready
<1>4. gopSkipped \in Nat
  BY DEF Ready
<1> HIDE DEF GopStart, GopOffset
<1>5. ASSUME NEW q \in returned PROVE q <= GopStart + g
  <2>1. CASE q \in 0..GopStart
    BY <1>1, <1>2, <2>1
  <2>2. ASSUME NEW k \in Passed(n), q = PicAt(k) PROVE q <= GopStart + g
    <3>1. k \in Nat
      BY <1>2, <1>4, <2>2 DEF Passed
    <3>2. CASE k < g
      BY <1>1, <1>2, <2>2, <3>1, <3>2
    <3>3. CASE ~(k < g)
      <4>1. PocOffset(k) = 0
        BY <1>1, <3>3 DEF PocOffset
      <4> QED
        BY <1>1, <1>2, <2>2, <4>1 DEF PicAt
    <3> QED
      BY <3>2, <3>3
  <2> QED
    BY <1>3, <2>1, <2>2
<1> QED
  BY <1>1, <1>2, <1>3, <1>5

LEMMA OutputShows ==
  ASSUME NEW n, Ready(n), NEW pics, Stored(pics, n), assertsOk = TRUE, Begun(n),
         NEW pts, NEW d, Output(pics, pts, n, d), cfg' = cfg
  PROVE  Comes
<1>1. n \in Nat /\ ~Direct /\ numOut \in Nat /\ gopSkipped \in Nat
  BY DEF Ready
<1>2. ASSUME NEW p, Returned(n, p)
      PROVE  /\ out'.pic = p /\ p \in Nat /\ p \notin returned
             /\ returned' = returned \cup {p} /\ numOut' = numOut + 1
  BY <1>1, <1>2 DEF Returned, Left
<1>3. CASE ~Started
  <2>1. numOut = 0
    BY <1>1, <1>3 DEF Started
  <2>2. Returned(n, 0)
    BY <1>3, OutputFirst DEF Begun
  <2>3. Take(pics, -1, DtsOf(pts, d), 0)
    BY <1>1, <2>1 DEF Output
  <2>4. 0 \in Nat /\ out' = Shown(out'.pic, lastDts', 0)
    BY <2>3, TakeShows
  <2> QED
    BY <1>1, <1>2, <1>3, <2>1, <2>2, <2>4 DEF Comes
<1>4. CASE Started
  <2>1. Groups(n) /\ ~(numOut = 0)
    BY <1>4 DEF Begun, Started
  <2>2. GopStart >= 0 /\ returned \subseteq 0..(GopStart + cfg.gopLen)
    BY <1>4, <2>1, GroupsWithin
  <2>3. GopOffset \in Nat
    BY <1>4, Position
  <2>4. CASE IrapDue
    <3>1. Returned(n, GopStart + 1)
      BY <1>4, <2>1, <2>4, OutputIrap
    <3>2. Take(pics, GopStart, DtsOf(pts, d), GopOffset + gopSkipped)
      BY <2>1, <2>4 DEF Output
    <3>3. /\ GopOffset + gopSkipped \in Nat
          /\ out' = Shown(out'.pic, lastDts', GopOffset + gopSkipped)
      BY <1>1, <2>3, <3>2, TakeShows
    <3> HIDE DEF GopStart, GopOffset
    <3> QED
      BY <1>1, <1>2, <1>4, <2>2, <2>4, <3>1, <3>3 DEF Comes
  <2>5. CASE ~IrapDue
    <3>1. PICK k : k = FirstPresent(n)
      OBVIOUS
    <3>2. /\ k \in (GopOffset + gopSkipped)..(cfg.gopLen - 1) /\ Present(n) # {}
      BY <1>4, <2>1, <3>1, Found
    <3>3. Returned(n, PicAt(k))
      BY <1>4, <2>1, <2>5, <3>1, OutputFound
    <3>4. Take(pics, IdxAt(k), DtsOf(pts, d), k)
      BY <2>1, <2>5, <3>1, <3>2 DEF Output
    <3>5. out' = Shown(out'.pic, lastDts', k) /\ out'.offset = k
      BY <3>4, TakeShows
    <3> HIDE DEF GopOffset, GopStart
    <3>6. k \in 0..(cfg.gopLen - 1) /\ k \in Nat
      <4>1. cfg.gopLen \in Nat
        BY <1>1, Shape DEF Ready
      <4> QED
        BY <1>1, <2>3, <3>2, <4>1
    <3> QED
      BY <1>1, <1>2, <1>4, <2>2, <2>5, <3>3, <3>5, <3>6 DEF Comes
  <2> QED
    BY <2>4, <2>5
<1> QED
  BY <1>3, <1>4

LEMMA FeedShows ==
  ASSUME BufferInv, Feed
  PROVE  Nothing \/ Comes
<1>1. ~ended /\ cfg' = cfg /\ ended' = ended
  BY DEF Feed
<1>2. CASE FeedDirect
  <2>1. Direct /\ numOut = numIn /\ numIn \in Nat /\ returned \subseteq 0..(numIn - 1)
    BY <1>2 DEF FeedDirect, BufferInv, Kinds, DirectInv
  <2>2. DirectOffset \in Nat
    <3>1. cfg.gopLen \in Nat /\ cfg.intraPeriod \in Nat /\ numOut \in Nat
      BY <2>1, ConfigsShape DEF BufferInv, Kinds
    <3>2. CASE cfg.gopLen = 0
      BY <3>2 DEF DirectOffset
    <3>3. CASE cfg.gopLen > 0
      <4>1. PICK m \in Nat :
              m = IF cfg.intraPeriod > 0 THEN numOut % cfg.intraPeriod ELSE numOut
        BY <3>1
      <4>2. m + cfg.gopLen - 1 \in Nat
        BY <3>1, <3>3
      <4>3. (m + cfg.gopLen - 1) % cfg.gopLen \in Nat
        BY <3>1, <3>3, <4>2
      <4>4. DirectOffset = (m + cfg.gopLen - 1) % cfg.gopLen
        BY <3>3, <4>1 DEF DirectOffset
      <4> QED
        BY <4>3, <4>4
    <3> QED
      BY <3>1, <3>2, <3>3
  <2>3. /\ out' = Shown(numIn, Pts(numIn), DirectOffset) /\ lastDts' = Pts(numIn)
        /\ numOut' = numOut + 1 /\ returned' = returned \cup {numIn}
    BY <1>2 DEF FeedDirect, Return, Shown
  <2>4. out'.pic = numIn
    BY <2>3 DEF Shown
  <2>5. numIn \notin returned
    BY <2>1
  <2> QED
    BY <2>1, <2>2, <2>3, <2>4, <2>5 DEF Comes
<1>3. CASE FeedBuffered
  <2> DEFINE s == Slot(numIn - 1)
             n == numIn + 1
             pics == [picBuffer EXCEPT ![s] = numIn]
             pts == [ptsBuffer EXCEPT ![s] = Pts(numIn)]
             d == IF n = Enough THEN pts[BufSize - 1] - Pts(numIn) ELSE delay
  <2>1. ~Direct
    BY <1>3 DEF FeedBuffered
  <2>2. /\ cfg \in Configs /\ assertsOk = TRUE /\ numIn \in Nat
        /\ returned \subseteq 0..(numIn - 1) /\ Stored(picBuffer, numIn)
    BY <2>1 DEF BufferInv, Kinds, BufferedInv
  <2>3. picBuffer[s] = None /\ Stored(pics, n)
    BY <2>1, <2>2, Spanned, StoreNew
  <2>4. Enough \in Nat
    BY <2>1, <2>2, Shape
  <2>5. CASE n < Enough
    BY <1>3, <2>3, <2>5 DEF FeedBuffered, ReturnNull, Nothing
  <2>6. CASE ~(n < Enough)
    <3>1. Output(pics, pts, n, d)
      BY <1>3, <2>3, <2>6 DEF FeedBuffered
    <3>2. numIn + 1 >= Enough
      BY <2>2, <2>4, <2>6
    <3>3. Ready(n) /\ Begun(n)
      BY <1>1, <2>1, <3>2, ArrivalOpens
    <3> HIDE DEF n, pics, pts, d
    <3> QED
      BY <1>1, <2>2, <2>3, <3>1, <3>3, OutputShows
  <2> QED
    BY <2>5, <2>6
<1> QED
  BY <1>2, <1>3 DEF Feed

LEMMA FlushShows ==
  ASSUME BufferInv, Flush
  PROVE  Nothing \/ Comes
<1>1. cfg' = cfg
  BY DEF Flush
<1>2. /\ cfg \in Configs /\ assertsOk = TRUE /\ numIn \in Nat /\ numOut \in 0..numIn
      /\ gopSkipped \in Nat /\ returned \subseteq 0..(numIn - 1)
      /\ IsFiniteSet(returned) /\ Cardinality(returned) = numOut
  BY DEF BufferInv, Kinds
<1>3. CASE Direct \/ AllReturned
  BY <1>3 DEF Flush, ReturnNull, Nothing
<1>4. CASE ~(Direct \/ AllReturned)
  <2>1. Output(picBuffer, ptsBuffer, numIn, ShortDelay)
    BY <1>4 DEF Flush
  <2>2. Ready(numIn)
    BY <1>2, <1>4 DEF Ready, AllReturned
  <2>3. Stored(picBuffer, numIn) /\ Begun(numIn)
    BY <1>4 DEF BufferInv, BufferedInv, Begun
  <2> QED
    BY <1>1, <1>2, <2>1, <2>2, <2>3, OutputShows
<1> QED
  BY <1>3, <1>4

LEMMA LastDtsInt == BufferInv /\ DtsInv /\ Started => lastDts \in Int
<1> SUFFICES ASSUME BufferInv, DtsInv, Started PROVE lastDts \in Int
  OBVIOUS
<1>1. /\ cfg \in Configs /\ numOut \in Nat /\ numIn \in Nat /\ gapAt \in Nat
      /\ numOut > 0 /\ numOut <= numIn
  BY DEF BufferInv, Kinds, DtsInv, Started
<1>2. \A q \in Nat : Pts(q) \in Nat
  BY <1>1, PtsGrow
<1>3. PICK x \in Nat : x = numOut - 1
  BY <1>1
<1>4. CASE Direct
  BY <1>2, <1>3, <1>4 DEF DtsInv
<1>5. CASE ~Direct
  <2>1. PICK g \in Nat : g = cfg.gopLen /\ g >= 2 /\ Enough \in Nat /\ Enough >= g
    BY <1>1, <1>5, Long
  <2>2. PICK m \in Nat : m = (IF numIn < Enough THEN numIn ELSE Enough) - 1
    BY <1>1, <2>1
  <2>3. Delay(numIn) \in Int
    BY <1>2, <2>2 DEF Delay
  <2>4. DtsAt(x, numIn) \in Int
    <3>1. CASE x < g - 1
      BY <1>2, <1>3, <2>1, <2>3, <3>1 DEF DtsAt
    <3>2. CASE ~(x < g - 1)
      <4>1. PICK y \in Nat : y = x - g + 2
        BY <2>1, <3>2
      <4> QED
        BY <1>2, <1>3, <2>1, <3>2, <4>1 DEF DtsAt
    <3> QED
      BY <3>1, <3>2
  <2> QED
    BY <1>3, <1>5, <2>4 DEF DtsInv
<1> QED
  BY <1>4, <1>5

(* A call returns nothing or the picture that is due.                      *)
LEMMA CallShows ==
  ASSUME BufferInv, DtsInv, Feed \/ Flush
  PROVE  /\ BufferInv' /\ DtsInv' /\ cfg' = cfg
         /\ Nothing \/ (Comes /\ out' # None)
<1>1. BufferInv' /\ DtsInv' /\ cfg' = cfg
  BY StepKeeps, DirectDts, BufferedDts, FlushDts DEF Feed, Flush, Next
<1>2. Nothing \/ Comes
  BY FeedShows, FlushShows
<1>3. ASSUME Comes PROVE out' # None
  <2>1. Started'
    <3>1. numOut \in Nat
      BY DEF BufferInv, Kinds
    <3> QED
      BY <1>3, <3>1 DEF Comes, Started
  <2>2. (BufferInv /\ DtsInv /\ Started => lastDts \in Int)'
    BY LastDtsInt, PTL
  <2>3. lastDts' \in Int
    BY <1>1, <2>1, <2>2
  <2>4. PICK k \in Nat : out' = Shown(out'.pic, lastDts', k)
    BY <1>3 DEF Comes
  <2>5. out'.pic \in Nat
    BY <1>3 DEF Comes
  <2>6. Shown(out'.pic, lastDts', k) \in [pic : Nat, dts : Int, offset : Nat]
    BY <2>3, <2>5 DEF Shown
  <2> QED
    BY <2>4, <2>6, NoneNew
<1> QED
  BY <1>1, <1>2, <1>3

-----------------------------------------------------------------------------
(* The sequences that begin with an IDR picture.                           *)

LEMMA QuotientGrows ==
  ASSUME NEW k \in Nat, k > 0, NEW m \in Nat, NEW n \in Nat, m < n
  PROVE  m \div k <= n \div k /\ (n % k = 0 => m \div k < n \div k)
<1>1. PICK q \in Nat, r \in 0..(k - 1) : m = k * q + r /\ q = m \div k
  BY Divided
<1>2. PICK p \in Nat, t \in 0..(k - 1) : n = k * p + t /\ p = n \div k /\ t = n % k
  BY Divided
<1>3. PICK d \in Int : d = q - p /\ q = p + d
  BY <1>1, <1>2
<1>4. k * q = k * p + k * d
  BY <1>3
<1>5. PICK x \in Int, y \in Int : x = k * p /\ y = k * d /\ k * q = x + y
  BY <1>1, <1>2, <1>3, <1>4
<1>6. d >= 1 => y >= k
  BY <1>3, <1>5
<1>7. d >= 0 => y >= 0
  BY <1>3, <1>5
<1>8. m = x + y + r /\ n = x + t
  BY <1>1, <1>2, <1>5
<1>9. ~(d >= 1) /\ (t = 0 => ~(d >= 0))
  BY <1>6, <1>7, <1>8
<1> QED
  BY <1>1, <1>2, <1>3, <1>9

(* The whole groups that are begun before the next intra picture end by it.*)
LEMMA GroupFits ==
  ASSUME NEW g \in Nat, g > 0, NEW period \in Nat, period % g = 0,
         NEW x \in Nat, x < period
  PROVE  x - (x % g) + g <= period /\ x - (x % g) >= 0
<1>1. PICK a \in Nat, b \in 0..(g - 1) : x = g * a + b /\ b = x % g
  BY Divided
<1>2. PICK m \in Nat, t \in 0..(g - 1) : period = g * m + t /\ t = period % g
  BY Divided
<1>3. PICK d \in Int : d = m - a /\ m = a + d
  BY <1>1, <1>2
<1>4. g * m = g * a + g * d
  BY <1>3
<1>5. PICK y \in Int, z \in Int : y = g * a /\ z = g * d /\ g * m = y + z
  BY <1>1, <1>3, <1>4
<1>6. d <= 0 => z <= 0
  BY <1>3, <1>5
<1>7. d >= 1 => z >= g
  BY <1>3, <1>5
<1>8. x = y + b /\ period = y + z
  BY <1>1, <1>2, <1>5
<1>9. d >= 1
  BY <1>3, <1>6, <1>8
<1> QED
  BY <1>1, <1>5, <1>7, <1>8, <1>9

(* A multiple of the period is one of the length of the group.             *)
LEMMA MultipleOf ==
  ASSUME NEW g \in Nat, g > 0, NEW period \in Nat, period > 0, period % g = 0,
         NEW x \in Nat, x % period = 0
  PROVE  x % g = 0
<1>1. PICK a \in Nat, b \in 0..(period - 1) : x = period * a + b /\ b = x % period
  BY Divided
<1>2. PICK m \in Nat, t \in 0..(g - 1) : period = g * m + t /\ t = period % g
  BY Divided
<1>3. x = (g * m) * a
  BY <1>1, <1>2
<1>4. (g * m) * a = g * (m * a)
  BY <1>1, <1>2
<1>5. m * a \in Nat
  BY <1>1, <1>2
<1>6. PICK n \in Nat : n = m * a /\ x = g * n
  BY <1>3, <1>4, <1>5
<1>7. x = g * n + 0 /\ 0 \in 0..(g - 1) /\ n \in Int
  BY <1>6
<1> QED
  BY <1>7, DivisionUnique

(* Multiples of the period are a period apart.                             *)
LEMMA PeriodApart ==
  ASSUME NEW k \in Nat, k > 0, NEW x \in Nat, NEW y \in Nat,
         x % k = 0, y % k = 0, x < y
  PROVE  x + k <= y
<1>1. PICK a \in Nat, b \in 0..(k - 1) : x = k * a + b /\ b = x % k
  BY Divided
<1>2. PICK c \in Nat, d \in 0..(k - 1) : y = k * c + d /\ d = y % k
  BY Divided
<1>3. PICK e \in Int : e = c - a /\ c = a + e
  BY <1>1, <1>2
<1>4. k * c = k * a + k * e
  BY <1>3
<1>5. e <= 0 => k * e <= 0
  BY <1>3
<1>6. e >= 1 => k * e >= k
  BY <1>3
<1>7. PICK u \in Int, v \in Int : u = k * a /\ v = k * e /\ k * c = u + v
  BY <1>1, <1>3, <1>4
<1> QED
  BY <1>1, <1>2, <1>3, <1>5, <1>6, <1>7

(* How many pictures there are from one intra picture to the next: closed  *)
(* groups have one more, which the code does not count.                    *)
IntraPeriod == cfg.intraPeriod + (IF Closed THEN 1 ELSE 0)

(* Whether order counts begin again at 0, and how the pictures are         *)
(* numbered by the sequence they are in and their order count.             *)
HasCycle     == cfg.intraPeriod > 0 /\ (Closed \/ ~Pyramid)
CvsOf(n)     == IF HasCycle THEN n \div IntraPeriod ELSE 0
StartsCvs(n) == IF HasCycle THEN n % IntraPeriod = 0 ELSE n = 0
FirstOf(n)   == IF HasCycle THEN IntraPeriod * (n \div IntraPeriod) ELSE 0

LEMMA ConfigIs ==
  ASSUME cfg \in Configs
  PROVE  /\ cfg.gopLen \in Nat /\ cfg.intraPeriod \in Nat /\ IntraPeriod \in Nat
         /\ cfg.refFrames \in 1..15
         /\ HasCycle => IntraPeriod > 0
         /\ Pyramid <=> ~Direct
         /\ Pyramid => (IsClosed <=> Closed)
         /\ Closed => cfg.intraPeriod > 0 /\ ~cfg.openGop /\ IntraPeriod = cfg.intraPeriod + 1
         /\ ~Closed => IntraPeriod = cfg.intraPeriod
         /\ Pyramid => /\ cfg.gopLen \in 2..8 /\ cfg.intraPeriod % cfg.gopLen = 0
                       /\ cfg.intraPeriod # 1
<1>1. cfg.gopLen \in Nat /\ cfg.intraPeriod \in Nat
  BY ConfigsShape
<1>2. cfg.refFrames \in 1..15
  <2>1. cfg.refFrames \in 1..(MaxRefPicCount - 1)
    BY RefsFit, Zenon
  <2>2. MaxRefPicCount - 1 = 15
    BY DEF MaxRefPicCount
  <2> QED
    BY <2>1, <2>2
<1>3. Pyramid <=> ~Direct
  BY <1>1 DEF Pyramid, Direct
<1>4. ASSUME Pyramid
      PROVE  /\ cfg.gopLen \in 2..8 /\ cfg.intraPeriod % cfg.gopLen = 0
             /\ cfg.intraPeriod # 1
  <2>1. cfg.gopLen <= 8 /\ cfg.intraPeriod % cfg.gopLen = 0
    BY <1>4, PeriodsFit DEF Pyramid
  <2>2. cfg.gopLen >= 2
    BY <1>3, <1>4, Long
  <2>3. PICK g \in 2..8 : g = cfg.gopLen
    BY <1>1, <2>1, <2>2
  <2>4. 1 % g = 1
    <3>1. 1 = g * 0 + 1 /\ 1 \in 0..(g - 1) /\ g \in Nat /\ g > 0 /\ 0 \in Int
      BY <2>3
    <3> QED
      BY <3>1, DivisionUnique
  <2> QED
    BY <2>1, <2>3, <2>4
<1>5. Pyramid => (IsClosed <=> Closed)
  BY DEF IsClosed, Closed, Pyramid
<1>6. Closed => cfg.intraPeriod > 0 /\ ~cfg.openGop
  BY DEF Closed
<1>7. /\ IntraPeriod = IF Closed THEN cfg.intraPeriod + 1 ELSE cfg.intraPeriod
      /\ IntraPeriod \in Nat
  BY <1>1 DEF IntraPeriod
<1>8. HasCycle => IntraPeriod > 0
  BY <1>1, <1>7 DEF HasCycle
<1> QED
  BY <1>1, <1>2, <1>3, <1>4, <1>5, <1>6, <1>7, <1>8

LEMMA CvsNext ==
  ASSUME cfg \in Configs, NEW n \in Nat
  PROVE  /\ CvsOf(0) = 0 /\ CvsOf(n) \in Nat
         /\ CvsOf(n + 1) = IF StartsCvs(n + 1) THEN CvsOf(n) + 1 ELSE CvsOf(n)
<1>1. CASE ~HasCycle
  BY <1>1 DEF CvsOf, StartsCvs
<1>2. CASE HasCycle
  <2>1. PICK k \in Nat : k = IntraPeriod /\ k > 0
    BY <1>2, ConfigIs
  <2>2. PICK q \in Nat, r \in 0..(k - 1) : n = k * q + r /\ q = n \div k /\ r = n % k
    BY <2>1, Divided
  <2>3. (n + 1) % k = IF r + 1 = k THEN 0 ELSE r + 1
    BY <2>1, <2>2, ModNext
  <2>4. (n + 1) \div k = IF r + 1 = k THEN q + 1 ELSE q
    <3>1. n + 1 \in Nat /\ k * (q + 1) = k * q + k /\ k * q \in Int
      BY <2>1, <2>2
    <3>2. CASE r + 1 = k
      <4>1. n + 1 = k * (q + 1) + 0 /\ 0 \in 0..(k - 1) /\ q + 1 \in Int
        BY <2>1, <2>2, <3>1, <3>2
      <4> QED
        BY <2>1, <3>1, <3>2, <4>1, DivisionUnique
    <3>3. CASE r + 1 # k
      <4>1. n + 1 = k * q + (r + 1) /\ r + 1 \in 0..(k - 1) /\ q \in Int
        BY <2>1, <2>2, <3>1, <3>3
      <4> QED
        BY <2>1, <3>1, <3>3, <4>1, DivisionUnique
    <3> QED
      BY <3>2, <3>3
  <2>5. 0 \div k = 0
    BY <2>1
  <2>6. r + 1 # 0
    BY <2>1, <2>2
  <2> QED
    BY <1>2, <2>1, <2>2, <2>3, <2>4, <2>5, <2>6 DEF CvsOf, StartsCvs
<1> QED
  BY <1>1, <1>2

(* Later pictures are in the same sequence or a later one, and those after *)
(* an IDR picture in a later one than those before.                        *)
LEMMA CvsGrows ==
  ASSUME cfg \in Configs, NEW m \in Nat, NEW n \in Nat, m < n
  PROVE  /\ CvsOf(m) <= CvsOf(n) /\ CvsOf(m) \in Nat /\ CvsOf(n) \in Nat
         /\ StartsCvs(n) => CvsOf(m) < CvsOf(n)
<1>1. CASE ~HasCycle
  BY <1>1 DEF CvsOf, StartsCvs
<1>2. CASE HasCycle
  <2>1. PICK k \in Nat : k = IntraPeriod /\ k > 0
    BY <1>2, ConfigIs
  <2>2. m \div k <= n \div k /\ (n % k = 0 => m \div k < n \div k)
    BY <2>1, QuotientGrows
  <2> QED
    BY <1>2, <2>1, <2>2, CvsNext DEF CvsOf, StartsCvs
<1> QED
  BY <1>1, <1>2

-----------------------------------------------------------------------------
(* Which picture comes next.                                               *)

(* The number of a picture in its group of closed pictures, and the order  *)
(* count after which those of the pictures around it begin.                *)
GroupOf(n)  == IF Closed THEN (n - 1) % (cfg.intraPeriod + 1) ELSE n - 1
PocStart(n) == GroupOf(n) - (GroupOf(n) % cfg.gopLen)

(* The groups follow each other, and begin again after an IDR picture.     *)
LEMMA GroupNext ==
  ASSUME cfg \in Configs, Pyramid, NEW n \in Nat
  PROVE  /\ GroupOf(n + 1) = IF StartsCvs(n) THEN 0 ELSE GroupOf(n) + 1
         /\ ~StartsCvs(n) => n > 0 /\ GroupOf(n) \in Nat
         /\ GroupOf(n + 1) \in Nat
         /\ Closed => (StartsCvs(n) <=> n = 0 \/ GroupOf(n) = cfg.intraPeriod)
<1>1. (n + 1) - 1 = n
  OBVIOUS
<1>2. CASE ~Closed
  <2>1. ~HasCycle
    BY <1>2 DEF HasCycle
  <2> QED
    BY <1>1, <1>2, <2>1 DEF GroupOf, StartsCvs
<1>3. CASE Closed
  <2>1. HasCycle
    BY <1>3 DEF HasCycle, Closed
  <2>2. PICK p \in Nat : p = cfg.intraPeriod /\ p > 0 /\ IntraPeriod = p + 1
    BY <1>3, ConfigIs
  <2>3. GroupOf(n + 1) = n % (p + 1) /\ GroupOf(n) = (n - 1) % (p + 1)
    <3>1. /\ GroupOf(n + 1) = ((n + 1) - 1) % (cfg.intraPeriod + 1)
          /\ GroupOf(n) = (n - 1) % (cfg.intraPeriod + 1)
      BY <1>3, Zenon DEF GroupOf
    <3> QED
      BY <1>1, <2>2, <3>1, Zenon
  <2>4. StartsCvs(n) <=> n % (p + 1) = 0
    BY <2>1, <2>2 DEF StartsCvs
  <2>5. p + 1 \in Nat /\ p + 1 > 0
    BY <2>2
  <2>6. CASE n = 0
    <3>1. 0 % (p + 1) = 0
      BY <2>2
    <3> QED
      BY <2>3, <2>4, <2>6, <3>1
  <2>7. CASE n # 0
    <3>1. PICK m \in Nat : m = n - 1 /\ n = m + 1
      BY <2>7
    <3>2. (m + 1) % (p + 1) = IF (m % (p + 1)) + 1 = p + 1 THEN 0 ELSE (m % (p + 1)) + 1
      BY <2>5, ModNext, Zenon
    <3>3. m % (p + 1) \in 0..p
      BY <2>2
    <3>4. PICK r \in Nat : r = m % (p + 1)
      BY <3>3
    <3>5. n % (p + 1) = IF r + 1 = p + 1 THEN 0 ELSE r + 1
      BY <3>1, <3>2, <3>4
    <3>6. GroupOf(n) = r
      BY <2>3, <3>1, <3>4
    <3> QED
      BY <2>2, <2>3, <2>4, <2>7, <3>5, <3>6
  <2> QED
    BY <2>6, <2>7
<1> QED
  BY <1>2, <1>3

LEMMA PocStartNext ==
  ASSUME cfg \in Configs, Pyramid, NEW n \in Nat
  PROVE  /\ PocStart(n + 1) \in Nat
         /\ StartsCvs(n) => PocStart(n + 1) = 0
         /\ ~StartsCvs(n) => /\ PocStart(n) \in Nat
                             /\ \/ PocStart(n + 1) = PocStart(n)
                                \/ PocStart(n + 1) = PocStart(n) + cfg.gopLen
<1>1. PICK g \in Nat : g = cfg.gopLen /\ g > 0
  BY ConfigIs
<1>2. ASSUME NEW x \in Nat
      PROVE  /\ x - (x % g) \in Nat
             /\ \/ (x + 1) - ((x + 1) % g) = x - (x % g)
                \/ (x + 1) - ((x + 1) % g) = x - (x % g) + g
  <2>1. PICK q \in Nat, r \in 0..(g - 1) : x = g * q + r /\ r = x % g
    BY <1>1, Divided
  <2>2. (x + 1) % g = IF r + 1 = g THEN 0 ELSE r + 1
    <3>1. (x + 1) % g = IF (x % g) + 1 = g THEN 0 ELSE (x % g) + 1
      BY <1>1, ModNext, Zenon
    <3> QED
      BY <2>1, <3>1, Zenon
  <2>3. PICK y \in Nat : y = g * q
    BY <1>1, <2>1
  <2>4. x - r = y
    BY <2>1, <2>3
  <2>5. r + 1 = g => (x + 1) - 0 = y + g
    BY <1>1, <2>1, <2>4
  <2>6. r + 1 # g => (x + 1) - (r + 1) = y
    BY <1>1, <2>1, <2>4
  <2> QED
    BY <2>1, <2>2, <2>3, <2>4, <2>5, <2>6
<1>3. 0 % g = 0
  BY <1>1
<1>4. CASE StartsCvs(n)
  <2>1. GroupOf(n + 1) = 0
    BY <1>4, GroupNext
  <2> QED
    BY <1>1, <1>3, <1>4, <2>1 DEF PocStart
<1>5. CASE ~StartsCvs(n)
  <2>1. GroupOf(n + 1) = GroupOf(n) + 1 /\ GroupOf(n) \in Nat
    BY <1>5, GroupNext
  <2>2. PICK x \in Nat : x = GroupOf(n) /\ GroupOf(n + 1) = x + 1
    BY <2>1
  <2>3. PocStart(n) = x - (x % g) /\ PocStart(n + 1) = (x + 1) - ((x + 1) % g)
    BY <1>1, <2>2 DEF PocStart
  <2>4. x + 1 \in Nat
    OBVIOUS
  <2>5. (x + 1) - ((x + 1) % g) \in Nat
    BY <1>2, <2>4
  <2> QED
    BY <1>1, <1>2, <1>5, <2>3, <2>5
<1> QED
  BY <1>4, <1>5

(* What is true of the picture pic that comes with the order count p.      *)
IsNew(pic, p) ==
  /\ p \in Nat /\ pic = FirstOf(num) + p
  /\ HasCycle => p < IntraPeriod
  /\ IsIrap(p) <=> IF cfg.intraPeriod = 0 THEN pic = 0 ELSE pic % IntraPeriod = 0
  /\ StartsCvs(num) => p = 0 /\ IsIrap(p)
  /\ IsIrap(p) /\ ~StartsCvs(num) =>
       /\ Pyramid /\ ~Closed /\ cfg.intraPeriod > 0
       /\ \A q \in returned : q < pic
  /\ Pyramid /\ ~StartsCvs(num) =>
       p > PocStart(num) /\ p <= PocStart(num) + cfg.gopLen
  /\ ~Pyramid => p = IF cfg.intraPeriod = 0 THEN num ELSE num % cfg.intraPeriod

LEMMA NewDirect ==
  ASSUME cfg \in Configs, Direct, num \in Nat, NEW k
  PROVE  IsNew(num, NewPoc(k))
<1>1. /\ ~Pyramid /\ ~Closed /\ cfg.intraPeriod \in Nat
      /\ IntraPeriod = cfg.intraPeriod
  BY ConfigIs DEF Closed
<1>2. CASE cfg.intraPeriod = 0
  <2>1. NewPoc(k) = num
    BY <1>1, <1>2 DEF NewPoc
  <2>2. ~HasCycle
    BY <1>2 DEF HasCycle
  <2>3. FirstOf(num) = 0 /\ (StartsCvs(num) <=> num = 0) /\ (IsIrap(num) <=> num = 0)
    BY <1>2, <2>2 DEF FirstOf, StartsCvs, IsIrap
  <2> QED
    BY <1>1, <1>2, <2>1, <2>2, <2>3 DEF IsNew
<1>3. CASE cfg.intraPeriod > 0
  <2>1. PICK c \in Nat : c = cfg.intraPeriod /\ c > 0 /\ IntraPeriod = c
    BY <1>1, <1>3
  <2>2. PICK q \in Nat, r \in 0..(c - 1) : num = c * q + r /\ q = num \div c /\ r = num % c
    BY <2>1, Divided
  <2>3. 0 % c = 0
    BY <2>1
  <2>4. NewPoc(k) = r
    BY <1>1, <1>3, <2>1, <2>2, <2>3 DEF NewPoc
  <2>5. HasCycle
    BY <1>1, <1>3 DEF HasCycle
  <2>6. FirstOf(num) = c * q /\ (StartsCvs(num) <=> r = 0)
    BY <2>1, <2>2, <2>5 DEF FirstOf, StartsCvs
  <2>7. r % c = r
    BY <2>1
  <2>8. IsIrap(r) <=> r = 0
    BY <1>1, <1>3, <2>1, <2>2, <2>3, <2>7 DEF IsIrap
  <2>9. r \in Nat /\ r < c
    BY <2>1
  <2>10. /\ IsIrap(r) <=> num % IntraPeriod = 0
         /\ r = num % cfg.intraPeriod
         /\ HasCycle => r < IntraPeriod
    BY <2>1, <2>2, <2>8, <2>9
  <2> QED
    BY <1>1, <1>3, <2>2, <2>4, <2>6, <2>8, <2>9, <2>10 DEF IsNew
<1> QED
  BY <1>1, <1>2, <1>3

LEMMA NewFirst ==
  ASSUME cfg \in Configs, Pyramid, num = 0, NEW k
  PROVE  IsNew(0, NewPoc(k))
<1>1. NewPoc(k) = 0 /\ IsIrap(0)
  BY DEF NewPoc, IsIrap
<1>2. HasCycle => IntraPeriod \in Nat /\ IntraPeriod > 0
  BY ConfigIs
<1>3. HasCycle => 0 \div IntraPeriod = 0 /\ 0 % IntraPeriod = 0 /\ IntraPeriod * 0 = 0
  BY <1>2
<1>4. FirstOf(0) = 0 /\ StartsCvs(0)
  BY <1>3 DEF FirstOf, StartsCvs
<1>5. IF cfg.intraPeriod = 0 THEN 0 = 0 ELSE 0 % IntraPeriod = 0
  <2>1. IntraPeriod \in Nat /\ cfg.intraPeriod \in Nat
    BY ConfigIs
  <2>2. cfg.intraPeriod # 0 => IntraPeriod > 0
    BY <2>1, ConfigIs
  <2>3. cfg.intraPeriod # 0 => 0 % IntraPeriod = 0
    BY <2>1, <2>2
  <2> QED
    BY <2>3
<1> QED
  BY <1>1, <1>2, <1>4, <1>5 DEF IsNew

LEMMA PocIs ==
  ASSUME cfg \in Configs, Pyramid, NEW k \in 0..(cfg.gopLen - 1)
  PROVE  TableAt(k).poc = PocOffset(k) /\ PocOffset(k) \in 1..cfg.gopLen
<1>1. cfg.gopLen \in Nat /\ ~Direct
  BY ConfigIs
<1>2. k < cfg.gopLen
  BY <1>1
<1> QED
  BY <1>1, <1>2, Shape DEF TableAt, PocOffset

LEMMA NewOpen ==
  ASSUME cfg \in Configs, Pyramid, ~Closed, num = numOut, numOut \in Nat, Started,
         GopStart >= 0, returned \subseteq 0..(GopStart + cfg.gopLen),
         NEW k \in 0..(cfg.gopLen - 1), PicAt(k) \notin returned
  PROVE  IsNew(PicAt(k), NewPoc(k))
<1>1. PICK n \in Nat : n = num - 1 /\ num = n + 1 /\ numOut - 1 = n /\ num # 0
  BY DEF Started
<1>2. PICK g \in Nat : g = cfg.gopLen /\ g > 0 /\ cfg.intraPeriod \in Nat
  BY ConfigIs
<1>3. ~(~cfg.openGop /\ cfg.intraPeriod > 0) /\ ~IsClosed /\ ~Direct
  BY ConfigIs DEF Closed
<1>4. GopOffset = n % g
  <2>1. GopOffset = OffsetAt(numOut - 1)
    BY <1>3, OffsetIs DEF Started
  <2>2. OffsetAt(n) = n % g
    BY <1>2, <1>3 DEF OffsetAt
  <2> QED
    BY <1>1, <2>1, <2>2
<1>5. PICK a \in Nat, b \in 0..(g - 1) : n = g * a + b /\ b = n % g
  BY <1>2, Divided
<1>6. PICK y \in Nat : y = g * a
  BY <1>2, <1>5
<1>7. n - b = y /\ GopStart = y
  <2>1. n - b = y
    BY <1>5, <1>6
  <2>2. GopStart = (numOut - 1) - GopOffset
    BY Zenon DEF GopStart
  <2> QED
    BY <1>1, <1>4, <1>5, <2>1, <2>2, Zenon
<1>8. PICK o \in 1..g : o = PocOffset(k) /\ o = TableAt(k).poc
  BY <1>2, PocIs
<1>9. PICK p \in Nat : p = y + o /\ p > y /\ p <= y + g /\ p # 0
  BY <1>2, <1>6, <1>8
<1>10. PicAt(k) = p
  BY <1>7, <1>8, <1>9 DEF PicAt
<1>11. PocStart(num) = y /\ GroupNum = n
  <2>1. GroupOf(num) = num - 1 /\ GroupNum = num - 1
    BY Zenon DEF GroupOf, GroupNum
  <2>2. PocStart(num) = GroupOf(num) - (GroupOf(num) % g)
    BY <1>2, Zenon DEF PocStart
  <2> QED
    BY <1>1, <1>5, <1>7, <2>1, <2>2, Zenon
<1>12. NewPoc(k) = p
  <2>1. NewPoc(k) = GroupNum - (GroupNum % cfg.gopLen) + TableAt(k).poc
    BY <1>1 DEF NewPoc
  <2>2. n - b + o = p
    BY <1>5, <1>6, <1>8, <1>9
  <2> QED
    BY <1>2, <1>5, <1>8, <1>11, <2>1, <2>2
<1>13. ~HasCycle /\ IntraPeriod = cfg.intraPeriod
  BY ConfigIs DEF HasCycle
<1>14. FirstOf(num) = 0 /\ ~StartsCvs(num)
  BY <1>1, <1>13 DEF FirstOf, StartsCvs
<1>15. IsIrap(p) <=> cfg.intraPeriod > 0 /\ p % cfg.intraPeriod = 0
  BY <1>1, <1>9 DEF IsIrap
<1>16. IsIrap(p) <=> IF cfg.intraPeriod = 0 THEN p = 0 ELSE p % IntraPeriod = 0
  BY <1>2, <1>9, <1>13, <1>15
<1>17. ASSUME IsIrap(p) PROVE \A q \in returned : q < p
  <2>1. PICK c \in Nat : c = cfg.intraPeriod /\ c > 0 /\ p % c = 0 /\ c % g = 0
    BY <1>2, <1>15, <1>17, ConfigIs
  <2>2. p % g = 0
    BY <1>2, <2>1, MultipleOf
  <2>3. p % g = o % g
    <3>1. o \in Nat
      OBVIOUS
    <3>2. (g * a + o) % g = o % g
      BY <1>2, <3>1, ModOfSum
    <3> QED
      BY <1>6, <1>9, <3>2, Zenon
  <2>4. o = g
    <3>1. o < g => o % g = o
      BY <1>2, <1>8
    <3> QED
      BY <2>2, <2>3, <3>1
  <2>5. returned \subseteq 0..p /\ p \notin returned
    BY <1>2, <1>7, <1>9, <1>10, <2>4
  <2> QED
    BY <2>5
<1>18. p = FirstOf(num) + p
  BY <1>14
<1> QED
  BY <1>2, <1>9, <1>10, <1>11, <1>12, <1>13, <1>14, <1>15, <1>16, <1>17, <1>18 DEF IsNew

LEMMA ClosedOffsetOf ==
  ASSUME cfg \in Configs, Closed, NEW n \in Nat
  PROVE  OffsetAt(n) = (n % (cfg.intraPeriod + 1)) % cfg.gopLen
<1>1. Pyramid /\ ~cfg.openGop /\ cfg.intraPeriod > 0
  BY DEF Closed
<1>2. PICK g \in Nat : g = cfg.gopLen /\ g > 0
  BY <1>1, ConfigIs
<1>3. PICK p \in Nat : p = cfg.intraPeriod /\ p > 0 /\ p % g = 0
  BY <1>1, <1>2, ConfigIs
<1>4. ClosedOffset(n, g, p) = (n % (p + 1)) % g
  BY <1>2, <1>3, ClosedOffsetIs
<1> QED
  BY <1>1, <1>2, <1>3, <1>4 DEF OffsetAt

LEMMA NewClosed ==
  ASSUME cfg \in Configs, Closed, num = numOut, numOut \in Nat, Started
  PROVE  /\ IrapDue => IsNew(GopStart + 1, NewPoc(out'.offset))
         /\ ~IrapDue => \A k \in 0..(cfg.gopLen - 1) : IsNew(PicAt(k), NewPoc(k))
<1>0. Pyramid /\ ~Direct /\ IsClosed /\ HasCycle
  <2>1. Pyramid
    BY DEF Closed
  <2> QED
    BY <2>1, ConfigIs DEF HasCycle
<1>1. PICK n \in Nat : n = num - 1 /\ num = n + 1 /\ numOut - 1 = n /\ num # 0
  BY DEF Started
<1>2. PICK g \in Nat : g = cfg.gopLen /\ g > 0
  BY <1>0, ConfigIs
<1>3. PICK p \in Nat : p = cfg.intraPeriod /\ p > 0 /\ p % g = 0
  BY <1>0, <1>2, ConfigIs
<1>4. PICK c \in Nat : c = p + 1 /\ IntraPeriod = c /\ ~cfg.openGop
  BY <1>3, ConfigIs
<1>5. PICK a \in Nat, x \in 0..p : n = c * a + x /\ a = n \div c /\ x = n % c /\ x \in Nat
  <2>1. c > 0 /\ c - 1 = p
    BY <1>3, <1>4
  <2> QED
    BY <2>1, Divided
<1>6. IrapDue <=> x = p
  BY <1>0, <1>1, <1>3, <1>4, <1>5, OffsetIs DEF DueAt, Started
<1>7. GroupNum = x /\ GroupOf(num) = x
  BY <1>1, <1>3, <1>4, <1>5 DEF GroupNum, GroupOf
<1>8. PICK z \in Nat : z = c * a /\ n = z + x
  BY <1>4, <1>5
<1>9. num = c * a + (x + 1)
  BY <1>1, <1>5, <1>8
<1>10. GopOffset = x % g
  <2>1. GopOffset = OffsetAt(n)
    BY <1>0, <1>1, OffsetIs DEF Started
  <2> QED
    BY <1>2, <1>3, <1>4, <1>5, <2>1, ClosedOffsetOf, Zenon
<1>11. CASE x = p
  <2>1. num % c = 0 /\ num \div c = a + 1 /\ c * (a + 1) = num
    <3>1. c * (a + 1) = c * a + c
      <4>1. \A u, v \in Nat : u * (v + 1) = u * v + u
        OBVIOUS
      <4> QED
        BY <4>1, Zenon
    <3>2. num = z + c /\ c * (a + 1) = z + c
      BY <1>1, <1>4, <1>8, <1>11, <3>1
    <3>3. num = c * (a + 1) + 0 /\ 0 \in 0..(c - 1) /\ a + 1 \in Int /\ c > 0 /\ num \in Nat
      BY <1>1, <1>3, <1>4, <3>2
    <3> QED
      BY <3>3, DivisionUnique
  <2>2. GopStart + 1 = num
    <3>1. GopOffset = 0
      BY <1>3, <1>10, <1>11
    <3> QED
      BY <1>1, <3>1 DEF GopStart
  <2>3. NewPoc(out'.offset) = 0 /\ IsIrap(0)
    BY <1>3, <1>7, <1>11 DEF NewPoc, IsIrap
  <2>4. FirstOf(num) = num /\ StartsCvs(num)
    BY <1>0, <1>4, <2>1 DEF FirstOf, StartsCvs
  <2>5. IF cfg.intraPeriod = 0 THEN num = 0 ELSE num % IntraPeriod = 0
    BY <1>3, <1>4, <2>1
  <2>6. num = num + 0
    OBVIOUS
  <2>7. IsNew(num, 0)
    BY <1>0, <1>3, <1>4, <2>3, <2>4, <2>5, <2>6 DEF IsNew
  <2> QED
    BY <1>6, <1>11, <2>2, <2>3, <2>7
<1>12. CASE x # p
  <2>1. num % c = x + 1 /\ num \div c = a
    <3>1. x + 1 \in 0..(c - 1) /\ a \in Int /\ c > 0 /\ num \in Nat
      BY <1>3, <1>4, <1>12
    <3> QED
      BY <1>9, <3>1, DivisionUnique
  <2>2. ASSUME NEW k \in 0..(cfg.gopLen - 1) PROVE IsNew(PicAt(k), NewPoc(k))
    <3>1. PICK o \in 1..g : o = PocOffset(k) /\ o = TableAt(k).poc
      BY <1>0, <1>2, PocIs
    <3>2. PICK s \in Nat : s = x - (x % g) /\ s + g <= p
      <4>1. x < p
        BY <1>3, <1>12
      <4>2. x - (x % g) + g <= p /\ x - (x % g) >= 0
        BY <1>2, <1>3, <1>5, <4>1, GroupFits
      <4>3. x - (x % g) \in Int
        BY <1>2, <1>5
      <4> QED
        BY <4>2, <4>3
    <3>3. PICK q \in Nat : q = s + o /\ q > s /\ q <= s + g /\ q # 0 /\ q < c
      BY <1>4, <3>1, <3>2
    <3>4. PICK t \in Nat : t = x % g /\ x = s + t
      BY <1>2, <3>2
    <3>5. PicAt(k) = z + q
      BY <1>1, <1>8, <1>10, <3>1, <3>3, <3>4 DEF PicAt, GopStart
    <3>6. NewPoc(k) = q
      <4>1. NewPoc(k) = GroupNum - (GroupNum % cfg.gopLen) + TableAt(k).poc
        BY <1>0, <1>1, <1>3, <1>7, <1>12 DEF NewPoc
      <4> QED
        BY <1>2, <1>7, <3>1, <3>2, <3>3, <4>1
    <3>7. FirstOf(num) = z /\ ~StartsCvs(num)
      <4>1. x + 1 # 0
        BY <1>5
      <4> QED
        BY <1>0, <1>4, <1>8, <2>1, <4>1 DEF FirstOf, StartsCvs
    <3>8. (z + q) % c = q
      <4>1. /\ z + q = c * a + q /\ q \in 0..(c - 1) /\ a \in Int /\ c > 0
            /\ z + q \in Nat
        BY <1>4, <1>8, <3>3
      <4> QED
        BY <4>1, DivisionUnique
    <3>9. ~IsIrap(q)
      BY <1>1, <3>3 DEF IsIrap
    <3>10. PocStart(num) = s
      BY <1>2, <1>7, <3>2 DEF PocStart
    <3>11. ~(IF cfg.intraPeriod = 0 THEN z + q = 0 ELSE (z + q) % IntraPeriod = 0)
      BY <1>3, <1>4, <3>3, <3>8
    <3> QED
      BY <1>0, <1>2, <1>4, <3>3, <3>5, <3>6, <3>7, <3>9, <3>10, <3>11 DEF IsNew
  <2> QED
    BY <1>6, <1>12, <2>2
<1> QED
  BY <1>11, <1>12

(* The picture that comes out of the buffer, and the order count it gets.  *)
LEMMA ComesNew ==
  ASSUME BufferInv, Comes, num = numOut
  PROVE  IsNew(out'.pic, NewPoc(out'.offset))
<1>1. cfg \in Configs /\ numOut \in Nat /\ num \in Nat
  BY DEF BufferInv, Kinds
<1>2. CASE Direct
  BY <1>1, <1>2, NewDirect DEF Comes
<1>3. CASE ~Direct
  <2>1. Pyramid /\ (IsClosed <=> Closed)
    BY <1>1, <1>3, ConfigIs
  <2>2. CASE ~Started
    <3>1. numOut = 0
      BY <1>1, <2>2 DEF Started
    <3> QED
      BY <1>1, <2>1, <2>2, <3>1, NewFirst DEF Comes
  <2>3. CASE Started
    <3>1. /\ GopStart >= 0 /\ returned \subseteq 0..(GopStart + cfg.gopLen)
          /\ IrapDue => out'.pic = GopStart + 1
          /\ ~IrapDue => /\ out'.offset \in 0..(cfg.gopLen - 1)
                         /\ out'.pic = PicAt(out'.offset)
          /\ out'.pic \notin returned
      BY <1>3, <2>3 DEF Comes
    <3>2. CASE Closed
      BY <1>1, <2>3, <3>1, <3>2, NewClosed
    <3>3. CASE ~Closed
      <4>1. ~IrapDue
        BY <2>1, <3>3 DEF IrapDue
      <4> QED
        BY <1>1, <2>1, <2>3, <3>1, <3>3, <4>1, NewOpen
    <3> QED
      BY <3>2, <3>3
  <2> QED
    BY <2>2, <2>3
<1> QED
  BY <1>2, <1>3

-----------------------------------------------------------------------------
(* The references that are kept, and what the decoder makes of them.       *)

LEMMA TableShape ==
  ASSUME cfg \in Configs, NEW k \in Nat
  PROVE  /\ TableAt(k).neg \in Seq(Nat) /\ TableAt(k).pos \in Seq(Nat)
         /\ Len(TableAt(k).neg) + Len(TableAt(k).pos) <= 15
<1>1. /\ cfg.gop \in Seq([poc : Nat, neg : Seq(Nat), pos : Seq(Nat), isRef : BOOLEAN])
      /\ Len(cfg.gop) = cfg.gopLen /\ cfg.gopLen \in Nat
  BY ConfigsShape
<1>2. CASE k < cfg.gopLen
  <2>1. k + 1 \in 1..cfg.gopLen
    BY <1>1, <1>2
  <2>2. cfg.gop[k + 1] \in [poc : Nat, neg : Seq(Nat), pos : Seq(Nat), isRef : BOOLEAN]
    <3> DEFINE R == [poc : Nat, neg : Seq(Nat), pos : Seq(Nat), isRef : BOOLEAN]
    <3>1. cfg.gop \in Seq(R) /\ k + 1 \in 1..Len(cfg.gop)
      BY <1>1, <2>1
    <3> HIDE DEF R
    <3>2. cfg.gop[k + 1] \in R
      BY <3>1
    <3> QED
      BY <3>2 DEF R
  <2>3. Len(cfg.gop[k + 1].neg) + Len(cfg.gop[k + 1].pos) < MaxRefPicCount
    BY <2>1, RefsFit, Zenon
  <2>4. TableAt(k) = cfg.gop[k + 1]
    BY <1>2 DEF TableAt
  <2>5. cfg.gop[k + 1].neg \in Seq(Nat) /\ cfg.gop[k + 1].pos \in Seq(Nat)
    BY <2>2
  <2>6. Len(cfg.gop[k + 1].neg) \in Nat /\ Len(cfg.gop[k + 1].pos) \in Nat
    BY <2>5
  <2>7. Len(cfg.gop[k + 1].neg) + Len(cfg.gop[k + 1].pos) <= 15
    <3>1. PICK a \in Nat, b \in Nat : /\ a = Len(cfg.gop[k + 1].neg)
                                      /\ b = Len(cfg.gop[k + 1].pos)
      BY <2>6
    <3>2. a + b < 16
      BY <2>3, <3>1, Zenon DEF MaxRefPicCount
    <3>3. a + b <= 15
      BY <3>2
    <3> QED
      BY <3>1, <3>3, Zenon
  <2> QED
    BY <2>4, <2>5, <2>7
<1>3. CASE ~(k < cfg.gopLen)
  <2>1. TableAt(k).neg = <<>> /\ TableAt(k).pos = <<>>
    BY <1>3 DEF TableAt
  <2> QED
    BY <2>1
<1> QED
  BY <1>2, <1>3

(* A picture names at most 15 references.                                  *)
LEMMA NamedCount ==
  ASSUME cfg \in Configs, NEW k \in Nat, NEW p \in Nat
  PROVE  IsFiniteSet(Named(p, k)) /\ Cardinality(Named(p, k)) <= 15
<1> DEFINE neg == TableAt(k).neg
           pos == TableAt(k).pos
           m == Len(neg)
           n == m + Len(pos)
           f == [j \in 1..n |-> IF j <= m THEN p - neg[j] ELSE p + pos[j - m]]
<1>1. neg \in Seq(Nat) /\ pos \in Seq(Nat) /\ n <= 15
  BY TableShape
<1>2. Named(p, k) = {p - d : d \in Elements(neg)} \cup {p + d : d \in Elements(pos)}
  BY DEF Named
<1> HIDE DEF neg, pos
<1>3. /\ DOMAIN neg = 1..m /\ DOMAIN pos = 1..Len(pos)
      /\ m \in Nat /\ n \in Nat /\ Len(pos) \in Nat
  BY <1>1
<1>4. ASSUME NEW j \in 1..n PROVE f[j] \in Named(p, k)
  <2>1. CASE j <= m
    <3>1. neg[j] \in Elements(neg)
      BY <1>3, <2>1 DEF Elements
    <3> QED
      BY <1>2, <2>1, <3>1
  <2>2. CASE ~(j <= m)
    <3>1. j - m \in 1..Len(pos)
      BY <1>3, <2>2
    <3>2. pos[j - m] \in Elements(pos)
      BY <1>3, <3>1 DEF Elements
    <3> QED
      BY <1>2, <2>2, <3>2
  <2> QED
    BY <2>1, <2>2
<1>5. ASSUME NEW q \in Named(p, k) PROVE \E j \in 1..n : f[j] = q
  <2>1. CASE q \in {p - d : d \in Elements(neg)}
    <3>1. PICK j \in 1..m : q = p - neg[j]
      BY <1>3, <2>1 DEF Elements
    <3>2. j \in 1..n /\ j <= m
      BY <1>3
    <3> QED
      BY <3>1, <3>2
  <2>2. CASE q \in {p + d : d \in Elements(pos)}
    <3>1. PICK i \in 1..Len(pos) : q = p + pos[i]
      BY <1>3, <2>2 DEF Elements
    <3>2. PICK j \in Int : j = m + i
      BY <1>3
    <3>3. j \in 1..n /\ ~(j <= m) /\ j - m = i
      BY <1>3, <3>2
    <3> QED
      BY <3>1, <3>3
  <2> QED
    BY <1>2, <2>1, <2>2
<1>6. f \in [1..n -> Named(p, k)]
  BY <1>4
<1> HIDE DEF f
<1>7. f \in Surjection(1..n, Named(p, k))
  BY <1>5, <1>6, Fun_IsSurj
<1>8. IsFiniteSet(1..n) /\ Cardinality(1..n) = n
  BY <1>3, FS_Interval
<1>9. IsFiniteSet(Named(p, k)) /\ Cardinality(Named(p, k)) <= n
  BY <1>7, <1>8, FS_Surjection
<1>10. Cardinality(Named(p, k)) \in Nat
  BY <1>9, FS_CardinalityType
<1> QED
  BY <1>1, <1>3, <1>9, <1>10

(* The decoder takes the order count that is meant, if it is near.         *)
LEMMA DecodedIs ==
  ASSUME tid0Poc \in Int, NEW p \in Int, p >= tid0Poc - 15, p <= tid0Poc + 16,
         NEW type, type # "IDR"
  PROVE  DecodedPoc(p, type) = p
<1>1. p \in (tid0Poc - 15)..(tid0Poc + 16) /\ (p - p) % 32 = 0
  OBVIOUS
<1>2. ASSUME NEW q \in (tid0Poc - 15)..(tid0Poc + 16), (q - p) % 32 = 0 PROVE q = p
  <2>1. PICK d \in Int : d = q - p /\ d <= 31 /\ d >= -31 /\ d % 32 = 0
    BY <1>2
  <2>2. d = 0
    BY <2>1
  <2> QED
    BY <2>1, <2>2
<1>3. DecodedPoc(p, type)
        = CHOOSE q \in (tid0Poc - 15)..(tid0Poc + 16) : (q - p) % 32 = 0
  BY DEF DecodedPoc, LsbRange
<1> QED
  BY <1>1, <1>2, <1>3, Zenon

(* The references that are kept are some of those that there are, not more *)
(* than the decoder can be told of.                                        *)
LEMMA KeptAre ==
  ASSUME cfg \in Configs, refs \in Seq(Nat),
         \A i, j \in DOMAIN refs : refs[i] = refs[j] => i = j,
         NEW p \in Nat, NEW k \in Nat, NEW type, NEW ip, NEW kept,
         kept = KeptRefs(p, k, type, ip)
  PROVE  /\ kept \in Seq(Nat) /\ Len(kept) <= 15
         /\ \A i, j \in DOMAIN kept : kept[i] = kept[j] => i = j
         /\ Elements(kept) \subseteq Elements(refs)
         /\ type = "IDR" => Elements(kept) = {}
         /\ cfg.gopLen > 0 => \A r \in Elements(kept) : ~CrossesIrap(r, p, ip)
         /\ cfg.gopLen = 0 /\ (\A i \in DOMAIN refs : refs[i] = p - i)
              => \A i \in DOMAIN kept : kept[i] = p - i
         /\ Cardinality(Elements(kept)) = Len(kept)
<1> DEFINE I == KeptPlaces(p, k, type, ip)
           m == Cardinality(I)
<1>1. kept = EntriesAt(refs, I)
  BY DEF KeptRefs
<1>2. I \in SUBSET (DOMAIN refs)
  BY DEF KeptPlaces
<1>3. /\ type = "IDR" => I = {}
      /\ cfg.gopLen > 0 => \A i \in I : /\ refs[i] \in Named(p, k)
                                        /\ ~CrossesIrap(refs[i], p, ip)
      /\ cfg.gopLen = 0 /\ type # "IDR" => I = {i \in DOMAIN refs : i <= cfg.refFrames}
  <2>1. cfg.gopLen > 0 => cfg.gopLen # 0
    OBVIOUS
  <2>2. cfg.gopLen = 0 => ~(cfg.gopLen > 0)
    OBVIOUS
  <2> QED
    BY <2>1, <2>2, Zenon DEF KeptPlaces
<1> HIDE DEF I
<1>4. /\ kept \in Seq(Nat) /\ Len(kept) = m /\ m \in Nat /\ DOMAIN kept = 1..m
      /\ \A n \in 1..m : Place(I, n) \in I /\ kept[n] = refs[Place(I, n)]
      /\ \A i, j \in 1..m : Place(I, i) = Place(I, j) => i = j
  BY <1>1, <1>2, EntriesSelected
<1> HIDE DEF m
<1>5. \A i, j \in DOMAIN kept : kept[i] = kept[j] => i = j
  <2>1. SUFFICES ASSUME NEW i \in 1..m, NEW j \in 1..m, kept[i] = kept[j] PROVE i = j
    BY <1>4, Zenon
  <2>2. refs[Place(I, i)] = refs[Place(I, j)]
    BY <1>4, <2>1, Zenon
  <2>3. Place(I, i) \in DOMAIN refs /\ Place(I, j) \in DOMAIN refs
    BY <1>2, <1>4, Zenon
  <2>4. Place(I, i) = Place(I, j)
    BY <2>2, <2>3, Zenon
  <2> QED
    BY <1>4, <2>4, Zenon
<1>6. \A r \in Elements(kept) : \E i \in I : r = refs[i]
  <2>1. SUFFICES ASSUME NEW r \in Elements(kept) PROVE \E i \in I : r = refs[i]
    OBVIOUS
  <2>2. PICK n \in DOMAIN kept : r = kept[n]
    BY Zenon DEF Elements
  <2>3. Place(I, n) \in I /\ r = refs[Place(I, n)]
    BY <1>4, <2>2, Zenon
  <2> QED
    BY <2>3, Zenon
<1>7. Elements(kept) \subseteq Elements(refs)
  BY <1>2, <1>6, Zenon DEF Elements
<1>8. type = "IDR" => Elements(kept) = {}
  BY <1>3, <1>6, Zenon
<1>9. cfg.gopLen > 0 => \A r \in Elements(kept) : /\ r \in Named(p, k)
                                                 /\ ~CrossesIrap(r, p, ip)
  <2> SUFFICES ASSUME cfg.gopLen > 0, NEW r \in Elements(kept)
               PROVE  r \in Named(p, k) /\ ~CrossesIrap(r, p, ip)
    OBVIOUS
  <2>1. PICK i \in I : r = refs[i]
    BY <1>6, Zenon
  <2> QED
    BY <1>3, <2>1, Zenon
<1>10. Cardinality(Elements(kept)) = Len(kept) /\ IsFiniteSet(Elements(kept))
  BY <1>4, <1>5, DistinctCount
<1>11. DOMAIN refs = 1..Len(refs) /\ Len(refs) \in Nat
  OBVIOUS
<1>12. CASE type = "IDR"
  <2>1. Elements(kept) = {}
    BY <1>8, <1>12
  <2>2. Len(kept) = 0
    BY <1>10, <2>1, FS_EmptySet
  <2>3. \A i \in DOMAIN kept : kept[i] = p - i
    BY <1>4, <2>2
  <2> QED
    BY <1>4, <1>5, <1>7, <1>8, <1>9, <1>10, <2>2, <2>3
<1>13. CASE cfg.gopLen > 0
  <2>1. Elements(kept) \subseteq Named(p, k)
    BY <1>9, <1>13
  <2>2. Cardinality(Elements(kept)) <= Cardinality(Named(p, k))
    BY <2>1, NamedCount, FS_Subset
  <2>3. Cardinality(Named(p, k)) \in Nat /\ Cardinality(Named(p, k)) <= 15
    BY NamedCount, FS_CardinalityType
  <2>4. Len(kept) <= 15
    BY <1>4, <1>10, <2>2, <2>3
  <2> QED
    BY <1>4, <1>5, <1>7, <1>8, <1>9, <1>10, <1>13, <2>4
<1>14. CASE cfg.gopLen = 0 /\ type # "IDR"
  <2>1. PICK f \in 1..15 : f = cfg.refFrames
    BY ConfigIs
  <2>0. PICK n \in Nat : n = Len(refs)
    BY <1>11
  <2>2. PICK l \in Nat : l = (IF n < f THEN n ELSE f) /\ l <= 15 /\ l <= n
    OBVIOUS
  <2>3. I = 1..l
    <3>1. I = {i \in 1..n : i <= f}
      BY <1>3, <1>11, <1>14, <2>0, <2>1, Zenon
    <3>2. \A i : i \in 1..n /\ i <= f <=> i \in 1..l
      BY <2>2
    <3> QED
      BY <3>1, <3>2, Zenon
  <2>4. m = l /\ \A i \in 1..l : Place(1..l, i) = i
    <3>1. l > 0 => Cardinality(1..l) = l
      BY FirstPlaces
    <3>2. l = 0 => 1..l = {}
      OBVIOUS
    <3>3. Cardinality(1..l) = l
      BY <3>1, <3>2, FS_EmptySet
    <3>4. \A i \in 1..l : Place(1..l, i) = i
      BY FirstPlaces
    <3> QED
      BY <2>3, <3>3, <3>4 DEF m
  <2>5. \A i \in 1..l : i \in 1..n
    BY <2>2
  <2>6. \A i \in 1..m : kept[i] = refs[i] /\ i \in DOMAIN refs
    BY <1>4, <1>11, <2>0, <2>3, <2>4, <2>5, Zenon
  <2>7. (\A i \in DOMAIN refs : refs[i] = p - i) => \A i \in DOMAIN kept : kept[i] = p - i
    BY <1>4, <2>6
  <2>8. Len(kept) <= 15
    BY <1>4, <2>2, <2>4
  <2> QED
    BY <1>4, <1>5, <1>7, <1>8, <1>10, <1>14, <2>7, <2>8
<1>15. cfg.gopLen \in Nat
  BY ConfigIs
<1> QED
  BY <1>12, <1>13, <1>14, <1>15

LEMMA ElementsIn ==
  ASSUME NEW S, NEW list \in Seq(S)
  PROVE  \A e \in Elements(list) : e \in S
<1>1. \A i \in DOMAIN list : list[i] \in S
  OBVIOUS
<1> QED
  BY <1>1 DEF Elements

(* What is written names the references that are kept, and the decoder     *)
(* holds them.                                                             *)
Entry(pic, n, c, p, type, named) ==
  [pic |-> pic, seq |-> n, cvs |-> c, poc |-> p, type |-> type, refs |-> named]

LEMMA DecodeIs ==
  ASSUME cfg \in Configs, NEW kept \in Seq(Nat), NEW p \in Nat, NEW type, NEW pic,
         Elements(kept) \subseteq dpb, mismatch = {},
         Cardinality(Elements(kept)) = Len(kept),
         type = "IDR" => p = 0 /\ Elements(kept) = {},
         type # "IDR" => p >= tid0Poc - 15 /\ p <= tid0Poc + 16, tid0Poc \in Int,
         cfg.gopLen = 0 => \A i \in DOMAIN kept : kept[i] = p - i,
         Decode(p, type, Elements(kept), pic)
  PROVE  /\ mismatch' = {} /\ Elements(kept) \subseteq dpb' /\ p \in dpb'
         /\ tid0Poc' = IF type = "RASL" THEN tid0Poc ELSE p
         /\ cvs' = IF type = "IDR" THEN cvs + 1 ELSE cvs
         /\ coded' = coded \cup {Entry(pic, num, cvs', p, type, Elements(kept))}
<1> DEFINE S == Elements(kept)
           named == IF type = "IDR" THEN {}
                    ELSE {DecodedPoc(p, type) - d : d \in Distances(p, S)}
<1>1. DecodedPoc(p, type) = p
  <2>1. CASE type = "IDR"
    BY <2>1 DEF DecodedPoc
  <2>2. CASE type # "IDR"
    BY <2>2, DecodedIs
  <2> QED
    BY <2>1, <2>2
<1>2. cfg.gopLen \in Nat /\ DOMAIN kept = 1..Len(kept) /\ Len(kept) \in Nat
  BY ConfigsShape
<1>3. \A r \in S : r \in Nat
  BY ElementsIn, Zenon
<1>4. named = S
  <2>1. CASE type = "IDR"
    BY <2>1
  <2>2. CASE type # "IDR"
    <3>1. named = {p - d : d \in Distances(p, S)}
      BY <1>1, <2>2
    <3>2. CASE cfg.gopLen > 0
      <4>1. Distances(p, S) = {p - r : r \in S}
        BY <3>2 DEF Distances
      <4>2. \A r \in S : p - (p - r) = r
        BY <1>3
      <4> HIDE DEF named, S
      <4>3. ASSUME NEW q \in named PROVE q \in S
        <5>1. PICK d \in Distances(p, S) : q = p - d
          BY <3>1
        <5>2. PICK r \in S : d = p - r
          BY <4>1
        <5> QED
          BY <4>2, <5>1, <5>2
      <4>4. ASSUME NEW r \in S PROVE r \in named
        <5>1. p - r \in Distances(p, S)
          BY <4>1
        <5> QED
          BY <3>1, <4>2, <5>1
      <4> QED
        BY <4>3, <4>4
    <3>3. CASE ~(cfg.gopLen > 0)
      <4>1. Distances(p, S) = 1..Len(kept) /\ cfg.gopLen = 0
        BY <1>2, <3>3 DEF Distances
      <4>2. \A d \in 1..Len(kept) : kept[d] = p - d
        BY <1>2, <4>1
      <4>3. S = {kept[d] : d \in 1..Len(kept)}
        BY <1>2 DEF Elements
      <4>4. \A q : q \in named <=> q \in S
        BY <3>1, <4>1, <4>2, <4>3, Zenon
      <4> HIDE DEF named, S
      <4> QED
        BY <4>4, Zenon
    <3> QED
      BY <3>2, <3>3
  <2> QED
    BY <2>1, <2>2
<1>5. /\ mismatch' = (named \ dpb) \cup (S \ named)
      /\ dpb' = (dpb \cap named) \cup {DecodedPoc(p, type)}
      /\ tid0Poc' = IF type = "RASL" THEN tid0Poc ELSE DecodedPoc(p, type)
      /\ cvs' = IF type = "IDR" THEN cvs + 1 ELSE cvs
      /\ coded' = coded \cup
           {[pic |-> pic, seq |-> num, cvs |-> IF type = "IDR" THEN cvs + 1 ELSE cvs,
             poc |-> DecodedPoc(p, type), type |-> type, refs |-> named]}
  BY Zenon DEF Decode
<1> HIDE DEF named, S
<1>6. S \subseteq dpb
  BY DEF S
<1>7. mismatch' = {} /\ S \subseteq dpb' /\ p \in dpb'
  BY <1>1, <1>4, <1>5, <1>6
<1>8. coded' = coded \cup {Entry(pic, num, cvs', p, type, S)}
  BY <1>1, <1>4, <1>5, Zenon DEF Entry
<1> QED
  BY <1>1, <1>5, <1>7, <1>8, Zenon DEF S

-----------------------------------------------------------------------------
(* The invariant.                                                          *)

(* How many pictures have been numbered and coded, and what kind of value  *)
(* each variable has.                                                      *)
Numbers ==
  /\ BufferInv /\ DtsInv
  /\ prepared \in BOOLEAN /\ headerOk \in BOOLEAN /\ (prepared => headerOk)
  /\ num = IF prepared THEN numOut ELSE numOut - 1
  /\ poc \in Nat /\ irapPoc \in Nat /\ tid0Poc \in Int /\ cvs \in Nat
  /\ refs \in Seq(Nat)

(* A picture that has been coded is the one that its sequence and order    *)
(* count say, and an intra picture if it is a period after another.        *)
Known(c) ==
  /\ c.seq \in Nat /\ c.seq < numOut /\ c.poc \in Nat
  /\ c.pic \in returned /\ c.pic = FirstOf(c.seq) + c.poc
  /\ c.cvs = CvsOf(c.seq) + 1
  /\ HasCycle => c.poc < IntraPeriod
  /\ c.type = "IDR" <=> StartsCvs(c.seq)
  /\ c.type = "CRA" => Pyramid /\ ~Closed /\ cfg.intraPeriod > 0
  /\ Irap(c) <=> IF cfg.intraPeriod = 0 THEN c.pic = 0 ELSE c.pic % IntraPeriod = 0

Pictures ==
  /\ \A c \in coded : Known(c)
  /\ \A c, d \in coded : c.seq = d.seq \/ c.pic = d.pic => c = d
  /\ headerOk =>
       /\ cvs = IF numOut = 0 THEN 0 ELSE CvsOf(numOut - 1) + 1
       /\ numOut > 0 => \E c \in coded : c.seq = numOut - 1 /\ (~prepared => c.poc = poc)

(* With open groups: an intra picture is coded before those shown after    *)
(* it, and these refer to none that is shown before it.                    *)
OpenAccess ==
  Pyramid /\ ~Closed /\ cfg.intraPeriod > 0 =>
    /\ irapPoc % cfg.intraPeriod = 0
    /\ \A i \in coded : Irap(i) =>
         /\ i.pic <= irapPoc
         /\ \A d \in coded : d.pic >= i.pic => d.seq >= i.seq
         /\ \A c \in coded : c.seq > i.seq /\ c.pic > i.pic =>
              \A r \in c.refs : r >= i.pic

(* The decoder counts from a picture that is near.                         *)
Near ==
  /\ ~Pyramid => /\ irapPoc = 0
                 /\ headerOk /\ numOut > 0 => tid0Poc = IF prepared THEN poc - 1 ELSE poc
                 /\ headerOk /\ numOut > 0 =>
                      tid0Poc = IF cfg.intraPeriod = 0 THEN numOut - 1
                                ELSE (numOut - 1) % cfg.intraPeriod
  /\ Pyramid /\ headerOk /\ numOut > 0 =>
       /\ irapPoc <= tid0Poc
       /\ tid0Poc > PocStart(numOut) - cfg.gopLen
       /\ tid0Poc <= PocStart(numOut) + cfg.gopLen

(* Each reference is a picture of this sequence that the decoder holds.    *)
Refers ==
  /\ \A i, j \in DOMAIN refs : refs[i] = refs[j] => i = j
  /\ Elements(refs) \subseteq dpb
  /\ \A r \in Elements(refs) : \E c \in coded : c.poc = r /\ c.cvs = cvs
  /\ ~prepared /\ headerOk /\ numOut > 0 => poc \in dpb /\ poc \notin Elements(refs)
  /\ cfg.gopLen = 0 => \A i \in DOMAIN refs : refs[i] = poc - i
  /\ Len(refs) <= IF prepared THEN 16 ELSE 15
  /\ mismatch = {}

OrderInv == Numbers /\ Pictures /\ OpenAccess /\ Near /\ Refers

LEMMA FirstStarts == ASSUME cfg \in Configs PROVE StartsCvs(0)
<1>1. HasCycle => IntraPeriod \in Nat /\ IntraPeriod > 0
  BY ConfigIs
<1>2. HasCycle => 0 % IntraPeriod = 0
  BY <1>1
<1> QED
  BY <1>2 DEF StartsCvs

LEMMA OrderInit == OInit => OrderInv
<1> SUFFICES ASSUME OInit PROVE OrderInv
  OBVIOUS
<1>1. /\ BufferInv /\ DtsInv /\ numOut = 0 /\ num = -1 /\ poc = 0 /\ irapPoc = 0
      /\ refs = <<>> /\ prepared = FALSE /\ headerOk = TRUE /\ tid0Poc = 0
      /\ cvs = 0 /\ mismatch = {} /\ coded = {}
  BY TimesInit DEF OInit, Init
<1>2. cfg \in Configs
  BY <1>1 DEF BufferInv, Kinds
<1>3. Numbers
  <2>1. refs \in Seq(Nat)
    BY <1>1
  <2>2. num = IF prepared THEN numOut ELSE numOut - 1
    BY <1>1
  <2>3. prepared \in BOOLEAN /\ headerOk \in BOOLEAN /\ (prepared => headerOk)
    BY <1>1
  <2> QED
    BY <1>1, <2>1, <2>2, <2>3 DEF Numbers
<1>4. Pictures
  BY <1>1 DEF Pictures
<1>5. OpenAccess
  <2>1. Pyramid /\ ~Closed /\ cfg.intraPeriod > 0 => 0 % cfg.intraPeriod = 0
    BY <1>2, ConfigIs
  <2> QED
    BY <1>1, <2>1 DEF OpenAccess
<1>6. Near
  BY <1>1 DEF Near
<1>7. Refers
  <2>1. DOMAIN refs = {} /\ Len(refs) = 0
    BY <1>1
  <2>2. Elements(refs) = {}
    BY <2>1 DEF Elements
  <2> QED
    BY <1>1, <2>1, <2>2 DEF Refers
<1> QED
  BY <1>3, <1>4, <1>5, <1>6, <1>7 DEF OrderInv

(* What is known of a picture stays true.                                  *)
LEMMA KnownKept ==
  ASSUME cfg' = cfg, numOut \in Nat, numOut' \in Nat, numOut' >= numOut,
         returned \subseteq returned',
         NEW c, Known(c)
  PROVE  Known(c)'
<1>1. /\ FirstOf(c.seq)' = FirstOf(c.seq) /\ CvsOf(c.seq)' = CvsOf(c.seq)
      /\ StartsCvs(c.seq)' = StartsCvs(c.seq) /\ HasCycle' = HasCycle
      /\ IntraPeriod' = IntraPeriod /\ Pyramid' = Pyramid /\ Closed' = Closed
  BY Zenon DEF FirstOf, CvsOf, StartsCvs, HasCycle, IntraPeriod, Closed, Pyramid
<1>2. c.seq < numOut'
  BY DEF Known
<1> QED
  BY <1>1, <1>2, Zenon DEF Known, Irap

(* The length of the group and of the period, and what follows from them.  *)
LEMMA SameConfig ==
  ASSUME cfg' = cfg
  PROVE  /\ Pyramid' = Pyramid /\ Closed' = Closed /\ HasCycle' = HasCycle
         /\ IntraPeriod' = IntraPeriod
         /\ \A n : /\ PocStart(n)' = PocStart(n) /\ CvsOf(n)' = CvsOf(n)
                   /\ FirstOf(n)' = FirstOf(n)
                   /\ StartsCvs(n)' = StartsCvs(n)
BY Zenon DEF PocStart, GroupOf, FirstOf, CvsOf, StartsCvs, HasCycle, IntraPeriod, Closed, Pyramid

(* A call that returns nothing changes nothing.                            *)
LEMMA StutterStep ==
  ASSUME OrderInv, BufferInv', DtsInv', cfg' = cfg, numOut' = numOut,
         returned' = returned, UNCHANGED <<encVars, decVars, prepared>>
  PROVE  OrderInv'
<1>1. /\ numOut' = numOut /\ returned' = returned /\ num' = num /\ poc' = poc
      /\ irapPoc' = irapPoc /\ refs' = refs /\ prepared' = prepared
      /\ headerOk' = headerOk /\ dpb' = dpb /\ tid0Poc' = tid0Poc /\ cvs' = cvs
      /\ mismatch' = mismatch /\ coded' = coded
  BY DEF encVars, decVars
<1>2. numOut \in Nat
  BY DEF OrderInv, Numbers, BufferInv, Kinds
<1>3. \A c : Known(c) => Known(c)'
  BY <1>1, <1>2, KnownKept
<1>4. Numbers'
  BY <1>1 DEF OrderInv, Numbers
<1>5. Pictures'
  BY <1>1, <1>3, SameConfig DEF OrderInv, Pictures
<1>6. OpenAccess'
  BY <1>1, SameConfig DEF OrderInv, OpenAccess, Irap
<1>7. Near'
  BY <1>1, SameConfig DEF OrderInv, Near
<1>8. Refers'
  BY <1>1 DEF OrderInv, Refers, Elements
<1> QED
  BY <1>4, <1>5, <1>6, <1>7, <1>8 DEF OrderInv

(* The picture coded last becomes a reference.                             *)
LEMMA PrepareStep ==
  ASSUME OrderInv, Prepare
  PROVE  OrderInv'
<1>1. /\ ~prepared /\ headerOk /\ prepared' = TRUE /\ num' = num + 1
      /\ irapPoc' = irapPoc /\ headerOk' = headerOk /\ dpb' = dpb
      /\ tid0Poc' = tid0Poc /\ cvs' = cvs /\ mismatch' = mismatch /\ coded' = coded
      /\ cfg' = cfg /\ numOut' = numOut /\ returned' = returned
      /\ UNCHANGED vars
  BY DEF Prepare, decVars, vars
<1>2. numOut \in Nat /\ num = numOut - 1 /\ cfg \in Configs
  BY <1>1 DEF OrderInv, Numbers, BufferInv, Kinds
<1>3. BufferInv' /\ DtsInv'
  BY <1>1, TimesStep DEF OrderInv, Numbers
<1>4. poc \in Nat /\ refs \in Seq(Nat)
  BY DEF OrderInv, Numbers
<1>5. /\ num = -1 => poc' = 0 /\ refs' = refs
      /\ num # -1 => /\ poc' = poc + 1
                     /\ refs' = (IF IsReference THEN <<poc>> \o refs ELSE refs)
  BY DEF Prepare
<1>6. poc' \in Nat /\ refs' \in Seq(Nat)
  <2>1. <<poc>> \in Seq(Nat)
    BY <1>4
  <2>2. <<poc>> \o refs \in Seq(Nat)
    BY <1>4, <2>1
  <2>3. poc + 1 \in Nat
    BY <1>4
  <2>4. refs' = refs \/ refs' = <<poc>> \o refs
    BY <1>5, Zenon
  <2>5. poc' = 0 \/ poc' = poc + 1
    BY <1>5, Zenon
  <2> QED
    BY <1>4, <2>2, <2>3, <2>4, <2>5
<1>7. Numbers'
  <2>1. num' = numOut'
    BY <1>1, <1>2
  <2> QED
    BY <1>1, <1>3, <1>6, <2>1 DEF OrderInv, Numbers
<1>8. \A c : Known(c) => Known(c)'
  BY <1>1, <1>2, KnownKept
<1>9. Pictures'
  BY <1>1, <1>8, SameConfig DEF OrderInv, Pictures
<1>10. OpenAccess'
  BY <1>1, SameConfig DEF OrderInv, OpenAccess, Irap
<1>11. Near'
  <2>1. numOut > 0 => poc' - 1 = poc
    BY <1>2, <1>4, <1>5
  <2> QED
    BY <1>1, <2>1, SameConfig DEF OrderInv, Near
<1>12. /\ DOMAIN refs = 1..Len(refs) /\ Len(refs) \in Nat
       /\ \A i, j \in DOMAIN refs : refs[i] = refs[j] => i = j
       /\ Elements(refs) \subseteq dpb /\ Len(refs) <= 15 /\ mismatch = {}
       /\ \A r \in Elements(refs) : \E c \in coded : c.poc = r /\ c.cvs = cvs
       /\ numOut > 0 => poc \in dpb /\ poc \notin Elements(refs)
       /\ cfg.gopLen = 0 => \A i \in DOMAIN refs : refs[i] = poc - i
  BY <1>1, <1>4 DEF OrderInv, Refers
<1>13. ASSUME refs' = refs /\ (cfg.gopLen = 0 => numOut = 0) PROVE Refers'
  <2>1. Elements(refs') = Elements(refs) /\ DOMAIN refs' = DOMAIN refs /\ Len(refs') <= 16
    BY <1>12, <1>13
  <2>2. numOut = 0 => Elements(refs) = {}
    <3>1. numOut = 0 => coded = {}
      BY DEF OrderInv, Pictures, Known
    <3> QED
      BY <1>12, <3>1
  <2>3. numOut = 0 => DOMAIN refs = {}
    BY <2>2 DEF Elements
  <2>4. Elements(refs') \subseteq dpb'
    BY <1>1, <1>12, <2>1
  <2>5. \A r \in Elements(refs') : \E c \in coded' : c.poc = r /\ c.cvs = cvs'
    BY <1>1, <1>12, <2>1
  <2>6. \A i, j \in DOMAIN refs' : refs'[i] = refs'[j] => i = j
    BY <1>12, <1>13
  <2>7. cfg'.gopLen = 0 => \A i \in DOMAIN refs' : refs'[i] = poc' - i
    BY <1>1, <1>13, <2>3
  <2>8. Len(refs') <= IF prepared' THEN 16 ELSE 15
    BY <1>1, <2>1
  <2> QED
    BY <1>1, <1>12, <2>4, <2>5, <2>6, <2>7, <2>8, Zenon DEF Refers
<1>14. ASSUME numOut > 0 /\ refs' = <<poc>> \o refs PROVE Refers'
  <2>1. /\ DOMAIN refs' = 1..(Len(refs) + 1) /\ Len(refs') = Len(refs) + 1
        /\ refs'[1] = poc
        /\ \A i \in 2..(Len(refs) + 1) : refs'[i] = refs[i - 1] /\ i - 1 \in DOMAIN refs
    BY <1>4, <1>12, <1>14
  <2>2. \A i \in DOMAIN refs' : i = 1 \/ i \in 2..(Len(refs) + 1)
    BY <1>12, <2>1
  <2>3. Elements(refs)' = Elements(refs) \cup {poc}
    <3>1. ASSUME NEW i \in DOMAIN refs PROVE \E j \in DOMAIN refs' : refs'[j] = refs[i]
      <4>1. i + 1 \in 2..(Len(refs) + 1) /\ (i + 1) - 1 = i /\ i + 1 \in DOMAIN refs'
        BY <1>12, <2>1
      <4> QED
        BY <2>1, <4>1
    <3>2. 1 \in DOMAIN refs'
      BY <1>12, <2>1
    <3>3. \A e \in Elements(refs) : e \in Elements(refs')
      BY <3>1 DEF Elements
    <3>4. poc \in Elements(refs')
      BY <2>1, <3>2, Zenon DEF Elements
    <3>5. \A e \in Elements(refs') : e \in Elements(refs) \/ e = poc
      <4> SUFFICES ASSUME NEW i \in DOMAIN refs'
                   PROVE  refs'[i] \in Elements(refs) \/ refs'[i] = poc
        BY Zenon DEF Elements
      <4> QED
        BY <2>1, <2>2, Zenon DEF Elements
    <3> QED
      BY <3>3, <3>4, <3>5
  <2>4. ASSUME NEW i \in DOMAIN refs', NEW j \in DOMAIN refs', refs'[i] = refs'[j]
        PROVE  i = j
    <3>1. \A h \in 2..(Len(refs) + 1) : refs'[h] # poc
      BY <1>12, <1>14, <2>1 DEF Elements
    <3>2. CASE i = 1 \/ j = 1
      BY <2>1, <2>2, <2>4, <3>1, <3>2
    <3>3. CASE i \in 2..(Len(refs) + 1) /\ j \in 2..(Len(refs) + 1)
      <4>1. i - 1 = j - 1
        BY <1>12, <2>1, <2>4, <3>3
      <4> QED
        BY <3>3, <4>1
    <3> QED
      BY <2>2, <3>2, <3>3
  <2>5. \E c \in coded : c.poc = poc /\ c.cvs = cvs
    <3>1. cvs = CvsOf(numOut - 1) + 1 /\ \E c \in coded : c.seq = numOut - 1 /\ c.poc = poc
      BY <1>1, <1>14 DEF OrderInv, Pictures
    <3> QED
      BY <3>1 DEF OrderInv, Pictures, Known
  <2>6. poc' = poc + 1
    BY <1>2, <1>5, <1>14
  <2>7. ASSUME cfg.gopLen = 0, NEW i \in DOMAIN refs' PROVE refs'[i] = poc' - i
    <3>1. CASE i = 1
      BY <1>4, <2>1, <2>6, <3>1
    <3>2. CASE i \in 2..(Len(refs) + 1)
      <4>1. refs'[i] = poc - (i - 1)
        BY <1>12, <2>1, <2>7, <3>2
      <4> QED
        BY <1>4, <2>6, <3>2, <4>1
    <3> QED
      BY <2>2, <3>1, <3>2
  <2>8. Len(refs') <= 16
    BY <1>12, <2>1
  <2>9. Elements(refs') \subseteq dpb'
    BY <1>1, <1>12, <1>14, <2>3
  <2>10. \A r \in Elements(refs') : \E c \in coded' : c.poc = r /\ c.cvs = cvs'
    BY <1>1, <1>12, <2>3, <2>5
  <2>11. \A i, j \in DOMAIN refs' : refs'[i] = refs'[j] => i = j
    BY <2>4
  <2>12. cfg'.gopLen = 0 => \A i \in DOMAIN refs' : refs'[i] = poc' - i
    BY <1>1, <2>7
  <2>13. Len(refs') <= IF prepared' THEN 16 ELSE 15
    BY <1>1, <2>8
  <2> QED
    BY <1>1, <1>12, <2>9, <2>10, <2>11, <2>12, <2>13, Zenon DEF Refers
<1>15. cfg.gopLen = 0 => IsReference
  BY DEF IsReference
<1>16. Refers'
  <2>1. num = -1 <=> ~(numOut > 0)
    BY <1>2
  <2>2. ~(numOut > 0) => numOut = 0
    BY <1>2
  <2>3. CASE numOut > 0
    BY <1>5, <1>13, <1>14, <1>15, <2>1, <2>3, Zenon
  <2>4. CASE ~(numOut > 0)
    BY <1>5, <1>13, <2>1, <2>2, <2>4, Zenon
  <2> QED
    BY <2>3, <2>4
<1> QED
  BY <1>7, <1>9, <1>10, <1>11, <1>16 DEF OrderInv

-----------------------------------------------------------------------------
(* Picture pic is coded as the n-th, at position k of its group, with the  *)
(* order count p, that of the latest intra picture being ip.               *)
Coding(n, pic, k, p, ip, type, kept) ==
  /\ prepared /\ headerOk /\ cfg \in Configs /\ cfg' = cfg
  /\ n = num /\ n = numOut /\ numOut' = n + 1 /\ n \in Nat /\ k \in Nat
  /\ pic \in Nat /\ pic \notin returned /\ returned' = returned \cup {pic}
  /\ BufferInv' /\ DtsInv'
  /\ IsNew(pic, p)
  /\ ip = IF IsIrap(p) THEN p ELSE irapPoc
  /\ type = "IDR" <=> StartsCvs(n)
  /\ type \in {"IDR", "CRA"} <=> IsIrap(p)
  /\ type = "RASL" <=> ~IsIrap(p) /\ p < ip
  /\ kept = KeptRefs(p, k, type, ip)
  /\ poc' = p /\ irapPoc' = ip /\ refs' = kept /\ num' = n /\ prepared' = FALSE
  /\ headerOk' \in BOOLEAN
  /\ headerOk' <=> type = "IDR" \/ HeaderWritable(p, k, Elements(kept))
  /\ headerOk' => Decode(p, type, Elements(kept), pic)
  /\ ~headerOk' => UNCHANGED decVars

LEMMA TypeIs ==
  ASSUME cfg \in Configs, NEW pic, NEW p, IsNew(pic, p), NEW ip
  PROVE  /\ NewPictype(p, ip) = "IDR" <=> StartsCvs(num)
         /\ NewPictype(p, ip) \in {"IDR", "CRA"} <=> IsIrap(p)
         /\ NewPictype(p, ip) = "RASL" <=> ~IsIrap(p) /\ p < ip
<1> DEFINE closes == num = 0 \/ cfg.intraPeriod = 1 \/ ~Pyramid \/ ~cfg.openGop
<1>1. ASSUME StartsCvs(num) PROVE IsIrap(p) /\ closes
  <2>1. IsIrap(p)
    BY <1>1 DEF IsNew
  <2>2. HasCycle => closes
    BY DEF HasCycle, Closed
  <2>3. ~HasCycle => num = 0
    BY <1>1 DEF StartsCvs
  <2> QED
    BY <2>1, <2>2, <2>3
<1>2. ASSUME ~StartsCvs(num), IsIrap(p) PROVE ~closes
  <2>1. Pyramid /\ ~Closed /\ cfg.intraPeriod > 0
    BY <1>2 DEF IsNew
  <2>2. cfg.openGop
    BY <2>1 DEF Closed
  <2>3. cfg.intraPeriod # 1
    BY <2>1, ConfigIs
  <2>4. num # 0
    BY <1>2, FirstStarts
  <2> QED
    BY <2>1, <2>2, <2>3, <2>4
<1>3. NewPictype(p, ip) = IF IsIrap(p) THEN IF closes THEN "IDR" ELSE "CRA"
                          ELSE IF p < ip THEN "RASL" ELSE "TRAIL"
  BY DEF NewPictype
<1> HIDE DEF closes
<1> QED
  BY <1>1, <1>2, <1>3

LEMMA CodingIs ==
  ASSUME OrderInv, prepared, headerOk, BufferInv', DtsInv', cfg' = cfg, Comes,
         Code(out'.pic, out'.offset)
  PROVE  \E n, pic, k, p, ip, type, kept : Coding(n, pic, k, p, ip, type, kept)
<1>1. PICK n \in Nat : n = num /\ n = numOut
  BY DEF OrderInv, Numbers, BufferInv, Kinds
<1>2. PICK k \in Nat : out' = Shown(out'.pic, lastDts', k)
  BY DEF Comes
<1>3. out'.offset = k
  <2>1. \A a, b : Shown(a, b, k).offset = k
    BY DEF Shown
  <2> QED
    BY <1>2, <2>1, Zenon
<1>4. PICK pic \in Nat : pic = out'.pic /\ pic \notin returned
                       /\ returned' = returned \cup {pic}
  BY DEF Comes
<1>5. numOut' = n + 1
  BY <1>1 DEF Comes
<1>6. PICK p : p = NewPoc(k)
  OBVIOUS
<1>7. IsNew(pic, p)
  BY <1>1, <1>3, <1>4, <1>6, ComesNew DEF OrderInv, Numbers
<1>8. PICK ip : ip = IF IsIrap(p) THEN p ELSE irapPoc
  OBVIOUS
<1>9. PICK type : type = NewPictype(p, ip)
  OBVIOUS
<1>10. PICK kept : kept = KeptRefs(p, k, type, ip)
  OBVIOUS
<1>11. cfg \in Configs
  BY DEF OrderInv, Numbers, BufferInv, Kinds
<1>12. Code(pic, k)
  BY <1>3, <1>4
<1>13. /\ poc' = p /\ irapPoc' = ip /\ refs' = kept /\ num' = num /\ prepared' = FALSE
       /\ headerOk' = (type = "IDR" \/ HeaderWritable(p, k, Elements(refs')))
       /\ IF headerOk' THEN Decode(p, type, Elements(refs'), pic) ELSE UNCHANGED decVars
  BY <1>6, <1>8, <1>9, <1>10, <1>12, Zenon DEF Code
<1>14. headerOk' \in BOOLEAN
  BY <1>13
<1>15. /\ type = "IDR" <=> StartsCvs(n)
       /\ type \in {"IDR", "CRA"} <=> IsIrap(p)
       /\ type = "RASL" <=> ~IsIrap(p) /\ p < ip
  BY <1>1, <1>7, <1>9, <1>11, TypeIs
<1>16. Coding(n, pic, k, p, ip, type, kept)
  BY <1>1, <1>4, <1>5, <1>7, <1>8, <1>10, <1>11, <1>13, <1>14, <1>15, Zenon DEF Coding
<1> QED
  BY <1>16, Zenon

(* What the decoder makes of it, if the header can be written.             *)
LEMMA DirectNext ==
  ASSUME cfg \in Configs, ~Pyramid, NEW n \in Nat, ~StartsCvs(n)
  PROVE  /\ n > 0
         /\ (IF cfg.intraPeriod = 0 THEN n ELSE n % cfg.intraPeriod)
              = (IF cfg.intraPeriod = 0 THEN n - 1 ELSE (n - 1) % cfg.intraPeriod) + 1
<1>1. cfg.intraPeriod \in Nat /\ IntraPeriod = cfg.intraPeriod
  BY ConfigIs DEF Closed
<1>2. n > 0
  BY FirstStarts
<1>3. CASE cfg.intraPeriod = 0
  BY <1>2, <1>3
<1>4. CASE cfg.intraPeriod # 0
  <2>1. PICK c \in Nat : c = cfg.intraPeriod /\ c > 0
    BY <1>1, <1>4
  <2>2. PICK m \in Nat : m = n - 1 /\ n = m + 1
    BY <1>2
  <2>3. n % c # 0
    BY <1>1, <2>1 DEF StartsCvs, HasCycle
  <2>4. (m + 1) % c = IF (m % c) + 1 = c THEN 0 ELSE (m % c) + 1
    BY <2>1, ModNext, Zenon
  <2>5. n % c = ((n - 1) % c) + 1
    BY <2>2, <2>3, <2>4, Zenon
  <2> QED
    BY <1>2, <1>4, <2>1, <2>5, Zenon
<1> QED
  BY <1>3, <1>4

LEMMA Decoded ==
  ASSUME OrderInv, NEW n, NEW pic, NEW k, NEW p, NEW ip, NEW type, NEW kept,
         Coding(n, pic, k, p, ip, type, kept)
  PROVE  /\ kept \in Seq(Nat) /\ Len(kept) <= 15
         /\ \A i, j \in DOMAIN kept : kept[i] = kept[j] => i = j
         /\ Elements(kept) \subseteq Elements(refs)
         /\ type = "IDR" => Elements(kept) = {}
         /\ cfg.gopLen > 0 => \A r \in Elements(kept) : ~CrossesIrap(r, p, ip)
         /\ cfg.gopLen = 0 => \A i \in DOMAIN kept : kept[i] = p - i
         /\ mismatch' = {}
         /\ headerOk' => /\ Elements(kept) \subseteq dpb' /\ p \in dpb'
                         /\ tid0Poc' = IF type = "RASL" THEN tid0Poc ELSE p
                         /\ cvs' = IF type = "IDR" THEN cvs + 1 ELSE cvs
                         /\ coded' = coded \cup {Entry(pic, n, cvs', p, type, Elements(kept))}
         /\ ~headerOk' => UNCHANGED decVars
<1>1. /\ prepared /\ headerOk /\ cfg \in Configs /\ n = num /\ n = numOut /\ n \in Nat
      /\ k \in Nat /\ IsNew(pic, p) /\ p \in Nat
      /\ type = "IDR" <=> StartsCvs(n)
      /\ kept = KeptRefs(p, k, type, ip)
      /\ headerOk' => Decode(p, type, Elements(kept), pic)
      /\ ~headerOk' => UNCHANGED decVars
  BY DEF Coding, IsNew
<1>2. /\ refs \in Seq(Nat) /\ poc \in Nat /\ tid0Poc \in Int
      /\ \A i, j \in DOMAIN refs : refs[i] = refs[j] => i = j
      /\ Elements(refs) \subseteq dpb /\ mismatch = {}
      /\ cfg.gopLen = 0 => \A i \in DOMAIN refs : refs[i] = poc - i
  BY DEF OrderInv, Numbers, Refers
<1>3. ASSUME type # "IDR" PROVE p >= tid0Poc - 15 /\ p <= tid0Poc + 16
  <2>1. n > 0 /\ ~StartsCvs(n)
    BY <1>1, <1>3, FirstStarts
  <2>2. CASE Pyramid
    <3>1. PICK g \in 2..8 : g = cfg.gopLen
      BY <1>1, <2>2, ConfigIs
    <3>2. /\ tid0Poc > PocStart(n) - g /\ tid0Poc <= PocStart(n) + g
      BY <1>1, <2>1, <2>2, <3>1 DEF OrderInv, Near
    <3>3. p > PocStart(n) /\ p <= PocStart(n) + g
      BY <1>1, <2>1, <2>2, <3>1 DEF IsNew
    <3>4. PocStart(n) \in Nat
      BY <1>1, <2>1, <2>2, PocStartNext
    <3> QED
      BY <1>1, <1>2, <3>2, <3>3, <3>4
  <2>3. CASE ~Pyramid
    <3>1. p = tid0Poc + 1
      BY <1>1, <2>1, <2>3, DirectNext DEF OrderInv, Near, IsNew
    <3> QED
      BY <1>2, <3>1
  <2> QED
    BY <2>2, <2>3
<1>4. ASSUME type # "IDR", cfg.gopLen = 0 PROVE p = poc
  <2>1. n > 0 /\ ~StartsCvs(n)
    BY <1>1, <1>4, FirstStarts
  <2>2. ~Pyramid
    BY <1>4 DEF Pyramid
  <2>3. p = tid0Poc + 1 /\ tid0Poc = poc - 1
    BY <1>1, <2>1, <2>2, DirectNext DEF OrderInv, Near, IsNew
  <2> QED
    BY <1>2, <2>3
<1>5. /\ kept \in Seq(Nat) /\ Len(kept) <= 15
      /\ \A i, j \in DOMAIN kept : kept[i] = kept[j] => i = j
      /\ Elements(kept) \subseteq Elements(refs)
      /\ type = "IDR" => Elements(kept) = {}
      /\ cfg.gopLen > 0 => \A r \in Elements(kept) : ~CrossesIrap(r, p, ip)
      /\ cfg.gopLen = 0 /\ (\A i \in DOMAIN refs : refs[i] = p - i)
           => \A i \in DOMAIN kept : kept[i] = p - i
      /\ Cardinality(Elements(kept)) = Len(kept)
  BY <1>1, <1>2, KeptAre
<1>6. cfg.gopLen = 0 => \A i \in DOMAIN kept : kept[i] = p - i
  <2>1. CASE type = "IDR"
    <3>1. DOMAIN kept = {}
      BY <1>5, <2>1 DEF Elements
    <3> QED
      BY <3>1
  <2>2. CASE type # "IDR"
    BY <1>2, <1>4, <1>5, <2>2
  <2> QED
    BY <2>1, <2>2
<1>7. type = "IDR" => p = 0 /\ Elements(kept) = {}
  BY <1>1, <1>5 DEF IsNew
<1>8. Elements(kept) \subseteq dpb
  BY <1>2, <1>5
<1>9. ASSUME headerOk'
      PROVE  /\ mismatch' = {} /\ Elements(kept) \subseteq dpb' /\ p \in dpb'
             /\ tid0Poc' = IF type = "RASL" THEN tid0Poc ELSE p
             /\ cvs' = IF type = "IDR" THEN cvs + 1 ELSE cvs
             /\ coded' = coded \cup {Entry(pic, n, cvs', p, type, Elements(kept))}
  <2>1. Decode(p, type, Elements(kept), pic)
    BY <1>1, <1>9
  <2>2. /\ mismatch' = {} /\ Elements(kept) \subseteq dpb' /\ p \in dpb'
        /\ tid0Poc' = IF type = "RASL" THEN tid0Poc ELSE p
        /\ cvs' = IF type = "IDR" THEN cvs + 1 ELSE cvs
        /\ coded' = coded \cup {Entry(pic, num, cvs', p, type, Elements(kept))}
    BY <1>1, <1>2, <1>3, <1>5, <1>6, <1>7, <1>8, <2>1, DecodeIs
  <2> QED
    BY <1>1, <2>2, Zenon
<1>10. ~headerOk' => mismatch' = {}
  BY <1>1, <1>2 DEF decVars
<1> QED
  BY <1>1, <1>5, <1>6, <1>9, <1>10, Zenon

LEMMA EntryIs ==
  ASSUME NEW pic, NEW n, NEW c, NEW p, NEW type, NEW named
  PROVE  LET e == Entry(pic, n, c, p, type, named)
         IN  /\ e.pic = pic /\ e.seq = n /\ e.cvs = c /\ e.poc = p
             /\ e.type = type /\ e.refs = named
BY DEF Entry

LEMMA CodingNumbers ==
  ASSUME OrderInv, NEW n, NEW pic, NEW k, NEW p, NEW ip, NEW type, NEW kept,
         Coding(n, pic, k, p, ip, type, kept)
  PROVE  Numbers'
<1>1. /\ poc' = p /\ irapPoc' = ip /\ refs' = kept /\ num' = n /\ prepared' = FALSE
      /\ numOut' = n + 1 /\ n \in Nat /\ BufferInv' /\ DtsInv' /\ headerOk' \in BOOLEAN
      /\ IsNew(pic, p) /\ ip = IF IsIrap(p) THEN p ELSE irapPoc
  BY DEF Coding
<1>2. irapPoc \in Nat /\ tid0Poc \in Int /\ cvs \in Nat
  BY DEF OrderInv, Numbers
<1>3. p \in Nat /\ ip \in Nat
  BY <1>1, <1>2 DEF IsNew
<1>4. kept \in Seq(Nat)
  BY Decoded
<1>5. tid0Poc' \in Int /\ cvs' \in Nat
  <2>1. CASE headerOk'
    <3>1. /\ tid0Poc' = IF type = "RASL" THEN tid0Poc ELSE p
          /\ cvs' = IF type = "IDR" THEN cvs + 1 ELSE cvs
      BY <2>1, Decoded
    <3>2. cvs + 1 \in Nat /\ p \in Int
      BY <1>2, <1>3
    <3> QED
      BY <1>2, <3>1, <3>2
  <2>2. CASE ~headerOk'
    <3>1. UNCHANGED decVars
      BY <2>2, Decoded
    <3> QED
      BY <1>2, <3>1 DEF decVars
  <2> QED
    BY <2>1, <2>2
<1>6. num' = numOut' - 1
  BY <1>1
<1> QED
  BY <1>1, <1>3, <1>4, <1>5, <1>6 DEF Numbers

(* The number of the sequence that the next picture is in.                 *)
LEMMA CvsIs ==
  ASSUME OrderInv, NEW n, NEW pic, NEW k, NEW p, NEW ip, NEW type, NEW kept,
         Coding(n, pic, k, p, ip, type, kept)
  PROVE  headerOk' => cvs' = CvsOf(n) + 1
<1> SUFFICES ASSUME headerOk' PROVE cvs' = CvsOf(n) + 1
  OBVIOUS
<1>1. /\ headerOk /\ cfg \in Configs /\ n = numOut /\ n \in Nat
      /\ type = "IDR" <=> StartsCvs(n)
  BY DEF Coding
<1>2. cvs' = IF type = "IDR" THEN cvs + 1 ELSE cvs
  BY Decoded
<1>3. cvs = IF n = 0 THEN 0 ELSE CvsOf(n - 1) + 1
  BY <1>1 DEF OrderInv, Pictures
<1>4. CASE n = 0
  <2>1. StartsCvs(n) /\ CvsOf(n) = 0
    BY <1>1, <1>4, FirstStarts, CvsNext
  <2> QED
    BY <1>1, <1>2, <1>3, <1>4, <2>1
<1>5. CASE n # 0
  <2>1. PICK m \in Nat : m = n - 1 /\ n = m + 1
    BY <1>1, <1>5
  <2>2. /\ CvsOf(m) \in Nat
        /\ CvsOf(m + 1) = IF StartsCvs(m + 1) THEN CvsOf(m) + 1 ELSE CvsOf(m)
    BY <1>1, CvsNext
  <2>3. cvs = CvsOf(m) + 1
    BY <1>3, <1>5, <2>1, Zenon
  <2> QED
    BY <1>1, <1>2, <2>1, <2>2, <2>3
<1> QED
  BY <1>4, <1>5

LEMMA CodingPictures ==
  ASSUME OrderInv, NEW n, NEW pic, NEW k, NEW p, NEW ip, NEW type, NEW kept,
         Coding(n, pic, k, p, ip, type, kept)
  PROVE  Pictures'
<1>1. /\ headerOk /\ cfg \in Configs /\ cfg' = cfg /\ n = numOut /\ n = num /\ n \in Nat
      /\ numOut' = n + 1 /\ pic \in Nat /\ pic \notin returned
      /\ returned' = returned \cup {pic} /\ IsNew(pic, p)
      /\ type = "IDR" <=> StartsCvs(n)
      /\ type \in {"IDR", "CRA"} <=> IsIrap(p)
      /\ poc' = p /\ prepared' = FALSE
  BY DEF Coding
<1>2. /\ \A c \in coded : Known(c)
      /\ \A c, d \in coded : c.seq = d.seq \/ c.pic = d.pic => c = d
  BY DEF OrderInv, Pictures
<1>3. \A c : Known(c) => Known(c)'
  BY <1>1, KnownKept
<1>4. n + 1 - 1 = n /\ n + 1 # 0 /\ n < n + 1 /\ n + 1 > 0
  BY <1>1
<1>5. CASE ~headerOk'
  <2>1. coded' = coded
    BY <1>5, Decoded DEF decVars
  <2> QED
    BY <1>2, <1>3, <1>5, <2>1, Zenon DEF Pictures
<1>6. CASE headerOk'
  <2>1. PICK v : v = CvsOf(n) + 1 /\ cvs' = v
    BY <1>6, CvsIs
  <2>2. PICK e : e = Entry(pic, n, v, p, type, Elements(kept))
    OBVIOUS
  <2>3. /\ e.pic = pic /\ e.seq = n /\ e.cvs = v /\ e.poc = p
        /\ e.type = type /\ e.refs = Elements(kept)
    BY <2>2, EntryIs
  <2>4. coded' = coded \cup {e}
    BY <1>6, <2>1, <2>2, Decoded
  <2>5. Known(e)'
    <3>1. /\ p \in Nat /\ pic = FirstOf(n) + p /\ (HasCycle => p < IntraPeriod)
          /\ IsIrap(p) <=> IF cfg.intraPeriod = 0 THEN pic = 0 ELSE pic % IntraPeriod = 0
      BY <1>1 DEF IsNew
    <3>2. pic \in returned'
      BY <1>1
    <3>3. Irap(e)' <=> IsIrap(p)
      BY <1>1, <2>3, Zenon DEF Irap
    <3>4. /\ FirstOf(n)' = FirstOf(n) /\ CvsOf(n)' = CvsOf(n)
          /\ StartsCvs(n)' = StartsCvs(n) /\ HasCycle' = HasCycle
          /\ IntraPeriod' = IntraPeriod /\ Pyramid' = Pyramid /\ Closed' = Closed
      BY <1>1, SameConfig, Zenon
    <3>5. n < numOut'
      BY <1>1
    <3>6. type = "CRA" => Pyramid /\ ~Closed /\ cfg.intraPeriod > 0
      BY <1>1 DEF IsNew
    <3> QED
      BY <1>1, <2>1, <2>3, <3>1, <3>2, <3>3, <3>4, <3>5, <3>6, Zenon DEF Known
  <2>6. \A c \in coded : c.seq # n /\ c.pic # pic
    <3>1. \A c \in coded : c.seq \in Nat /\ c.seq < n /\ c.pic \in returned
      BY <1>1, <1>2 DEF Known
    <3> QED
      BY <1>1, <3>1
  <2>7. \A c \in coded' : Known(c)'
    BY <1>2, <1>3, <2>4, <2>5, Zenon
  <2>8. \A c, d \in coded' : c.seq = d.seq \/ c.pic = d.pic => c = d
    <3> SUFFICES ASSUME NEW c \in coded', NEW d \in coded',
                        c.seq = d.seq \/ c.pic = d.pic
                 PROVE  c = d
      BY Zenon
    <3>1. c \in coded \/ c = e
      BY <2>4
    <3>2. d \in coded \/ d = e
      BY <2>4
    <3> QED
      BY <1>2, <2>3, <2>6, <3>1, <3>2, Zenon
  <2>9. cvs' = (IF numOut = 0 THEN 0 ELSE CvsOf(numOut - 1) + 1)'
    <3>1. HasCycle' = HasCycle /\ IntraPeriod' = IntraPeriod
      BY <1>1, SameConfig, Zenon
    <3>2. numOut' # 0 /\ numOut' - 1 = n
      BY <1>1
    <3>3. CvsOf(numOut - 1)' = CvsOf(n)
      BY <3>1, <3>2, Zenon DEF CvsOf
    <3> QED
      BY <2>1, <3>2, <3>3, Zenon
  <2>10. e \in coded' /\ e.seq = numOut' - 1 /\ e.poc = poc'
    BY <1>1, <1>4, <2>3, <2>4
  <2> QED
    BY <2>7, <2>8, <2>9, <2>10, Zenon DEF Pictures
<1> QED
  BY <1>5, <1>6

LEMMA CodingNear ==
  ASSUME OrderInv, NEW n, NEW pic, NEW k, NEW p, NEW ip, NEW type, NEW kept,
         Coding(n, pic, k, p, ip, type, kept)
  PROVE  Near'
<1>1. /\ headerOk /\ cfg \in Configs /\ cfg' = cfg /\ n = numOut /\ n = num /\ n \in Nat
      /\ numOut' = n + 1 /\ IsNew(pic, p)
      /\ ip = IF IsIrap(p) THEN p ELSE irapPoc
      /\ type = "IDR" <=> StartsCvs(n)
      /\ type \in {"IDR", "CRA"} <=> IsIrap(p)
      /\ type = "RASL" <=> ~IsIrap(p) /\ p < ip
      /\ poc' = p /\ irapPoc' = ip /\ prepared' = FALSE
  BY DEF Coding
<1>2. p \in Nat /\ irapPoc \in Nat /\ tid0Poc \in Int
  BY <1>1 DEF IsNew, OrderInv, Numbers
<1>3. Pyramid' = Pyramid /\ PocStart(n + 1)' = PocStart(n + 1)
  BY <1>1, SameConfig, Zenon
<1>4. headerOk' => tid0Poc' = IF type = "RASL" THEN tid0Poc ELSE p
  BY Decoded
<1>5. numOut' - 1 = n
  BY <1>1
<1>6. CASE ~Pyramid
  <2>1. irapPoc = 0
    BY <1>6 DEF OrderInv, Near
  <2>2. IsIrap(p) => p = 0
    BY <1>1, <1>6 DEF IsNew
  <2>3. ip = 0
    BY <1>1, <2>1, <2>2
  <2>4. ~(p < 0)
    BY <1>2
  <2>5. type # "RASL"
    BY <1>1, <2>3, <2>4, Zenon
  <2>6. p = IF cfg.intraPeriod = 0 THEN n ELSE n % cfg.intraPeriod
    BY <1>1, <1>6 DEF IsNew
  <2>7. headerOk' => tid0Poc' = p
    BY <1>4, <2>5
  <2>8. headerOk' => tid0Poc' = IF cfg'.intraPeriod = 0 THEN numOut' - 1
                               ELSE (numOut' - 1) % cfg'.intraPeriod
    BY <1>1, <1>5, <2>6, <2>7, Zenon
  <2> QED
    BY <1>1, <1>3, <1>6, <2>3, <2>7, <2>8, Zenon DEF Near
<1>7. CASE Pyramid
  <2>1. PICK g \in 2..8 : g = cfg.gopLen
    BY <1>1, <1>7, ConfigIs
  <2>2. PICK b \in Nat : b = PocStart(n + 1)
    BY <1>1, <1>7, PocStartNext
  <2>3. ASSUME headerOk' PROVE ip <= tid0Poc' /\ tid0Poc' > b - g /\ tid0Poc' <= b + g
    <3>1. CASE StartsCvs(n)
      <4>1. b = 0 /\ p = 0 /\ IsIrap(p) /\ type = "IDR"
        BY <1>1, <1>7, <2>2, <3>1, PocStartNext DEF IsNew
      <4>2. ip = 0 /\ tid0Poc' = 0
        BY <1>1, <1>4, <2>3, <4>1
      <4> QED
        BY <2>1, <4>1, <4>2
    <3>2. CASE ~StartsCvs(n)
      <4>1. PICK a \in Nat : a = PocStart(n) /\ (b = a \/ b = a + g)
        BY <1>1, <1>7, <2>1, <2>2, <3>2, PocStartNext
      <4>2. p > a /\ p <= a + g
        BY <1>1, <1>7, <2>1, <3>2, <4>1 DEF IsNew
      <4>3. n > 0
        BY <1>1, <3>2, FirstStarts
      <4>4. irapPoc <= tid0Poc /\ tid0Poc <= a + g
        BY <1>1, <1>7, <2>1, <4>1, <4>3 DEF OrderInv, Near
      <4>5. CASE type = "RASL"
        <5>1. p < ip /\ ip = irapPoc /\ tid0Poc' = tid0Poc
          BY <1>1, <1>4, <2>3, <4>5
        <5> QED
          BY <1>2, <2>1, <4>1, <4>2, <4>4, <5>1
      <4>6. CASE type # "RASL"
        <5>1. tid0Poc' = p
          BY <1>4, <2>3, <4>6
        <5>2. ip = p \/ ~(p < ip)
          BY <1>1, <4>6, Zenon
        <5>3. ip \in Nat
          BY <1>1, <1>2
        <5> QED
          BY <1>2, <2>1, <4>1, <4>2, <5>1, <5>2, <5>3
      <4> QED
        BY <4>5, <4>6
    <3> QED
      BY <3>1, <3>2
  <2>4. PocStart(numOut)' = b
    <3>1. PocStart(numOut)' = PocStart(n + 1)
      <4>1. Closed' = Closed
        BY <1>1, SameConfig, Zenon
      <4> QED
        BY <1>1, <4>1, Zenon DEF PocStart, GroupOf
    <3> QED
      BY <2>2, <3>1
  <2> QED
    BY <1>1, <1>3, <1>7, <2>1, <2>3, <2>4, Zenon DEF Near
<1> QED
  BY <1>6, <1>7

LEMMA CodingAccess ==
  ASSUME OrderInv, NEW n, NEW pic, NEW k, NEW p, NEW ip, NEW type, NEW kept,
         Coding(n, pic, k, p, ip, type, kept)
  PROVE  OpenAccess'
<1> SUFFICES ASSUME Pyramid', ~Closed', cfg'.intraPeriod > 0
             PROVE  /\ irapPoc' % cfg'.intraPeriod = 0
                    /\ \A i \in coded' : Irap(i) =>
                         /\ i.pic <= irapPoc'
                         /\ \A d \in coded' : d.pic >= i.pic => d.seq >= i.seq
                         /\ \A c \in coded' : c.seq > i.seq /\ c.pic > i.pic =>
                              \A r \in c.refs : r >= i.pic
  BY Zenon DEF OpenAccess, Irap
<1>1. /\ headerOk /\ cfg \in Configs /\ cfg' = cfg /\ n = numOut /\ n = num /\ n \in Nat
      /\ numOut' = n + 1 /\ IsNew(pic, p) /\ pic \in Nat
      /\ ip = IF IsIrap(p) THEN p ELSE irapPoc
      /\ type \in {"IDR", "CRA"} <=> IsIrap(p)
      /\ irapPoc' = ip
  BY DEF Coding
<1>2. Pyramid /\ ~Closed /\ cfg.intraPeriod > 0
  <2>1. Pyramid' = Pyramid /\ Closed' = Closed
    BY <1>1, SameConfig, Zenon
  <2> QED
    BY <1>1, <2>1
<1>3. ~HasCycle /\ \A m : FirstOf(m) = 0
  BY <1>2 DEF HasCycle, FirstOf
<1>4. PICK period \in Nat : period = cfg.intraPeriod /\ period > 0 /\ IntraPeriod = period
  BY <1>1, <1>2, ConfigIs
<1>5. p \in Nat /\ pic = p
  BY <1>1, <1>3 DEF IsNew
<1>6. irapPoc \in Nat /\ irapPoc % period = 0
  BY <1>2, <1>4 DEF OrderInv, Numbers, OpenAccess
<1>7. IsIrap(p) <=> p % period = 0
  BY <1>1, <1>4, <1>5 DEF IsNew
<1>8. ip \in Nat /\ ip % period = 0 /\ cfg.gopLen > 0
  BY <1>1, <1>2, <1>5, <1>6, <1>7 DEF Pyramid
<1>9. \A c \in coded : /\ c.seq \in Nat /\ c.seq < n /\ c.pic \in Nat /\ c.pic \in returned
                       /\ Irap(c) => c.pic % period = 0
  <2>1. returned \subseteq Nat
    <3>1. returned \subseteq 0..(numIn - 1)
      BY DEF OrderInv, Numbers, BufferInv, Kinds
    <3> QED
      BY <3>1
  <2>2. \A c \in coded : Known(c)
    BY DEF OrderInv, Pictures
  <2>3. period # 0
    BY <1>4
  <2>4. \A c \in coded : Irap(c) => c.pic % period = 0
    BY <1>4, <2>2, <2>3, Zenon DEF Known
  <2>5. \A c \in coded : c.seq \in Nat /\ c.seq < n /\ c.pic \in returned
    BY <1>1, <2>2, Zenon DEF Known
  <2> QED
    BY <2>1, <2>4, <2>5
<1>10. \A i \in coded : Irap(i) =>
         /\ i.pic <= irapPoc
         /\ \A d \in coded : d.pic >= i.pic => d.seq >= i.seq
         /\ \A c \in coded : c.seq > i.seq /\ c.pic > i.pic => \A r \in c.refs : r >= i.pic
  BY <1>2 DEF OrderInv, OpenAccess
<1>11. ASSUME IsIrap(p) PROVE \A c \in coded : c.pic < p
  <2>1. CASE StartsCvs(n)
    <3>1. n = 0
      BY <1>3, <2>1 DEF StartsCvs
    <3> QED
      BY <1>9, <3>1
  <2>2. CASE ~StartsCvs(n)
    <3>1. \A q \in returned : q < p
      BY <1>1, <1>5, <1>11, <2>2 DEF IsNew
    <3> QED
      BY <1>9, <3>1
  <2> QED
    BY <2>1, <2>2
<1>12. \A i \in coded : Irap(i) => i.pic <= ip
  BY <1>1, <1>5, <1>6, <1>9, <1>10, <1>11
<1>13. CASE ~headerOk'
  <2>1. coded' = coded
    BY <1>13, Decoded DEF decVars
  <2> QED
    BY <1>1, <1>4, <1>8, <1>10, <1>12, <2>1
<1>14. CASE headerOk'
  <2>1. PICK e : e = Entry(pic, n, cvs', p, type, Elements(kept))
    OBVIOUS
  <2>2. /\ e.pic = p /\ e.seq = n /\ e.type = type /\ e.refs = Elements(kept)
    BY <1>5, <2>1, EntryIs
  <2>3. coded' = coded \cup {e}
    BY <1>14, <2>1, Decoded
  <2>4. Irap(e) <=> IsIrap(p)
    BY <1>1, <2>2, Zenon DEF Irap
  <2>5. \A r \in Elements(kept) : r \in Nat /\ ~CrossesIrap(r, p, ip)
    <3>1. kept \in Seq(Nat)
      BY Decoded
    <3>2. \A r \in Elements(kept) : ~CrossesIrap(r, p, ip)
      BY <1>8, Decoded
    <3> QED
      BY <3>1, <3>2, ElementsIn
  <2>6. ASSUME NEW i \in coded, Irap(i), p > i.pic, NEW r \in Elements(kept)
        PROVE  r >= i.pic
    <3>1. PICK q \in Nat : q = i.pic /\ q % period = 0 /\ q <= ip /\ q < p
      BY <1>5, <1>9, <1>12, <2>6
    <3>2. r \in Nat /\ ~(r < ip /\ ip < p) /\ ~(r < ip - period)
      BY <1>4, <2>5, <2>6 DEF CrossesIrap
    <3>3. CASE q < ip
      <4>1. q + period <= ip
        BY <1>4, <1>8, <3>1, <3>3, PeriodApart
      <4> QED
        BY <1>8, <3>1, <3>2, <4>1
    <3>4. CASE q = ip
      BY <1>5, <1>8, <3>1, <3>2, <3>4
    <3> QED
      BY <1>8, <3>1, <3>3, <3>4
  <2>7. ASSUME NEW i \in coded', Irap(i) PROVE i.pic <= ip
    <3>1. CASE i = e
      <4>1. IsIrap(p)
        BY <2>4, <2>7, <3>1
      <4> QED
        BY <1>1, <1>5, <2>2, <3>1, <4>1
    <3>2. CASE i \in coded
      BY <1>12, <2>7, <3>2
    <3> QED
      BY <2>3, <3>1, <3>2
  <2>8. ASSUME NEW i \in coded', Irap(i), NEW d \in coded', d.pic >= i.pic
        PROVE  d.seq >= i.seq
    <3>1. CASE i \in coded /\ d \in coded
      BY <1>10, <2>8, <3>1
    <3>2. CASE i = e /\ d = e
      BY <1>1, <2>2, <3>2
    <3>3. CASE i \in coded /\ d = e
      BY <1>1, <1>9, <2>2, <3>3
    <3>4. CASE i = e /\ d \in coded
      <4>1. IsIrap(p) /\ d.pic < p /\ d.pic >= p /\ d.pic \in Nat
        BY <1>9, <1>11, <2>2, <2>4, <2>8, <3>4
      <4> QED
        BY <1>5, <4>1
    <3> QED
      BY <2>3, <3>1, <3>2, <3>3, <3>4
  <2>9. ASSUME NEW i \in coded', Irap(i), NEW c \in coded', c.seq > i.seq, c.pic > i.pic,
               NEW r \in c.refs
        PROVE  r >= i.pic
    <3>1. CASE i = e
      <4>1. c = e \/ c \in coded
        BY <2>3
      <4>2. ~(c.seq > n)
        BY <1>1, <1>9, <2>2, <4>1
      <4> QED
        BY <2>2, <2>9, <3>1, <4>2, Zenon
    <3>2. CASE i \in coded /\ c \in coded
      BY <1>10, <2>9, <3>2
    <3>3. CASE i \in coded /\ c = e
      BY <2>2, <2>6, <2>9, <3>3
    <3> QED
      BY <2>3, <3>1, <3>2, <3>3
  <2> QED
    BY <1>1, <1>4, <1>8, <2>7, <2>8, <2>9
<1> QED
  BY <1>13, <1>14

LEMMA CodingRefers ==
  ASSUME OrderInv, NEW n, NEW pic, NEW k, NEW p, NEW ip, NEW type, NEW kept,
         Coding(n, pic, k, p, ip, type, kept)
  PROVE  Refers'
<1>1. /\ headerOk /\ cfg \in Configs /\ cfg' = cfg /\ n = numOut /\ n = num /\ n \in Nat
      /\ numOut' = n + 1 /\ IsNew(pic, p) /\ pic \notin returned
      /\ type = "IDR" <=> StartsCvs(n)
      /\ poc' = p /\ refs' = kept /\ prepared' = FALSE
  BY DEF Coding
<1>2. /\ kept \in Seq(Nat) /\ Len(kept) <= 15
      /\ \A i, j \in DOMAIN kept : kept[i] = kept[j] => i = j
      /\ Elements(kept) \subseteq Elements(refs)
      /\ type = "IDR" => Elements(kept) = {}
      /\ cfg.gopLen = 0 => \A i \in DOMAIN kept : kept[i] = p - i
      /\ mismatch' = {}
  BY Decoded
<1>3. /\ Elements(refs) \subseteq dpb
      /\ \A r \in Elements(refs) : \E c \in coded : c.poc = r /\ c.cvs = cvs
  BY DEF OrderInv, Refers
<1>4. Elements(kept) \subseteq dpb' /\ (headerOk' => p \in dpb')
  <2>1. CASE headerOk'
    BY <2>1, Decoded
  <2>2. CASE ~headerOk'
    <3>1. dpb' = dpb
      BY <2>2, Decoded DEF decVars
    <3> QED
      BY <1>2, <1>3, <2>2, <3>1
  <2> QED
    BY <2>1, <2>2
<1>5. \A r \in Elements(kept) : \E c \in coded' : c.poc = r /\ c.cvs = cvs'
  <2>1. CASE headerOk'
    <3>1. CASE type = "IDR"
      BY <1>2, <3>1
    <3>2. CASE type # "IDR"
      <4>1. cvs' = cvs /\ coded \subseteq coded'
        BY <2>1, <3>2, Decoded
      <4> QED
        BY <1>2, <1>3, <4>1
    <3> QED
      BY <3>1, <3>2
  <2>2. CASE ~headerOk'
    <3>1. coded' = coded /\ cvs' = cvs
      BY <2>2, Decoded DEF decVars
    <3> QED
      BY <1>2, <1>3, <3>1
  <2> QED
    BY <2>1, <2>2
<1>6. ASSUME headerOk', p \in Elements(kept) PROVE FALSE
  <2>1. type # "IDR"
    BY <1>2, <1>6
  <2>2. PICK c \in coded : c.poc = p /\ c.cvs = cvs
    BY <1>2, <1>3, <1>6
  <2>3. cvs = CvsOf(n) + 1
    BY <1>6, <2>1, CvsIs, Decoded
  <2>4. /\ c.seq \in Nat /\ c.pic \in returned /\ c.pic = FirstOf(c.seq) + p
        /\ c.cvs = CvsOf(c.seq) + 1
    BY <2>2 DEF OrderInv, Pictures, Known
  <2>5. CvsOf(c.seq) = CvsOf(n)
    <3>1. CvsOf(c.seq) \in Nat /\ CvsOf(n) \in Nat
      BY <1>1, <2>4, CvsNext
    <3> QED
      BY <2>2, <2>3, <2>4, <3>1
  <2>6. FirstOf(c.seq) = FirstOf(n)
    <3>1. CASE HasCycle
      <4>1. c.seq \div IntraPeriod = n \div IntraPeriod
        BY <2>5, <3>1, Zenon DEF CvsOf
      <4> QED
        BY <3>1, <4>1, Zenon DEF FirstOf
    <3>2. CASE ~HasCycle
      BY <3>2 DEF FirstOf
    <3> QED
      BY <3>1, <3>2
  <2>7. pic = FirstOf(n) + p
    BY <1>1 DEF IsNew
  <2> QED
    BY <1>1, <2>4, <2>6, <2>7, Zenon
<1>7. cfg'.gopLen = 0 => \A i \in DOMAIN refs' : refs'[i] = poc' - i
  BY <1>1, <1>2
<1>8. Len(refs') <= IF prepared' THEN 16 ELSE 15
  BY <1>1, <1>2
<1>9. \A i, j \in DOMAIN refs' : refs'[i] = refs'[j] => i = j
  BY <1>1, <1>2, Zenon
<1>10. ~prepared' /\ headerOk' /\ numOut' > 0 => poc' \in dpb' /\ poc' \notin Elements(refs')
  BY <1>1, <1>4, <1>6, Zenon
<1> QED
  BY <1>1, <1>2, <1>4, <1>5, <1>7, <1>8, <1>9, <1>10, Zenon DEF Refers

-----------------------------------------------------------------------------
LEMMA OrderStep == OrderInv /\ [ONext]_allVars => OrderInv'
<1> SUFFICES ASSUME OrderInv, [ONext]_allVars PROVE OrderInv'
  OBVIOUS
<1>1. BufferInv /\ DtsInv
  BY DEF OrderInv, Numbers
<1>2. CASE Prepare
  BY <1>2, PrepareStep
<1>3. CASE EncodeNext \/ EncodeFlush
  <2>1. prepared /\ headerOk /\ (Feed \/ Flush) /\ Then
    BY <1>3 DEF EncodeNext, EncodeFlush
  <2>2. BufferInv' /\ DtsInv' /\ cfg' = cfg /\ (Nothing \/ (Comes /\ out' # None))
    BY <1>1, <2>1, CallShows
  <2>3. CASE Nothing
    <3>1. UNCHANGED <<encVars, decVars, prepared>>
      BY <2>1, <2>3, Zenon DEF Then, Nothing
    <3> QED
      BY <2>2, <2>3, <3>1, StutterStep DEF Nothing
  <2>4. CASE Comes /\ out' # None
    <3>1. Code(out'.pic, out'.offset)
      BY <2>1, <2>4, Zenon DEF Then
    <3>2. PICK n, pic, k, p, ip, type, kept : Coding(n, pic, k, p, ip, type, kept)
      BY <2>1, <2>2, <2>4, <3>1, CodingIs
    <3>3. Numbers'
      BY <3>2, CodingNumbers
    <3>4. Pictures'
      BY <3>2, CodingPictures
    <3>5. OpenAccess'
      BY <3>2, CodingAccess
    <3>6. Near'
      BY <3>2, CodingNear
    <3>7. Refers'
      BY <3>2, CodingRefers
    <3> QED
      BY <3>3, <3>4, <3>5, <3>6, <3>7 DEF OrderInv
  <2> QED
    BY <2>2, <2>3, <2>4
<1>4. CASE UNCHANGED allVars
  <2>1. UNCHANGED vars /\ UNCHANGED <<encVars, decVars, prepared>>
    BY <1>4 DEF allVars
  <2>2. BufferInv' /\ DtsInv'
    BY <1>1, <2>1, TimesStep
  <2>3. cfg' = cfg /\ numOut' = numOut /\ returned' = returned
    BY <2>1 DEF vars
  <2> QED
    BY <2>1, <2>2, <2>3, StutterStep
<1> QED
  BY <1>2, <1>3, <1>4 DEF ONext

LEMMA OrderAlways == OSpec => []OrderInv
BY OrderInit, OrderStep, PTL DEF OSpec

-----------------------------------------------------------------------------
(* The sequence that picture x is in, and its order count in it.           *)
LEMMA ShownIn ==
  ASSUME cfg \in Configs, HasCycle, NEW c, Known(c)
  PROVE  c.cvs = (c.pic \div IntraPeriod) + 1 /\ c.poc = c.pic % IntraPeriod
<1>1. PICK w \in Nat : w = IntraPeriod /\ w > 0
  BY ConfigIs
<1>2. PICK s \in Nat : s = c.seq
  BY DEF Known
<1>3. PICK a \in Nat : a = s \div w
  BY <1>1, QuotientNat
<1>4. /\ c.pic = w * a + c.poc /\ c.poc \in Nat /\ c.poc < w
      /\ c.cvs = a + 1
  BY <1>1, <1>2, <1>3 DEF Known, FirstOf, CvsOf
<1>5. c.poc \in 0..(w - 1) /\ a \in Int /\ w * a \in Nat
  BY <1>1, <1>4
<1>6. c.pic \in Nat
  BY <1>4, <1>5
<1>7. c.pic \div w = a /\ c.pic % w = c.poc
  BY <1>1, <1>4, <1>5, <1>6, DivisionUnique
<1> QED
  BY <1>1, <1>4, <1>7

LEMMA DisplayOrderHolds == OrderInv => DisplayOrder
<1> SUFFICES ASSUME OrderInv, NEW c \in coded, NEW d \in coded, c.pic < d.pic
             PROVE  c.cvs < d.cvs \/ (c.cvs = d.cvs /\ c.poc < d.poc)
  BY DEF DisplayOrder
<1>1. cfg \in Configs /\ returned \subseteq Nat
  <2>1. returned \subseteq 0..(numIn - 1)
    BY DEF OrderInv, Numbers, BufferInv, Kinds
  <2> QED
    BY <2>1 DEF OrderInv, Numbers, BufferInv, Kinds
<1>2. Known(c) /\ Known(d)
  BY DEF OrderInv, Pictures
<1>3. c.pic \in Nat /\ d.pic \in Nat /\ c.poc \in Nat /\ d.poc \in Nat
  BY <1>1, <1>2 DEF Known
<1>4. CASE HasCycle
  <2>1. PICK w \in Nat : w = IntraPeriod /\ w > 0
    BY <1>1, <1>4, ConfigIs
  <2>2. /\ c.cvs = (c.pic \div w) + 1 /\ c.poc = c.pic % w
        /\ d.cvs = (d.pic \div w) + 1 /\ d.poc = d.pic % w
    BY <1>1, <1>2, <1>4, <2>1, ShownIn
  <2>3. PICK x \in Nat, y \in Nat : x = c.pic /\ y = d.pic /\ x < y
    BY <1>3
  <2>4. PICK a \in Nat, r \in 0..(w - 1) : x = w * a + r /\ a = x \div w /\ r = x % w
    BY <2>1, Divided
  <2>5. PICK b \in Nat, s \in 0..(w - 1) : y = w * b + s /\ b = y \div w /\ s = y % w
    BY <2>1, Divided
  <2>6. x \div w <= y \div w
    BY <2>1, <2>3, QuotientGrows
  <2>7. a <= b
    BY <2>4, <2>5, <2>6
  <2>8. a = b => r < s
    <3>1. ASSUME a = b PROVE r < s
      <4>1. w * a = w * b
        BY <3>1
      <4>2. PICK z \in Nat : z = w * a
        BY <2>1
      <4>3. x = z + r /\ y = z + s
        BY <2>4, <2>5, <4>1, <4>2
      <4> QED
        BY <2>3, <4>3
    <3> QED
      BY <3>1
  <2>9. c.cvs = a + 1 /\ d.cvs = b + 1 /\ c.poc = r /\ d.poc = s
    BY <2>2, <2>3, <2>4, <2>5
  <2> QED
    BY <2>7, <2>8, <2>9
<1>5. CASE ~HasCycle
  BY <1>2, <1>3, <1>5 DEF Known, FirstOf, CvsOf
<1> QED
  BY <1>4, <1>5

LEMMA RandomAccessHolds == OrderInv => RandomAccess
<1> SUFFICES ASSUME OrderInv PROVE RandomAccess
  OBVIOUS
<1>1. cfg \in Configs
  BY DEF OrderInv, Numbers, BufferInv, Kinds
<1>2. \A c \in coded : Known(c)
  BY DEF OrderInv, Pictures
<1>3. ~Closed => \A c \in coded : Irap(c) <=>
        IF cfg.intraPeriod = 0 THEN c.pic = 0 ELSE c.pic % cfg.intraPeriod = 0
  <2>1. ~Closed => IntraPeriod = cfg.intraPeriod
    BY <1>1, ConfigIs
  <2> QED
    BY <1>2, <2>1, Zenon DEF Known
<1>4. ASSUME NEW i \in coded, NEW c \in coded, Irap(i), c.seq > i.seq, c.pic > i.pic,
             NEW d \in coded, d.cvs = c.cvs, d.poc \in c.refs
      PROVE  d.seq >= i.seq
  <2>1. PICK m \in Nat, n \in Nat, l \in Nat : m = i.seq /\ n = c.seq /\ l = d.seq
    BY <1>2 DEF Known
  <2>2. CASE StartsCvs(m)
    <3>1. CvsOf(m) <= CvsOf(n) /\ CvsOf(m) \in Nat /\ CvsOf(n) \in Nat
      BY <1>1, <1>4, <2>1, CvsGrows
    <3>2. CvsOf(l) + 1 = CvsOf(n) + 1 /\ CvsOf(l) \in Nat
      BY <1>1, <1>2, <1>4, <2>1, CvsNext DEF Known
    <3>3. l < m => CvsOf(l) < CvsOf(m)
      BY <1>1, <2>2, CvsGrows
    <3> QED
      BY <2>1, <3>1, <3>2, <3>3
  <2>3. CASE ~StartsCvs(m)
    <3>1. i.type # "IDR"
      BY <1>2, <2>1, <2>3, Zenon DEF Known
    <3>2. i.type = "CRA"
      BY <1>4, <3>1 DEF Irap
    <3>3. Pyramid /\ ~Closed /\ cfg.intraPeriod > 0
      BY <1>2, <3>2, Zenon DEF Known
    <3>4. ~HasCycle
      BY <3>3 DEF HasCycle
    <3>5. d.pic = d.poc /\ d.poc \in Nat
      BY <1>2, <3>4 DEF Known, FirstOf
    <3>6. /\ \A r \in c.refs : r >= i.pic
          /\ d.pic >= i.pic => d.seq >= i.seq
      BY <1>4, <3>3 DEF OrderInv, OpenAccess
    <3> QED
      BY <1>4, <3>5, <3>6
  <2> QED
    BY <2>2, <2>3
<1> QED
  BY <1>3, <1>4, Zenon DEF RandomAccess

LEMMA AgreesHolds == OrderInv => DecoderAgrees
<1> SUFFICES ASSUME OrderInv PROVE DecoderAgrees
  OBVIOUS
<1>1. /\ refs \in Seq(Nat) /\ mismatch = {}
      /\ \A i, j \in DOMAIN refs : refs[i] = refs[j] => i = j
      /\ Len(refs) <= IF prepared THEN 16 ELSE 15
  BY DEF OrderInv, Numbers, Refers
<1>2. Len(refs) <= MaxRefPicCount
  BY <1>1 DEF MaxRefPicCount
<1>3. Cardinality(Elements(refs)) = Len(refs)
  BY <1>1, DistinctCount
<1>4. ASSUME coded # {}, headerOk, ~prepared PROVE Last.poc = poc
  <2>1. \A c \in coded : c.seq \in Nat /\ c.seq < numOut
    BY DEF OrderInv, Pictures, Known
  <2>2. numOut \in Nat
    BY DEF OrderInv, Numbers, BufferInv, Kinds
  <2>3. numOut > 0
    BY <1>4, <2>1, <2>2
  <2>4. PICK e \in coded : e.seq = numOut - 1 /\ e.poc = poc
    BY <1>4, <2>3 DEF OrderInv, Pictures
  <2>5. \A d \in coded : d.seq <= e.seq
    BY <2>1, <2>2, <2>4
  <2>6. Last \in coded /\ \A d \in coded : d.seq <= Last.seq
    BY <2>5, Zenon DEF Last
  <2>7. Last.seq = e.seq
    BY <2>1, <2>2, <2>4, <2>5, <2>6
  <2>8. \A c, d \in coded : c.seq = d.seq => c = d
    BY DEF OrderInv, Pictures
  <2> QED
    BY <2>4, <2>6, <2>7, <2>8, Zenon
<1> QED
  BY <1>1, <1>2, <1>3, <1>4 DEF DecoderAgrees

(* The decoder shows the pictures in the order in which they were given,   *)
(* for groups of any kind and every intra period that PeriodsFit allows    *)
(* (with --gop=8, whole groups; it is false for the accepted period 1):    *)
(* the order counts that encoder_state_init_new_frame gives begin again at *)
(* the IDR pictures and nowhere else.                                      *)
THEOREM DisplayOrderCorrect == OSpec => []DisplayOrder
BY OrderAlways, DisplayOrderHolds, PTL

(* Decoding can start at every intra picture: what is shown after it does  *)
(* not refer to what was coded before it, because                          *)
(* encoder_state_remove_refs keeps no reference across an intra picture.   *)
(* Without closed groups the intra pictures are a period apart as they are *)
(* shown.  For the periods that PeriodsFit allows.                         *)
THEOREM RandomAccessCorrect == OSpec => []RandomAccess
BY OrderAlways, RandomAccessHolds, PTL

(* The decoder derives the order count that the encoder means from its     *)
(* last bits, and holds each picture that a slice header names, which are  *)
(* those to which the encoder refers; the list of references keeps to its  *)
(* capacity and names no picture twice.  For the periods that PeriodsFit   *)
(* allows.                                                                 *)
THEOREM DecoderAgreesCorrect == OSpec => []DecoderAgrees
BY OrderAlways, AgreesHolds, PTL

-----------------------------------------------------------------------------
(* Without groups the whole promise holds: no table can lack a reference,  *)
(* and the picture before is always there to refer to.                     *)
PlainInv ==
  cfg.gopLen = 0 =>
    /\ headerOk /\ (prepared /\ numOut > 0 => Len(refs) > 0)
    /\ \A c \in coded : c.type \in {"RASL", "TRAIL"} => c.refs # {}

LEMMA PlainKept ==
  ASSUME OrderInv, PlainInv, cfg.gopLen = 0,
         NEW n, NEW pic, NEW k, NEW p, NEW ip, NEW type, NEW kept,
         Coding(n, pic, k, p, ip, type, kept)
  PROVE  PlainInv'
<1>1. /\ cfg \in Configs /\ cfg' = cfg /\ prepared /\ n = numOut /\ n \in Nat
      /\ type = "IDR" <=> StartsCvs(n)
      /\ kept = KeptRefs(p, k, type, ip) /\ prepared' = FALSE
      /\ headerOk' <=> type = "IDR" \/ HeaderWritable(p, k, Elements(kept))
  BY DEF Coding
<1>2. headerOk'
  BY <1>1 DEF HeaderWritable
<1>3. coded' = coded \cup {Entry(pic, n, cvs', p, type, Elements(kept))}
  BY <1>2, Decoded
<1>4. ASSUME type # "IDR" PROVE Elements(kept) # {}
  <2>1. n > 0
    BY <1>1, <1>4, FirstStarts
  <2>2. Len(refs) > 0 /\ refs \in Seq(Nat)
    BY <1>1, <2>1 DEF PlainInv, OrderInv, Numbers
  <2>3. 1 \in DOMAIN refs /\ 1 <= cfg.refFrames
    <3>1. DOMAIN refs = 1..Len(refs) /\ Len(refs) \in Nat
      BY <2>2
    <3>2. 1 \in DOMAIN refs
      BY <2>2, <3>1
    <3>3. PICK f \in 1..15 : f = cfg.refFrames
      BY <1>1, ConfigIs
    <3>4. 1 <= f
      BY <3>3
    <3> QED
      BY <3>2, <3>3, <3>4
  <2> DEFINE I == KeptPlaces(p, k, type, ip)
  <2>4. 1 \in I /\ I \in SUBSET (DOMAIN refs)
    BY <1>4, <2>3 DEF KeptPlaces
  <2> HIDE DEF I
  <2>5. /\ Cardinality(I) \in Nat /\ DOMAIN kept = 1..Cardinality(I)
    BY <1>1, <2>2, <2>4, EntriesSelected DEF KeptRefs, I
  <2>6. Cardinality(I) # 0
    <3>1. IsFiniteSet(1..Len(refs)) /\ DOMAIN refs = 1..Len(refs)
      BY <2>2, FS_Interval
    <3>2. IsFiniteSet(I)
      BY <2>4, <3>1, FS_Subset
    <3> QED
      BY <2>4, <3>2, FS_EmptySet
  <2>7. 1 \in DOMAIN kept
    BY <2>5, <2>6
  <2> QED
    BY <2>7 DEF Elements
<1>5. \A c \in coded' : c.type \in {"RASL", "TRAIL"} => c.refs # {}
  <2>1. PICK e : e = Entry(pic, n, cvs', p, type, Elements(kept))
    OBVIOUS
  <2>2. e.type = type /\ e.refs = Elements(kept)
    BY <2>1, EntryIs
  <2>3. e.type \in {"RASL", "TRAIL"} => e.refs # {}
    BY <1>4, <2>2
  <2>4. \A c \in coded : c.type \in {"RASL", "TRAIL"} => c.refs # {}
    BY DEF PlainInv
  <2> QED
    BY <1>3, <2>1, <2>3, <2>4
<1> QED
  BY <1>1, <1>2, <1>5 DEF PlainInv

LEMMA PlainStep == OrderInv /\ PlainInv /\ [ONext]_allVars => PlainInv'
<1> SUFFICES ASSUME OrderInv, PlainInv, [ONext]_allVars, cfg'.gopLen = 0 PROVE PlainInv'
  BY DEF PlainInv
<1>1. BufferInv /\ DtsInv /\ num = IF prepared THEN numOut ELSE numOut - 1
  BY DEF OrderInv, Numbers
<1>2. CASE Prepare
  <2>1. /\ cfg' = cfg /\ headerOk' = headerOk /\ coded' = coded /\ numOut' = numOut
        /\ ~prepared
        /\ num # -1 => refs' = (IF IsReference THEN <<poc>> \o refs ELSE refs)
    BY <1>2 DEF Prepare, vars, decVars
  <2>2. ASSUME numOut > 0 PROVE Len(refs') > 0
    <3>1. num # -1
      <4>1. numOut \in Nat
        BY <1>1 DEF BufferInv, Kinds
      <4> QED
        BY <1>1, <2>1, <2>2, <4>1
    <3>2. IsReference
      BY <2>1 DEF IsReference
    <3>3. refs' = <<poc>> \o refs
      BY <2>1, <3>1, <3>2
    <3>4. poc \in Nat /\ refs \in Seq(Nat)
      BY DEF OrderInv, Numbers
    <3> QED
      BY <3>3, <3>4
  <2> QED
    BY <2>1, <2>2 DEF PlainInv
<1>3. CASE EncodeNext \/ EncodeFlush
  <2>1. prepared /\ headerOk /\ (Feed \/ Flush) /\ Then
    BY <1>3 DEF EncodeNext, EncodeFlush
  <2>2. BufferInv' /\ DtsInv' /\ cfg' = cfg /\ (Nothing \/ (Comes /\ out' # None))
    BY <1>1, <2>1, CallShows
  <2>3. CASE Nothing
    <3>1. UNCHANGED <<encVars, decVars, prepared>>
      BY <2>1, <2>3, Zenon DEF Then, Nothing
    <3>2. /\ headerOk' = headerOk /\ prepared' = prepared /\ refs' = refs
          /\ coded' = coded /\ numOut' = numOut
      BY <2>3, <3>1 DEF encVars, decVars, Nothing
    <3> QED
      BY <2>2, <3>2 DEF PlainInv
  <2>4. CASE Comes /\ out' # None
    <3>1. Code(out'.pic, out'.offset)
      BY <2>1, <2>4, Zenon DEF Then
    <3>2. PICK n, pic, k, p, ip, type, kept : Coding(n, pic, k, p, ip, type, kept)
      BY <2>1, <2>2, <2>4, <3>1, CodingIs
    <3>3. cfg.gopLen = 0
      BY <2>2
    <3> QED
      BY <3>2, <3>3, PlainKept
  <2> QED
    BY <2>2, <2>3, <2>4
<1>4. CASE UNCHANGED allVars
  BY <1>4 DEF PlainInv, allVars, vars, encVars, decVars
<1> QED
  BY <1>2, <1>3, <1>4 DEF ONext

(* With --gop=0, for every intra period and number of references, the      *)
(* decoder agrees with the encoder, every slice header can be written, and *)
(* every picture that is not an intra picture has one to refer to.         *)
THEOREM PlainDecodable == OSpec => [](cfg.gopLen = 0 => RefsDecodable)
<1>1. OInit => PlainInv
  BY DEF OInit, PlainInv
<1>2. OrderInv /\ PlainInv => (cfg.gopLen = 0 => RefsDecodable)
  BY AgreesHolds DEF PlainInv, RefsDecodable, HeaderNeverFails
<1> QED
  BY <1>1, <1>2, OrderAlways, PlainStep, PTL DEF OSpec
=============================================================================
