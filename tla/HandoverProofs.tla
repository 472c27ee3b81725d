---------------------------- MODULE HandoverProofs ----------------------------
(***************************************************************************)
(* What one job hands over to another, for every size of the frame, every  *)
(* owf and every order of the jobs.                                        *)
(*                                                                         *)
(* RateControl: the statistics of a frame that an encoder state kept are   *)
(* complete when the state is used again, no job of another frame has      *)
(* touched them, and the budget of a group is computed from the same       *)
(* pictures throughout.                                                    *)
(*                                                                         *)
(* LcuFilters: the jobs of LCUs leave margins to each other and save what  *)
(* a filter is about to change, so pixels that motion vectors may refer to *)
(* have their last values, intra prediction reads unfiltered pixels, every *)
(* edge is filtered in its turn and SAO reads deblocked pixels.            *)
(***************************************************************************)
EXTENDS RateControl, LcuFilters, TLAPS

RateType ==
  /\ rc \in RateConfigs
  /\ started \in Nat /\ returned \in Nat /\ written \in Seq(Nat)
  /\ last \in [States -> [frame : Int, length : Nat]]
  /\ lambda \in [States -> Int]
  /\ weight \in [States -> [LcuIds -> Int]]
  /\ bits \in [States -> [LcuIds -> Int]]
  /\ lcuLambda \in [States -> [LcuIds -> Int]]
  /\ coded \in [States -> SUBSET LcuIds]

(* Frames are started, written and returned in order, and the caller waits *)
(* when all states are busy.                                               *)
InOrder == /\ returned <= Len(written) /\ Len(written) <= started
           /\ started <= returned + rc.owf + 1

(* The frames that the states have coded last: one each.                   *)
Recent == {m \in 0..(started - 1) : started <= m + rc.owf + 1}

(* What the state keeps of such a frame.                                   *)
FrameBits(m)  == FirstBits(m + 1) - FirstBits(m)
KeptLcu(m, l) == /\ weight[StateOf(m)][l] = m /\ bits[StateOf(m)][l] = m
                 /\ lcuLambda[StateOf(m)][l] = m
KeptStats ==
  \A m \in Recent :
    /\ lambda[StateOf(m)] = m
    /\ \A l \in coded[StateOf(m)] : KeptLcu(m, l)
    /\ m < Len(written) => /\ coded[StateOf(m)] = LcuIds
                           /\ last[StateOf(m)] = [frame |-> m, length |-> FrameBits(m)]

RateInv == RateType /\ InOrder /\ KeptStats

-----------------------------------------------------------------------------
(* The states go round: frames that are closer than the number of states   *)
(* have states of their own.                                               *)

LEMMA ProductGrows ==
  ASSUME NEW k \in Nat, k > 0, NEW q \in Int, k * q < k, k * q > -k
  PROVE  q = 0
<1>1. q >= 1 => k * q >= k
  OBVIOUS
<1>2. q <= -1 => k * q <= -k
  OBVIOUS
<1> QED
  BY <1>1, <1>2

LEMMA Division ==
  ASSUME NEW a \in Nat, NEW k \in Nat, k > 0
  PROVE  a = k * (a \div k) + (a % k) /\ a \div k \in Int /\ a % k \in 0..(k - 1)
OBVIOUS

LEMMA ModDistinct ==
  ASSUME NEW a \in Nat, NEW b \in Nat, NEW k \in Nat, k > 0, a < b, b < a + k
  PROVE  a % k # b % k
<1> SUFFICES ASSUME a % k = b % k PROVE FALSE
  OBVIOUS
<1>1. PICK q \in Int : a = k * q + (a % k)
  BY Division
<1>2. PICK p \in Int : b = k * p + (b % k)
  BY Division
<1>3. a % k \in Nat
  BY Division
<1>4. k * (p - q) = b - a
  BY <1>1, <1>2, <1>3
<1>5. p - q = 0
  BY <1>4, ProductGrows
<1> QED
  BY <1>4, <1>5

LEMMA ModPeriod ==
  ASSUME NEW a \in Nat, NEW k \in Nat, k > 0
  PROVE  (a + k) % k = a % k
<1>1. PICK q \in Int, r \in 0..(k - 1) : a = k * q + r /\ r = a % k
  BY Division
<1>2. PICK p \in Int, t \in 0..(k - 1) : a + k = k * p + t /\ t = (a + k) % k
  BY Division
<1>3. k * (p - q - 1) = r - t
  BY <1>1, <1>2
<1>4. p - q - 1 = 0
  BY <1>3, ProductGrows
<1> QED
  BY <1>1, <1>2, <1>3, <1>4

LEMMA OwfNat ==
  ASSUME RateType
  PROVE  rc.owf \in Nat /\ rc.owf + 1 \in Nat /\ rc.owf + 1 > 0 /\ States = 0..rc.owf
BY RateAssumption DEF RateType, States

LEMMA StateType ==
  ASSUME RateType, NEW n \in Nat
  PROVE  StateOf(n) \in States
<1> DEFINE k == rc.owf + 1
<1>1. k \in Nat /\ k > 0 /\ States = 0..(k - 1)
  BY OwfNat
<1> HIDE DEF k
<1>2. n % k \in 0..(k - 1)
  BY <1>1, Division
<1> QED
  BY <1>1, <1>2 DEF StateOf, k

LEMMA StatesDiffer ==
  ASSUME RateType, NEW m \in Nat, NEW n \in Nat, m # n,
         m <= n + rc.owf, n <= m + rc.owf
  PROVE  StateOf(m) # StateOf(n)
<1> DEFINE k == rc.owf + 1
<1>1. k \in Nat /\ k > 0 /\ m < n + k /\ n < m + k
  BY OwfNat
<1> HIDE DEF k
<1>2. m % k # n % k
  <2>1. CASE m < n
    BY <1>1, <2>1, ModDistinct
  <2>2. CASE n < m
    BY <1>1, <2>2, ModDistinct
  <2> QED
    BY <2>1, <2>2
<1> QED
  BY <1>2 DEF StateOf, k

-----------------------------------------------------------------------------
(* The steps.                                                              *)

LEMMA RateInitInv == RateInit => RateInv
<1> SUFFICES ASSUME RateInit PROVE RateInv
  OBVIOUS
<1>1. rc \in RateConfigs /\ started = 0 /\ returned = 0 /\ written = <<>>
  BY DEF RateInit
<1>2. rc.owf \in Nat
  BY <1>1, RateAssumption
<1>3. RateType
  <2>1. /\ last = [s \in States |-> [frame |-> NoFrame, length |-> 0]]
        /\ lambda = [s \in States |-> NoFrame] /\ coded = [s \in States |-> {}]
    BY DEF RateInit
  <2>2. \A f \in {weight, bits, lcuLambda} : f = Stats(NoFrame)
    BY DEF RateInit
  <2>3. Stats(NoFrame) \in [States -> [LcuIds -> Int]]
    BY DEF Stats, NoFrame
  <2>4. /\ last \in [States -> [frame : Int, length : Nat]]
        /\ lambda \in [States -> Int] /\ coded \in [States -> SUBSET LcuIds]
    BY <2>1 DEF NoFrame
  <2> QED
    BY <1>1, <2>2, <2>3, <2>4 DEF RateType
<1>4. InOrder
  BY <1>1, <1>2 DEF InOrder
<1>5. Recent = {}
  BY <1>1 DEF Recent
<1> QED
  BY <1>3, <1>4, <1>5 DEF RateInv, KeptStats

(* The state of a new frame is that of the one that leaves Recent.         *)
LEMMA StartFrameInv ==
  ASSUME RateInv, StartFrame
  PROVE  RateInv'
<1> DEFINE n == started
           s == StateOf(n)
<1>1. /\ n \in Nat /\ n - returned <= rc.owf /\ started' = n + 1
      /\ lambda' = [lambda EXCEPT ![s] = n] /\ coded' = [coded EXCEPT ![s] = {}]
      /\ UNCHANGED <<rc, written, returned, last, weight, bits, lcuLambda>>
  BY DEF StartFrame, RateInv, RateType
<1>2. rc.owf \in Nat /\ States' = States /\ (\A m : StateOf(m)' = StateOf(m))
  BY <1>1, OwfNat DEF RateInv, States, StateOf
<1>3. s \in States
  BY <1>1, StateType DEF RateInv
<1>4. Len(written) \in Nat /\ returned \in Nat
  BY DEF RateInv, RateType
<1>5. RateType'
  BY <1>1, <1>2, <1>3 DEF RateInv, RateType
<1>6. InOrder'
  BY <1>1, <1>2, <1>4 DEF RateInv, InOrder
<1>7. ASSUME NEW m \in Recent'
      PROVE  /\ lambda'[StateOf(m)] = m
             /\ \A l \in coded'[StateOf(m)] : KeptLcu(m, l)
             /\ m < Len(written) =>
                  /\ coded'[StateOf(m)] = LcuIds
                  /\ last[StateOf(m)] = [frame |-> m, length |-> FrameBits(m)]
  <2>1. m \in 0..n /\ n + 1 <= m + rc.owf + 1
    BY <1>1 DEF Recent
  <2>2. CASE m = n
    <3>1. ~(m < Len(written))
      BY <1>1, <1>4, <2>2 DEF RateInv, InOrder
    <3>2. lambda'[s] = n /\ coded'[s] = {}
      BY <1>1, <1>3 DEF RateInv, RateType
    <3> QED
      BY <2>2, <3>1, <3>2
  <2>3. CASE m # n
    <3>1. m \in Recent /\ m \in Nat
      BY <1>1, <1>2, <2>1, <2>3 DEF Recent
    <3>2. StateOf(m) # s
      BY <1>1, <1>2, <2>1, <2>3, <3>1, StatesDiffer DEF RateInv
    <3>3. StateOf(m) \in States
      BY <3>1, StateType DEF RateInv
    <3>4. lambda'[StateOf(m)] = lambda[StateOf(m)] /\ coded'[StateOf(m)] = coded[StateOf(m)]
      <4> HIDE DEF s
      <4> QED
        BY <1>1, <3>2, <3>3 DEF RateInv, RateType
    <3> QED
      BY <3>1, <3>4 DEF RateInv, KeptStats
  <2> QED
    BY <2>2, <2>3
<1>8. KeptStats'
  BY <1>1, <1>2, <1>7 DEF KeptStats, KeptLcu, FrameBits, FirstBits
<1> QED
  BY <1>5, <1>6, <1>8 DEF RateInv

(* A job of an LCU belongs to a frame that is not written, so that its     *)
(* state keeps no other one.                                               *)
LEMMA EncodeLcuInv ==
  ASSUME RateInv, EncodeLcu
  PROVE  RateInv'
<1>1. PICK n \in Len(written)..(started - 1), l \in LcuIds :
        /\ coded' = [coded EXCEPT ![StateOf(n)] = @ \cup {l}]
        /\ weight' = [weight EXCEPT ![StateOf(n)][l] = n]
        /\ bits' = [bits EXCEPT ![StateOf(n)][l] = n]
        /\ lcuLambda' = [lcuLambda EXCEPT ![StateOf(n)][l] = n]
        /\ UNCHANGED <<rc, started, written, returned, last, lambda>>
  BY DEF EncodeLcu, frameVars
<1> DEFINE s == StateOf(n)
<1>2. rc.owf \in Nat /\ States' = States /\ (\A m : StateOf(m)' = StateOf(m))
  BY <1>1, OwfNat DEF RateInv, States, StateOf
<1>3. Len(written) \in Nat /\ returned \in Nat /\ started \in Nat /\ n \in Nat
  BY DEF RateInv, RateType
<1>4. s \in States
  BY <1>3, StateType DEF RateInv
<1> HIDE DEF s
<1>5. RateType'
  <2>1. weight' \in [States -> [LcuIds -> Int]]
    BY <1>1, <1>3, <1>4 DEF RateInv, RateType, s
  <2>2. bits' \in [States -> [LcuIds -> Int]]
    BY <1>1, <1>3, <1>4 DEF RateInv, RateType, s
  <2>3. lcuLambda' \in [States -> [LcuIds -> Int]]
    BY <1>1, <1>3, <1>4 DEF RateInv, RateType, s
  <2>4. coded' \in [States -> SUBSET LcuIds]
    BY <1>1, <1>4 DEF RateInv, RateType, s
  <2> QED
    BY <1>1, <1>2, <2>1, <2>2, <2>3, <2>4 DEF RateInv, RateType
<1>6. InOrder' /\ Recent' = Recent
  BY <1>1, <1>2 DEF RateInv, InOrder, Recent
<1>7. ASSUME NEW m \in Recent
      PROVE  /\ lambda[StateOf(m)] = m
             /\ \A j \in coded'[StateOf(m)] : /\ weight'[StateOf(m)][j] = m
                                              /\ bits'[StateOf(m)][j] = m
                                              /\ lcuLambda'[StateOf(m)][j] = m
             /\ m < Len(written) =>
                  /\ coded'[StateOf(m)] = LcuIds
                  /\ last[StateOf(m)] = [frame |-> m, length |-> FrameBits(m)]
  <2>1. m \in Nat /\ m < started /\ started <= m + rc.owf + 1
    BY <1>3 DEF Recent
  <2>2. StateOf(m) \in States /\ coded[StateOf(m)] \subseteq LcuIds
    BY <2>1, StateType DEF RateInv, RateType
  <2>3. CASE m = n
    <3>1. ~(m < Len(written)) /\ StateOf(m) = s
      BY <1>3, <2>3 DEF s
    <3>2. coded'[s] = coded[s] \cup {l}
      BY <1>1, <1>4 DEF RateInv, RateType, s
    <3>3. /\ weight'[s] = [weight[s] EXCEPT ![l] = n]
          /\ bits'[s] = [bits[s] EXCEPT ![l] = n]
          /\ lcuLambda'[s] = [lcuLambda[s] EXCEPT ![l] = n]
      BY <1>1, <1>4 DEF RateInv, RateType, s
    <3>4. /\ weight[s] \in [LcuIds -> Int] /\ bits[s] \in [LcuIds -> Int]
          /\ lcuLambda[s] \in [LcuIds -> Int]
      BY <1>4 DEF RateInv, RateType
    <3>5. /\ lambda[s] = n
          /\ \A j \in coded[s] : weight[s][j] = n /\ bits[s][j] = n /\ lcuLambda[s][j] = n
      BY <2>3, <3>1 DEF RateInv, KeptStats, KeptLcu
    <3>6. coded[s] \subseteq LcuIds
      BY <2>2, <3>1
    <3> QED
      BY <2>3, <3>1, <3>2, <3>3, <3>4, <3>5, <3>6
  <2>4. CASE m # n
    <3>1. StateOf(m) # s
      <4>1. m <= n + rc.owf /\ n <= m + rc.owf
        BY <1>2, <1>3, <2>1 DEF RateInv, InOrder
      <4> QED
        BY <1>3, <2>1, <2>4, <4>1, StatesDiffer DEF RateInv, s
    <3>2. /\ coded'[StateOf(m)] = coded[StateOf(m)]
          /\ weight'[StateOf(m)] = weight[StateOf(m)]
          /\ bits'[StateOf(m)] = bits[StateOf(m)]
          /\ lcuLambda'[StateOf(m)] = lcuLambda[StateOf(m)]
      BY <1>1, <2>2, <3>1 DEF RateInv, RateType, s
    <3> QED
      BY <3>2 DEF RateInv, KeptStats, KeptLcu
  <2> QED
    BY <2>3, <2>4
<1>8. KeptStats'
  BY <1>1, <1>2, <1>6, <1>7 DEF KeptStats, KeptLcu, FrameBits, FirstBits
<1> QED
  BY <1>5, <1>6, <1>8 DEF RateInv

(* The frame that is written next has all its LCUs.                        *)
LEMMA WriteInv ==
  ASSUME RateInv, WriteBitstream
  PROVE  RateInv'
<1>0. PICK n \in Nat : n = Len(written)
  BY DEF RateInv, RateType
<1> DEFINE s == StateOf(n)
<1>1. PICK b \in BitsChoices :
        /\ n < started /\ coded[s] = LcuIds
        /\ written' = Append(written, FirstBits(n) + b)
        /\ last' = [last EXCEPT ![s] = [frame |-> n, length |-> b]]
        /\ UNCHANGED <<rc, started, returned, lambda, weight, bits, lcuLambda, coded>>
  BY <1>0 DEF WriteBitstream, lcuVars
<1>2. rc.owf \in Nat /\ States' = States /\ (\A m : StateOf(m)' = StateOf(m))
  BY <1>1, OwfNat DEF RateInv, States, StateOf
<1>3. n \in Nat /\ returned \in Nat /\ started \in Nat /\ b \in Nat /\ written \in Seq(Nat)
  BY <1>0, RateAssumption DEF RateInv, RateType
<1>4. s \in States
  BY <1>3, StateType DEF RateInv
<1>5. /\ written' \in Seq(Nat) /\ Len(written') = n + 1
      /\ \A k \in 0..n : FirstBits(k)' = FirstBits(k)
      /\ FrameBits(n)' = b
  <2>1. FirstBits(n) \in Nat
    BY <1>0, <1>3 DEF FirstBits
  <2>2. /\ written' \in Seq(Nat) /\ Len(written') = n + 1
        /\ \A i \in 1..n : written'[i] = written[i]
        /\ written'[n + 1] = FirstBits(n) + b
    BY <1>0, <1>1, <1>3, <2>1
  <2>3. \A k \in 0..n : FirstBits(k)' = FirstBits(k)
    BY <1>3, <2>2 DEF FirstBits
  <2>4. FirstBits(n + 1)' = FirstBits(n) + b /\ FirstBits(n)' = FirstBits(n)
    BY <1>3, <2>2, <2>3 DEF FirstBits
  <2>5. FrameBits(n)' = FirstBits(n + 1)' - FirstBits(n)'
    BY DEF FrameBits
  <2> QED
    BY <1>3, <2>1, <2>2, <2>3, <2>4, <2>5
<1> HIDE DEF s
<1>6. RateType'
  BY <1>1, <1>2, <1>3, <1>4, <1>5 DEF RateInv, RateType
<1>7. InOrder' /\ Recent' = Recent
  BY <1>0, <1>1, <1>2, <1>3, <1>5 DEF RateInv, InOrder, Recent
<1>8. ASSUME NEW m \in Recent, m < n + 1
      PROVE  /\ coded[StateOf(m)] = LcuIds
             /\ last'[StateOf(m)] = [frame |-> m, length |-> FrameBits(m)']
  <2>1. m \in Nat /\ m < started /\ started <= m + rc.owf + 1
    BY <1>3 DEF Recent
  <2>2. CASE m = n
    BY <1>1, <1>4, <1>5, <2>2 DEF RateInv, RateType, s
  <2>3. CASE m # n
    <3>1. m < n
      BY <1>3, <1>8, <2>1, <2>3
    <3>2. StateOf(m) # s
      <4>1. m <= n + rc.owf /\ n <= m + rc.owf
        BY <1>1, <1>2, <1>3, <2>1, <3>1
      <4> QED
        BY <1>3, <2>1, <2>3, <4>1, StatesDiffer DEF RateInv, s
    <3>3. StateOf(m) \in States
      BY <2>1, StateType DEF RateInv
    <3>4. last'[StateOf(m)] = last[StateOf(m)]
      BY <1>1, <3>2, <3>3 DEF RateInv, RateType
    <3> QED
      <4>1. /\ coded[StateOf(m)] = LcuIds
            /\ last[StateOf(m)] = [frame |-> m, length |-> FrameBits(m)]
        BY <1>0, <3>1 DEF RateInv, KeptStats
      <4>2. FrameBits(m)' = FrameBits(m)
        <5>1. m \in 0..n /\ m + 1 \in 0..n
          BY <1>3, <2>1, <3>1
        <5> QED
          BY <1>5, <5>1 DEF FrameBits
      <4> QED
        BY <3>4, <4>1, <4>2
  <2> QED
    BY <2>2, <2>3
<1>9. KeptStats'
  <2>1. ASSUME NEW m \in Recent
        PROVE  /\ lambda[StateOf(m)] = m
               /\ \A l \in coded[StateOf(m)] : KeptLcu(m, l)
    BY DEF RateInv, KeptStats
  <2>2. ASSUME NEW m \in Recent, NEW l
        PROVE  KeptLcu(m, l)' = KeptLcu(m, l)
    BY <1>1, <1>2 DEF KeptLcu
  <2>3. ASSUME NEW m \in Recent
        PROVE  /\ lambda'[StateOf(m)] = m
               /\ \A l \in coded'[StateOf(m)] : KeptLcu(m, l)'
    BY <1>1, <2>1, <2>2
  <2> QED
    BY <1>1, <1>2, <1>5, <1>7, <1>8, <2>3 DEF KeptStats
<1> QED
  BY <1>6, <1>7, <1>9 DEF RateInv

LEMMA ReturnInv ==
  ASSUME RateInv, ReturnFrame \/ UNCHANGED rateVars
  PROVE  RateInv'
<1>1. /\ (returned' = returned \/ (returned' = returned + 1 /\ returned < Len(written)))
      /\ rc' = rc /\ started' = started /\ written' = written /\ last' = last
      /\ lambda' = lambda /\ weight' = weight /\ bits' = bits
      /\ lcuLambda' = lcuLambda /\ coded' = coded
  <2>1. CASE ReturnFrame
    BY <2>1 DEF ReturnFrame, frameVars, lcuVars
  <2>2. CASE UNCHANGED rateVars
    BY <2>2 DEF rateVars, frameVars, lcuVars
  <2> QED
    BY <2>1, <2>2
<1>2. Len(written) \in Nat /\ returned \in Nat /\ started \in Nat /\ rc.owf \in Nat
  BY OwfNat DEF RateInv, RateType
<1>3. RateType'
  BY <1>1, <1>2 DEF RateInv, RateType, States
<1>4. InOrder'
  BY <1>1, <1>2 DEF RateInv, InOrder
<1>5. KeptStats'
  BY <1>1 DEF RateInv, KeptStats, KeptLcu, Recent, StateOf, FrameBits, FirstBits
<1> QED
  BY <1>3, <1>4, <1>5 DEF RateInv

(* When a state is used again, the frame that it coded before has been     *)
(* returned and so was written.                                            *)
LEMMA StatsImplied ==
  ASSUME RateInv
  PROVE  StatsOfOneFrame
<1> DEFINE n == started
           m == n - rc.owf - 1
<1> SUFFICES ASSUME n - returned <= rc.owf, HasStats(n)
             PROVE  /\ m >= 0 /\ last[StateOf(n)] = [frame |-> m, length |-> FrameBits(m)]
                    /\ lambda[StateOf(n)] = m
                    /\ \A l \in LcuIds : /\ weight[StateOf(n)][l] = m /\ bits[StateOf(n)][l] = m
                                         /\ lcuLambda[StateOf(n)][l] = m
  BY DEF StatsOfOneFrame, FrameBits
<1>1. n \in Nat /\ returned \in Nat /\ Len(written) \in Nat /\ rc.owf \in Nat
  BY OwfNat DEF RateInv, RateType
<1>2. m \in Nat /\ n = m + (rc.owf + 1)
  BY <1>1 DEF HasStats
<1> HIDE DEF m
<1>3. m \in Recent /\ m < Len(written)
  BY <1>1, <1>2 DEF Recent, RateInv, InOrder
<1>4. StateOf(n) = StateOf(m)
  <2> DEFINE k == rc.owf + 1
  <2>1. k \in Nat /\ k > 0
    BY OwfNat DEF RateInv
  <2>2. (m + k) % k = m % k
    <3> HIDE DEF m, k
    <3> QED
      BY <1>2, <2>1, ModPeriod
  <2>3. StateOf(n) = n % k /\ StateOf(m) = m % k
    BY DEF StateOf
  <2> QED
    BY <1>2, <2>2, <2>3
<1> QED
  BY <1>2, <1>3, <1>4 DEF RateInv, KeptStats, KeptLcu

(* For every owf and every number of LCUs: when a frame is started whose   *)
(* statistics are used, the length, the lambda, the weights and the bits of*)
(* all LCUs are those of one frame, the one that the state coded before.   *)
THEOREM StatsOfOneFrameCorrect == RateSpec => []StatsOfOneFrame
<1>1. RateInit => RateInv
  BY RateInitInv
<1>2. RateInv /\ [RateNext]_rateVars => RateInv'
  BY StartFrameInv, EncodeLcuInv, WriteInv, ReturnInv DEF RateNext, AllReturned
<1>3. RateInv => StatsOfOneFrame
  BY StatsImplied
<1> QED
  BY <1>1, <1>2, <1>3, PTL DEF RateSpec

-----------------------------------------------------------------------------
(* The budget.                                                             *)

(* The total of a state is that of the last frame that was written from it,*)
(* and zero before.                                                        *)
Totals ==
  /\ total \in [States -> Int]
  /\ \A s \in States : Len(written) <= s => total[s] = 0
  /\ \A m \in Nat : m < Len(written) /\ Len(written) <= m + rc.owf + 1
                      => total[StateOf(m)] = FirstBits(m + 1)

(* Every state that was used has the target of the group of its frame.     *)
Targets ==
  /\ gopTarget \in [States -> Int]
  /\ \A s \in States : lambda[s] # NoFrame =>
       /\ lambda[s] \in Recent /\ StateOf(lambda[s]) = s
       /\ gopTarget[s] = FirstOfGop(lambda[s])

(* The numbers that the last allocation was made from belong together.     *)
Allocated ==
  ~InPartialGop(0) /\ alloc.frame # NoFrame =>
    /\ alloc.pictures = Largest(0, alloc.frame - rc.owf)
    /\ alloc.pictures \in 0..Len(written)
    /\ alloc.bits = FirstBits(alloc.pictures)

BudgetInv == RateInv /\ Totals /\ Targets /\ Allocated

LEMMA DivisionInt ==
  ASSUME NEW a \in Int, NEW k \in Nat, k > 0
  PROVE  a = k * (a \div k) + (a % k) /\ a \div k \in Int /\ a % k \in 0..(k - 1)
OBVIOUS

LEMMA StateOfSmall ==
  ASSUME RateType, NEW n \in Nat, n <= rc.owf
  PROVE  StateOf(n) = n
<1> DEFINE k == rc.owf + 1
<1>1. k \in Nat /\ k > 0 /\ n < k
  BY OwfNat
<1> HIDE DEF k
<1>2. n % k = n
  <2>1. PICK q \in Int, r \in 0..(k - 1) : n = k * q + r /\ r = n % k
    BY <1>1, Division
  <2>2. k * q < k /\ k * q > -k
    BY <1>1, <2>1
  <2>3. q = 0
    BY <1>1, <2>2, ProductGrows
  <2> QED
    BY <1>1, <2>1, <2>3
<1> QED
  BY <1>2 DEF StateOf, k

LEMMA StateAgain ==
  ASSUME RateType, NEW m \in Nat, NEW n \in Nat, n = m + (rc.owf + 1)
  PROVE  StateOf(n) = StateOf(m)
<1> DEFINE k == rc.owf + 1
<1>1. k \in Nat /\ k > 0 /\ n = m + k
  BY OwfNat
<1> HIDE DEF k
<1>2. (m + k) % k = m % k
  BY <1>1, ModPeriod
<1> QED
  BY <1>1, <1>2 DEF StateOf, k

LEMMA EarlierIs ==
  ASSUME RateType, NEW n \in Nat, n > 0
  PROVE  Earlier(StateOf(n)) = StateOf(n - 1)
<1> DEFINE k == rc.owf + 1
<1>1. k \in Nat /\ k > 0
  BY OwfNat
<1> HIDE DEF k
<1>2. ((n % k) - 1) % k = (n - 1) % k
  <2>1. PICK q \in Int, r \in 0..(k - 1) : n = k * q + r /\ r = n % k
    BY <1>1, Division
  <2>2. PICK p \in Int, t \in 0..(k - 1) : r - 1 = k * p + t /\ t = (r - 1) % k
    <3>1. PICK b \in Int : b = r - 1
      OBVIOUS
    <3>2. b = k * (b \div k) + (b % k) /\ b \div k \in Int /\ b % k \in 0..(k - 1)
      BY <1>1, DivisionInt
    <3> QED
      BY <3>1, <3>2
  <2>3. PICK u \in Int, w \in 0..(k - 1) : n - 1 = k * u + w /\ w = (n - 1) % k
    BY <1>1, DivisionInt
  <2>4. k * (q + p - u) = w - t /\ q + p - u \in Int
    <3>1. k * (q + p - u) = k * q + k * p - k * u
      BY <1>1, <2>1, <2>2, <2>3
    <3>2. k * q \in Int /\ k * p \in Int /\ k * u \in Int
      BY <1>1, <2>1, <2>2, <2>3
    <3> QED
      BY <1>1, <2>1, <2>2, <2>3, <3>1, <3>2
  <2>5. w - t < k /\ w - t > -k
    BY <1>1, <2>2, <2>3
  <2>6. q + p - u = 0
    BY <1>1, <2>4, <2>5, ProductGrows
  <2>7. w = t
    BY <1>1, <2>2, <2>3, <2>4, <2>6
  <2> QED
    BY <2>1, <2>2, <2>3, <2>7
<1> QED
  BY <1>2, Zenon DEF Earlier, StateOf, k

(* The first frame of a group, from frame to frame.                        *)
LEMMA MaxIs ==
  ASSUME NEW S \in SUBSET Nat, NEW x \in S, \A y \in S : x >= y
  PROVE  Max(S) = x
<1>1. PICK z : z \in S /\ (\A y \in S : z >= y) /\ z = Max(S)
  BY Zenon DEF Max
<1> QED
  BY <1>1

LEMMA GopGoesOn ==
  ASSUME NEW n \in Nat
  PROVE  /\ NewGop(n) => FirstOfGop(n) = n
         /\ ~NewGop(n) /\ n > 0 => FirstOfGop(n) = FirstOfGop(n - 1)
<1>1. NewGop(n) => FirstOfGop(n) = n
  <2> SUFFICES ASSUME NewGop(n) PROVE FirstOfGop(n) = n
    OBVIOUS
  <2> DEFINE S == {m \in 0..n : NewGop(m)}
  <2>1. S \in SUBSET Nat /\ n \in S /\ \A y \in S : n >= y
    OBVIOUS
  <2> HIDE DEF S
  <2>2. Max(S) = n
    BY <2>1, MaxIs
  <2> QED
    BY <2>2 DEF FirstOfGop, S
<1>2. ~NewGop(n) /\ n > 0 => FirstOfGop(n) = FirstOfGop(n - 1)
  <2> SUFFICES ASSUME ~NewGop(n), n > 0 PROVE FirstOfGop(n) = FirstOfGop(n - 1)
    OBVIOUS
  <2>1. \A m : m \in 0..n <=> m \in 0..(n - 1) \/ m = n
    OBVIOUS
  <2>2. {m \in 0..n : NewGop(m)} = {m \in 0..(n - 1) : NewGop(m)}
    BY <2>1
  <2> QED
    BY <2>2 DEF FirstOfGop
<1> QED
  BY <1>1, <1>2

LEMMA BudgetInitInv == RateInit => BudgetInv
<1> SUFFICES ASSUME RateInit PROVE BudgetInv
  OBVIOUS
<1>1. written = <<>> /\ Len(written) = 0
  BY DEF RateInit
<1>2. Totals
  BY <1>1 DEF RateInit, Totals
<1>3. Targets
  BY DEF RateInit, Targets, NoFrame
<1>4. Allocated
  BY DEF RateInit, Allocated
<1> QED
  BY <1>2, <1>3, <1>4, RateInitInv DEF BudgetInv

(* Without partial groups the allocation is from the total alone.          *)
LEMMA AllocationIs ==
  ASSUME RateType, NEW n \in Nat, ~InPartialGop(0)
  PROVE  /\ GopAllocation(n).frame = n
         /\ GopAllocation(n).pictures = PicturesCoded(n) - 0
         /\ GopAllocation(n).bits = total[StateOf(n)] - 0
<1> DEFINE offset == Remainder(GopOffset(n) - rc.owf, Largest(1, rc.gopLen))
<1>1. ~InPartialGop(offset)
  <2> SUFFICES ASSUME rc.gopLen > 0, ~rc.lowDelay PROVE offset = rc.gopLen - 1
    BY DEF InPartialGop
  <2>1. rc.gopLen = 1
    BY RateAssumption DEF InPartialGop, RateType
  <2>2. GopOffset(n) \in Int
    BY <2>1 DEF GopOffset
  <2>3. PICK a \in Int : a = GopOffset(n) - rc.owf
    BY <2>2, OwfNat
  <2>4. a % 1 = 0 /\ (-a) % 1 = 0
    OBVIOUS
  <2>5. Largest(1, rc.gopLen) = 1
    BY <2>1 DEF Largest
  <2>6. Remainder(a, 1) = 0
    BY <2>4 DEF Remainder
  <2> QED
    BY <2>1, <2>3, <2>5, <2>6
<1> QED
  BY <1>1, Zenon DEF GopAllocation

LEMMA BudgetStart ==
  ASSUME BudgetInv, StartFrame
  PROVE  BudgetInv'
<1>1. PICK n \in Nat : n = started
  BY DEF BudgetInv, RateInv, RateType
<1> DEFINE s == StateOf(n)
<1>2. /\ n - returned <= rc.owf /\ started' = n + 1
      /\ lambda' = [lambda EXCEPT ![s] = n]
      /\ rc' = rc /\ written' = written /\ total' = total
      /\ NewGop(n) => /\ gopTarget' = [gopTarget EXCEPT ![s] = n]
                      /\ alloc' = GopAllocation(n)
      /\ ~NewGop(n) => /\ gopTarget' = [gopTarget EXCEPT ![s] = gopTarget[Earlier(s)]]
                       /\ alloc' = alloc
  BY <1>1 DEF StartFrame
<1>3. RateInv /\ RateInv' /\ RateType
  BY StartFrameInv DEF BudgetInv, RateInv
<1>4. /\ rc.owf \in Nat /\ States' = States /\ (\A m : StateOf(m)' = StateOf(m))
      /\ \A k : FirstBits(k)' = FirstBits(k)
      /\ \A m : NewGop(m)' = NewGop(m)
  BY <1>2, <1>3, OwfNat DEF States, StateOf, FirstBits, NewGop, GopOffset, InPeriod
<1>5. s \in States
  BY <1>3, StateType
<1>6. Len(written) \in Nat /\ returned \in Nat /\ Len(written) <= n /\ returned <= Len(written)
  BY <1>1, <1>3 DEF RateInv, RateType, InOrder
<1>7. Totals'
  BY <1>2, <1>4 DEF BudgetInv, Totals
<1>8. gopTarget'[s] = FirstOfGop(n) /\ FirstOfGop(n) \in Int
  <2>1. CASE NewGop(n)
    BY <1>2, <1>5, <2>1, GopGoesOn DEF BudgetInv, Targets
  <2>2. CASE ~NewGop(n)
    <3>1. n > 0
      BY <1>1, <2>2 DEF NewGop
    <3>2. PICK m \in Nat : m = n - 1
      BY <1>1, <3>1
    <3>3. Earlier(s) = StateOf(m)
      BY <1>3, <3>1, <3>2, EarlierIs
    <3>4. m \in Recent /\ StateOf(m) \in States
      BY <1>1, <1>3, <1>4, <3>2, StateType DEF Recent
    <3>5. lambda[StateOf(m)] = m
      BY <1>3, <3>4 DEF RateInv, KeptStats
    <3>6. gopTarget[StateOf(m)] = FirstOfGop(m) /\ gopTarget[StateOf(m)] \in Int
      BY <3>2, <3>4, <3>5 DEF BudgetInv, Targets, NoFrame
    <3>7. FirstOfGop(n) = FirstOfGop(m)
      BY <2>2, <3>1, <3>2, GopGoesOn
    <3>8. gopTarget'[s] = gopTarget[Earlier(s)]
      BY <1>2, <1>5, <2>2 DEF BudgetInv, Targets
    <3> QED
      BY <3>3, <3>6, <3>7, <3>8
  <2> QED
    BY <2>1, <2>2
<1>9. Targets'
  <2>1. \A m : FirstOfGop(m)' = FirstOfGop(m)
    BY <1>4 DEF FirstOfGop
  <2>2. gopTarget' \in [States -> Int]
    BY <1>2, <1>5, <1>8 DEF BudgetInv, Targets
  <2>3. ASSUME NEW t \in States, lambda'[t] # NoFrame
        PROVE  /\ lambda'[t] \in Recent' /\ StateOf(lambda'[t]) = t
               /\ gopTarget'[t] = FirstOfGop(lambda'[t])
    <3>1. CASE t = s
      <4>1. lambda'[t] = n
        BY <1>2, <1>3, <1>5, <3>1 DEF RateType
      <4>2. n \in Recent'
        BY <1>1, <1>2, <1>4 DEF Recent
      <4> QED
        BY <1>8, <3>1, <4>1, <4>2
    <3>2. CASE t # s
      <4> HIDE DEF s
      <4>1. lambda'[t] = lambda[t] /\ gopTarget'[t] = gopTarget[t]
        BY <1>2, <1>3, <3>2 DEF RateType, BudgetInv, Targets
      <4>2. PICK m \in Recent : /\ m = lambda[t] /\ StateOf(m) = t
                                /\ gopTarget[t] = FirstOfGop(m)
        BY <2>3, <4>1 DEF BudgetInv, Targets
      <4>3. m \in Nat /\ m < n /\ n <= m + rc.owf + 1
        BY <1>1 DEF Recent
      <4>4. n # m + (rc.owf + 1)
        BY <1>3, <3>2, <4>2, <4>3, StateAgain DEF s
      <4>5. m \in Recent'
        BY <1>1, <1>2, <1>4, <4>3, <4>4 DEF Recent
      <4> QED
        BY <4>1, <4>2, <4>5
    <3> QED
      BY <3>1, <3>2
  <2> QED
    BY <1>4, <2>1, <2>2, <2>3 DEF Targets
<1>10. Allocated'
  <2> SUFFICES ASSUME ~InPartialGop(0)', alloc'.frame # NoFrame
               PROVE  /\ alloc'.pictures = Largest(0, alloc'.frame - rc.owf)
                      /\ alloc'.pictures \in 0..Len(written)
                      /\ alloc'.bits = FirstBits(alloc'.pictures)
    BY <1>2, <1>4 DEF Allocated, Largest
  <2>1. ~InPartialGop(0)
    BY <1>2 DEF InPartialGop
  <2>2. CASE ~NewGop(n)
    BY <1>2, <2>1, <2>2 DEF BudgetInv, Allocated
  <2>3. CASE NewGop(n)
    <3>1. PICK k \in Nat : /\ k = Largest(0, n - rc.owf)
                           /\ (k = n - rc.owf \/ (k = 0 /\ n <= rc.owf))
      <4>1. CASE n <= rc.owf
        <5>1. Largest(0, n - rc.owf) = 0
          BY <1>1, <1>4, <4>1 DEF Largest
        <5> QED
          BY <4>1, <5>1
      <4>2. CASE n > rc.owf
        <5>1. Largest(0, n - rc.owf) = n - rc.owf /\ n - rc.owf \in Nat
          BY <1>1, <1>4, <4>2 DEF Largest
        <5> QED
          BY <5>1
      <4> QED
        BY <1>1, <1>4, <4>1, <4>2
    <3>2. alloc'.frame = n /\ alloc'.pictures = k /\ alloc'.bits = total[s]
      <4>1. total[s] \in Int
        BY <1>5 DEF BudgetInv, Totals
      <4> QED
        BY <1>2, <1>3, <2>1, <2>3, <3>1, <4>1, AllocationIs DEF PicturesCoded
    <3>3. k <= Len(written)
      BY <1>1, <1>2, <1>4, <1>6, <3>1
    <3>4. total[s] = FirstBits(k)
      <4>1. CASE n <= rc.owf
        <5>1. s = n /\ k = 0
          BY <1>3, <1>4, <3>1, <4>1, StateOfSmall
        <5> QED
          BY <1>5, <1>6, <5>1 DEF BudgetInv, Totals, FirstBits
      <4>2. CASE n > rc.owf
        <5>1. PICK m \in Nat : n = m + (rc.owf + 1) /\ k = m + 1
          BY <1>1, <1>4, <3>1, <4>2
        <5>2. s = StateOf(m)
          BY <1>3, <5>1, StateAgain
        <5>3. m < Len(written) /\ Len(written) <= m + rc.owf + 1
          BY <1>2, <1>4, <1>6, <3>3, <5>1
        <5> QED
          BY <5>1, <5>2, <5>3 DEF BudgetInv, Totals
      <4> QED
        BY <1>4, <4>1, <4>2
    <3> QED
      BY <1>6, <3>1, <3>2, <3>3, <3>4
  <2> QED
    BY <2>2, <2>3
<1> QED
  BY <1>3, <1>7, <1>9, <1>10 DEF BudgetInv

(* A frame is written after the one before, whose state has its total.     *)
LEMMA BudgetWrite ==
  ASSUME BudgetInv, WriteBitstream
  PROVE  BudgetInv'
<1>1. PICK n \in Nat : n = Len(written)
  BY DEF BudgetInv, RateInv, RateType
<1> DEFINE s == StateOf(n)
<1>2. PICK b \in BitsChoices :
        /\ n < started /\ written' = Append(written, FirstBits(n) + b)
        /\ total' = [total EXCEPT ![s] = (IF n > 0 THEN total[Earlier(s)] ELSE @) + b]
        /\ rc' = rc /\ started' = started /\ gopTarget' = gopTarget
        /\ lambda' = lambda /\ alloc' = alloc
  BY <1>1 DEF WriteBitstream
<1>3. RateInv /\ RateInv' /\ RateType /\ b \in Nat
  BY WriteInv, RateAssumption DEF BudgetInv, RateInv
<1>4. /\ rc.owf \in Nat /\ States' = States /\ (\A m : StateOf(m)' = StateOf(m))
      /\ \A m : FirstOfGop(m)' = FirstOfGop(m)
  BY <1>2, <1>3, OwfNat DEF States, StateOf, FirstOfGop, NewGop, GopOffset, InPeriod
<1>5. s \in States
  BY <1>3, StateType
<1>6. /\ Len(written') = n + 1 /\ FirstBits(n + 1)' = FirstBits(n) + b
      /\ \A k \in 0..n : FirstBits(k)' = FirstBits(k)
  <2>1. FirstBits(n) \in Nat /\ written \in Seq(Nat)
    BY <1>1, <1>3 DEF FirstBits, RateType
  <2>2. /\ Len(written') = n + 1 /\ written'[n + 1] = FirstBits(n) + b
        /\ \A k \in 1..n : written'[k] = written[k]
    BY <1>1, <1>2, <1>3, <2>1
  <2> QED
    BY <2>2 DEF FirstBits
<1>7. total[s] + b \in Int /\ total'[s] = FirstBits(n) + b
  <2>1. total[s] \in Int
    BY <1>5 DEF BudgetInv, Totals
  <2>2. CASE n = 0
    <3>1. s = 0
      BY <1>3, <1>4, <2>2, StateOfSmall
    <3>2. total[s] = 0
      BY <1>1, <1>5, <2>2, <3>1 DEF BudgetInv, Totals
    <3> QED
      BY <1>2, <1>3, <1>5, <2>2, <3>2 DEF BudgetInv, Totals, FirstBits
  <2>3. CASE n > 0
    <3>1. PICK m \in Nat : m = n - 1 /\ n = m + 1
      BY <2>3
    <3>2. Earlier(s) = StateOf(m)
      BY <1>3, <2>3, <3>1, EarlierIs
    <3>3. total[StateOf(m)] = FirstBits(n)
      BY <1>1, <1>4, <3>1 DEF BudgetInv, Totals
    <3>4. total'[s] = total[Earlier(s)] + b
      BY <1>2, <1>5, <2>3 DEF BudgetInv, Totals
    <3> QED
      BY <1>3, <2>1, <3>2, <3>3, <3>4
  <2> QED
    BY <2>2, <2>3
<1>8. \A t \in States : t # s => total'[t] = total[t]
  BY <1>2, <1>5 DEF BudgetInv, Totals
<1>9. Totals'
  <2>1. total' \in [States -> Int]
    <3>1. FirstBits(n) + b \in Int
      BY <1>1, <1>3 DEF FirstBits, RateType
    <3> QED
      BY <1>2, <1>5, <1>7, <3>1 DEF BudgetInv, Totals
  <2>2. ASSUME NEW t \in States, n + 1 <= t PROVE total'[t] = 0
    <3>1. t \in Nat /\ n <= rc.owf
      BY <1>3, <1>4, <2>2, OwfNat
    <3>2. t # s
      BY <1>3, <2>2, <3>1, StateOfSmall
    <3>3. Len(written) <= t
      BY <1>1, <2>2, <3>1
    <3> QED
      BY <1>8, <3>2, <3>3 DEF BudgetInv, Totals
  <2>3. ASSUME NEW m \in Nat, m < n + 1, n + 1 <= m + rc.owf + 1
        PROVE  total'[StateOf(m)] = FirstBits(m + 1)'
    <3>1. CASE m = n
      <4>1. FirstBits(m + 1)' = FirstBits(n) + b
        BY <1>6, <3>1
      <4> QED
        BY <1>7, <3>1, <4>1
    <3>2. CASE m # n
      <4>1. m < n /\ n <= m + rc.owf /\ m <= n + rc.owf /\ n <= m + rc.owf + 1
        BY <1>4, <2>3, <3>2
      <4>2. StateOf(m) # s /\ StateOf(m) \in States
        BY <1>3, <3>2, <4>1, StatesDiffer, StateType
      <4>3. total[StateOf(m)] = FirstBits(m + 1)
        BY <1>1, <4>1 DEF BudgetInv, Totals
      <4>4. FirstBits(m + 1)' = FirstBits(m + 1)
        <5>1. m + 1 \in 0..n
          BY <4>1
        <5> QED
          BY <1>6, <5>1
      <4> QED
        BY <1>8, <4>2, <4>3, <4>4
    <3> QED
      BY <3>1, <3>2
  <2> QED
    BY <1>2, <1>4, <1>6, <2>1, <2>2, <2>3 DEF Totals
<1>10. Targets'
  BY <1>2, <1>4 DEF BudgetInv, Targets, Recent
<1>11. Allocated'
  <2> SUFFICES ASSUME ~InPartialGop(0), alloc.frame # NoFrame
               PROVE  /\ alloc.pictures = Largest(0, alloc.frame - rc.owf)
                      /\ alloc.pictures \in 0..(n + 1)
                      /\ alloc.bits = FirstBits(alloc.pictures)'
    BY <1>2, <1>6 DEF Allocated, InPartialGop
  <2>1. /\ alloc.pictures = Largest(0, alloc.frame - rc.owf)
        /\ alloc.pictures \in 0..n
        /\ alloc.bits = FirstBits(alloc.pictures)
    BY <1>1 DEF BudgetInv, Allocated
  <2>2. FirstBits(alloc.pictures)' = FirstBits(alloc.pictures)
    <3>1. PICK k \in 0..n : k = alloc.pictures /\ k = alloc'.pictures
      BY <1>2, <2>1
    <3>2. FirstBits(k)' = FirstBits(k)
      BY <1>6
    <3> QED
      BY <3>1, <3>2
  <2> QED
    BY <1>1, <2>1, <2>2
<1> QED
  BY <1>3, <1>9, <1>10, <1>11 DEF BudgetInv

LEMMA BudgetKept ==
  ASSUME BudgetInv, EncodeLcu \/ ReturnFrame \/ UNCHANGED rateVars
  PROVE  BudgetInv'
<1>1. RateInv'
  BY EncodeLcuInv, ReturnInv DEF BudgetInv
<1>2. /\ rc' = rc /\ written' = written /\ started' = started /\ total' = total
      /\ gopTarget' = gopTarget /\ lambda' = lambda /\ alloc' = alloc
  <2>1. CASE EncodeLcu
    BY <2>1 DEF EncodeLcu, frameVars
  <2>2. CASE ReturnFrame
    BY <2>2 DEF ReturnFrame, frameVars
  <2>3. CASE UNCHANGED rateVars
    BY <2>3 DEF rateVars, frameVars
  <2> QED
    BY <2>1, <2>2, <2>3
<1>3. Totals'
  BY <1>2 DEF BudgetInv, Totals, States, StateOf, FirstBits
<1>4. Targets'
  BY <1>2 DEF BudgetInv, Targets, States, StateOf, Recent, FirstOfGop, NewGop, GopOffset,
              InPeriod
<1>5. Allocated'
  BY <1>2 DEF BudgetInv, Allocated, InPartialGop, FirstBits
<1> QED
  BY <1>1, <1>3, <1>4, <1>5 DEF BudgetInv

(* The comment of gop_allocate_bits is right for every owf, however many   *)
(* of the frames in flight have been written: the bits and the number of   *)
(* pictures that the target of a group is computed from are those of the   *)
(* same pictures; and the frames of a group share the target of its first. *)
THEOREM BudgetExactCorrect == RateSpec => []BudgetExact
<1>1. RateInit => BudgetInv
  BY BudgetInitInv
<1>2. BudgetInv /\ [RateNext]_rateVars => BudgetInv'
  BY BudgetStart, BudgetWrite, BudgetKept DEF RateNext, AllReturned
<1>3. BudgetInv => BudgetExact
  BY DEF BudgetInv, Targets, Allocated, BudgetExact
<1> QED
  BY <1>1, <1>2, <1>3, PTL DEF RateSpec

-----------------------------------------------------------------------------
(* Division of a frame into LCUs, along either axis: l is L, w is the      *)
(* width or the height, and the LCUs are 0..(Parts(w, l) - 1).             *)
Parts(w, l) == (w + l - 1) \div l
Sizes(w, l) == w \in Nat /\ l \in Nat /\ w % 8 = 0 /\ w > 0 /\ l % 16 = 0 /\ l > 0

LEMMA Quotient ==
  ASSUME NEW n \in Nat, NEW l \in Nat, l > 0
  PROVE  n \div l \in Nat /\ (n \div l) * l <= n /\ n < (n \div l) * l + l
<1>1. n = l * (n \div l) + (n % l) /\ n \div l \in Int /\ n % l \in 0..(l - 1)
  OBVIOUS
<1>2. l * (n \div l) = (n \div l) * l
  BY <1>1
<1>3. n \div l >= 0
  <2>1. n \div l <= -1 => l * (n \div l) <= -l
    BY <1>1
  <2> QED BY <1>1, <2>1
<1> QED BY <1>1, <1>2, <1>3

(* The LCU of which a coordinate is: the only one that it is in.           *)
LEMMA Products ==
  ASSUME NEW a \in Int, NEW b \in Int, NEW l \in Nat, l > 0
  PROVE  /\ a <= b => a * l <= b * l
         /\ a < b => a * l + l <= b * l
         /\ a * l \in Int /\ (a + 1) * l = a * l + l /\ (a - 1) * l = a * l - l
<1>1. a <= b => a * l <= b * l
  OBVIOUS
<1>2. (a + 1) * l = a * l + l /\ (a - 1) * l = a * l - l
  OBVIOUS
<1>3. a < b => (a + 1) * l <= b * l
  OBVIOUS
<1> QED BY <1>1, <1>2, <1>3

LEMMA QuotientIs ==
  ASSUME NEW n \in Nat, NEW l \in Nat, l > 0, NEW q \in Int, q * l <= n, n < q * l + l
  PROVE  n \div l = q
<1>1. n \div l \in Nat /\ (n \div l) * l <= n /\ n < (n \div l) * l + l
  BY Quotient
<1>2. ~(n \div l < q) /\ ~(q < n \div l)
  BY <1>1, Products
<1> QED BY <1>1, <1>2

LEMMA QuotientGrows ==
  ASSUME NEW n \in Nat, NEW m \in Nat, n <= m, NEW l \in Nat, l > 0
  PROVE  n \div l <= m \div l
<1>1. /\ n \div l \in Nat /\ (n \div l) * l <= n
      /\ m \div l \in Nat /\ m < (m \div l) * l + l
  BY Quotient
<1>2. ~(m \div l < n \div l)
  BY <1>1, Products
<1> QED BY <1>1, <1>2

LEMMA Multiples ==
  ASSUME NEW l \in Nat, l % 16 = 0, NEW i \in Int
  PROVE  (i * l) % 16 = 0
<1>1. PICK m \in Int : l = 16 * m
  OBVIOUS
<1>2. i * l = 16 * (i * m)
  BY <1>1
<1>3. i * m \in Int
  BY <1>1
<1>4. \A k \in Int : (16 * k) % 16 = 0
  OBVIOUS
<1> QED BY <1>2, <1>3, <1>4

(* Where the LCU number i is, and how large.                               *)
LEMMA Part ==
  ASSUME NEW w, NEW l, Sizes(w, l), NEW i \in 0..(Parts(w, l) - 1)
  PROVE  /\ Parts(w, l) \in Nat /\ i * l \in Nat /\ (i * l) % 16 = 0 /\ i * l < w
         /\ Lower(l, w - i * l) \in Nat /\ Lower(l, w - i * l) % 8 = 0 /\ Lower(l, w - i * l) > 0
         /\ i < Parts(w, l) - 1 => Lower(l, w - i * l) = l /\ i * l + l < w
         /\ i = Parts(w, l) - 1 => Lower(l, w - i * l) = w - i * l
<1> DEFINE n == Parts(w, l)
<1>1. w \in Nat /\ l \in Nat /\ l > 0 /\ w > 0 /\ w % 8 = 0 /\ l % 16 = 0
  BY DEF Sizes
<1>2. n \in Nat /\ n * l <= w + l - 1 /\ w + l - 1 < n * l + l
  BY <1>1, Quotient DEF Parts
<1> HIDE DEF n
<1>3. i \in Nat /\ i <= n - 1
  BY <1>2 DEF n
<1>4. (n - 1) * l = n * l - l /\ i * l <= (n - 1) * l /\ i * l \in Int /\ 0 * l <= i * l
  BY <1>1, <1>2, <1>3, Products
<1>5. i * l \in Nat /\ i * l < w
  BY <1>1, <1>2, <1>4
<1>6. i < n - 1 => i * l + l < w
  BY <1>1, <1>2, <1>3, <1>4, Products
<1>7. i = n - 1 => w - i * l <= l
  <2>1. i = n - 1 => i * l = (n - 1) * l
    OBVIOUS
  <2> QED BY <1>1, <1>2, <1>4, <2>1
<1>8. (i * l) % 16 = 0
  <2>1. l \in Nat /\ l % 16 = 0 /\ i \in Int
    BY <1>1, <1>3
  <2> QED BY <2>1, Multiples, Zenon
<1> DEFINE at == i * l
<1> HIDE DEF at
<1>9. /\ at \in Nat /\ at < w /\ at % 16 = 0
      /\ i < n - 1 => at + l < w
      /\ i = n - 1 => w - at <= l
  BY <1>5, <1>6, <1>7, <1>8 DEF at
<1>10. /\ Lower(l, w - at) \in Nat /\ Lower(l, w - at) % 8 = 0 /\ Lower(l, w - at) > 0
       /\ i < n - 1 => Lower(l, w - at) = l /\ at + l < w
       /\ i = n - 1 => Lower(l, w - at) = w - at
  BY <1>1, <1>3, <1>9 DEF Lower
<1> QED BY <1>2, <1>9, <1>10 DEF at, n

LEMMA PartOf ==
  ASSUME NEW w, NEW l, Sizes(w, l), NEW k \in 0..(w - 1)
  PROVE  /\ k \div l \in 0..(Parts(w, l) - 1) /\ (k \div l) * l <= k
         /\ k < (k \div l) * l + Lower(l, w - (k \div l) * l)
<1> DEFINE n == Parts(w, l)
           q == k \div l
<1>1. w \in Nat /\ l \in Nat /\ l > 0 /\ w > 0
  BY DEF Sizes
<1>2. n \in Nat /\ w + l - 1 < n * l + l
  BY <1>1, Quotient DEF Parts
<1>3. k \in Nat /\ k < w /\ q \in Nat /\ q * l <= k /\ k < q * l + l
  BY <1>1, Quotient
<1> HIDE DEF n, q
<1>4. ~(n <= q)
  <2>1. n <= q => n * l <= q * l
    BY <1>1, <1>2, <1>3, Products
  <2> QED BY <1>1, <1>2, <1>3, <2>1, Products
<1>5. q * l \in Int
  BY <1>1, <1>3, Products
<1>6. k < q * l + Lower(l, w - q * l)
  BY <1>1, <1>3, <1>5 DEF Lower
<1> QED BY <1>2, <1>3, <1>4, <1>6 DEF n, q

LEMMA SameFrame ==
  ASSUME fr' = fr, NEW c
  PROVE  /\ L' = L /\ Lcus' = Lcus /\ Neighbours(c)' = Neighbours(c)
         /\ Inside(c, "ver")' = Inside(c, "ver") /\ Inside(c, "hor")' = Inside(c, "hor")
         /\ Rightmost(c)' = Rightmost(c) /\ SaoWrites(c)' = SaoWrites(c)
<1>1. L' = L /\ Cols' = Cols /\ Rows' = Rows
  BY DEF L, Cols, Rows
<1>2. Lcus' = Lcus /\ Neighbours(c)' = Neighbours(c)
  BY <1>1 DEF Lcus, Neighbours
<1>3. X0(c)' = X0(c) /\ Y0(c)' = Y0(c) /\ SizeX(c)' = SizeX(c) /\ SizeY(c)' = SizeY(c)
      /\ HasLeft(c)' = HasLeft(c) /\ HasRight(c)' = HasRight(c)
      /\ HasAbove(c)' = HasAbove(c) /\ HasBelow(c)' = HasBelow(c)
  BY <1>1 DEF X0, Y0, SizeX, SizeY, HasLeft, HasRight, HasAbove, HasBelow
<1>4. \A x : LastOfLcu(x)' = LastOfLcu(x)
  BY <1>1 DEF LastOfLcu
<1>5. \A x, y : Unit("ver", x, y)' = Unit("ver", x, y) /\ Unit("hor", x, y)' = Unit("hor", x, y)
  BY <1>4 DEF Unit
<1>6. Inside(c, "ver")' = Inside(c, "ver") /\ Inside(c, "hor")' = Inside(c, "hor")
  BY <1>3, <1>5 DEF Inside
<1>7. Rightmost(c)' = Rightmost(c)
  BY <1>1, <1>3 DEF Rightmost, Height
<1>8. SaoWrites(c)' = SaoWrites(c)
  BY <1>1, <1>3 DEF SaoWrites, SaoArea
<1> QED BY <1>1, <1>2, <1>6, <1>7, <1>8

-----------------------------------------------------------------------------
AfterVer   == {"right", "hor", "save", "sao", "done"}
AfterRight == {"hor", "save", "sao", "done"}
AfterHor   == {"save", "sao", "done"}

(* The edges that the job of an LCU has filtered by now, and the pixels.   *)
FilteredBy(c) == UNION {IF step[c] \in AfterVer   THEN Inside(c, "ver") ELSE {},
                        IF step[c] \in AfterRight THEN Rightmost(c) ELSE {},
                        IF step[c] \in AfterHor   THEN Inside(c, "hor") ELSE {}}
FinalBy(c)    == IF step[c] = "done" THEN SaoWrites(c) ELSE {}

FilterType ==
  /\ fr \in Frames
  /\ step \in [Lcus -> {"search", "ver", "right", "hor", "save", "sao", "done"}]
  /\ \A c \in Lcus : /\ step[c] \in {"ver", "right", "hor"} => fr.deblock
                     /\ step[c] \in {"save", "sao"} => fr.sao

(* How far the jobs have come says what has been done to the frame.        *)
DoneByJobs ==
  /\ recon = {c \in Lcus : step[c] # "search"}
  /\ filtered = IF fr.deblock THEN UNION {FilteredBy(c) : c \in Lcus} ELSE {}
  /\ final = IF fr.sao THEN UNION {FinalBy(c) : c \in Lcus} ELSE {}

(* A job begins when all LCUs behind it are done: those that are not       *)
(* further down and not beyond its anti-diagonal.                          *)
Behind(c) == {d \in Lcus : d[2] <= c[2] /\ d[1] + d[2] <= c[1] + c[2]}
BehindDone == \A c \in Lcus : step[c] # "search" => \A d \in Behind(c) \ {c} : step[d] = "done"

JobsInv == FilterType /\ DoneByJobs /\ BehindDone

LEMMA FilterInitInv == FilterInit => JobsInv
<1> SUFFICES ASSUME FilterInit PROVE JobsInv
  OBVIOUS
<1>1. /\ fr \in Frames /\ step = [c \in Lcus |-> "search"]
      /\ recon = {} /\ filtered = {} /\ final = {}
  BY DEF FilterInit
<1>2. FilterType
  BY <1>1 DEF FilterType
<1>3. DoneByJobs
  BY <1>1 DEF DoneByJobs, FilteredBy, FinalBy, AfterVer, AfterRight, AfterHor
<1>4. BehindDone
  BY <1>1 DEF BehindDone
<1> QED BY <1>2, <1>3, <1>4 DEF JobsInv

LEMMA FrameIs ==
  ASSUME fr \in Frames
  PROVE  /\ Sizes(fr.W, L) /\ Sizes(fr.H, L) /\ Cols = Parts(fr.W, L) /\ Rows = Parts(fr.H, L)
         /\ fr.deblock \in BOOLEAN /\ fr.sao \in BOOLEAN
BY FrameSizes DEF Sizes, L, Cols, Rows, Parts

LEMMA LcuType ==
  ASSUME fr \in Frames, NEW c \in Lcus
  PROVE  c = <<c[1], c[2]>> /\ c[1] \in 0..(Cols - 1) /\ c[2] \in 0..(Rows - 1)
         /\ c[1] \in Nat /\ c[2] \in Nat /\ Cols \in Nat /\ Rows \in Nat
<1>1. c[1] \in 0..(Cols - 1) /\ c[2] \in 0..(Rows - 1) /\ c = <<c[1], c[2]>>
  BY DEF Lcus
<1>2. Cols \in Nat /\ Rows \in Nat
  BY <1>1, FrameIs, Part
<1> QED BY <1>1, <1>2

(* What is behind an LCU is behind one of its neighbours.                  *)
LEMMA BehindNeighbours ==
  ASSUME fr \in Frames, NEW c \in Lcus, NEW d \in Behind(c) \ {c}
  PROVE  \E e \in Neighbours(c) : d \in Behind(e)
<1>1. /\ c = <<c[1], c[2]>> /\ c[1] \in 0..(Cols - 1) /\ c[2] \in 0..(Rows - 1)
      /\ c[1] \in Nat /\ c[2] \in Nat /\ Cols \in Nat /\ Rows \in Nat
  BY LcuType
<1>2. /\ d \in Lcus /\ d[2] <= c[2] /\ d[1] + d[2] <= c[1] + c[2]
      /\ d = <<d[1], d[2]>> /\ d[1] \in 0..(Cols - 1) /\ d[2] \in 0..(Rows - 1)
      /\ d[1] \in Nat /\ d[2] \in Nat
  BY LcuType DEF Behind
<1>3. CASE d[2] = c[2]
  <2> DEFINE e == <<c[1] - 1, c[2]>>
  <2>1. d[1] < c[1]
    BY <1>1, <1>2, <1>3
  <2>2. e \in Neighbours(c)
    BY <1>1, <1>2, <2>1 DEF Neighbours, Lcus
  <2>3. d \in Behind(e)
    BY <1>1, <1>2, <1>3, <2>1 DEF Behind
  <2> QED BY <2>2, <2>3
<1>4. CASE d[2] < c[2]
  <2> DEFINE a == Lower(c[1] + 1, Cols - 1)
             e == <<a, c[2] - 1>>
  <2>1. a \in 0..(Cols - 1) /\ a \in Nat /\ (a = c[1] + 1 \/ a = Cols - 1)
    BY <1>1 DEF Lower
  <2> HIDE DEF a
  <2>2. e \in Lcus
    BY <1>1, <1>2, <1>4, <2>1 DEF Lcus
  <2>3. e \in Neighbours(c)
    BY <2>2 DEF Neighbours, a
  <2>4. d \in Behind(e)
    BY <1>1, <1>2, <1>4, <2>1 DEF Behind
  <2> QED BY <2>3, <2>4
<1> QED BY <1>1, <1>2, <1>3, <1>4

LEMMA MaySearchBehind ==
  ASSUME JobsInv, NEW c \in Lcus, MaySearch(c), NEW d \in Behind(c) \ {c}
  PROVE  step[d] = "done"
<1>1. PICK e \in Neighbours(c) : d \in Behind(e)
  BY BehindNeighbours DEF JobsInv, FilterType
<1>2. step[e] = "done" /\ e \in Lcus
  BY DEF MaySearch, Neighbours
<1> QED BY <1>1, <1>2 DEF JobsInv, BehindDone

(* A step of the job of an LCU in a frame adds what this job does.         *)
LEMMA JobMoves ==
  ASSUME JobsInv, fr' = fr, NEW c \in Lcus, NEW next, Goes(c, next),
         step[c] # "done",
         step[c] = "search" => MaySearch(c),
         next \in {"ver", "right", "hor", "save", "sao", "done"},
         next \in {"ver", "right", "hor"} => fr.deblock,
         next \in {"save", "sao"} => fr.sao,
         recon' = recon \cup {c},
         filtered' = filtered \cup (IF fr.deblock THEN FilteredBy(c)' ELSE {}),
         FilteredBy(c) \subseteq FilteredBy(c)',
         final' = final \cup (IF fr.sao THEN FinalBy(c)' ELSE {})
  PROVE  JobsInv'
<1>1. Lcus' = Lcus /\ step' = [step EXCEPT ![c] = next]
  BY SameFrame DEF Goes
<1>2. step \in [Lcus -> {"search", "ver", "right", "hor", "save", "sao", "done"}] /\ fr \in Frames
  BY DEF JobsInv, FilterType
<1>3. step'[c] = next /\ \A d \in Lcus \ {c} : step'[d] = step[d]
  BY <1>1, <1>2
<1>4. FilterType'
  <2>1. step' \in [Lcus' -> {"search", "ver", "right", "hor", "save", "sao", "done"}]
    BY <1>1, <1>2
  <2>2. \A d \in Lcus : /\ step'[d] \in {"ver", "right", "hor"} => fr.deblock
                        /\ step'[d] \in {"save", "sao"} => fr.sao
    BY <1>3 DEF JobsInv, FilterType
  <2> QED BY <1>1, <1>2, <2>1, <2>2 DEF FilterType
<1>5. \A d \in Lcus \ {c} : FilteredBy(d)' = FilteredBy(d) /\ FinalBy(d)' = FinalBy(d)
  BY <1>3, SameFrame DEF FilteredBy, FinalBy
<1>6. DoneByJobs'
  <2>1. recon' = {d \in Lcus : step'[d] # "search"}
    BY <1>3 DEF JobsInv, DoneByJobs
  <2>2. fr.deblock => filtered' = UNION {FilteredBy(d)' : d \in Lcus}
    BY <1>5 DEF JobsInv, DoneByJobs
  <2>3. FinalBy(c) = {}
    BY DEF FinalBy
  <2>4. fr.sao => final' = UNION {FinalBy(d)' : d \in Lcus}
    BY <1>5, <2>3 DEF JobsInv, DoneByJobs
  <2>5. (~fr.deblock => filtered' = {}) /\ (~fr.sao => final' = {})
    BY DEF JobsInv, DoneByJobs
  <2> QED BY <1>1, <2>1, <2>2, <2>4, <2>5 DEF DoneByJobs
<1>7. BehindDone'
  <2> SUFFICES ASSUME NEW d \in Lcus, step'[d] # "search", NEW e \in Behind(d) \ {d}
               PROVE  step'[e] = "done"
    BY <1>1 DEF BehindDone, Behind
  <2>1. e \in Lcus
    BY DEF Behind
  <2>2. step[e] = "done"
    <3>1. CASE step[d] # "search"
      BY <3>1 DEF JobsInv, BehindDone
    <3>2. CASE step[d] = "search"
      BY <1>3, <3>2, MaySearchBehind
    <3> QED BY <3>1, <3>2
  <2> QED BY <1>3, <2>1, <2>2
<1> QED BY <1>4, <1>6, <1>7 DEF JobsInv

(* The three kinds of edges one after the other.                           *)
LEMMA FilteredUntil ==
  ASSUME NEW c
  PROVE  /\ step[c] \in {"search", "ver"} => FilteredBy(c) = {}
         /\ step[c] = "right" => FilteredBy(c) = Inside(c, "ver")
         /\ step[c] = "hor" => FilteredBy(c) = Inside(c, "ver") \cup Rightmost(c)
         /\ step[c] \in AfterHor => FilteredBy(c) = Inside(c, "ver") \cup Rightmost(c) \cup Inside(c, "hor")
         /\ step[c] # "done" => FinalBy(c) = {}
         /\ step[c] = "done" => FinalBy(c) = SaoWrites(c)
<1>1. FilteredBy(c) = (IF step[c] \in AfterVer THEN Inside(c, "ver") ELSE {})
                      \cup (IF step[c] \in AfterRight THEN Rightmost(c) ELSE {})
                      \cup (IF step[c] \in AfterHor THEN Inside(c, "hor") ELSE {})
  BY DEF FilteredBy
<1> QED BY <1>1 DEF AfterVer, AfterRight, AfterHor, FinalBy

LEMMA FilteredUntilNext ==
  ASSUME fr' = fr, NEW c
  PROVE  /\ step'[c] \in {"search", "ver"} => FilteredBy(c)' = {}
         /\ step'[c] = "right" => FilteredBy(c)' = Inside(c, "ver")
         /\ step'[c] = "hor" => FilteredBy(c)' = Inside(c, "ver") \cup Rightmost(c)
         /\ step'[c] \in AfterHor => FilteredBy(c)' = Inside(c, "ver") \cup Rightmost(c) \cup Inside(c, "hor")
         /\ step'[c] # "done" => FinalBy(c)' = {}
         /\ step'[c] = "done" => FinalBy(c)' = SaoWrites(c)
<1>1. FilteredBy(c)' = (IF step'[c] \in AfterVer THEN Inside(c, "ver") ELSE {})
                       \cup (IF step'[c] \in AfterRight THEN Rightmost(c) ELSE {})
                       \cup (IF step'[c] \in AfterHor THEN Inside(c, "hor") ELSE {})
  BY SameFrame DEF FilteredBy
<1> QED BY <1>1, SameFrame DEF AfterVer, AfterRight, AfterHor, FinalBy

LEMMA JobStep ==
  ASSUME JobsInv, NEW c \in Lcus,
         \/ SearchLcu(c) \/ DeblockVer(c) \/ DeblockRightmost(c) \/ DeblockHor(c)
         \/ SaveBeforeSao(c) \/ SaoReconstruct(c)
  PROVE  JobsInv'
<1>1. fr' = fr /\ step \in [Lcus -> {"search", "ver", "right", "hor", "save", "sao", "done"}]
  BY DEF JobsInv, FilterType, SearchLcu, DeblockVer, DeblockRightmost, DeblockHor, SaveBeforeSao,
         SaoReconstruct
<1>2. \A next : Goes(c, next) => step'[c] = next
  BY <1>1 DEF Goes
<1>3. /\ step[c] \in {"ver", "right", "hor"} => fr.deblock
      /\ step[c] \in {"save", "sao"} => fr.sao
      /\ step[c] # "search" => c \in recon
      /\ fr.deblock => FilteredBy(c) \subseteq filtered
      /\ fr.deblock \in BOOLEAN /\ fr.sao \in BOOLEAN
  BY FrameSizes DEF JobsInv, FilterType, DoneByJobs
<1>4. CASE SearchLcu(c)
  <2>1. /\ MaySearch(c) /\ step[c] = "search" /\ Goes(c, AfterSearch) /\ step'[c] = AfterSearch
        /\ recon' = recon \cup {c} /\ filtered' = filtered /\ final' = final
    BY <1>2, <1>4 DEF SearchLcu, MaySearch
  <2>2. /\ AfterSearch \in {"ver", "save", "done"}
        /\ AfterSearch = "ver" <=> fr.deblock
        /\ AfterSearch = "save" => fr.sao
        /\ fr.sao => AfterSearch # "done"
    BY <1>3 DEF AfterSearch
  <2>3. FilteredBy(c) = {} /\ (fr.deblock => FilteredBy(c)' = {}) /\ (fr.sao => FinalBy(c)' = {})
    BY <1>1, <2>1, <2>2, FilteredUntil, FilteredUntilNext
  <2> QED BY <1>1, <2>1, <2>2, <2>3, JobMoves
<1>5. CASE DeblockVer(c)
  <2>1. /\ step[c] = "ver" /\ Goes(c, "right") /\ step'[c] = "right" /\ recon' = recon \cup {c}
        /\ filtered' = filtered \cup Inside(c, "ver") /\ final' = final
    BY <1>2, <1>3, <1>5 DEF DeblockVer
  <2>2. FilteredBy(c) = {} /\ FilteredBy(c)' = Inside(c, "ver") /\ FinalBy(c)' = {}
    BY <1>1, <2>1, FilteredUntil, FilteredUntilNext
  <2> QED BY <1>1, <1>3, <2>1, <2>2, JobMoves
<1>6. CASE DeblockRightmost(c)
  <2>1. /\ step[c] = "right" /\ Goes(c, "hor") /\ step'[c] = "hor" /\ recon' = recon \cup {c}
        /\ filtered' = filtered \cup Rightmost(c) /\ final' = final
    BY <1>2, <1>3, <1>6 DEF DeblockRightmost
  <2>2. /\ FilteredBy(c) = Inside(c, "ver") /\ FilteredBy(c)' = Inside(c, "ver") \cup Rightmost(c)
        /\ FinalBy(c)' = {}
    BY <1>1, <2>1, FilteredUntil, FilteredUntilNext
  <2>3. filtered' = filtered \cup FilteredBy(c)'
    BY <1>3, <2>1, <2>2
  <2> QED BY <1>1, <1>3, <2>1, <2>2, <2>3, JobMoves
<1>7. CASE DeblockHor(c)
  <2>1. /\ step[c] = "hor" /\ Goes(c, AfterDeblock) /\ step'[c] = AfterDeblock /\ recon' = recon \cup {c}
        /\ filtered' = filtered \cup Inside(c, "hor") /\ final' = final
    BY <1>2, <1>3, <1>7 DEF DeblockHor
  <2>2. /\ AfterDeblock \in {"save", "done"} /\ AfterDeblock \in AfterHor
        /\ AfterDeblock = "save" <=> fr.sao
    BY DEF AfterDeblock, AfterHor
  <2>3. /\ FilteredBy(c) = Inside(c, "ver") \cup Rightmost(c)
        /\ FilteredBy(c)' = Inside(c, "ver") \cup Rightmost(c) \cup Inside(c, "hor")
        /\ fr.sao => FinalBy(c)' = {}
    BY <1>1, <2>1, <2>2, FilteredUntil, FilteredUntilNext
  <2>4. filtered' = filtered \cup FilteredBy(c)'
    BY <1>3, <2>1, <2>3
  <2> QED BY <1>1, <1>3, <2>1, <2>2, <2>3, <2>4, JobMoves
<1>8. CASE SaveBeforeSao(c)
  <2>1. /\ step[c] = "save" /\ Goes(c, "sao") /\ step'[c] = "sao" /\ recon' = recon \cup {c}
        /\ filtered' = filtered /\ final' = final
    BY <1>2, <1>3, <1>8 DEF SaveBeforeSao
  <2>2. /\ FilteredBy(c)' = FilteredBy(c) /\ FinalBy(c)' = {}
    BY <1>1, <2>1, FilteredUntil, FilteredUntilNext DEF AfterHor
  <2> QED BY <1>1, <1>3, <2>1, <2>2, JobMoves
<1>9. CASE SaoReconstruct(c)
  <2>1. /\ step[c] = "sao" /\ Goes(c, "done") /\ step'[c] = "done" /\ recon' = recon \cup {c}
        /\ filtered' = filtered /\ final' = final \cup SaoWrites(c)
    BY <1>2, <1>3, <1>9 DEF SaoReconstruct
  <2>2. /\ FilteredBy(c)' = FilteredBy(c) /\ FinalBy(c)' = SaoWrites(c)
    BY <1>1, <2>1, FilteredUntil, FilteredUntilNext DEF AfterHor
  <2> QED BY <1>1, <1>3, <2>1, <2>2, JobMoves
<1> QED BY <1>4, <1>5, <1>6, <1>7, <1>8, <1>9

LEMMA FilterNextInv == JobsInv /\ [FilterNext]_filterVars => JobsInv'
<1> SUFFICES ASSUME JobsInv, [FilterNext]_filterVars
             PROVE  JobsInv'
  OBVIOUS
<1>1. CASE \E c \in Lcus : \/ SearchLcu(c) \/ DeblockVer(c) \/ DeblockRightmost(c) \/ DeblockHor(c)
                           \/ SaveBeforeSao(c) \/ SaoReconstruct(c)
  BY <1>1, JobStep
<1>2. CASE UNCHANGED filterVars
  <2>1. fr' = fr /\ step' = step /\ recon' = recon /\ filtered' = filtered /\ final' = final
    BY <1>2 DEF filterVars
  <2>2. \A c : FilteredBy(c)' = FilteredBy(c) /\ FinalBy(c)' = FinalBy(c)
    BY <2>1, SameFrame DEF FilteredBy, FinalBy
  <2>3. FilterType' /\ BehindDone'
    BY <2>1, SameFrame DEF JobsInv, FilterType, BehindDone, Behind
  <2>4. DoneByJobs'
    BY <2>1, <2>2, SameFrame DEF JobsInv, DoneByJobs
  <2> QED BY <2>3, <2>4 DEF JobsInv
<1> QED BY <1>1, <1>2 DEF FilterNext, FrameDone

-----------------------------------------------------------------------------
(* Along either axis, the LCU whose SAO changes a coordinate b of a plane  *)
(* with 1 pixel for s pixels of luma is not beyond the one that is ahead of*)
(* n by the margin.                                                        *)
LEMMA SaoPartOf ==
  ASSUME NEW w, NEW l, Sizes(w, l), NEW s \in {1, 2}, NEW b \in 0..(w \div s - 1),
         NEW n \in Nat, b * s <= n
  PROVE  \E i \in 0..(Parts(w, l) - 1) :
           /\ i <= (n + 1 + 10) \div l
           /\ (i * l) \div s + (-(IF i > 0 THEN 10 ELSE 0)) \div s <= b
           /\ b < (i * l) \div s + (Lower(l, w - i * l) - (IF i < Parts(w, l) - 1 THEN 10 ELSE 0)) \div s
<1> DEFINE N == Parts(w, l)
           k == b * s + 10
           q == k \div l
           i == Lower(q, N - 1)
<1>1. w \in Nat /\ l \in Nat /\ l > 0 /\ w > 0 /\ b \in Nat /\ k \in Nat /\ b * s < w
  BY DEF Sizes
<1>2. q \in Nat /\ q * l <= k /\ k < q * l + l
  BY <1>1, Quotient
<1>3. q <= (n + 1 + 10) \div l
  BY <1>1, QuotientGrows
<1>4. N \in Nat /\ N > 0
  <2>1. 0 \div l \in 0..(N - 1)
    BY <1>1, PartOf
  <2> QED BY <1>1, <2>1, Quotient DEF Parts
<1>5. i \in 0..(N - 1) /\ i <= q /\ (i = q \/ i = N - 1)
  <2> HIDE DEF q, N
  <2> QED BY <1>2, <1>4 DEF Lower
<1> HIDE DEF i, q, N
<1>6. /\ i * l \in Nat /\ (i * l) % 16 = 0 /\ i * l < w
      /\ Lower(l, w - i * l) \in Nat /\ Lower(l, w - i * l) % 8 = 0
      /\ i < N - 1 => Lower(l, w - i * l) = l
      /\ i = N - 1 => Lower(l, w - i * l) = w - i * l
  BY <1>5, Part DEF N
<1>7. i * l <= q * l
  BY <1>1, <1>2, <1>5, Products
<1>8. i < N - 1 => i * l = q * l
  BY <1>5
<1>9. i <= (n + 1 + 10) \div l
  <2>1. (n + 1 + 10) \div l \in Nat
    BY <1>1, Quotient
  <2> QED BY <1>2, <1>3, <1>5, <2>1
<1> DEFINE at == i * l
           size == Lower(l, w - i * l)
<1>10. /\ at \in Nat /\ at % 16 = 0 /\ at <= k
       /\ size \in Nat /\ size % 8 = 0
       /\ i < N - 1 => size = l /\ k < at + l
       /\ i = N - 1 => size = w - at
  BY <1>2, <1>6, <1>7, <1>8, <1>1
<1> HIDE DEF at, size
<1>11. at \div s + (-(IF i > 0 THEN 10 ELSE 0)) \div s <= b
  <2>1. i = 0 => at = 0
    BY <1>1 DEF at
  <2>2. CASE s = 1
    BY <1>1, <1>5, <1>10, <2>1, <2>2 DEF k
  <2>3. CASE s = 2
    BY <1>1, <1>5, <1>10, <2>1, <2>3 DEF k
  <2> QED BY <2>2, <2>3
<1>12. b < at \div s + (size - (IF i < N - 1 THEN 10 ELSE 0)) \div s
  <2>1. CASE s = 1
    BY <1>1, <1>4, <1>5, <1>10, <2>1 DEF k
  <2>2. CASE s = 2
    BY <1>1, <1>4, <1>5, <1>10, <2>2 DEF k, Sizes
  <2> QED BY <2>1, <2>2
<1> QED BY <1>5, <1>9, <1>11, <1>12 DEF at, size, N

(* The LCU that a block of 8x8 pixels belongs to filters it.               *)
LEMMA InsideHas ==
  ASSUME fr \in Frames, NEW X \in 0..(fr.W - 1), X % 8 = 0, NEW Y \in 0..(fr.H - 1), Y % 8 = 0
  PROVE  /\ <<X \div L, Y \div L>> \in Lcus
         /\ \A dir \in {"ver", "hor"} : Unit(dir, X, Y) \subseteq Inside(<<X \div L, Y \div L>>, dir)
<1> DEFINE d == <<X \div L, Y \div L>>
<1>1. /\ X \div L \in 0..(Cols - 1) /\ (X \div L) * L <= X
      /\ X < (X \div L) * L + Lower(L, fr.W - (X \div L) * L)
      /\ (X \div L) * L \in Int /\ Lower(L, fr.W - (X \div L) * L) \in Int
  <2>1. Sizes(fr.W, L) /\ Cols = Parts(fr.W, L)
    BY FrameIs
  <2>2. /\ X \div L \in 0..(Cols - 1) /\ (X \div L) * L <= X
        /\ X < (X \div L) * L + Lower(L, fr.W - (X \div L) * L)
    BY <2>1, PartOf
  <2>3. (X \div L) * L \in Int /\ Lower(L, fr.W - (X \div L) * L) \in Int
    BY <2>1, <2>2, Part
  <2> QED BY <2>2, <2>3
<1>2. /\ Y \div L \in 0..(Rows - 1) /\ (Y \div L) * L <= Y
      /\ Y < (Y \div L) * L + Lower(L, fr.H - (Y \div L) * L)
      /\ (Y \div L) * L \in Int /\ Lower(L, fr.H - (Y \div L) * L) \in Int
  <2>1. Sizes(fr.H, L) /\ Rows = Parts(fr.H, L)
    BY FrameIs
  <2>2. /\ Y \div L \in 0..(Rows - 1) /\ (Y \div L) * L <= Y
        /\ Y < (Y \div L) * L + Lower(L, fr.H - (Y \div L) * L)
    BY <2>1, PartOf
  <2>3. (Y \div L) * L \in Int /\ Lower(L, fr.H - (Y \div L) * L) \in Int
    BY <2>1, <2>2, Part
  <2> QED BY <2>2, <2>3
<1>3. d \in Lcus
  BY <1>1, <1>2 DEF Lcus
<1>4. X \in OnGrid(X0(d), X0(d) + SizeX(d)) /\ Y \in OnGrid(Y0(d), Y0(d) + SizeY(d))
  BY <1>1, <1>2 DEF OnGrid, X0, Y0, SizeX, SizeY
<1>5. ASSUME NEW dir \in {"ver", "hor"}
      PROVE  Unit(dir, X, Y) \subseteq Inside(d, dir)
  BY <1>4 DEF Inside
<1> QED BY <1>3, <1>5

(* The edge of the grid that a coordinate is next to.                      *)
LEMMA EdgeIs ==
  ASSUME NEW p \in Planes, NEW n \in Nat, NEW size \in Nat, NEW e \in Edge(p, n, size)
  PROVE  e \in Nat /\ e % 8 = 0 /\ 0 < e /\ e < size /\ e <= n + Touch(p) /\ n < e + Touch(p)
<1>1. Touch(p) \in {1, 3}
  BY DEF Touch
<1>2. e = ((n + Touch(p)) \div 8) * 8 /\ e > 0 /\ e < size /\ n < e + Touch(p)
  BY DEF Edge
<1> QED BY <1>1, <1>2

LEMMA PlaneIs ==
  ASSUME fr \in Frames, NEW p \in Planes
  PROVE  /\ p \in {"Y", "C"} /\ Scale("Y") = 1 /\ Scale("C") = 2
         /\ Width("Y") = fr.W /\ Height("Y") = fr.H
         /\ Width("C") = fr.W \div 2 /\ Height("C") = fr.H \div 2
         /\ Width(p) \in Nat /\ Height(p) \in Nat
         /\ fr.W \in Nat /\ fr.W % 8 = 0 /\ fr.H \in Nat /\ fr.H % 8 = 0
         /\ L \in Nat /\ L > 0 /\ L % 16 = 0 /\ Touch("Y") = 3 /\ Touch("C") = 1
<1>1. fr.W \in Nat /\ fr.W % 8 = 0 /\ fr.H \in Nat /\ fr.H % 8 = 0 /\ L \in Nat /\ L > 0 /\ L % 16 = 0
  BY FrameIs DEF Sizes
<1> QED BY <1>1 DEF Planes, Scale, Width, Height, Touch

(* How far the LCU that filters the edges of a pixel may be from it.       *)
NearVer(d, x, y) == d[1] <= (x + 3) \div L /\ d[2] <= y \div L
NearHor(d, x, y) == d[1] <= ((x \div 8) * 8 + 8) \div L /\ d[2] <= (y + 3) \div L

LEMMA VerFilteredBy ==
  ASSUME fr \in Frames, NEW p \in Planes, NEW x \in 0..(Width(p) - 1), NEW y \in 0..(Height(p) - 1),
         NEW s \in Ver(<<p, x, y>>)
  PROVE  \E d \in Lcus : s \in Inside(d, "ver") /\ NearVer(d, x * Scale(p), y * Scale(p))
<1>1. PICK e \in Edge(p, x, Width(p)) : s = <<p, "ver", e, (y \div 4) * 4>>
  BY DEF Ver
<1>2. /\ e \in Nat /\ e % 8 = 0 /\ 0 < e /\ e < Width(p) /\ e <= x + Touch(p)
      /\ x \in Nat /\ y \in Nat /\ y < Height(p)
  BY <1>1, EdgeIs, PlaneIs
<1> DEFINE X == e * Scale(p)
           Y == ((y * Scale(p)) \div 8) * 8
<1>3. /\ X \in 0..(fr.W - 1) /\ X % 8 = 0 /\ Y \in 0..(fr.H - 1) /\ Y % 8 = 0 /\ X # 0
      /\ X <= x * Scale(p) + 3 /\ Y <= y * Scale(p)
  <2>1. CASE p = "Y"
    BY <1>2, <2>1, PlaneIs
  <2>2. CASE p = "C"
    BY <1>2, <2>2, PlaneIs
  <2> QED BY <2>1, <2>2, PlaneIs
<1>4. s \in Unit("ver", X, Y)
  <2>1. CASE p = "Y"
    <3>1. X = e /\ Y = (y \div 8) * 8
      BY <1>2, <2>1, PlaneIs
    <3>2. (y \div 4) * 4 = Y \/ (y \div 4) * 4 = Y + 4
      BY <1>2, <3>1
    <3>3. s \in Segments("Y", "ver", X, Y, 8)
      BY <1>1, <1>2, <1>3, <2>1, <3>1, <3>2 DEF Segments, Without
    <3> QED BY <1>3, <3>3 DEF Unit, Without
  <2>2. CASE p = "C"
    <3>1. X \div 2 = e /\ Y \div 2 = (y \div 4) * 4
      BY <1>2, <2>2, PlaneIs
    <3>2. s \in Segments("C", "ver", X \div 2, Y \div 2, 4)
      BY <1>1, <1>2, <1>3, <2>2, <3>1 DEF Segments, Without
    <3> QED BY <1>2, <1>3, <3>1, <3>2 DEF Unit, Without
  <2> QED BY <2>1, <2>2, PlaneIs
<1> HIDE DEF X, Y
<1>5. NearVer(<<X \div L, Y \div L>>, x * Scale(p), y * Scale(p))
  <2>1. X \in Nat /\ Y \in Nat /\ x * Scale(p) + 3 \in Nat /\ y * Scale(p) \in Nat
    BY <1>2, <1>3 DEF Scale
  <2> QED BY <1>3, <2>1, PlaneIs, QuotientGrows DEF NearVer
<1> QED BY <1>3, <1>4, <1>5, InsideHas

(* The last pixels of the LCU on the left are left to the next one.        *)
LEMMA RightmostHas ==
  ASSUME fr \in Frames, NEW X \in Nat, X % 8 = 0, X < fr.W, LastOfLcu(X), NEW p \in Planes,
         NEW e \in Nat, e % 8 = 0, 0 < e, e < Height(p)
  PROVE  /\ <<(X + 8) \div L, (e * Scale(p)) \div L>> \in Lcus
         /\ <<p, "hor", (X + 8) \div Scale(p) - 4, e>> \in Rightmost(<<(X + 8) \div L, (e * Scale(p)) \div L>>)
<1> DEFINE Y == e * Scale(p)
           i == (X + 8) \div L
           j == Y \div L
<1>1. X + 8 \in 0..(fr.W - 1) /\ (X + 8) % L = 0
  BY PlaneIs DEF LastOfLcu
<1>2. Y \in 0..(fr.H - 1) /\ (p = "Y" => Y = e) /\ (p = "C" => Y = 2 * e)
  <2>1. CASE p = "Y"
    BY <2>1, PlaneIs
  <2>2. CASE p = "C"
    BY <2>2, PlaneIs
  <2> QED BY <2>1, <2>2, PlaneIs
<1>3. i \in 0..(Cols - 1) /\ i * L = X + 8 /\ i > 0
  <2>1. Sizes(fr.W, L) /\ Cols = Parts(fr.W, L)
    BY FrameIs
  <2>2. i \in 0..(Cols - 1)
    BY <1>1, <2>1, PartOf
  <2>3. X + 8 = L * i + ((X + 8) % L)
    BY <1>1, PlaneIs
  <2>4. Cols \in Nat
    BY <2>1, <2>2, Part
  <2> HIDE DEF i
  <2>5. i * L = X + 8
    BY <1>1, <2>2, <2>3, <2>4, PlaneIs
  <2>6. i # 0
    BY <2>5, PlaneIs
  <2> QED BY <2>2, <2>4, <2>5, <2>6
<1>4. j \in 0..(Rows - 1) /\ j * L <= Y /\ Y < j * L + L /\ (j * L) % 16 = 0 /\ j * L \in Nat
  <2>1. Sizes(fr.H, L) /\ Rows = Parts(fr.H, L) /\ L \in Nat /\ L > 0
    BY FrameIs, PlaneIs
  <2>2. j \in 0..(Rows - 1)
    BY <1>2, <2>1, PartOf
  <2>3. (j * L) % 16 = 0 /\ j * L \in Nat
    BY <2>1, <2>2, Part
  <2>4. j * L <= Y /\ Y < j * L + L
    BY <1>2, <2>1, Quotient
  <2> QED BY <2>2, <2>3, <2>4
<1>5. <<i, j>> \in Lcus
  BY <1>3, <1>4 DEF Lcus
<1> HIDE DEF i, j
<1> DEFINE s == Scale(p)
           yp == (j * L) \div s
<1>6. e \in {n \in yp..(Lower(yp + L \div s, Height(p)) - 1) : (n - yp) % 8 = 0 /\ n > 0}
  <2> DEFINE at == j * L
  <2>1. at \in Nat /\ at <= Y /\ Y < at + L /\ at % 16 = 0
    BY <1>4
  <2> HIDE DEF at
  <2>2. Lower(at \div s + L \div s, Height(p)) = at \div s + L \div s \/ Lower(at \div s + L \div s, Height(p)) = Height(p)
    BY DEF Lower
  <2>3. /\ at \div s <= e /\ e < at \div s + L \div s /\ (e - at \div s) % 8 = 0
        /\ at \div s \in Nat /\ L \div s \in Nat
    <3>1. CASE p = "Y"
      BY <1>2, <2>1, <3>1, PlaneIs
    <3>2. CASE p = "C"
      BY <1>2, <2>1, <3>2, PlaneIs
    <3> QED BY <3>1, <3>2, PlaneIs
  <2>4. e \in (at \div s)..(Lower(at \div s + L \div s, Height(p)) - 1)
    BY <2>2, <2>3, PlaneIs
  <2> QED BY <2>3, <2>4 DEF at
<1>7. HasLeft(<<i, j>>) /\ X0(<<i, j>>) = X + 8 /\ Y0(<<i, j>>) = j * L
  BY <1>3 DEF HasLeft, X0, Y0
<1>8. <<p, "hor", (X + 8) \div s - 4, e>> \in Rightmost(<<i, j>>)
  BY <1>6, <1>7 DEF Rightmost
<1> QED BY <1>5, <1>8 DEF i, j

LEMMA Blocks ==
  ASSUME NEW x \in Nat, NEW X, X = (x \div 8) * 8
  PROVE  /\ X \in Nat /\ X % 8 = 0 /\ X <= x /\ x < X + 8
         /\ (x \div 4) * 4 = X \/ ((x \div 4) * 4 = X + 4 /\ x >= X + 4)
OBVIOUS

LEMMA ChromaBlocks ==
  ASSUME NEW x \in Nat, NEW X, X = ((x * 2) \div 8) * 8
  PROVE  /\ X \in Nat /\ X % 8 = 0 /\ X <= x * 2
         /\ X \div 2 = (x \div 4) * 4 /\ (X + 8) \div 2 - 4 = (x \div 4) * 4
OBVIOUS

LEMMA HorFilteredBy ==
  ASSUME fr \in Frames, NEW p \in Planes, NEW x \in 0..(Width(p) - 1), NEW y \in 0..(Height(p) - 1),
         NEW s \in Hor(<<p, x, y>>)
  PROVE  \E d \in Lcus : (s \in Inside(d, "hor") \/ s \in Rightmost(d)) /\ NearHor(d, x * Scale(p), y * Scale(p))
<1>1. PICK e \in Edge(p, y, Height(p)) : s = <<p, "hor", (x \div 4) * 4, e>>
  BY DEF Hor
<1>2. /\ e \in Nat /\ e % 8 = 0 /\ 0 < e /\ e < Height(p) /\ e <= y + Touch(p)
      /\ x \in Nat /\ y \in Nat /\ x < Width(p)
  BY <1>1, EdgeIs, PlaneIs
<1> DEFINE X == ((x * Scale(p)) \div 8) * 8
           Y == e * Scale(p)
<1>3. /\ X \in 0..(fr.W - 1) /\ X % 8 = 0 /\ Y \in 0..(fr.H - 1) /\ Y % 8 = 0 /\ Y # 0
      /\ X <= x * Scale(p) /\ Y <= y * Scale(p) + 3
      /\ x * Scale(p) \in Nat /\ y * Scale(p) + 3 \in Nat
      /\ p = "Y" => X <= x /\ x < X + 8 /\ Y = e /\ ((x \div 4) * 4 = X \/ ((x \div 4) * 4 = X + 4 /\ x >= X + 4))
      /\ p = "C" => X \div 2 = (x \div 4) * 4 /\ Y \div 2 = e /\ (X + 8) \div 2 - 4 = (x \div 4) * 4
  <2>1. CASE p = "Y"
    <3>1. Scale(p) = 1
      BY <2>1, PlaneIs
    <3>2. X = (x \div 8) * 8
      BY <1>2, <3>1
    <3>3. /\ X \in Nat /\ X % 8 = 0 /\ X <= x /\ x < X + 8
          /\ (x \div 4) * 4 = X \/ ((x \div 4) * 4 = X + 4 /\ x >= X + 4)
      BY <1>2, <3>2, Blocks
    <3>4. Y = e /\ x * Scale(p) = x /\ y * Scale(p) = y
      BY <1>2, <3>1
    <3> HIDE DEF X, Y
    <3>5. Width(p) = fr.W /\ Height(p) = fr.H /\ Touch(p) = 3 /\ fr.W \in Nat /\ fr.H \in Nat
      BY <2>1, PlaneIs
    <3>6. X \in 0..(fr.W - 1) /\ Y \in 0..(fr.H - 1) /\ Y % 8 = 0 /\ Y # 0
      BY <1>2, <3>3, <3>4, <3>5
    <3>7. X <= x * Scale(p) /\ Y <= y * Scale(p) + 3 /\ x * Scale(p) \in Nat /\ y * Scale(p) + 3 \in Nat
      BY <1>2, <3>3, <3>4, <3>5
    <3>8. p # "C"
      BY <2>1
    <3> QED BY <3>3, <3>4, <3>6, <3>7, <3>8
  <2>2. CASE p = "C"
    <3>1. Scale(p) = 2
      BY <2>2, PlaneIs
    <3>2. X = ((x * 2) \div 8) * 8
      BY <1>2, <3>1
    <3>3. /\ X \in Nat /\ X % 8 = 0 /\ X <= x * 2
          /\ X \div 2 = (x \div 4) * 4 /\ (X + 8) \div 2 - 4 = (x \div 4) * 4
      BY <1>2, <3>2, ChromaBlocks
    <3>4. Y = e * 2 /\ x * Scale(p) = x * 2 /\ y * Scale(p) = y * 2
      BY <3>1
    <3> HIDE DEF X, Y
    <3>5. Y % 8 = 0 /\ Y \div 2 = e /\ Y \in 0..(fr.H - 1) /\ Y # 0 /\ Y <= y * 2 + 3 /\ X < fr.W
      BY <1>2, <2>2, <3>3, <3>4, PlaneIs
    <3> QED BY <1>2, <2>2, <3>3, <3>4, <3>5, PlaneIs
  <2> QED BY <2>1, <2>2, PlaneIs
<1> HIDE DEF X, Y
<1>4. CASE LastOfLcu(X) /\ (p = "Y" => (x \div 4) * 4 # X)
  <2> DEFINE d == <<(X + 8) \div L, (e * Scale(p)) \div L>>
  <2>1. d \in Lcus /\ <<p, "hor", (X + 8) \div Scale(p) - 4, e>> \in Rightmost(d)
    <3>1. X \in Nat /\ X < fr.W
      BY <1>3, PlaneIs
    <3> QED BY <1>2, <1>3, <1>4, <3>1, RightmostHas
  <2>2. (X + 8) \div Scale(p) - 4 = (x \div 4) * 4
    <3>1. CASE p = "Y"
      <4>1. Scale(p) = 1 /\ X \in Nat /\ (x \div 4) * 4 = X + 4 /\ X <= x /\ x \in Nat
        BY <1>2, <1>3, <1>4, <3>1, PlaneIs
      <4> QED BY <4>1
    <3>2. CASE p = "C"
      <4>1. Scale(p) = 2 /\ X \in Nat /\ (X + 8) \div 2 - 4 = (x \div 4) * 4 /\ X <= x * 2 /\ x \in Nat
        BY <1>2, <1>3, <3>2, PlaneIs
      <4> QED BY <4>1
    <3> QED BY <3>1, <3>2, PlaneIs
  <2>3. NearHor(d, x * Scale(p), y * Scale(p))
    <3>1. X + 8 \in Nat /\ Y \in Nat /\ Y = e * Scale(p)
      BY <1>3 DEF Y
    <3>2. Y \div L <= (y * Scale(p) + 3) \div L
      BY <1>3, <3>1, PlaneIs, QuotientGrows
    <3>3. (X + 8) \div L \in Nat
      BY <3>1, PlaneIs, Quotient
    <3> QED BY <3>1, <3>2, <3>3 DEF NearHor, X
  <2> QED BY <1>1, <2>1, <2>2, <2>3
<1>5. CASE ~(LastOfLcu(X) /\ (p = "Y" => (x \div 4) * 4 # X))
  <2>1. s \in Unit("hor", X, Y)
    <3>1. CASE p = "Y"
      <4>1. s \in Segments("Y", "hor", X, Y, 8 - Without(4, LastOfLcu(X)))
        <5> DEFINE n == 8 - Without(4, LastOfLcu(X))
                   at == (x \div 4) * 4
        <5>1. n \in {4, 8} /\ (at # X => n = 8)
          BY <1>5, <3>1 DEF Without
        <5>2. s = <<"Y", "hor", at, Y>> /\ X \in Nat /\ Y \in Nat /\ (at = X \/ at = X + 4)
          BY <1>1, <1>3, <3>1
        <5> HIDE DEF n, at
        <5>3. PICK i \in 0..(n \div 4 - 1) : at = X + 4 * i
          BY <5>1, <5>2
        <5>4. s = <<"Y", "hor", X + 4 * i, Y + 0>>
          BY <5>2, <5>3
        <5> QED BY <5>3, <5>4 DEF Segments, Without, n
      <4> QED BY <1>3, <4>1 DEF Unit, Without
    <3>2. CASE p = "C"
      <4>1. ~LastOfLcu(X)
        BY <1>5, <3>2
      <4>2. s \in Segments("C", "hor", X \div 2, Y \div 2, 4)
        BY <1>1, <1>2, <1>3, <3>2 DEF Segments, Without
      <4> QED BY <1>2, <1>3, <3>2, <4>1, <4>2 DEF Unit, Without
    <3> QED BY <3>1, <3>2, PlaneIs
  <2>2. NearHor(<<X \div L, Y \div L>>, x * Scale(p), y * Scale(p))
    <3>1. Y \div L <= (y * Scale(p) + 3) \div L
      BY <1>3, PlaneIs, QuotientGrows
    <3>2. X \div L <= (X + 8) \div L
      BY <1>3, PlaneIs, QuotientGrows
    <3> QED BY <3>1, <3>2 DEF NearHor, X
  <2> QED BY <1>3, <2>1, <2>2, InsideHas
<1> QED BY <1>4, <1>5

(* The LCU that wrote a pixel is not beyond it.                            *)
LEMMA LcuOfIs ==
  ASSUME fr \in Frames, NEW p \in Planes, NEW x \in 0..(Width(p) - 1), NEW y \in 0..(Height(p) - 1)
  PROVE  /\ LcuOf(<<p, x, y>>) \in Lcus
         /\ LcuOf(<<p, x, y>>) = <<(x * Scale(p)) \div L, (y * Scale(p)) \div L>>
<1>1. LcuOf(<<p, x, y>>) = <<(x * Scale(p)) \div L, (y * Scale(p)) \div L>>
  BY DEF LcuOf
<1>2. x * Scale(p) \in 0..(fr.W - 1) /\ y * Scale(p) \in 0..(fr.H - 1)
  <2>1. CASE p = "Y"
    BY <2>1, PlaneIs
  <2>2. CASE p = "C"
    BY <2>2, PlaneIs
  <2> QED BY <2>1, <2>2, PlaneIs
<1>3. (x * Scale(p)) \div L \in 0..(Cols - 1)
  BY <1>2, FrameIs, PartOf
<1>4. (y * Scale(p)) \div L \in 0..(Rows - 1)
  BY <1>2, FrameIs, PartOf
<1> QED BY <1>1, <1>3, <1>4 DEF Lcus

LEMMA SaoWritesIt ==
  ASSUME fr \in Frames, NEW p \in Planes, NEW x \in 0..(Width(p) - 1), NEW y \in 0..(Height(p) - 1),
         NEW m \in Nat, NEW n \in Nat, x * Scale(p) <= m, y * Scale(p) <= n
  PROVE  \E d \in Lcus : /\ <<p, x, y>> \in SaoWrites(d)
                         /\ d[1] <= (m + 1 + 10) \div L /\ d[2] <= (n + 1 + 10) \div L
<1> DEFINE s == Scale(p)
<1>1. s \in {1, 2} /\ Width(p) = fr.W \div s /\ Height(p) = fr.H \div s
  BY PlaneIs DEF Width, Height, Planes
<1>2. Sizes(fr.W, L) /\ Cols = Parts(fr.W, L) /\ Sizes(fr.H, L) /\ Rows = Parts(fr.H, L)
  BY FrameIs
<1> HIDE DEF s
<1>3. PICK i \in 0..(Cols - 1) :
        /\ i <= (m + 1 + 10) \div L
        /\ (i * L) \div s + (-(IF i > 0 THEN 10 ELSE 0)) \div s <= x
        /\ x < (i * L) \div s + (Lower(L, fr.W - i * L) - (IF i < Cols - 1 THEN 10 ELSE 0)) \div s
  BY <1>1, <1>2, SaoPartOf DEF s
<1>4. PICK j \in 0..(Rows - 1) :
        /\ j <= (n + 1 + 10) \div L
        /\ (j * L) \div s + (-(IF j > 0 THEN 10 ELSE 0)) \div s <= y
        /\ y < (j * L) \div s + (Lower(L, fr.H - j * L) - (IF j < Rows - 1 THEN 10 ELSE 0)) \div s
  BY <1>1, <1>2, SaoPartOf DEF s
<1> DEFINE d == <<i, j>>
           x0 == From(HasLeft(d)) \div s
           y0 == From(HasAbove(d)) \div s
           x2 == To(SizeX(d), HasRight(d)) \div s
           y2 == To(SizeY(d), HasBelow(d)) \div s
<1>5. d \in Lcus
  BY <1>3, <1>4 DEF Lcus
<1>6. /\ X0(d) \div s + x0 <= x /\ x < X0(d) \div s + x2
      /\ X0(d) \div s \in Int /\ x0 \in Int /\ x2 \in Int
  <2>1. /\ X0(d) = i * L /\ x0 = (-(IF i > 0 THEN 10 ELSE 0)) \div s
        /\ x2 = (Lower(L, fr.W - i * L) - (IF i < Cols - 1 THEN 10 ELSE 0)) \div s
    BY DEF X0, From, To, HasLeft, HasRight, SizeX, Without, SAO_DELAY_PX, DEBLOCK_DELAY_PX
  <2>2. i * L \in Nat /\ Lower(L, fr.W - i * L) \in Nat
    BY <1>2, <1>3, Part
  <2> HIDE DEF x0, x2
  <2>3. (i * L) \div s \in Int /\ x0 \in Int /\ x2 \in Int
    BY <1>1, <2>1, <2>2
  <2> QED BY <1>3, <2>1, <2>3
<1>7. /\ Y0(d) \div s + y0 <= y /\ y < Y0(d) \div s + y2
      /\ Y0(d) \div s \in Int /\ y0 \in Int /\ y2 \in Int
  <2>1. /\ Y0(d) = j * L /\ y0 = (-(IF j > 0 THEN 10 ELSE 0)) \div s
        /\ y2 = (Lower(L, fr.H - j * L) - (IF j < Rows - 1 THEN 10 ELSE 0)) \div s
    BY DEF Y0, From, To, HasAbove, HasBelow, SizeY, Without, SAO_DELAY_PX, DEBLOCK_DELAY_PX
  <2>2. j * L \in Nat /\ Lower(L, fr.H - j * L) \in Nat
    BY <1>2, <1>4, Part
  <2> HIDE DEF y0, y2
  <2>3. (j * L) \div s \in Int /\ y0 \in Int /\ y2 \in Int
    BY <1>1, <2>1, <2>2
  <2> QED BY <1>4, <2>1, <2>3
<1>8. SaoArea(d, p, 0, 0, 0, 0) = Area(p, X0(d) \div s + x0, Y0(d) \div s + y0, x2 - x0, y2 - y0)
  <2> HIDE DEF d
  <2>1. /\ From(HasLeft(d)) \div s - 0 = x0 /\ From(HasAbove(d)) \div s - 0 = y0
        /\ To(SizeX(d), HasRight(d)) \div s + 0 = x2 /\ To(SizeY(d), HasBelow(d)) \div s + 0 = y2
    BY <1>6, <1>7
  <2> QED BY <2>1 DEF SaoArea, s
<1> HIDE DEF d, x0, y0, x2, y2
<1>9. <<p, x, y>> \in SaoArea(d, p, 0, 0, 0, 0)
  <2>1. x \in (X0(d) \div s + x0)..(X0(d) \div s + x0 + (x2 - x0) - 1)
    BY <1>1, <1>6, PlaneIs
  <2>2. y \in (Y0(d) \div s + y0)..(Y0(d) \div s + y0 + (y2 - y0) - 1)
    BY <1>1, <1>7, PlaneIs
  <2> QED BY <1>8, <2>1, <2>2 DEF Area
<1>10. <<p, x, y>> \in SaoWrites(d)
  BY <1>9 DEF SaoWrites
<1> QED BY <1>3, <1>4, <1>5, <1>10 DEF d

LEMMA Settling ==
  ASSUME JobsInv, NEW c \in Lcus, Reach(c) \subseteq {d \in Lcus : step[d] = "done"},
         NEW x \in 0..(fr.W + L), NEW y \in 0..(fr.H + L), MayRefer(c, x, y), NEW p \in Planes
  PROVE  Settled(<<p, Border(x \div Scale(p), Width(p)), Border(y \div Scale(p), Height(p))>>)
<1> DEFINE s == Scale(p)
           bx == Border(x \div s, Width(p))
           by == Border(y \div s, Height(p))
<1>1. fr \in Frames /\ fr.deblock \in BOOLEAN /\ fr.sao \in BOOLEAN
  BY FrameIs DEF JobsInv, FilterType
<1>2. /\ s \in {1, 2} /\ Width(p) = fr.W \div s /\ Height(p) = fr.H \div s /\ L \in Nat /\ L > 0
      /\ fr.W \in Nat /\ fr.W > 0 /\ fr.W % 8 = 0 /\ fr.H \in Nat /\ fr.H > 0 /\ fr.H % 8 = 0
      /\ x \in Nat /\ y \in Nat
  BY <1>1, PlaneIs, FrameIs DEF Width, Height, Planes, Sizes
<1>3. bx \in 0..(Width(p) - 1) /\ bx * s <= x /\ bx * s \in Nat
  <2>1. CASE s = 1
    BY <1>2, <2>1 DEF Border
  <2>2. CASE s = 2
    BY <1>2, <2>2 DEF Border
  <2> QED BY <1>2, <2>1, <2>2
<1>4. by \in 0..(Height(p) - 1) /\ by * s <= y /\ by * s \in Nat
  <2>1. CASE s = 1
    BY <1>2, <2>1 DEF Border
  <2>2. CASE s = 2
    BY <1>2, <2>2 DEF Border
  <2> QED BY <1>2, <2>1, <2>2
<1> HIDE DEF bx, by
<1>5. Margin \in {0, 8, 10} /\ x + 1 + Margin \in Nat /\ y + 1 + Margin \in Nat
  BY <1>2 DEF Margin, SAO_DELAY_PX, DEBLOCK_DELAY_PX
<1>6. Ahead(x) \in Nat /\ Ahead(y) \in Nat
  BY <1>2, <1>5, Quotient DEF Ahead
<1>7. ASSUME NEW d \in Lcus, d[1] <= Ahead(x), d[2] <= Ahead(y)
      PROVE  step[d] = "done"
  <2>1. d[1] \in Nat /\ d[2] \in Nat /\ c[1] \in Nat /\ c[2] \in Nat
    BY <1>1, LcuType
  <2>2. d \in Reach(c)
    BY <1>6, <1>7, <2>1 DEF Reach, MayRefer, Down, Right
  <2> QED BY <2>2
<1>8. ASSUME NEW n \in Nat, n \in {x, y}, NEW k \in Nat, k <= n + 1 + Margin
      PROVE  k \div L <= Ahead(n)
  BY <1>2, <1>5, <1>8, QuotientGrows DEF Ahead
<1>9. CASE fr.sao
  <2>1. Margin = 10
    BY <1>9 DEF Margin, SAO_DELAY_PX, DEBLOCK_DELAY_PX
  <2>2. PICK d \in Lcus : /\ <<p, bx, by>> \in SaoWrites(d)
                          /\ d[1] <= (x + 1 + 10) \div L /\ d[2] <= (y + 1 + 10) \div L
    BY <1>1, <1>2, <1>3, <1>4, SaoWritesIt
  <2>3. step[d] = "done"
    BY <1>7, <2>1, <2>2 DEF Ahead
  <2>4. <<p, bx, by>> \in final
    BY <1>9, <2>2, <2>3 DEF JobsInv, DoneByJobs, FinalBy
  <2> QED BY <1>9, <2>4 DEF Settled, bx, by, s
<1>10. CASE ~fr.sao
  <2> DEFINE px == <<p, bx, by>>
  <2>1. LcuOf(px) \in recon
    <3>1. LcuOf(px) \in Lcus /\ LcuOf(px) = <<(bx * s) \div L, (by * s) \div L>>
      BY <1>1, <1>3, <1>4, LcuOfIs
    <3>2. (bx * s) \div L <= Ahead(x) /\ (by * s) \div L <= Ahead(y)
      BY <1>2, <1>3, <1>4, <1>5, <1>8
    <3>3. step[LcuOf(px)] = "done"
      BY <1>7, <3>1, <3>2
    <3> QED BY <3>1, <3>3 DEF JobsInv, DoneByJobs
  <2>2. px \notin final
    BY <1>10 DEF JobsInv, DoneByJobs
  <2>3. fr.deblock => Ver(px) \cup Hor(px) \subseteq filtered
    <3> SUFFICES ASSUME fr.deblock, NEW e \in Ver(px) \cup Hor(px)
                 PROVE  e \in filtered
      OBVIOUS
    <3>1. PICK d \in Lcus : /\ e \in Inside(d, "ver") \cup Rightmost(d) \cup Inside(d, "hor")
                            /\ NearVer(d, bx * s, by * s) \/ NearHor(d, bx * s, by * s)
      BY <1>1, <1>3, <1>4, VerFilteredBy, HorFilteredBy
    <3>2. Margin = 8
      BY <1>10 DEF Margin, DEBLOCK_DELAY_PX
    <3>3. ASSUME NEW n \in Nat, n \in {x, y}, NEW k \in Nat, k <= n
          PROVE  /\ k \div L \in Nat /\ k \div L <= Ahead(n)
                 /\ (k + 3) \div L \in Nat /\ (k + 3) \div L <= Ahead(n)
                 /\ ((k \div 8) * 8 + 8) \div L \in Nat /\ ((k \div 8) * 8 + 8) \div L <= Ahead(n)
      <4>1. ASSUME NEW m \in Nat, m <= k + 8
            PROVE  m \div L \in Nat /\ m \div L <= Ahead(n)
        <5>1. m <= n + 1 + Margin
          BY <3>2, <3>3, <4>1
        <5> QED BY <1>2, <1>8, <3>3, <4>1, <5>1, Quotient
      <4>2. (k \div 8) * 8 + 8 \in Nat /\ (k \div 8) * 8 + 8 <= k + 8
        BY <3>3
      <4>3. k \in Nat /\ k <= k + 8 /\ k + 3 \in Nat /\ k + 3 <= k + 8
        BY <3>3
      <4> QED BY <4>1, <4>2, <4>3
    <3>4. d[1] \in Nat /\ d[2] \in Nat
      BY <1>1, LcuType
    <3>5. step[d] = "done"
      <4>1. d[1] <= Ahead(x) /\ d[2] <= Ahead(y)
        <5> DEFINE u == bx * s
                   v == by * s
        <5>1. u \in Nat /\ u <= x /\ v \in Nat /\ v <= y /\ (NearVer(d, u, v) \/ NearHor(d, u, v))
          BY <1>3, <1>4, <3>1
        <5> HIDE DEF u, v
        <5>2. /\ (u + 3) \div L \in Nat /\ (u + 3) \div L <= Ahead(x)
              /\ ((u \div 8) * 8 + 8) \div L \in Nat /\ ((u \div 8) * 8 + 8) \div L <= Ahead(x)
          BY <1>2, <3>3, <5>1
        <5>3. /\ v \div L \in Nat /\ v \div L <= Ahead(y)
              /\ (v + 3) \div L \in Nat /\ (v + 3) \div L <= Ahead(y)
          BY <1>2, <3>3, <5>1
        <5> QED BY <1>6, <3>4, <5>1, <5>2, <5>3 DEF NearVer, NearHor
      <4> QED BY <1>7, <4>1
    <3>6. e \in FilteredBy(d)
      BY <3>1, <3>5, FilteredUntil DEF AfterHor
    <3> QED BY <3>6 DEF JobsInv, DoneByJobs
  <2> QED BY <1>10, <2>1, <2>2, <2>3 DEF Settled, Deblocked, bx, by, s
<1> QED BY <1>1, <1>9, <1>10

(* "Make sure we don't refer to pixels for which SAO reconstruction has not*)
(* been done" (fracmv_within_tile of search_inter.c): for frames and LCUs  *)
(* of every size, with each combination of the filters and in every order  *)
(* of the jobs, the pixels that motion vectors of an LCU may reach have    *)
(* their last values when the LCUs that it waits for have been encoded.    *)
THEOREM ReferredPixelsFinalCorrect == FilterSpec => []ReferredPixelsFinal
<1>1. FilterInit => JobsInv
  BY FilterInitInv
<1>2. JobsInv /\ [FilterNext]_filterVars => JobsInv'
  BY FilterNextInv
<1>3. JobsInv => ReferredPixelsFinal
  BY Settling DEF ReferredPixelsFinal
<1> QED BY <1>1, <1>2, <1>3, PTL DEF FilterSpec

-----------------------------------------------------------------------------
(* Where an LCU is, and what it has on its right and below.                *)
LEMMA LcuIs ==
  ASSUME fr \in Frames, NEW c \in Lcus
  PROVE  /\ X0(c) \in Nat /\ X0(c) % 16 = 0 /\ X0(c) < fr.W
         /\ SizeX(c) \in Nat /\ SizeX(c) > 0 /\ SizeX(c) % 8 = 0
         /\ HasRight(c) => SizeX(c) = L /\ X0(c) + L < fr.W
         /\ ~HasRight(c) => SizeX(c) = fr.W - X0(c) /\ c[1] = Cols - 1
         /\ HasLeft(c) => X0(c) >= L
         /\ ~HasLeft(c) => X0(c) = 0
         /\ Y0(c) \in Nat /\ Y0(c) % 16 = 0 /\ Y0(c) < fr.H
         /\ SizeY(c) \in Nat /\ SizeY(c) > 0 /\ SizeY(c) % 8 = 0
         /\ HasBelow(c) => SizeY(c) = L /\ Y0(c) + L < fr.H
         /\ ~HasBelow(c) => SizeY(c) = fr.H - Y0(c) /\ c[2] = Rows - 1
         /\ HasAbove(c) => Y0(c) >= L
         /\ ~HasAbove(c) => Y0(c) = 0
<1>1. /\ c[1] \in 0..(Cols - 1) /\ c[2] \in 0..(Rows - 1) /\ c[1] \in Nat /\ c[2] \in Nat
      /\ Cols \in Nat /\ Rows \in Nat
  BY LcuType
<1>2. /\ Sizes(fr.W, L) /\ Cols = Parts(fr.W, L) /\ Sizes(fr.H, L) /\ Rows = Parts(fr.H, L)
      /\ L \in Nat /\ L > 0
  BY FrameIs DEF Sizes
<1>3. /\ c[1] * L \in Nat /\ (c[1] * L) % 16 = 0 /\ c[1] * L < fr.W
      /\ Lower(L, fr.W - c[1] * L) \in Nat /\ Lower(L, fr.W - c[1] * L) % 8 = 0 /\ Lower(L, fr.W - c[1] * L) > 0
      /\ c[1] < Cols - 1 => Lower(L, fr.W - c[1] * L) = L /\ c[1] * L + L < fr.W
      /\ c[1] = Cols - 1 => Lower(L, fr.W - c[1] * L) = fr.W - c[1] * L
  BY <1>1, <1>2, Part
<1>4. /\ c[2] * L \in Nat /\ (c[2] * L) % 16 = 0 /\ c[2] * L < fr.H
      /\ Lower(L, fr.H - c[2] * L) \in Nat /\ Lower(L, fr.H - c[2] * L) % 8 = 0 /\ Lower(L, fr.H - c[2] * L) > 0
      /\ c[2] < Rows - 1 => Lower(L, fr.H - c[2] * L) = L /\ c[2] * L + L < fr.H
      /\ c[2] = Rows - 1 => Lower(L, fr.H - c[2] * L) = fr.H - c[2] * L
  BY <1>1, <1>2, Part
<1>5. /\ c[1] > 0 => c[1] * L >= L
      /\ c[2] > 0 => c[2] * L >= L
      /\ c[1] = 0 => c[1] * L = 0
      /\ c[2] = 0 => c[2] * L = 0
  <2>1. \A i \in Nat : i > 0 => i * L >= L
    <3> TAKE i \in Nat
    <3>1. 0 < i => 0 * L + L <= i * L
      BY <1>2, Products
    <3> QED BY <1>2, <3>1
  <2> QED BY <1>1, <1>2, <2>1
<1>6. /\ X0(c) = c[1] * L /\ Y0(c) = c[2] * L
      /\ SizeX(c) = Lower(L, fr.W - c[1] * L) /\ SizeY(c) = Lower(L, fr.H - c[2] * L)
      /\ HasRight(c) <=> c[1] < Cols - 1
      /\ HasBelow(c) <=> c[2] < Rows - 1
      /\ HasLeft(c) <=> c[1] > 0
      /\ HasAbove(c) <=> c[2] > 0
  BY DEF X0, Y0, SizeX, SizeY, HasRight, HasBelow, HasLeft, HasAbove
<1>7. /\ ~HasRight(c) => c[1] = Cols - 1
      /\ ~HasBelow(c) => c[2] = Rows - 1
      /\ ~HasLeft(c) => c[1] = 0
      /\ ~HasAbove(c) => c[2] = 0
  BY <1>1, <1>6
<1> QED BY <1>3, <1>4, <1>5, <1>6, <1>7

(* Two LCUs do not overlap.                                                *)
LEMMA Before ==
  ASSUME fr \in Frames, NEW c \in Lcus, NEW d \in Lcus
  PROVE  /\ d[1] < c[1] => HasRight(d) /\ X0(d) + L <= X0(c)
         /\ d[2] < c[2] => HasBelow(d) /\ Y0(d) + L <= Y0(c)
<1>1. /\ c[1] \in 0..(Cols - 1) /\ c[2] \in 0..(Rows - 1) /\ d[1] \in Nat /\ d[2] \in Nat
      /\ Cols \in Nat /\ Rows \in Nat /\ c[1] \in Nat /\ c[2] \in Nat
  BY LcuType
<1>2. L \in Nat /\ L > 0
  BY PlaneIs DEF Planes
<1>3. /\ d[1] < c[1] => d[1] * L + L <= c[1] * L
      /\ d[2] < c[2] => d[2] * L + L <= c[2] * L
  BY <1>1, <1>2, Products
<1> QED BY <1>1, <1>3 DEF X0, Y0, HasRight, HasBelow

(* What is left of the end of an LCU is not in an LCU on its right.        *)
LEMMA NotBeyond ==
  ASSUME fr \in Frames, NEW c \in Lcus, NEW n \in Nat
  PROVE  /\ n < X0(c) + L => n \div L <= c[1]
         /\ n < Y0(c) + L => n \div L <= c[2]
<1>1. c[1] \in Nat /\ c[2] \in Nat /\ L \in Nat /\ L > 0
  BY LcuType, PlaneIs DEF Planes
<1>2. n \div L \in Nat /\ (n \div L) * L <= n
  BY <1>1, Quotient
<1>3. ASSUME NEW k \in Nat, n < k * L + L
      PROVE  n \div L <= k
  <2>1. k < n \div L => k * L + L <= (n \div L) * L
    BY <1>1, <1>2, Products
  <2>2. k * L \in Int /\ (n \div L) * L \in Int
    BY <1>1, <1>2
  <2> QED BY <1>1, <1>2, <1>3, <2>1, <2>2
<1> QED BY <1>1, <1>3 DEF X0, Y0

(* The jobs of LCUs on the right of c or below it have not begun.          *)
LEMMA NotBegun ==
  ASSUME JobsInv, NEW c \in Lcus, step[c] # "done", NEW d \in Lcus, d # c, c[1] <= d[1], c[2] <= d[2]
  PROVE  step[d] = "search"
<1>1. fr \in Frames
  BY DEF JobsInv, FilterType
<1>2. c \in Behind(d) \ {d}
  <2>1. c[1] \in Nat /\ c[2] \in Nat /\ d[1] \in Nat /\ d[2] \in Nat
    BY <1>1, LcuType
  <2> QED BY <2>1 DEF Behind
<1> QED BY <1>2 DEF JobsInv, BehindDone

(* Those of LCUs on the left and above have ended.                         *)
LEMMA LeftAndAboveDone ==
  ASSUME JobsInv, NEW c \in Lcus, step[c] # "search", NEW d \in Lcus, d # c, d[1] <= c[1], d[2] <= c[2]
  PROVE  step[d] = "done"
<1>1. fr \in Frames
  BY DEF JobsInv, FilterType
<1>2. d \in Behind(c) \ {c}
  <2>1. c[1] \in Nat /\ c[2] \in Nat /\ d[1] \in Nat /\ d[2] \in Nat
    BY <1>1, LcuType
  <2> QED BY <2>1 DEF Behind
<1> QED BY <1>2 DEF JobsInv, BehindDone

-----------------------------------------------------------------------------
(* Where the segments are that a job filters.                              *)
LEMMA UnitIs ==
  ASSUME NEW dir \in {"ver", "hor"}, NEW x \in Nat, x % 8 = 0, NEW y \in Nat, y % 8 = 0, NEW s \in Unit(dir, x, y)
  PROVE  \/ \E i \in {0, 1} :
              \/ dir = "ver" /\ x # 0 /\ s = <<"Y", "ver", x, y + 4 * i>>
              \/ dir = "hor" /\ y # 0 /\ (i = 1 => ~LastOfLcu(x)) /\ s = <<"Y", "hor", x + 4 * i, y>>
         \/ dir = "ver" /\ x # 0 /\ (x \div 2) % 8 = 0 /\ s = <<"C", "ver", x \div 2, y \div 2>>
         \/ dir = "hor" /\ y # 0 /\ (y \div 2) % 8 = 0 /\ ~LastOfLcu(x) /\ s = <<"C", "hor", x \div 2, y \div 2>>
<1> DEFINE less == Without(4, dir = "hor" /\ LastOfLcu(x))
           at   == IF dir = "ver" THEN x \div 2 ELSE y \div 2
<1>1. /\ less \in {0, 4} /\ (dir = "ver" => less = 0) /\ (dir = "hor" /\ LastOfLcu(x) => less = 4)
      /\ dir = "ver" => at = x \div 2
      /\ dir = "hor" => at = y \div 2
  BY DEF Without
<1>2. /\ dir = "ver" => x # 0
      /\ dir = "hor" => y # 0
      /\ s \in Segments("Y", dir, x, y, 8 - less)
         \/ (at % 8 = 0 /\ s \in Segments("C", dir, x \div 2, y \div 2, 4 - less))
  BY DEF Unit
<1> HIDE DEF less, at
<1>3. CASE s \in Segments("Y", dir, x, y, 8 - less)
  <2>1. PICK i \in 0..((8 - less) \div 4 - 1) :
          s = <<"Y", dir, x + Without(4 * i, dir = "hor"), y + Without(4 * i, dir = "ver")>>
    BY <1>3 DEF Segments
  <2>2. i \in {0, 1} /\ (i = 1 => less = 0)
    BY <1>1
  <2>3. CASE dir = "ver"
    <3>1. s = <<"Y", "ver", x, y + 4 * i>>
      BY <2>1, <2>2, <2>3 DEF Without
    <3> QED BY <1>2, <2>2, <2>3, <3>1
  <2>4. CASE dir = "hor"
    <3>1. s = <<"Y", "hor", x + 4 * i, y>>
      BY <2>1, <2>2, <2>4 DEF Without
    <3>2. i = 1 => ~LastOfLcu(x)
      BY <1>1, <2>2, <2>4
    <3> QED BY <1>2, <2>2, <2>4, <3>1, <3>2
  <2> QED BY <2>3, <2>4
<1>4. CASE at % 8 = 0 /\ s \in Segments("C", dir, x \div 2, y \div 2, 4 - less)
  <2>1. PICK i \in 0..((4 - less) \div 4 - 1) :
          s = <<"C", dir, x \div 2 + Without(4 * i, dir = "hor"), y \div 2 + Without(4 * i, dir = "ver")>>
    BY <1>4 DEF Segments
  <2>2. i = 0 /\ less = 0
    BY <1>1
  <2>3. s = <<"C", dir, x \div 2, y \div 2>>
    BY <2>1, <2>2 DEF Without
  <2>4. dir = "hor" => ~LastOfLcu(x)
    BY <1>1, <2>2
  <2> QED BY <1>1, <1>2, <1>4, <2>3, <2>4
<1> QED BY <1>2, <1>3, <1>4

LEMMA InsideVerIs ==
  ASSUME fr \in Frames, NEW c \in Lcus, NEW s \in Inside(c, "ver")
  PROVE  \E p \in Planes, e \in Nat, y \in Nat :
           /\ s = <<p, "ver", e, y>> /\ e % 8 = 0 /\ e > 0 /\ y % 4 = 0
           /\ X0(c) <= e * Scale(p) /\ e * Scale(p) + 8 <= X0(c) + SizeX(c)
           /\ Y0(c) <= y * Scale(p) /\ (y + 4) * Scale(p) <= Y0(c) + SizeY(c)
<1>1. PICK x \in OnGrid(X0(c), X0(c) + SizeX(c)), y \in OnGrid(Y0(c), Y0(c) + SizeY(c)) : s \in Unit("ver", x, y)
  BY DEF Inside
<1>2. /\ X0(c) \in Nat /\ X0(c) % 16 = 0 /\ SizeX(c) \in Nat /\ SizeX(c) % 8 = 0
      /\ Y0(c) \in Nat /\ Y0(c) % 16 = 0 /\ SizeY(c) \in Nat /\ SizeY(c) % 8 = 0
  BY LcuIs
<1>3. /\ x \in Nat /\ x % 8 = 0 /\ X0(c) <= x /\ x + 8 <= X0(c) + SizeX(c)
      /\ y \in Nat /\ y % 8 = 0 /\ Y0(c) <= y /\ y + 8 <= Y0(c) + SizeY(c)
  BY <1>2 DEF OnGrid
<1>4. Planes = {"Y", "C"} /\ Scale("Y") = 1 /\ Scale("C") = 2
  BY DEF Planes, Scale
<1>5. CASE \E i \in {0, 1} : x # 0 /\ s = <<"Y", "ver", x, y + 4 * i>>
  <2>1. PICK i \in {0, 1} : x # 0 /\ s = <<"Y", "ver", x, y + 4 * i>>
    BY <1>5
  <2> DEFINE b == y + 4 * i
  <2>2. b \in Nat /\ b % 4 = 0 /\ Y0(c) <= b * 1 /\ (b + 4) * 1 <= Y0(c) + SizeY(c) /\ s = <<"Y", "ver", x, b>>
    BY <1>2, <1>3, <2>1
  <2> HIDE DEF b
  <2>3. X0(c) <= x * 1 /\ x * 1 + 8 <= X0(c) + SizeX(c) /\ x > 0
    BY <1>2, <1>3, <2>1
  <2> QED BY <1>3, <1>4, <2>2, <2>3
<1>6. CASE x # 0 /\ (x \div 2) % 8 = 0 /\ s = <<"C", "ver", x \div 2, y \div 2>>
  <2> DEFINE a == x \div 2
             b == y \div 2
  <2>1. a \in Nat /\ a > 0 /\ a % 8 = 0 /\ a * 2 = x /\ b \in Nat /\ b % 4 = 0 /\ b * 2 = y /\ (b + 4) * 2 = y + 8
    BY <1>3, <1>6
  <2>2. s = <<"C", "ver", a, b>>
    BY <1>6
  <2> HIDE DEF a, b
  <2> QED BY <1>3, <1>4, <2>1, <2>2
<1> QED BY <1>1, <1>3, <1>5, <1>6, UnitIs

LEMMA InsideHorIs ==
  ASSUME fr \in Frames, NEW c \in Lcus, NEW s \in Inside(c, "hor")
  PROVE  \E p \in Planes, x \in Nat, e \in Nat :
           /\ s = <<p, "hor", x, e>> /\ e % 8 = 0 /\ e > 0 /\ x % 4 = 0
           /\ X0(c) <= x * Scale(p) /\ (x + 4) * Scale(p) <= X0(c) + SizeX(c)
           /\ HasRight(c) => (x + 8) * Scale(p) <= X0(c) + SizeX(c)
           /\ Y0(c) <= e * Scale(p) /\ e * Scale(p) + 8 <= Y0(c) + SizeY(c)
<1>1. PICK x \in OnGrid(X0(c), X0(c) + SizeX(c)), y \in OnGrid(Y0(c), Y0(c) + SizeY(c)) : s \in Unit("hor", x, y)
  BY DEF Inside
<1>2. /\ X0(c) \in Nat /\ X0(c) % 16 = 0 /\ SizeX(c) \in Nat /\ SizeX(c) % 8 = 0
      /\ Y0(c) \in Nat /\ Y0(c) % 16 = 0 /\ SizeY(c) \in Nat /\ SizeY(c) % 8 = 0
  BY LcuIs
<1>3. /\ x \in Nat /\ x % 8 = 0 /\ X0(c) <= x /\ x + 8 <= X0(c) + SizeX(c)
      /\ y \in Nat /\ y % 8 = 0 /\ Y0(c) <= y /\ y + 8 <= Y0(c) + SizeY(c)
  BY <1>2 DEF OnGrid
<1>4. Planes = {"Y", "C"} /\ Scale("Y") = 1 /\ Scale("C") = 2
  BY DEF Planes, Scale
<1>5. HasRight(c) /\ ~LastOfLcu(x) => x + 16 <= X0(c) + SizeX(c)
  <2> SUFFICES ASSUME HasRight(c), x + 8 = X0(c) + SizeX(c)
               PROVE  LastOfLcu(x)
    BY <1>2, <1>3
  <2>1. SizeX(c) = L /\ X0(c) + L < fr.W /\ fr.W \in Nat /\ L \in Nat /\ L > 0
    BY LcuIs, PlaneIs DEF Planes
  <2>2. c[1] \in Nat /\ c[1] * L \in Nat /\ X0(c) = c[1] * L
    BY LcuType, <1>2 DEF X0
  <2>3. (c[1] + 1) * L = c[1] * L + L
    BY <2>1, <2>2, Products
  <2>4. \A k \in Nat : (k * L) % L = 0
    BY <2>1
  <2>5. (x + 8) % L = 0
    BY <2>1, <2>2, <2>3, <2>4
  <2> QED BY <1>3, <2>1, <2>5 DEF LastOfLcu
<1>6. CASE \E i \in {0, 1} : y # 0 /\ (i = 1 => ~LastOfLcu(x)) /\ s = <<"Y", "hor", x + 4 * i, y>>
  <2>1. PICK i \in {0, 1} : y # 0 /\ (i = 1 => ~LastOfLcu(x)) /\ s = <<"Y", "hor", x + 4 * i, y>>
    BY <1>6
  <2> DEFINE a == x + 4 * i
  <2>2. /\ a \in Nat /\ a % 4 = 0 /\ X0(c) <= a * 1 /\ (a + 4) * 1 <= X0(c) + SizeX(c) /\ s = <<"Y", "hor", a, y>>
        /\ HasRight(c) => (a + 8) * 1 <= X0(c) + SizeX(c)
    BY <1>2, <1>3, <1>5, <2>1
  <2> HIDE DEF a
  <2>3. Y0(c) <= y * 1 /\ y * 1 + 8 <= Y0(c) + SizeY(c) /\ y > 0
    BY <1>2, <1>3, <2>1
  <2> QED BY <1>3, <1>4, <2>2, <2>3
<1>7. CASE y # 0 /\ (y \div 2) % 8 = 0 /\ ~LastOfLcu(x) /\ s = <<"C", "hor", x \div 2, y \div 2>>
  <2> DEFINE a == x \div 2
             b == y \div 2
  <2>1. /\ a \in Nat /\ a % 4 = 0 /\ a * 2 = x /\ (a + 4) * 2 = x + 8 /\ (a + 8) * 2 = x + 16
        /\ b \in Nat /\ b > 0 /\ b % 8 = 0 /\ b * 2 = y
    BY <1>3, <1>7
  <2>2. s = <<"C", "hor", a, b>>
    BY <1>7
  <2> HIDE DEF a, b
  <2> QED BY <1>3, <1>4, <1>5, <1>7, <2>1, <2>2
<1> QED BY <1>1, <1>3, <1>6, <1>7, UnitIs

LEMMA RightmostIs ==
  ASSUME fr \in Frames, NEW c \in Lcus, NEW s \in Rightmost(c)
  PROVE  \E p \in Planes, x \in Nat, e \in Nat :
           /\ s = <<p, "hor", x, e>> /\ e % 8 = 0 /\ e > 0 /\ x % 4 = 0
           /\ HasLeft(c) /\ (x + 4) * Scale(p) = X0(c)
           /\ Y0(c) <= e * Scale(p) /\ e * Scale(p) + 8 <= Y0(c) + SizeY(c)
<1>1. HasLeft(c)
  BY DEF Rightmost
<1>2. PICK p \in Planes :
        \E e \in {n \in (Y0(c) \div Scale(p))..(Lower(Y0(c) \div Scale(p) + L \div Scale(p), Height(p)) - 1) :
                    (n - Y0(c) \div Scale(p)) % 8 = 0 /\ n > 0} : s = <<p, "hor", X0(c) \div Scale(p) - 4, e>>
  BY <1>1 DEF Rightmost
<1> DEFINE k == Scale(p)
           y == Y0(c) \div k
           x == X0(c) \div k - 4
<1>3. PICK e \in y..(Lower(y + L \div k, Height(p)) - 1) : (e - y) % 8 = 0 /\ e > 0 /\ s = <<p, "hor", x, e>>
  BY <1>2
<1>4. /\ X0(c) \in Nat /\ X0(c) % 16 = 0 /\ X0(c) >= L /\ L \in Nat /\ L > 0 /\ L % 16 = 0
      /\ Y0(c) \in Nat /\ Y0(c) % 16 = 0 /\ SizeY(c) \in Nat /\ SizeY(c) % 8 = 0
      /\ fr.H \in Nat /\ fr.H % 8 = 0 /\ (SizeY(c) = L \/ SizeY(c) = fr.H - Y0(c))
  BY <1>1, LcuIs, PlaneIs DEF Planes
<1>5. Planes = {"Y", "C"} /\ Scale("Y") = 1 /\ Scale("C") = 2 /\ Height("Y") = fr.H /\ Height("C") = fr.H \div 2
  <2>1. Planes = {"Y", "C"}
    BY DEF Planes
  <2> QED BY <2>1, PlaneIs
<1>6. e < y + L \div k /\ e < Height(p) /\ y <= e /\ e \in Int
  <2>1. k \in {1, 2} /\ y \in Int /\ L \div k \in Int /\ Height(p) \in Int
    BY <1>4, <1>5
  <2> HIDE DEF k, y
  <2> QED BY <1>3, <2>1 DEF Lower
<1>7. CASE p = "Y"
  <2>1. y = Y0(c) /\ x = X0(c) - 4 /\ k = 1 /\ L \div k = L
    BY <1>4, <1>5, <1>7
  <2>2. /\ x \in Nat /\ x % 4 = 0 /\ (x + 4) * 1 = X0(c) /\ e \in Nat /\ e % 8 = 0
        /\ Y0(c) <= e * 1 /\ e * 1 + 8 <= Y0(c) + SizeY(c)
    BY <1>3, <1>4, <1>5, <1>6, <1>7, <2>1
  <2> HIDE DEF x, y, k
  <2> QED BY <1>1, <1>3, <1>5, <1>7, <2>1, <2>2
<1>8. CASE p = "C"
  <2>1. y = Y0(c) \div 2 /\ x = X0(c) \div 2 - 4 /\ k = 2 /\ L \div k = L \div 2
    BY <1>4, <1>5, <1>8
  <2>2. y % 8 = 0 /\ y * 2 = Y0(c) /\ y \in Nat /\ (L \div 2) * 2 = L
    BY <1>4, <2>1
  <2>3. x \in Nat /\ x % 4 = 0 /\ (x + 4) * 2 = X0(c)
    BY <1>4, <2>1
  <2> HIDE DEF x, y, k
  <2>4. e \in Nat /\ e % 8 = 0 /\ Y0(c) <= e * 2
    BY <1>3, <1>6, <2>2
  <2>5. e * 2 + 8 <= Y0(c) + SizeY(c)
    <3> DEFINE h == fr.H \div 2
               l == L \div 2
    <3>1. h * 2 = fr.H /\ h % 4 = 0 /\ h \in Nat /\ l * 2 = L /\ l % 8 = 0 /\ l \in Nat
      BY <1>4
    <3>2. e < h /\ e < y + l
      BY <1>5, <1>6, <1>8, <2>1
    <3> HIDE DEF h, l
    <3>3. e + 4 <= h /\ e + 8 <= y + l
      BY <2>2, <2>4, <3>1, <3>2
    <3> QED BY <1>4, <2>2, <2>4, <3>1, <3>3
  <2> QED BY <1>1, <1>3, <1>5, <1>8, <2>1, <2>3, <2>4, <2>5
<1> QED BY <1>5, <1>7, <1>8

-----------------------------------------------------------------------------
(* A segment that has been filtered on the right of the beginning of an LCU*)
(* and below it has been filtered by the job of that LCU, if it is not     *)
(* done.                                                                   *)
LEMMA FilteredIs ==
  ASSUME JobsInv, NEW t \in filtered
  PROVE  /\ fr.deblock
         /\ \E d \in Lcus : \/ t \in Inside(d, "ver") /\ step[d] \in AfterVer
                            \/ t \in Rightmost(d) /\ step[d] \in AfterRight
                            \/ t \in Inside(d, "hor") /\ step[d] \in AfterHor
<1>1. fr.deblock /\ t \in UNION {FilteredBy(d) : d \in Lcus}
  BY DEF JobsInv, DoneByJobs
<1>2. PICK d \in Lcus : t \in FilteredBy(d)
  BY <1>1
<1>3. t \in (IF step[d] \in AfterVer THEN Inside(d, "ver") ELSE {})
            \cup (IF step[d] \in AfterRight THEN Rightmost(d) ELSE {})
            \cup (IF step[d] \in AfterHor THEN Inside(d, "hor") ELSE {})
  BY <1>2 DEF FilteredBy
<1> QED BY <1>1, <1>3

(* The end of an LCU that has another one on its right or below it.        *)
LEMMA NotOnTheLeft ==
  ASSUME JobsInv, NEW c \in Lcus, step[c] # "done", NEW d \in Lcus, step[d] # "search",
         NEW m \in Int, X0(c) <= m, HasRight(d) => m < X0(d) + L,
         NEW n \in Int, Y0(c) <= n, HasBelow(d) => n < Y0(d) + L
  PROVE  d = c
<1>1. fr \in Frames
  BY DEF JobsInv, FilterType
<1>2. /\ X0(c) \in Nat /\ Y0(c) \in Nat /\ X0(d) \in Nat /\ Y0(d) \in Nat /\ L \in Nat
      /\ c[1] \in Nat /\ c[2] \in Nat /\ d[1] \in Nat /\ d[2] \in Nat
  BY <1>1, LcuIs, LcuType, PlaneIs DEF Planes
<1>3. ~(d[1] < c[1]) /\ ~(d[2] < c[2])
  BY <1>1, <1>2, Before
<1> QED BY <1>2, <1>3, NotBegun

LEMMA HorFilteredLater ==
  ASSUME JobsInv, NEW c \in Lcus, step[c] # "done", NEW p \in Planes, NEW x \in Nat, NEW e \in Nat,
         <<p, "hor", x, e>> \in filtered, X0(c) <= (x + 4) * Scale(p), Y0(c) <= e * Scale(p)
  PROVE  \/ <<p, "hor", x, e>> \in Rightmost(c) /\ step[c] \in AfterRight
         \/ <<p, "hor", x, e>> \in Inside(c, "hor") /\ step[c] \in AfterHor
<1> DEFINE t == <<p, "hor", x, e>>
           s == Scale(p)
<1>1. fr \in Frames /\ s \in {1, 2} /\ (x + 4) * s \in Int /\ (x + 8) * s = (x + 4) * s + 4 * s /\ e * s \in Int
  BY DEF JobsInv, FilterType, Scale
<1>2. PICK d \in Lcus : \/ t \in Inside(d, "ver") /\ step[d] \in AfterVer
                        \/ t \in Rightmost(d) /\ step[d] \in AfterRight
                        \/ t \in Inside(d, "hor") /\ step[d] \in AfterHor
  BY FilteredIs
<1>3. t \notin Inside(d, "ver")
  <2> SUFFICES ASSUME t \in Inside(d, "ver") PROVE FALSE
    OBVIOUS
  <2>1. PICK q \in Planes, a \in Nat, y \in Nat : t = <<q, "ver", a, y>>
    BY <1>1, InsideVerIs
  <2> QED BY <2>1
<1>4. /\ HasRight(d) => SizeX(d) = L
      /\ HasBelow(d) => SizeY(d) = L
      /\ X0(d) \in Nat /\ Y0(d) \in Nat /\ L \in Nat /\ L > 0
  BY <1>1, LcuIs, PlaneIs
<1>5. HasRight(d) => (x + 4) * s < X0(d) + L
  <2>1. CASE t \in Rightmost(d)
    <3>1. PICK q \in Planes, a \in Nat, y \in Nat : t = <<q, "hor", a, y>> /\ (a + 4) * Scale(q) = X0(d)
      BY <1>1, <2>1, RightmostIs
    <3>2. q = p /\ a = x
      BY <3>1
    <3> QED BY <1>4, <3>1, <3>2
  <2>2. CASE t \in Inside(d, "hor")
    <3>1. PICK q \in Planes, a \in Nat, y \in Nat :
            t = <<q, "hor", a, y>> /\ (HasRight(d) => (a + 8) * Scale(q) <= X0(d) + SizeX(d))
      BY <1>1, <2>2, InsideHorIs
    <3>2. q = p /\ a = x
      BY <3>1
    <3> QED BY <1>1, <1>4, <3>1, <3>2
  <2> QED BY <1>2, <1>3, <2>1, <2>2
<1>6. HasBelow(d) => e * s < Y0(d) + L
  <2>1. CASE t \in Rightmost(d)
    <3>1. PICK q \in Planes, a \in Nat, y \in Nat : t = <<q, "hor", a, y>> /\ y * Scale(q) + 8 <= Y0(d) + SizeY(d)
      BY <1>1, <2>1, RightmostIs
    <3>2. q = p /\ y = e
      BY <3>1
    <3> QED BY <1>1, <1>4, <3>1, <3>2
  <2>2. CASE t \in Inside(d, "hor")
    <3>1. PICK q \in Planes, a \in Nat, y \in Nat : t = <<q, "hor", a, y>> /\ y * Scale(q) + 8 <= Y0(d) + SizeY(d)
      BY <1>1, <2>2, InsideHorIs
    <3>2. q = p /\ y = e
      BY <3>1
    <3> QED BY <1>1, <1>4, <3>1, <3>2
  <2> QED BY <1>2, <1>3, <2>1, <2>2
<1>7. d = c
  <2>1. step[d] # "search"
    BY <1>2 DEF AfterVer, AfterRight, AfterHor
  <2> HIDE DEF s
  <2> QED BY <1>1, <1>5, <1>6, <2>1, NotOnTheLeft DEF s
<1> QED BY <1>2, <1>3, <1>7

LEMMA VerFilteredLater ==
  ASSUME JobsInv, NEW c \in Lcus, step[c] # "done", NEW p \in Planes, NEW e \in Nat, NEW y \in Nat,
         <<p, "ver", e, y>> \in filtered, X0(c) <= e * Scale(p), Y0(c) <= y * Scale(p)
  PROVE  <<p, "ver", e, y>> \in Inside(c, "ver") /\ step[c] \in AfterVer
<1> DEFINE t == <<p, "ver", e, y>>
           s == Scale(p)
<1>1. fr \in Frames /\ s \in {1, 2} /\ e * s \in Int /\ (y + 4) * s = y * s + 4 * s /\ y * s \in Int
  BY DEF JobsInv, FilterType, Scale
<1>2. PICK d \in Lcus : \/ t \in Inside(d, "ver") /\ step[d] \in AfterVer
                        \/ t \in Rightmost(d) /\ step[d] \in AfterRight
                        \/ t \in Inside(d, "hor") /\ step[d] \in AfterHor
  BY FilteredIs
<1>3. t \notin Inside(d, "hor") /\ t \notin Rightmost(d)
  <2>1. ASSUME t \in Inside(d, "hor") PROVE FALSE
    <3>1. PICK q \in Planes, a \in Nat, b \in Nat : t = <<q, "hor", a, b>>
      BY <1>1, <2>1, InsideHorIs
    <3> QED BY <3>1
  <2>2. ASSUME t \in Rightmost(d) PROVE FALSE
    <3>1. PICK q \in Planes, a \in Nat, b \in Nat : t = <<q, "hor", a, b>>
      BY <1>1, <2>2, RightmostIs
    <3> QED BY <3>1
  <2> QED BY <2>1, <2>2
<1>4. /\ HasRight(d) => SizeX(d) = L
      /\ HasBelow(d) => SizeY(d) = L
      /\ X0(d) \in Nat /\ Y0(d) \in Nat /\ L \in Nat /\ L > 0
  BY <1>1, LcuIs, PlaneIs
<1>5. /\ HasRight(d) => e * s < X0(d) + L
      /\ HasBelow(d) => y * s < Y0(d) + L
  <2>1. PICK q \in Planes, a \in Nat, b \in Nat :
          /\ t = <<q, "ver", a, b>> /\ a * Scale(q) + 8 <= X0(d) + SizeX(d)
          /\ (b + 4) * Scale(q) <= Y0(d) + SizeY(d)
    BY <1>1, <1>2, <1>3, InsideVerIs
  <2>2. q = p /\ a = e /\ b = y
    BY <2>1
  <2> QED BY <1>1, <1>4, <2>1, <2>2
<1>6. d = c
  <2>1. step[d] # "search"
    BY <1>2, <1>3 DEF AfterVer
  <2> HIDE DEF s
  <2> QED BY <1>1, <1>5, <2>1, NotOnTheLeft DEF s
<1> QED BY <1>2, <1>3, <1>6

-----------------------------------------------------------------------------
(* The area of SAO, in pixels of luma.                                     *)
FromX(c) == X0(c) + From(HasLeft(c))
FromY(c) == Y0(c) + From(HasAbove(c))
ToX(c)   == X0(c) + To(SizeX(c), HasRight(c))
ToY(c)   == Y0(c) + To(SizeY(c), HasBelow(c))

LEMMA SaoEnds ==
  ASSUME fr \in Frames, NEW c \in Lcus
  PROVE  /\ FromX(c) = X0(c) + (IF HasLeft(c) THEN -10 ELSE 0)
         /\ FromY(c) = Y0(c) + (IF HasAbove(c) THEN -10 ELSE 0)
         /\ ToX(c) = X0(c) + SizeX(c) - (IF HasRight(c) THEN 10 ELSE 0)
         /\ ToY(c) = Y0(c) + SizeY(c) - (IF HasBelow(c) THEN 10 ELSE 0)
         /\ From(HasLeft(c)) \in {0, -10} /\ From(HasAbove(c)) \in {0, -10}
         /\ To(SizeX(c), HasRight(c)) \in Int /\ To(SizeX(c), HasRight(c)) % 2 = 0
         /\ To(SizeY(c), HasBelow(c)) \in Int /\ To(SizeY(c), HasBelow(c)) % 2 = 0
         /\ X0(c) \in Nat /\ X0(c) % 2 = 0 /\ Y0(c) \in Nat /\ Y0(c) % 2 = 0
<1>1. /\ X0(c) \in Nat /\ X0(c) % 16 = 0 /\ SizeX(c) \in Nat /\ SizeX(c) % 8 = 0
      /\ Y0(c) \in Nat /\ Y0(c) % 16 = 0 /\ SizeY(c) \in Nat /\ SizeY(c) % 8 = 0
  BY LcuIs
<1>2. SAO_DELAY_PX = 10
  BY DEF SAO_DELAY_PX, DEBLOCK_DELAY_PX
<1>3. /\ From(HasLeft(c)) = (IF HasLeft(c) THEN -10 ELSE 0)
      /\ From(HasAbove(c)) = (IF HasAbove(c) THEN -10 ELSE 0)
      /\ To(SizeX(c), HasRight(c)) = SizeX(c) - (IF HasRight(c) THEN 10 ELSE 0)
      /\ To(SizeY(c), HasBelow(c)) = SizeY(c) - (IF HasBelow(c) THEN 10 ELSE 0)
  BY <1>2 DEF From, To, Without
<1>4. /\ FromX(c) = X0(c) + (IF HasLeft(c) THEN -10 ELSE 0)
      /\ FromY(c) = Y0(c) + (IF HasAbove(c) THEN -10 ELSE 0)
      /\ ToX(c) = X0(c) + SizeX(c) - (IF HasRight(c) THEN 10 ELSE 0)
      /\ ToY(c) = Y0(c) + SizeY(c) - (IF HasBelow(c) THEN 10 ELSE 0)
  BY <1>1, <1>3 DEF FromX, FromY, ToX, ToY
<1>5. /\ From(HasLeft(c)) \in {0, -10} /\ From(HasAbove(c)) \in {0, -10}
      /\ X0(c) % 2 = 0 /\ Y0(c) % 2 = 0
  BY <1>1, <1>3
<1>6. /\ To(SizeX(c), HasRight(c)) \in Int /\ To(SizeX(c), HasRight(c)) % 2 = 0
      /\ To(SizeY(c), HasBelow(c)) \in Int /\ To(SizeY(c), HasBelow(c)) % 2 = 0
  BY <1>1, <1>3
<1> QED BY <1>1, <1>4, <1>5, <1>6

(* Where a coordinate of a plane is in the area, along one axis.           *)
LEMMA HalvesOf ==
  ASSUME NEW s \in {1, 2}, NEW at \in Nat, at % 2 = 0, NEW f \in {0, -10}, NEW t \in Int, t % 2 = 0,
         NEW k \in {0, 1}, NEW m \in {0, 1}, NEW a \in Int
  PROVE  a \in (at \div s + (f \div s - k))..(at \div s + (f \div s - k) + ((t \div s + m) - (f \div s - k)) - 1)
         <=> (at + f <= (a + k) * s /\ (a - m) * s < at + t)
<1>1. CASE s = 1
  BY <1>1
<1>2. CASE s = 2
  BY <1>2
<1> QED BY <1>1, <1>2

LEMMA SaoAreaIs ==
  ASSUME fr \in Frames, NEW c \in Lcus, NEW p \in Planes, NEW a \in Int, NEW b \in Int,
         NEW i \in {0, 1}, NEW j \in {0, 1}, NEW k \in {0, 1}, NEW m \in {0, 1}
  PROVE  <<p, a, b>> \in SaoArea(c, p, i, j, k, m)
         <=> /\ FromX(c) <= (a + i) * Scale(p) /\ (a - k) * Scale(p) < ToX(c)
             /\ FromY(c) <= (b + j) * Scale(p) /\ (b - m) * Scale(p) < ToY(c)
<1> DEFINE s  == Scale(p)
           x0 == From(HasLeft(c)) \div s - i
           y0 == From(HasAbove(c)) \div s - j
           x2 == To(SizeX(c), HasRight(c)) \div s + k
           y2 == To(SizeY(c), HasBelow(c)) \div s + m
<1>1. SaoArea(c, p, i, j, k, m) = Area(p, X0(c) \div s + x0, Y0(c) \div s + y0, x2 - x0, y2 - y0)
  BY DEF SaoArea
<1>2. <<p, a, b>> \in SaoArea(c, p, i, j, k, m)
      <=> /\ a \in (X0(c) \div s + x0)..(X0(c) \div s + x0 + (x2 - x0) - 1)
          /\ b \in (Y0(c) \div s + y0)..(Y0(c) \div s + y0 + (y2 - y0) - 1)
  <2> HIDE DEF x0, y0, x2, y2
  <2> QED BY <1>1 DEF Area
<1>3. s \in {1, 2}
  BY DEF Scale
<1> HIDE DEF s
<1>4. a \in (X0(c) \div s + x0)..(X0(c) \div s + x0 + (x2 - x0) - 1)
      <=> (FromX(c) <= (a + i) * s /\ (a - k) * s < ToX(c))
  <2> DEFINE at == X0(c)
             f  == From(HasLeft(c))
             t  == To(SizeX(c), HasRight(c))
  <2>1. a \in (at \div s + (f \div s - i))..(at \div s + (f \div s - i) + ((t \div s + k) - (f \div s - i)) - 1)
        <=> (at + f <= (a + i) * s /\ (a - k) * s < at + t)
    <3>1. at \in Nat /\ at % 2 = 0 /\ f \in {0, -10} /\ t \in Int /\ t % 2 = 0
      BY SaoEnds
    <3> HIDE DEF at, f, t
    <3> QED BY <1>3, <3>1, HalvesOf
  <2> QED BY <2>1 DEF FromX, ToX
<1>5. b \in (Y0(c) \div s + y0)..(Y0(c) \div s + y0 + (y2 - y0) - 1)
      <=> (FromY(c) <= (b + j) * s /\ (b - m) * s < ToY(c))
  <2> DEFINE at == Y0(c)
             f  == From(HasAbove(c))
             t  == To(SizeY(c), HasBelow(c))
  <2>1. b \in (at \div s + (f \div s - j))..(at \div s + (f \div s - j) + ((t \div s + m) - (f \div s - j)) - 1)
        <=> (at + f <= (b + j) * s /\ (b - m) * s < at + t)
    <3>1. at \in Nat /\ at % 2 = 0 /\ f \in {0, -10} /\ t \in Int /\ t % 2 = 0
      BY SaoEnds
    <3> HIDE DEF at, f, t
    <3> QED BY <1>3, <3>1, HalvesOf
  <2> QED BY <2>1 DEF FromY, ToY
<1> QED BY <1>2, <1>4, <1>5 DEF s

(* Every element of an area of a plane is a pixel of it.                   *)
LEMMA SaoAreaPixels ==
  ASSUME fr \in Frames, NEW c \in Lcus, NEW p \in Planes,
         NEW i \in {0, 1}, NEW j \in {0, 1}, NEW k \in {0, 1}, NEW m \in {0, 1},
         NEW px \in SaoArea(c, p, i, j, k, m)
  PROVE  \E a \in Int, b \in Int : px = <<p, a, b>>
<1>1. \A x, y, w, h : Area(p, x, y, w, h) \subseteq {p} \X Int \X Int
  BY DEF Area
<1> QED BY <1>1 DEF SaoArea

(* SAO of an LCU on the left or above leaves a margin.                     *)
LEMMA NotYetFinal ==
  ASSUME JobsInv, NEW c \in Lcus, step[c] # "done", NEW p \in Planes, NEW a \in Int, NEW b \in Int,
         X0(c) <= a * Scale(p) + 10, Y0(c) <= b * Scale(p) + 10
  PROVE  <<p, a, b>> \notin final
<1> DEFINE px == <<p, a, b>>
           s == Scale(p)
<1> SUFFICES ASSUME px \in final PROVE FALSE
  OBVIOUS
<1>1. fr \in Frames /\ fr.sao /\ px \in UNION {FinalBy(d) : d \in Lcus}
  BY DEF JobsInv, FilterType, DoneByJobs
<1>2. PICK d \in Lcus : step[d] = "done" /\ px \in SaoWrites(d)
  BY <1>1 DEF FinalBy
<1>3. PICK q \in Planes : px \in SaoArea(d, q, 0, 0, 0, 0)
  BY <1>2 DEF SaoWrites
<1>4. q = p
  <2>1. PICK k \in Int, m \in Int : px = <<q, k, m>>
    BY <1>1, <1>3, SaoAreaPixels
  <2> QED BY <2>1
<1>5. (a - 0) * s < ToX(d) /\ (b - 0) * s < ToY(d)
  BY <1>1, <1>3, <1>4, SaoAreaIs
<1>6. a * s \in Int /\ b * s \in Int /\ (a - 0) * s = a * s /\ (b - 0) * s = b * s
  BY DEF Scale
<1>7. /\ HasRight(d) => ToX(d) = X0(d) + L - 10
      /\ HasBelow(d) => ToY(d) = Y0(d) + L - 10
      /\ X0(d) \in Nat /\ Y0(d) \in Nat /\ L \in Nat
  BY <1>1, LcuIs, SaoEnds, PlaneIs
<1>8. /\ HasRight(d) => a * s + 10 < X0(d) + L
      /\ HasBelow(d) => b * s + 10 < Y0(d) + L
  <2> HIDE DEF s
  <2> QED BY <1>5, <1>6, <1>7
<1>9. d = c
  <2> HIDE DEF s
  <2>1. a * s + 10 \in Int /\ b * s + 10 \in Int
    BY <1>6
  <2> QED BY <1>2, <1>8, <2>1, NotOnTheLeft DEF s
<1> QED BY <1>2, <1>9

-----------------------------------------------------------------------------
(* What has been done to the pixels up to the end of an LCU.               *)
LEMMA PixelIn ==
  ASSUME fr \in Frames, NEW p \in Planes, NEW a \in Nat, NEW b \in Nat
  PROVE  /\ a * Scale(p) < fr.W => a \in 0..(Width(p) - 1)
         /\ b * Scale(p) < fr.H => b \in 0..(Height(p) - 1)
<1>1. CASE p = "Y"
  BY <1>1, PlaneIs
<1>2. CASE p = "C"
  BY <1>2, PlaneIs
<1> QED BY <1>1, <1>2 DEF Planes

LEMMA LcuUpTo ==
  ASSUME fr \in Frames, NEW c \in Lcus, NEW d \in Lcus, NEW n \in Nat
  PROVE  /\ d[1] <= n \div L /\ (HasRight(c) => n < X0(c) + L) => d[1] <= c[1]
         /\ d[2] <= n \div L /\ (HasBelow(c) => n < Y0(c) + L) => d[2] <= c[2]
<1>1. /\ d[1] \in Nat /\ d[2] \in Nat /\ c[1] \in Nat /\ c[2] \in Nat
      /\ d[1] \in 0..(Cols - 1) /\ d[2] \in 0..(Rows - 1)
  BY LcuType
<1>2. n \div L \in Nat
  BY Quotient, PlaneIs DEF Planes
<1>3. /\ ~HasRight(c) => c[1] = Cols - 1
      /\ ~HasBelow(c) => c[2] = Rows - 1
  BY LcuIs
<1>4. /\ n < X0(c) + L => n \div L <= c[1]
      /\ n < Y0(c) + L => n \div L <= c[2]
  BY NotBeyond
<1> QED BY <1>1, <1>2, <1>3, <1>4

LEMMA WrittenAlready ==
  ASSUME JobsInv, NEW c \in Lcus, step[c] # "search", NEW p \in Planes,
         NEW a \in 0..(Width(p) - 1), NEW b \in 0..(Height(p) - 1),
         HasRight(c) => a * Scale(p) < X0(c) + L, HasBelow(c) => b * Scale(p) < Y0(c) + L
  PROVE  LcuOf(<<p, a, b>>) \in recon
<1> DEFINE d == LcuOf(<<p, a, b>>)
<1>1. fr \in Frames
  BY DEF JobsInv, FilterType
<1>2. d \in Lcus /\ d = <<(a * Scale(p)) \div L, (b * Scale(p)) \div L>>
  BY <1>1, LcuOfIs
<1>3. a * Scale(p) \in Nat /\ b * Scale(p) \in Nat
  BY DEF Scale
<1>4. d[1] = (a * Scale(p)) \div L /\ d[2] = (b * Scale(p)) \div L /\ d[1] \in Nat /\ d[2] \in Nat
  BY <1>1, <1>2, LcuType
<1> HIDE DEF d
<1>5. d[1] <= c[1] /\ d[2] <= c[2]
  BY <1>1, <1>2, <1>3, <1>4, LcuUpTo
<1>6. step[d] # "search"
  BY <1>2, <1>5, LeftAndAboveDone
<1> QED BY <1>2, <1>6 DEF JobsInv, DoneByJobs, d

LEMMA VerFilteredAlready ==
  ASSUME JobsInv, fr.deblock, NEW c \in Lcus, step[c] \in AfterVer, NEW p \in Planes,
         NEW a \in 0..(Width(p) - 1), NEW b \in 0..(Height(p) - 1),
         HasRight(c) => a * Scale(p) + 3 < X0(c) + L, HasBelow(c) => b * Scale(p) < Y0(c) + L
  PROVE  Ver(<<p, a, b>>) \subseteq filtered
<1>1. fr \in Frames
  BY DEF JobsInv, FilterType
<1> SUFFICES ASSUME NEW t \in Ver(<<p, a, b>>) PROVE t \in filtered
  OBVIOUS
<1>2. PICK d \in Lcus : t \in Inside(d, "ver") /\ NearVer(d, a * Scale(p), b * Scale(p))
  BY <1>1, VerFilteredBy
<1>3. a * Scale(p) + 3 \in Nat /\ b * Scale(p) \in Nat
  BY DEF Scale
<1>4. d[1] <= c[1] /\ d[2] <= c[2]
  BY <1>1, <1>2, <1>3, LcuUpTo DEF NearVer
<1>5. step[d] \in AfterVer
  BY <1>4, LeftAndAboveDone DEF AfterVer
<1>6. t \in FilteredBy(d)
  BY <1>2, <1>5 DEF FilteredBy
<1> QED BY <1>6 DEF JobsInv, DoneByJobs

LEMMA HorFilteredAlready ==
  ASSUME JobsInv, fr.deblock, NEW c \in Lcus, step[c] \in AfterHor, NEW p \in Planes,
         NEW a \in 0..(Width(p) - 1), NEW b \in 0..(Height(p) - 1),
         HasRight(c) => a * Scale(p) + 8 < X0(c) + L, HasBelow(c) => b * Scale(p) + 3 < Y0(c) + L
  PROVE  Hor(<<p, a, b>>) \subseteq filtered
<1>1. fr \in Frames
  BY DEF JobsInv, FilterType
<1> SUFFICES ASSUME NEW t \in Hor(<<p, a, b>>) PROVE t \in filtered
  OBVIOUS
<1> DEFINE u == a * Scale(p)
           m == (u \div 8) * 8 + 8
<1>2. PICK d \in Lcus : /\ t \in Inside(d, "hor") \/ t \in Rightmost(d)
                        /\ NearHor(d, u, b * Scale(p))
  BY <1>1, HorFilteredBy
<1>3. u \in Nat /\ b * Scale(p) + 3 \in Nat
  BY DEF Scale
<1> HIDE DEF u
<1>4. m \in Nat /\ m <= u + 8
  BY <1>3
<1>5. HasRight(c) => m < X0(c) + L
  BY <1>1, <1>3, <1>4, LcuIs, PlaneIs DEF u
<1>6. d[1] <= c[1] /\ d[2] <= c[2]
  BY <1>1, <1>2, <1>3, <1>4, <1>5, LcuUpTo DEF NearHor
<1>7. step[d] \in AfterHor /\ step[d] \in AfterRight
  BY <1>6, LeftAndAboveDone DEF AfterHor, AfterRight
<1>8. t \in FilteredBy(d)
  BY <1>2, <1>7 DEF FilteredBy
<1> QED BY <1>8 DEF JobsInv, DoneByJobs

-----------------------------------------------------------------------------
(* What a filter reads.                                                    *)
LEMMA VerReads ==
  ASSUME NEW p \in Planes, NEW e \in Nat, NEW y \in Nat, NEW px \in ReadBy(<<p, "ver", e, y>>)
  PROVE  \E a \in Int, b \in Int :
           /\ px = <<p, a, b>>
           /\ e * Scale(p) <= a * Scale(p) + 4 /\ (a + 1) * Scale(p) <= e * Scale(p) + 4 /\ e <= a + 4
           /\ y <= b /\ b <= y + 3
<1> DEFINE n == IF p = "Y" THEN 4 ELSE 2
<1>1. px \in Area(p, e - n, y, 2 * n, 4)
  BY DEF ReadBy, Across
<1>2. PICK a \in (e - n)..(e - n + 2 * n - 1), b \in y..(y + 4 - 1) : px = <<p, a, b>>
  BY <1>1 DEF Area
<1>3. CASE p = "Y"
  BY <1>2, <1>3 DEF Scale
<1>4. CASE p = "C"
  BY <1>2, <1>4 DEF Scale
<1> QED BY <1>3, <1>4 DEF Planes

LEMMA HorReads ==
  ASSUME NEW p \in Planes, NEW x \in Nat, NEW e \in Nat, NEW px \in ReadBy(<<p, "hor", x, e>>)
  PROVE  \E a \in Int, b \in Int :
           /\ px = <<p, a, b>>
           /\ e * Scale(p) <= b * Scale(p) + 4 /\ (b + 1) * Scale(p) <= e * Scale(p) + 4 /\ e <= b + 4
           /\ x <= a /\ a <= x + 3
<1> DEFINE n == IF p = "Y" THEN 4 ELSE 2
<1>1. px \in Area(p, x, e - n, 4, 2 * n)
  BY DEF ReadBy, Across
<1>2. PICK a \in x..(x + 4 - 1), b \in (e - n)..(e - n + 2 * n - 1) : px = <<p, a, b>>
  BY <1>1 DEF Area
<1>3. CASE p = "Y"
  BY <1>2, <1>3 DEF Scale
<1>4. CASE p = "C"
  BY <1>2, <1>4 DEF Scale
<1> QED BY <1>3, <1>4 DEF Planes

LEMMA VerIsReady ==
  ASSUME JobsInv, NEW c \in Lcus, step[c] = "ver", NEW s \in Inside(c, "ver")
  PROVE  VerReady(s)
<1>1. fr \in Frames
  BY DEF JobsInv, FilterType
<1>2. PICK p \in Planes, e \in Nat, y \in Nat :
        /\ s = <<p, "ver", e, y>> /\ e % 8 = 0 /\ e > 0 /\ y % 4 = 0
        /\ X0(c) <= e * Scale(p) /\ e * Scale(p) + 8 <= X0(c) + SizeX(c)
        /\ Y0(c) <= y * Scale(p) /\ (y + 4) * Scale(p) <= Y0(c) + SizeY(c)
  BY <1>1, InsideVerIs
<1>3. s \notin filtered
  BY <1>2, VerFilteredLater DEF AfterVer
<1>4. ASSUME NEW px \in ReadBy(s)
      PROVE  LcuOf(px) \in recon /\ Hor(px) \cap filtered = {} /\ px \notin final
  <2>1. PICK a \in Int, b \in Int :
          /\ px = <<p, a, b>>
          /\ e * Scale(p) <= a * Scale(p) + 4 /\ (a + 1) * Scale(p) <= e * Scale(p) + 4 /\ e <= a + 4
          /\ y <= b /\ b <= y + 3
    BY <1>2, <1>4, VerReads
  <2> DEFINE k == Scale(p)
             u == a * k
             v == b * k
  <2>2. /\ X0(c) \in Nat /\ SizeX(c) \in Nat /\ Y0(c) \in Nat /\ SizeY(c) \in Nat /\ L \in Nat /\ L > 0
        /\ X0(c) + SizeX(c) <= fr.W /\ Y0(c) + SizeY(c) <= fr.H /\ fr.W \in Nat /\ fr.H \in Nat
        /\ HasRight(c) => SizeX(c) = L
        /\ HasBelow(c) => SizeY(c) = L
    BY <1>1, LcuIs, PlaneIs
  <2>3. /\ a \in Nat /\ b \in Nat /\ u \in Nat /\ v \in Nat
        /\ X0(c) <= u + 4 /\ u < X0(c) + SizeX(c) /\ Y0(c) <= v /\ v < Y0(c) + SizeY(c)
    <3>1. a \in Nat /\ b \in Nat
      BY <1>2, <2>1
    <3>2. CASE p = "Y"
      <4>1. Scale(p) = 1
        BY <3>2 DEF Scale
      <4> QED BY <1>2, <2>1, <2>2, <3>1, <4>1
    <3>3. CASE p = "C"
      <4>1. Scale(p) = 2
        BY <3>3 DEF Scale
      <4> QED BY <1>2, <2>1, <2>2, <3>1, <4>1
    <3> QED BY <3>2, <3>3 DEF Planes
  <2> HIDE DEF u, v
  <2>4. a \in 0..(Width(p) - 1) /\ b \in 0..(Height(p) - 1)
    <3>1. u < fr.W /\ v < fr.H
      BY <2>2, <2>3
    <3> QED BY <1>1, <2>3, <3>1, PixelIn DEF u, v
  <2>5. LcuOf(px) \in recon
    <3>1. /\ HasRight(c) => u < X0(c) + L
          /\ HasBelow(c) => v < Y0(c) + L
      BY <2>2, <2>3
    <3> QED BY <2>1, <2>4, <3>1, WrittenAlready DEF u, v
  <2>6. px \notin final
    <3>1. X0(c) <= u + 10 /\ Y0(c) <= v + 10
      BY <2>2, <2>3
    <3> QED BY <2>1, <3>1, NotYetFinal DEF u, v
  <2>7. ASSUME NEW t \in Hor(px), t \in filtered PROVE FALSE
    <3> DEFINE x == (a \div 4) * 4
    <3>1. PICK f \in Edge(p, b, Height(p)) : t = <<p, "hor", x, f>>
      BY <2>1, <2>7 DEF Hor
    <3>2. f \in Nat /\ f % 8 = 0 /\ b < f + Touch(p) /\ Touch(p) <= 3 /\ Touch(p) \in Nat
      <4>1. Height(p) \in Nat /\ Touch(p) \in {1, 3}
        BY <1>1, PlaneIs DEF Touch
      <4> QED BY <2>3, <3>1, <4>1, EdgeIs
    <3>3. y <= f
      BY <1>2, <2>1, <3>2
    <3>4. x \in Nat /\ e <= x + 4
      BY <1>2, <2>1, <2>3
    <3> HIDE DEF x
    <3>5. X0(c) <= (x + 4) * k /\ Y0(c) <= f * k
      <4>1. k \in {1, 2}
        BY DEF Scale
      <4> HIDE DEF k
      <4>2. e * k <= (x + 4) * k /\ y * k <= f * k
        <5>1. CASE k = 1
          BY <3>2, <3>3, <3>4, <5>1
        <5>2. CASE k = 2
          BY <3>2, <3>3, <3>4, <5>2
        <5> QED BY <4>1, <5>1, <5>2
      <4>3. e * k \in Int /\ y * k \in Int /\ f * k \in Int /\ (x + 4) * k \in Int
        BY <3>2, <3>4, <4>1
      <4> QED BY <1>2, <2>2, <4>2, <4>3 DEF k
    <3>6. step[c] \in AfterRight \/ step[c] \in AfterHor
      BY <2>7, <3>1, <3>2, <3>4, <3>5, HorFilteredLater
    <3> QED BY <3>6 DEF AfterRight, AfterHor
  <2> QED BY <2>5, <2>6, <2>7
<1> QED BY <1>3, <1>4 DEF VerReady

LEMMA HorReadsReady ==
  ASSUME JobsInv, fr.deblock, NEW c \in Lcus, step[c] \in AfterVer, step[c] # "done",
         NEW p \in Planes, NEW x \in Nat, NEW e \in Nat, e % 8 = 0, e > 0,
         X0(c) <= (x + 4) * Scale(p), (x + 4) * Scale(p) <= X0(c) + SizeX(c),
         HasRight(c) => (x + 8) * Scale(p) <= X0(c) + L,
         Y0(c) <= e * Scale(p), e * Scale(p) + 8 <= Y0(c) + SizeY(c),
         NEW px \in ReadBy(<<p, "hor", x, e>>)
  PROVE  LcuOf(px) \in recon /\ Ver(px) \subseteq filtered /\ px \notin final
<1>1. fr \in Frames
  BY DEF JobsInv, FilterType
<1>2. PICK a \in Int, b \in Int :
        /\ px = <<p, a, b>>
        /\ e * Scale(p) <= b * Scale(p) + 4 /\ (b + 1) * Scale(p) <= e * Scale(p) + 4 /\ e <= b + 4
        /\ x <= a /\ a <= x + 3
  BY HorReads
<1> DEFINE k == Scale(p)
           u == a * k
           v == b * k
<1>3. /\ X0(c) \in Nat /\ SizeX(c) \in Nat /\ Y0(c) \in Nat /\ SizeY(c) \in Nat /\ L \in Nat /\ L > 0
      /\ X0(c) + SizeX(c) <= fr.W /\ Y0(c) + SizeY(c) <= fr.H /\ fr.W \in Nat /\ fr.H \in Nat
      /\ HasBelow(c) => SizeY(c) = L
  BY <1>1, LcuIs, PlaneIs
<1>4. /\ a \in Nat /\ b \in Nat /\ u \in Nat /\ v \in Nat
      /\ X0(c) <= u + 10 /\ u < X0(c) + SizeX(c) /\ (HasRight(c) => u + 3 < X0(c) + L)
      /\ Y0(c) <= v + 10 /\ v < Y0(c) + SizeY(c)
  <2>1. a \in Nat /\ b \in Nat
    BY <1>2
  <2>2. CASE p = "Y"
    <3>1. Scale(p) = 1
      BY <2>2 DEF Scale
    <3> QED BY <1>2, <1>3, <2>1, <3>1
  <2>3. CASE p = "C"
    <3>1. Scale(p) = 2
      BY <2>3 DEF Scale
    <3> QED BY <1>2, <1>3, <2>1, <3>1
  <2> QED BY <2>2, <2>3 DEF Planes
<1> HIDE DEF u, v
<1>5. a \in 0..(Width(p) - 1) /\ b \in 0..(Height(p) - 1)
  <2>1. u < fr.W /\ v < fr.H
    BY <1>3, <1>4
  <2> QED BY <1>1, <1>4, <2>1, PixelIn DEF u, v
<1>6. /\ HasRight(c) => u < X0(c) + L
      /\ HasBelow(c) => v < Y0(c) + L
  BY <1>3, <1>4
<1>7. LcuOf(px) \in recon
  BY <1>2, <1>5, <1>6, WrittenAlready DEF AfterVer, u, v
<1>8. Ver(px) \subseteq filtered
  BY <1>2, <1>4, <1>5, <1>6, VerFilteredAlready DEF u, v
<1>9. px \notin final
  BY <1>2, <1>4, NotYetFinal DEF u, v
<1> QED BY <1>7, <1>8, <1>9

LEMMA RightmostIsReady ==
  ASSUME JobsInv, NEW c \in Lcus, step[c] = "right", NEW s \in Rightmost(c)
  PROVE  HorReady(s)
<1>1. fr \in Frames /\ fr.deblock
  BY DEF JobsInv, FilterType
<1>2. PICK p \in Planes, x \in Nat, e \in Nat :
        /\ s = <<p, "hor", x, e>> /\ e % 8 = 0 /\ e > 0 /\ x % 4 = 0
        /\ HasLeft(c) /\ (x + 4) * Scale(p) = X0(c)
        /\ Y0(c) <= e * Scale(p) /\ e * Scale(p) + 8 <= Y0(c) + SizeY(c)
  BY <1>1, RightmostIs
<1>3. s \notin filtered
  <2>1. X0(c) <= (x + 4) * Scale(p)
    BY <1>1, <1>2, LcuIs
  <2> QED BY <1>2, <2>1, HorFilteredLater DEF AfterRight, AfterHor
<1>4. /\ X0(c) <= (x + 4) * Scale(p) /\ (x + 4) * Scale(p) <= X0(c) + SizeX(c)
      /\ (x + 8) * Scale(p) <= X0(c) + L
  <2>1. X0(c) \in Nat /\ SizeX(c) \in Nat /\ L \in Nat /\ L >= 16
    <3>1. L \in Nat /\ L % 16 = 0 /\ L > 0
      BY <1>1, PlaneIs
    <3> QED BY <1>1, <3>1, LcuIs
  <2>2. CASE Scale(p) = 1
    BY <1>2, <2>1, <2>2
  <2>3. CASE Scale(p) = 2
    BY <1>2, <2>1, <2>3
  <2> QED BY <2>2, <2>3 DEF Scale
<1>5. step[c] \in AfterVer /\ step[c] # "done"
  BY DEF AfterVer
<1>6. ASSUME NEW px \in ReadBy(s)
      PROVE  LcuOf(px) \in recon /\ Ver(px) \subseteq filtered /\ px \notin final
  BY <1>1, <1>2, <1>4, <1>5, <1>6, HorReadsReady
<1> QED BY <1>3, <1>6 DEF HorReady

LEMMA HorIsReady ==
  ASSUME JobsInv, NEW c \in Lcus, step[c] = "hor", NEW s \in Inside(c, "hor")
  PROVE  HorReady(s)
<1>1. fr \in Frames /\ fr.deblock
  BY DEF JobsInv, FilterType
<1>2. PICK p \in Planes, x \in Nat, e \in Nat :
        /\ s = <<p, "hor", x, e>> /\ e % 8 = 0 /\ e > 0 /\ x % 4 = 0
        /\ X0(c) <= x * Scale(p) /\ (x + 4) * Scale(p) <= X0(c) + SizeX(c)
        /\ HasRight(c) => (x + 8) * Scale(p) <= X0(c) + SizeX(c)
        /\ Y0(c) <= e * Scale(p) /\ e * Scale(p) + 8 <= Y0(c) + SizeY(c)
  BY <1>1, InsideHorIs
<1>3. /\ X0(c) < (x + 4) * Scale(p) /\ X0(c) <= (x + 4) * Scale(p)
      /\ HasRight(c) => (x + 8) * Scale(p) <= X0(c) + L
  <2>1. X0(c) \in Nat /\ SizeX(c) \in Nat /\ L \in Nat /\ (HasRight(c) => SizeX(c) = L)
    BY <1>1, LcuIs, PlaneIs
  <2>2. CASE Scale(p) = 1
    BY <1>2, <2>1, <2>2
  <2>3. CASE Scale(p) = 2
    BY <1>2, <2>1, <2>3
  <2> QED BY <2>2, <2>3 DEF Scale
<1>4. s \notin filtered
  <2>1. s \notin Rightmost(c)
    <3> SUFFICES ASSUME s \in Rightmost(c) PROVE FALSE
      OBVIOUS
    <3>1. PICK q \in Planes, a \in Nat, b \in Nat : s = <<q, "hor", a, b>> /\ (a + 4) * Scale(q) = X0(c)
      BY <1>1, RightmostIs
    <3>2. q = p /\ a = x
      BY <1>2, <3>1
    <3>3. X0(c) \in Nat
      BY <1>1, LcuIs
    <3> QED BY <1>3, <3>1, <3>2, <3>3
  <2> QED BY <1>2, <1>3, <2>1, HorFilteredLater DEF AfterHor
<1>5. step[c] \in AfterVer /\ step[c] # "done"
  BY DEF AfterVer
<1>6. ASSUME NEW px \in ReadBy(s)
      PROVE  LcuOf(px) \in recon /\ Ver(px) \subseteq filtered /\ px \notin final
  BY <1>1, <1>2, <1>3, <1>5, <1>6, HorReadsReady
<1> QED BY <1>4, <1>6 DEF HorReady

LEMMA EdgesInOrder == JobsInv => DeblockedInOrder
BY VerIsReady, RightmostIsReady, HorIsReady DEF DeblockedInOrder

-----------------------------------------------------------------------------
(* The buffers.  When an LCU is saved for intra prediction, no filter has  *)
(* come to it.                                                             *)
LEMMA LastIs ==
  ASSUME fr \in Frames, NEW c \in Lcus, NEW px \in LastRowAndColumn(c)
  PROVE  \E p \in Planes, a \in Nat, b \in Nat :
           /\ px = <<p, a, b>>
           /\ X0(c) <= a * Scale(p) /\ a * Scale(p) < X0(c) + SizeX(c)
           /\ Y0(c) <= b * Scale(p) /\ b * Scale(p) < Y0(c) + SizeY(c)
<1> DEFINE x == X0(c)
           y == Y0(c)
           w == SizeX(c)
           h == SizeY(c)
<1>1. /\ x \in Nat /\ x % 16 = 0 /\ y \in Nat /\ y % 16 = 0
      /\ w \in Nat /\ w % 8 = 0 /\ w > 0 /\ h \in Nat /\ h % 8 = 0 /\ h > 0
  BY LcuIs
<1>2. PICK p \in Planes :
        px \in Area(p, x \div Scale(p), (y + h - 1) \div Scale(p), w \div Scale(p), 1)
               \cup Area(p, (x + w - 1) \div Scale(p), y \div Scale(p), 1, h \div Scale(p))
  BY DEF LastRowAndColumn
<1> HIDE DEF x, y, w, h
<1> DEFINE k == Scale(p)
<1>3. k \in {1, 2}
  BY DEF Scale
<1> HIDE DEF k
<1>4. CASE px \in Area(p, x \div k, (y + h - 1) \div k, w \div k, 1)
  <2>1. PICK a \in (x \div k)..(x \div k + w \div k - 1), b \in ((y + h - 1) \div k)..((y + h - 1) \div k + 1 - 1) :
          px = <<p, a, b>>
    BY <1>4 DEF Area
  <2>2. /\ a \in Nat /\ b \in Nat /\ x <= a * k /\ a * k < x + w /\ y <= b * k /\ b * k < y + h
    <3>1. CASE k = 1
      BY <1>1, <2>1, <3>1
    <3>2. CASE k = 2
      BY <1>1, <2>1, <3>2
    <3> QED BY <1>3, <3>1, <3>2
  <2> QED BY <2>1, <2>2 DEF x, y, w, h, k
<1>5. CASE px \in Area(p, (x + w - 1) \div k, y \div k, 1, h \div k)
  <2>1. PICK a \in ((x + w - 1) \div k)..((x + w - 1) \div k + 1 - 1), b \in (y \div k)..(y \div k + h \div k - 1) :
          px = <<p, a, b>>
    BY <1>5 DEF Area
  <2>2. /\ a \in Nat /\ b \in Nat /\ x <= a * k /\ a * k < x + w /\ y <= b * k /\ b * k < y + h
    <3>1. CASE k = 1
      BY <1>1, <2>1, <3>1
    <3>2. CASE k = 2
      BY <1>1, <2>1, <3>2
    <3> QED BY <1>3, <3>1, <3>2
  <2> QED BY <2>1, <2>2 DEF x, y, w, h, k
<1> QED BY <1>2, <1>4, <1>5 DEF k

(* The coordinates of an edge that may change a pixel.                     *)
LEMMA EdgeAfter ==
  ASSUME fr \in Frames, NEW p \in Planes, NEW n \in Nat, NEW size \in Nat, NEW e \in Edge(p, n, size),
         NEW at \in Nat, at % 16 = 0, at <= n * Scale(p)
  PROVE  e \in Nat /\ at <= e * Scale(p)
<1>1. /\ e \in Nat /\ e % 8 = 0 /\ n < e + Touch(p)
  BY EdgeIs
<1>2. CASE p = "Y"
  <2>1. Scale(p) = 1 /\ Touch(p) = 3
    BY <1>2 DEF Scale, Touch
  <2> QED BY <1>1, <2>1
<1>3. CASE p = "C"
  <2>1. Scale(p) = 2 /\ Touch(p) = 1
    BY <1>3 DEF Scale, Touch
  <2> QED BY <1>1, <2>1
<1> QED BY <1>2, <1>3 DEF Planes

LEMMA LastUnfiltered ==
  ASSUME JobsInv, NEW c \in Lcus, step[c] = "search", NEW px \in LastRowAndColumn(c)
  PROVE  LcuOf(px) = c /\ (Ver(px) \cup Hor(px)) \cap filtered = {} /\ px \notin final
<1>1. fr \in Frames
  BY DEF JobsInv, FilterType
<1>2. PICK p \in Planes, a \in Nat, b \in Nat :
        /\ px = <<p, a, b>>
        /\ X0(c) <= a * Scale(p) /\ a * Scale(p) < X0(c) + SizeX(c)
        /\ Y0(c) <= b * Scale(p) /\ b * Scale(p) < Y0(c) + SizeY(c)
  BY <1>1, LastIs
<1> DEFINE k == Scale(p)
           u == a * k
           v == b * k
<1>3. u \in Nat /\ v \in Nat /\ k \in {1, 2}
  BY DEF Scale
<1>4. /\ X0(c) \in Nat /\ Y0(c) \in Nat /\ X0(c) % 16 = 0 /\ Y0(c) % 16 = 0
      /\ SizeX(c) \in Nat /\ SizeX(c) <= L /\ SizeY(c) \in Nat /\ SizeY(c) <= L /\ L \in Nat /\ L > 0
  <2>1. /\ X0(c) \in Nat /\ Y0(c) \in Nat /\ X0(c) % 16 = 0 /\ Y0(c) % 16 = 0
        /\ SizeX(c) \in Nat /\ SizeY(c) \in Nat /\ L \in Nat /\ L > 0 /\ fr.W \in Nat /\ fr.H \in Nat
    BY <1>1, LcuIs, PlaneIs
  <2> QED BY <2>1 DEF SizeX, SizeY, Lower
<1> HIDE DEF u, v, k
<1>5. LcuOf(px) = c
  <2>1. LcuOf(px) = <<u \div L, v \div L>>
    BY <1>2 DEF LcuOf, u, v, k
  <2>2. c[1] \in Nat /\ c[2] \in Nat /\ c = <<c[1], c[2]>>
    BY <1>1, LcuType
  <2>3. c[1] * L <= u /\ u < c[1] * L + L /\ c[2] * L <= v /\ v < c[2] * L + L
    <3>1. X0(c) <= u /\ u < X0(c) + L /\ Y0(c) <= v /\ v < Y0(c) + L
      BY <1>2, <1>3, <1>4 DEF u, v, k
    <3> QED BY <3>1 DEF X0, Y0
  <2>4. u \div L = c[1] /\ v \div L = c[2]
    BY <1>3, <1>4, <2>2, <2>3, QuotientIs
  <2> QED BY <2>1, <2>2, <2>4
<1>6. px \notin final
  <2>1. X0(c) <= u + 10 /\ Y0(c) <= v + 10
    BY <1>2, <1>3, <1>4 DEF u, v, k
  <2> QED BY <1>2, <2>1, NotYetFinal DEF u, v, k
<1>7. ASSUME NEW t \in Ver(px), t \in filtered PROVE FALSE
  <2>1. PICK e \in Edge(p, a, Width(p)) : t = <<p, "ver", e, (b \div 4) * 4>>
    BY <1>2, <1>7 DEF Ver
  <2>2. Width(p) \in Nat
    BY <1>1, PlaneIs
  <2>3. e \in Nat /\ X0(c) <= e * k
    BY <1>1, <1>2, <1>4, <2>1, <2>2, EdgeAfter DEF k
  <2>4. (b \div 4) * 4 \in Nat /\ Y0(c) <= ((b \div 4) * 4) * k
    <3>1. Y0(c) <= b * k
      BY <1>2 DEF k
    <3>2. CASE k = 1
      BY <1>4, <3>1, <3>2
    <3>3. CASE k = 2
      BY <1>4, <3>1, <3>3
    <3> QED BY <1>3, <3>2, <3>3
  <2>5. step[c] \in AfterVer
    BY <1>7, <2>1, <2>3, <2>4, VerFilteredLater DEF k
  <2> QED BY <2>5 DEF AfterVer
<1>8. ASSUME NEW t \in Hor(px), t \in filtered PROVE FALSE
  <2> DEFINE x == (a \div 4) * 4
  <2>1. PICK e \in Edge(p, b, Height(p)) : t = <<p, "hor", x, e>>
    BY <1>2, <1>8 DEF Hor
  <2>2. Height(p) \in Nat
    BY <1>1, PlaneIs
  <2>3. e \in Nat /\ Y0(c) <= e * k
    BY <1>1, <1>2, <1>4, <2>1, <2>2, EdgeAfter DEF k
  <2>4. x \in Nat /\ X0(c) <= (x + 4) * k
    <3>1. X0(c) <= a * k
      BY <1>2 DEF k
    <3>2. CASE k = 1
      BY <1>4, <3>1, <3>2
    <3>3. CASE k = 2
      BY <1>4, <3>1, <3>3
    <3> QED BY <1>3, <3>2, <3>3
  <2> HIDE DEF x
  <2>5. step[c] \in AfterRight \/ step[c] \in AfterHor
    BY <1>8, <2>1, <2>3, <2>4, HorFilteredLater DEF k
  <2> QED BY <2>5 DEF AfterRight, AfterHor
<1> QED BY <1>5, <1>6, <1>7, <1>8

(* What is saved for SAO has been deblocked.                               *)
LEMMA SavedIs ==
  ASSUME fr \in Frames, NEW c \in Lcus, NEW p \in Planes, NEW a \in Int, NEW b \in Int
  PROVE  /\ <<p, a, b>> \in SavedRow(c)
            <=> /\ HasBelow(c) /\ b = (Y0(c) + L - 11) \div Scale(p)
                /\ X0(c) <= a * Scale(p) + Without(8, HasLeft(c))
                /\ a * Scale(p) < X0(c) + SizeX(c) - Without(8, HasRight(c))
         /\ <<p, a, b>> \in SavedColumn(c)
            <=> /\ HasRight(c) /\ a = (X0(c) + L - 11) \div Scale(p)
                /\ Y0(c) <= b * Scale(p) + Without(8, HasAbove(c))
                /\ b * Scale(p) < Y0(c) + SizeY(c) - Without(8, HasBelow(c))
<1>1. /\ X0(c) \in Nat /\ X0(c) % 16 = 0 /\ SizeX(c) \in Nat /\ SizeX(c) % 8 = 0
      /\ Y0(c) \in Nat /\ Y0(c) % 16 = 0 /\ SizeY(c) \in Nat /\ SizeY(c) % 8 = 0 /\ L \in Nat
  BY LcuIs, PlaneIs
<1>2. DEBLOCK_DELAY_PX = 8 /\ SAO_DELAY_PX = 10 /\ Scale(p) \in {1, 2}
  BY DEF DEBLOCK_DELAY_PX, SAO_DELAY_PX, Scale
<1>3. ASSUME NEW at \in Nat, at % 16 = 0, NEW size \in Nat, size % 8 = 0, NEW next \in BOOLEAN, NEW prev \in BOOLEAN,
             NEW n \in Int, NEW k \in {1, 2}
      PROVE  n \in ((at - Without(8, prev)) \div k)..((at - Without(8, prev)) \div k + Extent(size, next, prev) \div k - 1)
             <=> (at <= n * k + Without(8, prev) /\ n * k < at + size - Without(8, next))
  <2> DEFINE from   == at - Without(8, prev)
             extent == Extent(size, next, prev)
  <2>1. /\ from \in Int /\ from % 8 = 0 /\ extent \in Int /\ extent % 8 = 0
        /\ from + extent = at + size - Without(8, next)
    BY <1>2, <1>3 DEF Extent, Without
  <2>2. from <= n * k <=> at <= n * k + Without(8, prev)
    BY <1>3 DEF Without
  <2> HIDE DEF from, extent
  <2>3. n \in (from \div k)..(from \div k + extent \div k - 1) <=> (from <= n * k /\ n * k < from + extent)
    <3>1. CASE k = 1
      BY <2>1, <3>1
    <3>2. CASE k = 2
      BY <2>1, <3>2
    <3> QED BY <3>1, <3>2
  <2> QED BY <2>1, <2>2, <2>3 DEF from, extent
<1>4. <<p, a, b>> \in SavedRow(c)
      <=> /\ HasBelow(c) /\ b = (Y0(c) + L - 11) \div Scale(p)
          /\ X0(c) <= a * Scale(p) + Without(8, HasLeft(c))
          /\ a * Scale(p) < X0(c) + SizeX(c) - Without(8, HasRight(c))
  <2> DEFINE x == X0(c) - Without(8, HasLeft(c))
             y == Y0(c) + L - 11
             n == Extent(SizeX(c), HasRight(c), HasLeft(c))
  <2>1. y = Y0(c) + L - SAO_DELAY_PX - 1 /\ y \in Int
    BY <1>1, <1>2
  <2>2. <<p, a, b>> \in SavedRow(c)
        <=> HasBelow(c) /\ \E q \in Planes : <<p, a, b>> \in Area(q, x \div Scale(q), y \div Scale(q), n \div Scale(q), 1)
    BY <1>2, <2>1 DEF SavedRow
  <2>3. (\E q \in Planes : <<p, a, b>> \in Area(q, x \div Scale(q), y \div Scale(q), n \div Scale(q), 1))
        <=> /\ a \in (x \div Scale(p))..(x \div Scale(p) + n \div Scale(p) - 1)
            /\ b \in (y \div Scale(p))..(y \div Scale(p) + 1 - 1)
    <3> HIDE DEF x, y, n
    <3> QED BY DEF Area
  <2>4. b \in (y \div Scale(p))..(y \div Scale(p) + 1 - 1) <=> b = y \div Scale(p)
    <3>1. y \div Scale(p) \in Int
      BY <1>2, <2>1
    <3> HIDE DEF y
    <3> QED BY <3>1
  <2>5. a \in (x \div Scale(p))..(x \div Scale(p) + n \div Scale(p) - 1)
        <=> /\ X0(c) <= a * Scale(p) + Without(8, HasLeft(c))
            /\ a * Scale(p) < X0(c) + SizeX(c) - Without(8, HasRight(c))
    <3>1. HasLeft(c) \in BOOLEAN /\ HasRight(c) \in BOOLEAN
      BY DEF HasLeft, HasRight
    <3> QED BY <1>1, <1>2, <1>3, <3>1
  <2> QED BY <2>2, <2>3, <2>4, <2>5
<1>5. <<p, a, b>> \in SavedColumn(c)
      <=> /\ HasRight(c) /\ a = (X0(c) + L - 11) \div Scale(p)
          /\ Y0(c) <= b * Scale(p) + Without(8, HasAbove(c))
          /\ b * Scale(p) < Y0(c) + SizeY(c) - Without(8, HasBelow(c))
  <2> DEFINE x == X0(c) + L - 11
             y == Y0(c) - Without(8, HasAbove(c))
             n == Extent(SizeY(c), HasBelow(c), HasAbove(c))
  <2>1. x = X0(c) + L - SAO_DELAY_PX - 1 /\ x \in Int
    BY <1>1, <1>2
  <2>2. <<p, a, b>> \in SavedColumn(c)
        <=> HasRight(c) /\ \E q \in Planes : <<p, a, b>> \in Area(q, x \div Scale(q), y \div Scale(q), 1, n \div Scale(q))
    BY <1>2, <2>1 DEF SavedColumn
  <2>3. (\E q \in Planes : <<p, a, b>> \in Area(q, x \div Scale(q), y \div Scale(q), 1, n \div Scale(q)))
        <=> /\ a \in (x \div Scale(p))..(x \div Scale(p) + 1 - 1)
            /\ b \in (y \div Scale(p))..(y \div Scale(p) + n \div Scale(p) - 1)
    <3> HIDE DEF x, y, n
    <3> QED BY DEF Area
  <2>4. a \in (x \div Scale(p))..(x \div Scale(p) + 1 - 1) <=> a = x \div Scale(p)
    <3>1. x \div Scale(p) \in Int
      BY <1>2, <2>1
    <3> HIDE DEF x
    <3> QED BY <3>1
  <2>5. b \in (y \div Scale(p))..(y \div Scale(p) + n \div Scale(p) - 1)
        <=> /\ Y0(c) <= b * Scale(p) + Without(8, HasAbove(c))
            /\ b * Scale(p) < Y0(c) + SizeY(c) - Without(8, HasBelow(c))
    <3>1. HasAbove(c) \in BOOLEAN /\ HasBelow(c) \in BOOLEAN
      BY DEF HasAbove, HasBelow
    <3> QED BY <1>1, <1>2, <1>3, <3>1
  <2> QED BY <2>2, <2>3, <2>4, <2>5
<1> QED BY <1>4, <1>5

LEMMA SavedPixels ==
  ASSUME fr \in Frames, NEW c \in Lcus, NEW px \in SavedRow(c) \cup SavedColumn(c)
  PROVE  \E p \in Planes, a \in Int, b \in Int : px = <<p, a, b>>
<1>1. \A q, x, y, w, h : Area(q, x, y, w, h) \subseteq {q} \X Int \X Int
  BY DEF Area
<1>2. ASSUME px \in SavedRow(c)
      PROVE  \E p \in Planes : px \in {p} \X Int \X Int
  BY <1>1, <1>2 DEF SavedRow
<1>3. ASSUME px \in SavedColumn(c)
      PROVE  \E p \in Planes : px \in {p} \X Int \X Int
  BY <1>1, <1>3 DEF SavedColumn
<1> QED BY <1>2, <1>3

LEMMA DeblockedAlready ==
  ASSUME JobsInv, NEW c \in Lcus, step[c] \in {"save", "sao"}, NEW p \in Planes,
         NEW a \in Nat, NEW b \in Nat,
         X0(c) <= a * Scale(p) + 10, a * Scale(p) < fr.W, HasRight(c) => a * Scale(p) + 8 < X0(c) + L,
         Y0(c) <= b * Scale(p) + 10, b * Scale(p) < fr.H, HasBelow(c) => b * Scale(p) + 8 < Y0(c) + L
  PROVE  Deblocked(<<p, a, b>>)
<1> DEFINE px == <<p, a, b>>
           u  == a * Scale(p)
           v  == b * Scale(p)
<1>1. fr \in Frames /\ step[c] \in AfterVer /\ step[c] \in AfterHor /\ step[c] # "search" /\ step[c] # "done"
  BY DEF JobsInv, FilterType, AfterVer, AfterHor
<1>2. a \in 0..(Width(p) - 1) /\ b \in 0..(Height(p) - 1)
  BY <1>1, PixelIn
<1>3. /\ HasRight(c) => u < X0(c) + L /\ u + 3 < X0(c) + L
      /\ HasBelow(c) => v < Y0(c) + L /\ v + 3 < Y0(c) + L
  <2>1. u \in Nat /\ v \in Nat /\ X0(c) \in Nat /\ Y0(c) \in Nat /\ L \in Nat
    BY <1>1, LcuIs, PlaneIs DEF Scale
  <2> HIDE DEF u, v
  <2> QED BY <2>1 DEF u, v
<1>4. LcuOf(px) \in recon
  BY <1>1, <1>2, <1>3, WrittenAlready
<1>5. px \notin final
  BY <1>1, NotYetFinal
<1>6. fr.deblock => Ver(px) \subseteq filtered
  BY <1>1, <1>2, <1>3, VerFilteredAlready
<1>7. fr.deblock => Hor(px) \subseteq filtered
  BY <1>1, <1>2, <1>3, HorFilteredAlready
<1> QED BY <1>4, <1>5, <1>6, <1>7 DEF Deblocked

LEMMA SavedDeblocked ==
  ASSUME JobsInv, NEW c \in Lcus, step[c] = "save", NEW px \in SavedRow(c) \cup SavedColumn(c)
  PROVE  Deblocked(px)
<1>1. fr \in Frames
  BY DEF JobsInv, FilterType
<1>2. PICK p \in Planes, a \in Int, b \in Int : px = <<p, a, b>>
  BY <1>1, SavedPixels
<1> DEFINE k == Scale(p)
           u == a * k
           v == b * k
           x == X0(c)
           y == Y0(c)
<1>3. /\ x \in Nat /\ x % 16 = 0 /\ y \in Nat /\ y % 16 = 0 /\ SizeX(c) \in Nat /\ SizeY(c) \in Nat
      /\ L \in Nat /\ L >= 16 /\ L % 16 = 0 /\ fr.W \in Nat /\ fr.H \in Nat
      /\ x + SizeX(c) <= fr.W /\ y + SizeY(c) <= fr.H
      /\ HasRight(c) => SizeX(c) = L
      /\ HasBelow(c) => SizeY(c) = L
      /\ HasLeft(c) => x >= L
      /\ HasAbove(c) => y >= L
  <2>1. L \in Nat /\ L >= 16 /\ L % 16 = 0 /\ fr.W \in Nat /\ fr.H \in Nat
    BY <1>1, PlaneIs
  <2>2. x \in Nat /\ x % 16 = 0 /\ y \in Nat /\ y % 16 = 0 /\ SizeX(c) \in Nat /\ SizeY(c) \in Nat
    BY <1>1, LcuIs
  <2>3. /\ HasRight(c) => SizeX(c) = L /\ x + L < fr.W
        /\ ~HasRight(c) => SizeX(c) = fr.W - x
        /\ HasLeft(c) => x >= L
    BY <1>1, LcuIs
  <2>4. /\ HasBelow(c) => SizeY(c) = L /\ y + L < fr.H
        /\ ~HasBelow(c) => SizeY(c) = fr.H - y
        /\ HasAbove(c) => y >= L
    BY <1>1, LcuIs
  <2> HIDE DEF x, y
  <2>5. x + SizeX(c) <= fr.W /\ y + SizeY(c) <= fr.H
    BY <2>1, <2>2, <2>3, <2>4
  <2> QED BY <2>1, <2>2, <2>3, <2>4, <2>5
<1> HIDE DEF x, y
<1>4. k \in {1, 2}
  BY DEF Scale
<1> HIDE DEF k
<1>5. /\ a \in Nat /\ b \in Nat /\ x <= u + 10 /\ u < fr.W /\ (HasRight(c) => u + 8 < x + L)
      /\ y <= v + 10 /\ v < fr.H /\ (HasBelow(c) => v + 8 < y + L)
  <2>1. CASE px \in SavedRow(c)
    <3>1. /\ HasBelow(c) /\ b = (y + L - 11) \div k
          /\ x <= u + Without(8, HasLeft(c)) /\ u < x + SizeX(c) - Without(8, HasRight(c))
      BY <1>1, <1>2, <2>1, SavedIs DEF x, y, k
    <3>2. v \in {y + L - 11, y + L - 12} /\ b \in Nat
      <4>1. CASE k = 1
        BY <1>3, <3>1, <4>1
      <4>2. CASE k = 2
        BY <1>3, <3>1, <4>2
      <4> QED BY <1>4, <4>1, <4>2
    <3>3. u \in Int /\ (u >= 0 => a \in Nat)
      <4>1. CASE k = 1
        BY <4>1
      <4>2. CASE k = 2
        BY <4>2
      <4> QED BY <1>4, <4>1, <4>2
    <3> HIDE DEF u, v
    <3>4. u >= 0 /\ x <= u + 10 /\ u < fr.W /\ (HasRight(c) => u + 8 < x + L)
      BY <1>3, <3>1, <3>3 DEF Without
    <3>5. y <= v + 10 /\ v < fr.H /\ v + 8 < y + L
      BY <1>3, <3>1, <3>2
    <3> QED BY <3>2, <3>3, <3>4, <3>5
  <2>2. CASE px \in SavedColumn(c)
    <3>1. /\ HasRight(c) /\ a = (x + L - 11) \div k
          /\ y <= v + Without(8, HasAbove(c)) /\ v < y + SizeY(c) - Without(8, HasBelow(c))
      BY <1>1, <1>2, <2>2, SavedIs DEF x, y, k
    <3>2. u \in {x + L - 11, x + L - 12} /\ a \in Nat
      <4>1. CASE k = 1
        BY <1>3, <3>1, <4>1
      <4>2. CASE k = 2
        BY <1>3, <3>1, <4>2
      <4> QED BY <1>4, <4>1, <4>2
    <3>3. v \in Int /\ (v >= 0 => b \in Nat)
      <4>1. CASE k = 1
        BY <4>1
      <4>2. CASE k = 2
        BY <4>2
      <4> QED BY <1>4, <4>1, <4>2
    <3> HIDE DEF u, v
    <3>4. v >= 0 /\ y <= v + 10 /\ v < fr.H /\ (HasBelow(c) => v + 8 < y + L)
      BY <1>3, <3>1, <3>3 DEF Without
    <3>5. x <= u + 10 /\ u < fr.W /\ u + 8 < x + L
      BY <1>3, <3>1, <3>2
    <3> QED BY <3>2, <3>3, <3>4, <3>5
  <2> QED BY <2>1, <2>2
<1> QED BY <1>2, <1>5, DeblockedAlready DEF u, v, k, x, y

-----------------------------------------------------------------------------
(* What the buffers hold: the last row and column of each LCU that has been*)
(* searched, and the rows and columns of those that have been deblocked.   *)
SearchSaved == \A c \in Lcus : step[c] # "search" => LastRowAndColumn(c) \subseteq search
SaoSaved ==
  fr.sao => \A c \in Lcus : step[c] \in {"sao", "done"} =>
    {"hor"} \X SavedRow(c) \cup {"ver"} \X SavedColumn(c) \subseteq beforeSao

BuffersInv == JobsInv /\ SearchSaved /\ SaoSaved

LEMMA SameBuffers ==
  ASSUME fr' = fr, NEW c
  PROVE  /\ LastRowAndColumn(c)' = LastRowAndColumn(c)
         /\ SavedRow(c)' = SavedRow(c) /\ SavedColumn(c)' = SavedColumn(c)
         /\ \A px : LcuOf(px)' = LcuOf(px) /\ Ver(px)' = Ver(px) /\ Hor(px)' = Hor(px)
<1>1. L' = L /\ Cols' = Cols /\ Rows' = Rows
  BY DEF L, Cols, Rows
<1>2. X0(c)' = X0(c) /\ Y0(c)' = Y0(c) /\ SizeX(c)' = SizeX(c) /\ SizeY(c)' = SizeY(c)
      /\ HasLeft(c)' = HasLeft(c) /\ HasRight(c)' = HasRight(c)
      /\ HasAbove(c)' = HasAbove(c) /\ HasBelow(c)' = HasBelow(c)
  BY <1>1 DEF X0, Y0, SizeX, SizeY, HasLeft, HasRight, HasAbove, HasBelow
<1>3. LastRowAndColumn(c)' = LastRowAndColumn(c)
  BY <1>2 DEF LastRowAndColumn
<1>4. SavedRow(c)' = SavedRow(c) /\ SavedColumn(c)' = SavedColumn(c)
  BY <1>1, <1>2 DEF SavedRow, SavedColumn
<1>5. \A px : LcuOf(px)' = LcuOf(px)
  BY <1>1 DEF LcuOf
<1>6. \A p : Width(p)' = Width(p) /\ Height(p)' = Height(p)
  BY DEF Width, Height
<1>7. \A px : Ver(px)' = Ver(px) /\ Hor(px)' = Hor(px)
  BY <1>6 DEF Ver, Hor
<1> QED BY <1>3, <1>4, <1>5, <1>7

LEMMA BuffersInit == FilterInit => BuffersInv
<1> SUFFICES ASSUME FilterInit PROVE BuffersInv
  OBVIOUS
<1>1. JobsInv
  BY FilterInitInv
<1>2. \A c \in Lcus : step[c] = "search"
  BY DEF FilterInit
<1> QED BY <1>1, <1>2 DEF BuffersInv, SearchSaved, SaoSaved

LEMMA BuffersStep ==
  ASSUME BuffersInv, NEW c \in Lcus,
         \/ SearchLcu(c) \/ DeblockVer(c) \/ DeblockRightmost(c) \/ DeblockHor(c)
         \/ SaveBeforeSao(c) \/ SaoReconstruct(c)
  PROVE  BuffersInv'
<1>1. JobsInv /\ JobsInv'
  BY JobStep DEF BuffersInv
<1>2. fr' = fr /\ search \subseteq search' /\ beforeSao \subseteq beforeSao'
  BY DEF SearchLcu, DeblockVer, DeblockRightmost, DeblockHor, SaveBeforeSao, SaoReconstruct
<1>3. /\ Lcus' = Lcus /\ step \in [Lcus -> {"search", "ver", "right", "hor", "save", "sao", "done"}]
      /\ fr.deblock \in BOOLEAN /\ fr.sao \in BOOLEAN
  BY <1>1, <1>2, SameFrame, FrameIs DEF JobsInv, FilterType
<1>4. \A next : Goes(c, next) => step'[c] = next /\ \A d \in Lcus \ {c} : step'[d] = step[d]
  BY <1>3 DEF Goes
<1>5. SearchSaved'
  <2> SUFFICES ASSUME NEW d \in Lcus, step'[d] # "search"
               PROVE  LastRowAndColumn(d) \subseteq search'
    BY <1>2, <1>3, SameBuffers DEF SearchSaved
  <2>1. CASE step[d] # "search"
    BY <1>2, <2>1 DEF BuffersInv, SearchSaved
  <2>2. CASE step[d] = "search"
    <3>1. d = c /\ SearchLcu(c)
      <4>1. d = c
        BY <1>4, <2>2 DEF SearchLcu, DeblockVer, DeblockRightmost, DeblockHor, SaveBeforeSao, SaoReconstruct
      <4> QED BY <2>2, <4>1 DEF DeblockVer, DeblockRightmost, DeblockHor, SaveBeforeSao, SaoReconstruct
    <3>2. /\ recon' = recon \cup {c} /\ filtered' = filtered /\ final' = final
          /\ search' = search \cup {px \in LastRowAndColumn(c) : Unfiltered(px)'}
      BY <3>1 DEF SearchLcu
    <3>3. ASSUME NEW px \in LastRowAndColumn(c)
          PROVE  Unfiltered(px)'
      <4>1. LcuOf(px) = c /\ (Ver(px) \cup Hor(px)) \cap filtered = {} /\ px \notin final
        BY <1>1, <2>2, <3>1, LastUnfiltered
      <4>2. LcuOf(px)' = LcuOf(px) /\ Ver(px)' = Ver(px) /\ Hor(px)' = Hor(px)
        BY <1>2, SameBuffers
      <4> QED BY <3>2, <4>1, <4>2 DEF Unfiltered
    <3> QED BY <3>1, <3>2, <3>3
  <2> QED BY <2>1, <2>2
<1>6. SaoSaved'
  <2> SUFFICES ASSUME fr.sao, NEW d \in Lcus, step'[d] \in {"sao", "done"}
               PROVE  {"hor"} \X SavedRow(d) \cup {"ver"} \X SavedColumn(d) \subseteq beforeSao'
    BY <1>2, <1>3, SameBuffers DEF SaoSaved
  <2>1. CASE step[d] \in {"sao", "done"}
    BY <1>2, <2>1 DEF BuffersInv, SaoSaved
  <2>2. CASE step[d] \notin {"sao", "done"}
    <3>1. d = c
      BY <1>4, <2>2 DEF SearchLcu, DeblockVer, DeblockRightmost, DeblockHor, SaveBeforeSao, SaoReconstruct
    <3>2. SaveBeforeSao(c)
      <4>1. AfterSearch \notin {"sao", "done"} /\ AfterDeblock \notin {"sao", "done"}
        BY <1>3 DEF AfterSearch, AfterDeblock
      <4> QED BY <1>4, <2>2, <3>1, <4>1
              DEF SearchLcu, DeblockVer, DeblockRightmost, DeblockHor, SaoReconstruct
    <3>3. \A px \in SavedRow(c) \cup SavedColumn(c) : Deblocked(px)
      BY <1>1, <3>2, SavedDeblocked DEF SaveBeforeSao
    <3> QED BY <3>1, <3>2, <3>3 DEF SaveBeforeSao
  <2> QED BY <2>1, <2>2
<1> QED BY <1>1, <1>5, <1>6 DEF BuffersInv

LEMMA BuffersNext == BuffersInv /\ [FilterNext]_filterVars => BuffersInv'
<1> SUFFICES ASSUME BuffersInv, [FilterNext]_filterVars
             PROVE  BuffersInv'
  OBVIOUS
<1>1. CASE \E c \in Lcus : \/ SearchLcu(c) \/ DeblockVer(c) \/ DeblockRightmost(c) \/ DeblockHor(c)
                           \/ SaveBeforeSao(c) \/ SaoReconstruct(c)
  BY <1>1, BuffersStep
<1>2. CASE UNCHANGED filterVars
  <2>1. fr' = fr /\ step' = step /\ search' = search /\ beforeSao' = beforeSao
    BY <1>2 DEF filterVars
  <2>2. JobsInv'
    BY FilterNextInv DEF BuffersInv
  <2>3. SearchSaved' /\ SaoSaved'
    BY <2>1, SameFrame, SameBuffers DEF BuffersInv, SearchSaved, SaoSaved
  <2> QED BY <2>2, <2>3 DEF BuffersInv
<1> QED BY <1>1, <1>2 DEF FilterNext, FrameDone

-----------------------------------------------------------------------------
(* Intra prediction.                                                       *)
LEMMA LcuAt ==
  ASSUME fr \in Frames, NEW d \in Lcus, NEW n \in Nat
  PROVE  /\ n < fr.W /\ d[1] = n \div L => X0(d) <= n /\ n < X0(d) + SizeX(d)
         /\ n < fr.H /\ d[2] = n \div L => Y0(d) <= n /\ n < Y0(d) + SizeY(d)
<1>1. Sizes(fr.W, L) /\ Sizes(fr.H, L) /\ fr.W \in Nat /\ fr.H \in Nat
  BY FrameIs, PlaneIs DEF Planes
<1>2. n < fr.W => (n \div L) * L <= n /\ n < (n \div L) * L + Lower(L, fr.W - (n \div L) * L)
  BY <1>1, PartOf
<1>3. n < fr.H => (n \div L) * L <= n /\ n < (n \div L) * L + Lower(L, fr.H - (n \div L) * L)
  BY <1>1, PartOf
<1>4. d[1] = n \div L => X0(d) = (n \div L) * L /\ SizeX(d) = Lower(L, fr.W - (n \div L) * L)
  BY DEF X0, SizeX
<1>5. d[2] = n \div L => Y0(d) = (n \div L) * L /\ SizeY(d) = Lower(L, fr.H - (n \div L) * L)
  BY DEF Y0, SizeY
<1> QED BY <1>2, <1>3, <1>4, <1>5

LEMMA LastHas ==
  ASSUME fr \in Frames, NEW d \in Lcus, NEW p \in Planes, NEW a \in Nat, NEW b \in Nat
  PROVE  /\ /\ X0(d) <= a * Scale(p) /\ a * Scale(p) < X0(d) + SizeX(d)
            /\ b = (Y0(d) + SizeY(d) - 1) \div Scale(p)
            => <<p, a, b>> \in LastRowAndColumn(d)
         /\ /\ Y0(d) <= b * Scale(p) /\ b * Scale(p) < Y0(d) + SizeY(d)
            /\ a = (X0(d) + SizeX(d) - 1) \div Scale(p)
            => <<p, a, b>> \in LastRowAndColumn(d)
<1> DEFINE k == Scale(p)
<1>1. /\ X0(d) \in Nat /\ X0(d) % 16 = 0 /\ SizeX(d) \in Nat /\ SizeX(d) % 8 = 0
      /\ Y0(d) \in Nat /\ Y0(d) % 16 = 0 /\ SizeY(d) \in Nat /\ SizeY(d) % 8 = 0
  BY LcuIs
<1>2. k \in {1, 2}
  BY DEF Scale
<1> HIDE DEF k
<1>3. ASSUME NEW at \in Nat, at % 16 = 0, NEW size \in Nat, size % 8 = 0, NEW n \in Nat, at <= n * k, n * k < at + size
      PROVE  n \in (at \div k)..(at \div k + size \div k - 1)
  <2>1. CASE k = 1
    BY <1>3, <2>1
  <2>2. CASE k = 2
    BY <1>3, <2>2
  <2> QED BY <1>2, <2>1, <2>2
<1>4. ASSUME X0(d) <= a * k, a * k < X0(d) + SizeX(d), b = (Y0(d) + SizeY(d) - 1) \div k
      PROVE  <<p, a, b>> \in LastRowAndColumn(d)
  <2>1. <<p, a, b>> \in Area(p, X0(d) \div k, (Y0(d) + SizeY(d) - 1) \div k, SizeX(d) \div k, 1)
    <3>1. a \in (X0(d) \div k)..(X0(d) \div k + SizeX(d) \div k - 1)
      BY <1>1, <1>3, <1>4
    <3>2. b \in b..(b + 1 - 1)
      OBVIOUS
    <3> QED BY <1>4, <3>1, <3>2 DEF Area
  <2> QED BY <2>1 DEF LastRowAndColumn, k
<1>5. ASSUME Y0(d) <= b * k, b * k < Y0(d) + SizeY(d), a = (X0(d) + SizeX(d) - 1) \div k
      PROVE  <<p, a, b>> \in LastRowAndColumn(d)
  <2>1. <<p, a, b>> \in Area(p, (X0(d) + SizeX(d) - 1) \div k, Y0(d) \div k, 1, SizeY(d) \div k)
    <3>1. b \in (Y0(d) \div k)..(Y0(d) \div k + SizeY(d) \div k - 1)
      BY <1>1, <1>3, <1>5
    <3>2. a \in a..(a + 1 - 1)
      OBVIOUS
    <3> QED BY <1>5, <3>1, <3>2 DEF Area
  <2> QED BY <2>1 DEF LastRowAndColumn, k
<1> QED BY <1>4, <1>5 DEF k

LEMMA SearchReadsSaved ==
  ASSUME BuffersInv, NEW c \in Lcus, MaySearch(c), NEW px \in SearchReads(c)
  PROVE  px \in search
<1>1. fr \in Frames /\ JobsInv
  BY DEF BuffersInv, JobsInv, FilterType
<1>2. /\ c[1] \in 0..(Cols - 1) /\ c[2] \in 0..(Rows - 1) /\ c[1] \in Nat /\ c[2] \in Nat
      /\ Cols \in Nat /\ Rows \in Nat
  BY <1>1, LcuType
<1> DEFINE x == X0(c)
           y == Y0(c)
<1>3. /\ x \in Nat /\ x % 16 = 0 /\ y \in Nat /\ y % 16 = 0
      /\ x < fr.W /\ y < fr.H /\ SizeY(c) \in Nat /\ SizeY(c) % 8 = 0 /\ y + SizeY(c) <= fr.H
      /\ SizeY(c) <= L /\ L \in Nat /\ L >= 16 /\ L % 16 = 0 /\ fr.W \in Nat /\ fr.W % 8 = 0 /\ fr.H \in Nat
      /\ HasLeft(c) => x >= L
      /\ HasAbove(c) => y >= L
  <2>1. /\ x \in Nat /\ x % 16 = 0 /\ y \in Nat /\ y % 16 = 0
        /\ x < fr.W /\ y < fr.H /\ SizeY(c) \in Nat /\ SizeY(c) % 8 = 0
        /\ HasLeft(c) => x >= L
        /\ HasAbove(c) => y >= L
    BY <1>1, LcuIs
  <2>2. L \in Nat /\ L >= 16 /\ L % 16 = 0 /\ fr.W \in Nat /\ fr.W % 8 = 0 /\ fr.H \in Nat
    BY <1>1, PlaneIs DEF Planes
  <2>3. SizeY(c) <= L /\ y + SizeY(c) <= fr.H
    BY <2>1, <2>2 DEF SizeY, Lower
  <2> QED BY <2>1, <2>2, <2>3
<1>4. ASSUME NEW d \in Lcus, d[2] <= c[2], d[1] + d[2] <= c[1] + c[2], d # c, px \in LastRowAndColumn(d)
      PROVE  px \in search
  <2>1. d \in Behind(c) \ {c}
    BY <1>4 DEF Behind
  <2>2. step[d] = "done"
    BY <1>1, <2>1, MaySearchBehind
  <2> QED BY <1>4, <2>2 DEF BuffersInv, SearchSaved
<1>5. PICK p \in Planes :
        \/ /\ HasAbove(c)
           /\ px \in Area(p, x \div Scale(p) - Without(1, HasLeft(c)), y \div Scale(p) - 1,
                          Lower(L + L \div 2, fr.W - x) \div Scale(p) + Without(1, HasLeft(c)), 1)
        \/ /\ HasLeft(c)
           /\ px \in Area(p, x \div Scale(p) - 1, y \div Scale(p) - Without(1, HasAbove(c)),
                          1, SizeY(c) \div Scale(p) + Without(1, HasAbove(c)))
  BY DEF SearchReads
<1> HIDE DEF x, y
<1> DEFINE k == Scale(p)
<1>6. k \in {1, 2}
  BY DEF Scale
<1> HIDE DEF k
<1>7. CASE /\ HasAbove(c)
           /\ px \in Area(p, x \div k - Without(1, HasLeft(c)), y \div k - 1,
                          Lower(L + L \div 2, fr.W - x) \div k + Without(1, HasLeft(c)), 1)
  <2> DEFINE n == Lower(L + L \div 2, fr.W - x)
             m == Without(1, HasLeft(c))
  <2>1. m \in {0, 1} /\ (m = 1 => x >= L)
    BY <1>3 DEF Without
  <2>2. n \in Nat /\ n % 8 = 0 /\ x + n <= fr.W /\ n < L + L
    <3>1. L + L \div 2 \in Nat /\ (L + L \div 2) % 8 = 0 /\ L + L \div 2 < L + L
      BY <1>3
    <3> QED BY <1>3, <3>1 DEF Lower
  <2> HIDE DEF n, m
  <2>3. PICK a \in (x \div k - m)..(x \div k - m + (n \div k + m) - 1), b \in (y \div k - 1)..(y \div k - 1 + 1 - 1) :
          px = <<p, a, b>>
    BY <1>7 DEF Area, n, m
  <2> DEFINE u == a * k
  <2>4. a \in Nat /\ u \in Nat /\ u < fr.W /\ u < x + L + L /\ b \in Nat /\ b = (y - 1) \div k
    <3>1. CASE k = 1
      BY <1>3, <1>7, <2>1, <2>2, <2>3, <3>1
    <3>2. CASE k = 2
      BY <1>3, <1>7, <2>1, <2>2, <2>3, <3>2
    <3> QED BY <1>6, <3>1, <3>2
  <2> HIDE DEF u
  <2> DEFINE i == u \div L
             d == <<i, c[2] - 1>>
  <2>5. i \in 0..(Cols - 1) /\ i * L <= u
    <3>1. Sizes(fr.W, L) /\ Cols = Parts(fr.W, L) /\ u \in 0..(fr.W - 1)
      BY <1>1, <1>3, <2>4, FrameIs
    <3> QED BY <3>1, PartOf
  <2>6. i <= c[1] + 1
    <3> HIDE DEF i
    <3>1. c[1] + 1 < i => (c[1] + 1) * L + L <= i * L
      BY <1>2, <1>3, <2>5, Products
    <3>2. (c[1] + 1) * L = x + L
      BY <1>2, <1>3, Products DEF x, X0
    <3>3. i * L \in Int
      BY <1>2, <1>3, <2>5
    <3> QED BY <1>2, <1>3, <2>4, <2>5, <3>1, <3>2, <3>3
  <2> HIDE DEF i
  <2>7. c[2] > 0
    BY <1>7 DEF HasAbove
  <2>8. d \in Lcus /\ d[1] = i /\ d[2] = c[2] - 1 /\ d # c
    BY <1>2, <2>5, <2>7 DEF Lcus
  <2>9. Y0(d) + SizeY(d) = y
    <3>1. d[2] < c[2]
      BY <1>2, <2>8
    <3>2. HasBelow(d)
      BY <1>1, <2>8, <3>1, Before
    <3>3. SizeY(d) = L
      BY <1>1, <2>8, <3>2, LcuIs
    <3>4. Y0(d) = y - L
      BY <1>2, <1>3, Products DEF Y0, y
    <3> QED BY <1>3, <3>3, <3>4
  <2>10. X0(d) <= u /\ u < X0(d) + SizeX(d)
    BY <1>1, <2>4, <2>8, LcuAt DEF i
  <2> HIDE DEF d
  <2>11. px \in LastRowAndColumn(d)
    <3>1. b = (Y0(d) + SizeY(d) - 1) \div Scale(p)
      <4>1. Y0(d) \in Nat /\ SizeY(d) \in Nat
        BY <1>1, <2>8, LcuIs
      <4>2. b = (Y0(d) + SizeY(d) - 1) \div k
        BY <1>3, <2>4, <2>9, <4>1
      <4> QED BY <4>2 DEF k
    <3>2. X0(d) <= a * Scale(p) /\ a * Scale(p) < X0(d) + SizeX(d)
      BY <2>10 DEF u, k
    <3>3. <<p, a, b>> \in LastRowAndColumn(d)
      BY <1>1, <2>4, <2>8, <3>1, <3>2, LastHas
    <3> QED BY <2>3, <3>3
  <2>12. d[2] <= c[2] /\ d[1] + d[2] <= c[1] + c[2]
    BY <1>2, <2>5, <2>6, <2>8
  <2> QED BY <1>4, <2>8, <2>11, <2>12
<1>8. CASE /\ HasLeft(c)
           /\ px \in Area(p, x \div k - 1, y \div k - Without(1, HasAbove(c)),
                          1, SizeY(c) \div k + Without(1, HasAbove(c)))
  <2> DEFINE n == SizeY(c)
             m == Without(1, HasAbove(c))
  <2>1. m \in {0, 1} /\ (m = 1 => y >= L)
    BY <1>3 DEF Without
  <2>2. n \in Nat /\ n % 8 = 0 /\ y + n <= fr.H /\ n <= L
    BY <1>3
  <2> HIDE DEF n, m
  <2>3. PICK a \in (x \div k - 1)..(x \div k - 1 + 1 - 1), b \in (y \div k - m)..(y \div k - m + (n \div k + m) - 1) :
          px = <<p, a, b>>
    BY <1>8 DEF Area, n, m
  <2> DEFINE v == b * k
  <2>4. b \in Nat /\ v \in Nat /\ v < fr.H /\ v < y + L /\ a \in Nat /\ a = (x - 1) \div k
    <3>1. CASE k = 1
      BY <1>3, <1>8, <2>1, <2>2, <2>3, <3>1
    <3>2. CASE k = 2
      BY <1>3, <1>8, <2>1, <2>2, <2>3, <3>2
    <3> QED BY <1>6, <3>1, <3>2
  <2> HIDE DEF v
  <2> DEFINE j == v \div L
             d == <<c[1] - 1, j>>
  <2>5. j \in 0..(Rows - 1)
    <3>1. Sizes(fr.H, L) /\ Rows = Parts(fr.H, L) /\ v \in 0..(fr.H - 1)
      BY <1>1, <1>3, <2>4, FrameIs
    <3> QED BY <3>1, PartOf
  <2>6. j <= c[2]
    BY <1>1, <2>4, NotBeyond DEF y
  <2> HIDE DEF j
  <2>7. c[1] > 0
    BY <1>8 DEF HasLeft
  <2>8. d \in Lcus /\ d[1] = c[1] - 1 /\ d[2] = j /\ d # c
    BY <1>2, <2>5, <2>7 DEF Lcus
  <2>9. X0(d) + SizeX(d) = x
    <3>1. d[1] < c[1]
      BY <1>2, <2>8
    <3>2. HasRight(d)
      BY <1>1, <2>8, <3>1, Before
    <3>3. SizeX(d) = L
      BY <1>1, <2>8, <3>2, LcuIs
    <3>4. X0(d) = x - L
      BY <1>2, <1>3, Products DEF X0, x
    <3> QED BY <1>3, <3>3, <3>4
  <2>10. Y0(d) <= v /\ v < Y0(d) + SizeY(d)
    BY <1>1, <2>4, <2>8, LcuAt DEF j
  <2> HIDE DEF d
  <2>11. px \in LastRowAndColumn(d)
    <3>1. a = (X0(d) + SizeX(d) - 1) \div Scale(p)
      <4>1. X0(d) \in Nat /\ SizeX(d) \in Nat
        BY <1>1, <2>8, LcuIs
      <4>2. a = (X0(d) + SizeX(d) - 1) \div k
        BY <1>3, <2>4, <2>9, <4>1
      <4> QED BY <4>2 DEF k
    <3>2. Y0(d) <= b * Scale(p) /\ b * Scale(p) < Y0(d) + SizeY(d)
      BY <2>10 DEF v, k
    <3>3. <<p, a, b>> \in LastRowAndColumn(d)
      BY <1>1, <2>4, <2>8, <3>1, <3>2, LastHas
    <3> QED BY <2>3, <3>3
  <2>12. d[2] <= c[2] /\ d[1] + d[2] <= c[1] + c[2]
    BY <1>2, <2>5, <2>6, <2>8
  <2> QED BY <1>4, <2>8, <2>11, <2>12
<1> QED BY <1>5, <1>7, <1>8 DEF k

-----------------------------------------------------------------------------
(* SAO.  What it reads of an LCU on the left or above is in the buffers.   *)
LEMMA LeftIs ==
  ASSUME fr \in Frames, NEW c \in Lcus, HasLeft(c), NEW j \in Nat, j <= c[2], NEW d, d = <<c[1] - 1, j>>
  PROVE  d \in Lcus /\ d # c /\ d[1] <= c[1] /\ d[2] <= c[2] /\ HasRight(d) /\ X0(d) = X0(c) - L
<1>1. /\ c = <<c[1], c[2]>> /\ c[1] \in 0..(Cols - 1) /\ c[2] \in 0..(Rows - 1)
      /\ c[1] \in Nat /\ c[2] \in Nat /\ Cols \in Nat /\ Rows \in Nat /\ L \in Nat /\ L > 0
  BY LcuType, PlaneIs DEF Planes
<1>2. (c[1] - 1) * L = c[1] * L - L
  BY <1>1, Products
<1>3. d \in Lcus
  BY <1>1 DEF Lcus, HasLeft
<1> QED BY <1>1, <1>2, <1>3 DEF HasRight, X0

LEMMA AboveIs ==
  ASSUME fr \in Frames, NEW c \in Lcus, HasAbove(c), NEW i \in Nat, i <= c[1], NEW d, d = <<i, c[2] - 1>>
  PROVE  d \in Lcus /\ d # c /\ d[1] <= c[1] /\ d[2] <= c[2] /\ HasBelow(d) /\ Y0(d) = Y0(c) - L
<1>1. /\ c = <<c[1], c[2]>> /\ c[1] \in 0..(Cols - 1) /\ c[2] \in 0..(Rows - 1)
      /\ c[1] \in Nat /\ c[2] \in Nat /\ Cols \in Nat /\ Rows \in Nat /\ L \in Nat /\ L > 0
  BY LcuType, PlaneIs DEF Planes
<1>2. (c[2] - 1) * L = c[2] * L - L
  BY <1>1, Products
<1>3. d \in Lcus
  BY <1>1 DEF Lcus, HasAbove
<1> QED BY <1>1, <1>2, <1>3 DEF HasBelow, Y0

LEMMA ColumnSaved ==
  ASSUME BuffersInv, NEW c \in Lcus, step[c] = "sao", HasLeft(c), NEW p \in Planes, NEW a \in Nat, NEW b \in Nat,
         a = (X0(c) - 11) \div Scale(p),
         Y0(c) <= b * Scale(p) + Without(12, HasAbove(c)), b * Scale(p) < fr.H,
         HasBelow(c) => b * Scale(p) + 8 < Y0(c) + L
  PROVE  <<"ver", <<p, a, b>>>> \in beforeSao
<1>1. fr \in Frames /\ JobsInv /\ fr.sao
  BY DEF BuffersInv, JobsInv, FilterType
<1> DEFINE v == b * Scale(p)
<1>2. /\ v \in Nat /\ X0(c) \in Nat /\ Y0(c) \in Nat /\ L \in Nat /\ L >= 16 /\ fr.H \in Nat
      /\ SizeY(c) \in Nat /\ (HasBelow(c) => SizeY(c) = L)
      /\ ~HasBelow(c) => SizeY(c) = fr.H - Y0(c)
  <2>1. L \in Nat /\ L >= 16 /\ fr.H \in Nat
    BY <1>1, PlaneIs
  <2>2. v \in Nat
    BY DEF Scale
  <2> QED BY <1>1, <2>1, <2>2, LcuIs
<1> HIDE DEF v
<1>3. c[1] \in Nat /\ c[2] \in Nat
  BY <1>1, LcuType
<1>4. ASSUME NEW d \in Lcus, d # c, d[1] <= c[1], d[2] <= c[2], HasRight(d), X0(d) = X0(c) - L,
             Y0(d) <= v + Without(8, HasAbove(d)), v < Y0(d) + SizeY(d) - Without(8, HasBelow(d))
      PROVE  <<"ver", <<p, a, b>>>> \in beforeSao
  <2>1. step[d] = "done"
    BY <1>1, <1>4, LeftAndAboveDone
  <2>2. a = (X0(d) + L - 11) \div Scale(p)
    BY <1>2, <1>4
  <2>3. <<p, a, b>> \in SavedColumn(d)
    BY <1>1, <1>4, <2>2, SavedIs DEF v
  <2> QED BY <1>1, <2>1, <2>3 DEF BuffersInv, SaoSaved
<1>5. CASE Y0(c) <= v + Without(8, HasAbove(c))
  <2> DEFINE d == <<c[1] - 1, c[2]>>
  <2>1. d \in Lcus /\ d # c /\ d[1] <= c[1] /\ d[2] <= c[2] /\ HasRight(d) /\ X0(d) = X0(c) - L
    BY <1>1, <1>3, LeftIs
  <2>2. Y0(d) = Y0(c) /\ SizeY(d) = SizeY(c) /\ HasAbove(d) = HasAbove(c) /\ HasBelow(d) = HasBelow(c)
    BY DEF Y0, SizeY, HasAbove, HasBelow
  <2> HIDE DEF d
  <2>3. Y0(d) <= v + Without(8, HasAbove(d)) /\ v < Y0(d) + SizeY(d) - Without(8, HasBelow(d))
    BY <1>2, <1>5, <2>2 DEF Without, v
  <2> QED BY <1>4, <2>1, <2>3
<1>6. CASE ~(Y0(c) <= v + Without(8, HasAbove(c)))
  <2> DEFINE d == <<c[1] - 1, c[2] - 1>>
  <2>1. HasAbove(c) /\ v < Y0(c) - 8 /\ Y0(c) <= v + 12
    <3>1. Y0(c) <= v + Without(12, HasAbove(c))
      BY DEF v
    <3> QED BY <1>2, <1>6, <3>1 DEF Without
  <2>2. c[1] > 0 /\ c[2] > 0
    BY <2>1 DEF HasAbove, HasLeft
  <2>3. /\ d \in Lcus /\ d # c /\ d[1] <= c[1] /\ d[2] <= c[2] /\ HasRight(d) /\ X0(d) = X0(c) - L
        /\ HasBelow(d) /\ Y0(d) = Y0(c) - L
    <3>1. c[1] - 1 \in Nat /\ c[2] - 1 \in Nat /\ c[1] - 1 <= c[1] /\ c[2] - 1 <= c[2] /\ HasLeft(c) /\ HasAbove(c)
      BY <1>3, <2>2 DEF HasLeft, HasAbove
    <3> QED BY <1>1, <3>1, LeftIs, AboveIs
  <2> HIDE DEF d
  <2>4. SizeY(d) = L
    BY <1>1, <2>3, LcuIs
  <2>5. Y0(d) <= v + Without(8, HasAbove(d)) /\ v < Y0(d) + SizeY(d) - Without(8, HasBelow(d))
    BY <1>2, <2>1, <2>3, <2>4 DEF Without
  <2> QED BY <1>4, <2>3, <2>5
<1> QED BY <1>5, <1>6

LEMMA RowSaved ==
  ASSUME BuffersInv, NEW c \in Lcus, step[c] = "sao", HasAbove(c), NEW p \in Planes, NEW a \in Nat, NEW b \in Nat,
         b = (Y0(c) - 11) \div Scale(p),
         X0(c) <= a * Scale(p) + Without(12, HasLeft(c)), a * Scale(p) < fr.W,
         HasRight(c) => a * Scale(p) + 8 < X0(c) + L
  PROVE  <<"hor", <<p, a, b>>>> \in beforeSao
<1>1. fr \in Frames /\ JobsInv /\ fr.sao
  BY DEF BuffersInv, JobsInv, FilterType
<1> DEFINE u == a * Scale(p)
<1>2. /\ u \in Nat /\ X0(c) \in Nat /\ Y0(c) \in Nat /\ L \in Nat /\ L >= 16 /\ fr.W \in Nat
      /\ SizeX(c) \in Nat /\ (HasRight(c) => SizeX(c) = L)
      /\ ~HasRight(c) => SizeX(c) = fr.W - X0(c)
  <2>1. L \in Nat /\ L >= 16 /\ fr.W \in Nat
    BY <1>1, PlaneIs
  <2>2. u \in Nat
    BY DEF Scale
  <2> QED BY <1>1, <2>1, <2>2, LcuIs
<1> HIDE DEF u
<1>3. c[1] \in Nat /\ c[2] \in Nat
  BY <1>1, LcuType
<1>4. ASSUME NEW d \in Lcus, d # c, d[1] <= c[1], d[2] <= c[2], HasBelow(d), Y0(d) = Y0(c) - L,
             X0(d) <= u + Without(8, HasLeft(d)), u < X0(d) + SizeX(d) - Without(8, HasRight(d))
      PROVE  <<"hor", <<p, a, b>>>> \in beforeSao
  <2>1. step[d] = "done"
    BY <1>1, <1>4, LeftAndAboveDone
  <2>2. b = (Y0(d) + L - 11) \div Scale(p)
    BY <1>2, <1>4
  <2>3. <<p, a, b>> \in SavedRow(d)
    BY <1>1, <1>4, <2>2, SavedIs DEF u
  <2> QED BY <1>1, <2>1, <2>3 DEF BuffersInv, SaoSaved
<1>5. CASE X0(c) <= u + Without(8, HasLeft(c))
  <2> DEFINE d == <<c[1], c[2] - 1>>
  <2>1. d \in Lcus /\ d # c /\ d[1] <= c[1] /\ d[2] <= c[2] /\ HasBelow(d) /\ Y0(d) = Y0(c) - L
    BY <1>1, <1>3, AboveIs
  <2>2. X0(d) = X0(c) /\ SizeX(d) = SizeX(c) /\ HasLeft(d) = HasLeft(c) /\ HasRight(d) = HasRight(c)
    BY DEF X0, SizeX, HasLeft, HasRight
  <2> HIDE DEF d
  <2>3. X0(d) <= u + Without(8, HasLeft(d)) /\ u < X0(d) + SizeX(d) - Without(8, HasRight(d))
    BY <1>2, <1>5, <2>2 DEF Without, u
  <2> QED BY <1>4, <2>1, <2>3
<1>6. CASE ~(X0(c) <= u + Without(8, HasLeft(c)))
  <2> DEFINE d == <<c[1] - 1, c[2] - 1>>
  <2>1. HasLeft(c) /\ u < X0(c) - 8 /\ X0(c) <= u + 12
    <3>1. X0(c) <= u + Without(12, HasLeft(c))
      BY DEF u
    <3> QED BY <1>2, <1>6, <3>1 DEF Without
  <2>2. c[1] > 0 /\ c[2] > 0
    BY <2>1 DEF HasAbove, HasLeft
  <2>3. /\ d \in Lcus /\ d # c /\ d[1] <= c[1] /\ d[2] <= c[2] /\ HasRight(d) /\ X0(d) = X0(c) - L
        /\ HasBelow(d) /\ Y0(d) = Y0(c) - L
    <3>1. c[1] - 1 \in Nat /\ c[2] - 1 \in Nat /\ c[1] - 1 <= c[1] /\ c[2] - 1 <= c[2] /\ HasLeft(c) /\ HasAbove(c)
      BY <1>3, <2>2 DEF HasLeft, HasAbove
    <3> QED BY <1>1, <3>1, LeftIs, AboveIs
  <2> HIDE DEF d
  <2>4. SizeX(d) = L
    BY <1>1, <2>3, LcuIs
  <2>5. X0(d) <= u + Without(8, HasLeft(d)) /\ u < X0(d) + SizeX(d) - Without(8, HasRight(d))
    BY <1>2, <2>1, <2>3, <2>4 DEF Without
  <2> QED BY <1>4, <2>3, <2>5
<1> QED BY <1>5, <1>6

(* The pixels that SAO of an LCU changes, with those around them.          *)
LEMMA SaoWritesIs ==
  ASSUME fr \in Frames, NEW c \in Lcus, NEW px \in SaoWrites(c)
  PROVE  \E p \in Planes, a \in Nat, b \in Nat :
           /\ px = <<p, a, b>>
           /\ FromX(c) <= a * Scale(p) /\ a * Scale(p) < ToX(c)
           /\ FromY(c) <= b * Scale(p) /\ b * Scale(p) < ToY(c)
<1>1. PICK p \in Planes : px \in SaoArea(c, p, 0, 0, 0, 0)
  BY DEF SaoWrites
<1>2. PICK a \in Int, b \in Int : px = <<p, a, b>>
  BY <1>1, SaoAreaPixels
<1> DEFINE k == Scale(p)
<1>3. /\ FromX(c) <= (a + 0) * k /\ (a - 0) * k < ToX(c)
      /\ FromY(c) <= (b + 0) * k /\ (b - 0) * k < ToY(c)
  BY <1>1, <1>2, SaoAreaIs
<1>4. a + 0 = a /\ a - 0 = a /\ b + 0 = b /\ b - 0 = b
  OBVIOUS
<1>5. FromX(c) <= a * k /\ a * k < ToX(c) /\ FromY(c) <= b * k /\ b * k < ToY(c)
  BY <1>3, <1>4
<1>6. FromX(c) \in Nat /\ FromY(c) \in Nat
  <2>1. X0(c) \in Nat /\ Y0(c) \in Nat
    BY LcuIs
  <2>4. L >= 16 /\ L \in Nat
    BY PlaneIs
  <2>2. (HasLeft(c) => X0(c) >= L) /\ (HasAbove(c) => Y0(c) >= L)
    BY LcuIs
  <2>3. /\ FromX(c) = X0(c) + (IF HasLeft(c) THEN -10 ELSE 0)
        /\ FromY(c) = Y0(c) + (IF HasAbove(c) THEN -10 ELSE 0)
    BY SaoEnds
  <2> QED BY <2>1, <2>2, <2>3, <2>4
<1>7. k \in {1, 2}
  BY DEF Scale
<1>8. a \in Nat /\ b \in Nat
  <2> HIDE DEF k
  <2>1. CASE k = 1
    BY <1>5, <1>6, <2>1
  <2>2. CASE k = 2
    BY <1>5, <1>6, <2>2
  <2> QED BY <1>7, <2>1, <2>2
<1> QED BY <1>2, <1>5, <1>8

LEMMA SaoInputIs ==
  ASSUME NEW p \in Planes, NEW a \in Nat, NEW b \in Nat, NEW q \in SaoInput(<<p, a, b>>)
  PROVE  \E d \in {-1, 0, 1}, e \in {-1, 0, 1} :
           /\ q = <<p, a + d, b + e>>
           /\ \/ d = 0 /\ e = 0
              \/ a + d \in 0..(Width(p) - 1) /\ b + e \in 0..(Height(p) - 1)
<1> DEFINE px == <<p, a, b>>
<1>1. CASE q = px
  <2>1. a + 0 = a /\ b + 0 = b
    OBVIOUS
  <2>2. 0 \in {-1, 0, 1} /\ q = <<p, a + 0, b + 0>>
    BY <1>1, <2>1
  <2> QED BY <2>2
<1>2. CASE q # px
  <2>1. PICK k \in Classes : (\A d \in k : InFrame(Beside(px, d))) /\ q \in {Beside(px, d) : d \in k}
    BY <1>2 DEF SaoInput
  <2>2. PICK d \in k : q = Beside(px, d) /\ InFrame(q)
    BY <2>1
  <2>3. d[1] \in {-1, 0, 1} /\ d[2] \in {-1, 0, 1}
    BY <2>1, <2>2 DEF Classes
  <2>4. q = <<p, a + d[1], b + d[2]>>
    BY <2>2 DEF Beside
  <2>5. q[1] = p /\ q[2] = a + d[1] /\ q[3] = b + d[2]
    BY <2>4
  <2>6. a + d[1] \in 0..(Width(p) - 1) /\ b + d[2] \in 0..(Height(p) - 1)
    BY <2>2, <2>5 DEF InFrame
  <2> QED BY <2>3, <2>4, <2>6
<1> QED BY <1>1, <1>2

(* A step aside from a coordinate that SAO changes.                        *)
LEMMA StepAside ==
  ASSUME NEW s \in {1, 2}, NEW a \in Nat, NEW d \in {-1, 0, 1}, NEW i \in {0, 1}, NEW j \in {0, 1},
         NEW from \in Nat, NEW to \in Nat, NEW size \in Nat, size % 8 = 0, to <= size, from <= a * s, a * s < to,
         d = 0 \/ a + d \in 0..(size \div s - 1), i = 1 \/ from = 0, j = 1 \/ to = size
  PROVE  /\ a + d \in Nat /\ (a + d) * s < size
         /\ from <= (a + d + i) * s /\ (a + d - j) * s < to
<1>1. a + d \in Nat
  OBVIOUS
<1>2. CASE s = 1
  BY <1>1, <1>2
<1>3. CASE s = 2
  <2>1. size \div 2 \in Nat /\ (size \div 2) * 2 = size
    OBVIOUS
  <2> QED BY <1>1, <1>3, <2>1
<1> QED BY <1>2, <1>3

LEMMA SaoInputIn ==
  ASSUME fr \in Frames, NEW c \in Lcus, NEW px \in SaoWrites(c), NEW q \in SaoInput(px)
  PROVE  \E p \in Planes, a \in Nat, b \in Nat :
           /\ q = <<p, a, b>>
           /\ a * Scale(p) < fr.W /\ b * Scale(p) < fr.H
           /\ FromX(c) <= (a + One(HasLeft(c))) * Scale(p) /\ (a - One(HasRight(c))) * Scale(p) < ToX(c)
           /\ FromY(c) <= (b + One(HasAbove(c))) * Scale(p) /\ (b - One(HasBelow(c))) * Scale(p) < ToY(c)
<1>1. PICK p \in Planes, a \in Nat, b \in Nat :
        /\ px = <<p, a, b>>
        /\ FromX(c) <= a * Scale(p) /\ a * Scale(p) < ToX(c)
        /\ FromY(c) <= b * Scale(p) /\ b * Scale(p) < ToY(c)
  BY SaoWritesIs
<1>2. PICK d \in {-1, 0, 1}, e \in {-1, 0, 1} :
        /\ q = <<p, a + d, b + e>>
        /\ \/ d = 0 /\ e = 0
           \/ a + d \in 0..(Width(p) - 1) /\ b + e \in 0..(Height(p) - 1)
  BY <1>1, SaoInputIs
<1>3. Scale(p) \in {1, 2}
  BY DEF Scale
<1>4. Width(p) = fr.W \div Scale(p) /\ Height(p) = fr.H \div Scale(p)
  BY DEF Width, Height
<1>5. fr.W \in Nat /\ fr.W % 8 = 0 /\ fr.H \in Nat /\ fr.H % 8 = 0 /\ L \in Nat /\ L >= 16
  BY PlaneIs
<1>6. /\ FromX(c) \in Nat /\ ToX(c) \in Nat /\ ToX(c) <= fr.W
      /\ (~HasLeft(c) => FromX(c) = 0) /\ (~HasRight(c) => ToX(c) = fr.W)
  <2>1. /\ X0(c) \in Nat /\ SizeX(c) \in Nat /\ (HasRight(c) => SizeX(c) = L /\ X0(c) + L < fr.W)
        /\ ~HasRight(c) => SizeX(c) = fr.W - X0(c)
        /\ HasLeft(c) => X0(c) >= L
        /\ ~HasLeft(c) => X0(c) = 0
    BY LcuIs
  <2>2. /\ FromX(c) = X0(c) + (IF HasLeft(c) THEN -10 ELSE 0)
        /\ ToX(c) = X0(c) + SizeX(c) - (IF HasRight(c) THEN 10 ELSE 0)
    BY SaoEnds
  <2>5. FromX(c) \in Nat /\ (~HasLeft(c) => FromX(c) = 0)
    BY <1>5, <2>1, <2>2
  <2>3. CASE HasRight(c)
    <3>1. ToX(c) = X0(c) + L - 10
      BY <2>1, <2>2, <2>3
    <3> QED BY <1>5, <2>1, <2>2, <2>3, <3>1
  <2>4. CASE ~HasRight(c)
    <3>1. ToX(c) = X0(c) + SizeX(c) - 0 /\ SizeX(c) = fr.W - X0(c)
      BY <2>1, <2>2, <2>4
    <3>2. ToX(c) = fr.W
      BY <1>5, <2>1, <3>1
    <3> QED BY <1>5, <2>4, <3>2, <2>5
  <2> QED BY <2>3, <2>4
<1>7. /\ FromY(c) \in Nat /\ ToY(c) \in Nat /\ ToY(c) <= fr.H
      /\ (~HasAbove(c) => FromY(c) = 0) /\ (~HasBelow(c) => ToY(c) = fr.H)
  <2>1. /\ Y0(c) \in Nat /\ SizeY(c) \in Nat /\ (HasBelow(c) => SizeY(c) = L /\ Y0(c) + L < fr.H)
        /\ ~HasBelow(c) => SizeY(c) = fr.H - Y0(c)
        /\ HasAbove(c) => Y0(c) >= L
        /\ ~HasAbove(c) => Y0(c) = 0
    BY LcuIs
  <2>2. /\ FromY(c) = Y0(c) + (IF HasAbove(c) THEN -10 ELSE 0)
        /\ ToY(c) = Y0(c) + SizeY(c) - (IF HasBelow(c) THEN 10 ELSE 0)
    BY SaoEnds
  <2>5. FromY(c) \in Nat /\ (~HasAbove(c) => FromY(c) = 0)
    BY <1>5, <2>1, <2>2
  <2>3. CASE HasBelow(c)
    <3>1. ToY(c) = Y0(c) + L - 10
      BY <2>1, <2>2, <2>3
    <3> QED BY <1>5, <2>1, <2>2, <2>3, <3>1
  <2>4. CASE ~HasBelow(c)
    <3>1. ToY(c) = Y0(c) + SizeY(c) - 0 /\ SizeY(c) = fr.H - Y0(c)
      BY <2>1, <2>2, <2>4
    <3>2. ToY(c) = fr.H
      BY <1>5, <2>1, <3>1
    <3> QED BY <1>5, <2>4, <3>2, <2>5
  <2> QED BY <2>3, <2>4
<1>8. /\ One(HasLeft(c)) \in {0, 1} /\ (One(HasLeft(c)) = 1 \/ FromX(c) = 0)
      /\ One(HasRight(c)) \in {0, 1} /\ (One(HasRight(c)) = 1 \/ ToX(c) = fr.W)
      /\ One(HasAbove(c)) \in {0, 1} /\ (One(HasAbove(c)) = 1 \/ FromY(c) = 0)
      /\ One(HasBelow(c)) \in {0, 1} /\ (One(HasBelow(c)) = 1 \/ ToY(c) = fr.H)
  BY <1>6, <1>7 DEF One, Without
<1>9. /\ a + d \in Nat /\ (a + d) * Scale(p) < fr.W
      /\ FromX(c) <= (a + d + One(HasLeft(c))) * Scale(p) /\ (a + d - One(HasRight(c))) * Scale(p) < ToX(c)
  <2>1. d = 0 \/ a + d \in 0..(fr.W \div Scale(p) - 1)
    BY <1>2, <1>4
  <2> DEFINE s == Scale(p)
             i == One(HasLeft(c))
             j == One(HasRight(c))
             from == FromX(c)
             to == ToX(c)
             size == fr.W
  <2>2. /\ s \in {1, 2} /\ i \in {0, 1} /\ j \in {0, 1} /\ from \in Nat /\ to \in Nat /\ size \in Nat
        /\ size % 8 = 0 /\ to <= size /\ from <= a * s /\ a * s < to
        /\ (d = 0 \/ a + d \in 0..(size \div s - 1)) /\ (i = 1 \/ from = 0) /\ (j = 1 \/ to = size)
    BY <1>1, <1>3, <1>5, <1>6, <1>8, <2>1
  <2> HIDE DEF s, i, j, from, to, size
  <2>3. /\ a + d \in Nat /\ (a + d) * s < size
        /\ from <= (a + d + i) * s /\ (a + d - j) * s < to
    BY <2>2, StepAside
  <2> QED BY <2>3 DEF s, i, j, from, to, size
<1>10. /\ b + e \in Nat /\ (b + e) * Scale(p) < fr.H
       /\ FromY(c) <= (b + e + One(HasAbove(c))) * Scale(p) /\ (b + e - One(HasBelow(c))) * Scale(p) < ToY(c)
  <2>1. e = 0 \/ b + e \in 0..(fr.H \div Scale(p) - 1)
    BY <1>2, <1>4
  <2> DEFINE s == Scale(p)
             i == One(HasAbove(c))
             j == One(HasBelow(c))
             from == FromY(c)
             to == ToY(c)
             size == fr.H
  <2>2. /\ s \in {1, 2} /\ i \in {0, 1} /\ j \in {0, 1} /\ from \in Nat /\ to \in Nat /\ size \in Nat
        /\ size % 8 = 0 /\ to <= size /\ from <= b * s /\ b * s < to
        /\ (e = 0 \/ b + e \in 0..(size \div s - 1)) /\ (i = 1 \/ from = 0) /\ (j = 1 \/ to = size)
    BY <1>1, <1>3, <1>5, <1>7, <1>8, <2>1
  <2> HIDE DEF s, i, j, from, to, size
  <2>3. /\ b + e \in Nat /\ (b + e) * s < size
        /\ from <= (b + e + i) * s /\ (b + e - j) * s < to
    BY <2>2, StepAside
  <2> QED BY <2>3 DEF s, i, j, from, to, size
<1> DEFINE x == a + d
           y == b + e
<1>11. /\ q = <<p, x, y>> /\ x \in Nat /\ y \in Nat /\ x * Scale(p) < fr.W /\ y * Scale(p) < fr.H
       /\ FromX(c) <= (x + One(HasLeft(c))) * Scale(p) /\ (x - One(HasRight(c))) * Scale(p) < ToX(c)
       /\ FromY(c) <= (y + One(HasAbove(c))) * Scale(p) /\ (y - One(HasBelow(c))) * Scale(p) < ToY(c)
  <2>1. /\ x \in Nat /\ x * Scale(p) < fr.W
        /\ FromX(c) <= (x + One(HasLeft(c))) * Scale(p) /\ (x - One(HasRight(c))) * Scale(p) < ToX(c)
    <3>1. (a + d) - One(HasRight(c)) = a + d - One(HasRight(c))
      BY <1>8
    <3> QED BY <1>9, <3>1
  <2>2. /\ y \in Nat /\ y * Scale(p) < fr.H
        /\ FromY(c) <= (y + One(HasAbove(c))) * Scale(p) /\ (y - One(HasBelow(c))) * Scale(p) < ToY(c)
    <3>1. (b + e) - One(HasBelow(c)) = b + e - One(HasBelow(c))
      BY <1>8
    <3> QED BY <1>10, <3>1
  <2> QED BY <1>2, <2>1, <2>2
<1> HIDE DEF x, y
<1> QED BY <1>11

LEMMA SaoInputGood ==
  ASSUME BuffersInv, NEW c \in Lcus, step[c] = "sao", NEW px \in SaoWrites(c), NEW q \in SaoInput(px)
  PROVE  q \in Good(c)
<1>1. fr \in Frames /\ JobsInv
  BY DEF BuffersInv, JobsInv, FilterType
<1>2. PICK p \in Planes, a \in Nat, b \in Nat :
        /\ q = <<p, a, b>>
        /\ a * Scale(p) < fr.W /\ b * Scale(p) < fr.H
        /\ FromX(c) <= (a + One(HasLeft(c))) * Scale(p) /\ (a - One(HasRight(c))) * Scale(p) < ToX(c)
        /\ FromY(c) <= (b + One(HasAbove(c))) * Scale(p) /\ (b - One(HasBelow(c))) * Scale(p) < ToY(c)
  BY <1>1, SaoInputIn
<1> DEFINE s == Scale(p)
           i == One(HasLeft(c))
           j == One(HasAbove(c))
           k == One(HasRight(c))
           m == One(HasBelow(c))
           u == a * s
           v == b * s
           x == X0(c)
           y == Y0(c)
<1>3. s \in {1, 2} /\ i \in {0, 1} /\ j \in {0, 1} /\ k \in {0, 1} /\ m \in {0, 1} /\ u \in Nat /\ v \in Nat
  BY DEF Scale, One, Without
<1>4. /\ (HasLeft(c) => i = 1) /\ (~HasLeft(c) => i = 0) /\ (HasAbove(c) => j = 1) /\ (~HasAbove(c) => j = 0)
      /\ (HasRight(c) => k = 1) /\ (HasBelow(c) => m = 1)
  BY DEF One, Without
<1>5. /\ x \in Nat /\ x % 16 = 0 /\ y \in Nat /\ y % 16 = 0 /\ L \in Nat /\ L >= 16
      /\ (HasLeft(c) => x >= L) /\ (HasAbove(c) => y >= L)
  <2>1. L \in Nat /\ L >= 16
    BY <1>1, PlaneIs
  <2> QED BY <1>1, <2>1, LcuIs
<1>6. /\ FromX(c) = x + (IF HasLeft(c) THEN -10 ELSE 0)
      /\ FromY(c) = y + (IF HasAbove(c) THEN -10 ELSE 0)
      /\ HasRight(c) => ToX(c) = x + L - 10
      /\ HasBelow(c) => ToY(c) = y + L - 10
  <2>1. (HasRight(c) => SizeX(c) = L) /\ (HasBelow(c) => SizeY(c) = L)
    BY <1>1, LcuIs
  <2> QED BY <1>1, <2>1, SaoEnds
<1>7. /\ <<p, a, b>> \in SaoArea(c, p, i, j, k, m)
      /\ (FromX(c) <= u /\ FromY(c) <= v) <=> <<p, a, b>> \in SaoArea(c, p, 0, 0, k, m)
  <2>1. <<p, a, b>> \in SaoArea(c, p, i, j, k, m)
        <=> /\ FromX(c) <= (a + i) * s /\ (a - k) * s < ToX(c)
            /\ FromY(c) <= (b + j) * s /\ (b - m) * s < ToY(c)
    BY <1>1, <1>3, SaoAreaIs
  <2>2. <<p, a, b>> \in SaoArea(c, p, 0, 0, k, m)
        <=> /\ FromX(c) <= (a + 0) * s /\ (a - k) * s < ToX(c)
            /\ FromY(c) <= (b + 0) * s /\ (b - m) * s < ToY(c)
    BY <1>1, <1>3, SaoAreaIs
  <2>3. a + 0 = a /\ b + 0 = b
    OBVIOUS
  <2> QED BY <1>2, <2>1, <2>2, <2>3
<1>8. q \in SaoReads(c)
  BY <1>2, <1>7 DEF SaoReads
<1>9. /\ HasRight(c) => u + 8 < x + L
      /\ HasBelow(c) => v + 8 < y + L
  <2>1. (HasRight(c) => (a - 1) * s < x + L - 10) /\ (HasBelow(c) => (b - 1) * s < y + L - 10)
    BY <1>2, <1>4, <1>6
  <2>2. (a - 1) * s = u - s /\ (b - 1) * s = v - s
    <3>1. CASE s = 1
      BY <3>1
    <3>2. CASE s = 2
      BY <3>2
    <3> QED BY <1>3, <3>1, <3>2
  <2> HIDE DEF s, u, v, x, y
  <2> QED BY <1>3, <1>5, <2>1, <2>2
<1>10. /\ x <= u + s + 10 /\ (~HasLeft(c) => x <= u)
       /\ y <= v + s + 10 /\ (~HasAbove(c) => y <= v)
  <2>1. /\ x + (IF HasLeft(c) THEN -10 ELSE 0) <= (a + i) * s
        /\ y + (IF HasAbove(c) THEN -10 ELSE 0) <= (b + j) * s
    BY <1>2, <1>6
  <2>2. /\ (a + 1) * s = u + s /\ (a + 0) * s = u
        /\ (b + 1) * s = v + s /\ (b + 0) * s = v
    <3>1. CASE s = 1
      BY <3>1
    <3>2. CASE s = 2
      BY <3>2
    <3> QED BY <1>3, <3>1, <3>2
  <2>3. (HasLeft(c) => x - 10 <= u + s) /\ (~HasLeft(c) => x <= u)
    <3>1. CASE HasLeft(c)
      <4> HIDE DEF s, u, x, i
      <4> QED BY <1>3, <1>4, <1>5, <2>1, <2>2, <3>1
    <3>2. CASE ~HasLeft(c)
      <4> HIDE DEF s, u, x, i
      <4> QED BY <1>3, <1>4, <1>5, <2>1, <2>2, <3>2
    <3> QED BY <3>1, <3>2
  <2>4. (HasAbove(c) => y - 10 <= v + s) /\ (~HasAbove(c) => y <= v)
    <3>1. CASE HasAbove(c)
      <4> HIDE DEF s, v, y, j
      <4> QED BY <1>3, <1>4, <1>5, <2>1, <2>2, <3>1
    <3>2. CASE ~HasAbove(c)
      <4> HIDE DEF s, v, y, j
      <4> QED BY <1>3, <1>4, <1>5, <2>1, <2>2, <3>2
    <3> QED BY <3>1, <3>2
  <2> HIDE DEF s, u, v, x, y
  <2> QED BY <1>3, <1>5, <2>3, <2>4
<1>11. CASE FromX(c) <= u /\ FromY(c) <= v
  <2>1. q \in FromRec(c)
    BY <1>2, <1>7, <1>11 DEF FromRec
  <2>2. x <= u + 10 /\ y <= v + 10
    <3> HIDE DEF u, v, x, y
    <3> QED BY <1>3, <1>5, <1>6, <1>11
  <2>3. Deblocked(<<p, a, b>>)
    BY <1>1, <1>2, <1>9, <2>2, DeblockedAlready
  <2> QED BY <1>2, <2>1, <2>3 DEF Good
<1>12. CASE ~(FromX(c) <= u)
  <2>1. HasLeft(c) /\ u < x - 10
    <3> HIDE DEF u, x
    <3> QED BY <1>3, <1>5, <1>6, <1>10, <1>12
  <2>2. /\ a = (x - 11) \div s
        /\ a = x \div s + (-10) \div s - 1
    <3>1. CASE s = 1
      <4> HIDE DEF x
      <4> QED BY <1>5, <1>10, <2>1, <3>1
    <3>2. CASE s = 2
      <4> HIDE DEF x
      <4> QED BY <1>5, <1>10, <2>1, <3>2
    <3> QED BY <1>3, <3>1, <3>2
  <2>3. From(HasLeft(c)) = -10
    BY <2>1 DEF From, Without, SAO_DELAY_PX, DEBLOCK_DELAY_PX
  <2>4. q[1] = p /\ q[2] = a
    BY <1>2
  <2>5. q \in FromColumn(c)
    BY <1>8, <2>2, <2>3, <2>4 DEF FromColumn
  <2>6. y <= v + Without(12, HasAbove(c))
    <3> HIDE DEF u, v, x, y, s
    <3> QED BY <1>3, <1>5, <1>10 DEF Without
  <2>7. <<"ver", <<p, a, b>>>> \in beforeSao
    BY <1>2, <1>9, <2>1, <2>2, <2>6, ColumnSaved
  <2> QED BY <1>2, <2>5, <2>7 DEF Good
<1>13. CASE FromX(c) <= u /\ ~(FromY(c) <= v)
  <2>1. HasAbove(c) /\ v < y - 10
    <3> HIDE DEF v, y
    <3> QED BY <1>3, <1>5, <1>6, <1>10, <1>13
  <2>2. b = (y - 11) \div s
    <3>1. CASE s = 1
      <4> HIDE DEF y
      <4> QED BY <1>5, <1>10, <2>1, <3>1
    <3>2. CASE s = 2
      <4> HIDE DEF y
      <4> QED BY <1>5, <1>10, <2>1, <3>2
    <3> QED BY <1>3, <3>1, <3>2
  <2>3. q \notin FromRec(c)
    <3>1. SUFFICES ASSUME NEW r \in Planes, q \in SaoArea(c, r, 0, 0, k, m)
                   PROVE  FALSE
      BY DEF FromRec
    <3>2. \E e \in Int, f \in Int : q = <<r, e, f>>
      BY <1>1, <1>3, <3>1, SaoAreaPixels
    <3>3. r = p
      BY <1>2, <3>2
    <3> QED BY <1>2, <1>7, <1>13, <3>1, <3>3
  <2>4. q \notin FromColumn(c)
    <3>1. SUFFICES ASSUME a = x \div s + From(HasLeft(c)) \div s - 1
                   PROVE  FALSE
      BY <1>2 DEF FromColumn
    <3>2. From(HasLeft(c)) = (IF HasLeft(c) THEN -10 ELSE 0)
      BY DEF From, Without, SAO_DELAY_PX, DEBLOCK_DELAY_PX
    <3>3. CASE s = 1
      <4> HIDE DEF x
      <4> QED BY <1>5, <1>6, <1>13, <3>1, <3>2, <3>3
    <3>4. CASE s = 2
      <4> HIDE DEF x
      <4> QED BY <1>5, <1>6, <1>13, <3>1, <3>2, <3>4
    <3> QED BY <1>3, <3>3, <3>4
  <2>5. x <= u + Without(12, HasLeft(c))
    <3> HIDE DEF u, v, x, y, s
    <3> QED BY <1>3, <1>5, <1>10 DEF Without
  <2>6. <<"hor", <<p, a, b>>>> \in beforeSao
    BY <1>2, <1>9, <2>1, <2>2, <2>5, RowSaved
  <2> QED BY <1>2, <1>8, <2>3, <2>4, <2>6 DEF Good, FromRow
<1> QED BY <1>11, <1>12, <1>13

LEMMA SaoInOrder == BuffersInv => SaoReadsDeblocked
<1> SUFFICES ASSUME BuffersInv, NEW c \in Lcus, step[c] = "sao"
             PROVE  SaoWrites(c) \cap final = {} /\ \A px \in SaoWrites(c) : SaoInput(px) \subseteq Good(c)
  BY DEF SaoReadsDeblocked
<1>1. fr \in Frames /\ JobsInv /\ step[c] # "done"
  BY DEF BuffersInv, JobsInv, FilterType
<1>2. ASSUME NEW px \in SaoWrites(c)
      PROVE  px \notin final
  <2>1. PICK p \in Planes, a \in Nat, b \in Nat :
          /\ px = <<p, a, b>>
          /\ FromX(c) <= a * Scale(p) /\ FromY(c) <= b * Scale(p)
    BY <1>1, SaoWritesIs
  <2> DEFINE u == a * Scale(p)
             v == b * Scale(p)
  <2>2. u \in Nat /\ v \in Nat
    BY DEF Scale
  <2>3. X0(c) <= u + 10 /\ Y0(c) <= v + 10
    <3>1. /\ FromX(c) = X0(c) + (IF HasLeft(c) THEN -10 ELSE 0)
          /\ FromY(c) = Y0(c) + (IF HasAbove(c) THEN -10 ELSE 0)
          /\ X0(c) \in Nat /\ Y0(c) \in Nat
      BY <1>1, SaoEnds
    <3>2. FromX(c) <= u /\ FromY(c) <= v
      BY <2>1
    <3> HIDE DEF u, v
    <3> QED BY <2>2, <3>1, <3>2
  <2> QED BY <1>1, <2>1, <2>3, NotYetFinal
<1> QED BY <1>2, SaoInputGood

-----------------------------------------------------------------------------
(* Search, deblocking and SAO come in the order that a decoder expects,    *)
(* for frames and LCUs of every size and every interleaving of the jobs:   *)
(* encoder_state_worker_encode_lcu reads what it needs unfiltered, filters *)
(* every edge once and in its turn, and gives SAO only deblocked pixels.   *)
THEOREM FiltersInOrderCorrect == FilterSpec => []FiltersInOrder
<1>1. BuffersInv => FiltersInOrder
  <2>1. BuffersInv => IntraReadsUnfiltered
    BY SearchReadsSaved DEF IntraReadsUnfiltered
  <2>2. BuffersInv => DeblockedInOrder
    BY EdgesInOrder DEF BuffersInv
  <2> QED BY <2>1, <2>2, SaoInOrder DEF FiltersInOrder
<1> QED BY <1>1, BuffersInit, BuffersNext, PTL DEF FilterSpec
=============================================================================
