------------------------- MODULE FramePipelineProofs -------------------------
(***************************************************************************)
(* First of Wavefront: for frames of any size, any number of them and any  *)
(* order of the jobs, what an LCU may refer to has been encoded before it: *)
(* one dependency per LCU on one earlier frame is enough.                  *)
(*                                                                         *)
(* Then the ring of encoder states works for every owf, every configuration*)
(* and every order of the jobs, the bitstreams come out of it in order, and*)
(* the pipeline implements Wavefront wherever every frame waits for its    *)
(* references.                                                             *)
(***************************************************************************)
EXTENDS FramePipeline, Wavefront, TLAPS, FiniteSetTheorems

(* The LCUs that are encoded before c in its own frame, and c.             *)
Behind(c) == {d \in Lcus : d[2] <= c[2] /\ d[1] + d[2] <= c[1] + c[2]}

WfTypeOK ==
  /\ frames \in Nat
  /\ dependsOn \in [Started -> Started \cup {NoFrame}]
  /\ referred \in [Started -> SUBSET Started]
  /\ awaited \in [Started -> SUBSET Started]
  /\ recon \subseteq Started \X Lcus

AwaitedExact == \A n \in Started : awaited[n] = AwaitedVia(dependsOn[n])

ReferredCovered ==
  \A n \in Started : \A r \in referred[n] : r \in awaited[n] \/ Complete(r)

OwnBehind ==
  \A n \in Started, c \in Lcus :
    <<n, c>> \in recon => \A d \in Behind(c) : <<n, d>> \in recon

AwaitedReach ==
  \A n \in Started, c \in Lcus :
    <<n, c>> \in recon =>
      \A m \in awaited[n], d \in Reach(c) : <<m, d>> \in recon

(* The inductive invariant.  A frame that has encoded an LCU has encoded   *)
(* all that is behind it, and the frames it waits for have encoded all     *)
(* that the LCU may reach.                                                 *)
WfInv ==
  WfTypeOK /\ AwaitedExact /\ ReferredCovered /\ OwnBehind /\ AwaitedReach

-----------------------------------------------------------------------------
(* The geometry.                                                           *)

LEMMA LcuParts ==
  ASSUME NEW c \in Lcus
  PROVE  c[1] \in 0..(Cols - 1) /\ c[2] \in 0..(Rows - 1) /\ c = <<c[1], c[2]>>
BY DEF Lcus

LEMMA PartsLcu ==
  ASSUME NEW x \in 0..(Cols - 1), NEW y \in 0..(Rows - 1)
  PROVE  <<x, y>> \in Lcus
BY DEF Lcus

LEMMA DepLcuType ==
  ASSUME NEW c \in Lcus
  PROVE  DepLcu(c) \in Lcus
<1>1. c[1] \in 0..(Cols - 1) /\ c[2] \in 0..(Rows - 1)
  BY LcuParts
<1>2. AtMost(c[1] + Right, Cols - 1) \in 0..(Cols - 1)
  BY <1>1, SizeAssumption DEF AtMost, Right
<1>3. AtMost(c[2] + Down, Rows - 1) \in 0..(Rows - 1)
  BY <1>1, SizeAssumption DEF AtMost, Down
<1> QED
  BY <1>2, <1>3, PartsLcu DEF DepLcu

(* What is behind an LCU is the LCU itself or behind one of its neighbours.*)
LEMMA BehindNeighbours ==
  ASSUME NEW c \in Lcus, NEW d \in Behind(c), d # c
  PROVE  \E e \in Neighbours(c) : d \in Behind(e)
<1>1. /\ c[1] \in 0..(Cols - 1) /\ c[2] \in 0..(Rows - 1) /\ c = <<c[1], c[2]>>
      /\ d \in Lcus /\ d[2] <= c[2] /\ d[1] + d[2] <= c[1] + c[2]
  BY LcuParts DEF Behind
<1>2. d[1] \in 0..(Cols - 1) /\ d[2] \in 0..(Rows - 1) /\ d = <<d[1], d[2]>>
  BY <1>1, LcuParts
<1>3. CASE d[2] = c[2]
  <2> DEFINE e == <<c[1] - 1, c[2]>>
  <2>1. d[1] <= c[1] - 1
    BY <1>1, <1>2, <1>3, SizeAssumption
  <2>2. e \in Lcus
    BY <1>1, <1>2, <2>1, SizeAssumption, PartsLcu
  <2>3. d[2] <= e[2] /\ d[1] + d[2] <= e[1] + e[2]
    BY <1>1, <1>2, <1>3, <2>1, SizeAssumption
  <2> QED
    BY <1>1, <2>2, <2>3 DEF Neighbours, Behind
<1>4. CASE d[2] < c[2]
  <2> DEFINE x == AtMost(c[1] + 1, Cols - 1)
             e == <<x, c[2] - 1>>
  <2>1. x \in 0..(Cols - 1) /\ (x = c[1] + 1 \/ x = Cols - 1)
    BY <1>1, SizeAssumption DEF AtMost
  <2>2. e \in Lcus
    BY <1>1, <1>2, <1>4, <2>1, SizeAssumption, PartsLcu
  <2>3. d[2] <= c[2] - 1 /\ d[1] + d[2] <= x + (c[2] - 1)
    BY <1>1, <1>2, <1>4, <2>1, SizeAssumption
  <2> QED
    BY <1>1, <2>2, <2>3 DEF Neighbours, Behind
<1> QED
  BY <1>1, <1>2, <1>3, <1>4, SizeAssumption

(* What an LCU may reach is behind the LCU that it waits for, or its       *)
(* neighbour above may reach it.                                           *)
LEMMA ReachCovered ==
  ASSUME NEW c \in Lcus, NEW d \in Reach(c)
  PROVE  d \in Behind(DepLcu(c)) \/ \E e \in Neighbours(c) : d \in Reach(e)
<1> DEFINE p == AtMost(c[1] + Right, Cols - 1)
           q == AtMost(c[2] + Down, Rows - 1)
<1>1. /\ c[1] \in 0..(Cols - 1) /\ c[2] \in 0..(Rows - 1)
      /\ d \in Lcus /\ d[2] <= c[2] + 1 /\ d[1] + d[2] <= c[1] + c[2] + 2
  BY LcuParts, SizeAssumption DEF Reach, Down, Right
<1>2. d[1] \in 0..(Cols - 1) /\ d[2] \in 0..(Rows - 1)
  BY <1>1, LcuParts
<1>3. DepLcu(c) = <<p, q>>
  BY DEF DepLcu
<1>4. SUFFICES ASSUME ~(d[2] <= q /\ d[1] + d[2] <= p + q)
               PROVE  \E e \in Neighbours(c) : d \in Reach(e)
  BY <1>1, <1>3 DEF Behind
<1>5. /\ c[2] = Rows - 1 /\ c[1] + 1 <= Cols - 1
      /\ d[1] + d[2] = c[1] + c[2] + 2
  BY <1>1, <1>2, <1>4, SizeAssumption DEF AtMost, Down, Right
<1> DEFINE e == <<c[1] + 1, c[2] - 1>>
<1>6. e \in Lcus /\ AtMost(c[1] + 1, Cols - 1) = c[1] + 1
  BY <1>1, <1>5, SizeAssumption, PartsLcu DEF AtMost
<1>7. d[2] <= (c[2] - 1) + 1 /\ d[1] + d[2] <= (c[1] + 1) + (c[2] - 1) + 1 + 1
  BY <1>1, <1>2, <1>5, SizeAssumption
<1>8. d \in Reach(e)
  BY <1>1, <1>7 DEF Reach, Down, Right
<1> QED
  BY <1>6, <1>8 DEF Neighbours

LEMMA BehindReach ==
  ASSUME NEW c \in Lcus, NEW d \in Behind(c)
  PROVE  d \in Reach(c)
<1>1. /\ c[1] \in Int /\ c[2] \in Int /\ d \in Lcus
      /\ d[2] <= c[2] /\ d[1] + d[2] <= c[1] + c[2]
  BY LcuParts, SizeAssumption DEF Behind
<1>2. d[1] \in Int /\ d[2] \in Int
  BY <1>1, LcuParts, SizeAssumption
<1> QED
  BY <1>1, <1>2 DEF Reach, Down, Right

-----------------------------------------------------------------------------
(* Of an LCU whose job may run, the frames it waits for have encoded all   *)
(* that it may reach.                                                      *)
LEMMA ReadyCovered ==
  ASSUME WfInv, NEW n \in Started, NEW c \in Lcus, Ready(n, c),
         NEW m \in awaited[n], NEW d \in Reach(c)
  PROVE  <<m, d>> \in recon
<1> DEFINE k == dependsOn[n]
<1>1. /\ k \in Started \cup {NoFrame} /\ k # NoFrame /\ k \in Started
      /\ m \in {k} \cup awaited[k]
  BY DEF WfInv, WfTypeOK, AwaitedExact, AwaitedVia
<1>2. DepLcu(c) \in Lcus
  BY DepLcuType
<1>3. <<k, DepLcu(c)>> \in recon
  BY <1>1 DEF Ready, JobDeps
<1>4. CASE d \in Behind(DepLcu(c))
  <2>1. CASE m = k
    BY <1>1, <1>2, <1>3, <1>4, <2>1 DEF WfInv, OwnBehind
  <2>2. CASE m \in awaited[k]
    <3>1. d \in Reach(DepLcu(c))
      BY <1>2, <1>4, BehindReach
    <3> QED
      BY <1>1, <1>2, <1>3, <2>2, <3>1 DEF WfInv, AwaitedReach
  <2> QED
    BY <1>1, <2>1, <2>2
<1>5. CASE \E e \in Neighbours(c) : d \in Reach(e)
  <2>1. PICK e \in Neighbours(c) : d \in Reach(e)
    BY <1>5
  <2>2. e \in Lcus /\ <<n, e>> \in recon
    BY DEF Ready, JobDeps, Neighbours
  <2> QED
    BY <2>1, <2>2 DEF WfInv, AwaitedReach
<1> QED
  BY <1>4, <1>5, ReachCovered

LEMMA InitInv == WfInit => WfInv
<1> SUFFICES ASSUME WfInit PROVE WfInv
  OBVIOUS
<1>1. Started = {}
  BY DEF WfInit, Started
<1> QED
  BY <1>1 DEF WfInit, WfInv, WfTypeOK, AwaitedExact, ReferredCovered,
              OwnBehind, AwaitedReach

LEMMA EncodeLcuInv ==
  ASSUME WfInv, NEW n \in Started, NEW c \in Lcus, EncodeLcu(n, c)
  PROVE  WfInv'
<1> USE DEF EncodeLcu
<1>1. Started' = Started
  BY DEF Started
<1>2. WfTypeOK'
  BY <1>1 DEF WfInv, WfTypeOK
<1>3. AwaitedExact'
  BY <1>1 DEF WfInv, AwaitedExact, AwaitedVia
<1>4. ReferredCovered'
  BY <1>1 DEF WfInv, ReferredCovered, Complete
<1>5. OwnBehind'
  <2> SUFFICES ASSUME NEW k \in Started, NEW b \in Lcus, <<k, b>> \in recon',
                      NEW d \in Behind(b)
               PROVE  <<k, d>> \in recon'
    BY <1>1 DEF OwnBehind
  <2>1. CASE <<k, b>> \in recon
    BY <2>1 DEF WfInv, OwnBehind
  <2>2. CASE k = n /\ b = c /\ d # c
    <3>1. PICK e \in Neighbours(c) : d \in Behind(e)
      BY <2>2, BehindNeighbours
    <3>2. e \in Lcus /\ <<n, e>> \in recon
      BY DEF Ready, JobDeps, Neighbours
    <3> QED
      BY <2>2, <3>1, <3>2 DEF WfInv, OwnBehind
  <2> QED
    BY <2>1, <2>2
<1>6. AwaitedReach'
  <2> SUFFICES ASSUME NEW k \in Started, NEW b \in Lcus, <<k, b>> \in recon',
                      NEW m \in awaited[k], NEW d \in Reach(b)
               PROVE  <<m, d>> \in recon'
    BY <1>1 DEF AwaitedReach
  <2>1. CASE <<k, b>> \in recon
    BY <2>1 DEF WfInv, AwaitedReach
  <2>2. CASE k = n /\ b = c
    BY <2>2, ReadyCovered
  <2> QED
    BY <2>1, <2>2
<1> QED
  BY <1>2, <1>3, <1>4, <1>5, <1>6 DEF WfInv

LEMMA StartFrameInv ==
  ASSUME WfInv, StartFrame
  PROVE  WfInv'
<1>1. PICK d \in Started \cup {NoFrame}, R \in SUBSET Started :
        Covered(d, R) /\ CreateJobs(d, R)
  BY DEF StartFrame
<1>2. /\ frames \in Nat /\ frames' = frames + 1 /\ recon' = recon
      /\ Started' = Started \cup {frames} /\ frames \notin Started
  BY <1>1 DEF WfInv, WfTypeOK, CreateJobs, Started
<1>3. /\ dependsOn' = [n \in Started' |-> IF n = frames THEN d ELSE dependsOn[n]]
      /\ referred' = [n \in Started' |-> IF n = frames THEN R ELSE referred[n]]
      /\ awaited' = [n \in Started' |-> IF n = frames THEN AwaitedVia(d)
                                        ELSE awaited[n]]
  <2>1. 0..frames = Started'
    BY <1>2 DEF Started
  <2> QED
    BY <1>1, <2>1 DEF CreateJobs, Extend
<1>4. AwaitedVia(d) \subseteq Started
  BY DEF AwaitedVia, WfInv, WfTypeOK
<1>5. /\ \A n \in Started : /\ dependsOn'[n] = dependsOn[n]
                            /\ referred'[n] = referred[n]
                            /\ awaited'[n] = awaited[n]
      /\ dependsOn'[frames] = d /\ referred'[frames] = R
      /\ awaited'[frames] = AwaitedVia(d)
  BY <1>2, <1>3
<1>6. WfTypeOK'
  BY <1>1, <1>2, <1>3, <1>4 DEF WfInv, WfTypeOK
<1>7. \A k \in Started \cup {NoFrame} : AwaitedVia(k)' = AwaitedVia(k)
  BY <1>5 DEF AwaitedVia
<1>8. AwaitedExact'
  BY <1>1, <1>2, <1>5, <1>7 DEF WfInv, WfTypeOK, AwaitedExact
<1>9. ReferredCovered'
  BY <1>1, <1>2, <1>5 DEF WfInv, ReferredCovered, Covered, Complete
<1>10. \A c \in Lcus : <<frames, c>> \notin recon
  BY <1>2 DEF WfInv, WfTypeOK
<1>11. OwnBehind'
  BY <1>2, <1>10 DEF WfInv, OwnBehind
<1>12. AwaitedReach'
  BY <1>2, <1>5, <1>10 DEF WfInv, AwaitedReach
<1> QED
  BY <1>6, <1>8, <1>9, <1>11, <1>12 DEF WfInv

(* Every step preserves the invariant.                                     *)
LEMMA NextInv == WfInv /\ [WfNext]_wfVars => WfInv'
<1> SUFFICES ASSUME WfInv, [WfNext]_wfVars PROVE WfInv'
  OBVIOUS
<1>1. CASE StartFrame
  BY <1>1, StartFrameInv
<1>2. CASE \E n \in Started, c \in Lcus : EncodeLcu(n, c)
  BY <1>2, EncodeLcuInv
<1>3. CASE UNCHANGED wfVars
  BY <1>3 DEF wfVars, WfInv, WfTypeOK, AwaitedExact, AwaitedVia, ReferredCovered,
              OwnBehind, AwaitedReach, Started, Complete
<1> QED
  BY <1>1, <1>2, <1>3 DEF WfNext

LEMMA InvFinal == WfInv => ReferencesFinal
<1> SUFFICES ASSUME WfInv, NEW n \in Started, NEW c \in Lcus, Ready(n, c),
                    NEW r \in referred[n], NEW d \in Reach(c)
             PROVE  <<r, d>> \in recon
  BY DEF ReferencesFinal
<1>1. CASE r \in awaited[n]
  BY <1>1, ReadyCovered
<1>2. CASE Complete(r)
  BY <1>2 DEF Complete, Reach
<1> QED
  BY <1>1, <1>2 DEF WfInv, ReferredCovered

(* "We need to wait until the CTUs whose pixels we refer to are done before*)
(* we can start this CTU": the dependencies of encoder_state_encode_leaf   *)
(* achieve that for every size of frame, every number of frames in flight  *)
(* and every order in which the threads run the jobs.                      *)
THEOREM ReferencesAreFinal == WfSpec => []ReferencesFinal
<1>1. WfInit => WfInv
  BY InitInv
<1>2. WfInv /\ [WfNext]_wfVars => WfInv'
  BY NextInv
<1>3. WfInv => ReferencesFinal
  BY InvFinal
<1> QED
  BY <1>1, <1>2, <1>3, PTL DEF WfSpec

-----------------------------------------------------------------------------
(* The ring of encoder states.                                             *)

InFlight == frames - framesDone

(* How many states lie between outState and s, in the order of use.        *)
Ahead(s) == IF s >= outState THEN s - outState ELSE s - outState + NumStates

RingType ==
  /\ cfg \in Configs
  /\ frames \in Nat /\ framesDone \in Nat
  /\ curState \in States /\ outState \in States
  /\ slot \in [States -> Int] /\ busy \subseteq States
  /\ pc \in {"call", "wait"}

Numbering == num = IF prepared THEN frames ELSE frames - 1

(* There is a free state before a call, and a frame to return in the wait. *)
Filling == /\ InFlight \in 0..NumStates
           /\ pc = "call" => InFlight < NumStates
           /\ pc = "wait" => InFlight > 0
           /\ \/ curState = outState /\ InFlight \in {0, NumStates}
              \/ curState # outState /\ Ahead(curState) = InFlight

(* The states in flight hold the frames from framesDone on, in order.      *)
SlotsExact ==
  \A s \in States : /\ NoFrame <= slot[s]
                    /\ IF Ahead(s) < InFlight
                         THEN slot[s] = framesDone + Ahead(s) /\ s \in busy
                         ELSE slot[s] < framesDone /\ s \notin busy

RingInv == RingType /\ Numbering /\ Filling /\ SlotsExact

LEMMA OwfType ==
  ASSUME cfg \in Configs
  PROVE  Owf \in Nat /\ NumStates = Owf + 1 /\ States = 0..Owf
BY MoreConfigs DEF Owf, NumStates, States

LEMMA RingInvImplies == RingInv => RingReady
<1> SUFFICES ASSUME RingInv PROVE RingReady
  OBVIOUS
<1>1. Owf \in Nat /\ NumStates = Owf + 1 /\ States = 0..Owf
  BY OwfType DEF RingInv, RingType
<1>2. pc = "call" => curState \notin busy /\ (prepared => num = frames)
  BY <1>1 DEF RingInv, RingType, Numbering, Filling, SlotsExact, Ahead, InFlight
<1>3. pc = "wait" => slot[outState] = framesDone
  BY <1>1 DEF RingInv, RingType, Filling, SlotsExact, Ahead, InFlight
<1>4. \A s \in States : s \in busy <=> slot[s] \in framesDone..(frames - 1)
  BY <1>1 DEF RingInv, RingType, Filling, SlotsExact, Ahead, InFlight
<1> QED
  BY <1>2, <1>3, <1>4 DEF RingReady

LEMMA RingInit == PInit => RingInv
<1> SUFFICES ASSUME PInit PROVE RingInv
  OBVIOUS
<1>1. cfg \in Configs
  BY DEF PInit, OInit, Init
<1>2. Owf \in Nat /\ NumStates = Owf + 1 /\ States = 0..Owf
  BY <1>1, OwfType
<1>3. RingType
  BY <1>1, <1>2 DEF PInit, WfInit, RingType, NoFrame
<1>4. Numbering
  BY DEF PInit, OInit, WfInit, Numbering
<1>5. Filling
  BY <1>2 DEF PInit, WfInit, Filling, InFlight
<1>6. SlotsExact
  BY <1>2 DEF PInit, WfInit, SlotsExact, InFlight, Ahead, NoFrame
<1> QED
  BY <1>3, <1>4, <1>5, <1>6 DEF RingInv

(* The configuration does not change.                                      *)
LEMMA SameConfig ==
  ASSUME [PNext]_pipeVars
  PROVE  cfg' = cfg
BY DEF PNext, Calls, CallPrepare, Prepare, CallEncode, EncodeNext, EncodeFlush,
       Feed, Flush, CallOutput, RunLcu, WriteBitstream, pipeVars, allVars, vars

LEMMA PrepareRing ==
  ASSUME RingInv, CallPrepare
  PROVE  RingInv'
<1>1. /\ frames' = frames /\ cfg' = cfg /\ pc' = pc
      /\ curState' = curState /\ outState' = outState /\ slot' = slot
      /\ busy' = busy /\ framesDone' = framesDone
      /\ ~prepared /\ prepared' = TRUE /\ num' = num + 1
  BY DEF CallPrepare, Prepare, wfVars, ringVars, callVars, vars
<1>2. RingType' /\ Filling' /\ SlotsExact'
  BY <1>1 DEF RingInv, RingType, Filling, SlotsExact, Ahead, InFlight, NumStates,
              States, Owf
<1>3. Numbering'
  BY <1>1 DEF RingInv, RingType, Numbering
<1> QED
  BY <1>2, <1>3 DEF RingInv

LEMMA OutputRing ==
  ASSUME RingInv, CallOutput
  PROVE  RingInv'
<1>1. /\ frames' = frames /\ cfg' = cfg /\ pc = "wait" /\ pc' = "call"
      /\ curState' = curState /\ outState' = After(outState) /\ slot' = slot
      /\ busy' = busy \ {outState} /\ framesDone' = framesDone + 1
      /\ prepared' = prepared /\ num' = num
  BY DEF CallOutput, Finish, wfVars, allVars, encVars, vars
<1>2. Owf \in Nat /\ NumStates = Owf + 1 /\ States = 0..Owf
  BY OwfType DEF RingInv, RingType
<1>3. Owf' = Owf /\ NumStates' = NumStates /\ States' = States
  BY <1>1 DEF Owf, NumStates, States
<1>4. After(outState) \in States
  BY <1>2 DEF After, RingInv, RingType
<1>5. RingType'
  BY <1>1, <1>3, <1>4 DEF RingInv, RingType
<1>6. Numbering'
  BY <1>1 DEF RingInv, Numbering
<1>7. \A s \in States : Ahead(s)' = IF s = outState THEN Owf ELSE Ahead(s) - 1
  BY <1>1, <1>2, <1>3 DEF Ahead, After, RingInv, RingType
<1>8. Filling'
  BY <1>1, <1>2, <1>3 DEF Filling, InFlight, Ahead, After, RingInv, RingType
<1>9. SlotsExact'
  <2>1. InFlight \in 1..NumStates /\ InFlight' = InFlight - 1
    BY <1>1, <1>2 DEF InFlight, RingInv, RingType, Filling
  <2>2. Ahead(outState) = 0
    BY <1>2 DEF Ahead, RingInv, RingType
  <2>3. \A s \in States : Ahead(s) \in Nat /\ (s # outState => Ahead(s) > 0)
    BY <1>2 DEF Ahead, RingInv, RingType
  <2>4. ASSUME NEW s \in States
        PROVE  IF Ahead(s)' < InFlight - 1
                 THEN slot[s] = framesDone + 1 + Ahead(s)' /\ s \in busy \ {outState}
                 ELSE slot[s] < framesDone + 1 /\ s \notin busy \ {outState}
    <3>1. CASE s = outState
      BY <1>2, <1>7, <2>1, <2>2, <3>1 DEF RingInv, RingType, SlotsExact
    <3>2. CASE s # outState
      BY <1>7, <2>1, <2>3, <3>2 DEF RingInv, RingType, SlotsExact
    <3> QED
      BY <3>1, <3>2
  <2> QED
    BY <1>1, <1>3, <2>1, <2>4 DEF RingInv, SlotsExact
<1> QED
  BY <1>5, <1>6, <1>8, <1>9 DEF RingInv

(* A call that starts no frame.                                            *)
LEMMA NoFrameRing ==
  ASSUME RingInv, NEW flush \in BOOLEAN, CallEncode(flush), out' = None
  PROVE  RingInv'
<1>1. /\ frames' = frames /\ cfg' = cfg /\ pc = "call" /\ slot' = slot
      /\ outState' = outState /\ busy' = busy /\ framesDone' = framesDone
      /\ prepared' = prepared /\ num' = num
  <2>1. cfg' = cfg
    BY DEF CallEncode, EncodeFlush, EncodeNext, Feed, Flush
  <2>2. prepared' = prepared /\ num' = num
    BY DEF CallEncode, EncodeFlush, EncodeNext, Then, encVars
  <2> QED
    BY <2>1, <2>2 DEF CallEncode, wfVars
<1>2. Owf \in Nat /\ NumStates = Owf + 1 /\ States = 0..Owf
  BY OwfType DEF RingInv, RingType
<1>3. Owf' = Owf /\ NumStates' = NumStates /\ States' = States
  BY <1>1 DEF Owf, NumStates, States
<1>4. curState \notin busy
  BY <1>1, RingInvImplies DEF RingReady
<1>5. curState' = curState
  BY <1>1, <1>4 DEF CallEncode
<1>6. (pc' = "wait" /\ outState \in busy) \/ pc' = "call"
  BY <1>1 DEF CallEncode, Finish
<1>7. RingType'
  BY <1>1, <1>3, <1>5, <1>6 DEF RingInv, RingType
<1>8. SlotsExact' /\ Numbering'
  BY <1>1, <1>3 DEF RingInv, SlotsExact, Numbering, Ahead, InFlight
<1>9. Filling'
  BY <1>1, <1>2, <1>3, <1>5, <1>6 DEF RingInv, RingType, Filling, SlotsExact, Ahead,
                                      InFlight
<1> QED
  BY <1>7, <1>8, <1>9 DEF RingInv

(* A call that starts a frame, in the state that is free.                  *)
LEMMA FrameRing ==
  ASSUME RingInv, NEW flush \in BOOLEAN, CallEncode(flush), out' # None
  PROVE  RingInv'
<1>1. /\ frames' = frames + 1 /\ cfg' = cfg /\ pc = "call"
      /\ slot' = [slot EXCEPT ![curState] = num]
      /\ outState' = outState /\ busy' = busy \cup {curState}
      /\ framesDone' = framesDone
      /\ prepared = TRUE /\ prepared' = FALSE /\ num' = num
  <2>1. cfg' = cfg
    BY DEF CallEncode, EncodeFlush, EncodeNext, Feed, Flush
  <2>2. prepared /\ prepared' = FALSE /\ num' = num
    BY DEF CallEncode, EncodeFlush, EncodeNext, Then, Code
  <2>3. prepared = TRUE
    BY <2>2
  <2> QED
    BY <2>1, <2>2 DEF CallEncode, EncodeOneFrame, CreateJobs
<1>2. Owf \in Nat /\ NumStates = Owf + 1 /\ States = 0..Owf
  BY OwfType DEF RingInv, RingType
<1>3. Owf' = Owf /\ NumStates' = NumStates /\ States' = States
  BY <1>1 DEF Owf, NumStates, States
<1>4. num = frames /\ Ahead(curState) = InFlight /\ InFlight \in 0..Owf
  BY <1>1, <1>2 DEF RingInv, RingType, Numbering, Filling, Ahead, InFlight
<1>5. InFlight' = InFlight + 1 /\ frames' # framesDone /\ curState \in busy'
  BY <1>1, <1>4 DEF InFlight, RingInv, RingType
<1>6. curState' = After(curState) /\ After(curState) \in States
  BY <1>1, <1>2, <1>5 DEF CallEncode, After, RingInv, RingType
<1>7. Numbering'
  BY <1>1, <1>4, <1>2 DEF Numbering, RingInv, RingType
<1>8. \A s \in States : Ahead(s)' = Ahead(s)
  BY <1>1, <1>3 DEF Ahead
<1>9. SlotsExact'
  <2>1. \A s \in States : s # curState => Ahead(s) # InFlight
    BY <1>2, <1>4 DEF Ahead, RingInv, RingType
  <2>2. \A s \in States : Ahead(s) \in Nat
    BY <1>2 DEF Ahead, RingInv, RingType
  <2>3. InFlight = frames - framesDone
    BY DEF InFlight
  <2>4. ASSUME NEW s \in States
        PROVE  /\ NoFrame <= slot'[s]
               /\ IF Ahead(s) < InFlight + 1
                    THEN slot'[s] = framesDone + Ahead(s) /\ s \in busy'
                    ELSE slot'[s] < framesDone /\ s \notin busy'
    <3>1. CASE s = curState
      BY <1>1, <1>4, <2>3, <3>1 DEF RingInv, RingType, NoFrame
    <3>2. CASE s # curState
      BY <1>1, <1>4, <2>1, <2>2, <3>2 DEF RingInv, RingType, SlotsExact
    <3> QED
      BY <3>1, <3>2
  <2> QED
    BY <1>1, <1>3, <1>5, <1>8, <2>4 DEF SlotsExact
<1>10. outState \in busy'
  BY <1>1, <1>2, <1>4 DEF RingInv, RingType, SlotsExact, Ahead, InFlight, Filling
<1>11. IF flush \/ curState' = outState THEN pc' = "wait" ELSE pc' = "call"
  BY <1>5, <1>10 DEF CallEncode, MustWait, Finish
<1>12. RingType'
  BY <1>1, <1>3, <1>4, <1>6, <1>11 DEF RingInv, RingType
<1>13. Filling'
  BY <1>1, <1>2, <1>3, <1>4, <1>5, <1>6, <1>11
     DEF RingInv, RingType, Filling, Ahead, After
<1> QED
  BY <1>7, <1>9, <1>12, <1>13 DEF RingInv

(* The jobs do not touch the ring.                                         *)
LEMMA JobsRing ==
  ASSUME RingInv, RunLcu \/ WriteBitstream \/ UNCHANGED pipeVars
  PROVE  RingInv'
<1>1. /\ frames' = frames /\ cfg' = cfg /\ pc' = pc
      /\ curState' = curState /\ outState' = outState /\ slot' = slot
      /\ busy' = busy /\ framesDone' = framesDone
      /\ prepared' = prepared /\ num' = num
  BY DEF RunLcu, EncodeLcu, WriteBitstream, pipeVars, allVars, vars, encVars, wfVars,
         ringVars, callVars
<1> QED
  BY <1>1 DEF RingInv, RingType, Numbering, Filling, SlotsExact, Ahead, InFlight,
              NumStates, States, Owf

LEMMA RingNext == RingInv /\ [PNext]_pipeVars => RingInv'
<1> SUFFICES ASSUME RingInv, [PNext]_pipeVars PROVE RingInv'
  OBVIOUS
<1>1. CASE CallPrepare
  BY <1>1, PrepareRing
<1>2. CASE \E flush \in BOOLEAN : CallEncode(flush)
  BY <1>2, NoFrameRing, FrameRing
<1>3. CASE CallOutput
  BY <1>3, OutputRing
<1>4. CASE RunLcu \/ WriteBitstream \/ UNCHANGED pipeVars
  BY <1>4, JobsRing
<1> QED
  BY <1>1, <1>2, <1>3, <1>4 DEF PNext, Calls

(* "The previous frame must be done before the next one is started": for   *)
(* every number of encoder states, every configuration and every sequence  *)
(* of calls of kvazaar_encode, with pictures or without, the state that is *)
(* used next is free, and frames come back in the order of their numbers.  *)
THEOREM RingIsReady == PSpec => []RingReady
<1>1. PInit => RingInv
  BY RingInit
<1>2. RingInv /\ [PNext]_pipeVars => RingInv'
  BY RingNext
<1>3. RingInv => RingReady
  BY RingInvImplies
<1> QED
  BY <1>1, <1>2, <1>3, PTL DEF PSpec

-----------------------------------------------------------------------------
(* The pipeline implements Wavefront.                                      *)

PipeInv == RingInv /\ WfInv /\ numOut \in Nat

LEMMA ModRange ==
  ASSUME NEW a \in Nat, NEW b \in Nat, b > 0
  PROVE  a % b \in 0..(b - 1)
OBVIOUS

(* In a low delay group the frames go through the table in order, so that  *)
(* the position is within it.                                              *)
LEMMA LowDelayOffset ==
  ASSUME cfg \in Configs, cfg.lowDelay, cfg.gopLen > 0, numOut \in Nat,
         EncodeNext \/ EncodeFlush, out' # None
  PROVE  out'.offset \in 0..(cfg.gopLen - 1)
<1>1. cfg.gopLen \in Nat /\ cfg.intraPeriod \in Nat /\ Direct
  BY ConfigsShape DEF Direct
<1>2. FeedDirect
  BY <1>1 DEF EncodeNext, EncodeFlush, Feed, FeedBuffered, Flush, ReturnNull
<1>3. out'.offset = DirectOffset
  BY <1>2 DEF FeedDirect, Return
<1>4. PICK n \in Nat : DirectOffset = (n + cfg.gopLen - 1) % cfg.gopLen
  <2>1. CASE cfg.intraPeriod > 0
    BY <1>1, <2>1, ModRange DEF DirectOffset
  <2>2. CASE ~(cfg.intraPeriod > 0)
    BY <1>1, <2>2 DEF DirectOffset
  <2> QED
    BY <2>1, <2>2
<1> QED
  BY <1>1, <1>3, <1>4, ModRange

LEMMA FirstRefNat ==
  ASSUME NEW c \in Configs, c.lowDelay, NEW i \in 1..c.gopLen
  PROVE  c.gop[i].neg[1] \in Nat
<1> DEFINE Entries == [poc : Nat, neg : Seq(Nat), pos : Seq(Nat), isRef : BOOLEAN]
<1>1. c.gop \in Seq(Entries) /\ Len(c.gop) = c.gopLen /\ c.gopLen \in Nat
  BY ConfigsShape
<1>2. c.gop[i] \in Entries
  <2> HIDE DEF Entries
  <2> QED
    BY <1>1
<1>3. c.gop[i].neg \in Seq(Nat)
  BY <1>2
<1>4. Len(c.gop[i].neg) > 0
  BY LowDelayRefs
<1>5. \A list \in Seq(Nat) : Len(list) > 0 => list[1] \in Nat
  OBVIOUS
<1> QED
  BY <1>3, <1>4, <1>5

(* The frame whose LCUs a new frame waits for has been started.            *)
LEMMA RefStateType ==
  ASSUME RingInv, numOut \in Nat, EncodeNext \/ EncodeFlush, out' # None
  PROVE  RefState(out'.offset) \in States \cup {NoState}
<1> DEFINE k == out'.offset
<1>1. Owf \in Nat /\ NumStates = Owf + 1 /\ States = 0..Owf /\ curState \in States
  BY OwfType DEF RingInv, RingType
<1>2. \A n \in 0..Owf : Back(curState, n) \in States
  BY <1>1 DEF Back
<1>3. Before(curState) \in States
  BY <1>1 DEF Before, Back
<1>4. CASE cfg.lowDelay /\ cfg.gopLen > 0
  <2>1. cfg \in Configs /\ k \in 0..(cfg.gopLen - 1)
    BY <1>4, LowDelayOffset DEF RingInv, RingType
  <2>2. cfg.gopLen \in Nat /\ k + 1 \in 1..cfg.gopLen
    BY <2>1, ConfigsShape
  <2>3. NearestRef(k) \in Nat
    BY <1>4, <2>1, <2>2, FirstRefNat DEF NearestRef
  <2>4. ~IsDone(NearestRef(k)) => NearestRef(k) \in 0..Owf
    BY <1>1, <2>3 DEF IsDone
  <2> QED
    BY <1>2, <1>3, <2>4 DEF RefState
<1>5. CASE ~(cfg.lowDelay /\ cfg.gopLen > 0)
  BY <1>3, <1>5 DEF RefState
<1> QED
  BY <1>4, <1>5

LEMMA SlotsStarted ==
  ASSUME RingInv, NEW s \in States
  PROVE  slot[s] \in Started \cup {NoFrame}
<1>1. Owf \in Nat /\ NumStates = Owf + 1 /\ States = 0..Owf
  BY OwfType DEF RingInv, RingType
<1>2. Ahead(s) \in Nat
  BY <1>1 DEF Ahead, RingInv, RingType
<1>3. frames \in Nat /\ framesDone \in Nat /\ framesDone <= frames /\ slot[s] \in Int
  BY <1>1 DEF RingInv, RingType, Filling, InFlight
<1>4. slot[s] >= -1 /\ slot[s] < frames
  BY <1>2, <1>3 DEF RingInv, SlotsExact, NoFrame, InFlight
<1> QED
  BY <1>3, <1>4 DEF Started, NoFrame

(* A frame that is covered refers to frames that have been started.        *)
LEMMA CoveredStarted ==
  ASSUME WfInv, NEW d \in Started \cup {NoFrame}, NEW R, Covered(d, R)
  PROVE  R \subseteq Started
<1> SUFFICES ASSUME NEW r \in R PROVE r \in Started
  OBVIOUS
<1>1. CASE r \in AwaitedVia(d)
  BY <1>1 DEF AwaitedVia, WfInv, WfTypeOK
<1>2. CASE Complete(r)
  <2>1. <<0, 0>> \in Lcus
    BY SizeAssumption DEF Lcus
  <2>2. <<r, <<0, 0>>>> \in recon
    BY <1>2, <2>1 DEF Complete
  <2> QED
    BY <2>2 DEF WfInv, WfTypeOK
<1> QED
  BY <1>1, <1>2 DEF Covered

LEMMA EncodeStartsFrame ==
  ASSUME PipeInv, NEW flush \in BOOLEAN, CallEncode(flush), out' # None,
         Covered(dependsOn'[frames], referred'[frames])
  PROVE  StartFrame
<1> DEFINE s == RefState(out'.offset)
           d == IF s = NoState THEN NoFrame ELSE slot[s]
<1>1. CreateJobs(d, ReferredFrames) /\ (EncodeNext \/ EncodeFlush)
  BY DEF CallEncode, EncodeOneFrame
<1>2. s \in States \cup {NoState}
  BY <1>1, RefStateType DEF PipeInv
<1>3. d \in Started \cup {NoFrame}
  BY <1>2, SlotsStarted DEF PipeInv
<1> HIDE DEF d
<1>4. dependsOn'[frames] = d /\ referred'[frames] = ReferredFrames
  BY <1>1 DEF CreateJobs, Extend, PipeInv, RingInv, RingType
<1>5. Covered(d, ReferredFrames)
  BY <1>4
<1>6. ReferredFrames \subseteq Started
  BY <1>3, <1>5, CoveredStarted DEF PipeInv
<1> QED
  BY <1>1, <1>3, <1>5, <1>6 DEF StartFrame

Waiting == frames' # frames => Covered(dependsOn'[frames], referred'[frames])

(* Every step of the pipeline is one of Wavefront, or none of its.         *)
LEMMA StepImplements ==
  ASSUME PipeInv, [PNext]_pipeVars, [Waiting]_pipeVars
  PROVE  [WfNext]_wfVars
<1>1. CASE CallPrepare \/ CallOutput \/ WriteBitstream \/ UNCHANGED pipeVars
  BY <1>1 DEF CallPrepare, CallOutput, WriteBitstream, pipeVars
<1>2. CASE RunLcu
  BY <1>2 DEF RunLcu, WfNext
<1>3. ASSUME NEW flush \in BOOLEAN, CallEncode(flush)
      PROVE  [WfNext]_wfVars
  <2>1. CASE out' = None
    BY <1>3, <2>1 DEF CallEncode
  <2>2. CASE out' # None
    <3>1. frames' # frames
      BY <1>3, <2>2 DEF CallEncode, EncodeOneFrame, CreateJobs, PipeInv, RingInv, RingType
    <3>2. Covered(dependsOn'[frames], referred'[frames])
      BY <3>1 DEF Waiting, pipeVars, wfVars
    <3> QED
      BY <1>3, <2>2, <3>2, EncodeStartsFrame DEF WfNext
  <2> QED
    BY <2>1, <2>2
<1> QED
  BY <1>1, <1>2, <1>3 DEF PNext, Calls

LEMMA NumOutNat ==
  ASSUME numOut \in Nat, [PNext]_pipeVars
  PROVE  numOut' \in Nat
<1>1. numOut' = numOut \/ numOut' = numOut + 1
  BY DEF PNext, Calls, CallPrepare, Prepare, CallEncode, EncodeNext, EncodeFlush, Feed,
         FeedDirect, FeedBuffered, Flush, Output, Take, Return, ReturnNull,
         CallOutput, RunLcu, WriteBitstream, pipeVars, allVars, vars
<1> QED
  BY <1>1

(* encoder_state_encode_leaf makes one dependency per LCU, on the frame    *)
(* that the state before or the first reference has coded.  If that covers *)
(* the references of every frame that is started, the jobs of the pipeline *)
(* are those of Wavefront, whatever order the pictures are coded in.       *)
THEOREM PipelineIsWavefront == PSpec /\ WaitsForReferences => WfSpec
<1>1. PInit => PipeInv /\ WfInit
  BY RingInit, InitInv DEF PInit, OInit, Init, PipeInv
<1>2. PipeInv /\ [PNext]_pipeVars /\ [Waiting]_pipeVars => [WfNext]_wfVars
  BY StepImplements
<1>3. PipeInv /\ [PNext]_pipeVars /\ [WfNext]_wfVars => PipeInv'
  BY RingNext, NumOutNat, NextInv DEF PipeInv
<1>4. WaitsForReferences <=> [][Waiting]_pipeVars
  BY DEF WaitsForReferences, Waiting
<1> QED
  BY <1>1, <1>2, <1>3, <1>4, PTL DEF PSpec, WfSpec

(* So WaitsForReferences is all that has to be checked of a configuration: *)
(* where it holds, what the motion vectors of an LCU may reach has been    *)
(* encoded before the job of the LCU runs, for every size of frame, every  *)
(* owf and every order of the jobs.                                        *)
THEOREM PipelineReferencesFinal ==
  PSpec /\ WaitsForReferences => []ReferencesFinal
BY PipelineIsWavefront, ReferencesAreFinal

-----------------------------------------------------------------------------
(* The bitstreams are written in order, and the caller gets all of them.   *)

(* What the ring and the input buffer count.                               *)
CountTypes == numIn \in Nat /\ numOut \in Nat /\ gapAt \in Nat

(* The first frames are written, those that were returned among them; a    *)
(* frame that does not wait for the one before was started after that one  *)
(* had been written.                                                       *)
StreamInv ==
  /\ \E k \in framesDone..frames : written = 0..(k - 1)
  /\ \A n \in Started : afterStream[n] = n - 1 \/ 0..(n - 1) \subseteq written

(* The number of frames in flight, when both fields of a picture are coded *)
(* in one call: as long as pictures come it is odd between the two fields  *)
(* or the ring is full; when the ring is emptied a call returns something  *)
(* in both halves, or in none.                                             *)
PairInv ==
  /\ second \in BOOLEAN /\ firstOut \in BOOLEAN /\ ended \in BOOLEAN
  /\ lost = {}
  /\ second => cfg.interlaced
  /\ pc = "wait" /\ second => firstOut
  /\ cfg.interlaced /\ pc = "call" /\ ~second => InFlight % 2 = 0
  /\ cfg.interlaced /\ pc = "call" /\ second /\ firstOut =>
       IF ended THEN InFlight % 2 = 1 ELSE InFlight = Owf
  /\ cfg.interlaced /\ pc = "call" /\ second /\ ~firstOut =>
       IF ended THEN InFlight = 0 ELSE InFlight % 2 = 1
  /\ cfg.interlaced /\ pc = "wait" /\ ~ended => InFlight = NumStates
  /\ cfg.interlaced /\ pc = "wait" /\ ended =>
       InFlight % 2 = IF second THEN 1 ELSE 0

LEMMA StreamInit == PInit => CountTypes /\ StreamInv /\ PairInv
<1> SUFFICES ASSUME PInit PROVE CountTypes /\ StreamInv /\ PairInv
  OBVIOUS
<1>1. CountTypes
  BY BoundsNat DEF PInit, OInit, Init, CountTypes
<1>2. frames = 0 /\ framesDone = 0 /\ written = {}
  BY DEF PInit, WfInit
<1>3. StreamInv
  BY <1>2 DEF StreamInv, Started
<1>4. second = FALSE /\ firstOut = FALSE /\ ended = FALSE /\ lost = {} /\ pc = "call"
  BY DEF PInit, OInit, Init
<1>5. InFlight % 2 = 0
  BY <1>2 DEF InFlight
<1>6. PairInv
  BY <1>4, <1>5 DEF PairInv
<1> QED
  BY <1>1, <1>3, <1>6

(* A picture that goes into the buffer or comes out of it is counted.      *)
LEMMA CountNext ==
  ASSUME CountTypes, [PNext]_pipeVars
  PROVE  CountTypes'
<1>1. /\ numOut' = numOut \/ numOut' = numOut + 1
      /\ numIn' = numIn \/ numIn' = numIn + 1
      /\ gapAt' = gapAt
  <2>1. CASE RunLcu \/ WriteBitstream \/ CallOutput \/ UNCHANGED pipeVars
    BY <2>1 DEF RunLcu, WriteBitstream, CallOutput, pipeVars, allVars, vars, bufVars
  <2>2. CASE CallPrepare
    BY <2>2 DEF CallPrepare, Prepare, vars, bufVars
  <2>3. CASE EncodeNext
    BY <2>3 DEF EncodeNext, Feed, FeedDirect, FeedBuffered, Output, Take, Return,
                ReturnNull, bufVars
  <2>4. CASE EncodeFlush
    BY <2>4 DEF EncodeFlush, Flush, Output, Take, Return, ReturnNull, bufVars
  <2> QED
    BY <2>1, <2>2, <2>3, <2>4 DEF PNext, Calls, CallEncode
<1> QED
  BY <1>1 DEF CountTypes

(* The bitstream of a new frame waits for the one before, or that one has  *)
(* been written and returned.                                              *)
LEMMA StreamBeforeIs ==
  ASSUME RingInv, pc = "call"
  PROVE  StreamBefore = frames - 1 \/ framesDone = frames
<1>1. Owf \in Nat /\ NumStates = Owf + 1 /\ States = 0..Owf
  BY OwfType DEF RingInv, RingType
<1>2. SUFFICES ASSUME framesDone # frames PROVE StreamBefore = frames - 1
  OBVIOUS
<1>3. Ahead(curState) = InFlight /\ InFlight \in 1..Owf
  BY <1>1, <1>2 DEF RingInv, RingType, Filling, Ahead, InFlight
<1>4. Before(curState) \in States /\ Ahead(Before(curState)) = InFlight - 1
  BY <1>1, <1>3 DEF Before, Back, Ahead, RingInv, RingType
<1>5. slot[Before(curState)] = frames - 1 /\ Before(curState) \in busy
  BY <1>3, <1>4 DEF RingInv, RingType, SlotsExact, InFlight
<1> QED
  BY <1>5 DEF StreamBefore

LEMMA StreamNext ==
  ASSUME RingInv, RingInv', StreamInv, [PNext]_pipeVars
  PROVE  StreamInv'
<1>1. PICK k \in framesDone..frames : written = 0..(k - 1)
  BY DEF StreamInv
<1>2. frames \in Nat /\ framesDone \in Nat
  BY DEF RingInv, RingType
<1>3. CASE CallPrepare \/ RunLcu \/ UNCHANGED pipeVars
  <2>1. UNCHANGED <<framesDone, frames, written, afterStream>>
    BY <1>3 DEF CallPrepare, RunLcu, EncodeLcu, pipeVars, wfVars, ringVars
  <2> QED
    BY <2>1 DEF StreamInv, Started
<1>4. CASE CallOutput
  <2>1. /\ framesDone' = framesDone + 1 /\ UNCHANGED <<frames, written, afterStream>>
        /\ slot[outState] \in written /\ pc = "wait"
    BY <1>4 DEF CallOutput, wfVars
  <2>2. framesDone \in written
    BY <2>1, RingInvImplies DEF RingReady
  <2>3. k \in (framesDone + 1)..frames
    BY <1>1, <1>2, <2>2
  <2>4. \E j \in framesDone'..frames' : written' = 0..(j - 1)
    BY <1>1, <2>1, <2>3
  <2> QED
    BY <2>1, <2>4 DEF StreamInv, Started
<1>5. CASE WriteBitstream
  <2>1. PICK n \in Started \ written : /\ afterStream[n] \in written \cup {NoFrame}
                                       /\ written' = written \cup {n}
                                       /\ UNCHANGED <<framesDone, frames, afterStream>>
    BY <1>5 DEF WriteBitstream, wfVars, ringVars
  <2>2. n \in Nat /\ n < frames /\ n >= k
    BY <1>1, <1>2, <2>1 DEF Started
  <2>3. n <= k
    <3>1. CASE afterStream[n] = n - 1
      BY <1>1, <1>2, <2>1, <2>2, <3>1 DEF NoFrame
    <3>2. CASE 0..(n - 1) \subseteq written
      <4> SUFFICES ASSUME n > k PROVE FALSE
        BY <1>1, <1>2, <2>2
      <4>1. k \in 0..(n - 1)
        BY <1>1, <1>2, <2>2
      <4> QED
        BY <1>1, <1>2, <3>2, <4>1
    <3> QED
      BY <2>1, <3>1, <3>2 DEF StreamInv
  <2>4. n = k
    BY <1>1, <1>2, <2>2, <2>3
  <2>5. written' = 0..k
    BY <1>1, <1>2, <2>1, <2>4
  <2>6. k + 1 \in framesDone..frames /\ k + 1 - 1 = k
    BY <1>1, <1>2, <2>2, <2>4
  <2>7. \E j \in framesDone..frames : written' = 0..(j - 1)
    BY <2>5, <2>6
  <2> QED
    BY <2>1, <2>7 DEF StreamInv, Started
<1>6. ASSUME NEW flush \in BOOLEAN, CallEncode(flush)
      PROVE  StreamInv'
  <2>1. framesDone' = framesDone /\ written' = written /\ pc = "call"
    BY <1>6 DEF CallEncode
  <2>2. CASE out' = None
    <3>1. UNCHANGED <<frames, afterStream>>
      BY <1>6, <2>2 DEF CallEncode, wfVars
    <3> QED
      BY <2>1, <3>1 DEF StreamInv, Started
  <2>3. CASE out' # None
    <3>1. frames' = frames + 1 /\ afterStream' = Extend(afterStream, StreamBefore)
      BY <1>6, <2>3 DEF CallEncode, EncodeOneFrame, CreateJobs
    <3>2. \E j \in framesDone'..frames' : written' = 0..(j - 1)
      BY <1>1, <1>2, <2>1, <3>1
    <3>3. Started' = 0..frames
      BY <1>2, <3>1 DEF Started
    <3>4. framesDone = frames => 0..(frames - 1) \subseteq written
      BY <1>1, <1>2
    <3>5. ASSUME NEW n \in 0..frames
          PROVE  afterStream'[n] = n - 1 \/ 0..(n - 1) \subseteq written
      <4>1. CASE n = frames
        BY <2>1, <3>1, <3>4, <4>1, StreamBeforeIs DEF Extend
      <4>2. CASE n # frames
        <5>1. n \in Started
          BY <1>2, <4>2 DEF Started
        <5>2. afterStream'[n] = afterStream[n]
          BY <3>1, <4>2 DEF Extend
        <5> QED
          BY <5>1, <5>2 DEF StreamInv
      <4> QED
        BY <4>1, <4>2
    <3> QED
      BY <2>1, <3>2, <3>3, <3>5 DEF StreamInv
  <2> QED
    BY <2>2, <2>3
<1> QED
  BY <1>3, <1>4, <1>5, <1>6 DEF PNext, Calls

-----------------------------------------------------------------------------
(* Two calls for a picture.                                                *)

(* Fields are coded without groups or in low delay groups: the pictures    *)
(* come out of the input buffer as they go in.                             *)
FieldsDirect == \A c \in Configs : c.interlaced => c.gopLen = 0 \/ c.lowDelay

(* The number of frames in flight is even when all states but one are busy.*)
LEMMA OwfEven ==
  ASSUME cfg \in Configs, cfg.interlaced
  PROVE  Owf % 2 = 0
BY MoreConfigs DEF Owf

(* A picture that goes in comes out.                                       *)
LEMMA FeedReturns ==
  ASSUME FieldsDirect, cfg \in Configs, cfg.interlaced, CountTypes, EncodeNext
  PROVE  out' # None
<1>1. Direct
  BY DEF FieldsDirect, Direct
<1>2. FeedDirect
  BY <1>1 DEF EncodeNext, Feed, FeedBuffered
<1>3. out' = [pic |-> numIn, dts |-> Pts(numIn), offset |-> DirectOffset]
  BY <1>2 DEF FeedDirect, Return
<1>4. Pts(numIn) \in Int /\ numIn \in Nat
  BY BoundsNat DEF Pts, CountTypes
<1>5. DirectOffset \in Nat
  <2>1. cfg.gopLen \in Nat /\ cfg.intraPeriod \in Nat
    BY ConfigsShape
  <2>2. CASE cfg.gopLen = 0
    BY <2>2 DEF DirectOffset
  <2>3. CASE cfg.gopLen # 0 /\ cfg.intraPeriod > 0
    <3>1. numOut % cfg.intraPeriod \in Nat
      BY <2>1, <2>3, ModRange DEF CountTypes
    <3>2. (numOut % cfg.intraPeriod) + cfg.gopLen - 1 \in Nat
      BY <2>1, <2>3, <3>1
    <3> QED
      BY <2>1, <2>3, <3>2, ModRange DEF DirectOffset
  <2>4. CASE cfg.gopLen # 0 /\ ~(cfg.intraPeriod > 0)
    <3>1. numOut + cfg.gopLen - 1 \in Nat
      BY <2>1, <2>4 DEF CountTypes
    <3> QED
      BY <2>1, <2>4, <3>1, ModRange DEF DirectOffset
  <2> QED
    BY <2>2, <2>3, <2>4
<1> QED
  BY <1>3, <1>4, <1>5, NoneNew

(* How many frames are in flight after a call, and whether it returns one. *)
LEMMA CallRing ==
  ASSUME RingInv, RingInv', NEW flush \in BOOLEAN, CallEncode(flush)
  PROVE  /\ pc = "call" /\ cfg' = cfg /\ Owf' = Owf /\ NumStates' = NumStates
         /\ InFlight' = IF out' = None THEN InFlight ELSE InFlight + 1
         /\ pc' = "wait" <=> InFlight' > 0 /\ (flush \/ InFlight' = NumStates)
         /\ pc' = "wait" => UNCHANGED <<second, firstOut, lost>>
         /\ pc' # "wait" => Finish(NoFrame)
<1>1. Owf \in Nat /\ NumStates = Owf + 1 /\ States = 0..Owf
  BY OwfType DEF RingInv, RingType
<1>2. cfg' = cfg
  BY DEF CallEncode, EncodeFlush, EncodeNext, Feed, Flush
<1>3. Owf' = Owf /\ NumStates' = NumStates
  BY <1>2 DEF Owf, NumStates
<1>4. /\ pc = "call" /\ framesDone' = framesDone /\ outState' = outState
      /\ frames' = IF out' = None THEN frames ELSE frames + 1
  BY DEF CallEncode, wfVars, EncodeOneFrame, CreateJobs
<1>5. InFlight' = IF out' = None THEN InFlight ELSE InFlight + 1
  BY <1>4 DEF InFlight, RingInv, RingType
<1>6. InFlight' \in 0..NumStates /\ (frames' # framesDone <=> InFlight' > 0)
  BY <1>3, <1>4 DEF RingInv, RingType, Filling, InFlight
<1>7. InFlight' > 0 <=> outState \in busy'
  BY <1>1, <1>3, <1>4, <1>6 DEF RingInv, RingType, SlotsExact, Ahead
<1>8. InFlight' > 0 => (curState' = outState <=> InFlight' = NumStates)
  <2>1. curState' = outState => InFlight' \in {0, NumStates}
    BY <1>3, <1>4, <1>6 DEF RingInv, Filling
  <2>2. curState' # outState => Ahead(curState)' = InFlight'
    BY <1>4 DEF RingInv, Filling
  <2>3. curState' # outState => Ahead(curState)' < NumStates
    <3>1. States' = 0..Owf
      BY <1>1, <1>2 DEF States, Owf
    <3>2. PICK c \in 0..Owf, o \in 0..Owf : c = curState' /\ o = outState'
      BY <3>1 DEF RingInv, RingType
    <3>3. Ahead(curState)' = IF c >= o THEN c - o ELSE c - o + NumStates
      BY <1>3, <3>2 DEF Ahead
    <3>4. curState' = c /\ NumStates = Owf + 1 /\ c - o + NumStates = c - o + Owf + 1
      BY <1>1, <3>2
    <3>5. c < o => c - o + NumStates < NumStates
      BY <1>1
    <3> HIDE DEF NumStates
    <3> QED
      BY <1>1, <3>3, <3>5
  <2> QED
    BY <1>1, <1>6, <2>1, <2>2, <2>3
<1>9. IF InFlight' > 0 /\ (flush \/ InFlight' = NumStates)
        THEN pc' = "wait" /\ UNCHANGED <<second, firstOut, lost>>
        ELSE Finish(NoFrame)
  <2>1. IF frames' # framesDone /\ outState \in busy' /\ MustWait(flush)
          THEN pc' = "wait" /\ UNCHANGED <<second, firstOut, lost>>
          ELSE Finish(NoFrame)
    BY DEF CallEncode
  <2>2. InFlight' > 0 => (MustWait(flush) <=> flush \/ InFlight' = NumStates)
    BY <1>8 DEF MustWait
  <2> QED
    BY <1>6, <1>7, <2>1, <2>2
<1> QED
  BY <1>2, <1>3, <1>4, <1>5, <1>9 DEF Finish

(* A call with pictures, and one without.                                  *)
LEMMA FeedPair ==
  ASSUME FieldsDirect, CountTypes, RingInv, RingInv', PairInv,
         CallEncode(FALSE)
  PROVE  PairInv'
<1>1. Owf \in Nat /\ NumStates = Owf + 1
  BY OwfType DEF RingInv, RingType
<1>2. EncodeNext /\ ~ended /\ ~ended' /\ ended' \in BOOLEAN
  <2>1. EncodeNext /\ ~ended /\ ended' = ended
    BY DEF CallEncode, EncodeNext, Feed
  <2>2. ended \in BOOLEAN
    BY DEF PairInv
  <2> QED
    BY <2>1, <2>2, Zenon
<1>3. /\ pc = "call" /\ cfg' = cfg /\ Owf' = Owf /\ NumStates' = NumStates
      /\ pc' = "wait" <=> InFlight' > 0 /\ InFlight' = NumStates
      /\ pc' = "wait" => UNCHANGED <<second, firstOut, lost>>
      /\ pc' # "wait" => Finish(NoFrame)
  BY CallRing
<1>4. pc' # "wait" => /\ second' \in BOOLEAN /\ (second' <=> cfg.interlaced /\ ~second)
                      /\ firstOut' = FALSE /\ lost' = lost /\ pc' = "call"
  <2>1. Finish(NoFrame) =>
          /\ second' = (cfg.interlaced /\ ~second) /\ firstOut' = (NoFrame # NoFrame)
          /\ lost' = lost /\ pc' = "call"
    BY Zenon DEF Finish
  <2>2. Finish(NoFrame) => second' \in BOOLEAN /\ (second' <=> cfg.interlaced /\ ~second)
                           /\ firstOut' = FALSE
    BY <2>1, Zenon
  <2> QED
    BY <1>3, <2>1, <2>2, Zenon
<1>5. cfg \in Configs /\ cfg.interlaced \in BOOLEAN
  BY MoreConfigs DEF RingInv, RingType
<1>6. lost' = {} /\ second' \in BOOLEAN /\ firstOut' \in BOOLEAN
      /\ (second' => cfg'.interlaced)
  <2>1. lost = {} /\ second \in BOOLEAN /\ firstOut \in BOOLEAN
        /\ (second => cfg.interlaced)
    BY DEF PairInv
  <2>2. CASE pc' = "wait"
    <3>1. lost' = lost /\ second' = second /\ firstOut' = firstOut /\ cfg' = cfg
      BY <1>3, <2>2, Zenon
    <3> QED
      BY <2>1, <3>1, Zenon
  <2>3. CASE pc' # "wait"
    <3>1. firstOut' \in BOOLEAN
      BY <1>4, <2>3, Zenon
    <3> QED
      BY <1>3, <1>4, <2>1, <2>3, <3>1, Zenon
  <2> QED
    BY <2>2, <2>3
<1>7. CASE ~cfg.interlaced
  <2>1. ~second /\ ~second'
    BY <1>2, <1>3, <1>6, <1>7 DEF PairInv
  <2> QED
    BY <1>2, <1>3, <1>6, <1>7, <2>1 DEF PairInv
<1>8. CASE cfg.interlaced
  <2>1. InFlight' = InFlight + 1 /\ InFlight \in 0..Owf /\ Owf % 2 = 0
    <3>1. out' # None
      BY <1>2, <1>5, <1>8, FeedReturns
    <3>2. InFlight' = InFlight + 1
      BY <3>1, CallRing
    <3>3. InFlight \in 0..Owf
      BY <1>1, <1>3 DEF RingInv, Filling
    <3> QED
      BY <1>5, <1>8, <3>2, <3>3, OwfEven
  <2>2. CASE ~second
    <3>1. InFlight % 2 = 0
      BY <1>3, <1>8, <2>2 DEF PairInv
    <3>2. (InFlight + 1) % 2 = 1
      BY <2>1, <3>1
    <3>3. pc' # "wait" => second'
      BY <1>4, <1>8, <2>2
    <3>4. pc' = "wait" => ~second' /\ InFlight' = NumStates
      BY <1>3, <2>2
    <3>5. pc' # "wait" => ~firstOut' /\ pc' = "call"
      BY <1>4
    <3> QED
      BY <1>2, <1>3, <1>6, <2>1, <3>2, <3>3, <3>4, <3>5 DEF PairInv
  <2>3. CASE second /\ firstOut
    <3>1. InFlight = Owf
      BY <1>2, <1>3, <1>8, <2>3 DEF PairInv
    <3>2. pc' = "wait" /\ InFlight' = NumStates
      BY <1>1, <1>3, <2>1, <3>1
    <3>3. second' /\ firstOut'
      BY <1>3, <2>3, <3>2
    <3> QED
      BY <1>2, <1>3, <1>6, <3>2, <3>3 DEF PairInv
  <2>4. CASE second /\ ~firstOut
    <3>1. InFlight % 2 = 1
      BY <1>2, <1>3, <1>8, <2>4 DEF PairInv
    <3>2. (InFlight + 1) % 2 = 0 /\ InFlight # Owf
      BY <2>1, <3>1
    <3>3. pc' # "wait"
      BY <1>1, <1>3, <2>1, <3>2
    <3>4. ~second' /\ pc' = "call"
      BY <1>4, <2>4, <3>3
    <3> QED
      BY <1>2, <1>3, <1>6, <2>1, <3>2, <3>4 DEF PairInv
  <2> QED
    BY <2>2, <2>3, <2>4
<1> QED
  BY <1>7, <1>8

LEMMA FlushPair ==
  ASSUME FieldsDirect, RingInv, RingInv', PairInv, CallEncode(TRUE)
  PROVE  PairInv'
<1>1. Owf \in Nat /\ NumStates = Owf + 1
  BY OwfType DEF RingInv, RingType
<1>2. EncodeFlush /\ ended' = TRUE /\ (second => ended)
  BY DEF CallEncode, EncodeFlush, Flush, BothFields
<1>3. /\ pc = "call" /\ cfg' = cfg /\ Owf' = Owf /\ NumStates' = NumStates
      /\ pc' = "wait" <=> InFlight' > 0
      /\ pc' = "wait" => UNCHANGED <<second, firstOut, lost>>
      /\ pc' # "wait" => Finish(NoFrame)
  BY CallRing
<1>4. pc' # "wait" => /\ second' \in BOOLEAN /\ (second' <=> cfg.interlaced /\ ~second)
                      /\ firstOut' = FALSE /\ lost' = lost /\ pc' = "call"
  <2>1. Finish(NoFrame) =>
          /\ second' = (cfg.interlaced /\ ~second) /\ firstOut' = (NoFrame # NoFrame)
          /\ lost' = lost /\ pc' = "call"
    BY Zenon DEF Finish
  <2>2. Finish(NoFrame) => second' \in BOOLEAN /\ (second' <=> cfg.interlaced /\ ~second)
                           /\ firstOut' = FALSE
    BY <2>1, Zenon
  <2> QED
    BY <1>3, <2>1, <2>2, Zenon
<1>5. cfg \in Configs /\ cfg.interlaced \in BOOLEAN
  BY MoreConfigs DEF RingInv, RingType
<1>6. lost' = {} /\ second' \in BOOLEAN /\ firstOut' \in BOOLEAN
      /\ (second' => cfg'.interlaced)
  <2>1. lost = {} /\ second \in BOOLEAN /\ firstOut \in BOOLEAN
        /\ (second => cfg.interlaced)
    BY DEF PairInv
  <2>2. CASE pc' = "wait"
    <3>1. lost' = lost /\ second' = second /\ firstOut' = firstOut /\ cfg' = cfg
      BY <1>3, <2>2, Zenon
    <3> QED
      BY <2>1, <3>1, Zenon
  <2>3. CASE pc' # "wait"
    <3>1. firstOut' \in BOOLEAN
      BY <1>4, <2>3, Zenon
    <3> QED
      BY <1>3, <1>4, <2>1, <2>3, <3>1, Zenon
  <2> QED
    BY <2>2, <2>3
<1>7. CASE ~cfg.interlaced
  <2>1. ~second /\ ~second'
    BY <1>2, <1>3, <1>6, <1>7 DEF PairInv
  <2> QED
    BY <1>2, <1>3, <1>6, <1>7, <2>1 DEF PairInv
<1>8. CASE cfg.interlaced
  <2>1. InFlight' = InFlight /\ InFlight \in 0..Owf
    <3>1. Direct
      BY <1>5, <1>8 DEF FieldsDirect, Direct
    <3>2. out' = None
      BY <1>2, <3>1 DEF EncodeFlush, Flush, ReturnNull
    <3>3. InFlight' = InFlight
      BY <3>2, CallRing
    <3> QED
      BY <1>1, <1>3, <3>3 DEF RingInv, Filling
  <2>2. CASE ~second
    <3>1. InFlight % 2 = 0
      BY <1>3, <1>8, <2>2 DEF PairInv
    <3>2. pc' # "wait" => second' /\ ~firstOut' /\ pc' = "call" /\ InFlight' = 0
      BY <1>3, <1>4, <1>8, <2>1, <2>2
    <3>3. pc' = "wait" => ~second'
      BY <1>3, <2>2
    <3> QED
      BY <1>2, <1>3, <1>6, <2>1, <3>1, <3>2, <3>3 DEF PairInv
  <2>3. CASE second /\ firstOut
    <3>1. InFlight % 2 = 1
      BY <1>2, <1>3, <1>8, <2>3 DEF PairInv
    <3>2. InFlight # 0
      BY <3>1
    <3>3. pc' = "wait"
      BY <1>3, <2>1, <3>2
    <3>4. second' /\ firstOut'
      BY <1>3, <2>3, <3>3
    <3> QED
      BY <1>2, <1>3, <1>6, <2>1, <3>1, <3>3, <3>4 DEF PairInv
  <2>4. CASE second /\ ~firstOut
    <3>1. InFlight = 0
      BY <1>2, <1>3, <1>8, <2>4 DEF PairInv
    <3>2. pc' # "wait"
      BY <1>3, <2>1, <3>1
    <3>3. ~second' /\ pc' = "call" /\ InFlight' % 2 = 0
      BY <1>4, <2>1, <2>4, <3>1, <3>2
    <3> QED
      BY <1>2, <1>3, <1>6, <3>3 DEF PairInv
  <2> QED
    BY <2>2, <2>3, <2>4
<1> QED
  BY <1>7, <1>8

(* A frame is returned: after the first field, or after both.              *)
LEMMA OutputPair ==
  ASSUME RingInv, PairInv, CallOutput
  PROVE  PairInv'
<1>1. Owf \in Nat /\ NumStates = Owf + 1
  BY OwfType DEF RingInv, RingType
<1>2. /\ pc = "wait" /\ pc' = "call" /\ ended' = ended /\ cfg' = cfg
      /\ second' = (cfg.interlaced /\ ~second) /\ firstOut' = (slot[outState] # NoFrame)
      /\ lost' = IF second /\ ~firstOut /\ slot[outState] # NoFrame
                   THEN lost \cup {slot[outState]} ELSE lost
      /\ framesDone' = framesDone + 1 /\ frames' = frames
  BY DEF CallOutput, Finish, allVars, vars, wfVars
<1>3. Owf' = Owf /\ NumStates' = NumStates
  BY <1>2 DEF Owf, NumStates
<1>4. slot[outState] # NoFrame
  <2>1. framesDone \in Nat /\ slot[outState] = framesDone
    BY <1>2, RingInvImplies DEF RingInv, RingType, RingReady
  <2> QED
    BY <2>1 DEF NoFrame
<1>5. InFlight' = InFlight - 1 /\ InFlight \in 1..NumStates
  BY <1>1, <1>2 DEF RingInv, RingType, Filling, InFlight
<1>6. lost' = {}
  BY <1>2 DEF PairInv
<1>7. firstOut' = TRUE
  BY <1>2, <1>4
<1>8. cfg \in Configs /\ cfg.interlaced \in BOOLEAN
  BY MoreConfigs DEF RingInv, RingType
<1>9. second' \in BOOLEAN /\ ended' \in BOOLEAN /\ (second' => cfg'.interlaced)
  BY <1>2, <1>8 DEF PairInv
<1>10. CASE ~cfg.interlaced
  <2>1. ~second'
    BY <1>2, <1>10
  <2> QED
    BY <1>2, <1>6, <1>7, <1>9, <1>10, <2>1 DEF PairInv
<1>11. CASE cfg.interlaced /\ ~second
  <2>1. second'
    BY <1>2, <1>11
  <2>2. IF ended THEN InFlight % 2 = 0 ELSE InFlight = NumStates
    BY <1>2, <1>11 DEF PairInv
  <2>3. IF ended THEN InFlight' % 2 = 1 ELSE InFlight' = Owf
    BY <1>1, <1>5, <2>2
  <2> QED
    BY <1>2, <1>3, <1>6, <1>7, <1>9, <2>1, <2>3 DEF PairInv
<1>12. CASE cfg.interlaced /\ second
  <2>1. ~second'
    BY <1>2, <1>12
  <2>2. IF ended THEN InFlight % 2 = 1 ELSE InFlight = NumStates
    BY <1>2, <1>12 DEF PairInv
  <2>3. Owf % 2 = 0
    BY <1>8, <1>12, OwfEven
  <2>4. InFlight' % 2 = 0
    BY <1>1, <1>5, <2>2, <2>3
  <2> QED
    BY <1>2, <1>6, <1>7, <1>9, <2>1, <2>4 DEF PairInv
<1> QED
  BY <1>10, <1>11, <1>12

LEMMA PairNext ==
  ASSUME FieldsDirect, CountTypes, RingInv, RingInv', PairInv, [PNext]_pipeVars
  PROVE  PairInv'
<1>1. CASE CallPrepare \/ RunLcu \/ WriteBitstream \/ UNCHANGED pipeVars
  <2>1. UNCHANGED <<cfg, ended, frames, framesDone, callVars>>
    BY <1>1 DEF CallPrepare, Prepare, RunLcu, EncodeLcu, WriteBitstream, pipeVars,
                allVars, vars, wfVars, ringVars
  <2> QED
    BY <2>1 DEF PairInv, callVars, InFlight, Owf, NumStates
<1>2. CASE CallOutput
  BY <1>2, OutputPair
<1>3. ASSUME NEW flush \in BOOLEAN, CallEncode(flush)
      PROVE  PairInv'
  <2>1. CASE flush = TRUE
    BY <1>3, <2>1, FlushPair
  <2>2. CASE flush = FALSE
    BY <1>3, <2>2, FeedPair
  <2> QED
    BY <2>1, <2>2
<1> QED
  BY <1>1, <1>2, <1>3 DEF PNext, Calls

LEMMA StreamsImplied ==
  ASSUME RingInv, StreamInv, PairInv
  PROVE  StreamsInOrder
<1>1. PICK k \in framesDone..frames : written = 0..(k - 1)
  BY DEF StreamInv
<1>2. k \in Nat
  BY <1>1 DEF RingInv, RingType
<1> DEFINE m == k - 1
<1>3. m \in Int /\ 0 \in Int /\ k = IF 0 > m THEN 0 ELSE m - 0 + 1
  BY <1>2
<1>4. Cardinality(0..m) = IF 0 > m THEN 0 ELSE m - 0 + 1
  <2> HIDE DEF m
  <2> QED
    BY <1>3, FS_Interval, Zenon
<1>5. Cardinality(written) = k
  BY <1>1, <1>3, <1>4
<1> QED
  BY <1>1, <1>5 DEF StreamsInOrder, PairInv

(* The bitstream jobs run in the order of the frames, so that each finds   *)
(* the counters of the frame before; and if fields are coded without       *)
(* pictures being reordered, the call that codes both returns both         *)
(* bitstreams: an even owf is enough for any number of pictures.           *)
THEOREM StreamsInOrderCorrect ==
  ASSUME FieldsDirect
  PROVE  PSpec => []StreamsInOrder
<1>1. PInit => RingInv /\ CountTypes /\ StreamInv /\ PairInv
  BY RingInit, StreamInit
<1>2. RingInv /\ CountTypes /\ StreamInv /\ PairInv /\ [PNext]_pipeVars
        => (RingInv /\ CountTypes /\ StreamInv /\ PairInv)'
  BY RingNext, CountNext, StreamNext, PairNext
<1>3. RingInv /\ StreamInv /\ PairInv => StreamsInOrder
  BY StreamsImplied
<1> QED
  BY <1>1, <1>2, <1>3, PTL DEF PSpec
=============================================================================
