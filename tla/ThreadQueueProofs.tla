-------------------------- MODULE ThreadQueueProofs --------------------------
(***************************************************************************)
(* Theorems about ThreadQueue, for any numbers of jobs and worker threads: *)
(* its inductive invariant, what follows from it, and that the queue       *)
(* implements JobScheduler.                                                *)
(***************************************************************************)
EXTENDS ThreadQueue, TLAPS, FiniteSetTheorems, FunctionTheorems

(* Every variable has its type in the initial state.                       *)
LEMMA TypeInit == Init => TypeOK
<1> SUFFICES ASSUME Init PROVE TypeOK
  OBVIOUS
<1>1. QueueTypeOK
  <2>1. queue \in Seq(Jobs) /\ waitset \subseteq Workers
    BY DEF Init
  <2>2. qlock \in Threads \cup {Nobody} /\ running \in Int
    BY DEF Init, Threads
  <2>3. stop \in BOOLEAN
    BY DEF Init
  <2> QED
    BY <2>1, <2>2, <2>3 DEF QueueTypeOK
<1>2. JobTypeOK
  <2>1. \A j \in Jobs : rdepends[j] = <<>> /\ served[j] = 0
    BY DEF Init
  <2>2. \A j \in Jobs : served[j] <= Len(rdepends[j])
    BY <2>1
  <2>3. rdepends \in [Jobs -> Seq(Jobs)]
    BY DEF Init
  <2> QED
    BY <2>2, <2>3 DEF Init, JobTypeOK, JobStates
<1>3. WorkerTypeOK
  BY DEF Init, WorkerTypeOK, WPoints, WHasJob, WHoldsJob
<1>4. MainTypeOK
  BY DEF Init, MainTypeOK, MPoints, MHasJob
<1> QED
  BY <1>1, <1>2, <1>3, <1>4 DEF TypeOK

(* The entry of rdepends that a worker deals with next is a job.           *)
LEMMA NextDepType ==
  ASSUME NEW w \in Workers, TypeOK, WDepDone(w)
  PROVE  wjob[w] \in Jobs /\ NextDep(w) \in Jobs
<1>1. wjob[w] \in Jobs
  BY DEF WDepDone, TypeOK, WorkerTypeOK, WHasJob, WHoldsJob
<1>2. rdepends \in [Jobs -> Seq(Jobs)] /\ served \in [Jobs -> Nat]
  BY DEF TypeOK, JobTypeOK
<1>3. served[wjob[w]] < Len(rdepends[wjob[w]])
  BY DEF WDepDone
<1>4. rdepends[wjob[w]][served[wjob[w]] + 1] \in Jobs
  BY <1>1, <1>2, <1>3
<1> QED
  BY <1>1, <1>4 DEF NextDep

(* A step of a worker preserves the types.                                 *)
LEMMA TypeWorker ==
  ASSUME NEW w \in Workers, TypeOK, WorkerStep(w)
  PROVE  TypeOK'
<1> USE DEF TypeOK, queueVars, jobVars, wVars, mVars
<1>1. QueueTypeOK'
  <2>1. CASE WPop(w)
    BY <2>1 DEF WPop, QueueTypeOK
  <2>2. CASE WDepDone(w)
    <3>1. NextDep(w) \in Jobs
      BY <2>2, NextDepType
    <3>2. queue' = queue \/ queue' = Append(queue, NextDep(w))
      BY <2>2 DEF WDepDone, PushJob
    <3>3. queue' \in Seq(Jobs)
      BY <3>1, <3>2 DEF QueueTypeOK
    <3> QED
      BY <2>2, <3>3 DEF WDepDone, QueueTypeOK
  <2>3. CASE WRelease(w)
    BY <2>3 DEF WRelease, SignalAvailable, QueueTypeOK
  <2> QED
    BY <2>1, <2>2, <2>3 DEF WorkerStep, QueueTypeOK, Threads, WLock, WWait,
       WExit, WStart, WEndRun, WRelock, WFinish, WDepFree, WDepsDone
<1>2. JobTypeOK'
  <2>1. CASE WDepDone(w)
    <3>1. NextDep(w) \in Jobs /\ wjob[w] \in Jobs
      BY <2>1, NextDepType
    <3>2. served' \in [Jobs -> Nat]
      <4>1. served' = [served EXCEPT ![wjob[w]] = @ + 1]
        BY <2>1 DEF WDepDone
      <4> QED
        BY <3>1, <4>1 DEF JobTypeOK
    <3>3. \A j \in Jobs : served'[j] <= Len(rdepends'[j])
      <4>1. \A j \in Jobs : Len(rdepends[j]) \in Nat
        BY DEF JobTypeOK
      <4>2. rdepends' = rdepends
        BY <2>1 DEF WDepDone
      <4> QED
        BY <2>1, <3>1, <4>1, <4>2 DEF WDepDone, JobTypeOK
    <3>4. /\ state' = state \/ state' = [state EXCEPT ![NextDep(w)] = "READY"]
          /\ \/ refcount' = refcount
             \/ refcount' = [refcount EXCEPT ![NextDep(w)] = @ + 1]
          /\ ndepends' = [ndepends EXCEPT ![NextDep(w)] = @ - 1]
          /\ UNCHANGED <<jlock, rdepends, deps>>
      BY <2>1 DEF WDepDone, PushJob
    <3>5. state' \in [Jobs -> JobStates]
      BY <3>1, <3>4 DEF JobTypeOK, JobStates
    <3>6. refcount' \in [Jobs -> Int]
      BY <3>1, <3>4 DEF JobTypeOK
    <3>7. ndepends' \in [Jobs -> Int]
      BY <3>1, <3>4 DEF JobTypeOK
    <3> QED
      BY <3>2, <3>3, <3>4, <3>5, <3>6, <3>7 DEF JobTypeOK
  <2>2. CASE WDepsDone(w)
    <3>1. wjob[w] \in Jobs
      BY <2>2 DEF WDepsDone, WorkerTypeOK, WHasJob, WHoldsJob
    <3>2. rdepends' \in [Jobs -> Seq(Jobs)] /\ served' \in [Jobs -> Nat]
      BY <2>2, <3>1 DEF WDepsDone, ClearRdepends, JobTypeOK
    <3>3. \A j \in Jobs : served'[j] <= Len(rdepends'[j])
      BY <2>2, <3>1 DEF WDepsDone, ClearRdepends, JobTypeOK
    <3> QED
      BY <2>2, <3>2, <3>3 DEF WDepsDone, JobTypeOK, Threads
  <2>3. CASE WStart(w)
    BY <2>3 DEF WStart, JobTypeOK, JobStates
  <2>5. CASE WFinish(w)
    BY <2>5 DEF WFinish, JobTypeOK, JobStates, Threads
  <2>4. CASE WDepFree(w) \/ WRelease(w)
    BY <2>4 DEF WDepFree, WRelease, JobTypeOK
  <2> QED
    BY <2>1, <2>2, <2>3, <2>4, <2>5 DEF WorkerStep, JobTypeOK, WLock, WWait, WExit,
       WPop, WEndRun, WRelock
<1>3. WorkerTypeOK'
  <2> USE DEF Goto, WPoints, WHasJob, WHoldsJob, WHoldsQueue
  <2>1. CASE WPop(w)
    <3>1. Head(queue) \in Jobs
      BY <2>1 DEF WPop, QueueTypeOK
    <3> QED
      BY <2>1, <3>1 DEF WPop, WorkerTypeOK
  <2>2. CASE WDepDone(w)
    BY <2>2 DEF WDepDone, WorkerTypeOK
  <2>3. CASE WRelease(w)
    BY <2>3 DEF WRelease, WorkerTypeOK
  <2>4. CASE WFinish(w)
    BY <2>4 DEF WFinish, WorkerTypeOK
  <2>5. CASE WStart(w) \/ WEndRun(w) \/ WRelock(w) \/ WDepFree(w)
               \/ WDepsDone(w)
    BY <2>5 DEF WStart, WEndRun, WRelock, WDepFree, WDepsDone, WorkerTypeOK
  <2>6. CASE WLock(w) \/ WWait(w) \/ WExit(w)
    BY <2>6 DEF WLock, WWait, WExit, WorkerTypeOK
  <2> QED
    BY <2>1, <2>2, <2>3, <2>4, <2>5, <2>6 DEF WorkerStep
<1>4. MainTypeOK'
  <2>1. CASE WFinish(w)
    BY <2>1 DEF WFinish, SignalDone, MainTypeOK, MPoints, MHasJob
  <2> QED
    BY <2>1 DEF WorkerStep, MainTypeOK, WLock, WWait, WExit, WPop, WStart,
       WEndRun, WRelock, WDepDone, WDepFree, WDepsDone, WRelease
<1> QED
  BY <1>1, <1>2, <1>3, <1>4

(* A call of the main thread preserves the types.                          *)
LEMMA TypeCall ==
  ASSUME TypeOK, MCall
  PROVE  TypeOK'
<1> USE DEF TypeOK, queueVars, jobVars, wVars, mVars
<1>1. CASE MStop
  BY <1>1 DEF MStop, QueueTypeOK, JobTypeOK, WorkerTypeOK, MainTypeOK,
     MPoints, MHasJob
<1>2. ASSUME NEW j \in Jobs,
             MCreate(j) \/ MCopyRef(j) \/ MSubmit(j) \/ MWaitFor(j)
               \/ (mpc = "idle" /\ MFreeJob(j))
      PROVE  TypeOK'
  <2>1. QueueTypeOK'
    BY <1>2 DEF MCreate, MCopyRef, MSubmit, MWaitFor, MFreeJob, QueueTypeOK
  <2>2. JobTypeOK'
    <3>1. CASE MCreate(j)
      BY <3>1 DEF MCreate, JobTypeOK, JobStates
    <3>2. CASE MCopyRef(j)
      BY <3>2 DEF MCopyRef, JobTypeOK
    <3> QED
      BY <1>2, <3>1, <3>2 DEF MSubmit, MWaitFor, MFreeJob, JobTypeOK
  <2>3. WorkerTypeOK'
    BY <1>2 DEF MCreate, MCopyRef, MSubmit, MWaitFor, MFreeJob, WorkerTypeOK
  <2>4. MainTypeOK'
    <3> USE DEF MainTypeOK, MPoints, MHasJob
    <3>1. CASE MCreate(j)
      BY <3>1 DEF MCreate
    <3>2. CASE MCopyRef(j)
      BY <3>2 DEF MCopyRef
    <3>3. CASE MSubmit(j) \/ MWaitFor(j)
      BY <3>3 DEF MSubmit, MWaitFor
    <3>4. CASE MFreeJob(j)
      BY <3>4 DEF MFreeJob
    <3> QED
      BY <1>2, <3>1, <3>2, <3>3, <3>4
  <2> QED
    BY <2>1, <2>2, <2>3, <2>4
<1>3. ASSUME NEW j \in Jobs, NEW d \in Jobs, MDepAdd(j, d)
      PROVE  TypeOK'
  <2>1. QueueTypeOK' /\ WorkerTypeOK'
    BY <1>3 DEF MDepAdd, QueueTypeOK, WorkerTypeOK
  <2>2. JobTypeOK'
    <3>1. OwnerOnReturn(d) \in Threads \cup {Nobody}
      BY DEF OwnerOnReturn, Threads
    <3>2. jlock' \in [Jobs -> Threads \cup {Nobody}]
      BY <1>3, <3>1 DEF MDepAdd, JobTypeOK
    <3>3. deps' \in [Jobs -> SUBSET Jobs]
      <4>1. deps' = deps \/ deps' = [deps EXCEPT ![j] = @ \cup {d}]
        BY <1>3 DEF MDepAdd
      <4>2. deps \in [Jobs -> SUBSET Jobs] /\ {d} \subseteq Jobs
        BY DEF JobTypeOK
      <4> QED
        BY <4>1, <4>2
    <3> QED
      BY <1>3, <3>2, <3>3 DEF MDepAdd, JobTypeOK
  <2>3. MainTypeOK'
    BY <1>3 DEF MDepAdd, MainTypeOK, MPoints, MHasJob
  <2> QED
    BY <2>1, <2>2, <2>3
<1> QED
  BY <1>1, <1>2, <1>3 DEF MCall

(* A step of a call in progress preserves the types.                       *)
LEMMA TypeProceed ==
  ASSUME TypeOK, MProceed
  PROVE  TypeOK'
<1> USE DEF TypeOK, queueVars, jobVars, wVars, mVars
<1>1. CASE \/ MSpawnFails \/ MInitDone \/ MSubmitLock \/ MWaitCheck \/ MStopLock
          \/ MJoin
  <2>1. QueueTypeOK'
    BY <1>1 DEF MSpawnFails, MInitDone, MSubmitLock, MWaitCheck, MStopLock,
       MJoin, BroadcastAvailable, QueueTypeOK, Threads
  <2>2. JobTypeOK' /\ WorkerTypeOK'
    BY <1>1 DEF MSpawnFails, MInitDone, MSubmitLock, MWaitCheck, MStopLock,
       MJoin, JobTypeOK, WorkerTypeOK
  <2>3. MainTypeOK'
    BY <1>1 DEF MSpawnFails, MInitDone, MSubmitLock, MWaitCheck, MStopLock,
       MJoin, MainTypeOK, MPoints, MHasJob
  <2> QED
    BY <2>1, <2>2, <2>3
<1>2. CASE MDepLink
  <2>1. mjob \in Jobs /\ mdep \in Jobs
    BY <1>2 DEF MDepLink, MainTypeOK, MHasJob
  <2>2. JobTypeOK'
    <3>1. ndepends' \in [Jobs -> Int] /\ refcount' \in [Jobs -> Int]
      BY <1>2, <2>1 DEF MDepLink, Link, JobTypeOK
    <3>2. rdepends' = [rdepends EXCEPT ![mdep] = Append(@, mjob)]
      BY <1>2 DEF MDepLink, Link
    <3>3. rdepends' \in [Jobs -> Seq(Jobs)]
      BY <2>1, <3>2 DEF JobTypeOK
    <3>4. \A j \in Jobs : Len(rdepends[j]) <= Len(rdepends'[j])
      BY <2>1, <3>2 DEF JobTypeOK
    <3>5. \A j \in Jobs : served'[j] <= Len(rdepends'[j])
      <4>1. served' = served
        BY <1>2 DEF MDepLink
      <4>2. ASSUME NEW j \in Jobs PROVE served'[j] <= Len(rdepends'[j])
        <5>1. Len(rdepends[j]) \in Nat /\ Len(rdepends'[j]) \in Nat
          BY <3>3 DEF JobTypeOK
        <5> QED
          BY <3>4, <4>1, <5>1 DEF JobTypeOK
      <4> QED
        BY <4>2
    <3>6. jlock' \in [Jobs -> Threads \cup {Nobody}]
      BY <1>2, <2>1 DEF MDepLink, JobTypeOK
    <3>7. deps' \in [Jobs -> SUBSET Jobs]
      BY <1>2, <2>1 DEF MDepLink, JobTypeOK
    <3> QED
      BY <1>2, <3>1, <3>3, <3>5, <3>6, <3>7 DEF MDepLink, JobTypeOK
  <2>3. QueueTypeOK' /\ WorkerTypeOK'
    BY <1>2 DEF MDepLink, QueueTypeOK, WorkerTypeOK
  <2>4. MainTypeOK'
    BY <1>2 DEF MDepLink, MainTypeOK, MPoints, MHasJob
  <2> QED
    BY <2>2, <2>3, <2>4
<1>3. CASE MSubmitJob
  <2>1. mjob \in Jobs
    BY <1>3 DEF MSubmitJob, MainTypeOK, MHasJob
  <2>2. \/ /\ queue' = queue /\ refcount' = refcount /\ waitset' = waitset
           /\ state' = [state EXCEPT ![mjob] = SubmitsTo(mjob)]
        \/ /\ queue' = Append(queue, mjob)
           /\ refcount' = [refcount EXCEPT ![mjob] = @ + 1]
           /\ waitset' \subseteq waitset
           /\ state' = [state EXCEPT ![mjob] = "READY"]
    BY <1>3 DEF MSubmitJob, PushJob, SetState, SignalAvailable
  <2>3. queue' \in Seq(Jobs) /\ waitset' \subseteq Workers
    BY <2>1, <2>2 DEF QueueTypeOK
  <2>4. QueueTypeOK'
    BY <1>3, <2>3 DEF MSubmitJob, QueueTypeOK
  <2>5. state' \in [Jobs -> JobStates] /\ refcount' \in [Jobs -> Int]
    <3>1. SubmitsTo(mjob) \in JobStates
      BY DEF SubmitsTo, JobStates
    <3>2. state' \in [Jobs -> JobStates]
      BY <2>1, <2>2, <3>1 DEF JobTypeOK, JobStates
    <3>3. refcount' \in [Jobs -> Int]
      BY <2>1, <2>2 DEF JobTypeOK
    <3> QED
      BY <3>2, <3>3
  <2>6. JobTypeOK'
    BY <1>3, <2>5 DEF MSubmitJob, JobTypeOK
  <2>7. WorkerTypeOK'
    BY <1>3 DEF MSubmitJob, WorkerTypeOK
  <2>8. MainTypeOK'
    BY <1>3 DEF MSubmitJob, MainTypeOK, MPoints, MHasJob
  <2> QED
    BY <2>4, <2>6, <2>7, <2>8
<1>4. CASE MDrop
  <2>1. PICK j \in Jobs :
          /\ refcount' = [refcount EXCEPT ![j] = @ - 1]
          /\ \/ drop' = rdepends[j] \o Tail(drop) /\ ClearRdepends(j)
             \/ drop' = Tail(drop) /\ rdepends' = rdepends /\ served' = served
    <3>1. Head(drop) \in Jobs
      BY <1>4 DEF MDrop, MainTypeOK
    <3> QED
      BY <1>4, <3>1 DEF MDrop, HeldBy
  <2>2. Tail(drop) \in Seq(Jobs) /\ rdepends[j] \in Seq(Jobs)
    BY <1>4 DEF MDrop, MainTypeOK, JobTypeOK
  <2>3. drop' \in Seq(Jobs)
    <3>1. rdepends[j] \o Tail(drop) \in Seq(Jobs)
      BY <2>2
    <3> QED
      BY <2>1, <2>2, <3>1
  <2>4. rdepends' \in [Jobs -> Seq(Jobs)] /\ served' \in [Jobs -> Nat]
    <3>1. <<>> \in Seq(Jobs)
      OBVIOUS
    <3>2. rdepends' = rdepends \/ rdepends' = [rdepends EXCEPT ![j] = <<>>]
      BY <2>1 DEF ClearRdepends
    <3>3. served' = served \/ served' = [served EXCEPT ![j] = 0]
      BY <2>1 DEF ClearRdepends
    <3>4. rdepends' \in [Jobs -> Seq(Jobs)]
      BY <3>1, <3>2 DEF JobTypeOK
    <3>5. served \in [Jobs -> Nat]
      BY DEF JobTypeOK
    <3>6. served' \in [Jobs -> Nat]
      BY <3>3, <3>5
    <3> QED
      BY <3>4, <3>6
  <2>5. \A i \in Jobs : served'[i] <= Len(rdepends'[i])
    <3>1. CASE ClearRdepends(j)
      BY <3>1 DEF JobTypeOK, ClearRdepends
    <3> QED
      BY <2>1, <3>1 DEF JobTypeOK
  <2>6. refcount' \in [Jobs -> Int]
    BY <2>1 DEF JobTypeOK
  <2>7. JobTypeOK'
    BY <1>4, <2>4, <2>5, <2>6 DEF MDrop, JobTypeOK
  <2>8. QueueTypeOK' /\ WorkerTypeOK'
    BY <1>4 DEF MDrop, QueueTypeOK, WorkerTypeOK
  <2>9. MainTypeOK'
    <3>1. mpc' \in MPoints /\ mpc' \notin MHasJob /\ mpc' # "dep"
      BY <1>4 DEF MDrop, MPoints, MHasJob
    <3>2. mpc' \in {"drop", "flush"} => drop' # <<>>
      BY <1>4 DEF MDrop
    <3> QED
      BY <1>4, <2>3, <3>1, <3>2 DEF MDrop, MainTypeOK
  <2> QED
    BY <2>7, <2>8, <2>9
<1>5. CASE MQueueFree
  <2>1. QueueTypeOK'
    <3>1. queue' \in Seq(Jobs)
      BY <1>5 DEF MQueueFree
    <3> QED
      BY <1>5, <3>1 DEF MQueueFree, QueueTypeOK
  <2>2. JobTypeOK' /\ WorkerTypeOK'
    BY <1>5 DEF MQueueFree, JobTypeOK, WorkerTypeOK
  <2>3. MainTypeOK'
    BY <1>5 DEF MQueueFree, QueueTypeOK, MainTypeOK, MPoints, MHasJob
  <2> QED
    BY <2>1, <2>2, <2>3
<1>6. ASSUME NEW w \in Workers, MSpawn(w)
      PROVE  TypeOK'
  <2>1. WorkerTypeOK'
    BY <1>6 DEF MSpawn, Goto, WorkerTypeOK, WPoints, WHasJob, WHoldsJob
  <2> QED
    BY <1>6, <2>1 DEF MSpawn, QueueTypeOK, JobTypeOK, MainTypeOK
<1>7. ASSUME NEW j \in Jobs, MFreeJob(j)
      PROVE  TypeOK'
  <2>1. MainTypeOK'
    BY <1>7 DEF MFreeJob, MainTypeOK, MPoints, MHasJob
  <2> QED
    BY <1>7, <2>1 DEF MFreeJob, QueueTypeOK, JobTypeOK, WorkerTypeOK
<1> QED
  BY <1>1, <1>2, <1>3, <1>4, <1>5, <1>6, <1>7 DEF MProceed

(* Every step preserves the types.                                         *)
LEMMA TypeStep ==
  ASSUME TypeOK, [Next]_vars
  PROVE  TypeOK'
<1>1. CASE MSpurious
  BY <1>1 DEF MSpurious, TypeOK, QueueTypeOK, JobTypeOK, WorkerTypeOK,
     MainTypeOK, MPoints, MHasJob, queueVars, jobVars, wVars
<1>2. CASE UNCHANGED vars
  BY <1>2 DEF vars, TypeOK, QueueTypeOK, JobTypeOK, WorkerTypeOK,
     MainTypeOK, queueVars, jobVars, wVars, mVars
<1>3. ASSUME NEW w \in Workers, WSpurious(w)
      PROVE  TypeOK'
  BY <1>3 DEF WSpurious, TypeOK, QueueTypeOK, JobTypeOK, WorkerTypeOK,
     MainTypeOK, jobVars, wVars, mVars
<1> QED
  BY <1>1, <1>2, <1>3, TypeWorker, TypeCall, TypeProceed DEF Next, Terminated

(* Every variable keeps its type, which includes that a thread at a control*)
(* point where it works on a job has one, and that the index with which a  *)
(* worker goes through rdepends never exceeds rdepends_count.              *)
THEOREM TypeCorrect == Spec => []TypeOK
  BY TypeInit, TypeStep, PTL DEF Spec

-----------------------------------------------------------------------------
(***************************************************************************)
(* The inductive invariant of ThreadQueue, from which its safety properties*)
(* follow for any numbers of jobs and worker threads.  The parts depend on *)
(* one another: a job's references can be counted only because the entries *)
(* for it in the rdepends of other jobs are known, these only because a job*)
(* is never freed while it has unserved entries, and that only because its *)
(* references are counted.                                                 *)
(***************************************************************************)

Unfinished == {"WAITING", "READY", "RUNNING"}
Executing  == {"run", "relock", "finish"}
Completing == {"dep", "depfree", "release"}

(* A lock is owned by the thread whose control point says so.              *)
LocksOwned ==
  /\ \A w \in Workers : qlock = w <=> wpc[w] \in WHoldsQueue
  /\ mpc \in MHoldsQueue => qlock = Main
  /\ qlock = Main => mpc \in MHoldsQueue \cup {"stop"}
  /\ \A j \in Jobs, w \in Workers :
       jlock[j] = w <=> wpc[w] \in WHoldsJob /\ wjob[w] = j
  /\ \A j \in Jobs : jlock[j] = Main <=> mpc = "dep" /\ mdep = j

(* A worker's job is in the state that the worker's control point implies, *)
(* and nobody else's.                                                      *)
WorkersOnJobs ==
  /\ \A w \in Workers :
       /\ wpc[w] = "start" => state[wjob[w]] = "READY"
       /\ wpc[w] \in Executing => state[wjob[w]] = "RUNNING"
       /\ wpc[w] \in Completing => state[wjob[w]] = "DONE"
       /\ wpc[w] = "depfree" => served[wjob[w]] > 0
  /\ \A v, w \in Workers :
       wpc[v] \in WHasJob /\ wpc[w] \in WHasJob /\ wjob[v] = wjob[w] => v = w

(* The queue holds ready jobs, each once, that nobody has taken yet.       *)
QueueReady ==
  /\ \A k \in DOMAIN queue : state[queue[k]] = "READY"
  /\ \A k, l \in DOMAIN queue : queue[k] = queue[l] => k = l
  /\ \A w \in Workers : wpc[w] = "start" =>
       \A k \in DOMAIN queue : queue[k] # wjob[w]

(* The arguments of the call that the main thread is executing.            *)
MainOnJobs ==
  /\ mpc \in {"dep", "submit", "submitjob"} => state[mjob] = "PAUSED"
  /\ mpc = "dep" => state[mdep] \in Unfinished /\ handles[mdep] > 0
  /\ IF mpc \in MHasJob THEN handles[mjob] > 0 ELSE mjob = NoJob
  /\ mpc # "dep" => mdep = NoJob

(* Stopping and freeing: the workers are gone before a job is dismantled.  *)
Closing ==
  /\ mpc \in {"join", "stopped", "flush", "freed"} => stop
  /\ stop => mpc \in {"join", "stopped", "drop", "flush", "freed"}
  /\ Dismantling => \A w \in Workers : wpc[w] \in {"none", "exit"}
  /\ mpc \notin {"drop", "flush"} => drop = <<>>
  /\ mpc \in {"flush", "freed"} => queue = <<>> /\ \A j \in Jobs : handles[j] = 0

(* Without worker threads no job is ever left to one.                      *)
InlineOnly ==
  mpc = "init" \/ NoThreads => \A j \in Jobs : state[j] \notin Unfinished

(* Entry k of rdepends[d] names j and has not been counted down.           *)
Unserved(d, k, j) == k > served[d] /\ rdepends[d][k] = j

(* Only a job that is unfinished, or whose entries are being counted down, *)
(* has entries, and these name jobs that are not ready.                    *)
Entries ==
  /\ \A d \in Jobs : state[d] \notin Unfinished /\ jlock[d] \notin Workers =>
                       rdepends[d] = <<>>
  /\ \A d \in Jobs : jlock[d] \notin Workers => served[d] = 0
  /\ \A d, j \in Jobs : \A k \in DOMAIN rdepends[d] :
       Unserved(d, k, j) => state[j] \in {"PAUSED", "WAITING"}

(* As long as jobs are executed, every unfinished one is in the hands of   *)
(* the queue, of a worker, or of a job that it depends on.                 *)
Accounted ==
  ~Dismantling => \A j \in Jobs :
    /\ state[j] = "READY" => \/ \E k \in DOMAIN queue : queue[k] = j
                             \/ \E w \in Workers : wpc[w] = "start"
                                                   /\ wjob[w] = j
    /\ state[j] = "RUNNING" => \E w \in Workers : wpc[w] \in Executing
                                                  /\ wjob[w] = j
    /\ state[j] = "WAITING" => ndepends[j] > 0

(* A dependency that was requested is done, or still has its entry.        *)
DepsKept ==
  ~Dismantling => \A j \in Jobs : \A d \in deps[j] :
    state[d] = "DONE" \/ \E k \in DOMAIN rdepends[d] : Unserved(d, k, j)

(* A job that was not created, or has lost its last reference, is nobody's.*)
NoneLeft ==
  \A j \in Jobs : /\ state[j] = "NONE" => refcount[j] = 0
                  /\ refcount[j] <= 0 => rdepends[j] = <<>>

(* Every set of jobs has one that none of them keeps waiting.              *)
Needs(d, j) == \E k \in DOMAIN rdepends[d] : rdepends[d][k] = j
Acyclic     == \A S \in (SUBSET Jobs) \ {{}} :
                 \E j \in S : \A d \in S : ~Needs(d, j)

ControlInv == LocksOwned /\ WorkersOnJobs /\ QueueReady /\ MainOnJobs
                /\ Closing /\ InlineOnly
CountInv   == Entries /\ Accounted /\ DepsKept /\ NoneLeft /\ Acyclic
                /\ RefCountExact /\ NDependsExact
QueueInv   == TypeOK /\ ControlInv /\ CountInv

(* Workers that are about to look at the queue, and the number of jobs the *)
(* owner of the queue's lock has pushed without having signalled them.     *)
Awake   == {w \in Workers \ waitset : wpc[w] \in {"lock", "wait", "loop"}}
Pending == IF qlock \in Workers THEN numNew[qlock] ELSE 0
WakeInv ==
  /\ \A w \in Workers : numNew[w] > 0 => wpc[w] \in Completing
  /\ stop => waitset = {}
  /\ \A w \in waitset : wpc[w] = "wait"
  /\ waitset # {} => Len(queue) <= Cardinality(Awake) + Pending
  /\ Pending <= Len(queue)

Running    == {w \in Workers : wpc[w] \notin {"none", "exit"}}
RunningInv == running = Cardinality(Running)

-----------------------------------------------------------------------------
(* Counting the places of a job in a sequence.                             *)

LEMMA PlacesFinite ==
  ASSUME NEW s \in Seq(Jobs), NEW j
  PROVE  IsFiniteSet(Places(s, j)) /\ Cardinality(Places(s, j)) \in Nat
<1>1. Places(s, j) \subseteq 1..Len(s) /\ Len(s) \in Nat
  BY DEF Places
<1>2. IsFiniteSet(1..Len(s))
  BY <1>1, FS_Interval
<1>3. IsFiniteSet(Places(s, j))
  BY <1>1, <1>2, FS_Subset
<1> QED
  BY <1>3, FS_CardinalityType

LEMMA PlacesEmpty ==
  ASSUME NEW s \in Seq(Jobs), NEW j
  PROVE  Cardinality(Places(s, j)) = 0 <=> \A k \in DOMAIN s : s[k] # j
<1>1. Cardinality(Places(s, j)) = 0 <=> Places(s, j) = {}
  BY PlacesFinite, FS_EmptySet
<1> QED
  BY <1>1 DEF Places

LEMMA PlacesAppend ==
  ASSUME NEW s \in Seq(Jobs), NEW i \in Jobs, NEW j \in Jobs
  PROVE  Cardinality(Places(Append(s, i), j))
           = Cardinality(Places(s, j)) + (IF i = j THEN 1 ELSE 0)
<1>1. /\ Len(s) \in Nat /\ DOMAIN Append(s, i) = 1..(Len(s) + 1)
      /\ DOMAIN s = 1..Len(s)
      /\ \A k \in 1..Len(s) : Append(s, i)[k] = s[k]
      /\ Append(s, i)[Len(s) + 1] = i
  OBVIOUS
<1>2. CASE i = j
  <2>1. Places(Append(s, i), j) = Places(s, j) \cup {Len(s) + 1}
    BY <1>1, <1>2 DEF Places
  <2>2. Len(s) + 1 \notin Places(s, j)
    BY <1>1 DEF Places
  <2> QED
    BY <1>2, <2>1, <2>2, PlacesFinite, FS_AddElement
<1>3. CASE i # j
  <2>1. Places(Append(s, i), j) = Places(s, j)
    BY <1>1, <1>3 DEF Places
  <2> QED
    BY <1>3, <2>1, PlacesFinite
<1> QED
  BY <1>2, <1>3

(* As many elements as another set, given a one-to-one correspondence.     *)
LEMMA CountBijection ==
  ASSUME NEW S, NEW T, IsFiniteSet(S), NEW f \in [S -> T],
         \A a, b \in S : f[a] = f[b] => a = b,
         \A t \in T : \E a \in S : f[a] = t
  PROVE  IsFiniteSet(T) /\ Cardinality(T) = Cardinality(S)
<1>1. f \in Bijection(S, T)
  BY Fun_IsBij
<1>2. ExistsBijection(S, T)
  BY <1>1 DEF ExistsBijection
<1> QED
  BY <1>2, FS_Bijection

LEMMA PlacesTail ==
  ASSUME NEW s \in Seq(Jobs), s # <<>>, NEW j \in Jobs
  PROVE  Cardinality(Places(s, j))
           = Cardinality(Places(Tail(s), j)) + (IF Head(s) = j THEN 1 ELSE 0)
<1>1. /\ Len(s) \in Nat \ {0} /\ DOMAIN s = 1..Len(s)
      /\ DOMAIN Tail(s) = 1..(Len(s) - 1)
      /\ \A k \in 1..(Len(s) - 1) : Tail(s)[k] = s[k + 1]
      /\ Head(s) = s[1] /\ Tail(s) \in Seq(Jobs)
  OBVIOUS
<1> DEFINE T == Places(s, j) \ {1}
           f == [k \in Places(Tail(s), j) |-> k + 1]
<1>2. f \in [Places(Tail(s), j) -> T]
  BY <1>1 DEF Places
<1>3. \A a, b \in Places(Tail(s), j) : f[a] = f[b] => a = b
  BY <1>1 DEF Places
<1>4. ASSUME NEW t \in T PROVE \E a \in Places(Tail(s), j) : f[a] = t
  <2>1. t \in 2..Len(s) /\ s[t] = j
    BY <1>1 DEF Places
  <2>2. t - 1 \in Places(Tail(s), j)
    BY <1>1, <2>1 DEF Places
  <2> QED
    BY <2>1, <2>2
<1> HIDE DEF f
<1>5. Cardinality(T) = Cardinality(Places(Tail(s), j))
  BY <1>1, <1>2, <1>3, <1>4, CountBijection, PlacesFinite
<1>6. Cardinality(T) = IF 1 \in Places(s, j) THEN Cardinality(Places(s, j)) - 1
                                             ELSE Cardinality(Places(s, j))
  BY FS_RemoveElement, PlacesFinite
<1>7. 1 \in Places(s, j) <=> Head(s) = j
  BY <1>1 DEF Places
<1> QED
  BY <1>1, <1>5, <1>6, <1>7, PlacesFinite

LEMMA CountDisjoint ==
  ASSUME NEW S, NEW T, IsFiniteSet(S), IsFiniteSet(T), S \cap T = {}
  PROVE  /\ IsFiniteSet(S \cup T)
         /\ Cardinality(S \cup T) = Cardinality(S) + Cardinality(T)
<1>1. Cardinality(S \cap T) = 0
  BY FS_EmptySet
<1>2. Cardinality(S) \in Nat /\ Cardinality(T) \in Nat
  BY FS_CardinalityType
<1>3. /\ IsFiniteSet(S \cup T)
      /\ Cardinality(S \cup T)
           = Cardinality(S) + Cardinality(T) - Cardinality(S \cap T)
  BY FS_Union, Zenon
<1> QED
  BY <1>1, <1>2, <1>3, SMT

LEMMA PlacesConcat ==
  ASSUME NEW s \in Seq(Jobs), NEW t \in Seq(Jobs), NEW j \in Jobs
  PROVE  Cardinality(Places(s \o t, j))
           = Cardinality(Places(s, j)) + Cardinality(Places(t, j))
<1>1. /\ Len(s) \in Nat /\ Len(t) \in Nat /\ DOMAIN s = 1..Len(s)
      /\ DOMAIN t = 1..Len(t) /\ DOMAIN (s \o t) = 1..(Len(s) + Len(t))
      /\ \A k \in 1..Len(s) : (s \o t)[k] = s[k]
      /\ \A k \in 1..Len(t) : (s \o t)[Len(s) + k] = t[k]
  OBVIOUS
<1> DEFINE T == {k \in Places(s \o t, j) : k > Len(s)}
           f == [k \in Places(t, j) |-> Len(s) + k]
<1>2. f \in [Places(t, j) -> T]
  BY <1>1 DEF Places
<1>3. \A a, b \in Places(t, j) : f[a] = f[b] => a = b
  BY <1>1 DEF Places
<1>4. ASSUME NEW u \in T PROVE \E a \in Places(t, j) : f[a] = u
  <2>1. u \in (Len(s) + 1)..(Len(s) + Len(t)) /\ (s \o t)[u] = j
    BY <1>1 DEF Places
  <2>2. u - Len(s) \in 1..Len(t) /\ Len(s) + (u - Len(s)) = u
    BY <1>1, <2>1
  <2>3. u - Len(s) \in Places(t, j)
    BY <1>1, <2>1, <2>2 DEF Places
  <2> QED
    BY <2>2, <2>3
<1>5. Places(s \o t, j) = Places(s, j) \cup T
  BY <1>1 DEF Places
<1>6. Places(s, j) \cap T = {}
  BY <1>1 DEF Places
<1> HIDE DEF f, T
<1>7. IsFiniteSet(T) /\ Cardinality(T) = Cardinality(Places(t, j))
  BY <1>2, <1>3, <1>4, CountBijection, PlacesFinite
<1> QED
  BY <1>5, <1>6, <1>7, PlacesFinite, CountDisjoint

-----------------------------------------------------------------------------
(* Counting the unserved entries for a job.                                *)

EntriesFor(rd, sv, d, j) == {k \in Places(rd[d], j) : k > sv[d]}
EdgesIn(rd, sv, j)       == {e \in Jobs \X Nat :
                               e[2] \in EntriesFor(rd, sv, e[1], j)}

LEMMA EdgesAre ==
  ASSUME NEW rd \in [Jobs -> Seq(Jobs)], NEW sv \in [Jobs -> Nat], NEW j
  PROVE  UNION {{d} \X {k \in Places(rd[d], j) : k > sv[d]} : d \in Jobs}
           = EdgesIn(rd, sv, j)
<1>1. \A d \in Jobs : DOMAIN rd[d] = 1..Len(rd[d]) /\ Len(rd[d]) \in Nat
  OBVIOUS
<1>2. \A d \in Jobs : EntriesFor(rd, sv, d, j) \subseteq Nat
  BY <1>1 DEF EntriesFor, Places
<1>3. EdgesIn(rd, sv, j) \subseteq
        UNION {{d} \X EntriesFor(rd, sv, d, j) : d \in Jobs}
  BY DEF EdgesIn
<1>4. UNION {{d} \X EntriesFor(rd, sv, d, j) : d \in Jobs} \subseteq
        EdgesIn(rd, sv, j)
  BY <1>2 DEF EdgesIn
<1> QED
  BY <1>3, <1>4 DEF EntriesFor

LEMMA EdgesFinite ==
  ASSUME NEW rd \in [Jobs -> Seq(Jobs)], NEW sv \in [Jobs -> Nat], NEW j
  PROVE  IsFiniteSet(EdgesIn(rd, sv, j)) /\ Cardinality(EdgesIn(rd, sv, j)) \in Nat
<1> DEFINE f == [d \in Jobs |-> {d} \X EntriesFor(rd, sv, d, j)]
<1>1. ASSUME NEW d \in Jobs PROVE IsFiniteSet({d} \X EntriesFor(rd, sv, d, j))
  <2>1. IsFiniteSet(Places(rd[d], j))
    BY PlacesFinite
  <2>2. IsFiniteSet(EntriesFor(rd, sv, d, j))
    BY <2>1, FS_Subset DEF EntriesFor
  <2> QED
    BY <2>2, FS_Singleton, FS_Product
<1>2. f \in Surjection(Jobs, Range(f))
  <2>1. f \in [Jobs -> {f[d] : d \in Jobs}]
    OBVIOUS
  <2> HIDE DEF f
  <2> QED
    BY <2>1, Fun_RangeProperties, Zenon
<1>3. IsFiniteSet(Range(f))
  BY <1>2, FS_Surjection, JobsFinite
<1>4. \A T \in Range(f) : IsFiniteSet(T)
  BY <1>1 DEF Range
<1>5. EdgesIn(rd, sv, j) \subseteq UNION Range(f)
  BY DEF EdgesIn, Range
<1>6. IsFiniteSet(EdgesIn(rd, sv, j))
  BY <1>3, <1>4, <1>5, FS_UNION, FS_Subset
<1> QED
  BY <1>6, FS_CardinalityType

LEMMA EdgesEmpty ==
  ASSUME NEW rd \in [Jobs -> Seq(Jobs)], NEW sv \in [Jobs -> Nat], NEW j
  PROVE  Cardinality(EdgesIn(rd, sv, j)) = 0 <=>
           \A d \in Jobs : \A k \in DOMAIN rd[d] : ~(k > sv[d] /\ rd[d][k] = j)
<1>1. Cardinality(EdgesIn(rd, sv, j)) = 0 <=> EdgesIn(rd, sv, j) = {}
  BY EdgesFinite, FS_EmptySet
<1>2. \A d \in Jobs : DOMAIN rd[d] \subseteq Nat
  OBVIOUS
<1>3. ASSUME NEW d \in Jobs, NEW k \in DOMAIN rd[d], k > sv[d], rd[d][k] = j
      PROVE  <<d, k>> \in EdgesIn(rd, sv, j)
  BY <1>2, <1>3 DEF EdgesIn, EntriesFor, Places
<1>4. ASSUME NEW e \in EdgesIn(rd, sv, j)
      PROVE  /\ e[1] \in Jobs /\ e[2] \in DOMAIN rd[e[1]]
             /\ e[2] > sv[e[1]] /\ rd[e[1]][e[2]] = j
  BY <1>4 DEF EdgesIn, EntriesFor, Places
<1> QED
  BY <1>1, <1>3, <1>4

(* A job that waits for one entry has no other.                            *)
LEMMA EdgesOne ==
  ASSUME NEW rd \in [Jobs -> Seq(Jobs)], NEW sv \in [Jobs -> Nat], NEW j,
         Cardinality(EdgesIn(rd, sv, j)) = 1,
         NEW a \in EdgesIn(rd, sv, j), NEW b \in EdgesIn(rd, sv, j)
  PROVE  a = b
<1>1. PICK x : EdgesIn(rd, sv, j) = {x}
  BY EdgesFinite, FS_Singleton
<1> QED
  BY <1>1

(* One if the jobs are the same, else zero.                                *)
Same(i, j)         == IF i = j THEN 1 ELSE 0
Appended(rd, d, i) == [rd EXCEPT ![d] = Append(rd[d], i)]

LEMMA EdgesAppend ==
  ASSUME NEW rd \in [Jobs -> Seq(Jobs)], NEW sv \in [Jobs -> Nat],
         NEW d \in Jobs, NEW i \in Jobs, NEW j \in Jobs,
         sv[d] <= Len(rd[d])
  PROVE  Cardinality(EdgesIn(Appended(rd, d, i), sv, j))
           = Cardinality(EdgesIn(rd, sv, j)) + Same(i, j)
<1> DEFINE n   == Len(rd[d])
           rd2 == Appended(rd, d, i)
<1>1. /\ n \in Nat /\ DOMAIN rd[d] = 1..n
      /\ DOMAIN rd2[d] = 1..(n + 1) /\ rd2[d][n + 1] = i
      /\ \A k \in 1..n : rd2[d][k] = rd[d][k]
      /\ \A c \in Jobs \ {d} : rd2[c] = rd[c]
  BY DEF Appended
<1> SUFFICES Cardinality(EdgesIn(rd2, sv, j))
               = Cardinality(EdgesIn(rd, sv, j)) + Same(i, j)
  OBVIOUS
<1> HIDE DEF rd2
<1>2. \A c \in Jobs \ {d} : EntriesFor(rd2, sv, c, j) = EntriesFor(rd, sv, c, j)
  BY <1>1 DEF EntriesFor
<1>3. EntriesFor(rd2, sv, d, j)
        = EntriesFor(rd, sv, d, j) \cup (IF i = j THEN {n + 1} ELSE {})
  <2>1. sv[d] \in Nat /\ n + 1 > sv[d]
    BY <1>1
  <2>2. Places(rd2[d], j) = Places(rd[d], j) \cup (IF i = j THEN {n + 1} ELSE {})
    <3>1. \A k : k \in DOMAIN rd2[d] <=> k \in DOMAIN rd[d] \/ k = n + 1
      BY <1>1
    <3> HIDE DEF n
    <3> QED
      BY <1>1, <3>1 DEF Places
  <2> HIDE DEF n
  <2> QED
    BY <2>1, <2>2 DEF EntriesFor
<1>4. n + 1 \notin EntriesFor(rd, sv, d, j)
  BY <1>1 DEF EntriesFor, Places
<1> HIDE DEF n
<1>5. CASE i = j
  <2>1. EdgesIn(rd2, sv, j) = EdgesIn(rd, sv, j) \cup {<<d, n + 1>>}
    <3>1. <<d, n + 1>> \in Jobs \X Nat
      BY <1>1
    <3>2. \A c \in Jobs, k \in Nat :
            k \in EntriesFor(rd2, sv, c, j) <=>
              k \in EntriesFor(rd, sv, c, j) \/ (c = d /\ k = n + 1)
      BY <1>2, <1>3, <1>5
    <3>3. ASSUME NEW e \in EdgesIn(rd2, sv, j)
          PROVE  e \in EdgesIn(rd, sv, j) \cup {<<d, n + 1>>}
      <4>1. e[1] \in Jobs /\ e[2] \in Nat /\ e = <<e[1], e[2]>>
        BY DEF EdgesIn
      <4> QED
        BY <3>2, <4>1 DEF EdgesIn
    <3>4. EdgesIn(rd, sv, j) \cup {<<d, n + 1>>} \subseteq EdgesIn(rd2, sv, j)
      BY <3>1, <3>2 DEF EdgesIn
    <3> QED
      BY <3>3, <3>4
  <2>2. <<d, n + 1>> \notin EdgesIn(rd, sv, j)
    BY <1>4 DEF EdgesIn
  <2>3. Cardinality(EdgesIn(rd2, sv, j)) = Cardinality(EdgesIn(rd, sv, j)) + 1
    BY <2>1, <2>2, EdgesFinite, FS_AddElement
  <2> QED
    BY <1>5, <2>3 DEF Same
<1>6. CASE i # j
  <2>1. EdgesIn(rd2, sv, j) = EdgesIn(rd, sv, j)
    BY <1>2, <1>3, <1>6 DEF EdgesIn
  <2>2. Cardinality(EdgesIn(rd2, sv, j)) = Cardinality(EdgesIn(rd, sv, j)) + 0
    <3>1. Cardinality(EdgesIn(rd, sv, j)) \in Nat
      BY EdgesFinite
    <3> QED
      BY <2>1, <3>1
  <2>3. Same(i, j) = 0
    BY <1>6 DEF Same
  <2> QED
    BY <2>2, <2>3, Zenon
<1> QED
  BY <1>5, <1>6

LEMMA EdgesServe ==
  ASSUME NEW rd \in [Jobs -> Seq(Jobs)], NEW sv \in [Jobs -> Nat],
         NEW d \in Jobs, NEW j \in Jobs, sv[d] < Len(rd[d])
  PROVE  Cardinality(EdgesIn(rd, sv, j))
           = Cardinality(EdgesIn(rd, [sv EXCEPT ![d] = @ + 1], j))
             + (IF rd[d][sv[d] + 1] = j THEN 1 ELSE 0)
<1> DEFINE n   == sv[d] + 1
           sv2 == [sv EXCEPT ![d] = @ + 1]
<1>0. sv[d] \in Nat /\ Len(rd[d]) \in Nat /\ DOMAIN rd[d] = 1..Len(rd[d])
  OBVIOUS
<1>1. /\ n \in Nat /\ n \in DOMAIN rd[d] /\ sv2[d] = n /\ n > sv[d]
      /\ \A c \in Jobs \ {d} : sv2[c] = sv[c]
      /\ \A k \in DOMAIN rd[d] : k > sv[d] <=> (k > n \/ k = n)
      /\ sv2 \in [Jobs -> Nat] /\ ~(n > n)
  <2>1. n \in Nat /\ n \in DOMAIN rd[d] /\ n > sv[d] /\ ~(n > n)
    BY <1>0
  <2>2. \A k \in DOMAIN rd[d] : k > sv[d] <=> (k > n \/ k = n)
    BY <1>0
  <2> QED
    BY <1>0, <2>1, <2>2
<1>2. \A c \in Jobs \ {d} : EntriesFor(rd, sv2, c, j) = EntriesFor(rd, sv, c, j)
  BY <1>1 DEF EntriesFor
<1>3. EntriesFor(rd, sv, d, j)
        = EntriesFor(rd, sv2, d, j) \cup (IF rd[d][n] = j THEN {n} ELSE {})
  <2> HIDE DEF n, sv2
  <2> QED
    BY <1>1 DEF EntriesFor, Places
<1>4. n \notin EntriesFor(rd, sv2, d, j)
  BY <1>1 DEF EntriesFor, Places
<1> HIDE DEF sv2, n
<1>5. CASE rd[d][n] = j
  <2>0. \A c \in Jobs, k \in Nat :
          k \in EntriesFor(rd, sv, c, j)
            <=> k \in EntriesFor(rd, sv2, c, j) \/ (c = d /\ k = n)
    BY <1>2, <1>3, <1>5
  <2>1. EdgesIn(rd, sv, j) = EdgesIn(rd, sv2, j) \cup {<<d, n>>}
    <3>1. \A e \in Jobs \X Nat : /\ e[1] \in Jobs /\ e[2] \in Nat
                                 /\ e = <<d, n>> <=> e[1] = d /\ e[2] = n
      OBVIOUS
    <3>2. \A e \in Jobs \X Nat :
            e \in EdgesIn(rd, sv, j) <=> e \in EdgesIn(rd, sv2, j) \/ e = <<d, n>>
      BY <2>0, <3>1 DEF EdgesIn
    <3>3. /\ EdgesIn(rd, sv, j) \subseteq Jobs \X Nat
          /\ EdgesIn(rd, sv2, j) \subseteq Jobs \X Nat /\ <<d, n>> \in Jobs \X Nat
      BY <1>1 DEF EdgesIn
    <3> QED
      BY <3>2, <3>3, Zenon
  <2>2. <<d, n>> \notin EdgesIn(rd, sv2, j)
    BY <1>4 DEF EdgesIn
  <2>3. Cardinality(EdgesIn(rd, sv, j)) = Cardinality(EdgesIn(rd, sv2, j)) + 1
    BY <1>1, <2>1, <2>2, EdgesFinite, FS_AddElement
  <2> QED
    BY <1>5, <2>3 DEF sv2, n
<1>6. CASE rd[d][n] # j
  <2>1. EdgesIn(rd, sv2, j) = EdgesIn(rd, sv, j)
    BY <1>2, <1>3, <1>6 DEF EdgesIn
  <2>2. Cardinality(EdgesIn(rd, sv, j)) = Cardinality(EdgesIn(rd, sv2, j)) + 0
    <3>1. Cardinality(EdgesIn(rd, sv, j)) \in Nat
      BY EdgesFinite
    <3> QED
      BY <2>1, <3>1
  <2>3. (IF rd[d][n] = j THEN 1 ELSE 0) = 0
    BY <1>6
  <2> QED
    BY <2>2, <2>3, Zenon DEF sv2, n
<1> QED
  BY <1>5, <1>6

LEMMA EdgesClear ==
  ASSUME NEW rd \in [Jobs -> Seq(Jobs)], NEW sv \in [Jobs -> Nat],
         NEW d \in Jobs, NEW j \in Jobs
  PROVE  Cardinality(EdgesIn(rd, sv, j))
           = Cardinality(EdgesIn([rd EXCEPT ![d] = <<>>],
                                 [sv EXCEPT ![d] = 0], j))
             + Cardinality(EntriesFor(rd, sv, d, j))
<1> DEFINE rd2 == [rd EXCEPT ![d] = <<>>]
           sv2 == [sv EXCEPT ![d] = 0]
           E   == EntriesFor(rd, sv, d, j)
           f   == [k \in E |-> <<d, k>>]
<1>1. /\ rd2 \in [Jobs -> Seq(Jobs)] /\ sv2 \in [Jobs -> Nat]
      /\ DOMAIN rd2[d] = {}
      /\ \A c \in Jobs \ {d} : rd2[c] = rd[c] /\ sv2[c] = sv[c]
      /\ DOMAIN rd[d] \subseteq Nat
  OBVIOUS
<1>2. \A c \in Jobs \ {d} : EntriesFor(rd2, sv2, c, j) = EntriesFor(rd, sv, c, j)
  BY <1>1 DEF EntriesFor
<1>3. EntriesFor(rd2, sv2, d, j) = {} /\ E \subseteq Nat
  BY <1>1 DEF EntriesFor, Places
<1>4. IsFiniteSet(E)
  BY PlacesFinite, FS_Subset DEF EntriesFor
<1> HIDE DEF rd2, sv2, E
<1>5. /\ IsFiniteSet({d} \X E)
      /\ Cardinality({d} \X E) = Cardinality(E)
  <2>1. f \in [E -> {d} \X E] /\ \A a, b \in E : f[a] = f[b] => a = b
    OBVIOUS
  <2>2. \A t \in {d} \X E : \E a \in E : f[a] = t
    OBVIOUS
  <2> HIDE DEF f
  <2> QED
    BY <1>4, <2>1, <2>2, CountBijection
<1>6. EdgesIn(rd, sv, j) = EdgesIn(rd2, sv2, j) \cup ({d} \X E)
  BY <1>2, <1>3 DEF EdgesIn, E
<1>7. EdgesIn(rd2, sv2, j) \cap ({d} \X E) = {}
  BY <1>3 DEF EdgesIn
<1>8. Cardinality(EdgesIn(rd, sv, j))
        = Cardinality(EdgesIn(rd2, sv2, j)) + Cardinality(E)
  BY <1>1, <1>5, <1>6, <1>7, EdgesFinite, CountDisjoint
<1> QED
  BY <1>8 DEF rd2, sv2, E
-----------------------------------------------------------------------------
(* The control part of the invariant.                                      *)

LEMMA WHasJobHasJob ==
  ASSUME TypeOK, NEW w \in Workers, wpc[w] \in WHasJob
  PROVE  wjob[w] \in Jobs
BY DEF TypeOK, WorkerTypeOK

LEMMA LocksWorker ==
  ASSUME QueueInv, NEW w \in Workers, WorkerStep(w)
  PROVE  LocksOwned'
<1> USE DEF queueVars, jobVars, wVars, mVars, WHoldsQueue, WHoldsJob
<1>0. /\ LocksOwned /\ wpc \in [Workers -> WPoints]
      /\ wjob \in [Workers -> Jobs \cup {NoJob}]
      /\ jlock \in [Jobs -> Threads \cup {Nobody}]
      /\ Main \notin Workers /\ Nobody \notin Workers /\ Nobody # Main
  BY ThreadsDistinct DEF QueueInv, ControlInv, TypeOK, WorkerTypeOK, JobTypeOK
<1>1. CASE WLock(w) \/ WRelock(w)
  BY <1>0, <1>1 DEF WLock, WRelock, Goto, LocksOwned
<1>2. CASE WWait(w) \/ WExit(w)
  BY <1>0, <1>2 DEF WWait, WExit, Goto, LocksOwned
<1>3. CASE WPop(w)
  BY <1>0, <1>3 DEF WPop, Goto, LocksOwned
<1>4. CASE WStart(w) \/ WEndRun(w)
  BY <1>0, <1>4 DEF WStart, WEndRun, Goto, LocksOwned
<1>5. CASE WFinish(w)
  <2>1. /\ wpc[w] = "finish" /\ jlock[wjob[w]] = Nobody
        /\ wpc' = [wpc EXCEPT ![w] = "dep"]
        /\ jlock' = [jlock EXCEPT ![wjob[w]] = w]
        /\ qlock' = qlock /\ wjob' = wjob /\ mdep' = mdep
    BY <1>5 DEF WFinish, Goto
  <2>2. /\ mpc' \in MHoldsQueue <=> mpc \in MHoldsQueue
        /\ mpc' = "dep" <=> mpc = "dep"
        /\ mpc' = "stop" <=> mpc = "stop"
    BY <1>5 DEF WFinish, SignalDone, MHoldsQueue
  <2>3. wjob[w] \in Jobs
    BY <2>1, WHasJobHasJob DEF QueueInv, WHasJob
  <2> QED
    BY <1>0, <2>1, <2>2, <2>3 DEF LocksOwned
<1>6. CASE WDepDone(w) \/ WDepFree(w)
  BY <1>0, <1>6 DEF WDepDone, WDepFree, Goto, LocksOwned
<1>7. CASE WDepsDone(w)
  BY <1>0, <1>7 DEF WDepsDone, Goto, LocksOwned
<1>8. CASE WRelease(w)
  BY <1>0, <1>8 DEF WRelease, Goto, LocksOwned
<1> QED
  BY <1>1, <1>2, <1>3, <1>4, <1>5, <1>6, <1>7, <1>8 DEF WorkerStep

LEMMA LocksStep ==
  ASSUME QueueInv, [Next]_vars
  PROVE  LocksOwned'
<1> USE DEF queueVars, jobVars, wVars, mVars, WHoldsQueue, MHoldsQueue
<1>0. /\ LocksOwned /\ wpc \in [Workers -> WPoints] /\ MainOnJobs
      /\ jlock \in [Jobs -> Threads \cup {Nobody}]
      /\ Main \notin Workers /\ Nobody \notin Workers /\ Nobody # Main
      /\ NoJob \notin Jobs
  BY ThreadsDistinct, JobsFinite
     DEF QueueInv, ControlInv, TypeOK, WorkerTypeOK, JobTypeOK
<1>1. CASE MStop \/ MSpawnFails \/ MJoin \/ MStopLock
  BY <1>0, <1>1 DEF MStop, MSpawnFails, MJoin, MStopLock, LocksOwned
<1>2. ASSUME NEW j \in Jobs,
             \/ MCreate(j) \/ MCopyRef(j) \/ MSubmit(j) \/ MWaitFor(j)
             \/ MFreeJob(j)
      PROVE  LocksOwned'
  BY <1>0, <1>2 DEF MCreate, MCopyRef, MSubmit, MWaitFor, MFreeJob, LocksOwned
<1>3. ASSUME NEW j \in Jobs, NEW d \in Jobs, MDepAdd(j, d)
      PROVE  LocksOwned'
  <2>1. /\ mpc = "idle" /\ jlock[d] = Nobody
        /\ UNCHANGED <<qlock, wpc, wjob>>
    BY <1>3 DEF MDepAdd
  <2>2. CASE NothingToDo(d)
    <3>1. jlock' = [jlock EXCEPT ![d] = Nobody] /\ mpc' = mpc /\ mdep' = mdep
      BY <1>3, <2>2 DEF MDepAdd, OwnerOnReturn
    <3> QED
      BY <1>0, <2>1, <3>1 DEF LocksOwned
  <2>3. CASE ~NothingToDo(d)
    <3>1. jlock' = [jlock EXCEPT ![d] = Main] /\ mpc' = "dep" /\ mdep' = d
      BY <1>3, <2>3 DEF MDepAdd, OwnerOnReturn
    <3> QED
      BY <1>0, <2>1, <3>1 DEF LocksOwned
  <2> QED
    BY <2>2, <2>3
<1>4. CASE MInitDone \/ MSubmitLock \/ MSubmitJob
  BY <1>0, <1>4 DEF MInitDone, MSubmitLock, MSubmitJob, LocksOwned
<1>5. CASE MDepLink
  <2>1. /\ mpc = "dep" /\ mdep \in Jobs /\ mpc' = "idle"
        /\ jlock' = [jlock EXCEPT ![mdep] = Nobody]
        /\ UNCHANGED <<qlock, wpc, wjob>>
    BY <1>5 DEF MDepLink, QueueInv, TypeOK, MainTypeOK
  <2> QED
    BY <1>0, <2>1 DEF LocksOwned
<1>6. CASE MWaitCheck \/ MDrop \/ MQueueFree \/ MSpurious
  <2>1. /\ mpc \notin MHoldsQueue \cup {"stop", "dep"}
        /\ mpc' \notin MHoldsQueue \cup {"stop", "dep"}
        /\ UNCHANGED <<qlock, jlock, wpc, wjob>>
    BY <1>6 DEF MWaitCheck, MDrop, MQueueFree, MSpurious
  <2> QED
    BY <1>0, <2>1 DEF LocksOwned
<1>7. ASSUME NEW w \in Workers, MSpawn(w) \/ WSpurious(w)
      PROVE  LocksOwned'
  BY <1>0, <1>7 DEF MSpawn, WSpurious, Goto, LocksOwned, WHoldsJob
<1>8. CASE UNCHANGED vars
  BY <1>0, <1>8 DEF vars, LocksOwned
<1> QED
  BY LocksWorker, <1>1, <1>2, <1>3, <1>4, <1>5, <1>6, <1>7, <1>8
     DEF Next, MCall, MProceed, Terminated

(* The terms of a reference count are natural numbers.                     *)
LEMMA Terms ==
  ASSUME TypeOK, NEW j \in Jobs
  PROVE  /\ Edges(j) = EdgesIn(rdepends, served, j)
         /\ Cardinality(Edges(j)) \in Nat
         /\ IsFiniteSet(Holders(j)) /\ Cardinality(Holders(j)) \in Nat
         /\ IsFiniteSet(Freers(j)) /\ Cardinality(Freers(j)) \in Nat
         /\ Cardinality(Places(queue, j)) \in Nat
         /\ Cardinality(Places(drop, j)) \in Nat
         /\ handles[j] \in Nat
<1>1. /\ rdepends \in [Jobs -> Seq(Jobs)] /\ served \in [Jobs -> Nat]
      /\ queue \in Seq(Jobs) /\ drop \in Seq(Jobs) /\ handles \in [Jobs -> Nat]
  BY DEF TypeOK, JobTypeOK, QueueTypeOK, MainTypeOK
<1>2. /\ Edges(j) = EdgesIn(rdepends, served, j)
      /\ Cardinality(Edges(j)) \in Nat
  <2>1. Edges(j) = EdgesIn(rdepends, served, j)
    BY <1>1, EdgesAre DEF Edges
  <2> QED
    BY <1>1, <2>1, EdgesFinite
<1>3. IsFiniteSet(Holders(j)) /\ IsFiniteSet(Freers(j))
  BY WorkersFinite, FS_Subset DEF Holders, Freers
<1> QED
  BY <1>1, <1>2, <1>3, PlacesFinite, FS_CardinalityType

(* Nothing refers to a job whose last reference the main thread gives up.  *)
LEMMA LastDropped ==
  ASSUME QueueInv, drop # <<>>, refcount[Head(drop)] = 1
  PROVE  /\ Head(drop) \in Jobs
         /\ handles[Head(drop)] = 0
         /\ \A k \in DOMAIN queue : queue[k] # Head(drop)
         /\ \A w \in Workers : wpc[w] \in WHasJob => wjob[w] # Head(drop)
         /\ Cardinality(Edges(Head(drop))) = 0
         /\ jlock[Head(drop)] \notin Workers
         /\ served[Head(drop)] = 0
         /\ ~Dismantling => rdepends[Head(drop)] = <<>>
<1> DEFINE j == Head(drop)
<1>0. TypeOK /\ RefCountExact /\ LocksOwned /\ Entries /\ Accounted
        /\ NDependsExact
  BY DEF QueueInv, ControlInv, CountInv
<1>1. /\ drop \in Seq(Jobs) /\ queue \in Seq(Jobs)
      /\ rdepends \in [Jobs -> Seq(Jobs)] /\ served \in [Jobs -> Nat]
  BY <1>0 DEF TypeOK, MainTypeOK, QueueTypeOK, JobTypeOK
<1>2. j \in Jobs /\ 1 \in DOMAIN drop /\ drop[1] = j
  BY <1>1
<1> HIDE DEF j
<1>3. Cardinality(Places(drop, j)) # 0
  BY <1>1, <1>2, PlacesEmpty
<1>4. 1 = handles[j] + Cardinality(Places(queue, j)) + Cardinality(Edges(j))
            + Cardinality(Holders(j)) + Cardinality(Freers(j))
            + Cardinality(Places(drop, j))
  BY <1>0, <1>2 DEF RefCountExact, j
<1>5. /\ handles[j] = 0 /\ Cardinality(Places(queue, j)) = 0
      /\ Cardinality(Edges(j)) = 0 /\ Cardinality(Holders(j)) = 0
  BY <1>0, <1>2, <1>3, <1>4, Terms
<1>6. Holders(j) = {}
  BY <1>0, <1>2, <1>5, Terms, FS_EmptySet
<1>7. /\ \A k \in DOMAIN queue : queue[k] # j
      /\ \A w \in Workers : wpc[w] \in WHasJob => wjob[w] # j
  BY <1>1, <1>5, <1>6, PlacesEmpty DEF Holders
<1>8. jlock[j] \notin Workers
  BY <1>0, <1>2, <1>7 DEF LocksOwned, WHasJob
<1>9. served[j] = 0
  BY <1>0, <1>2, <1>8 DEF Entries
<1>10. ASSUME ~Dismantling PROVE rdepends[j] = <<>>
  <2>1. ndepends[j] = 0
    BY <1>0, <1>2, <1>5, <1>10 DEF NDependsExact
  <2>2. state[j] \notin Unfinished
    BY <1>0, <1>2, <1>7, <1>10, <2>1
       DEF Accounted, Unfinished, WHasJob, Executing
  <2> QED
    BY <1>0, <1>2, <1>8, <2>2 DEF Entries
<1> QED
  BY <1>2, <1>5, <1>7, <1>8, <1>9, <1>10 DEF j

(* The queue's lock has one owner.                                         *)
LEMMA OneOwner ==
  ASSUME QueueInv, NEW v \in Workers, NEW w \in Workers,
         wpc[v] \in WHoldsQueue, wpc[w] \in WHoldsQueue
  PROVE  v = w
BY DEF QueueInv, ControlInv, LocksOwned

LEMMA JobsWorker ==
  ASSUME QueueInv, NEW w \in Workers, WorkerStep(w)
  PROVE  WorkersOnJobs'
<1> USE DEF queueVars, jobVars, wVars, mVars, Executing, Completing, WHasJob,
        WHoldsJob
<1>0. /\ WorkersOnJobs /\ QueueReady
      /\ wpc \in [Workers -> WPoints] /\ state \in [Jobs -> JobStates]
      /\ wjob \in [Workers -> Jobs \cup {NoJob}]
      /\ served \in [Jobs -> Nat] /\ queue \in Seq(Jobs)
      /\ \A v \in Workers : wpc[v] \in WHasJob => wjob[v] \in Jobs
  BY DEF QueueInv, ControlInv, TypeOK, WorkerTypeOK, JobTypeOK, QueueTypeOK
<1>1. CASE WLock(w) \/ WWait(w) \/ WExit(w)
  BY <1>0, <1>1 DEF WLock, WWait, WExit, Goto, WorkersOnJobs
<1>8. CASE WRelock(w) \/ WEndRun(w) \/ WDepFree(w)
  BY <1>0, <1>8 DEF WRelock, WEndRun, WDepFree, Goto, WorkersOnJobs
<1>2. CASE WPop(w)
  <2>1. Head(queue) = queue[1] /\ 1 \in DOMAIN queue
    BY <1>0, <1>2 DEF WPop
  <2>2. \A v \in Workers : wpc[v] = "start" => v = w
    BY <1>2, OneOwner DEF WPop, WHoldsQueue
  <2>3. wpc[w] = "loop"
    BY <1>2 DEF WPop
  <2>4. \A v \in Workers : wpc[v] \in WHasJob => wjob[v] # Head(queue)
    BY <1>0, <2>1, <2>2, <2>3 DEF WorkersOnJobs, QueueReady
  <2> QED
    BY <1>0, <1>2, <2>1, <2>4 DEF WPop, Goto, WorkersOnJobs, QueueReady
<1>3. CASE WStart(w)
  BY <1>0, <1>3 DEF WStart, Goto, WorkersOnJobs
<1>4. CASE WFinish(w)
  BY <1>0, <1>4 DEF WFinish, Goto, WorkersOnJobs
<1>5. CASE WDepDone(w)
  <2> DEFINE r == NextDep(w)
  <2>1. r \in Jobs /\ wjob[w] \in Jobs
    BY <1>5, NextDepType DEF QueueInv
  <2>2. \/ state' = state
        \/ state[r] = "WAITING" /\ state' = [state EXCEPT ![r] = "READY"]
    BY <1>5 DEF WDepDone, PushJob, BecomesReady
  <2>3. \A v \in Workers : wpc[v] = "depfree" => v = w
    BY <1>5, OneOwner DEF WDepDone, WHoldsQueue
  <2>4. /\ wpc[w] = "dep" /\ wpc' = [wpc EXCEPT ![w] = "depfree"]
        /\ served' = [served EXCEPT ![wjob[w]] = @ + 1] /\ wjob' = wjob
    BY <1>5 DEF WDepDone, Goto
  <2> HIDE DEF r
  <2>5. served'[wjob[w]] > 0
    BY <1>0, <2>1, <2>4
  <2>6. \A v \in Workers : wpc[v] \in WHasJob => state'[wjob[v]] = state[wjob[v]]
    BY <1>0, <2>1, <2>2 DEF WorkersOnJobs
  <2> QED
    BY <1>0, <2>3, <2>4, <2>5, <2>6 DEF WorkersOnJobs
<1>6. CASE WDepsDone(w)
  <2>1. \A v \in Workers : wpc[v] = "depfree" => v = w
    BY <1>6, OneOwner DEF WDepsDone, WHoldsQueue
  <2> QED
    BY <1>0, <1>6, <2>1 DEF WDepsDone, Goto, WorkersOnJobs
<1>7. CASE WRelease(w)
  BY <1>0, <1>7 DEF WRelease, Goto, WorkersOnJobs
<1> QED
  BY <1>1, <1>2, <1>3, <1>4, <1>5, <1>6, <1>7, <1>8 DEF WorkerStep

LEMMA JobsStep ==
  ASSUME QueueInv, [Next]_vars
  PROVE  WorkersOnJobs'
<1> USE DEF queueVars, jobVars, wVars, mVars, Executing, Completing, WHasJob,
        WHoldsJob
<1>0. /\ WorkersOnJobs /\ MainOnJobs
      /\ wpc \in [Workers -> WPoints] /\ state \in [Jobs -> JobStates]
      /\ served \in [Jobs -> Nat]
      /\ \A v \in Workers : wpc[v] \in WHasJob => wjob[v] \in Jobs
  BY DEF QueueInv, ControlInv, TypeOK, WorkerTypeOK, JobTypeOK
<1>1. ASSUME UNCHANGED <<wpc, wjob, state, served>>
      PROVE  WorkersOnJobs'
  BY <1>0, <1>1 DEF WorkersOnJobs
<1>2. CASE MSpawnFails \/ MInitDone \/ MDepLink \/ MSubmitLock \/ MWaitCheck
             \/ MStopLock \/ MJoin \/ MQueueFree \/ MStop \/ MSpurious
             \/ UNCHANGED vars
  BY <1>1, <1>2 DEF MSpawnFails, MInitDone, MDepLink, MSubmitLock, MWaitCheck,
     MStopLock, MJoin, MQueueFree, MStop, MSpurious, vars
<1>3. ASSUME NEW j \in Jobs,
             \/ MCopyRef(j) \/ MSubmit(j) \/ MWaitFor(j) \/ MFreeJob(j)
             \/ \E d \in Jobs : MDepAdd(j, d)
      PROVE  WorkersOnJobs'
  BY <1>1, <1>3 DEF MCopyRef, MSubmit, MWaitFor, MFreeJob, MDepAdd
<1>4. ASSUME NEW w \in Workers, WSpurious(w)
      PROVE  WorkersOnJobs'
  BY <1>1, <1>4 DEF WSpurious
<1>5. ASSUME NEW w \in Workers, MSpawn(w)
      PROVE  WorkersOnJobs'
  BY <1>0, <1>5 DEF MSpawn, Goto, WorkersOnJobs
<1>6. ASSUME NEW j \in Jobs, NEW s, state[j] \in {"NONE", "PAUSED"},
             state' = [state EXCEPT ![j] = s],
             UNCHANGED <<wpc, wjob, served>>
      PROVE  WorkersOnJobs'
  BY <1>0, <1>6 DEF WorkersOnJobs
<1>7. ASSUME NEW j \in Jobs, MCreate(j)
      PROVE  WorkersOnJobs'
  BY <1>6, <1>7 DEF MCreate
<1>8. CASE MSubmitJob
  <2>1. mjob \in Jobs /\ state[mjob] = "PAUSED"
    BY <1>0, <1>8
       DEF MSubmitJob, MainOnJobs, QueueInv, TypeOK, MainTypeOK, MHasJob
  <2>2. \/ state' = [state EXCEPT ![mjob] = "READY"]
        \/ state' = [state EXCEPT ![mjob] = SubmitsTo(mjob)]
    BY <1>8 DEF MSubmitJob, PushJob, SetState
  <2> QED
    BY <1>6, <1>8, <2>1, <2>2 DEF MSubmitJob
<1>9. CASE MDrop
  <2>1. drop # <<>>
    BY <1>9 DEF MDrop, QueueInv, TypeOK, MainTypeOK
  <2>2. \/ served' = served
        \/ /\ refcount[Head(drop)] = 1
           /\ served' = [served EXCEPT ![Head(drop)] = 0]
    BY <1>9 DEF MDrop, ClearRdepends
  <2>3. \A w \in Workers :
          wpc[w] = "depfree" => served'[wjob[w]] = served[wjob[w]]
    BY <1>0, <2>1, <2>2, LastDropped
  <2>4. UNCHANGED <<wpc, wjob, state>>
    BY <1>9 DEF MDrop
  <2> QED
    BY <1>0, <2>3, <2>4 DEF WorkersOnJobs
<1> QED
  BY JobsWorker, <1>2, <1>3, <1>4, <1>5, <1>7, <1>8, <1>9
     DEF Next, MCall, MProceed, Terminated

LEMMA QueueReadyStep ==
  ASSUME QueueInv, [Next]_vars
  PROVE  QueueReady'
<1> USE DEF queueVars, jobVars, wVars, mVars
<1>0. /\ WorkersOnJobs /\ QueueReady /\ MainOnJobs /\ LocksOwned
      /\ wpc \in [Workers -> WPoints] /\ state \in [Jobs -> JobStates]
      /\ wjob \in [Workers -> Jobs \cup {NoJob}] /\ queue \in Seq(Jobs)
      /\ \A v \in Workers : wpc[v] \in WHasJob => wjob[v] \in Jobs
  BY DEF QueueInv, ControlInv, TypeOK, WorkerTypeOK, JobTypeOK, QueueTypeOK
<1>1. ASSUME queue' = queue,
             \A k \in DOMAIN queue : state'[queue[k]] = state[queue[k]],
             \A v \in Workers :
               wpc'[v] = "start" => wpc[v] = "start" /\ wjob'[v] = wjob[v]
      PROVE  QueueReady'
  BY <1>0, <1>1 DEF QueueReady
<1>2. ASSUME NEW r \in Jobs, state[r] # "READY", queue' = Append(queue, r),
             state' = [state EXCEPT ![r] = "READY"],
             \A v \in Workers : wpc'[v] # "start"
      PROVE  QueueReady'
  <2>1. /\ DOMAIN queue' = 1..(Len(queue) + 1) /\ Len(queue) \in Nat
        /\ DOMAIN queue = 1..Len(queue)
        /\ \A k \in DOMAIN queue : queue'[k] = queue[k] /\ queue[k] \in Jobs
        /\ queue'[Len(queue) + 1] = r
    BY <1>0, <1>2
  <2>2. \A k \in DOMAIN queue' : k \in DOMAIN queue \/ k = Len(queue) + 1
    BY <2>1
  <2>3. \A k \in DOMAIN queue : queue[k] # r /\ state'[queue[k]] = "READY"
    BY <1>0, <1>2, <2>1 DEF QueueReady
  <2>4. state'[r] = "READY"
    BY <1>0, <1>2
  <2>5. \A k \in DOMAIN queue' : state'[queue'[k]] = "READY"
    BY <2>1, <2>2, <2>3, <2>4
  <2>6. \A k, l \in DOMAIN queue' : queue'[k] = queue'[l] => k = l
    BY <1>0, <2>1, <2>2, <2>3 DEF QueueReady
  <2> QED
    BY <1>2, <2>5, <2>6 DEF QueueReady
<1>3. ASSUME NEW w \in Workers, WorkerStep(w)
      PROVE  QueueReady'
  <2> USE DEF Goto
  <2>1. CASE WLock(w) \/ WWait(w) \/ WExit(w) \/ WEndRun(w) \/ WRelock(w)
    BY <1>0, <1>1, <2>1 DEF WLock, WWait, WExit, WEndRun, WRelock
  <2>2. CASE WDepFree(w) \/ WDepsDone(w) \/ WRelease(w)
    BY <1>0, <1>1, <2>2 DEF WDepFree, WDepsDone, WRelease, ClearRdepends
  <2>3. CASE WPop(w)
    <3>1. /\ queue # <<>> /\ queue' = Tail(queue) /\ state' = state
          /\ wjob' = [wjob EXCEPT ![w] = Head(queue)]
          /\ wpc' = [wpc EXCEPT ![w] = "start"] /\ wpc[w] = "loop"
      BY <2>3 DEF WPop
    <3>2. /\ Len(queue) \in Nat \ {0} /\ DOMAIN queue = 1..Len(queue)
          /\ DOMAIN queue' = 1..(Len(queue) - 1)
          /\ \A k \in DOMAIN queue' : queue'[k] = queue[k + 1]
                                      /\ k + 1 \in DOMAIN queue /\ k + 1 # 1
          /\ Head(queue) = queue[1] /\ 1 \in DOMAIN queue
      BY <1>0, <3>1
    <3>3. \A v \in Workers : wpc'[v] = "start" => v = w
      BY <1>0, <3>1, OneOwner DEF WHoldsQueue
    <3>4. wjob'[w] = queue[1]
      BY <1>0, <3>1, <3>2
    <3>5. \A k \in DOMAIN queue' : queue'[k] # queue[1]
      BY <1>0, <3>2 DEF QueueReady
    <3>6. \A k \in DOMAIN queue' : state'[queue'[k]] = "READY"
      BY <1>0, <3>1, <3>2 DEF QueueReady
    <3>7. \A k, l \in DOMAIN queue' : queue'[k] = queue'[l] => k = l
      BY <1>0, <3>2 DEF QueueReady
    <3> QED
      BY <3>3, <3>4, <3>5, <3>6, <3>7 DEF QueueReady
  <2>4. CASE WStart(w)
    BY <1>0, <1>1, <2>4 DEF WStart, QueueReady
  <2>5. CASE WFinish(w)
    BY <1>0, <1>1, <2>5 DEF WFinish, QueueReady, WorkersOnJobs, Executing
  <2>6. CASE WDepDone(w)
    <3>1. NextDep(w) \in Jobs
      BY <2>6, NextDepType DEF QueueInv
    <3>2. CASE BecomesReady(NextDep(w))
      <4>1. \A v \in Workers : wpc'[v] # "start"
        BY <1>0, <2>6, OneOwner DEF WDepDone, WHoldsQueue
      <4> QED
        BY <1>2, <2>6, <3>1, <3>2, <4>1 DEF WDepDone, PushJob, BecomesReady
    <3>3. CASE ~BecomesReady(NextDep(w))
      BY <1>0, <1>1, <2>6, <3>3 DEF WDepDone
    <3> QED
      BY <3>2, <3>3
  <2> QED
    BY <1>3, <2>1, <2>2, <2>3, <2>4, <2>5, <2>6 DEF WorkerStep
<1>4. CASE MSpawnFails \/ MInitDone \/ MDepLink \/ MSubmitLock \/ MWaitCheck
             \/ MStopLock \/ MJoin \/ MStop \/ MSpurious \/ MDrop
             \/ UNCHANGED vars
  BY <1>1, <1>4 DEF MSpawnFails, MInitDone, MDepLink, MSubmitLock, MWaitCheck,
     MStopLock, MJoin, MStop, MSpurious, MDrop, vars
<1>5. ASSUME NEW j \in Jobs,
             \/ MCopyRef(j) \/ MSubmit(j) \/ MWaitFor(j) \/ MFreeJob(j)
             \/ \E d \in Jobs : MDepAdd(j, d)
      PROVE  QueueReady'
  BY <1>1, <1>5 DEF MCopyRef, MSubmit, MWaitFor, MFreeJob, MDepAdd
<1>6. ASSUME NEW w \in Workers, WSpurious(w) \/ MSpawn(w)
      PROVE  QueueReady'
  BY <1>0, <1>1, <1>6 DEF WSpurious, MSpawn, Goto
<1>7. ASSUME NEW j \in Jobs, MCreate(j)
      PROVE  QueueReady'
  BY <1>0, <1>1, <1>7 DEF MCreate, QueueReady
<1>8. CASE MSubmitJob
  <2>1. /\ mjob \in Jobs /\ state[mjob] = "PAUSED"
        /\ \A v \in Workers : wpc[v] # "start"
    BY <1>0, <1>8, ThreadsDistinct
       DEF MSubmitJob, MainOnJobs, QueueInv, TypeOK, MainTypeOK, MHasJob,
       LocksOwned, MHoldsQueue, WHoldsQueue
  <2>2. CASE SubmitsTo(mjob) = "READY"
    BY <1>2, <1>8, <2>1, <2>2 DEF MSubmitJob, PushJob
  <2>3. CASE SubmitsTo(mjob) # "READY"
    BY <1>0, <1>1, <1>8, <2>1, <2>3 DEF MSubmitJob, SetState, QueueReady
  <2> QED
    BY <2>2, <2>3
<1>9. CASE MQueueFree
  <2>1. queue' = <<>>
    BY <1>9 DEF MQueueFree
  <2> QED
    BY <2>1 DEF QueueReady
<1> QED
  BY <1>3, <1>4, <1>5, <1>6, <1>7, <1>8, <1>9
     DEF Next, MCall, MProceed, Terminated

LEMMA MainStep ==
  ASSUME QueueInv, [Next]_vars
  PROVE  MainOnJobs'
<1> USE DEF queueVars, jobVars, wVars, mVars, MHasJob, Unfinished
<1>0. /\ WorkersOnJobs /\ MainOnJobs /\ LocksOwned
      /\ state \in [Jobs -> JobStates] /\ handles \in [Jobs -> Nat]
      /\ mpc \in MHasJob => mjob \in Jobs
      /\ mpc = "dep" => mdep \in Jobs
      /\ \A v \in Workers : wpc[v] \in WHasJob => wjob[v] \in Jobs
  BY DEF QueueInv, ControlInv, TypeOK, WorkerTypeOK, JobTypeOK, MainTypeOK
<1>1. ASSUME mpc' = mpc \/ (mpc = "waiting" /\ mpc' = "waitjob"),
             UNCHANGED <<mjob, mdep, handles>>,
             \A j \in Jobs : state[j] = "PAUSED" => state'[j] = "PAUSED",
             mpc = "dep" => state'[mdep] \in Unfinished
      PROVE  MainOnJobs'
  BY <1>0, <1>1 DEF MainOnJobs
<1>2. ASSUME NEW w \in Workers, WorkerStep(w)
      PROVE  MainOnJobs'
  <2>1. CASE WLock(w) \/ WWait(w) \/ WExit(w) \/ WEndRun(w) \/ WRelock(w)
               \/ WPop(w)
    BY <1>0, <1>1, <2>1 DEF WLock, WWait, WExit, WEndRun, WRelock, WPop,
       MainOnJobs
  <2>2. CASE WDepFree(w) \/ WDepsDone(w) \/ WRelease(w)
    BY <1>0, <1>1, <2>2 DEF WDepFree, WDepsDone, WRelease, MainOnJobs
  <2>3. CASE WStart(w)
    BY <1>0, <1>1, <2>3 DEF WStart, WorkersOnJobs, MainOnJobs, WHasJob
  <2>4. CASE WFinish(w)
    <3>1. /\ wjob[w] \in Jobs /\ state[wjob[w]] = "RUNNING"
          /\ mpc = "dep" => mdep # wjob[w]
          /\ state' = [state EXCEPT ![wjob[w]] = "DONE"]
      BY <1>0, <2>4, ThreadsDistinct
         DEF WFinish, WorkersOnJobs, WHasJob, Executing, LocksOwned
    <3>2. \A j \in Jobs : state[j] = "PAUSED" => state'[j] = "PAUSED"
      BY <1>0, <3>1
    <3>3. mpc = "dep" => state'[mdep] \in Unfinished
      BY <1>0, <3>1 DEF MainOnJobs
    <3> QED
      BY <1>1, <2>4, <3>2, <3>3 DEF WFinish, SignalDone
  <2>5. CASE WDepDone(w)
    <3>1. NextDep(w) \in Jobs
      BY <2>5, NextDepType DEF QueueInv
    <3>2. \/ state' = state
          \/ /\ state[NextDep(w)] = "WAITING"
             /\ state' = [state EXCEPT ![NextDep(w)] = "READY"]
      BY <2>5 DEF WDepDone, PushJob, BecomesReady
    <3> QED
      BY <1>0, <1>1, <2>5, <3>1, <3>2 DEF WDepDone, MainOnJobs
  <2> QED
    BY <1>2, <2>1, <2>2, <2>3, <2>4, <2>5 DEF WorkerStep
<1>3. CASE MSpawnFails \/ MInitDone \/ MDepLink \/ MSubmitLock \/ MWaitCheck
             \/ MStopLock \/ MJoin \/ MStop \/ MSpurious \/ UNCHANGED vars
  BY <1>0, <1>3 DEF MSpawnFails, MInitDone, MDepLink, MSubmitLock, MWaitCheck,
     MStopLock, MJoin, MStop, MSpurious, vars, MainOnJobs
<1>4. CASE MDrop \/ MQueueFree
  BY <1>0, <1>4 DEF MDrop, MQueueFree, MainOnJobs
<1>5. CASE MSubmitJob
  BY <1>0, <1>5 DEF MSubmitJob, MainOnJobs
<1>6. ASSUME NEW j \in Jobs,
             \/ MCopyRef(j) \/ MSubmit(j) \/ MWaitFor(j) \/ MFreeJob(j)
             \/ MCreate(j)
      PROVE  MainOnJobs'
  BY <1>0, <1>6 DEF MCopyRef, MSubmit, MWaitFor, MFreeJob, MCreate, MainOnJobs
<1>7. ASSUME NEW j \in Jobs, NEW d \in Jobs, MDepAdd(j, d)
      PROVE  MainOnJobs'
  BY <1>0, <1>7 DEF MDepAdd, NothingToDo, MainOnJobs, Submitted
<1>8. ASSUME NEW w \in Workers, WSpurious(w) \/ MSpawn(w)
      PROVE  MainOnJobs'
  BY <1>0, <1>1, <1>8 DEF WSpurious, MSpawn, MainOnJobs
<1> QED
  BY <1>2, <1>3, <1>4, <1>5, <1>6, <1>7, <1>8
     DEF Next, MCall, MProceed, Terminated

LEMMA ClosingStep ==
  ASSUME QueueInv, [Next]_vars
  PROVE  Closing'
<1> USE DEF queueVars, jobVars, wVars, mVars, Dismantling
<1>0. Closing /\ wpc \in [Workers -> WPoints] /\ handles \in [Jobs -> Nat]
  BY DEF QueueInv, ControlInv, TypeOK, WorkerTypeOK, MainTypeOK
<1>1. ASSUME NEW w \in Workers, WorkerStep(w)
      PROVE  Closing'
  <2>1. wpc[w] \notin {"none", "exit"}
    BY <1>1 DEF WorkerStep, WLock, WWait, WExit, WPop, WStart, WEndRun, WRelock,
       WFinish, WDepDone, WDepFree, WDepsDone, WRelease
  <2>2. ~Dismantling
    BY <1>0, <2>1 DEF Closing
  <2>3. mpc' = mpc \/ (mpc = "waiting" /\ mpc' = "waitjob")
    BY <1>1 DEF WorkerStep, WLock, WWait, WExit, WPop, WStart, WEndRun, WRelock,
       WFinish, WDepDone, WDepFree, WDepsDone, WRelease, SignalDone
  <2>4. UNCHANGED <<stop, handles, drop>>
    BY <1>1 DEF WorkerStep, WLock, WWait, WExit, WPop, WStart, WEndRun, WRelock,
       WFinish, WDepDone, WDepFree, WDepsDone, WRelease
  <2> QED
    BY <1>0, <2>2, <2>3, <2>4 DEF Closing
<1>2. CASE MSpawnFails \/ MInitDone \/ MDepLink \/ MSubmitLock \/ MWaitCheck
             \/ MStopLock \/ MJoin \/ MStop \/ MSpurious \/ UNCHANGED vars
  BY <1>0, <1>2 DEF MSpawnFails, MInitDone, MDepLink, MSubmitLock, MWaitCheck,
     MStopLock, MJoin, MStop, MSpurious, vars, Closing
<1>3. CASE MDrop
  <2>1. /\ mpc' = IF drop' # <<>> THEN mpc
                  ELSE IF mpc = "flush" THEN "freed"
                  ELSE IF stop THEN "stopped" ELSE "idle"
        /\ mpc \in {"drop", "flush"} /\ UNCHANGED <<stop, wpc, queue, handles>>
    BY <1>3 DEF MDrop
  <2> QED
    BY <1>0, <2>1 DEF Closing
<1>4. CASE MQueueFree
  <2>1. /\ mpc = "stopped" /\ UNCHANGED <<stop, wpc, handles>>
        /\ drop' = queue /\ queue' = <<>> /\ \A j \in Jobs : handles[j] = 0
        /\ mpc' = IF queue = <<>> THEN "freed" ELSE "flush"
    BY <1>4 DEF MQueueFree
  <2> QED
    BY <1>0, <2>1 DEF Closing
<1>5. CASE MSubmitJob
  BY <1>0, <1>5 DEF MSubmitJob, Closing
<1>6. ASSUME NEW j \in Jobs,
             \/ MCopyRef(j) \/ MSubmit(j) \/ MWaitFor(j) \/ MFreeJob(j)
             \/ MCreate(j) \/ \E d \in Jobs : MDepAdd(j, d)
      PROVE  Closing'
  BY <1>0, <1>6 DEF MCopyRef, MSubmit, MWaitFor, MFreeJob, MCreate, MDepAdd,
     Closing
<1>7. ASSUME NEW w \in Workers, WSpurious(w) \/ MSpawn(w)
      PROVE  Closing'
  BY <1>0, <1>7 DEF WSpurious, MSpawn, Closing
<1> QED
  BY <1>1, <1>2, <1>3, <1>4, <1>5, <1>6, <1>7
     DEF Next, MCall, MProceed, Terminated

LEMMA InlineStep ==
  ASSUME QueueInv, [Next]_vars
  PROVE  InlineOnly'
<1> USE DEF queueVars, jobVars, wVars, mVars, Unfinished
<1>0. /\ InlineOnly /\ LocksOwned /\ MainOnJobs
      /\ wpc \in [Workers -> WPoints] /\ state \in [Jobs -> JobStates]
      /\ mpc \in MHasJob => mjob \in Jobs
      /\ Main \notin Workers
  BY ThreadsDistinct
     DEF QueueInv, ControlInv, TypeOK, WorkerTypeOK, JobTypeOK, MainTypeOK
<1>1. ASSUME state' = state, NoThreads' => NoThreads,
             mpc' = "init" => mpc = "init"
      PROVE  InlineOnly'
  BY <1>0, <1>1 DEF InlineOnly
<1>2. ASSUME NEW w \in Workers, WorkerStep(w)
      PROVE  InlineOnly'
  <2>1. wpc[w] # "none" /\ wpc'[w] # "none"
    BY <1>0, <1>2 DEF WorkerStep, WLock, WWait, WExit, WPop, WStart, WEndRun,
       WRelock, WFinish, WDepDone, WDepFree, WDepsDone, WRelease, Goto
  <2>2. mpc' = mpc \/ (mpc = "waiting" /\ mpc' = "waitjob")
    BY <1>2 DEF WorkerStep, WLock, WWait, WExit, WPop, WStart, WEndRun, WRelock,
       WFinish, WDepDone, WDepFree, WDepsDone, WRelease, SignalDone
  <2>3. state' = state \/ wpc[w] \in WHoldsQueue
    BY <1>2 DEF WorkerStep, WLock, WWait, WExit, WPop, WStart, WEndRun, WRelock,
       WFinish, WDepDone, WDepFree, WDepsDone, WRelease, WHoldsQueue
  <2>4. ~NoThreads'
    BY <2>1 DEF NoThreads
  <2>5. CASE state' = state
    BY <1>1, <2>2, <2>4, <2>5
  <2>6. CASE wpc[w] \in WHoldsQueue
    <3>1. mpc # "init"
      BY <1>0, <2>6 DEF LocksOwned, MHoldsQueue
    <3> QED
      BY <2>2, <2>4, <3>1 DEF InlineOnly
  <2> QED
    BY <2>3, <2>5, <2>6
<1>3. CASE MSpawnFails \/ MInitDone \/ MDepLink \/ MSubmitLock \/ MWaitCheck
             \/ MStopLock \/ MJoin \/ MStop \/ MSpurious \/ UNCHANGED vars
  BY <1>1, <1>3 DEF MSpawnFails, MInitDone, MDepLink, MSubmitLock, MWaitCheck,
     MStopLock, MJoin, MStop, MSpurious, vars, NoThreads
<1>4. CASE MDrop \/ MQueueFree
  BY <1>1, <1>4 DEF MDrop, MQueueFree, NoThreads
<1>5. CASE MSubmitJob
  <2>1. /\ mjob \in Jobs /\ mpc' = "idle" /\ wpc' = wpc
        /\ \/ state' = [state EXCEPT ![mjob] = "READY"] /\ ~NoThreads
           \/ state' = [state EXCEPT ![mjob] = SubmitsTo(mjob)]
    BY <1>0, <1>5 DEF MSubmitJob, PushJob, SetState, SubmitsTo, MHasJob
  <2>2. NoThreads => SubmitsTo(mjob) = "DONE"
    BY DEF SubmitsTo
  <2> QED
    BY <1>0, <2>1, <2>2 DEF InlineOnly, NoThreads
<1>6. ASSUME NEW j \in Jobs,
             \/ MCopyRef(j) \/ MSubmit(j) \/ MWaitFor(j) \/ MFreeJob(j)
             \/ \E d \in Jobs : MDepAdd(j, d)
      PROVE  InlineOnly'
  BY <1>1, <1>6 DEF MCopyRef, MSubmit, MWaitFor, MFreeJob, MDepAdd, NoThreads
<1>7. ASSUME NEW j \in Jobs, MCreate(j)
      PROVE  InlineOnly'
  BY <1>0, <1>7 DEF MCreate, InlineOnly, NoThreads
<1>8. ASSUME NEW w \in Workers, WSpurious(w)
      PROVE  InlineOnly'
  BY <1>1, <1>8 DEF WSpurious, NoThreads
<1>9. ASSUME NEW w \in Workers, MSpawn(w)
      PROVE  InlineOnly'
  BY <1>0, <1>9 DEF MSpawn, InlineOnly
<1> QED
  BY <1>2, <1>3, <1>4, <1>5, <1>6, <1>7, <1>8, <1>9
     DEF Next, MCall, MProceed, Terminated

-----------------------------------------------------------------------------
(* The counting part of the invariant is preserved by every step, and what *)
(* follows from the invariant: the safety properties of the thread queue,  *)
(* and that it implements JobScheduler.                                    *)

(* The parts of the invariant, for the steps below.                        *)
LEMMA Parts ==
  ASSUME QueueInv
  PROVE  /\ rdepends \in [Jobs -> Seq(Jobs)] /\ served \in [Jobs -> Nat]
         /\ \A d \in Jobs : served[d] <= Len(rdepends[d])
         /\ queue \in Seq(Jobs) /\ drop \in Seq(Jobs)
         /\ handles \in [Jobs -> Nat] /\ refcount \in [Jobs -> Int]
         /\ ndepends \in [Jobs -> Int] /\ state \in [Jobs -> JobStates]
         /\ jlock \in [Jobs -> Threads \cup {Nobody}]
         /\ wpc \in [Workers -> WPoints]
         /\ wjob \in [Workers -> Jobs \cup {NoJob}]
         /\ deps \in [Jobs -> SUBSET Jobs]
         /\ \A v \in Workers : wpc[v] \in WHasJob => wjob[v] \in Jobs
         /\ mpc \in MHasJob => mjob \in Jobs
         /\ mpc = "dep" => mdep \in Jobs
BY DEF QueueInv, TypeOK, QueueTypeOK, JobTypeOK, WorkerTypeOK, MainTypeOK

LEMMA SumPositive ==
  ASSUME NEW a \in Nat, NEW b \in Nat, NEW c \in Nat, NEW d \in Nat,
         NEW e \in Nat, NEW f \in Nat,
         a # 0 \/ d # 0 \/ e # 0 \/ f # 0
  PROVE  a + b + c + d + e + f > 0
OBVIOUS

LEMMA SumZero ==
  ASSUME NEW a \in Nat, NEW b \in Nat, NEW c \in Nat, NEW d \in Nat,
         NEW e \in Nat, NEW f \in Nat, a + b + c + d + e + f = 0
  PROVE  a = 0
OBVIOUS

(* A job that somebody refers to has a positive reference count.           *)
LEMMA Referenced ==
  ASSUME TypeOK, RefCountExact, NEW j \in Jobs,
         \/ handles[j] > 0
         \/ \E w \in Workers : wpc[w] \in WHasJob /\ wjob[w] = j
         \/ \E w \in Workers : wpc[w] = "depfree" /\ CurDep(w) = j
         \/ \E k \in DOMAIN drop : drop[k] = j
  PROVE  refcount[j] > 0
<1>1. drop \in Seq(Jobs)
  BY DEF TypeOK, MainTypeOK
<1>2. \/ handles[j] # 0 \/ Holders(j) # {} \/ Freers(j) # {}
      \/ Cardinality(Places(drop, j)) # 0
  BY <1>1, PlacesEmpty DEF Holders, Freers
<1>3. \/ handles[j] # 0 \/ Cardinality(Holders(j)) # 0
      \/ Cardinality(Freers(j)) # 0 \/ Cardinality(Places(drop, j)) # 0
  BY <1>2, Terms, FS_EmptySet
<1> QED
  <2>1. refcount[j] = handles[j] + Cardinality(Places(queue, j))
                        + Cardinality(Edges(j)) + Cardinality(Holders(j))
                        + Cardinality(Freers(j)) + Cardinality(Places(drop, j))
    BY DEF RefCountExact
  <2>2. /\ handles[j] \in Nat /\ Cardinality(Places(queue, j)) \in Nat
        /\ Cardinality(Edges(j)) \in Nat /\ Cardinality(Holders(j)) \in Nat
        /\ Cardinality(Freers(j)) \in Nat
        /\ Cardinality(Places(drop, j)) \in Nat
    BY Terms
  <2>3. handles[j] + Cardinality(Places(queue, j)) + Cardinality(Edges(j))
          + Cardinality(Holders(j)) + Cardinality(Freers(j))
          + Cardinality(Places(drop, j)) > 0
    BY <1>3, <2>2, SumPositive, Zenon
  <2> QED
    BY <2>1, <2>3, Zenon

(* Before jobs are dismantled, a job without references has no entries.    *)
LEMMA Quiet ==
  TypeOK /\ LocksOwned /\ Entries /\ Accounted /\ RefCountExact
    /\ NDependsExact /\ ~Dismantling
  => \A j \in Jobs : refcount[j] <= 0 => rdepends[j] = <<>>
<1> SUFFICES ASSUME TypeOK, LocksOwned, Entries, Accounted, RefCountExact,
                    NDependsExact, ~Dismantling,
                    NEW j \in Jobs, refcount[j] <= 0
             PROVE  rdepends[j] = <<>>
  OBVIOUS
<1>1. /\ handles[j] = 0 /\ Cardinality(Places(queue, j)) = 0
      /\ Cardinality(Edges(j)) = 0 /\ Cardinality(Holders(j)) = 0
  <2>1. refcount[j] \in Int
    BY DEF TypeOK, JobTypeOK
  <2>2. refcount[j] = handles[j] + Cardinality(Places(queue, j))
                        + Cardinality(Edges(j)) + Cardinality(Holders(j))
                        + Cardinality(Freers(j)) + Cardinality(Places(drop, j))
    BY DEF RefCountExact
  <2> QED
    BY <2>1, <2>2, Terms
<1>2. Holders(j) = {}
  BY <1>1, Terms, FS_EmptySet
<1>3. queue \in Seq(Jobs)
  BY DEF TypeOK, QueueTypeOK
<1>4. /\ \A k \in DOMAIN queue : queue[k] # j
      /\ \A w \in Workers : wpc[w] \in WHasJob => wjob[w] # j
  BY <1>1, <1>2, <1>3, PlacesEmpty DEF Holders
<1>5. jlock[j] \notin Workers
  BY <1>4 DEF LocksOwned, WHasJob
<1>6. state[j] \notin Unfinished
  <2>1. ndepends[j] = 0
    BY <1>1 DEF NDependsExact
  <2> QED
    BY <1>4, <2>1 DEF Accounted, Unfinished, WHasJob, Executing
<1> QED
  BY <1>5, <1>6 DEF Entries

(* Once jobs are dismantled, they remain so, and no worker moves.          *)
LEMMA DismantlingStays ==
  ASSUME QueueInv, [Next]_vars, Dismantling
  PROVE  Dismantling'
<1> USE DEF queueVars, Dismantling
<1>1. /\ stop /\ mpc \in {"stopped", "drop", "flush", "freed"}
      /\ \A w \in Workers : wpc[w] \in {"none", "exit"}
  BY DEF QueueInv, ControlInv, Closing
<1>2. ASSUME NEW w \in Workers, WorkerStep(w)
      PROVE  FALSE
  BY <1>1, <1>2 DEF WorkerStep, WLock, WWait, WExit, WPop, WStart, WEndRun,
     WRelock, WFinish, WDepDone, WDepFree, WDepsDone, WRelease
<1>3. CASE MCall
  BY <1>1, <1>3 DEF MCall, MStop, MCreate, MCopyRef, MSubmit, MWaitFor, MDepAdd
<1>4. CASE MProceed
  BY <1>1, <1>4 DEF MProceed, MSpawnFails, MInitDone, MDepLink, MSubmitLock,
     MSubmitJob, MWaitCheck, MDrop, MStopLock, MJoin, MQueueFree, MSpawn,
     MFreeJob
<1>5. CASE MSpurious \/ UNCHANGED vars
  BY <1>1, <1>5 DEF MSpurious, vars, mVars
<1>6. ASSUME NEW w \in Workers, WSpurious(w)
      PROVE  Dismantling'
  BY <1>1, <1>6 DEF WSpurious, mVars
<1> QED
  BY <1>2, <1>3, <1>4, <1>5, <1>6 DEF Next, Terminated

-----------------------------------------------------------------------------
(* How the steps change the unserved entries.                              *)

LEMMA EdgesSame ==
  ASSUME UNCHANGED <<rdepends, served>>, NEW j
  PROVE  Edges(j)' = Edges(j)
BY DEF Edges

LEMMA EdgesNext ==
  ASSUME TypeOK', NEW j
  PROVE  /\ Edges(j)' = EdgesIn(rdepends', served', j)
         /\ Cardinality(Edges(j)') \in Nat
<1>1. rdepends' \in [Jobs -> Seq(Jobs)] /\ served' \in [Jobs -> Nat]
  BY DEF TypeOK, JobTypeOK
<1>2. Edges(j)' = EdgesIn(rdepends', served', j)
  BY <1>1, EdgesAre DEF Edges
<1> QED
  BY <1>1, <1>2, EdgesFinite

LEMMA DepDoneEdges ==
  ASSUME QueueInv, TypeOK', NEW w \in Workers, WDepDone(w), NEW j \in Jobs
  PROVE  Cardinality(Edges(j))
           = Cardinality(Edges(j)') + (IF NextDep(w) = j THEN 1 ELSE 0)
<1>1. /\ rdepends' = rdepends /\ served' = [served EXCEPT ![wjob[w]] = @ + 1]
      /\ served[wjob[w]] < Len(rdepends[wjob[w]])
  BY DEF WDepDone
<1>2. wjob[w] \in Jobs
  BY NextDepType DEF QueueInv
<1>3. Edges(j) = EdgesIn(rdepends, served, j)
  BY Parts, EdgesAre DEF Edges
<1>4. Edges(j)' = EdgesIn(rdepends', served', j)
  BY EdgesNext
<1>5. Cardinality(EdgesIn(rdepends, served, j))
        = Cardinality(EdgesIn(rdepends, [served EXCEPT ![wjob[w]] = @ + 1], j))
          + (IF rdepends[wjob[w]][served[wjob[w]] + 1] = j THEN 1 ELSE 0)
  <2>1. rdepends \in [Jobs -> Seq(Jobs)] /\ served \in [Jobs -> Nat]
    BY Parts
  <2>2. served[wjob[w]] < Len(rdepends[wjob[w]])
    BY <1>1
  <2> QED
    BY <1>2, <2>1, <2>2, EdgesServe, Zenon
<1> QED
  BY <1>1, <1>3, <1>4, <1>5 DEF NextDep

(* Without unserved entries there is nothing to lose in a reset.           *)
LEMMA DepsDoneEdges ==
  ASSUME QueueInv, TypeOK', NEW w \in Workers, WDepsDone(w), NEW j \in Jobs
  PROVE  Cardinality(Edges(j)') = Cardinality(Edges(j))
<1> DEFINE d == wjob[w]
<1>1. /\ rdepends' = [rdepends EXCEPT ![d] = <<>>]
      /\ served' = [served EXCEPT ![d] = 0]
      /\ served[d] = Len(rdepends[d])
  BY DEF WDepsDone, ClearRdepends
<1>2. d \in Jobs
  BY Parts DEF WDepsDone, WHasJob, WHoldsJob
<1>3. EntriesFor(rdepends, served, d, j) = {}
  <2>1. \A k \in DOMAIN rdepends[d] : ~(k > served[d])
    BY <1>1, <1>2, Parts
  <2> QED
    BY <2>1 DEF EntriesFor, Places
<1>4. Edges(j) = EdgesIn(rdepends, served, j)
  BY Parts, EdgesAre DEF Edges
<1>5. /\ Edges(j)' = EdgesIn(rdepends', served', j)
      /\ Cardinality(Edges(j)') \in Nat
  BY EdgesNext
<1> HIDE DEF d
<1>6. Cardinality(EdgesIn(rdepends, served, j))
        = Cardinality(EdgesIn([rdepends EXCEPT ![d] = <<>>],
                              [served EXCEPT ![d] = 0], j))
          + Cardinality(EntriesFor(rdepends, served, d, j))
  BY <1>2, Parts, EdgesClear, Zenon
<1>7. Cardinality(Edges(j)) = Cardinality(Edges(j)') + Cardinality({})
  BY <1>1, <1>3, <1>4, <1>5, <1>6
<1> QED
  BY <1>5, <1>7, FS_EmptySet

LEMMA LinkEdges ==
  ASSUME QueueInv, TypeOK', MDepLink, NEW j \in Jobs
  PROVE  Cardinality(Edges(j)')
           = Cardinality(Edges(j)) + Same(mjob, j)
<1>1. /\ rdepends' = [rdepends EXCEPT ![mdep] = Append(@, mjob)]
      /\ served' = served /\ mpc = "dep"
  BY DEF MDepLink, Link
<1>2. mjob \in Jobs /\ mdep \in Jobs
  BY <1>1, Parts DEF MHasJob
<1>3. Edges(j) = EdgesIn(rdepends, served, j)
  BY Parts, EdgesAre DEF Edges
<1>4. Edges(j)' = EdgesIn(rdepends', served', j)
  BY EdgesNext
<1>5. served[mdep] <= Len(rdepends[mdep])
  BY <1>2, Parts
<1>6. Cardinality(EdgesIn(rdepends', served, j))
        = Cardinality(EdgesIn(rdepends, served, j)) + Same(mjob, j)
  <2>1. rdepends \in [Jobs -> Seq(Jobs)] /\ served \in [Jobs -> Nat]
    BY Parts
  <2>2. rdepends' = Appended(rdepends, mdep, mjob)
    BY <1>1, <2>1, Zenon DEF Appended
  <2> QED
    BY <1>2, <1>5, <2>1, <2>2, EdgesAppend
<1> QED
  BY <1>1, <1>3, <1>4, <1>6

(* The unserved entries of a deallocated job become references to drop.    *)
LEMMA DropEdges ==
  ASSUME QueueInv, TypeOK', MDrop, refcount[Head(drop)] = 1, NEW j \in Jobs
  PROVE  Cardinality(Edges(j))
           = Cardinality(Edges(j)')
             + Cardinality(Places(rdepends[Head(drop)], j))
<1> DEFINE d == Head(drop)
<1>1. /\ rdepends' = [rdepends EXCEPT ![d] = <<>>]
      /\ served' = [served EXCEPT ![d] = 0]
  BY DEF MDrop, ClearRdepends
<1>2. d \in Jobs /\ served[d] = 0
  <2>1. drop # <<>>
    BY DEF MDrop, QueueInv, TypeOK, MainTypeOK
  <2> QED
    BY <2>1, LastDropped
<1> HIDE DEF d
<1>3. EntriesFor(rdepends, served, d, j) = Places(rdepends[d], j)
  <2>1. \A k \in DOMAIN rdepends[d] : k > served[d]
    BY <1>2, Parts
  <2> QED
    BY <2>1 DEF EntriesFor, Places
<1>4. Edges(j) = EdgesIn(rdepends, served, j)
  BY Parts, EdgesAre DEF Edges
<1>5. /\ Edges(j)' = EdgesIn(rdepends', served', j)
      /\ Cardinality(Edges(j)') \in Nat
  BY EdgesNext
<1>6. Cardinality(EdgesIn(rdepends, served, j))
        = Cardinality(EdgesIn([rdepends EXCEPT ![d] = <<>>],
                              [served EXCEPT ![d] = 0], j))
          + Cardinality(EntriesFor(rdepends, served, d, j))
  BY <1>2, Parts, EdgesClear, Zenon
<1> QED
  BY <1>1, <1>3, <1>4, <1>5, <1>6 DEF d

-----------------------------------------------------------------------------
(* job->ndepends counts the unserved entries after every step.             *)
LEMMA NDependsStep ==
  ASSUME QueueInv, TypeOK', [Next]_vars
  PROVE  NDependsExact'
<1> USE DEF queueVars, jobVars, wVars, mVars
<1> SUFFICES ASSUME ~Dismantling', NEW j \in Jobs
             PROVE  ndepends'[j] = Cardinality(Edges(j)')
  BY DEF NDependsExact
<1>0. /\ ndepends[j] = Cardinality(Edges(j)) /\ ~Dismantling
      /\ Cardinality(Edges(j)) \in Nat /\ Cardinality(Edges(j)') \in Nat
      /\ ndepends \in [Jobs -> Int]
  <2>1. ~Dismantling
    BY DismantlingStays
  <2>2. TypeOK /\ NDependsExact
    BY DEF QueueInv, CountInv
  <2>3. ndepends[j] = Cardinality(Edges(j))
    BY <2>1, <2>2 DEF NDependsExact
  <2> QED
    BY <2>1, <2>2, <2>3, Terms, EdgesNext, Parts
<1>1. ASSUME UNCHANGED <<ndepends, rdepends, served>>
      PROVE  ndepends'[j] = Cardinality(Edges(j)')
  BY <1>0, <1>1, EdgesSame
<1>2. ASSUME NEW w \in Workers, WorkerStep(w)
      PROVE  ndepends'[j] = Cardinality(Edges(j)')
  <2>1. CASE WDepDone(w)
    <3>1. /\ ndepends' = [ndepends EXCEPT ![NextDep(w)] = @ - 1]
          /\ NextDep(w) \in Jobs
      BY <2>1, NextDepType DEF WDepDone, QueueInv
    <3>2. Cardinality(Edges(j))
            = Cardinality(Edges(j)') + (IF NextDep(w) = j THEN 1 ELSE 0)
      BY <2>1, DepDoneEdges
    <3> QED
      BY <1>0, <3>1, <3>2
  <2>2. CASE WDepsDone(w)
    BY <1>0, <2>2, DepsDoneEdges DEF WDepsDone
  <2> QED
    BY <1>1, <1>2, <2>1, <2>2 DEF WorkerStep, WLock, WWait, WExit, WPop, WStart,
       WEndRun, WRelock, WFinish, WDepFree, WRelease
<1>3. CASE MDepLink
  <2>1. /\ ndepends' = [ndepends EXCEPT ![mjob] = @ + 1]
        /\ mjob \in Jobs
    BY <1>3, Parts DEF MDepLink, Link, MHasJob
  <2>2. Cardinality(Edges(j)') = Cardinality(Edges(j)) + Same(mjob, j)
    BY <1>3, LinkEdges
  <2> QED
    BY <1>0, <2>1, <2>2 DEF Same
<1>4. CASE MDrop
  <2>1. CASE refcount[Head(drop)] = 1
    <3>1. drop # <<>>
      BY <1>4 DEF MDrop, QueueInv, TypeOK, MainTypeOK
    <3>2. rdepends[Head(drop)] = <<>>
      BY <1>0, <2>1, <3>1, LastDropped
    <3>3. Places(<<>>, j) = {} /\ Cardinality({}) = 0
      BY FS_EmptySet DEF Places
    <3>4. Cardinality(Edges(j)) = Cardinality(Edges(j)') + 0
      BY <1>4, <2>1, <3>2, <3>3, DropEdges
    <3> QED
      BY <1>0, <1>4, <3>4 DEF MDrop
  <2>2. CASE refcount[Head(drop)] # 1
    BY <1>1, <1>4, <2>2 DEF MDrop
  <2> QED
    BY <2>1, <2>2
<1>5. CASE MSpawnFails \/ MInitDone \/ MSubmitLock \/ MSubmitJob
             \/ MWaitCheck \/ MStopLock \/ MJoin \/ MStop \/ MSpurious
             \/ MQueueFree \/ UNCHANGED vars
  BY <1>1, <1>5 DEF MSpawnFails, MInitDone, MSubmitLock, MSubmitJob,
     MWaitCheck, MStopLock, MJoin, MStop, MSpurious, MQueueFree, vars
<1>6. ASSUME NEW i \in Jobs,
             \/ MCreate(i) \/ MCopyRef(i) \/ MSubmit(i) \/ MWaitFor(i)
             \/ MFreeJob(i) \/ \E d \in Jobs : MDepAdd(i, d)
      PROVE  ndepends'[j] = Cardinality(Edges(j)')
  BY <1>1, <1>6 DEF MCreate, MCopyRef, MSubmit, MWaitFor, MFreeJob, MDepAdd
<1>7. ASSUME NEW w \in Workers, WSpurious(w) \/ MSpawn(w)
      PROVE  ndepends'[j] = Cardinality(Edges(j)')
  BY <1>1, <1>7 DEF WSpurious, MSpawn
<1> QED
  BY <1>2, <1>3, <1>4, <1>5, <1>6, <1>7 DEF Next, MCall, MProceed, Terminated

-----------------------------------------------------------------------------
(* How the steps change the terms of a reference count.                    *)

LEMMA TermsNext ==
  ASSUME TypeOK', NEW j \in Jobs
  PROVE  /\ Cardinality(Edges(j)') \in Nat
         /\ Cardinality(Holders(j)') \in Nat
         /\ Cardinality(Freers(j)') \in Nat
         /\ Cardinality(Places(queue', j)) \in Nat
         /\ Cardinality(Places(drop', j)) \in Nat
         /\ handles'[j] \in Nat /\ refcount'[j] \in Int
<1>1. /\ queue' \in Seq(Jobs) /\ drop' \in Seq(Jobs)
      /\ handles' \in [Jobs -> Nat] /\ refcount' \in [Jobs -> Int]
  BY DEF TypeOK, JobTypeOK, QueueTypeOK, MainTypeOK
<1>2. IsFiniteSet(Holders(j)') /\ IsFiniteSet(Freers(j)')
  BY WorkersFinite, FS_Subset DEF Holders, Freers
<1> QED
  BY <1>1, <1>2, EdgesNext, PlacesFinite, FS_CardinalityType

LEMMA CountGain ==
  ASSUME NEW S, IsFiniteSet(S), NEW T, NEW x, x \notin S, NEW i, NEW j,
         i = j => T = S \cup {x}, i # j => T = S
  PROVE  Cardinality(T) = Cardinality(S) + Same(i, j)
<1>1. Cardinality(S) \in Nat
  BY FS_CardinalityType
<1>2. Cardinality(S \cup {x}) = Cardinality(S) + 1
  BY FS_AddElement
<1>3. i = j => Same(i, j) = 1
  BY DEF Same
<1>4. i # j => Same(i, j) = 0
  BY DEF Same
<1> QED
  BY <1>1, <1>2, <1>3, <1>4

LEMMA PlacesPush ==
  ASSUME NEW s \in Seq(Jobs), NEW i \in Jobs, NEW j \in Jobs
  PROVE  Cardinality(Places(Append(s, i), j))
           = Cardinality(Places(s, j)) + Same(i, j)
BY PlacesAppend DEF Same

LEMMA PlacesPop ==
  ASSUME NEW s \in Seq(Jobs), s # <<>>, NEW j \in Jobs
  PROVE  Cardinality(Places(s, j))
           = Cardinality(Places(Tail(s), j)) + Same(Head(s), j)
BY PlacesTail DEF Same

(* Workers whose control points and jobs do not change.                    *)
LEMMA WorkersKeep ==
  ASSUME NEW j,
         \A v \in Workers :
           /\ wpc'[v] \in WHasJob <=> wpc[v] \in WHasJob
           /\ wpc[v] \in WHasJob => wjob'[v] = wjob[v]
           /\ wpc'[v] = "depfree" <=> wpc[v] = "depfree"
           /\ wpc[v] = "depfree" => CurDep(v)' = CurDep(v)
  PROVE  Holders(j)' = Holders(j) /\ Freers(j)' = Freers(j)
BY DEF Holders, Freers

(* The holders do not change if no worker takes or gives up a job.         *)
LEMMA HoldersKeep ==
  ASSUME NEW j,
         \A v \in Workers : /\ wpc'[v] \in WHasJob <=> wpc[v] \in WHasJob
                            /\ wpc[v] \in WHasJob => wjob'[v] = wjob[v]
  PROVE  Holders(j)' = Holders(j)
BY DEF Holders

(* The references to a job are counted after every step of a worker.       *)
LEMMA RefCountWorker ==
  ASSUME QueueInv, TypeOK', NEW w \in Workers, WorkerStep(w)
  PROVE  RefCountExact'
<1> USE DEF queueVars, jobVars, wVars, mVars, WHasJob, WHoldsJob, WHoldsQueue
<1> SUFFICES ASSUME NEW j \in Jobs
             PROVE  refcount'[j]
                      = handles'[j] + Cardinality(Places(queue', j))
                          + Cardinality(Edges(j)') + Cardinality(Holders(j)')
                          + Cardinality(Freers(j)')
                          + Cardinality(Places(drop', j))
  BY DEF RefCountExact
<1>0. /\ TypeOK /\ LocksOwned /\ WorkersOnJobs
      /\ wpc \in [Workers -> WPoints] /\ wjob \in [Workers -> Jobs \cup {NoJob}]
      /\ refcount \in [Jobs -> Int] /\ queue \in Seq(Jobs)
  BY Parts DEF QueueInv, ControlInv
<1>9. refcount[j]
        = handles[j] + Cardinality(Places(queue, j)) + Cardinality(Edges(j))
            + Cardinality(Holders(j)) + Cardinality(Freers(j))
            + Cardinality(Places(drop, j))
  BY DEF QueueInv, CountInv, RefCountExact
<1>10. /\ Cardinality(Edges(j)) \in Nat /\ Cardinality(Edges(j)') \in Nat
       /\ Cardinality(Holders(j)) \in Nat /\ Cardinality(Holders(j)') \in Nat
       /\ Cardinality(Freers(j)) \in Nat /\ Cardinality(Freers(j)') \in Nat
       /\ Cardinality(Places(queue, j)) \in Nat
       /\ Cardinality(Places(queue', j)) \in Nat
       /\ Cardinality(Places(drop, j)) \in Nat /\ handles[j] \in Nat
       /\ refcount[j] \in Int
  BY <1>0, Terms, TermsNext
<1>1. ASSUME UNCHANGED <<refcount, handles, queue, drop, rdepends, served>>,
             Holders(j)' = Holders(j), Freers(j)' = Freers(j)
      PROVE  refcount'[j]
               = handles'[j] + Cardinality(Places(queue', j))
                   + Cardinality(Edges(j)') + Cardinality(Holders(j)')
                   + Cardinality(Freers(j)') + Cardinality(Places(drop', j))
  BY <1>1, <1>9, EdgesSame
<1>2. CASE WLock(w) \/ WWait(w) \/ WExit(w) \/ WStart(w) \/ WEndRun(w)
             \/ WRelock(w) \/ WFinish(w)
  <2>1. UNCHANGED <<refcount, handles, queue, drop, rdepends, served, wjob>>
    BY <1>2 DEF WLock, WWait, WExit, WStart, WEndRun, WRelock, WFinish
  <2>2. \A v \in Workers : /\ wpc'[v] \in WHasJob <=> wpc[v] \in WHasJob
                           /\ wpc'[v] = "depfree" <=> wpc[v] = "depfree"
    BY <1>0, <1>2
       DEF WLock, WWait, WExit, WStart, WEndRun, WRelock, WFinish, Goto
  <2>3. Holders(j)' = Holders(j) /\ Freers(j)' = Freers(j)
    BY <2>1, <2>2, WorkersKeep DEF CurDep
  <2> QED
    BY <1>1, <2>1, <2>3
<1>3. CASE WPop(w)
  <2>1. /\ UNCHANGED <<refcount, handles, drop, rdepends, served>>
        /\ queue # <<>> /\ queue' = Tail(queue) /\ wpc[w] = "loop"
        /\ wjob' = [wjob EXCEPT ![w] = Head(queue)]
        /\ wpc' = [wpc EXCEPT ![w] = "start"]
    BY <1>3 DEF WPop, Goto
  <2>2. Cardinality(Places(queue, j))
          = Cardinality(Places(queue', j)) + Same(Head(queue), j)
    BY <1>0, <2>1, PlacesPop
  <2>3. Cardinality(Holders(j)') = Cardinality(Holders(j)) + Same(Head(queue), j)
    <3>1. w \notin Holders(j) /\ IsFiniteSet(Holders(j))
      BY <1>0, <2>1, Terms DEF Holders
    <3>2. Head(queue) = j => Holders(j)' = Holders(j) \cup {w}
      BY <1>0, <2>1 DEF Holders
    <3>3. Head(queue) # j => Holders(j)' = Holders(j)
      BY <1>0, <2>1 DEF Holders
    <3> QED
      BY <3>1, <3>2, <3>3, CountGain
  <2>4. Freers(j) = {} /\ Freers(j)' = {}
    <3>1. \A v \in Workers : wpc[v] # "depfree"
      BY <2>1, OneOwner
    <3> QED
      BY <1>0, <2>1, <3>1 DEF Freers
  <2>5. Edges(j)' = Edges(j)
    BY <2>1, EdgesSame
  <2>6. Same(Head(queue), j) \in Int
    BY DEF Same
  <2> QED
    BY <1>9, <1>10, <2>1, <2>2, <2>3, <2>4, <2>5, <2>6
<1>5. CASE WDepFree(w)
  <2>1. /\ UNCHANGED <<handles, queue, drop, rdepends, served, wjob>>
        /\ wpc[w] = "depfree"
        /\ refcount' = [refcount EXCEPT ![CurDep(w)] = @ - 1]
        /\ wpc' = [wpc EXCEPT ![w] = "dep"]
    BY <1>5 DEF WDepFree, Goto
  <2>2. Holders(j)' = Holders(j)
    BY <1>0, <2>1, HoldersKeep
  <2>3. /\ Freers(j)' = {}
        /\ CurDep(w) = j => Freers(j) = {w}
        /\ CurDep(w) # j => Freers(j) = {}
    <3>1. \A v \in Workers : wpc[v] = "depfree" => v = w
      BY <2>1, OneOwner
    <3> QED
      BY <1>0, <2>1, <3>1 DEF Freers
  <2>4. Cardinality(Freers(j)) = Cardinality(Freers(j)') + Same(CurDep(w), j)
    <3>1. IsFiniteSet(Freers(j)') /\ w \notin Freers(j)'
      BY <2>3, FS_EmptySet
    <3>2. /\ CurDep(w) = j => Freers(j) = Freers(j)' \cup {w}
          /\ CurDep(w) # j => Freers(j) = Freers(j)'
      BY <2>3
    <3> QED
      BY <3>1, <3>2, CountGain
  <2>5. refcount'[j] = refcount[j] - Same(CurDep(w), j)
    BY <1>0, <2>1 DEF Same
  <2>6. Edges(j)' = Edges(j)
    BY <2>1, EdgesSame
  <2>7. Same(CurDep(w), j) \in Int
    BY DEF Same
  <2> QED
    BY <1>9, <1>10, <2>1, <2>2, <2>4, <2>5, <2>6, <2>7
<1>6. CASE WDepsDone(w)
  <2>1. /\ UNCHANGED <<refcount, handles, queue, drop, wjob>>
        /\ wpc[w] = "dep" /\ wpc' = [wpc EXCEPT ![w] = "release"]
    BY <1>6 DEF WDepsDone, Goto
  <2>2. Holders(j)' = Holders(j)
    BY <1>0, <2>1, HoldersKeep
  <2>3. Freers(j)' = {} /\ Freers(j) = {}
    <3>1. \A v \in Workers : wpc[v] # "depfree"
      BY <2>1, OneOwner
    <3> QED
      BY <1>0, <2>1, <3>1 DEF Freers
  <2>4. Cardinality(Edges(j)') = Cardinality(Edges(j))
    BY <1>6, DepsDoneEdges
  <2> QED
    BY <1>9, <2>1, <2>2, <2>3, <2>4
<1>7. CASE WRelease(w)
  <2>1. /\ UNCHANGED <<handles, queue, drop, rdepends, served>>
        /\ wpc[w] = "release" /\ wpc' = [wpc EXCEPT ![w] = "loop"]
        /\ wjob' = [wjob EXCEPT ![w] = NoJob]
        /\ refcount' = [refcount EXCEPT ![wjob[w]] = @ - 1]
    BY <1>7 DEF WRelease, Goto
  <2>2. Freers(j)' = {} /\ Freers(j) = {}
    <3>1. \A v \in Workers : wpc[v] # "depfree"
      BY <2>1, OneOwner
    <3> QED
      BY <1>0, <2>1, <3>1 DEF Freers
  <2>3. Cardinality(Holders(j)) = Cardinality(Holders(j)') + Same(wjob[w], j)
    <3>1. w \notin Holders(j)' /\ IsFiniteSet(Holders(j)')
      <4>1. w \notin Holders(j)'
        BY <1>0, <2>1 DEF Holders
      <4> QED
        BY <4>1, WorkersFinite, FS_Subset DEF Holders
    <3>2. wjob[w] = j => Holders(j) = Holders(j)' \cup {w}
      BY <1>0, <2>1 DEF Holders
    <3>3. wjob[w] # j => Holders(j) = Holders(j)'
      BY <1>0, <2>1 DEF Holders
    <3> QED
      BY <3>1, <3>2, <3>3, CountGain
  <2>4. refcount'[j] = refcount[j] - Same(wjob[w], j)
    BY <1>0, <2>1 DEF Same
  <2>5. Edges(j)' = Edges(j)
    BY <2>1, EdgesSame
  <2>6. Same(wjob[w], j) \in Int
    BY DEF Same
  <2> QED
    BY <1>9, <1>10, <2>1, <2>2, <2>3, <2>4, <2>5, <2>6
<1>8. CASE WDepDone(w)
  <2> DEFINE r == NextDep(w)
  <2>1. /\ UNCHANGED <<handles, drop, rdepends, wjob>>
        /\ wpc[w] = "dep" /\ wpc' = [wpc EXCEPT ![w] = "depfree"]
        /\ served' = [served EXCEPT ![wjob[w]] = @ + 1]
    BY <1>8 DEF WDepDone, Goto
  <2>2. r \in Jobs /\ wjob[w] \in Jobs
    BY <1>8, NextDepType DEF QueueInv
  <2>3. Holders(j)' = Holders(j)
    BY <1>0, <2>1, HoldersKeep
  <2>4. Cardinality(Edges(j)) = Cardinality(Edges(j)') + Same(r, j)
    BY <1>8, DepDoneEdges DEF Same
  <2>5. Cardinality(Freers(j)') = Cardinality(Freers(j)) + Same(r, j)
    <3>1. \A v \in Workers : wpc[v] # "depfree"
      BY <2>1, OneOwner
    <3>2. CurDep(w)' = r
      <4>1. served \in [Jobs -> Nat]
        BY Parts
      <4> QED
        BY <2>1, <2>2, <4>1 DEF CurDep, NextDep
    <3> HIDE DEF r
    <3>3. Freers(j) = {}
      BY <3>1 DEF Freers
    <3>4. r = j => Freers(j)' = {} \cup {w}
      BY <1>0, <2>1, <3>1, <3>2 DEF Freers
    <3>5. r # j => Freers(j)' = {}
      BY <1>0, <2>1, <3>1, <3>2 DEF Freers
    <3>6. IsFiniteSet({}) /\ w \notin {}
      BY FS_EmptySet
    <3> QED
      BY <3>3, <3>4, <3>5, <3>6, CountGain
  <2>6. Same(r, j) \in Int
    BY DEF Same
  <2>7. CASE BecomesReady(r)
    <3>1. queue' = Append(queue, r) /\ refcount' = [refcount EXCEPT ![r] = @ + 1]
      BY <1>8, <2>7 DEF WDepDone, PushJob
    <3> HIDE DEF r
    <3>2. Cardinality(Places(queue', j)) = Cardinality(Places(queue, j)) + Same(r, j)
      BY <1>0, <2>2, <3>1, PlacesPush
    <3>3. refcount'[j] = refcount[j] + Same(r, j)
      BY <1>0, <2>2, <3>1 DEF Same
    <3> QED
      BY <1>9, <1>10, <2>1, <2>3, <2>4, <2>5, <2>6, <3>2, <3>3
  <2>8. CASE ~BecomesReady(r)
    <3>1. UNCHANGED <<queue, refcount>>
      BY <1>8, <2>8 DEF WDepDone
    <3> HIDE DEF r
    <3> QED
      BY <1>9, <1>10, <2>1, <2>3, <2>4, <2>5, <2>6, <3>1
  <2> QED
    BY <2>7, <2>8
<1> QED
  BY <1>2, <1>3, <1>5, <1>6, <1>7, <1>8 DEF WorkerStep

(* ... and after every other step.                                         *)
LEMMA RefCountStep ==
  ASSUME QueueInv, TypeOK', [Next]_vars
  PROVE  RefCountExact'
<1> USE DEF queueVars, jobVars, wVars, mVars
<1> SUFFICES ASSUME NEW j \in Jobs
             PROVE  refcount'[j]
                      = handles'[j] + Cardinality(Places(queue', j))
                          + Cardinality(Edges(j)') + Cardinality(Holders(j)')
                          + Cardinality(Freers(j)')
                          + Cardinality(Places(drop', j))
  BY DEF RefCountExact
<1>0. /\ TypeOK /\ LocksOwned /\ NoneLeft /\ Closing /\ Main \notin Workers
      /\ wpc \in [Workers -> WPoints] /\ wjob \in [Workers -> Jobs \cup {NoJob}]
      /\ refcount \in [Jobs -> Int] /\ queue \in Seq(Jobs)
      /\ drop \in Seq(Jobs) /\ handles \in [Jobs -> Nat]
      /\ rdepends \in [Jobs -> Seq(Jobs)]
  BY Parts, ThreadsDistinct DEF QueueInv, ControlInv, CountInv
<1>9. refcount[j]
        = handles[j] + Cardinality(Places(queue, j)) + Cardinality(Edges(j))
            + Cardinality(Holders(j)) + Cardinality(Freers(j))
            + Cardinality(Places(drop, j))
  BY DEF QueueInv, CountInv, RefCountExact
<1>10. /\ Cardinality(Edges(j)) \in Nat /\ Cardinality(Edges(j)') \in Nat
       /\ Cardinality(Holders(j)) \in Nat
       /\ Cardinality(Freers(j)) \in Nat
       /\ Cardinality(Places(queue, j)) \in Nat
       /\ Cardinality(Places(queue', j)) \in Nat
       /\ Cardinality(Places(drop, j)) \in Nat
       /\ Cardinality(Places(drop', j)) \in Nat
       /\ handles[j] \in Nat /\ handles'[j] \in Nat /\ refcount[j] \in Int
  BY <1>0, Terms, TermsNext
<1>1. ASSUME UNCHANGED <<refcount, handles, queue, drop, rdepends, served,
                         wpc, wjob>>
      PROVE  RefCountExact'
  <2>1. \A i \in Jobs : /\ Edges(i)' = Edges(i) /\ Holders(i)' = Holders(i)
                        /\ Freers(i)' = Freers(i)
    BY <1>1 DEF Edges, Holders, Freers, CurDep
  <2> QED
    BY <1>1, <2>1 DEF QueueInv, CountInv, RefCountExact
<1>2. CASE MSpawnFails \/ MInitDone \/ MSubmitLock \/ MWaitCheck
             \/ MStopLock \/ MJoin \/ MStop \/ MSpurious \/ UNCHANGED vars
  BY <1>1, <1>2 DEF MSpawnFails, MInitDone, MSubmitLock, MWaitCheck,
     MStopLock, MJoin, MStop, MSpurious, vars, RefCountExact
<1>3. ASSUME NEW i \in Jobs,
             MSubmit(i) \/ MWaitFor(i) \/ \E d \in Jobs : MDepAdd(i, d)
      PROVE  RefCountExact'
  BY <1>1, <1>3 DEF MSubmit, MWaitFor, MDepAdd
<1>4. ASSUME NEW w \in Workers, WSpurious(w)
      PROVE  RefCountExact'
  BY <1>1, <1>4 DEF WSpurious
<1>5. ASSUME UNCHANGED <<rdepends, served, wpc, wjob>>
      PROVE  /\ Edges(j)' = Edges(j) /\ Holders(j)' = Holders(j)
             /\ Freers(j)' = Freers(j)
  BY <1>5 DEF Edges, Holders, Freers, CurDep
<1>6. ASSUME NEW w \in Workers, MSpawn(w)
      PROVE  RefCountExact'
  <2>1. /\ UNCHANGED <<refcount, handles, queue, drop, rdepends, served, wjob>>
        /\ wpc[w] = "none" /\ wpc' = [wpc EXCEPT ![w] = "lock"]
    BY <1>6 DEF MSpawn, Goto
  <2>2. \A v \in Workers : /\ wpc'[v] \in WHasJob <=> wpc[v] \in WHasJob
                           /\ wpc'[v] = "depfree" <=> wpc[v] = "depfree"
    BY <1>0, <2>1 DEF WHasJob, WHoldsJob
  <2>3. \A i \in Jobs : /\ Edges(i)' = Edges(i) /\ Holders(i)' = Holders(i)
                        /\ Freers(i)' = Freers(i)
    BY <2>1, <2>2, EdgesSame, WorkersKeep DEF CurDep
  <2> QED
    BY <2>1, <2>3 DEF QueueInv, CountInv, RefCountExact
<1>7. ASSUME NEW i \in Jobs, MCreate(i) \/ MCopyRef(i) \/ MFreeJob(i)
      PROVE  refcount'[j]
               = handles'[j] + Cardinality(Places(queue', j))
                   + Cardinality(Edges(j)') + Cardinality(Holders(j)')
                   + Cardinality(Freers(j)') + Cardinality(Places(drop', j))
  <2>1. UNCHANGED <<queue, rdepends, served, wpc, wjob>>
    BY <1>7 DEF MCreate, MCopyRef, MFreeJob
  <2>2. /\ Edges(j)' = Edges(j) /\ Holders(j)' = Holders(j)
        /\ Freers(j)' = Freers(j) /\ Places(queue', j) = Places(queue, j)
    BY <1>5, <2>1
  <2>3. CASE MCreate(i)
    <3>1. /\ state[i] = "NONE" /\ drop' = drop
          /\ refcount' = [refcount EXCEPT ![i] = 1]
          /\ handles' = [handles EXCEPT ![i] = 1]
      BY <2>3 DEF MCreate
    <3>2. i = j => refcount[j] = 0
      BY <1>0, <3>1 DEF NoneLeft
    <3>3. ASSUME i = j PROVE handles[j] = 0
      <4>1. handles[j] + Cardinality(Places(queue, j)) + Cardinality(Edges(j))
              + Cardinality(Holders(j)) + Cardinality(Freers(j))
              + Cardinality(Places(drop, j)) = 0
        BY <1>9, <3>2, <3>3, Zenon
      <4> QED
        BY <1>10, <4>1, SumZero, Zenon
    <3>4. /\ refcount'[j] = refcount[j] + Same(i, j)
          /\ handles'[j] = handles[j] + Same(i, j)
      BY <1>0, <1>10, <3>1, <3>2, <3>3 DEF Same
    <3>5. Same(i, j) \in Int /\ Places(drop', j) = Places(drop, j)
      BY <3>1 DEF Same
    <3> QED
      BY <1>9, <1>10, <2>2, <3>4, <3>5
  <2>4. CASE MCopyRef(i)
    <3>1. /\ drop' = drop
          /\ refcount' = [refcount EXCEPT ![i] = @ + 1]
          /\ handles' = [handles EXCEPT ![i] = @ + 1]
      BY <2>4 DEF MCopyRef
    <3>2. /\ refcount'[j] = refcount[j] + Same(i, j)
          /\ handles'[j] = handles[j] + Same(i, j)
      BY <1>0, <1>10, <3>1 DEF Same
    <3>3. Same(i, j) \in Int /\ Places(drop', j) = Places(drop, j)
      BY <3>1 DEF Same
    <3> QED
      BY <1>9, <1>10, <2>2, <3>2, <3>3
  <2>5. CASE MFreeJob(i)
    <3>1. /\ drop = <<>> /\ drop' = <<i>> /\ refcount' = refcount
          /\ handles' = [handles EXCEPT ![i] = @ - 1]
      BY <1>0, <2>5 DEF MFreeJob, Closing
    <3>2. handles'[j] = handles[j] - Same(i, j)
      BY <1>0, <1>10, <3>1 DEF Same
    <3>3. Cardinality(Places(drop', j)) = Cardinality(Places(drop, j)) + Same(i, j)
      <4>1. <<>> \in Seq(Jobs) /\ Append(<<>>, i) = <<i>>
        OBVIOUS
      <4> QED
        BY <3>1, <4>1, PlacesPush
    <3>4. Same(i, j) \in Int /\ refcount'[j] = refcount[j]
      BY <3>1 DEF Same
    <3> QED
      BY <1>9, <1>10, <2>2, <3>2, <3>3, <3>4
  <2> QED
    BY <1>7, <2>3, <2>4, <2>5
<1>8. CASE MDepLink
  <2>1. /\ UNCHANGED <<handles, queue, drop, wpc, wjob, served>>
        /\ mjob \in Jobs /\ mdep \in Jobs /\ mpc = "dep"
        /\ rdepends' = [rdepends EXCEPT ![mdep] = Append(@, mjob)]
        /\ refcount' = [refcount EXCEPT ![mjob] = @ + 1]
    BY <1>8, Parts DEF MDepLink, Link, MHasJob
  <2>2. \A v \in Workers : wpc[v] = "depfree" => wjob[v] # mdep
    <3>1. jlock[mdep] = Main
      BY <1>0, <2>1 DEF LocksOwned
    <3> QED
      BY <1>0, <2>1, <3>1 DEF LocksOwned, WHoldsJob
  <2>3. \A v \in Workers : wpc[v] = "depfree" => CurDep(v)' = CurDep(v)
    BY <1>0, <2>1, <2>2 DEF CurDep
  <2>4. Holders(j)' = Holders(j) /\ Freers(j)' = Freers(j)
    BY <2>1, <2>3, WorkersKeep
  <2>5. Cardinality(Edges(j)') = Cardinality(Edges(j)) + Same(mjob, j)
    BY <1>8, LinkEdges
  <2>6. refcount'[j] = refcount[j] + Same(mjob, j)
    <3>1. /\ refcount' = [refcount EXCEPT ![mjob] = @ + 1] /\ mjob \in Jobs
          /\ refcount \in [Jobs -> Int]
      BY <1>0, <2>1
    <3>2. CASE mjob = j
      BY <3>1, <3>2 DEF Same
    <3>3. CASE mjob # j
      <4>1. refcount'[j] = refcount[j] /\ Same(mjob, j) = 0
        BY <3>1, <3>3 DEF Same
      <4> QED
        BY <1>10, <4>1
    <3> QED
      BY <3>2, <3>3
  <2>7. /\ Same(mjob, j) \in Int /\ handles'[j] = handles[j]
        /\ Places(queue', j) = Places(queue, j)
        /\ Places(drop', j) = Places(drop, j)
    BY <2>1 DEF Same
  <2> QED
    BY <1>9, <1>10, <2>4, <2>5, <2>6, <2>7
<1>11. CASE MSubmitJob
  <2>1. /\ UNCHANGED <<handles, drop, wpc, wjob, rdepends, served>>
        /\ mjob \in Jobs
        /\ \/ /\ queue' = Append(queue, mjob)
              /\ refcount' = [refcount EXCEPT ![mjob] = @ + 1]
           \/ UNCHANGED <<refcount, queue>>
    BY <1>11, Parts DEF MSubmitJob, MHasJob, PushJob, SetState
  <2>2. /\ Edges(j)' = Edges(j) /\ Holders(j)' = Holders(j)
        /\ Freers(j)' = Freers(j)
    BY <1>5, <2>1
  <2>3. CASE UNCHANGED <<refcount, queue>>
    BY <1>9, <2>1, <2>2, <2>3
  <2>4. CASE /\ queue' = Append(queue, mjob)
             /\ refcount' = [refcount EXCEPT ![mjob] = @ + 1]
    <3>1. Cardinality(Places(queue', j))
            = Cardinality(Places(queue, j)) + Same(mjob, j)
      BY <1>0, <2>1, <2>4, PlacesPush
    <3>2. refcount'[j] = refcount[j] + Same(mjob, j)
      BY <1>0, <1>10, <2>1, <2>4 DEF Same
    <3>3. /\ Same(mjob, j) \in Int /\ handles'[j] = handles[j]
          /\ Places(drop', j) = Places(drop, j)
      BY <2>1 DEF Same
    <3> QED
      BY <1>9, <1>10, <2>2, <3>1, <3>2, <3>3
  <2> QED
    BY <2>1, <2>3, <2>4
<1>12. CASE MDrop
  <2> DEFINE i == Head(drop)
  <2>1. /\ UNCHANGED <<handles, queue, wpc, wjob>>
        /\ refcount' = [refcount EXCEPT ![i] = @ - 1]
        /\ drop # <<>> /\ i \in Jobs /\ Tail(drop) \in Seq(Jobs)
    BY <1>0, <1>12 DEF MDrop, TypeOK, MainTypeOK
  <2>2. Cardinality(Places(drop, j))
          = Cardinality(Places(Tail(drop), j)) + Same(i, j)
    BY <1>0, <2>1, PlacesPop
  <2>3. refcount'[j] = refcount[j] - Same(i, j)
    <3> HIDE DEF i
    <3> QED
      BY <1>0, <2>1 DEF Same
  <2>4. /\ Same(i, j) \in Int /\ Cardinality(Places(Tail(drop), j)) \in Nat
        /\ handles'[j] = handles[j] /\ Places(queue', j) = Places(queue, j)
    <3>1. Cardinality(Places(Tail(drop), j)) \in Nat
      BY <2>1, PlacesFinite
    <3> QED
      BY <2>1, <3>1 DEF Same
  <2>5. Holders(j)' = Holders(j)
    BY <2>1 DEF Holders
  <2>6. CASE refcount[i] = 1
    <3>1. drop' = rdepends[i] \o Tail(drop)
      BY <1>12, <2>6 DEF MDrop, HeldBy
    <3>2. Cardinality(Places(drop', j))
            = Cardinality(Places(rdepends[i], j)) + Cardinality(Places(Tail(drop), j))
      <4>1. rdepends[i] \in Seq(Jobs) /\ Tail(drop) \in Seq(Jobs)
        BY <1>0, <2>1
      <4> HIDE DEF i
      <4> QED
        BY <3>1, <4>1, PlacesConcat
    <3>3. Cardinality(Edges(j))
            = Cardinality(Edges(j)') + Cardinality(Places(rdepends[i], j))
      BY <1>12, <2>6, DropEdges
    <3>4. Cardinality(Places(rdepends[i], j)) \in Nat
      BY <1>0, <2>1, PlacesFinite
    <3>5. Freers(j)' = Freers(j)
      <4>1. /\ rdepends' = [rdepends EXCEPT ![i] = <<>>]
            /\ served' = [served EXCEPT ![i] = 0]
        BY <1>12, <2>6 DEF MDrop, ClearRdepends
      <4>2. \A v \in Workers : wpc[v] = "depfree" => wjob[v] # i
        BY <2>1, <2>6, LastDropped DEF WHasJob, WHoldsJob
      <4>4. /\ served \in [Jobs -> Nat]
            /\ \A v \in Workers : wpc[v] = "depfree" => wjob[v] \in Jobs
        BY Parts DEF WHasJob, WHoldsJob
      <4>3. \A v \in Workers : wpc[v] = "depfree" => CurDep(v)' = CurDep(v)
        BY <1>0, <2>1, <4>1, <4>2, <4>4 DEF CurDep
      <4> QED
        BY <2>1, <4>3 DEF Freers
    <3> HIDE DEF i
    <3> QED
      BY <1>9, <1>10, <2>2, <2>3, <2>4, <2>5, <3>2, <3>3, <3>4, <3>5
  <2>7. CASE refcount[i] # 1
    <3>1. drop' = Tail(drop) /\ UNCHANGED <<rdepends, served>>
      BY <1>12, <2>7 DEF MDrop
    <3>2. /\ Edges(j)' = Edges(j) /\ Freers(j)' = Freers(j)
          /\ Places(drop', j) = Places(Tail(drop), j)
      BY <1>5, <2>1, <3>1
    <3> HIDE DEF i
    <3> QED
      BY <1>9, <1>10, <2>2, <2>3, <2>4, <2>5, <3>2
  <2> QED
    BY <2>6, <2>7
<1>13. CASE MQueueFree
  <2>1. /\ UNCHANGED <<refcount, handles, wpc, wjob, rdepends, served>>
        /\ drop = <<>> /\ drop' = queue /\ queue' = <<>>
    BY <1>0, <1>13 DEF MQueueFree, Closing
  <2>2. /\ Edges(j)' = Edges(j) /\ Holders(j)' = Holders(j)
        /\ Freers(j)' = Freers(j)
    BY <1>5, <2>1
  <2>3. Cardinality(Places(drop', j)) = Cardinality(Places(queue, j))
    BY <2>1
  <2>4. Cardinality(Places(queue', j)) = Cardinality(Places(drop, j))
    BY <2>1
  <2> QED
    BY <1>9, <1>10, <2>1, <2>2, <2>3, <2>4
<1> QED
  BY RefCountWorker, <1>2, <1>3, <1>4, <1>6, <1>7, <1>8, <1>11, <1>12, <1>13
     DEF Next, MCall, MProceed, Terminated, RefCountExact

-----------------------------------------------------------------------------
(* Who has entries, and which jobs they name.                              *)
LEMMA EntriesWorker ==
  ASSUME QueueInv, TypeOK', NEW w \in Workers, WorkerStep(w)
  PROVE  Entries'
<1> USE DEF queueVars, jobVars, wVars, mVars
<1>0. /\ Entries /\ WorkersOnJobs /\ LocksOwned /\ NDependsExact
      /\ rdepends \in [Jobs -> Seq(Jobs)] /\ served \in [Jobs -> Nat]
      /\ state \in [Jobs -> JobStates]
      /\ jlock \in [Jobs -> Threads \cup {Nobody}]
      /\ Nobody \notin Workers
      /\ \A v \in Workers : wpc[v] \in WHasJob => wjob[v] \in Jobs
  BY Parts, ThreadsDistinct DEF QueueInv, ControlInv, CountInv
<1>1. ASSUME UNCHANGED <<rdepends, served, state, jlock>>
      PROVE  Entries'
  BY <1>0, <1>1 DEF Entries, Unserved
<1>2. CASE WLock(w) \/ WWait(w) \/ WExit(w) \/ WPop(w) \/ WEndRun(w)
             \/ WRelock(w) \/ WDepFree(w) \/ WRelease(w)
  BY <1>1, <1>2 DEF WLock, WWait, WExit, WPop, WEndRun, WRelock, WDepFree,
     WRelease
<1>3. CASE WStart(w) \/ WFinish(w)
  <2>1. /\ UNCHANGED <<rdepends, served>> /\ wjob[w] \in Jobs
        /\ state[wjob[w]] \in {"READY", "RUNNING"}
        /\ \/ state' = [state EXCEPT ![wjob[w]] = "RUNNING"] /\ jlock' = jlock
           \/ /\ state' = [state EXCEPT ![wjob[w]] = "DONE"]
              /\ jlock[wjob[w]] = Nobody
              /\ jlock' = [jlock EXCEPT ![wjob[w]] = w]
    BY <1>0, <1>3 DEF WStart, WFinish, WorkersOnJobs, Executing, WHasJob
  <2>2. \A d \in Jobs : jlock'[d] \notin Workers =>
          /\ jlock[d] \notin Workers
          /\ state'[d] \notin Unfinished => state[d] \notin Unfinished
    BY <1>0, <2>1 DEF Unfinished
  <2>3. \A j \in Jobs : state[j] \in {"PAUSED", "WAITING"} => state'[j] = state[j]
    BY <1>0, <2>1
  <2> QED
    BY <1>0, <2>1, <2>2, <2>3 DEF Entries, Unserved
<1>4. CASE WDepsDone(w)
  <2>1. /\ rdepends' = [rdepends EXCEPT ![wjob[w]] = <<>>]
        /\ served' = [served EXCEPT ![wjob[w]] = 0]
        /\ jlock' = [jlock EXCEPT ![wjob[w]] = Nobody]
        /\ state' = state /\ wjob[w] \in Jobs
    BY <1>0, <1>4 DEF WDepsDone, ClearRdepends, WHasJob, WHoldsJob
  <2>2. /\ rdepends'[wjob[w]] = <<>> /\ served'[wjob[w]] = 0
        /\ \A d \in Jobs : d # wjob[w] => /\ rdepends'[d] = rdepends[d]
                                          /\ served'[d] = served[d]
                                          /\ jlock'[d] = jlock[d]
    BY <1>0, <2>1
  <2>3. \A k : k \notin DOMAIN rdepends'[wjob[w]]
    BY <2>2
  <2> QED
    BY <1>0, <2>1, <2>2, <2>3 DEF Entries, Unserved
<1>5. CASE WDepDone(w)
  <2> DEFINE r == NextDep(w)
             c == wjob[w]
             n == served[wjob[w]] + 1
  <2>1. /\ rdepends' = rdepends /\ jlock' = jlock
        /\ served' = [served EXCEPT ![c] = @ + 1]
        /\ r \in Jobs /\ c \in Jobs /\ jlock[c] = w
        /\ n \in Nat /\ served'[c] = n /\ n > served[c]
        /\ n \in DOMAIN rdepends[c] /\ rdepends[c][n] = r
    <3>1. r \in Jobs /\ c \in Jobs
      BY <1>5, NextDepType DEF QueueInv
    <3>2. jlock[c] = w
      BY <1>0, <1>5, <3>1 DEF WDepDone, LocksOwned, WHoldsJob
    <3>3. n \in Nat /\ n > served[c] /\ n \in DOMAIN rdepends[c]
      BY <1>0, <1>5, <3>1 DEF WDepDone
    <3>4. /\ rdepends' = rdepends /\ jlock' = jlock
          /\ served' = [served EXCEPT ![c] = @ + 1]
      BY <1>5 DEF WDepDone
    <3>5. served'[c] = n
      BY <1>0, <3>1, <3>4
    <3>6. rdepends[c][n] = r
      BY DEF NextDep
    <3> QED
      BY <3>1, <3>2, <3>3, <3>4, <3>5, <3>6
  <2>2. \/ state' = state
        \/ /\ state' = [state EXCEPT ![r] = "READY"]
           /\ state[r] = "WAITING" /\ ndepends[r] = 1
    BY <1>5 DEF WDepDone, PushJob, BecomesReady
  <2> HIDE DEF r, c, n
  <2>3. \A d \in Jobs : d # c => served'[d] = served[d]
    BY <1>0, <2>1
  <2>4. \A d \in Jobs : jlock'[d] \notin Workers => served'[d] = 0
    BY <1>0, <2>1, <2>3 DEF Entries
  <2>5. \A d \in Jobs : state'[d] \notin Unfinished => state[d] \notin Unfinished
    BY <1>0, <2>1, <2>2 DEF Unfinished
  <2>6. \A d \in Jobs : state'[d] \notin Unfinished /\ jlock'[d] \notin Workers
                        => rdepends'[d] = <<>>
    BY <1>0, <2>1, <2>5 DEF Entries
  <2>7. ASSUME NEW d \in Jobs, NEW j \in Jobs, NEW k \in DOMAIN rdepends[d],
               k > served'[d], rdepends[d][k] = j
        PROVE  state'[j] \in {"PAUSED", "WAITING"}
    <3>1. k \in Nat /\ served[d] \in Nat /\ served[c] \in Nat
      <4>1. rdepends[d] \in Seq(Jobs) /\ served[d] \in Nat /\ served[c] \in Nat
        BY <1>0, <2>1
      <4> QED
        BY <4>1
    <3>2. k > served[d]
      BY <1>0, <2>1, <2>3, <2>7, <3>1
    <3>3. state[j] \in {"PAUSED", "WAITING"}
      BY <1>0, <2>7, <3>2 DEF Entries, Unserved
    <3>4. ASSUME j = r, ndepends[r] = 1 PROVE FALSE
      <4>1. ~Dismantling
        BY <1>5 DEF WDepDone, QueueInv, ControlInv, Closing
      <4>2. Edges(r) = EdgesIn(rdepends, served, r)
        BY <2>1, Terms DEF QueueInv
      <4>3. Cardinality(EdgesIn(rdepends, served, r)) = 1
        BY <1>0, <2>1, <3>4, <4>1, <4>2 DEF NDependsExact
      <4>4. /\ <<d, k>> \in EdgesIn(rdepends, served, r)
            /\ <<c, n>> \in EdgesIn(rdepends, served, r)
        BY <2>1, <2>7, <3>1, <3>2, <3>4 DEF EdgesIn, EntriesFor, Places
      <4>5. <<d, k>> = <<c, n>>
        BY <1>0, <2>1, <4>3, <4>4, EdgesOne
      <4> QED
        BY <2>1, <2>7, <3>1, <4>5
    <3> QED
      BY <1>0, <2>1, <2>2, <3>3, <3>4
  <2> QED
    BY <2>1, <2>4, <2>6, <2>7 DEF Entries, Unserved
<1> QED
  BY <1>2, <1>3, <1>4, <1>5 DEF WorkerStep

LEMMA EntriesStep ==
  ASSUME QueueInv, TypeOK', [Next]_vars
  PROVE  Entries'
<1> USE DEF queueVars, jobVars, wVars, mVars
<1>0. /\ Entries /\ LocksOwned /\ NDependsExact /\ MainOnJobs /\ InlineOnly
      /\ rdepends \in [Jobs -> Seq(Jobs)] /\ served \in [Jobs -> Nat]
      /\ state \in [Jobs -> JobStates]
      /\ jlock \in [Jobs -> Threads \cup {Nobody}]
      /\ Nobody \notin Workers /\ Main \notin Workers
      /\ mpc \in MHasJob => mjob \in Jobs
      /\ mpc = "dep" => mdep \in Jobs
  BY Parts, ThreadsDistinct DEF QueueInv, ControlInv, CountInv
<1>1. ASSUME UNCHANGED <<rdepends, served, state, jlock>>
      PROVE  Entries'
  BY <1>0, <1>1 DEF Entries, Unserved
<1>2. CASE MSpawnFails \/ MInitDone \/ MSubmitLock \/ MWaitCheck
             \/ MStopLock \/ MJoin \/ MStop \/ MSpurious \/ MQueueFree
             \/ UNCHANGED vars
  BY <1>1, <1>2 DEF MSpawnFails, MInitDone, MSubmitLock, MWaitCheck,
     MStopLock, MJoin, MStop, MSpurious, MQueueFree, vars
<1>3. ASSUME NEW i \in Jobs,
             MCopyRef(i) \/ MSubmit(i) \/ MWaitFor(i) \/ MFreeJob(i)
      PROVE  Entries'
  BY <1>1, <1>3 DEF MCopyRef, MSubmit, MWaitFor, MFreeJob
<1>4. ASSUME NEW w \in Workers, WSpurious(w) \/ MSpawn(w)
      PROVE  Entries'
  BY <1>1, <1>4 DEF WSpurious, MSpawn
<1>5. ASSUME NEW i \in Jobs, NEW c \in Jobs, MDepAdd(i, c)
      PROVE  Entries'
  <2>1. /\ UNCHANGED <<rdepends, served, state>> /\ jlock[c] = Nobody
        /\ jlock' = [jlock EXCEPT ![c] = OwnerOnReturn(c)]
        /\ OwnerOnReturn(c) \notin Workers
    BY <1>0, <1>5 DEF MDepAdd, OwnerOnReturn
  <2>2. \A d \in Jobs : jlock'[d] \in Workers <=> jlock[d] \in Workers
    BY <1>0, <2>1
  <2> QED
    BY <1>0, <2>1, <2>2 DEF Entries, Unserved
<1>6. ASSUME NEW i \in Jobs, MCreate(i)
      PROVE  Entries'
  <2>1. /\ UNCHANGED <<rdepends, served, jlock>> /\ state[i] = "NONE"
        /\ state' = [state EXCEPT ![i] = "PAUSED"]
    BY <1>6 DEF MCreate
  <2> QED
    BY <1>0, <2>1 DEF Entries, Unserved, Unfinished
<1>7. CASE MDepLink
  <2>1. /\ mjob \in Jobs /\ mdep \in Jobs /\ state[mjob] = "PAUSED"
        /\ state[mdep] \in Unfinished /\ UNCHANGED <<served, state>>
        /\ rdepends' = [rdepends EXCEPT ![mdep] = Append(@, mjob)]
        /\ jlock' = [jlock EXCEPT ![mdep] = Nobody] /\ jlock[mdep] = Main
    BY <1>0, <1>7 DEF MDepLink, Link, MainOnJobs, LocksOwned, MHasJob
  <2>2. \A d \in Jobs : d # mdep => rdepends'[d] = rdepends[d]
    BY <1>0, <2>1
  <2>3. \A k \in DOMAIN rdepends'[mdep] :
          \/ k \in DOMAIN rdepends[mdep] /\ rdepends'[mdep][k] = rdepends[mdep][k]
          \/ rdepends'[mdep][k] = mjob
    <3>1. /\ Len(rdepends[mdep]) \in Nat
          /\ DOMAIN rdepends[mdep] = 1..Len(rdepends[mdep])
          /\ DOMAIN rdepends'[mdep] = 1..(Len(rdepends[mdep]) + 1)
          /\ rdepends'[mdep][Len(rdepends[mdep]) + 1] = mjob
          /\ \A k \in 1..Len(rdepends[mdep]) :
               rdepends'[mdep][k] = rdepends[mdep][k]
      BY <1>0, <2>1
    <3>2. \A k \in DOMAIN rdepends'[mdep] :
            k \in DOMAIN rdepends[mdep] \/ k = Len(rdepends[mdep]) + 1
      BY <3>1
    <3> QED
      BY <3>1, <3>2
  <2>4. \A d \in Jobs : jlock'[d] \in Workers <=> jlock[d] \in Workers
    BY <1>0, <2>1
  <2>5. ASSUME NEW d \in Jobs, NEW j \in Jobs, NEW k \in DOMAIN rdepends'[d],
               Unserved(d, k, j)'
        PROVE  state[j] \in {"PAUSED", "WAITING"}
    <3>1. k > served[d] /\ rdepends'[d][k] = j
      BY <2>1, <2>5 DEF Unserved
    <3>2. CASE j = mjob
      BY <2>1, <3>2
    <3>3. CASE j # mjob
      <4>1. k \in DOMAIN rdepends[d] /\ rdepends[d][k] = j
        BY <2>2, <2>3, <3>1, <3>3
      <4> QED
        BY <1>0, <3>1, <4>1 DEF Entries, Unserved
    <3> QED
      BY <3>2, <3>3
  <2> QED
    BY <1>0, <2>1, <2>2, <2>4, <2>5 DEF Entries
<1>8. CASE MSubmitJob
  <2>1. /\ mjob \in Jobs /\ state[mjob] = "PAUSED"
        /\ UNCHANGED <<rdepends, served, jlock>>
        /\ state' = [state EXCEPT ![mjob] = SubmitsTo(mjob)]
    BY <1>0, <1>8
       DEF MSubmitJob, MainOnJobs, MHasJob, PushJob, SetState
  <2>2. CASE NoThreads
    <3>1. \A d \in Jobs : rdepends[d] = <<>>
      <4>1. \A w \in Workers : wpc[w] = "none"
        BY <2>2 DEF NoThreads
      <4>2. \A d \in Jobs : jlock[d] \notin Workers
        BY <1>0, <4>1 DEF LocksOwned, WHoldsJob
      <4>3. \A d \in Jobs : state[d] \notin Unfinished
        BY <1>0, <2>2 DEF InlineOnly
      <4> QED
        BY <1>0, <4>2, <4>3 DEF Entries
    <3>2. \A d \in Jobs : \A k : k \notin DOMAIN rdepends[d]
      BY <3>1
    <3> QED
      BY <1>0, <2>1, <3>1, <3>2 DEF Entries, Unserved
  <2>3. CASE ~NoThreads /\ ndepends[mjob] = 0
    <3>1. ~Dismantling
      BY <1>8 DEF MSubmitJob, QueueInv, ControlInv, Closing, Dismantling
    <3>2. Cardinality(EdgesIn(rdepends, served, mjob)) = 0
      BY <1>0, <2>1, <2>3, <3>1, Terms DEF NDependsExact, QueueInv
    <3>3. \A d \in Jobs : \A k \in DOMAIN rdepends[d] : ~Unserved(d, k, mjob)
      BY <1>0, <3>2, EdgesEmpty DEF Unserved
    <3>4. state' = [state EXCEPT ![mjob] = "READY"]
      BY <2>1, <2>3 DEF SubmitsTo
    <3>5. \A d \in Jobs : d # mjob => state'[d] = state[d]
      BY <1>0, <3>4
    <3>6. state[mjob] \notin Unfinished
      BY <2>1 DEF Unfinished
    <3>7. \A d, j \in Jobs : \A k \in DOMAIN rdepends[d] :
            Unserved(d, k, j) => state'[j] \in {"PAUSED", "WAITING"}
      BY <1>0, <3>3, <3>5 DEF Entries
    <3>8. \A d, k, j : Unserved(d, k, j)' = Unserved(d, k, j)
      BY <2>1 DEF Unserved
    <3> QED
      BY <1>0, <2>1, <3>5, <3>6, <3>7, <3>8 DEF Entries
  <2>4. CASE ~NoThreads /\ ndepends[mjob] # 0
    <3>1. state' = [state EXCEPT ![mjob] = "WAITING"]
      BY <2>1, <2>4 DEF SubmitsTo
    <3> QED
      BY <1>0, <2>1, <3>1 DEF Entries, Unserved, Unfinished
  <2> QED
    BY <2>2, <2>3, <2>4
<1>9. CASE MDrop
  <2> DEFINE i == Head(drop)
  <2>1. /\ UNCHANGED <<state, jlock>>
        /\ \/ UNCHANGED <<rdepends, served>>
           \/ /\ rdepends' = [rdepends EXCEPT ![i] = <<>>]
              /\ served' = [served EXCEPT ![i] = 0]
    BY <1>9 DEF MDrop, ClearRdepends
  <2> HIDE DEF i
  <2>2. \A d \in Jobs : \/ rdepends'[d] = <<>> /\ served'[d] = 0
                        \/ rdepends'[d] = rdepends[d] /\ served'[d] = served[d]
    BY <1>0, <2>1
  <2>3. \A k : k \notin DOMAIN <<>>
    OBVIOUS
  <2> QED
    BY <1>0, <2>1, <2>2, <2>3 DEF Entries, Unserved
<1> QED
  BY EntriesWorker, <1>2, <1>3, <1>4, <1>5, <1>6, <1>7, <1>8, <1>9
     DEF Next, MCall, MProceed, Terminated

-----------------------------------------------------------------------------
(* Every unfinished job is in somebody's hands.                            *)
LEMMA AccountedWorker ==
  ASSUME QueueInv, NEW w \in Workers, WorkerStep(w)
  PROVE  Accounted'
<1> USE DEF queueVars, jobVars, wVars, mVars, Executing
<1> SUFFICES ASSUME ~Dismantling', NEW j \in Jobs
             PROVE  /\ state'[j] = "READY" =>
                         \/ \E k \in DOMAIN queue' : queue'[k] = j
                         \/ \E v \in Workers : wpc'[v] = "start" /\ wjob'[v] = j
                    /\ state'[j] = "RUNNING" =>
                         \E v \in Workers : wpc'[v] \in Executing /\ wjob'[v] = j
                    /\ state'[j] = "WAITING" => ndepends'[j] > 0
  BY DEF Accounted
<1>0. /\ wpc \in [Workers -> WPoints] /\ wjob \in [Workers -> Jobs \cup {NoJob}]
      /\ state \in [Jobs -> JobStates] /\ queue \in Seq(Jobs)
      /\ ndepends \in [Jobs -> Int] /\ WorkersOnJobs
      /\ \A v \in Workers : wpc[v] \in WHasJob => wjob[v] \in Jobs
  BY Parts DEF QueueInv, ControlInv
<1>1. /\ state[j] = "READY" =>
           \/ \E k \in DOMAIN queue : queue[k] = j
           \/ \E v \in Workers : wpc[v] = "start" /\ wjob[v] = j
      /\ state[j] = "RUNNING" =>
           \E v \in Workers : wpc[v] \in Executing /\ wjob[v] = j
      /\ state[j] = "WAITING" => ndepends[j] > 0
  <2>1. ~Dismantling
    BY DismantlingStays DEF Next
  <2> QED
    BY <2>1 DEF QueueInv, CountInv, Accounted
<1>2. CASE WLock(w) \/ WWait(w) \/ WExit(w) \/ WEndRun(w) \/ WRelock(w)
             \/ WDepFree(w) \/ WDepsDone(w)
  <2>1. UNCHANGED <<state, queue, ndepends, wjob>>
    BY <1>2 DEF WLock, WWait, WExit, WEndRun, WRelock, WDepFree, WDepsDone
  <2>2. \A v \in Workers : /\ wpc[v] = "start" => wpc'[v] = "start"
                           /\ wpc[v] \in Executing => wpc'[v] \in Executing
    BY <1>0, <1>2 DEF WLock, WWait, WExit, WEndRun, WRelock, WDepFree,
       WDepsDone, Goto
  <2> QED
    BY <1>1, <2>1, <2>2
<1>3. CASE WRelease(w)
  <2>1. /\ UNCHANGED <<state, queue, ndepends>> /\ wpc[w] = "release"
        /\ wpc' = [wpc EXCEPT ![w] = "loop"]
        /\ wjob' = [wjob EXCEPT ![w] = NoJob]
    BY <1>3 DEF WRelease, Goto
  <2>2. \A v \in Workers : v # w => wpc'[v] = wpc[v] /\ wjob'[v] = wjob[v]
    BY <1>0, <2>1
  <2> QED
    BY <1>1, <2>1, <2>2
<1>4. CASE WPop(w)
  <2>1. /\ UNCHANGED <<state, ndepends>> /\ wpc[w] = "loop" /\ queue # <<>>
        /\ wpc' = [wpc EXCEPT ![w] = "start"] /\ queue' = Tail(queue)
        /\ wjob' = [wjob EXCEPT ![w] = Head(queue)]
    BY <1>4 DEF WPop, Goto
  <2>2. \A v \in Workers : v # w => wpc'[v] = wpc[v] /\ wjob'[v] = wjob[v]
    BY <1>0, <2>1
  <2>3. wpc'[w] = "start" /\ wjob'[w] = queue[1]
    BY <1>0, <2>1
  <2>4. ASSUME NEW k \in DOMAIN queue, k # 1
        PROVE  k - 1 \in DOMAIN queue' /\ queue'[k - 1] = queue[k]
    BY <1>0, <2>1, <2>4
  <2>5. ASSUME NEW k \in DOMAIN queue, queue[k] = j
        PROVE  \/ \E l \in DOMAIN queue' : queue'[l] = j
               \/ \E v \in Workers : wpc'[v] = "start" /\ wjob'[v] = j
    BY <2>3, <2>4, <2>5
  <2>6. \A v \in Workers : wpc[v] \in {"start", "run", "relock", "finish"} =>
                             wpc'[v] = wpc[v] /\ wjob'[v] = wjob[v]
    BY <2>1, <2>2
  <2> QED
    BY <1>1, <2>1, <2>5, <2>6
<1>5. CASE WStart(w)
  <2>1. /\ UNCHANGED <<queue, ndepends, wjob>> /\ wpc[w] = "start"
        /\ wpc' = [wpc EXCEPT ![w] = "run"]
        /\ state' = [state EXCEPT ![wjob[w]] = "RUNNING"]
    BY <1>5 DEF WStart, Goto
  <2>2. \A v \in Workers : v # w => wpc'[v] = wpc[v]
    BY <1>0, <2>1
  <2>3. wpc'[w] = "run"
    BY <1>0, <2>1
  <2> QED
    BY <1>0, <1>1, <2>1, <2>2, <2>3
<1>6. CASE WFinish(w)
  <2>1. /\ UNCHANGED <<queue, ndepends, wjob>> /\ wpc[w] = "finish"
        /\ wpc' = [wpc EXCEPT ![w] = "dep"]
        /\ state' = [state EXCEPT ![wjob[w]] = "DONE"]
    BY <1>6 DEF WFinish, Goto
  <2>2. \A v \in Workers : v # w => wpc'[v] = wpc[v]
    BY <1>0, <2>1
  <2> QED
    BY <1>0, <1>1, <2>1, <2>2
<1>7. CASE WDepDone(w)
  <2> DEFINE r == NextDep(w)
  <2>1. /\ wjob' = wjob /\ wpc[w] = "dep" /\ r \in Jobs
        /\ wpc' = [wpc EXCEPT ![w] = "depfree"]
        /\ ndepends' = [ndepends EXCEPT ![r] = @ - 1]
    BY <1>7, NextDepType DEF WDepDone, Goto, QueueInv
  <2>2. \A v \in Workers : v # w => wpc'[v] = wpc[v]
    BY <1>0, <2>1
  <2>3. CASE BecomesReady(r)
    <3>1. queue' = Append(queue, r) /\ state' = [state EXCEPT ![r] = "READY"]
      BY <1>7, <2>3 DEF WDepDone, PushJob
    <3> HIDE DEF r
    <3>2. /\ \A k \in DOMAIN queue : k \in DOMAIN queue' /\ queue'[k] = queue[k]
          /\ Len(queue) + 1 \in DOMAIN queue' /\ queue'[Len(queue) + 1] = r
      BY <1>0, <2>1, <3>1
    <3>3. j = r => state'[j] = "READY"
      BY <1>0, <3>1
    <3>4. j # r => state'[j] = state[j] /\ ndepends'[j] = ndepends[j]
      BY <1>0, <2>1, <3>1
    <3> QED
      BY <1>1, <2>1, <2>2, <3>2, <3>3, <3>4
  <2>4. CASE ~BecomesReady(r)
    <3>1. UNCHANGED <<queue, state>>
      BY <1>7, <2>4 DEF WDepDone
    <3>2. state[r] # "WAITING" \/ ndepends[r] # 1
      BY <2>4 DEF BecomesReady
    <3> HIDE DEF r
    <3>3. state[j] = "WAITING" => ndepends'[j] > 0
      BY <1>0, <1>1, <2>1, <3>2
    <3> QED
      BY <1>1, <2>1, <2>2, <3>1, <3>3
  <2> QED
    BY <2>3, <2>4
<1> QED
  BY <1>2, <1>3, <1>4, <1>5, <1>6, <1>7 DEF WorkerStep

LEMMA AccountedStep ==
  ASSUME QueueInv, [Next]_vars
  PROVE  Accounted'
<1> USE DEF queueVars, jobVars, wVars, mVars
<1>0. /\ wpc \in [Workers -> WPoints] /\ queue \in Seq(Jobs)
      /\ state \in [Jobs -> JobStates] /\ ndepends \in [Jobs -> Int]
      /\ Dismantling => Dismantling'
      /\ mpc \in MHasJob => mjob \in Jobs
      /\ Accounted /\ Closing
  BY Parts, DismantlingStays DEF QueueInv, CountInv, ControlInv
<1>1. ASSUME UNCHANGED <<state, queue, wjob>>,
             \A v \in Workers : wpc[v] # "none" => wpc'[v] = wpc[v],
             \A j \in Jobs : ndepends[j] > 0 => ndepends'[j] > 0
      PROVE  Accounted'
  BY <1>0, <1>1 DEF Accounted, Executing
<1>2. CASE MSpawnFails \/ MInitDone \/ MSubmitLock \/ MWaitCheck \/ MDrop
             \/ MStopLock \/ MJoin \/ MStop \/ MSpurious \/ UNCHANGED vars
  BY <1>1, <1>2 DEF MSpawnFails, MInitDone, MSubmitLock, MWaitCheck, MDrop,
     MStopLock, MJoin, MStop, MSpurious, vars
<1>3. ASSUME NEW i \in Jobs,
             \/ MCopyRef(i) \/ MSubmit(i) \/ MWaitFor(i) \/ MFreeJob(i)
             \/ \E d \in Jobs : MDepAdd(i, d)
      PROVE  Accounted'
  BY <1>1, <1>3 DEF MCopyRef, MSubmit, MWaitFor, MFreeJob, MDepAdd
<1>4. ASSUME NEW w \in Workers, WSpurious(w) \/ MSpawn(w)
      PROVE  Accounted'
  BY <1>0, <1>1, <1>4 DEF WSpurious, MSpawn, Goto
<1>5. ASSUME NEW i \in Jobs, MCreate(i)
      PROVE  Accounted'
  <2>1. /\ UNCHANGED <<queue, wpc, wjob, ndepends>>
        /\ state' = [state EXCEPT ![i] = "PAUSED"]
    BY <1>5 DEF MCreate
  <2> QED
    BY <1>0, <2>1 DEF Accounted
<1>6. CASE MDepLink
  <2>1. /\ UNCHANGED <<state, queue, wpc, wjob>> /\ mjob \in Jobs
        /\ ndepends' = [ndepends EXCEPT ![mjob] = @ + 1]
    BY <1>0, <1>6 DEF MDepLink, Link, MHasJob
  <2>2. \A j \in Jobs : ndepends[j] > 0 => ndepends'[j] > 0
    BY <1>0, <2>1
  <2> QED
    BY <1>1, <2>1, <2>2
<1>7. CASE MSubmitJob
  <2>1. /\ UNCHANGED <<wpc, wjob, ndepends>> /\ mjob \in Jobs
        /\ state' = [state EXCEPT ![mjob] = SubmitsTo(mjob)]
        /\ IF SubmitsTo(mjob) = "READY" THEN queue' = Append(queue, mjob)
                                        ELSE queue' = queue
        /\ ~Dismantling
    BY <1>0, <1>7
       DEF MSubmitJob, MHasJob, PushJob, SetState, Closing, Dismantling
  <2>2. \A k \in DOMAIN queue : k \in DOMAIN queue' /\ queue'[k] = queue[k]
    <3>1. CASE queue' = Append(queue, mjob)
      BY <1>0, <2>1, <3>1
    <3> QED
      BY <2>1, <3>1
  <2>3. SubmitsTo(mjob) = "READY" =>
          Len(queue) + 1 \in DOMAIN queue' /\ queue'[Len(queue) + 1] = mjob
    BY <1>0, <2>1
  <2>4. SubmitsTo(mjob) = "WAITING" => ndepends[mjob] > 0
    <3>1. ndepends[mjob] = Cardinality(Edges(mjob))
      BY <2>1 DEF QueueInv, CountInv, NDependsExact
    <3>2. ndepends[mjob] \in Nat
      BY <2>1, <3>1, Terms DEF QueueInv
    <3> QED
      BY <3>2 DEF SubmitsTo
  <2>5. SubmitsTo(mjob) # "RUNNING"
    BY DEF SubmitsTo
  <2> QED
    BY <1>0, <2>1, <2>2, <2>3, <2>4, <2>5 DEF Accounted
<1>8. CASE MQueueFree
  <2>1. Dismantling
    BY <1>0, <1>8 DEF MQueueFree, Closing, Dismantling
  <2> QED
    BY <1>0, <2>1 DEF Accounted
<1> QED
  BY AccountedWorker, <1>2, <1>3, <1>4, <1>5, <1>6, <1>7, <1>8
     DEF Next, MCall, MProceed, Terminated

-----------------------------------------------------------------------------
(* Requested dependencies, jobs without references, cycles.                *)
LEMMA DepsKeptStep ==
  ASSUME QueueInv, [Next]_vars
  PROVE  DepsKept'
<1> USE DEF queueVars, jobVars, wVars, mVars
<1> SUFFICES ASSUME ~Dismantling', NEW j \in Jobs, NEW d \in deps'[j]
             PROVE  \/ state'[d] = "DONE"
                    \/ \E k \in DOMAIN rdepends'[d] : Unserved(d, k, j)'
  BY DEF DepsKept
<1>0. /\ wpc \in [Workers -> WPoints] /\ state \in [Jobs -> JobStates]
      /\ rdepends \in [Jobs -> Seq(Jobs)] /\ served \in [Jobs -> Nat]
      /\ deps \in [Jobs -> SUBSET Jobs] /\ deps' \in [Jobs -> SUBSET Jobs]
      /\ d \in Jobs /\ ~Dismantling /\ WorkersOnJobs
      /\ \A v \in Workers : wpc[v] \in WHasJob => wjob[v] \in Jobs
      /\ \A i \in Jobs : served[i] <= Len(rdepends[i])
  <2>1. deps' \in [Jobs -> SUBSET Jobs]
    BY TypeStep DEF QueueInv, TypeOK, JobTypeOK
  <2>2. d \in Jobs
    BY <2>1
  <2> QED
    BY <2>1, <2>2, Parts, DismantlingStays DEF QueueInv, ControlInv
<1>1. d \in deps[j] => \/ state[d] = "DONE"
                       \/ \E k \in DOMAIN rdepends[d] : Unserved(d, k, j)
  BY <1>0 DEF QueueInv, CountInv, DepsKept
<1>2. ASSUME d \in deps[j], state[d] = "DONE" => state'[d] = "DONE",
             rdepends'[d] = rdepends[d], served'[d] = served[d]
      PROVE  \/ state'[d] = "DONE"
             \/ \E k \in DOMAIN rdepends'[d] : Unserved(d, k, j)'
  BY <1>1, <1>2 DEF Unserved
<1>3. ASSUME NEW w \in Workers, WorkerStep(w)
      PROVE  \/ state'[d] = "DONE"
             \/ \E k \in DOMAIN rdepends'[d] : Unserved(d, k, j)'
  <2>1. d \in deps[j]
    BY <1>3 DEF WorkerStep, WLock, WWait, WExit, WPop, WStart, WEndRun, WRelock,
       WFinish, WDepDone, WDepFree, WDepsDone, WRelease
  <2>2. CASE WLock(w) \/ WWait(w) \/ WExit(w) \/ WPop(w) \/ WEndRun(w)
               \/ WRelock(w) \/ WDepFree(w) \/ WRelease(w)
    BY <1>2, <2>1, <2>2 DEF WLock, WWait, WExit, WPop, WEndRun, WRelock,
       WDepFree, WRelease
  <2>3. CASE WStart(w)
    <3>1. /\ state' = [state EXCEPT ![wjob[w]] = "RUNNING"]
          /\ state[wjob[w]] = "READY" /\ UNCHANGED <<rdepends, served>>
      BY <1>0, <2>3 DEF WStart, WorkersOnJobs
    <3> QED
      BY <1>0, <1>2, <2>1, <3>1
  <2>4. CASE WFinish(w)
    <3>1. /\ state' = [state EXCEPT ![wjob[w]] = "DONE"]
          /\ UNCHANGED <<rdepends, served>>
      BY <2>4 DEF WFinish
    <3> QED
      BY <1>0, <1>2, <2>1, <3>1
  <2>5. CASE WDepDone(w) \/ WDepsDone(w)
    <3>1. /\ wjob[w] \in Jobs /\ state[wjob[w]] = "DONE"
      BY <1>0, <2>5 DEF WDepDone, WDepsDone, WorkersOnJobs, WHasJob, WHoldsJob,
         Completing
    <3>2. state[d] = "DONE" => state'[d] = "DONE"
      <4>1. CASE WDepDone(w)
        <5>1. /\ NextDep(w) \in Jobs
              /\ \/ state' = state
                 \/ /\ state' = [state EXCEPT ![NextDep(w)] = "READY"]
                    /\ state[NextDep(w)] = "WAITING"
          BY <4>1, NextDepType DEF QueueInv, WDepDone, PushJob, BecomesReady
        <5> QED
          BY <1>0, <5>1
      <4>2. CASE WDepsDone(w)
        BY <4>2 DEF WDepsDone
      <4> QED
        BY <2>5, <4>1, <4>2
    <3>3. d # wjob[w] => rdepends'[d] = rdepends[d] /\ served'[d] = served[d]
      BY <1>0, <2>5 DEF WDepDone, WDepsDone, ClearRdepends
    <3> QED
      BY <1>2, <2>1, <3>1, <3>2, <3>3
  <2> QED
    BY <1>3, <2>2, <2>3, <2>4, <2>5 DEF WorkerStep
<1>4. CASE MSpawnFails \/ MInitDone \/ MSubmitLock \/ MWaitCheck
             \/ MStopLock \/ MJoin \/ MStop \/ MSpurious \/ MQueueFree
             \/ UNCHANGED vars
  BY <1>2, <1>4 DEF MSpawnFails, MInitDone, MSubmitLock, MWaitCheck,
     MStopLock, MJoin, MStop, MSpurious, MQueueFree, vars
<1>5. ASSUME NEW i \in Jobs,
             MCopyRef(i) \/ MSubmit(i) \/ MWaitFor(i) \/ MFreeJob(i)
      PROVE  \/ state'[d] = "DONE"
             \/ \E k \in DOMAIN rdepends'[d] : Unserved(d, k, j)'
  BY <1>2, <1>5 DEF MCopyRef, MSubmit, MWaitFor, MFreeJob
<1>6. ASSUME NEW w \in Workers, WSpurious(w) \/ MSpawn(w)
      PROVE  \/ state'[d] = "DONE"
             \/ \E k \in DOMAIN rdepends'[d] : Unserved(d, k, j)'
  BY <1>2, <1>6 DEF WSpurious, MSpawn
<1>7. ASSUME NEW i \in Jobs, NEW c \in Jobs, MDepAdd(i, c)
      PROVE  \/ state'[d] = "DONE"
             \/ \E k \in DOMAIN rdepends'[d] : Unserved(d, k, j)'
  <2>1. /\ UNCHANGED <<rdepends, served, state>>
        /\ \/ deps' = deps
           \/ state[c] = "DONE" /\ deps' = [deps EXCEPT ![i] = @ \cup {c}]
    BY <1>7 DEF MDepAdd, NothingToDo
  <2>2. d \in deps[j] \/ state[d] = "DONE"
    <3>1. CASE deps' = deps
      BY <3>1
    <3>2. CASE state[c] = "DONE" /\ deps' = [deps EXCEPT ![i] = @ \cup {c}]
      <4>1. deps'[j] = deps[j] \/ deps'[j] = deps[j] \cup {c}
        BY <1>0, <3>2
      <4> QED
        BY <3>2, <4>1
    <3> QED
      BY <2>1, <3>1, <3>2
  <2> QED
    BY <1>2, <2>1, <2>2
<1>8. ASSUME NEW i \in Jobs, MCreate(i)
      PROVE  \/ state'[d] = "DONE"
             \/ \E k \in DOMAIN rdepends'[d] : Unserved(d, k, j)'
  <2>1. /\ UNCHANGED <<rdepends, served, deps>> /\ state[i] = "NONE"
        /\ state' = [state EXCEPT ![i] = "PAUSED"]
    BY <1>8 DEF MCreate
  <2> QED
    BY <1>0, <1>2, <2>1
<1>9. CASE MDepLink
  <2>1. /\ UNCHANGED <<served, state>> /\ mjob \in Jobs /\ mdep \in Jobs
        /\ rdepends' = [rdepends EXCEPT ![mdep] = Append(@, mjob)]
        /\ deps' = [deps EXCEPT ![mjob] = @ \cup {mdep}]
    BY <1>9, Parts DEF MDepLink, Link, MHasJob
  <2>2. d # mdep => rdepends'[d] = rdepends[d] /\ d \in deps[j]
    BY <1>0, <2>1
  <2>3. CASE d = mdep
    <3> DEFINE n == Len(rdepends[d])
    <3>1. /\ n \in Nat /\ DOMAIN rdepends[d] = 1..n /\ served[d] <= n
          /\ DOMAIN rdepends'[d] = 1..(n + 1) /\ rdepends'[d][n + 1] = mjob
          /\ \A k \in 1..n : rdepends'[d][k] = rdepends[d][k]
      <4>1. rdepends[d] \in Seq(Jobs) /\ served[d] <= n
        BY <1>0
      <4>2. rdepends'[d] = Append(rdepends[d], mjob)
        BY <1>0, <2>1, <2>3
      <4> QED
        BY <2>1, <4>1, <4>2
    <3>2. n + 1 > served[d] /\ n + 1 \in DOMAIN rdepends'[d]
      BY <1>0, <3>1
    <3> HIDE DEF n
    <3>3. CASE j = mjob
      BY <2>1, <3>1, <3>2, <3>3 DEF Unserved
    <3>4. CASE j # mjob
      <4>1. d \in deps[j]
        BY <1>0, <2>1, <3>4
      <4>2. ASSUME NEW k \in DOMAIN rdepends[d], Unserved(d, k, j)
            PROVE  k \in DOMAIN rdepends'[d] /\ Unserved(d, k, j)'
        BY <2>1, <3>1, <4>2 DEF Unserved
      <4> QED
        BY <1>1, <2>1, <4>1, <4>2
    <3> QED
      BY <3>3, <3>4
  <2> QED
    BY <1>2, <2>1, <2>2, <2>3
<1>10. CASE MSubmitJob
  <2>1. /\ mjob \in Jobs /\ state[mjob] = "PAUSED"
        /\ UNCHANGED <<rdepends, served, deps>>
        /\ state' = [state EXCEPT ![mjob] = SubmitsTo(mjob)]
    BY <1>10, Parts
       DEF QueueInv, ControlInv, MSubmitJob, MainOnJobs, MHasJob, PushJob,
       SetState
  <2> QED
    BY <1>0, <1>2, <2>1
<1>11. CASE MDrop
  <2>1. UNCHANGED <<state, deps>> /\ drop # <<>>
    BY <1>11 DEF MDrop, QueueInv, TypeOK, MainTypeOK
  <2>2. CASE refcount[Head(drop)] = 1
    <3>1. /\ rdepends[Head(drop)] = <<>> /\ served[Head(drop)] = 0
      BY <1>0, <2>1, <2>2, LastDropped
    <3>2. /\ rdepends' = [rdepends EXCEPT ![Head(drop)] = <<>>]
          /\ served' = [served EXCEPT ![Head(drop)] = 0]
      BY <1>11, <2>2 DEF MDrop, ClearRdepends
    <3>3. rdepends'[d] = rdepends[d] /\ served'[d] = served[d]
      BY <1>0, <3>1, <3>2
    <3> QED
      BY <1>2, <2>1, <3>3
  <2>3. CASE refcount[Head(drop)] # 1
    BY <1>2, <1>11, <2>1, <2>3 DEF MDrop
  <2> QED
    BY <2>2, <2>3
<1> QED
  BY <1>3, <1>4, <1>5, <1>6, <1>7, <1>8, <1>9, <1>10, <1>11
     DEF Next, MCall, MProceed, Terminated

LEMMA AcyclicStep ==
  ASSUME QueueInv, [Next]_vars
  PROVE  Acyclic'
<1> USE DEF queueVars, jobVars, wVars, mVars
<1>0. /\ Acyclic /\ rdepends \in [Jobs -> Seq(Jobs)]
  BY Parts DEF QueueInv, CountInv
<1>1. ASSUME \A d \in Jobs : rdepends'[d] = rdepends[d] \/ rdepends'[d] = <<>>
      PROVE  Acyclic'
  <2>1. \A d, j \in Jobs : Needs(d, j)' => Needs(d, j)
    <3>1. \A k : k \notin DOMAIN <<>>
      OBVIOUS
    <3> QED
      BY <1>1, <3>1 DEF Needs
  <2>2. ASSUME NEW S \in (SUBSET Jobs) \ {{}}
        PROVE  \E j \in S : \A d \in S : ~Needs(d, j)'
    <3>1. PICK j \in S : \A d \in S : ~Needs(d, j)
      BY <1>0 DEF Acyclic
    <3> QED
      BY <2>1, <3>1
  <2> QED
    BY <2>2 DEF Acyclic
<1>2. CASE MDepLink
  <2>1. PICK m \in Jobs, c \in Jobs :
          /\ m # c /\ rdepends' = [rdepends EXCEPT ![c] = Append(@, m)]
          /\ rdepends[m] = <<>>
    <3>1. /\ mjob \in Jobs /\ mdep \in Jobs
          /\ rdepends' = [rdepends EXCEPT ![mdep] = Append(@, mjob)]
          /\ mpc = "dep" /\ jlock[mjob] = Nobody
      BY <1>2, Parts DEF MDepLink, Link, MHasJob
    <3>2. state[mjob] = "PAUSED" /\ state[mdep] \in Unfinished
      BY <3>1 DEF QueueInv, ControlInv, MainOnJobs
    <3>3. rdepends[mjob] = <<>>
      BY <3>1, <3>2, ThreadsDistinct
         DEF QueueInv, CountInv, Entries, Unfinished
    <3> QED
      BY <3>1, <3>2, <3>3 DEF Unfinished
  <2>2. \A j : ~Needs(m, j)'
    <3>1. rdepends'[m] = <<>> /\ \A k : k \notin DOMAIN <<>>
      BY <1>0, <2>1
    <3> QED
      BY <3>1 DEF Needs
  <2>3. ASSUME NEW d \in Jobs, NEW j \in Jobs, j # m, Needs(d, j)'
        PROVE  Needs(d, j)
    <3>1. CASE d # c
      BY <1>0, <2>1, <2>3, <3>1 DEF Needs
    <3>2. CASE d = c
      <4>1. /\ rdepends[d] \in Seq(Jobs)
            /\ rdepends'[d] = Append(rdepends[d], m)
        BY <1>0, <2>1, <3>2
      <4>2. PICK k \in DOMAIN rdepends'[d] : rdepends'[d][k] = j
        BY <2>3 DEF Needs
      <4>3. k \in DOMAIN rdepends[d] /\ rdepends[d][k] = j
        BY <2>1, <2>3, <4>1, <4>2
      <4> QED
        BY <4>3 DEF Needs
    <3> QED
      BY <3>1, <3>2
  <2>4. ASSUME NEW S \in (SUBSET Jobs) \ {{}}
        PROVE  \E j \in S : \A d \in S : ~Needs(d, j)'
    <3>1. CASE S = {m}
      BY <2>2, <3>1
    <3>2. CASE S # {m}
      <4>1. S \ {m} \in (SUBSET Jobs) \ {{}}
        BY <3>2
      <4>2. PICK j \in S \ {m} : \A d \in S \ {m} : ~Needs(d, j)
        BY <1>0, <4>1 DEF Acyclic
      <4>3. \A d \in S : ~Needs(d, j)'
        BY <2>2, <2>3, <4>2
      <4> QED
        BY <4>2, <4>3
    <3> QED
      BY <3>1, <3>2
  <2> QED
    BY <2>4 DEF Acyclic
<1>3. CASE MDrop
  <2>1. \/ rdepends' = rdepends
        \/ rdepends' = [rdepends EXCEPT ![Head(drop)] = <<>>]
    BY <1>3 DEF MDrop, ClearRdepends
  <2> QED
    BY <1>0, <1>1, <2>1
<1>4. ASSUME NEW w \in Workers, WorkerStep(w)
      PROVE  Acyclic'
  <2>1. \/ rdepends' = rdepends
        \/ rdepends' = [rdepends EXCEPT ![wjob[w]] = <<>>]
    BY <1>4 DEF WorkerStep, WLock, WWait, WExit, WPop, WStart, WEndRun, WRelock,
       WFinish, WDepDone, WDepFree, WDepsDone, ClearRdepends, WRelease
  <2> QED
    BY <1>0, <1>1, <2>1
<1>5. CASE MSpawnFails \/ MInitDone \/ MSubmitLock \/ MSubmitJob
             \/ MWaitCheck \/ MStopLock \/ MJoin \/ MStop \/ MSpurious
             \/ MQueueFree \/ UNCHANGED vars
  BY <1>1, <1>5 DEF MSpawnFails, MInitDone, MSubmitLock, MSubmitJob,
     MWaitCheck, MStopLock, MJoin, MStop, MSpurious, MQueueFree, vars
<1>6. ASSUME NEW i \in Jobs,
             \/ MCreate(i) \/ MCopyRef(i) \/ MSubmit(i) \/ MWaitFor(i)
             \/ MFreeJob(i) \/ \E d \in Jobs : MDepAdd(i, d)
      PROVE  Acyclic'
  BY <1>1, <1>6 DEF MCreate, MCopyRef, MSubmit, MWaitFor, MFreeJob, MDepAdd
<1>7. ASSUME NEW w \in Workers, WSpurious(w) \/ MSpawn(w)
      PROVE  Acyclic'
  BY <1>1, <1>7 DEF WSpurious, MSpawn
<1> QED
  BY <1>2, <1>3, <1>4, <1>5, <1>6, <1>7 DEF Next, MCall, MProceed, Terminated

(* Dismantling starts when all workers have been joined.                   *)
LEMMA DismantlingStarts ==
  ASSUME QueueInv, [Next]_vars, ~Dismantling, Dismantling'
  PROVE  MJoin
<1> USE DEF queueVars, jobVars, wVars, mVars, Dismantling
<1>1. /\ stop => mpc \in {"join", "stopped", "drop", "flush", "freed"}
      /\ mpc \in {"join", "stopped", "flush", "freed"} => stop
  BY DEF QueueInv, ControlInv, Closing
<1>2. ASSUME NEW w \in Workers, WorkerStep(w)
      PROVE  FALSE
  <2>1. stop' = stop
    BY <1>2 DEF WorkerStep, WLock, WWait, WExit, WPop, WStart, WEndRun, WRelock,
       WFinish, WDepDone, WDepFree, WDepsDone, WRelease
  <2>2. mpc' = mpc \/ mpc = "waiting"
    BY <1>2 DEF WorkerStep, WLock, WWait, WExit, WPop, WStart, WEndRun, WRelock,
       WFinish, WDepDone, WDepFree, WDepsDone, WRelease, SignalDone
  <2> QED
    BY <1>1, <2>1, <2>2
<1>3. CASE MCall \/ MSpurious \/ UNCHANGED vars
  BY <1>1, <1>3 DEF MCall, MStop, MCreate, MCopyRef, MSubmit, MWaitFor, MDepAdd,
     MFreeJob, MSpurious, vars
<1>4. CASE MProceed
  BY <1>1, <1>4 DEF MProceed, MSpawnFails, MInitDone, MDepLink, MSubmitLock,
     MSubmitJob, MWaitCheck, MDrop, MStopLock, MJoin, MQueueFree, MSpawn,
     MFreeJob
<1>5. ASSUME NEW w \in Workers, WSpurious(w)
      PROVE  FALSE
  BY <1>1, <1>5 DEF WSpurious
<1> QED
  BY <1>2, <1>3, <1>4, <1>5 DEF Next, Terminated

LEMMA QuietStep ==
  ASSUME QueueInv, TypeOK', LocksOwned', Entries', Accounted', RefCountExact',
         NDependsExact', [Next]_vars
  PROVE  \A j \in Jobs : refcount'[j] <= 0 => rdepends'[j] = <<>>
<1> USE DEF queueVars, jobVars, wVars, mVars
<1>0. /\ \A j \in Jobs : refcount[j] <= 0 => rdepends[j] = <<>>
      /\ rdepends \in [Jobs -> Seq(Jobs)] /\ refcount \in [Jobs -> Int]
      /\ drop \in Seq(Jobs)
  BY Parts DEF QueueInv, CountInv, NoneLeft
<1>1. CASE ~Dismantling'
  <2>1. (TypeOK /\ LocksOwned /\ Entries /\ Accounted /\ RefCountExact
           /\ NDependsExact /\ ~Dismantling
         => \A j \in Jobs : refcount[j] <= 0 => rdepends[j] = <<>>)'
    BY Quiet, PTL
  <2> QED
    BY <1>1, <2>1
<1>2. CASE Dismantling' /\ ~Dismantling
  BY <1>0, <1>2, DismantlingStarts DEF MJoin
<1>3. CASE Dismantling
  <2>1. /\ stop /\ mpc \in {"stopped", "drop", "flush", "freed"}
        /\ \A w \in Workers : wpc[w] \in {"none", "exit"}
    BY <1>3 DEF QueueInv, ControlInv, Closing, Dismantling
  <2>2. ASSUME NEW w \in Workers, WorkerStep(w)
        PROVE  FALSE
    BY <2>1, <2>2 DEF WorkerStep, WLock, WWait, WExit, WPop, WStart, WEndRun,
       WRelock, WFinish, WDepDone, WDepFree, WDepsDone, WRelease
  <2>3. MDrop \/ UNCHANGED <<refcount, rdepends>>
    <3>1. CASE MCall
      BY <2>1, <3>1
         DEF MCall, MStop, MCreate, MCopyRef, MSubmit, MWaitFor, MDepAdd
    <3>2. CASE MProceed
      BY <2>1, <3>2 DEF MProceed, MSpawnFails, MInitDone, MDepLink,
         MSubmitLock, MSubmitJob, MWaitCheck, MStopLock, MJoin, MQueueFree,
         MSpawn, MFreeJob
    <3>3. CASE MSpurious \/ UNCHANGED vars
      BY <2>1, <3>3 DEF MSpurious, vars
    <3>4. ASSUME NEW w \in Workers, WSpurious(w)
          PROVE  UNCHANGED <<refcount, rdepends>>
      BY <3>4 DEF WSpurious
    <3> QED
      BY <2>2, <3>1, <3>2, <3>3, <3>4 DEF Next, Terminated
  <2>4. CASE MDrop
    <3> DEFINE i == Head(drop)
    <3>1. /\ i \in Jobs /\ refcount[i] > 0
      <4>1. drop # <<>>
        BY <2>4 DEF MDrop, QueueInv, TypeOK, MainTypeOK
      <4>2. i \in Jobs /\ 1 \in DOMAIN drop /\ drop[1] = i
        BY <1>0, <4>1
      <4> HIDE DEF i
      <4> QED
        BY <4>2, Referenced DEF QueueInv, CountInv
    <3>2. /\ refcount' = [refcount EXCEPT ![i] = @ - 1]
          /\ \/ refcount[i] = 1 /\ rdepends' = [rdepends EXCEPT ![i] = <<>>]
             \/ refcount[i] # 1 /\ rdepends' = rdepends
      BY <2>4 DEF MDrop, ClearRdepends
    <3> HIDE DEF i
    <3>3. ASSUME NEW j \in Jobs, refcount'[j] <= 0
          PROVE  rdepends'[j] = <<>>
      <4>1. CASE j = i
        BY <1>0, <3>1, <3>2, <3>3, <4>1
      <4>2. CASE j # i
        BY <1>0, <3>1, <3>2, <3>3, <4>2
      <4> QED
        BY <4>1, <4>2
    <3> QED
      BY <3>3
  <2> QED
    BY <1>0, <2>3, <2>4
<1> QED
  BY <1>1, <1>2, <1>3

(* A job that does not exist has no references.                            *)
LEMMA NoneStep ==
  ASSUME QueueInv, [Next]_vars
  PROVE  \A j \in Jobs : state'[j] = "NONE" => refcount'[j] = 0
<1> USE DEF queueVars, jobVars, wVars, mVars
<1>0. /\ \A j \in Jobs : state[j] = "NONE" => refcount[j] = 0
      /\ state \in [Jobs -> JobStates] /\ refcount \in [Jobs -> Int]
      /\ handles \in [Jobs -> Nat] /\ drop \in Seq(Jobs)
      /\ WorkersOnJobs /\ MainOnJobs /\ Entries
      /\ rdepends \in [Jobs -> Seq(Jobs)] /\ served \in [Jobs -> Nat]
      /\ TypeOK /\ RefCountExact
      /\ \A v \in Workers : wpc[v] \in WHasJob => wjob[v] \in Jobs
      /\ mpc \in MHasJob => mjob \in Jobs
  BY Parts DEF QueueInv, CountInv, NoneLeft, ControlInv
<1>1. ASSUME NEW i \in Jobs, state[i] # "NONE",
             refcount' = refcount \/ \E x : refcount' = [refcount EXCEPT ![i] = x],
             state' = state \/ \E x : x # "NONE" /\ state' = [state EXCEPT ![i] = x]
      PROVE  \A j \in Jobs : state'[j] = "NONE" => refcount'[j] = 0
  BY <1>0, <1>1
<1>2. ASSUME UNCHANGED <<state, refcount>>
      PROVE  \A j \in Jobs : state'[j] = "NONE" => refcount'[j] = 0
  BY <1>0, <1>2
<1>3. ASSUME NEW w \in Workers, WorkerStep(w)
      PROVE  \A j \in Jobs : state'[j] = "NONE" => refcount'[j] = 0
  <2>1. CASE WLock(w) \/ WWait(w) \/ WExit(w) \/ WPop(w) \/ WEndRun(w)
               \/ WRelock(w) \/ WDepsDone(w)
    BY <1>2, <2>1 DEF WLock, WWait, WExit, WPop, WEndRun, WRelock, WDepsDone
  <2>2. CASE WStart(w) \/ WFinish(w) \/ WRelease(w)
    <3>1. wjob[w] \in Jobs /\ state[wjob[w]] # "NONE"
      BY <1>0, <2>2 DEF WStart, WFinish, WRelease, WorkersOnJobs, WHasJob,
         Executing, Completing
    <3>2. /\ \/ refcount' = refcount
             \/ refcount' = [refcount EXCEPT ![wjob[w]] = @ - 1]
          /\ \/ state' = state
             \/ state' = [state EXCEPT ![wjob[w]] = "RUNNING"]
             \/ state' = [state EXCEPT ![wjob[w]] = "DONE"]
      BY <2>2 DEF WStart, WFinish, WRelease
    <3> QED
      BY <1>0, <1>1, <3>1, <3>2
  <2>3. CASE WDepDone(w)
    <3>1. /\ NextDep(w) \in Jobs
          /\ \/ /\ state' = [state EXCEPT ![NextDep(w)] = "READY"]
                /\ refcount' = [refcount EXCEPT ![NextDep(w)] = @ + 1]
                /\ state[NextDep(w)] = "WAITING"
             \/ UNCHANGED <<state, refcount>>
      BY <2>3, NextDepType DEF QueueInv, WDepDone, PushJob, BecomesReady
    <3> QED
      BY <1>0, <1>2, <3>1
  <2>4. CASE WDepFree(w)
    <3>1. /\ refcount' = [refcount EXCEPT ![CurDep(w)] = @ - 1]
          /\ state' = state
      BY <2>4 DEF WDepFree
    <3>2. CurDep(w) \in Jobs
      <4>1. wjob[w] \in Jobs /\ served[wjob[w]] > 0
        BY <1>0, <2>4 DEF WDepFree, WorkersOnJobs, WHasJob, WHoldsJob
      <4>2. served[wjob[w]] \in 1..Len(rdepends[wjob[w]])
        BY <1>0, <4>1, Parts
      <4>3. rdepends[wjob[w]] \in Seq(Jobs)
        BY <1>0, <4>1
      <4> QED
        BY <4>2, <4>3 DEF CurDep
    <3>3. refcount[CurDep(w)] > 0
      BY <1>0, <2>4, <3>2, Referenced DEF WDepFree
    <3> QED
      BY <1>0, <3>1, <3>2, <3>3
  <2> QED
    BY <1>3, <2>1, <2>2, <2>3, <2>4 DEF WorkerStep
<1>4. CASE MSpawnFails \/ MInitDone \/ MSubmitLock \/ MWaitCheck
             \/ MStopLock \/ MJoin \/ MStop \/ MSpurious \/ MQueueFree
             \/ UNCHANGED vars
  BY <1>2, <1>4 DEF MSpawnFails, MInitDone, MSubmitLock, MWaitCheck,
     MStopLock, MJoin, MStop, MSpurious, MQueueFree, vars
<1>5. ASSUME NEW i \in Jobs,
             \/ MSubmit(i) \/ MWaitFor(i) \/ MFreeJob(i)
             \/ \E d \in Jobs : MDepAdd(i, d)
      PROVE  \A j \in Jobs : state'[j] = "NONE" => refcount'[j] = 0
  BY <1>2, <1>5 DEF MSubmit, MWaitFor, MFreeJob, MDepAdd
<1>6. ASSUME NEW w \in Workers, WSpurious(w) \/ MSpawn(w)
      PROVE  \A j \in Jobs : state'[j] = "NONE" => refcount'[j] = 0
  BY <1>2, <1>6 DEF WSpurious, MSpawn
<1>7. ASSUME NEW i \in Jobs, MCreate(i)
      PROVE  \A j \in Jobs : state'[j] = "NONE" => refcount'[j] = 0
  <2>1. /\ state' = [state EXCEPT ![i] = "PAUSED"]
        /\ refcount' = [refcount EXCEPT ![i] = 1]
    BY <1>7 DEF MCreate
  <2> QED
    BY <1>0, <2>1
<1>8. ASSUME NEW i \in Jobs, MCopyRef(i)
      PROVE  \A j \in Jobs : state'[j] = "NONE" => refcount'[j] = 0
  <2>1. /\ state' = state /\ refcount' = [refcount EXCEPT ![i] = @ + 1]
        /\ handles[i] > 0
    BY <1>0, <1>8 DEF MCopyRef
  <2>2. refcount[i] > 0
    BY <1>0, <2>1, Referenced
  <2> QED
    BY <1>0, <2>1, <2>2
<1>9. CASE MDepLink \/ MSubmitJob
  <2>1. /\ mjob \in Jobs /\ state[mjob] = "PAUSED"
        /\ \/ refcount' = refcount
           \/ refcount' = [refcount EXCEPT ![mjob] = @ + 1]
        /\ \/ state' = state
           \/ state' = [state EXCEPT ![mjob] = SubmitsTo(mjob)]
    BY <1>0, <1>9
       DEF MDepLink, Link, MSubmitJob, MainOnJobs, MHasJob, PushJob, SetState
  <2>2. SubmitsTo(mjob) # "NONE"
    BY DEF SubmitsTo
  <2> QED
    BY <1>0, <2>1, <2>2
<1>10. CASE MDrop
  <2> DEFINE i == Head(drop)
  <2>1. i \in Jobs /\ refcount[i] > 0
    <3>1. drop # <<>>
      BY <1>10 DEF MDrop, QueueInv, TypeOK, MainTypeOK
    <3>2. i \in Jobs /\ 1 \in DOMAIN drop /\ drop[1] = i
      BY <1>0, <3>1
    <3> HIDE DEF i
    <3> QED
      BY <1>0, <3>2, Referenced
  <2>2. refcount' = [refcount EXCEPT ![i] = @ - 1] /\ state' = state
    BY <1>10 DEF MDrop
  <2> HIDE DEF i
  <2> QED
    BY <1>0, <2>1, <2>2
<1> QED
  BY <1>3, <1>4, <1>5, <1>6, <1>7, <1>8, <1>9, <1>10
     DEF Next, MCall, MProceed, Terminated

-----------------------------------------------------------------------------
(* The invariant holds from the initialisation of the queue on.            *)

LEMMA QueueInit == Init => QueueInv
<1> SUFFICES ASSUME Init PROVE QueueInv
  OBVIOUS
<1>1. TypeOK
  BY TypeInit
<1>2. /\ queue = <<>> /\ drop = <<>> /\ stop = FALSE /\ mpc = "init"
      /\ mjob = NoJob /\ mdep = NoJob /\ qlock = Main
      /\ \A w \in Workers : wpc[w] = "none"
      /\ \A j \in Jobs : /\ jlock[j] = Nobody /\ state[j] = "NONE"
                         /\ ndepends[j] = 0 /\ rdepends[j] = <<>>
                         /\ served[j] = 0 /\ refcount[j] = 0
                         /\ handles[j] = 0 /\ deps[j] = {}
  BY DEF Init
<1>3. Main \notin Workers /\ Nobody \notin Workers \cup {Main}
  BY ThreadsDistinct
<1>4. ControlInv
  BY <1>2, <1>3 DEF ControlInv, LocksOwned, WorkersOnJobs, QueueReady, MainOnJobs,
     Closing, InlineOnly, WHoldsQueue, WHoldsJob, WHasJob, MHoldsQueue, MHasJob,
     Executing, Completing, Dismantling, Unfinished
<1>5. \A j \in Jobs : /\ Cardinality(Edges(j)) = 0
                      /\ Cardinality(Places(queue, j)) = 0
                      /\ Cardinality(Places(drop, j)) = 0
                      /\ Cardinality(Holders(j)) = 0
                      /\ Cardinality(Freers(j)) = 0
  <2> SUFFICES ASSUME NEW j \in Jobs
               PROVE  /\ Cardinality(Edges(j)) = 0
                      /\ Cardinality(Places(queue, j)) = 0
                      /\ Cardinality(Places(drop, j)) = 0
                      /\ Cardinality(Holders(j)) = 0
                      /\ Cardinality(Freers(j)) = 0
    OBVIOUS
  <2>1. Places(queue, j) = {} /\ Places(drop, j) = {}
    BY <1>2 DEF Places
  <2>2. Holders(j) = {} /\ Freers(j) = {}
    BY <1>2 DEF Holders, Freers, WHasJob, WHoldsJob
  <2>3. Edges(j) = {}
    BY <1>2 DEF Edges, Places
  <2> QED
    BY <2>1, <2>2, <2>3, FS_EmptySet
<1>6. RefCountExact
  BY <1>2, <1>5 DEF RefCountExact
<1>7. NDependsExact
  BY <1>2, <1>5 DEF NDependsExact
<1>8. Entries /\ Accounted /\ DepsKept /\ NoneLeft
  BY <1>2 DEF Entries, Accounted, DepsKept, NoneLeft, Unfinished, Unserved
<1>9. Acyclic
  BY <1>2 DEF Acyclic, Needs
<1> QED
  BY <1>1, <1>4, <1>6, <1>7, <1>8, <1>9 DEF QueueInv, CountInv

(* Every step of a thread preserves it.                                    *)
LEMMA QueueStep ==
  ASSUME QueueInv, [Next]_vars
  PROVE  QueueInv'
<1>1. TypeOK'
  BY TypeStep DEF QueueInv
<1>2. ControlInv'
  BY LocksStep, JobsStep, QueueReadyStep, MainStep, ClosingStep, InlineStep
     DEF ControlInv
<1>3. LocksOwned' /\ Entries' /\ Accounted' /\ RefCountExact' /\ NDependsExact'
  BY <1>1, LocksStep, EntriesStep, AccountedStep, RefCountStep, NDependsStep
<1>4. NoneLeft'
  BY <1>1, <1>3, QuietStep, NoneStep DEF NoneLeft
<1> QED
  BY <1>1, <1>2, <1>3, <1>4, DepsKeptStep, AcyclicStep DEF QueueInv, CountInv

(* The control points, locks, states and counters of the thread queue agree*)
(* at every step, for any numbers of jobs and worker threads.              *)
THEOREM QueueInvariant == Spec => []QueueInv
  BY QueueInit, QueueStep, PTL DEF Spec

-----------------------------------------------------------------------------
(* Who can make whom wait.                                                 *)

(* The entry that a worker deals with next names a job that waits for it.  *)
LEMMA NextIsUnserved ==
  ASSUME QueueInv, NEW w \in Workers, wpc[w] = "dep",
         served[wjob[w]] < Len(rdepends[wjob[w]])
  PROVE  /\ wjob[w] \in Jobs /\ NextDep(w) \in Jobs
         /\ state[NextDep(w)] \in {"PAUSED", "WAITING"}
         /\ Cardinality(Edges(NextDep(w))) > 0
<1> DEFINE d == wjob[w]
           k == served[d] + 1
           r == rdepends[d][k]
<1>1. d \in Jobs /\ served[d] \in Nat /\ rdepends[d] \in Seq(Jobs)
  BY Parts DEF WHasJob, WHoldsJob
<1>2. k \in DOMAIN rdepends[d] /\ r \in Jobs /\ k > served[d]
  BY <1>1
<1>3. Unserved(d, k, r)
  BY <1>2 DEF Unserved
<1>4. state[r] \in {"PAUSED", "WAITING"}
  BY <1>1, <1>2, <1>3 DEF QueueInv, CountInv, Entries
<1>5. Cardinality(EdgesIn(rdepends, served, r)) # 0
  BY <1>1, <1>2, Parts, EdgesEmpty
<1>6. Cardinality(Edges(r)) \in Nat /\ Edges(r) = EdgesIn(rdepends, served, r)
  BY <1>2, Terms DEF QueueInv
<1>7. Cardinality(Edges(r)) > 0
  BY <1>5, <1>6
<1> QED
  BY <1>1, <1>2, <1>4, <1>7 DEF NextDep

(* The owner of a job's lock, as the state of the job shows it.            *)
LEMMA JobLockOwner ==
  ASSUME QueueInv, NEW j \in Jobs, jlock[j] # Nobody
  PROVE  \/ /\ jlock[j] \in Workers /\ wpc[jlock[j]] \in WHoldsJob
            /\ wjob[jlock[j]] = j /\ state[j] = "DONE"
         \/ /\ jlock[j] = Main /\ mpc = "dep" /\ mdep = j
            /\ state[j] \in Unfinished
<1>1. jlock[j] \in Workers \cup {Main} /\ LocksOwned /\ WorkersOnJobs /\ MainOnJobs
  BY Parts DEF Threads, QueueInv, ControlInv
<1> QED
  BY <1>1 DEF LocksOwned, WorkersOnJobs, MainOnJobs, WHoldsJob, Completing

(* A worker that owns the queue's lock waits for Main at most, and only    *)
(* while Main is in dep_add.                                               *)
LEMMA OwnerWaits ==
  ASSUME QueueInv, NEW w \in Workers, wpc[w] \in WHoldsQueue
  PROVE  WaitsFor(w) = Nobody \/ (WaitsFor(w) = Main /\ mpc = "dep")
<1>0. Main \notin Workers
  BY ThreadsDistinct
<1>1. CASE wpc[w] \in {"start", "finish"}
  <2>1. wjob[w] \in Jobs /\ WaitsFor(w) = jlock[wjob[w]]
    BY <1>0, <1>1, Parts DEF WaitsFor, WHasJob
  <2>2. \A v \in Workers : wpc[v] \in WHoldsJob => wpc[v] \in WHoldsQueue
    BY DEF WHoldsJob, WHoldsQueue
  <2>3. wpc[w] \notin WHoldsJob
    BY <1>1 DEF WHoldsJob
  <2> QED
    BY <2>1, <2>2, <2>3, OneOwner, JobLockOwner
<1>2. CASE wpc[w] = "dep" /\ served[wjob[w]] < Len(rdepends[wjob[w]])
  <2>1. WaitsFor(w) = jlock[NextDep(w)]
    BY <1>0, <1>2 DEF WaitsFor
  <2> QED
    BY <1>2, <2>1, NextIsUnserved, JobLockOwner
<1>3. CASE /\ wpc[w] \notin {"start", "finish"}
           /\ ~(wpc[w] = "dep" /\ served[wjob[w]] < Len(rdepends[wjob[w]]))
  BY <1>0, <1>3 DEF WaitsFor, WHoldsQueue
<1> QED
  BY <1>1, <1>2, <1>3

(* Main waits for a worker at most, never while it is in dep_add.          *)
LEMMA MainWaits ==
  ASSUME QueueInv, ~InitFailed
  PROVE  \/ WaitsFor(Main) = Nobody
         \/ /\ WaitsFor(Main) \in Workers
            /\ wpc[WaitsFor(Main)] \in WHoldsQueue
            /\ mpc # "dep"
<1>0. /\ qlock \in Workers \cup {Main, Nobody} /\ LocksOwned /\ MainOnJobs
      /\ mpc \in MHasJob => mjob \in Jobs
  BY Parts DEF QueueInv, ControlInv, TypeOK, QueueTypeOK, Threads
<1>1. CASE mpc \in {"submit", "stop"}
  <2>1. WaitsFor(Main) = qlock
    BY <1>1 DEF WaitsFor
  <2>2. qlock # Main
    BY <1>0, <1>1 DEF LocksOwned, InitFailed, MHoldsQueue
  <2> QED
    BY <1>0, <1>1, <2>1, <2>2 DEF LocksOwned
<1>2. CASE mpc \in {"dep", "submitjob", "waitjob"}
  <2>1. WaitsFor(Main) = jlock[mjob] /\ mjob \in Jobs
    BY <1>0, <1>2 DEF WaitsFor, MHasJob
  <2>2. mpc \in {"dep", "submitjob"} => state[mjob] = "PAUSED"
    BY <1>0 DEF MainOnJobs
  <2>3. \A v \in Workers : wpc[v] \in WHoldsJob => wpc[v] \in WHoldsQueue
    BY DEF WHoldsJob, WHoldsQueue
  <2> QED
    BY <1>2, <2>1, <2>2, <2>3, JobLockOwner DEF Unfinished
<1>3. CASE mpc \notin {"submit", "stop", "dep", "submitjob", "waitjob"}
  BY <1>3 DEF WaitsFor
<1> QED
  BY <1>1, <1>2, <1>3

(* A worker that does not own the queue's lock waits for it, or for none.  *)
LEMMA OthersWait ==
  ASSUME NEW w \in Workers, wpc[w] \notin WHoldsQueue
  PROVE  WaitsFor(w) \in {qlock, Nobody}
BY ThreadsDistinct DEF WaitsFor, WHoldsQueue

LEMMA InvNoLockCycle == QueueInv => NoLockCycle
<1> SUFFICES ASSUME QueueInv, ~InitFailed,
                    NEW S \in (SUBSET Threads) \ {{}},
                    \A t \in S : WaitsFor(t) \in S
             PROVE  FALSE
  BY DEF NoLockCycle
<1>1. /\ S \subseteq Workers \cup {Main} /\ Nobody \notin S
      /\ Main \notin Workers /\ LocksOwned
  BY ThreadsDistinct DEF Threads, QueueInv, ControlInv
<1>2. ASSUME NEW w \in S, w \in Workers, wpc[w] \in WHoldsQueue
      PROVE  FALSE
  <2>1. Main \in S /\ mpc = "dep"
    BY <1>1, <1>2, OwnerWaits
  <2> QED
    BY <1>1, <2>1, MainWaits
<1>3. CASE Main \in S
  BY <1>1, <1>2, <1>3, MainWaits
<1>4. CASE Main \notin S
  <2>1. PICK t \in S : t \in Workers /\ wpc[t] \notin WHoldsQueue
    BY <1>1, <1>2, <1>4
  <2>2. qlock \in S /\ qlock \in Workers
    BY <1>1, <1>4, <2>1, OthersWait
  <2> QED
    BY <1>1, <1>2, <2>2 DEF LocksOwned
<1> QED
  BY <1>3, <1>4

(* The workers and the main thread never wait for one another in a ring,   *)
(* in threadqueue_worker, kvz_threadqueue_job_dep_add, _submit and         *)
(* _waitfor, however many there are of them: the order in which these take *)
(* the locks of the queue and of the jobs excludes it.                     *)
THEOREM NoLockCycleCorrect == Spec => []NoLockCycle
  BY QueueInvariant, InvNoLockCycle, PTL

-----------------------------------------------------------------------------
(* The life of the reference counts.                                       *)

LEMMA InvFreedIsQuiet == QueueInv => FreedIsQuiet
<1> SUFFICES ASSUME QueueInv, NEW j \in Jobs, refcount[j] <= 0
             PROVE  /\ jlock[j] = Nobody /\ j \notin {mjob, mdep}
                    /\ rdepends[j] = <<>>
  BY DEF FreedIsQuiet
<1>1. /\ handles[j] \in Nat /\ refcount[j] \in Int /\ TypeOK /\ RefCountExact
      /\ MainOnJobs /\ NoneLeft /\ j # NoJob
  BY Parts, JobsFinite DEF QueueInv, ControlInv, CountInv
<1>2. /\ ~(handles[j] > 0)
      /\ ~\E w \in Workers : wpc[w] \in WHasJob /\ wjob[w] = j
  BY <1>1, Referenced
<1>3. jlock[j] = Nobody
  <2>1. \A w \in Workers : wpc[w] \in WHoldsJob => wpc[w] \in WHasJob
    BY DEF WHasJob
  <2> QED
    BY <1>1, <1>2, <2>1, JobLockOwner DEF MainOnJobs
<1>4. j \notin {mjob, mdep}
  BY <1>1, <1>2 DEF MainOnJobs
<1> QED
  BY <1>1, <1>3, <1>4 DEF NoneLeft

(* Once everything that refers to jobs from outside is gone, a job that is *)
(* left needs another one that is left; there is no ring of such jobs.     *)
LEMMA InvNoLeak == QueueInv => NoLeak
<1> SUFFICES ASSUME QueueInv, mpc = "freed"
             PROVE  \A j \in Jobs : refcount[j] = 0
  BY DEF NoLeak
<1>1. /\ TypeOK /\ RefCountExact /\ Closing /\ NoneLeft /\ Acyclic
      /\ refcount \in [Jobs -> Int] /\ rdepends \in [Jobs -> Seq(Jobs)]
      /\ served \in [Jobs -> Nat]
  BY Parts DEF QueueInv, ControlInv, CountInv
<1>2. /\ \A w \in Workers : wpc[w] \in {"none", "exit"}
      /\ drop = <<>> /\ queue = <<>> /\ \A j \in Jobs : handles[j] = 0
  BY <1>1 DEF Closing, Dismantling
<1>3. ASSUME NEW j \in Jobs
      PROVE  refcount[j] = Cardinality(Edges(j))
  <2>1. /\ Holders(j) = {} /\ Freers(j) = {}
        /\ Places(queue, j) = {} /\ Places(drop, j) = {}
    BY <1>2 DEF Holders, Freers, Places, WHasJob, WHoldsJob
  <2>2. /\ Cardinality(Holders(j)) = 0 /\ Cardinality(Freers(j)) = 0
        /\ Cardinality(Places(queue, j)) = 0
        /\ Cardinality(Places(drop, j)) = 0
    BY <2>1, FS_EmptySet
  <2>3. refcount[j] = handles[j] + Cardinality(Places(queue, j))
                        + Cardinality(Edges(j)) + Cardinality(Holders(j))
                        + Cardinality(Freers(j)) + Cardinality(Places(drop, j))
    BY <1>1 DEF RefCountExact
  <2>4. Cardinality(Edges(j)) \in Nat /\ handles[j] = 0
    BY <1>1, <1>2, Terms
  <2> QED
    BY <2>2, <2>3, <2>4
<1> DEFINE S == {j \in Jobs : refcount[j] # 0}
<1>4. ASSUME NEW j \in S
      PROVE  \E d \in S : Needs(d, j)
  <2>1. Cardinality(EdgesIn(rdepends, served, j)) # 0
    BY <1>1, <1>3, Terms
  <2>2. PICK d \in Jobs : \E k \in DOMAIN rdepends[d] : rdepends[d][k] = j
    BY <1>1, <2>1, EdgesEmpty
  <2>3. rdepends[d] # <<>>
    BY <2>2
  <2>4. refcount[d] # 0
    BY <1>1, <2>3 DEF NoneLeft
  <2> QED
    BY <2>2, <2>4 DEF Needs
<1>5. S \in SUBSET Jobs
  OBVIOUS
<1> HIDE DEF S
<1>6. S = {}
  BY <1>1, <1>4, <1>5 DEF Acyclic
<1> QED
  BY <1>6 DEF S

LEMMA InvReferences == QueueInv => References
BY InvFreedIsQuiet, InvNoLeak DEF References, QueueInv, CountInv

(* Every reference to a job is counted once, by kvz_threadqueue_copy_ref,  *)
(* _free_job, job_dep_add, push_job and the worker, at every step of any   *)
(* number of threads: no job is freed while anybody can still reach it,    *)
(* and none is left when kvz_threadqueue_free returns.  The counters of    *)
(* dependencies agree with the rdepends arrays until the jobs are freed.   *)
THEOREM ReferencesCorrect == Spec => []References
  BY QueueInvariant, InvReferences, PTL

-----------------------------------------------------------------------------
(* The assertions of the code.                                             *)

(* A job is pushed once its counter is zero, and then has no entry left.   *)
ReadyInv == \A j \in Jobs : state[j] = "READY" => ndepends[j] = 0

LEMMA ReadyStep ==
  ASSUME QueueInv, ReadyInv, [Next]_vars
  PROVE  ReadyInv'
<1> USE DEF queueVars, jobVars, wVars, mVars
<1>0. /\ state \in [Jobs -> JobStates] /\ ndepends \in [Jobs -> Int]
      /\ \A j \in Jobs : state[j] = "READY" => ndepends[j] = 0
      /\ mpc \in MHasJob => mjob \in Jobs
      /\ MainOnJobs
  BY Parts DEF ReadyInv, QueueInv, ControlInv
<1>1. ASSUME UNCHANGED ndepends,
             \/ UNCHANGED state
             \/ \E i \in Jobs : \E s :
                  /\ s = "READY" => ndepends[i] = 0
                  /\ state' = [state EXCEPT ![i] = s]
      PROVE  ReadyInv'
  BY <1>0, <1>1 DEF ReadyInv
<1>2. ASSUME NEW w \in Workers, WorkerStep(w)
      PROVE  ReadyInv'
  <2>1. CASE \/ WLock(w) \/ WWait(w) \/ WExit(w) \/ WPop(w) \/ WEndRun(w)
             \/ WRelock(w) \/ WDepFree(w) \/ WDepsDone(w) \/ WRelease(w)
    BY <1>1, <2>1 DEF WLock, WWait, WExit, WPop, WEndRun, WRelock, WDepFree,
       WDepsDone, WRelease
  <2>2. CASE WStart(w) \/ WFinish(w)
    <3>1. wjob[w] \in Jobs
      BY <2>2, Parts DEF WStart, WFinish, WHasJob
    <3>2. /\ ndepends' = ndepends
          /\ \/ state' = [state EXCEPT ![wjob[w]] = "RUNNING"]
             \/ state' = [state EXCEPT ![wjob[w]] = "DONE"]
      BY <2>2 DEF WStart, WFinish
    <3> QED
      BY <1>1, <3>1, <3>2
  <2>3. CASE WDepDone(w)
    <3>1. PICK r \in Jobs : r = NextDep(w)
      BY <2>3, NextDepType DEF QueueInv
    <3>2. state[r] # "READY"
      BY <2>3, <3>1, NextIsUnserved DEF WDepDone
    <3>3. /\ ndepends' = [ndepends EXCEPT ![r] = @ - 1]
          /\ \/ state' = state
             \/ state' = [state EXCEPT ![r] = "READY"] /\ ndepends[r] = 1
      BY <2>3, <3>1 DEF WDepDone, PushJob, BecomesReady
    <3> QED
      BY <1>0, <3>2, <3>3 DEF ReadyInv
  <2> QED
    BY <1>2, <2>1, <2>2, <2>3 DEF WorkerStep
<1>3. CASE MSpawnFails \/ MInitDone \/ MSubmitLock \/ MWaitCheck \/ MDrop
             \/ MStopLock \/ MJoin \/ MStop \/ MSpurious \/ MQueueFree
             \/ UNCHANGED vars
  BY <1>1, <1>3 DEF MSpawnFails, MInitDone, MSubmitLock, MWaitCheck, MDrop,
     MStopLock, MJoin, MStop, MSpurious, MQueueFree, vars
<1>4. ASSUME NEW i \in Jobs,
             \/ MSubmit(i) \/ MWaitFor(i) \/ MFreeJob(i) \/ MCopyRef(i)
             \/ \E d \in Jobs : MDepAdd(i, d)
      PROVE  ReadyInv'
  BY <1>1, <1>4 DEF MSubmit, MWaitFor, MFreeJob, MDepAdd, MCopyRef
<1>5. ASSUME NEW w \in Workers, WSpurious(w) \/ MSpawn(w)
      PROVE  ReadyInv'
  BY <1>1, <1>5 DEF WSpurious, MSpawn
<1>6. ASSUME NEW i \in Jobs, MCreate(i)
      PROVE  ReadyInv'
  BY <1>1, <1>6 DEF MCreate
<1>7. CASE MDepLink
  <2>1. /\ mjob \in Jobs /\ state[mjob] = "PAUSED" /\ state' = state
        /\ ndepends' = [ndepends EXCEPT ![mjob] = @ + 1]
    BY <1>0, <1>7 DEF MDepLink, Link, MainOnJobs, MHasJob
  <2> QED
    BY <1>0, <2>1 DEF ReadyInv
<1>8. CASE MSubmitJob
  <2>1. mjob \in Jobs /\ ndepends' = ndepends
    BY <1>0, <1>8 DEF MSubmitJob, MHasJob
  <2>2. state' = [state EXCEPT ![mjob] = SubmitsTo(mjob)]
    BY <1>8 DEF MSubmitJob, PushJob, SetState
  <2>3. SubmitsTo(mjob) = "READY" => ndepends[mjob] = 0
    BY DEF SubmitsTo
  <2> QED
    BY <1>1, <2>1, <2>2, <2>3
<1> QED
  BY <1>2, <1>3, <1>4, <1>5, <1>6, <1>7, <1>8
     DEF Next, MCall, MProceed, Terminated

(* thread_running_count is the number of threads that have been created    *)
(* and have not left threadqueue_worker.                                   *)
LEMMA RunningStep ==
  ASSUME QueueInv, RunningInv, [Next]_vars
  PROVE  RunningInv'
<1> USE DEF queueVars, jobVars, wVars, mVars
<1>0. /\ wpc \in [Workers -> WPoints] /\ running = Cardinality(Running)
      /\ IsFiniteSet(Running) /\ Cardinality(Running) \in Nat
      /\ Running \subseteq Workers
  <2>1. Running \subseteq Workers
    BY DEF Running
  <2> QED
    BY <2>1, Parts, WorkersFinite, FS_Subset, FS_CardinalityType DEF RunningInv
<1>1. ASSUME UNCHANGED running,
             \A v \in Workers : wpc'[v] \in {"none", "exit"} <=>
                                  wpc[v] \in {"none", "exit"}
      PROVE  RunningInv'
  <2>1. Running' = Running
    BY <1>1 DEF Running
  <2> QED
    BY <1>0, <1>1, <2>1 DEF RunningInv
<1>2. ASSUME NEW w \in Workers, WorkerStep(w)
      PROVE  RunningInv'
  <2>1. CASE WExit(w)
    <3>1. running' = running - 1 /\ wpc' = [wpc EXCEPT ![w] = "exit"]
          /\ wpc[w] = "loop"
      BY <2>1 DEF WExit, Goto
    <3>2. w \in Running /\ Running' = Running \ {w}
      BY <1>0, <3>1 DEF Running
    <3>3. Cardinality(Running \ {w}) = Cardinality(Running) - 1
      BY <1>0, <3>2, FS_RemoveElement
    <3> QED
      BY <1>0, <3>1, <3>2, <3>3 DEF RunningInv
  <2>2. CASE ~WExit(w)
    <3>1. UNCHANGED running
      BY <1>2, <2>2 DEF WorkerStep, WLock, WWait, WPop, WStart, WEndRun, WRelock,
         WFinish, WDepDone, WDepFree, WDepsDone, WRelease
    <3>2. /\ wpc[w] \notin {"none", "exit"}
          /\ \E x \in WPoints \ {"none", "exit"} : wpc' = [wpc EXCEPT ![w] = x]
      BY <1>2, <2>2 DEF WorkerStep, WLock, WWait, WPop, WStart, WEndRun, WRelock,
         WFinish, WDepDone, WDepFree, WDepsDone, WRelease, Goto, WPoints,
         WHoldsQueue, WHasJob, WHoldsJob
    <3> QED
      BY <1>0, <1>1, <3>1, <3>2
  <2> QED
    BY <2>1, <2>2
<1>3. ASSUME NEW w \in Workers, MSpawn(w)
      PROVE  RunningInv'
  <2>1. running' = running + 1 /\ wpc' = [wpc EXCEPT ![w] = "lock"]
        /\ wpc[w] = "none"
    BY <1>3 DEF MSpawn, Goto
  <2>2. w \notin Running /\ Running' = Running \cup {w}
    BY <1>0, <2>1 DEF Running
  <2>3. Cardinality(Running \cup {w}) = Cardinality(Running) + 1
    BY <1>0, <2>2, FS_AddElement
  <2> QED
    BY <1>0, <2>1, <2>2, <2>3 DEF RunningInv
<1>4. CASE MSpawnFails \/ MInitDone \/ MSubmitLock \/ MWaitCheck \/ MDrop
             \/ MStopLock \/ MJoin \/ MStop \/ MSpurious \/ MQueueFree
             \/ MDepLink \/ MSubmitJob \/ UNCHANGED vars
  BY <1>1, <1>4 DEF MSpawnFails, MInitDone, MSubmitLock, MWaitCheck, MDrop,
     MStopLock, MJoin, MStop, MSpurious, MQueueFree, MDepLink, MSubmitJob, vars
<1>5. ASSUME NEW i \in Jobs,
             \/ MSubmit(i) \/ MWaitFor(i) \/ MFreeJob(i) \/ MCopyRef(i)
             \/ MCreate(i) \/ \E d \in Jobs : MDepAdd(i, d)
      PROVE  RunningInv'
  BY <1>1, <1>5 DEF MSubmit, MWaitFor, MFreeJob, MDepAdd, MCopyRef, MCreate
<1>6. ASSUME NEW w \in Workers, WSpurious(w)
      PROVE  RunningInv'
  BY <1>1, <1>6 DEF WSpurious
<1> QED
  BY <1>2, <1>3, <1>4, <1>5, <1>6 DEF Next, MCall, MProceed, Terminated

LEMMA InvAssertsHold == QueueInv /\ ReadyInv /\ RunningInv => AssertsHold
<1> SUFFICES ASSUME QueueInv, ReadyInv, RunningInv PROVE AssertsHold
  OBVIOUS
<1>1. WorkersOnJobs /\ QueueReady /\ Closing /\ NDependsExact
  BY DEF QueueInv, ControlInv, CountInv
<1>2. \A w \in Workers :
        /\ wpc[w] = "start" => state[wjob[w]] = "READY"
        /\ wpc[w] = "finish" => state[wjob[w]] = "RUNNING"
  BY <1>1 DEF WorkersOnJobs, Executing
<1>3. ASSUME NEW w \in Workers,
             wpc[w] = "dep", served[wjob[w]] < Len(rdepends[wjob[w]])
      PROVE  state[NextDep(w)] \in {"WAITING", "PAUSED"} /\ ndepends[NextDep(w)] > 0
  <2>1. ~Dismantling
    BY <1>1, <1>3 DEF Closing
  <2> QED
    BY <1>1, <1>3, <2>1, NextIsUnserved DEF NDependsExact
<1>4. \A k \in DOMAIN queue : queue[k] \in Jobs /\ state[queue[k]] = "READY"
  BY <1>1, Parts DEF QueueReady
<1>5. \A k \in DOMAIN queue : ndepends[queue[k]] = 0
  BY <1>4 DEF ReadyInv
<1>6. ASSUME mpc \in {"stopped", "flush", "freed"}
      PROVE  running = 0
  <2>1. \A w \in Workers : wpc[w] \in {"none", "exit"}
    BY <1>1, <1>6 DEF Closing, Dismantling
  <2>2. Running = {}
    BY <2>1 DEF Running
  <2> QED
    BY <2>2, FS_EmptySet DEF RunningInv
<1> QED
  BY <1>2, <1>3, <1>5, <1>6 DEF AssertsHold

(* The assertions of threadqueue_worker, threadqueue_push_job and          *)
(* kvz_threadqueue_stop hold, for any numbers of jobs and threads: a       *)
(* dependency is never completed for a job that is already in the queue,   *)
(* and the threads that were joined are all that were counted.             *)
THEOREM AssertsHoldCorrect == Spec => []AssertsHold
<1>1. Init => ReadyInv
  BY DEF Init, ReadyInv
<1>2. Init => RunningInv
  <2>1. Init => Running = {} /\ running = 0
    BY DEF Init, Running
  <2> QED
    BY <2>1, FS_EmptySet DEF RunningInv
<1>3. QueueInv /\ ReadyInv /\ RunningInv /\ [Next]_vars
        => ReadyInv' /\ RunningInv'
  BY ReadyStep, RunningStep
<1> QED
  BY <1>1, <1>2, <1>3, QueueInvariant, InvAssertsHold, PTL DEF Spec

-----------------------------------------------------------------------------
(* The thread queue implements JobScheduler.                               *)

LEMMA Phases ==
  ASSUME NEW j \in Jobs
  PROVE  /\ state[j] = "NONE" => Phase(j) = "none"
         /\ state[j] = "PAUSED" => Phase(j) = "created"
         /\ state[j] \in {"WAITING", "READY"} => Phase(j) = "submitted"
         /\ state[j] = "RUNNING" => Phase(j) = "running"
         /\ state[j] = "DONE" => Phase(j) = "done"
BY DEF Phase

LEMMA PhasesNext ==
  ASSUME NEW j \in Jobs
  PROVE  /\ state'[j] = "NONE" => Phase(j)' = "none"
         /\ state'[j] = "PAUSED" => Phase(j)' = "created"
         /\ state'[j] \in {"WAITING", "READY"} => Phase(j)' = "submitted"
         /\ state'[j] = "RUNNING" => Phase(j)' = "running"
         /\ state'[j] = "DONE" => Phase(j)' = "done"
BY DEF Phase

(* A step that changes the state of one job, for the scheduler.            *)
LEMMA PhaseMoves ==
  ASSUME NEW i \in Jobs, state \in [Jobs -> JobStates],
         NEW s, state' = [state EXCEPT ![i] = s]
  PROVE  /\ phase[i] = Phase(i)
         /\ phase' = [phase EXCEPT ![i] = Phase(i)']
<1>1. \A j \in Jobs : j # i => Phase(j)' = Phase(j)
  <2>1. \A j \in Jobs : j # i => state'[j] = state[j]
    OBVIOUS
  <2> QED
    BY <2>1 DEF Phase
<1> QED
  BY <1>1 DEF phase

LEMMA PhaseStays ==
  ASSUME UNCHANGED <<state, deps>>
  PROVE  UNCHANGED Scheduler!vars
BY DEF Scheduler!vars, phase, Phase

(* A job that is started, or executed at once, has no dependency left.     *)
LEMMA NoEntryLeft ==
  ASSUME QueueInv, NEW j \in Jobs, ~Dismantling,
         state[j] = "READY" \/ NoThreads
  PROVE  \A d \in deps[j] : d \in Jobs /\ state[d] = "DONE"
<1>1. /\ DepsKept /\ Entries /\ InlineOnly /\ LocksOwned
      /\ deps \in [Jobs -> SUBSET Jobs]
  BY Parts DEF QueueInv, CountInv, ControlInv
<1> SUFFICES ASSUME NEW d \in deps[j], state[d] # "DONE" PROVE FALSE
  BY <1>1
<1>2. d \in Jobs
  BY <1>1
<1>3. PICK k \in DOMAIN rdepends[d] : Unserved(d, k, j)
  BY <1>1 DEF DepsKept
<1>4. state[j] # "READY"
  BY <1>1, <1>2, <1>3 DEF Entries
<1>5. NoThreads
  BY <1>4
<1>6. state[d] \notin Unfinished /\ jlock[d] \notin Workers
  BY <1>1, <1>2, <1>5 DEF InlineOnly, LocksOwned, NoThreads, WHoldsJob
<1>7. rdepends[d] = <<>>
  BY <1>1, <1>2, <1>6 DEF Entries
<1> QED
  BY <1>3, <1>7

LEMMA SchedulerWorker ==
  ASSUME QueueInv, NEW w \in Workers, WorkerStep(w)
  PROVE  Scheduler!Next \/ UNCHANGED Scheduler!vars
<1> USE DEF queueVars, jobVars, wVars, mVars
<1>0. /\ state \in [Jobs -> JobStates] /\ WorkersOnJobs /\ Closing
      /\ \A v \in Workers : wpc[v] \in WHasJob => wjob[v] \in Jobs
  BY Parts DEF QueueInv, ControlInv
<1>1. CASE \/ WLock(w) \/ WWait(w) \/ WExit(w) \/ WPop(w) \/ WEndRun(w)
           \/ WRelock(w) \/ WDepFree(w) \/ WDepsDone(w) \/ WRelease(w)
  BY <1>1, PhaseStays DEF WLock, WWait, WExit, WPop, WEndRun, WRelock, WDepFree,
     WDepsDone, WRelease
<1>2. CASE WStart(w)
  <2>1. PICK j \in Jobs : j = wjob[w]
    BY <1>0, <1>2 DEF WStart, WHasJob
  <2>2. /\ state[j] = "READY" /\ state' = [state EXCEPT ![j] = "RUNNING"]
        /\ deps' = deps /\ ~Dismantling
    BY <1>0, <1>2, <2>1 DEF WStart, WorkersOnJobs, Closing
  <2>3. \A d \in deps[j] : phase[d] = "done"
    BY <2>2, NoEntryLeft, Phases DEF phase
  <2>4. phase[j] = "submitted" /\ phase' = [phase EXCEPT ![j] = "running"]
    BY <1>0, <2>2, PhaseMoves, Phases, PhasesNext
  <2>5. Scheduler!Start(j)
    BY <2>2, <2>3, <2>4 DEF Scheduler!Start, Scheduler!DepsDone, Scheduler!Move
  <2> QED
    BY <2>5 DEF Scheduler!Next
<1>3. CASE WFinish(w)
  <2>1. PICK j \in Jobs : j = wjob[w]
    BY <1>0, <1>3 DEF WFinish, WHasJob
  <2>2. /\ state[j] = "RUNNING" /\ state' = [state EXCEPT ![j] = "DONE"]
        /\ deps' = deps
    BY <1>0, <1>3, <2>1 DEF WFinish, WorkersOnJobs, Executing
  <2>3. phase[j] = "running" /\ phase' = [phase EXCEPT ![j] = "done"]
    BY <1>0, <2>2, PhaseMoves, Phases, PhasesNext
  <2>4. Scheduler!Finish(j)
    BY <2>2, <2>3 DEF Scheduler!Finish, Scheduler!Move
  <2> QED
    BY <2>4 DEF Scheduler!Next
<1>4. CASE WDepDone(w)
  <2>1. PICK r \in Jobs : r = NextDep(w)
    BY <1>4, NextDepType DEF QueueInv
  <2>2. CASE BecomesReady(r)
    <3>1. /\ state[r] = "WAITING" /\ state' = [state EXCEPT ![r] = "READY"]
          /\ deps' = deps
      BY <1>4, <2>1, <2>2 DEF WDepDone, PushJob, BecomesReady
    <3>2. phase[r] = "submitted" /\ phase' = [phase EXCEPT ![r] = "submitted"]
      BY <1>0, <3>1, PhaseMoves, Phases, PhasesNext
    <3>3. phase' = phase
      BY <3>2 DEF phase
    <3> QED
      BY <3>1, <3>3 DEF Scheduler!vars
  <2>3. CASE ~BecomesReady(r)
    BY <1>4, <2>1, <2>3, PhaseStays DEF WDepDone
  <2> QED
    BY <2>2, <2>3
<1> QED
  BY <1>1, <1>2, <1>3, <1>4 DEF WorkerStep

(* Every step of the thread queue is one of the scheduler, or none.        *)
LEMMA SchedulerStep ==
  ASSUME QueueInv, [Next]_vars
  PROVE  [Scheduler!Next]_Scheduler!vars
<1> USE DEF queueVars, jobVars, wVars, mVars
<1> SUFFICES Scheduler!Next \/ UNCHANGED Scheduler!vars
  OBVIOUS
<1>0. /\ state \in [Jobs -> JobStates] /\ MainOnJobs /\ Closing
      /\ mpc \in MHasJob => mjob \in Jobs
      /\ mpc = "dep" => mdep \in Jobs
  BY Parts DEF QueueInv, ControlInv
<1>1. CASE MSpawnFails \/ MInitDone \/ MSubmitLock \/ MWaitCheck \/ MDrop
             \/ MStopLock \/ MJoin \/ MStop \/ MSpurious \/ MQueueFree
             \/ UNCHANGED vars
  BY <1>1, PhaseStays DEF MSpawnFails, MInitDone, MSubmitLock, MWaitCheck, MDrop,
     MStopLock, MJoin, MStop, MSpurious, MQueueFree, vars
<1>2. ASSUME NEW j \in Jobs,
             MSubmit(j) \/ MWaitFor(j) \/ MFreeJob(j) \/ MCopyRef(j)
      PROVE  UNCHANGED Scheduler!vars
  BY <1>2, PhaseStays DEF MSubmit, MWaitFor, MFreeJob, MCopyRef
<1>3. ASSUME NEW w \in Workers, WSpurious(w) \/ MSpawn(w)
      PROVE  UNCHANGED Scheduler!vars
  BY <1>3, PhaseStays DEF WSpurious, MSpawn
<1>4. ASSUME NEW j \in Jobs, MCreate(j)
      PROVE  Scheduler!Next
  <2>1. /\ state[j] = "NONE" /\ state' = [state EXCEPT ![j] = "PAUSED"]
        /\ deps' = deps
    BY <1>4 DEF MCreate
  <2>2. phase[j] = "none" /\ phase' = [phase EXCEPT ![j] = "created"]
    BY <1>0, <2>1, PhaseMoves, Phases, PhasesNext
  <2>3. Scheduler!Create(j)
    BY <2>1, <2>2 DEF Scheduler!Create, Scheduler!Move
  <2> QED
    BY <2>3 DEF Scheduler!Next
<1>5. ASSUME NEW j \in Jobs, NEW d \in Jobs,
             state[j] = "PAUSED", state[d] \in Submitted,
             state' = state, deps' = [deps EXCEPT ![j] = @ \cup {d}]
      PROVE  Scheduler!Next
  <2>1. phase[j] = "created" /\ phase[d] \in {"submitted", "running", "done"}
    BY <1>5, Phases DEF phase, Submitted
  <2>2. phase' = phase
    BY <1>5 DEF phase, Phase
  <2>3. Scheduler!AddDep(j, d)
    BY <1>5, <2>1, <2>2 DEF Scheduler!AddDep
  <2> QED
    BY <2>3 DEF Scheduler!Next
<1>6. ASSUME NEW j \in Jobs, NEW d \in Jobs, MDepAdd(j, d)
      PROVE  Scheduler!Next \/ UNCHANGED Scheduler!vars
  <2>1. CASE NothingToDo(d)
    BY <1>5, <1>6, <2>1 DEF MDepAdd
  <2>2. CASE ~NothingToDo(d)
    BY <1>6, <2>2, PhaseStays DEF MDepAdd
  <2> QED
    BY <2>1, <2>2
<1>7. CASE MDepLink
  <2>1. PICK j \in Jobs, d \in Jobs : j = mjob /\ d = mdep
    BY <1>0, <1>7 DEF MDepLink, MHasJob
  <2>2. state[j] = "PAUSED" /\ state[d] \in Submitted
    BY <1>0, <1>7, <2>1 DEF MDepLink, MainOnJobs, Unfinished, Submitted
  <2>3. state' = state /\ deps' = [deps EXCEPT ![j] = @ \cup {d}]
    BY <1>7, <2>1 DEF MDepLink
  <2> QED
    BY <1>5, <2>2, <2>3
<1>8. CASE MSubmitJob
  <2>1. PICK j \in Jobs : j = mjob
    BY <1>0, <1>8 DEF MSubmitJob, MHasJob
  <2>2. /\ state[j] = "PAUSED" /\ state' = [state EXCEPT ![j] = SubmitsTo(j)]
        /\ deps' = deps /\ ~Dismantling
    BY <1>0, <1>8, <2>1 DEF MSubmitJob, MainOnJobs, PushJob, SetState, Closing,
       Dismantling
  <2>3. phase[j] = "created"
    BY <1>0, <2>2, PhaseMoves, Phases
  <2>4. CASE NoThreads
    <3>1. \A d \in deps[j] : phase[d] = "done"
      BY <2>2, <2>4, NoEntryLeft, Phases DEF phase
    <3>2. SubmitsTo(j) = "DONE"
      BY <2>4 DEF SubmitsTo
    <3>3. phase' = [phase EXCEPT ![j] = "done"]
      <4>1. state'[j] = "DONE"
        BY <1>0, <2>2, <3>2
      <4> QED
        BY <1>0, <2>2, <4>1, PhaseMoves, PhasesNext
    <3>4. Scheduler!RunInline(j)
      BY <2>2, <2>3, <3>1, <3>3
         DEF Scheduler!RunInline, Scheduler!DepsDone, Scheduler!Move
    <3> QED
      BY <3>4 DEF Scheduler!Next
  <2>5. CASE ~NoThreads
    <3>1. SubmitsTo(j) \in {"READY", "WAITING"}
      BY <2>5 DEF SubmitsTo
    <3>2. phase' = [phase EXCEPT ![j] = "submitted"]
      <4>1. state'[j] \in {"READY", "WAITING"}
        BY <1>0, <2>2, <3>1
      <4> QED
        BY <1>0, <2>2, <4>1, PhaseMoves, PhasesNext
    <3>3. Scheduler!Submit(j)
      BY <2>2, <2>3, <3>2 DEF Scheduler!Submit, Scheduler!Move
    <3> QED
      BY <3>3 DEF Scheduler!Next
  <2> QED
    BY <2>4, <2>5
<1> QED
  BY <1>1, <1>2, <1>3, <1>4, <1>6, <1>7, <1>8, SchedulerWorker
     DEF Next, MCall, MProceed, Terminated

(* What threadqueue.c promises its callers, for any numbers of jobs and    *)
(* threads and any order of dep_add, submit and the completion of the      *)
(* dependencies: no job is executed twice, or before all jobs that it was  *)
(* made to depend on are done.                                             *)
THEOREM QueueIsScheduler == Spec => Implements
<1>1. Init => Scheduler!Init
  <2> SUFFICES ASSUME Init PROVE Scheduler!Init
    OBVIOUS
  <2>1. \A j \in Jobs : Phase(j) = "none"
    BY Phases DEF Init
  <2> QED
    BY <2>1 DEF Init, Scheduler!Init, phase
<1>2. QueueInv /\ [Next]_vars => [Scheduler!Next]_Scheduler!vars
  BY SchedulerStep
<1> QED
  BY <1>1, <1>2, QueueInvariant, PTL DEF Spec, Implements, Scheduler!Spec

(* In every state of the abstract scheduler the dependencies of a job that *)
(* runs or has run are done, for any set of jobs.                          *)
SchedulerInv == Scheduler!TypeOK /\ Scheduler!DepsBeforeRun

LEMMA SchedulerKeepsOrder == Scheduler!Spec => []Scheduler!DepsBeforeRun
<1>1. Scheduler!Init => SchedulerInv
  BY DEF Scheduler!Init, SchedulerInv, Scheduler!TypeOK, Scheduler!Phases,
         Scheduler!DepsBeforeRun
<1>2. ASSUME SchedulerInv, [Scheduler!Next]_Scheduler!vars
      PROVE  SchedulerInv'
  <2>0. /\ phase \in [Jobs -> Scheduler!Phases] /\ deps \in [Jobs -> SUBSET Jobs]
        /\ Scheduler!DepsBeforeRun
    BY <1>2 DEF SchedulerInv, Scheduler!TypeOK
  <2>1. ASSUME NEW j \in Jobs, NEW from \in Scheduler!Phases,
               NEW to \in Scheduler!Phases, from # "done",
               to \in {"running", "done"} =>
                 from = "running" \/ Scheduler!DepsDone(j),
               Scheduler!Move(j, from, to)
        PROVE  SchedulerInv'
    <3>1. /\ phase[j] = from /\ deps' = deps
          /\ phase' = [phase EXCEPT ![j] = to]
      BY <2>1 DEF Scheduler!Move
    <3>2. phase' \in [Jobs -> Scheduler!Phases]
      BY <2>0, <2>1, <3>1
    <3>3. \A d \in Jobs : phase[d] = "done" => phase'[d] = "done"
      BY <2>0, <2>1, <3>1
    <3>4. ASSUME NEW i \in Jobs, phase'[i] \in {"running", "done"},
                 NEW d \in deps[i]
          PROVE  phase[d] = "done"
      <4>1. phase[i] \in {"running", "done"} \/ Scheduler!DepsDone(i)
        BY <2>0, <2>1, <3>1, <3>4
      <4> QED
        BY <2>0, <3>4, <4>1 DEF Scheduler!DepsBeforeRun, Scheduler!DepsDone
    <3>5. \A i \in Jobs : deps[i] \subseteq Jobs
      BY <2>0
    <3>6. Scheduler!DepsBeforeRun'
      BY <3>1, <3>3, <3>4, <3>5 DEF Scheduler!DepsBeforeRun
    <3> QED
      BY <2>0, <3>1, <3>2, <3>6 DEF SchedulerInv, Scheduler!TypeOK
  <2>2. ASSUME NEW j \in Jobs, NEW d \in Jobs, Scheduler!AddDep(j, d)
        PROVE  SchedulerInv'
    <3>1. /\ phase[j] = "created" /\ phase' = phase
          /\ deps' = [deps EXCEPT ![j] = @ \cup {d}]
      BY <2>2 DEF Scheduler!AddDep
    <3>2. deps[j] \cup {d} \in SUBSET Jobs
      BY <2>0
    <3>3. deps' \in [Jobs -> SUBSET Jobs]
      BY <2>0, <3>1, <3>2
    <3>4. \A i \in Jobs \ {j} : deps'[i] = deps[i]
      BY <2>0, <3>1
    <3>5. Scheduler!DepsBeforeRun'
      BY <2>0, <3>1, <3>4 DEF Scheduler!DepsBeforeRun
    <3> QED
      BY <2>0, <3>1, <3>3, <3>5 DEF SchedulerInv, Scheduler!TypeOK
  <2>3. ASSUME NEW j \in Jobs,
               \/ Scheduler!Create(j) \/ Scheduler!Submit(j) \/ Scheduler!Start(j)
               \/ Scheduler!Finish(j) \/ Scheduler!RunInline(j)
        PROVE  SchedulerInv'
    BY <2>1, <2>3 DEF Scheduler!Create, Scheduler!Submit, Scheduler!Start,
                      Scheduler!Finish, Scheduler!RunInline, Scheduler!Phases
  <2>4. CASE UNCHANGED Scheduler!vars
    BY <2>0, <2>4 DEF Scheduler!vars, SchedulerInv, Scheduler!TypeOK, Scheduler!DepsBeforeRun
  <2> QED
    BY <1>2, <2>2, <2>3, <2>4 DEF Scheduler!Next
<1>3. SchedulerInv => Scheduler!DepsBeforeRun
  BY DEF SchedulerInv
<1> QED
  BY <1>1, <1>2, <1>3, PTL DEF Scheduler!Spec

(* No worker executes a job, and no submitter executes one itself, before  *)
(* the jobs that it was made to depend on are done: the reason why the     *)
(* encoder may read the pixels of a reference LCU.                         *)
THEOREM QueueRunsInOrder == Spec => []Scheduler!DepsBeforeRun
BY QueueIsScheduler, SchedulerKeepsOrder DEF Implements

-----------------------------------------------------------------------------
(* Waking the workers.                                                     *)

LEMMA AwakeFinite == IsFiniteSet(Awake) /\ Cardinality(Awake) \in Nat
<1>1. Awake \in SUBSET Workers
  BY DEF Awake
<1> QED
  BY <1>1, WorkersFinite, FS_Subset, FS_CardinalityType

LEMMA AwakeFiniteNext == IsFiniteSet(Awake') /\ Cardinality(Awake') \in Nat
<1>1. Awake' \in SUBSET Workers
  BY DEF Awake
<1> QED
  BY <1>1, WorkersFinite, FS_Subset, FS_CardinalityType

(* Only the owner of the queue's lock has pushed jobs without a signal.    *)
LEMMA PendingIs ==
  ASSUME QueueInv, WakeInv
  PROVE  /\ Pending \in Nat
         /\ qlock \notin Workers => Pending = 0
         /\ \A w \in Workers : wpc[w] \in WHoldsQueue =>
              qlock = w /\ Pending = numNew[w]
         /\ \A w \in Workers : wpc[w] \notin Completing => numNew[w] = 0
<1>1. numNew \in [Workers -> Nat]
  BY DEF QueueInv, TypeOK, WorkerTypeOK
<1>2. \A w \in Workers : wpc[w] \in WHoldsQueue => qlock = w
  BY DEF QueueInv, ControlInv, LocksOwned
<1> QED
  BY <1>1, <1>2 DEF Pending, WakeInv

(* A step that does not touch the queue, and puts nobody to sleep.         *)
LEMMA WakeKeep ==
  ASSUME QueueInv, WakeInv, UNCHANGED <<stop, queue, waitset>>,
         \A w \in Workers : numNew'[w] > 0 => wpc'[w] \in Completing,
         \A w \in waitset : wpc'[w] = "wait",
         Pending' = Pending, Awake \subseteq Awake'
  PROVE  WakeInv'
<1>1. /\ Cardinality(Awake) <= Cardinality(Awake')
      /\ Cardinality(Awake) \in Nat /\ Cardinality(Awake') \in Nat
  BY AwakeFinite, AwakeFiniteNext, FS_Subset
<1>2. Len(queue) \in Nat /\ Pending \in Nat
  BY Parts, PendingIs
<1> QED
  BY <1>1, <1>2 DEF WakeInv

LEMMA WakeWorker ==
  ASSUME QueueInv, WakeInv, TypeOK', NEW w \in Workers, WorkerStep(w)
  PROVE  WakeInv'
<1> USE DEF queueVars, jobVars, wVars, mVars
<1>0. /\ wpc \in [Workers -> WPoints] /\ numNew \in [Workers -> Nat]
      /\ queue \in Seq(Jobs) /\ Len(queue) \in Nat
      /\ waitset \subseteq Workers /\ Nobody \notin Workers
      /\ \A v \in Workers : numNew[v] > 0 => wpc[v] \in Completing
      /\ \A v \in waitset : wpc[v] = "wait"
      /\ qlock \in Workers \cup {Main, Nobody}
      /\ Pending \in Nat /\ Pending <= Len(queue)
  <2>1. /\ wpc \in [Workers -> WPoints] /\ numNew \in [Workers -> Nat]
        /\ queue \in Seq(Jobs) /\ waitset \subseteq Workers
        /\ Nobody \notin Workers /\ qlock \in Workers \cup {Main, Nobody}
    BY ThreadsDistinct DEF QueueInv, TypeOK, WorkerTypeOK, QueueTypeOK, Threads
  <2>2. Len(queue) \in Nat
    BY <2>1
  <2> QED
    BY <2>1, <2>2, PendingIs DEF WakeInv
<1>1. CASE WLock(w)
  <2>1. /\ UNCHANGED <<stop, queue, waitset, numNew>>
        /\ wpc' = [wpc EXCEPT ![w] = "loop"] /\ qlock = Nobody /\ qlock' = w
        /\ wpc[w] = "lock" \/ (wpc[w] = "wait" /\ w \notin waitset)
    BY <1>1 DEF WLock, Goto
  <2>2. numNew[w] = 0 /\ wpc[w] # "loop"
    BY <2>1, PendingIs DEF Completing
  <2>3. Pending' = Pending
    BY <1>0, <2>1, <2>2 DEF Pending
  <2>4. w \notin waitset
    BY <1>0, <2>1
  <2>5. Awake \subseteq Awake'
    BY <1>0, <2>1, <2>4 DEF Awake
  <2>6. /\ \A v \in Workers : numNew'[v] > 0 => wpc'[v] \in Completing
        /\ \A v \in waitset : wpc'[v] = "wait"
    BY <1>0, <2>1, <2>2, <2>4
  <2> QED
    BY <2>1, <2>3, <2>5, <2>6, WakeKeep
<1>2. CASE WWait(w)
  <2>1. /\ UNCHANGED <<stop, queue, numNew>> /\ ~stop /\ queue = <<>>
        /\ wpc' = [wpc EXCEPT ![w] = "wait"] /\ qlock' = Nobody
        /\ waitset' = waitset \cup {w} /\ wpc[w] = "loop"
    BY <1>2 DEF WWait, Goto
  <2>2. Pending' = 0 /\ Len(queue') = 0
    BY <1>0, <2>1 DEF Pending
  <2>3. numNew[w] = 0
    BY <2>1, PendingIs DEF Completing
  <2>4. Cardinality(Awake') \in Nat
    BY AwakeFiniteNext
  <2>5. /\ \A v \in Workers : numNew'[v] > 0 => wpc'[v] \in Completing
        /\ \A v \in waitset' : wpc'[v] = "wait"
    BY <1>0, <2>1, <2>3
  <2> QED
    BY <2>1, <2>2, <2>4, <2>5 DEF WakeInv
<1>3. CASE WExit(w)
  <2>1. /\ UNCHANGED <<stop, queue, waitset, numNew>> /\ stop
        /\ wpc' = [wpc EXCEPT ![w] = "exit"] /\ qlock' = Nobody
        /\ wpc[w] = "loop"
    BY <1>3 DEF WExit, Goto
  <2>2. Pending' = 0 /\ waitset = {}
    BY <1>0, <2>1 DEF Pending, WakeInv
  <2>3. numNew[w] = 0
    BY <2>1, PendingIs DEF Completing
  <2> QED
    BY <1>0, <2>1, <2>2, <2>3 DEF WakeInv
<1>4. CASE WPop(w)
  <2>1. /\ UNCHANGED <<stop, waitset, numNew, qlock>> /\ ~stop
        /\ wpc' = [wpc EXCEPT ![w] = "start"] /\ queue' = Tail(queue)
        /\ wpc[w] = "loop" /\ queue # <<>>
    BY <1>4 DEF WPop, Goto
  <2>2. Len(queue') = Len(queue) - 1 /\ Len(queue) > 0
    BY <1>0, <2>1
  <2>3. numNew[w] = 0 /\ Pending = 0 /\ Pending' = 0
    <3>1. numNew[w] = 0 /\ qlock = w
      BY <2>1, PendingIs DEF Completing, WHoldsQueue
    <3> QED
      BY <2>1, <3>1 DEF Pending
  <2>4. w \notin waitset
    BY <1>0, <2>1
  <2>5. w \in Awake /\ Awake' = Awake \ {w}
    BY <1>0, <2>1, <2>4 DEF Awake
  <2>6. Cardinality(Awake') = Cardinality(Awake) - 1 /\ Cardinality(Awake) \in Nat
    BY <2>5, AwakeFinite, FS_RemoveElement
  <2>7. waitset # {} => Len(queue) <= Cardinality(Awake) + Pending
    BY DEF WakeInv
  <2>8. /\ \A v \in Workers : numNew'[v] > 0 => wpc'[v] \in Completing
        /\ \A v \in waitset' : wpc'[v] = "wait"
    BY <1>0, <2>1, <2>3, <2>4
  <2>9. waitset' # {} => Len(queue') <= Cardinality(Awake') + Pending'
    BY <1>0, <2>1, <2>2, <2>3, <2>6, <2>7
  <2>10. Pending' <= Len(queue') /\ (stop' => waitset' = {})
    BY <1>0, <2>1, <2>2, <2>3
  <2> QED
    BY <2>8, <2>9, <2>10 DEF WakeInv
<1>5. CASE WStart(w) \/ WEndRun(w) \/ WRelock(w) \/ WFinish(w)
  <2>1. /\ UNCHANGED <<stop, queue, waitset>>
        /\ numNew' = numNew \/ numNew' = [numNew EXCEPT ![w] = 0]
        /\ wpc[w] \in {"start", "run", "relock", "finish"}
        /\ \E x \in {"run", "relock", "finish", "dep"} :
             wpc' = [wpc EXCEPT ![w] = x]
        /\ wpc[w] = "relock" \/ wpc[w] = "run" \/ qlock = w
        /\ qlock' \in {qlock, w, Nobody}
        /\ wpc[w] = "run" => qlock' = qlock
        /\ wpc[w] = "relock" => qlock = Nobody
    BY <1>5, PendingIs DEF WStart, WEndRun, WRelock, WFinish, Goto, WHoldsQueue
  <2>2. numNew[w] = 0 /\ numNew' = numNew
    <3>1. numNew[w] = 0
      BY <2>1, PendingIs DEF Completing
    <3> QED
      BY <1>0, <2>1, <3>1
  <2>3. Pending' = Pending
    BY <1>0, <2>1, <2>2 DEF Pending
  <2>4. Awake \subseteq Awake'
    BY <1>0, <2>1 DEF Awake
  <2>5. /\ \A v \in Workers : numNew'[v] > 0 => wpc'[v] \in Completing
        /\ \A v \in waitset : wpc'[v] = "wait"
    BY <1>0, <2>1, <2>2 DEF Completing
  <2> QED
    BY <2>1, <2>3, <2>4, <2>5, WakeKeep
<1>6. CASE WDepDone(w)
  <2>1. /\ UNCHANGED <<stop, waitset, qlock>>
        /\ wpc' = [wpc EXCEPT ![w] = "depfree"] /\ wpc[w] = "dep"
        /\ \/ UNCHANGED <<queue, numNew>>
           \/ /\ queue' = Append(queue, NextDep(w))
              /\ numNew' = [numNew EXCEPT ![w] = @ + 1]
    BY <1>6 DEF WDepDone, PushJob, Goto
  <2>2. qlock = w /\ NextDep(w) \in Jobs /\ Pending = numNew[w]
    BY <1>6, <2>1, PendingIs, NextDepType DEF WHoldsQueue, QueueInv
  <2>3. Pending' = numNew'[w]
    BY <2>1, <2>2 DEF Pending
  <2>4. Awake' = Awake
    BY <1>0, <2>1 DEF Awake
  <2>5. /\ \A v \in Workers : numNew'[v] > 0 => wpc'[v] \in Completing
        /\ \A v \in waitset' : wpc'[v] = "wait"
    BY <1>0, <2>1 DEF Completing
  <2>6. CASE UNCHANGED <<queue, numNew>>
    <3>1. Pending' = Pending
      BY <2>2, <2>3, <2>6
    <3> QED
      BY <2>1, <2>4, <2>5, <2>6, <3>1, WakeKeep
  <2>7. CASE /\ queue' = Append(queue, NextDep(w))
             /\ numNew' = [numNew EXCEPT ![w] = @ + 1]
    <3>1. Len(queue') = Len(queue) + 1 /\ Pending' = Pending + 1
      BY <1>0, <2>2, <2>3, <2>7
    <3>2. /\ waitset # {} => Len(queue) <= Cardinality(Awake) + Pending
          /\ stop => waitset = {}
          /\ Cardinality(Awake) \in Nat
      BY AwakeFinite DEF WakeInv
    <3>3. waitset' # {} => Len(queue') <= Cardinality(Awake') + Pending'
      <4>1. Cardinality(Awake') = Cardinality(Awake) /\ waitset' = waitset
        BY <2>1, <2>4
      <4>2. Len(queue) \in Nat /\ Pending \in Nat
        BY <1>0
      <4> QED
        BY <3>1, <3>2, <4>1, <4>2
    <3>4. Pending' <= Len(queue')
      BY <1>0, <3>1
    <3> QED
      BY <2>1, <2>5, <3>2, <3>3, <3>4 DEF WakeInv
  <2> QED
    BY <2>1, <2>6, <2>7
<1>7. CASE WDepFree(w) \/ WDepsDone(w)
  <2>1. /\ UNCHANGED <<stop, queue, waitset, qlock, numNew>>
        /\ wpc[w] \in {"dep", "depfree"}
        /\ \E x \in {"dep", "release"} : wpc' = [wpc EXCEPT ![w] = x]
    BY <1>7 DEF WDepFree, WDepsDone, Goto
  <2>2. Pending' = Pending
    BY <2>1 DEF Pending
  <2>3. Awake \subseteq Awake'
    BY <1>0, <2>1 DEF Awake
  <2>4. /\ \A v \in Workers : numNew'[v] > 0 => wpc'[v] \in Completing
        /\ \A v \in waitset : wpc'[v] = "wait"
    BY <1>0, <2>1 DEF Completing
  <2> QED
    BY <2>1, <2>2, <2>3, <2>4, WakeKeep
<1>8. CASE WRelease(w)
  <2>1. /\ UNCHANGED <<stop, queue, qlock>> /\ SignalAvailable(ThreadsToWake(w))
        /\ wpc' = [wpc EXCEPT ![w] = "loop"] /\ wpc[w] = "release"
        /\ numNew' = [numNew EXCEPT ![w] = 0]
    BY <1>8 DEF WRelease, Goto
  <2>2. qlock = w /\ Pending = numNew[w] /\ Pending' = 0
    <3>1. qlock = w /\ Pending = numNew[w]
      BY <2>1, PendingIs DEF WHoldsQueue
    <3> QED
      BY <1>0, <2>1, <3>1 DEF Pending
  <2>3. PICK S \in SUBSET waitset :
          /\ waitset' = waitset \ S
          /\ Cardinality(S) = IF ThreadsToWake(w) < Cardinality(waitset)
                                THEN ThreadsToWake(w) ELSE Cardinality(waitset)
    BY <2>1 DEF SignalAvailable
  <2>4. w \notin waitset /\ w \notin Awake
    BY <1>0, <2>1 DEF Awake
  <2>5. Awake' = (Awake \cup {w}) \cup S
    BY <1>0, <2>1, <2>3, <2>4 DEF Awake
  <2>6. /\ Cardinality(Awake') = Cardinality(Awake) + 1 + Cardinality(S)
        /\ Cardinality(S) \in Nat /\ Cardinality(Awake) \in Nat
    <3>1. IsFiniteSet(S) /\ Cardinality(S) \in Nat
      BY <1>0, <2>3, WorkersFinite, FS_Subset, FS_CardinalityType
    <3>2. /\ IsFiniteSet(Awake \cup {w}) /\ Cardinality(Awake) \in Nat
          /\ Cardinality(Awake \cup {w}) = Cardinality(Awake) + 1
      BY <2>4, AwakeFinite, FS_AddElement
    <3>3. (Awake \cup {w}) \cap S = {}
      BY <2>3, <2>4 DEF Awake
    <3>4. Cardinality(Awake') = Cardinality(Awake \cup {w}) + Cardinality(S)
      BY <2>5, <3>1, <3>2, <3>3, CountDisjoint
    <3> QED
      BY <3>1, <3>2, <3>4
  <2>7. waitset' # {} => Cardinality(S) = ThreadsToWake(w)
    <3>1. IsFiniteSet(waitset)
      BY <1>0, WorkersFinite, FS_Subset
    <3>2. Cardinality(S) = Cardinality(waitset) => waitset = S
      BY <3>1, FS_Subset
    <3> QED
      BY <2>3, <3>2
  <2>8. ThreadsToWake(w) + 1 >= Pending
    BY <1>0, <2>2 DEF ThreadsToWake
  <2>9. /\ waitset # {} => Len(queue) <= Cardinality(Awake) + Pending
        /\ stop => waitset = {}
    BY DEF WakeInv
  <2>10. waitset' # {} => Len(queue') <= Cardinality(Awake') + Pending'
    <3> SUFFICES ASSUME waitset' # {}
                 PROVE  Len(queue) <= Cardinality(Awake') + 0
      BY <2>1, <2>2
    <3>1. /\ Len(queue) <= Cardinality(Awake) + Pending
          /\ Cardinality(S) + 1 >= Pending
      BY <2>3, <2>7, <2>8, <2>9
    <3> QED
      BY <1>0, <2>6, <3>1
  <2>11. /\ \A v \in Workers : numNew'[v] > 0 => wpc'[v] \in Completing
         /\ \A v \in waitset' : wpc'[v] = "wait"
         /\ stop' => waitset' = {}
         /\ Pending' <= Len(queue')
    BY <1>0, <2>1, <2>2, <2>3, <2>4, <2>9
  <2> QED
    BY <2>10, <2>11 DEF WakeInv
<1> QED
  BY <1>1, <1>2, <1>3, <1>4, <1>5, <1>6, <1>7, <1>8 DEF WorkerStep

LEMMA WakeStep ==
  ASSUME QueueInv, WakeInv, TypeOK', [Next]_vars
  PROVE  WakeInv'
<1> USE DEF queueVars, jobVars, wVars, mVars
<1>0. /\ \A v \in Workers : numNew[v] > 0 => wpc[v] \in Completing
      /\ \A v \in waitset : wpc[v] = "wait"
      /\ waitset \subseteq Workers /\ Nobody \notin Workers
      /\ Main \notin Workers
      /\ qlock \notin Workers => Pending = 0
      /\ queue \in Seq(Jobs) /\ Len(queue) \in Nat
  <2>1. /\ waitset \subseteq Workers /\ Nobody \notin Workers
        /\ Main \notin Workers /\ queue \in Seq(Jobs)
    BY ThreadsDistinct DEF QueueInv, TypeOK, QueueTypeOK
  <2>2. Len(queue) \in Nat
    BY <2>1
  <2> QED
    BY <2>1, <2>2, PendingIs DEF WakeInv
<1>1. ASSUME UNCHANGED <<stop, queue, waitset, wpc, numNew>>,
             \/ UNCHANGED qlock
             \/ qlock \notin Workers /\ qlock' \notin Workers
      PROVE  WakeInv'
  <2>1. Pending' = Pending
    BY <1>0, <1>1 DEF Pending
  <2>2. Awake \subseteq Awake'
    BY <1>1 DEF Awake
  <2> QED
    BY <1>0, <1>1, <2>1, <2>2, WakeKeep
<1>2. CASE \/ MSpawnFails \/ MWaitCheck \/ MDrop \/ MJoin \/ MStop \/ MSpurious
           \/ MDepLink \/ UNCHANGED vars
  BY <1>1, <1>2 DEF MSpawnFails, MWaitCheck, MDrop, MJoin, MStop, MSpurious,
     MDepLink, vars
<1>3. ASSUME NEW j \in Jobs,
             \/ MSubmit(j) \/ MWaitFor(j) \/ MFreeJob(j) \/ MCopyRef(j)
             \/ MCreate(j) \/ \E d \in Jobs : MDepAdd(j, d)
      PROVE  WakeInv'
  BY <1>1, <1>3 DEF MSubmit, MWaitFor, MFreeJob, MCopyRef, MCreate, MDepAdd
<1>4. CASE MInitDone \/ MSubmitLock
  <2>1. qlock \notin Workers /\ qlock' \notin Workers
    BY <1>0, <1>4 DEF MInitDone, MSubmitLock, QueueInv, ControlInv, LocksOwned,
       MHoldsQueue
  <2> QED
    BY <1>1, <1>4, <2>1 DEF MInitDone, MSubmitLock
<1>5. ASSUME NEW w \in Workers, WSpurious(w)
      PROVE  WakeInv'
  <2>1. /\ UNCHANGED <<qlock, stop, queue, wpc, numNew>>
        /\ waitset' = waitset \ {w}
    BY <1>5 DEF WSpurious
  <2>2. Pending' = Pending /\ Awake \subseteq Awake'
    BY <2>1 DEF Pending, Awake
  <2>3. /\ Cardinality(Awake) <= Cardinality(Awake') /\ Pending \in Nat
        /\ Cardinality(Awake) \in Nat /\ Cardinality(Awake') \in Nat
    BY <2>2, AwakeFinite, AwakeFiniteNext, FS_Subset, PendingIs
  <2>4. /\ waitset # {} => Len(queue) <= Cardinality(Awake) + Pending
        /\ stop => waitset = {}
        /\ Pending <= Len(queue)
    BY DEF WakeInv
  <2>5. waitset' # {} => Len(queue') <= Cardinality(Awake') + Pending'
    <3> SUFFICES ASSUME waitset' # {}
                 PROVE  Len(queue) <= Cardinality(Awake') + Pending
      BY <2>1, <2>2
    <3>1. Len(queue) <= Cardinality(Awake) + Pending
      BY <2>1, <2>4
    <3> QED
      BY <1>0, <2>3, <3>1
  <2>6. /\ Pending' <= Len(queue') /\ (stop' => waitset' = {})
        /\ \A v \in Workers : numNew'[v] > 0 => wpc'[v] \in Completing
        /\ \A v \in waitset' : wpc'[v] = "wait"
    BY <1>0, <2>1, <2>2, <2>4
  <2> QED
    BY <2>5, <2>6 DEF WakeInv
<1>6. ASSUME NEW w \in Workers, MSpawn(w)
      PROVE  WakeInv'
  <2>1. /\ UNCHANGED <<qlock, stop, queue, waitset, numNew>>
        /\ wpc' = [wpc EXCEPT ![w] = "lock"] /\ wpc[w] = "none"
    BY <1>6 DEF MSpawn, Goto
  <2>2. wpc \in [Workers -> WPoints]
    BY Parts
  <2>3. Pending' = Pending /\ Awake \subseteq Awake'
    BY <2>1, <2>2 DEF Pending, Awake
  <2>4. /\ \A v \in Workers : numNew'[v] > 0 => wpc'[v] \in Completing
        /\ \A v \in waitset : wpc'[v] = "wait"
    BY <1>0, <2>1, <2>2 DEF Completing
  <2> QED
    BY <2>1, <2>3, <2>4, WakeKeep
<1>7. CASE MStopLock
  <2>1. /\ waitset' = {} /\ UNCHANGED <<qlock, queue, wpc, numNew>>
        /\ qlock = Nobody
    BY <1>7 DEF MStopLock, BroadcastAvailable
  <2>2. Pending' = 0
    BY <1>0, <2>1 DEF Pending
  <2> QED
    BY <1>0, <2>1, <2>2 DEF WakeInv
<1>8. CASE MQueueFree
  <2>1. /\ queue' = <<>> /\ UNCHANGED <<qlock, stop, waitset, wpc, numNew>>
        /\ qlock = Nobody /\ mpc = "stopped"
    BY <1>8 DEF MQueueFree
  <2>2. stop /\ waitset = {}
    BY <2>1 DEF QueueInv, ControlInv, Closing, WakeInv
  <2>3. Pending' = 0
    BY <1>0, <2>1 DEF Pending
  <2> QED
    BY <1>0, <2>1, <2>2, <2>3 DEF WakeInv
<1>9. CASE MSubmitJob
  <2>1. /\ UNCHANGED <<stop, wpc, numNew>> /\ qlock' = Nobody
        /\ mpc = "submitjob"
        /\ \/ UNCHANGED <<queue, waitset>>
           \/ queue' = Append(queue, mjob) /\ SignalAvailable(1)
    BY <1>9 DEF MSubmitJob, PushJob, SetState
  <2>2. qlock = Main /\ mjob \in Jobs
    BY <2>1, Parts DEF QueueInv, ControlInv, LocksOwned, MHoldsQueue, MHasJob
  <2>3. Pending = 0 /\ Pending' = 0
    BY <1>0, <2>1, <2>2 DEF Pending
  <2>4. CASE UNCHANGED <<queue, waitset>>
    BY <1>0, <1>1, <2>1, <2>2, <2>4
  <2>5. CASE queue' = Append(queue, mjob) /\ SignalAvailable(1)
    <3>1. Len(queue') = Len(queue) + 1
      BY <1>0, <2>2, <2>5
    <3>2. PICK S \in SUBSET waitset :
            /\ waitset' = waitset \ S
            /\ Cardinality(S) = IF 1 < Cardinality(waitset)
                                  THEN 1 ELSE Cardinality(waitset)
      BY <2>5 DEF SignalAvailable
    <3>3. IsFiniteSet(S) /\ Cardinality(S) \in Nat /\ IsFiniteSet(waitset)
      BY <1>0, <3>2, WorkersFinite, FS_Subset, FS_CardinalityType
    <3>4. waitset' # {} => Cardinality(S) = 1
      <4>1. Cardinality(S) = Cardinality(waitset) => waitset = S
        BY <3>3, FS_Subset
      <4> QED
        BY <3>2, <4>1
    <3>5. Awake' = Awake \cup S /\ Awake \cap S = {}
      BY <1>0, <2>1, <3>2 DEF Awake
    <3>6. /\ Cardinality(Awake') = Cardinality(Awake) + Cardinality(S)
          /\ Cardinality(Awake) \in Nat
      BY <3>3, <3>5, AwakeFinite, CountDisjoint
    <3>7. /\ waitset # {} => Len(queue) <= Cardinality(Awake) + Pending
          /\ stop => waitset = {}
      BY DEF WakeInv
    <3>8. waitset' # {} => Len(queue') <= Cardinality(Awake') + Pending'
      <4> SUFFICES ASSUME waitset' # {}
                   PROVE  Len(queue) + 1 <= Cardinality(Awake') + 0
        BY <2>3, <3>1
      <4>1. Cardinality(S) = 1 /\ Len(queue) <= Cardinality(Awake) + 0
        BY <2>3, <3>2, <3>4, <3>7
      <4> QED
        BY <1>0, <3>6, <4>1
    <3>9. /\ Pending' <= Len(queue') /\ (stop' => waitset' = {})
          /\ \A v \in Workers : numNew'[v] > 0 => wpc'[v] \in Completing
          /\ \A v \in waitset' : wpc'[v] = "wait"
      BY <1>0, <2>1, <2>3, <3>1, <3>2, <3>7
    <3> QED
      BY <3>8, <3>9 DEF WakeInv
  <2> QED
    BY <2>1, <2>4, <2>5
<1> QED
  BY <1>2, <1>3, <1>4, <1>5, <1>6, <1>7, <1>8, <1>9, WakeWorker
     DEF Next, MCall, MProceed, Terminated

(* Each job is in the queue once, so that the queue is no longer than there*)
(* are jobs.                                                               *)
LEMMA QueueLength ==
  ASSUME QueueInv
  PROVE  Len(queue) <= Cardinality(Jobs) /\ Cardinality(Jobs) \in Nat
<1>1. queue \in Seq(Jobs) /\ DOMAIN queue = 1..Len(queue) /\ Len(queue) \in Nat
  BY Parts
<1>2. queue \in Injection(1..Len(queue), Jobs)
  <2>1. queue \in [1..Len(queue) -> Jobs]
    BY <1>1
  <2>2. \A k, l \in 1..Len(queue) : queue[k] = queue[l] => k = l
    BY <1>1 DEF QueueInv, ControlInv, QueueReady
  <2> QED
    BY <2>1, <2>2, Fun_IsInj
<1>3. Cardinality(1..Len(queue)) = Len(queue)
  BY <1>1, FS_Interval
<1>4. Cardinality(1..Len(queue)) <= Cardinality(Jobs)
  BY <1>2, JobsFinite, FS_Injection
<1> QED
  BY <1>3, <1>4, JobsFinite, FS_CardinalityType

LEMMA InvNoSleeping == QueueInv /\ WakeInv => NoSleepingOnWork
<1> SUFFICES ASSUME QueueInv, WakeInv, waitset # {}
             PROVE  Len(queue) <= Cardinality(Checking) + Cardinality(Unsignalled)
  BY DEF NoSleepingOnWork
<1>1. /\ Len(queue) <= Cardinality(Awake) + Pending /\ Pending <= Len(queue)
      /\ \A w \in waitset : wpc[w] = "wait"
      /\ \A w \in Workers : numNew[w] > 0 => wpc[w] \in Completing
  BY DEF WakeInv
<1>2. numNew \in [Workers -> Nat]
  BY DEF QueueInv, TypeOK, WorkerTypeOK
<1>3. /\ Checking \in SUBSET Workers /\ IsFiniteSet(Checking)
      /\ Cardinality(Checking) \in Nat
  <2>1. Checking \in SUBSET Workers
    BY DEF Checking
  <2> QED
    BY <2>1, WorkersFinite, FS_Subset, FS_CardinalityType
<1>4. IsFiniteSet(Unsignalled) /\ Cardinality(Unsignalled) \in Nat
  <2>1. Unsignalled \in SUBSET (Workers \X (2..Cardinality(Jobs)))
    BY DEF Unsignalled
  <2>2. IsFiniteSet(2..Cardinality(Jobs))
    BY JobsFinite, FS_CardinalityType, FS_Interval
  <2>3. IsFiniteSet(Workers \X (2..Cardinality(Jobs)))
    BY <2>2, WorkersFinite, FS_Product
  <2> QED
    BY <2>1, <2>3, FS_Subset, FS_CardinalityType
<1>5. Awake \subseteq Checking
  BY DEF Awake, Checking
<1>6. /\ Cardinality(Awake) <= Cardinality(Checking)
      /\ Cardinality(Awake) \in Nat /\ Pending \in Nat
      /\ Len(queue) \in Nat /\ Len(queue) <= Cardinality(Jobs)
      /\ Cardinality(Jobs) \in Nat
  BY <1>3, <1>5, AwakeFinite, FS_Subset, PendingIs, QueueLength, Parts
<1>7. CASE Pending = 0
  BY <1>1, <1>3, <1>4, <1>6, <1>7
<1>8. CASE Pending > 0
  <2>1. PICK w \in Workers : qlock = w /\ Pending = numNew[w]
    BY <1>8 DEF Pending
  <2>2. wpc[w] \in Completing
    BY <1>1, <1>8, <2>1
  <2>3. w \in Checking \ Awake
    BY <1>1, <2>2 DEF Checking, Awake, Completing
  <2>4. Cardinality(Awake) + 1 <= Cardinality(Checking)
    <3>1. Cardinality(Awake \cup {w}) = Cardinality(Awake) + 1
      BY <2>3, AwakeFinite, FS_AddElement
    <3>2. Awake \cup {w} \subseteq Checking
      BY <1>5, <2>3
    <3> QED
      BY <1>3, <3>1, <3>2, FS_Subset
  <2>5. Pending - 1 <= Cardinality(Unsignalled)
    <3> DEFINE T == {w} \X (2..Pending)
    <3>1. T \in SUBSET Unsignalled
      BY <1>1, <1>2, <1>6, <2>1 DEF Unsignalled
    <3>2. Cardinality(T) <= Cardinality(Unsignalled)
      BY <1>4, <3>1, FS_Subset
    <3>3. IsFiniteSet(2..Pending) /\ Cardinality(2..Pending) = Pending - 1
      <4>0. 2 \in Int /\ Pending \in Int
        BY <1>6
      <4>1. /\ IsFiniteSet(2..Pending)
            /\ Cardinality(2..Pending) = IF 2 > Pending THEN 0 ELSE Pending - 2 + 1
        BY <4>0, FS_Interval, Zenon
      <4> QED
        BY <1>6, <1>8, <4>1
    <3>4. Cardinality(T) = Cardinality({w}) * Cardinality(2..Pending)
      BY <3>3, FS_Singleton, FS_Product
    <3>5. Cardinality({w}) = 1
      BY FS_Singleton
    <3> HIDE DEF T
    <3> QED
      BY <1>6, <3>2, <3>3, <3>4, <3>5
  <2> QED
    BY <1>1, <1>3, <1>4, <1>6, <2>4, <2>5
<1> QED
  BY <1>6, <1>7, <1>8

(* However the completion of jobs, the submission of new ones and spurious *)
(* wakeups interleave, a ready job is never left in the queue to sleeping  *)
(* workers: waking one thread less than there are new jobs, as             *)
(* threadqueue_worker does, is enough for any number of threads.           *)
THEOREM NoSleepingOnWorkCorrect == Spec => []NoSleepingOnWork
<1>1. Init => WakeInv
  <2> SUFFICES ASSUME Init PROVE WakeInv
    OBVIOUS
  <2>1. waitset = {} /\ stop = FALSE /\ queue = <<>> /\ qlock = Main
        /\ \A w \in Workers : numNew[w] = 0
    BY DEF Init
  <2>2. Pending = 0
    BY <2>1, ThreadsDistinct DEF Pending
  <2> QED
    BY <2>1, <2>2 DEF WakeInv
<1>2. QueueInv /\ WakeInv /\ TypeOK' /\ [Next]_vars => WakeInv'
  BY WakeStep
<1> QED
  BY <1>1, <1>2, QueueInvariant, InvNoSleeping, TypeCorrect, PTL DEF Spec
=============================================================================
