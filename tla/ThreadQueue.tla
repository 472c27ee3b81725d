----------------------------- MODULE ThreadQueue -----------------------------
(***************************************************************************)
(* The thread queue of src/src/threadqueue.c: worker threads that execute  *)
(* reference-counted jobs once the jobs they depend on are done, and the   *)
(* main thread of the encoder, the only thread that creates jobs, adds     *)
(* dependencies, submits, waits, and finally stops and frees the queue.    *)
(*                                                                         *)
(* A step is one critical section or a part of one that ends where the     *)
(* code acquires another lock.  A lock that is taken and given back within *)
(* one step does not show in qlock or jlock, but its being free is a guard *)
(* of the step.                                                            *)
(*                                                                         *)
(* An operator named Wrong... is not part of the specification: it is a    *)
(* plausible mistake in the definition that follows it, kept to show that  *)
(* the properties notice the mistake.                                      *)
(***************************************************************************)
EXTENDS Integers, Sequences, FiniteSets

CONSTANTS Jobs,          (* identities of the jobs that may be created     *)
          Workers,       (* the threads of which init creates some or none *)
          Main,          (* the thread that calls the queue's functions    *)
          Nobody,        (* owner of a lock that is free                   *)
          NoJob,         (* absence of a job                               *)
          MaxDeps,       (* bound: dependencies a job can wait for at once *)
          MaxHandles,    (* bound: references to one job kept by Main      *)
          SpawnMayFail   (* whether pthread_create may fail                *)

ASSUME ThreadsDistinct == /\ Main \notin Workers
                          /\ Nobody \notin Workers \cup {Main}
ASSUME WorkersFinite   == IsFiniteSet(Workers)
ASSUME JobsFinite      == IsFiniteSet(Jobs) /\ NoJob \notin Jobs
ASSUME BoundsNat       == MaxDeps \in Nat /\ MaxHandles \in Nat
ASSUME SpawnBoolean    == SpawnMayFail \in BOOLEAN

VARIABLES
  qlock,       (* owner of threadqueue->lock                               *)
  stop,        (* threadqueue->stop                                        *)
  queue,       (* the list first .. last of ready jobs                     *)
  running,     (* threadqueue->thread_running_count                        *)
  waitset,     (* workers blocked on the condition job_available           *)
  jlock,       (* owner of job->lock, where it is kept over several steps  *)
  state,       (* job->state, "NONE" before the job is created             *)
  ndepends,    (* job->ndepends                                            *)
  rdepends,    (* job->rdepends, in the order of the array                 *)
  served,      (* number of rdepends already counted down by the worker    *)
  refcount,    (* job->refcount, 0 once the job is deallocated             *)
  wpc,         (* control point of each worker                             *)
  wjob,        (* the job each worker is processing                        *)
  numNew,      (* num_new_jobs of each worker                              *)
  mpc,         (* control point of the main thread                         *)
  mjob, mdep,  (* arguments of the call the main thread is executing       *)
  handles,     (* references to each job kept by the main thread           *)
  drop,        (* references the main thread is giving up                  *)
  deps         (* history: dependencies requested with dep_add             *)

queueVars == <<qlock, stop, queue, running, waitset>>
jobVars   == <<jlock, state, ndepends, rdepends, served, refcount>>
wVars     == <<wpc, wjob, numNew>>
mVars     == <<mpc, mjob, mdep, handles, drop>>
vars      == <<queueVars, jobVars, wVars, mVars, deps>>

Threads   == Workers \cup {Main}
JobStates == {"NONE", "PAUSED", "WAITING", "READY", "RUNNING", "DONE"}
Submitted == {"WAITING", "READY", "RUNNING", "DONE"}

(* Control points at which a worker owns the queue's lock.                 *)
WHoldsQueue == {"loop", "start", "finish", "dep", "depfree", "release"}
(* Control points at which a worker owns the lock of its job.              *)
WHoldsJob   == {"dep", "depfree"}
(* Control points at which a worker owns a reference to its job.           *)
WHasJob     == {"start", "run", "relock", "finish"} \cup WHoldsJob
                 \cup {"release"}
WPoints     == {"none", "lock", "wait", "exit"} \cup WHoldsQueue \cup WHasJob

MHoldsQueue == {"init", "submitjob"}
(* Control points at which the main thread is in a call on a job.          *)
MHasJob     == {"dep", "submit", "submitjob", "waitjob", "waiting"}
MPoints     == {"init", "idle", "dep", "submit", "submitjob", "waitjob",
                "waiting", "drop", "stop", "join", "stopped", "flush",
                "freed"}

Init ==
  /\ qlock = Main /\ stop = FALSE /\ queue = <<>>
  /\ running = 0 /\ waitset = {}
  /\ jlock    = [j \in Jobs |-> Nobody]
  /\ state    = [j \in Jobs |-> "NONE"]
  /\ ndepends = [j \in Jobs |-> 0]
  /\ rdepends = [j \in Jobs |-> <<>>]
  /\ served   = [j \in Jobs |-> 0]
  /\ refcount = [j \in Jobs |-> 0]
  /\ wpc      = [w \in Workers |-> "none"]
  /\ wjob     = [w \in Workers |-> NoJob]
  /\ numNew   = [w \in Workers |-> 0]
  /\ mpc = "init" /\ mjob = NoJob /\ mdep = NoJob
  /\ handles  = [j \in Jobs |-> 0]
  /\ drop = <<>>
  /\ deps     = [j \in Jobs |-> {}]

-----------------------------------------------------------------------------
(* Signalling job_available n times wakes n of the waiting workers, or all *)
(* of them if there are fewer.  A woken worker competes for the lock.      *)
SignalAvailable(n) ==
  \E S \in SUBSET waitset :
    /\ Cardinality(S) = IF n < Cardinality(waitset) THEN n
                                                    ELSE Cardinality(waitset)
    /\ waitset' = waitset \ S

BroadcastAvailable == waitset' = {}

(* Signalling job_done wakes the main thread, its only waiter.             *)
WrongSignalDone == mpc' = mpc
SignalDone      == mpc' = IF mpc = "waiting" THEN "waitjob" ELSE mpc

Goto(w, point) == wpc' = [wpc EXCEPT ![w] = point]

(* threadqueue_push_job(queue, kvz_threadqueue_copy_ref(j))                *)
PushJob(j)      == /\ queue' = Append(queue, j)
                   /\ state' = [state EXCEPT ![j] = "READY"]
                   /\ refcount' = [refcount EXCEPT ![j] = @ + 1]

(* job->rdepends_count = 0                                                 *)
WrongClear(j)    == /\ rdepends' = [rdepends EXCEPT ![j] = <<>>]
                    /\ UNCHANGED served
ClearRdepends(j) == /\ rdepends' = [rdepends EXCEPT ![j] = <<>>]
                    /\ served' = [served EXCEPT ![j] = 0]

-----------------------------------------------------------------------------
(* Worker threads: threadqueue_worker.                                     *)

(* The thread starts, or wakes up from job_available, and gets the lock.   *)
WLock(w) ==
  /\ wpc[w] = "lock" \/ (wpc[w] = "wait" /\ w \notin waitset)
  /\ qlock = Nobody
  /\ qlock' = w
  /\ Goto(w, "loop")
  /\ UNCHANGED <<stop, queue, running, waitset, jobVars, wjob, numNew,
                 mVars, deps>>

WWait(w) ==
  /\ wpc[w] = "loop" /\ ~stop /\ queue = <<>>
  /\ qlock' = Nobody
  /\ waitset' = waitset \cup {w}
  /\ Goto(w, "wait")
  /\ UNCHANGED <<stop, queue, running, jobVars, wjob, numNew, mVars, deps>>

(* pthread_cond_wait may return without a signal.                          *)
WSpurious(w) ==
  /\ w \in waitset
  /\ waitset' = waitset \ {w}
  /\ UNCHANGED <<qlock, stop, queue, running, jobVars, wVars, mVars, deps>>

WExit(w) ==
  /\ wpc[w] = "loop" /\ stop
  /\ running' = running - 1
  /\ qlock' = Nobody
  /\ Goto(w, "exit")
  /\ UNCHANGED <<stop, queue, waitset, jobVars, wjob, numNew, mVars, deps>>

WPop(w) ==
  /\ wpc[w] = "loop" /\ ~stop /\ queue # <<>>
  /\ wjob' = [wjob EXCEPT ![w] = Head(queue)]
  /\ queue' = Tail(queue)
  /\ Goto(w, "start")
  /\ UNCHANGED <<qlock, stop, running, waitset, jobVars, numNew, mVars, deps>>

WStart(w) ==
  /\ wpc[w] = "start" /\ jlock[wjob[w]] = Nobody
  /\ state' = [state EXCEPT ![wjob[w]] = "RUNNING"]
  /\ qlock' = Nobody
  /\ Goto(w, "run")
  /\ UNCHANGED <<stop, queue, running, waitset, jlock, ndepends, rdepends,
                 served, refcount, wjob, numNew, mVars, deps>>

(* job->fptr(job->arg) returns.                                            *)
WEndRun(w) ==
  /\ wpc[w] = "run"
  /\ Goto(w, "relock")
  /\ UNCHANGED <<queueVars, jobVars, wjob, numNew, mVars, deps>>

WRelock(w) ==
  /\ wpc[w] = "relock" /\ qlock = Nobody
  /\ qlock' = w
  /\ Goto(w, "finish")
  /\ UNCHANGED <<stop, queue, running, waitset, jobVars, wjob, numNew,
                 mVars, deps>>

WFinish(w) ==
  /\ wpc[w] = "finish" /\ jlock[wjob[w]] = Nobody
  /\ jlock' = [jlock EXCEPT ![wjob[w]] = w]
  /\ state' = [state EXCEPT ![wjob[w]] = "DONE"]
  /\ SignalDone
  /\ numNew' = [numNew EXCEPT ![w] = 0]
  /\ Goto(w, "dep")
  /\ UNCHANGED <<queueVars, ndepends, rdepends, served, refcount, wjob,
                 mjob, mdep, handles, drop, deps>>

(* The reverse dependency the worker w deals with next, or is dealing with.*)
NextDep(w) == rdepends[wjob[w]][served[wjob[w]] + 1]
CurDep(w)  == rdepends[wjob[w]][served[wjob[w]]]

(* The dependency just completed was the last one of r, and r has been     *)
(* submitted.                                                              *)
WrongReadyAtOne(r)  == state[r] = "WAITING"
WrongReadyPaused(r) == ndepends[r] = 1
BecomesReady(r)     == ndepends[r] = 1 /\ state[r] = "WAITING"

(* Count down one job that depends on the finished one; push it if ready.  *)
WDepDone(w) ==
  LET r == NextDep(w) IN
  /\ wpc[w] = "dep" /\ served[wjob[w]] < Len(rdepends[wjob[w]])
  /\ jlock[r] = Nobody
  /\ ndepends' = [ndepends EXCEPT ![r] = @ - 1]
  /\ IF BecomesReady(r)
       THEN /\ PushJob(r)
            /\ numNew' = [numNew EXCEPT ![w] = @ + 1]
       ELSE UNCHANGED <<queue, state, refcount, numNew>>
  /\ served' = [served EXCEPT ![wjob[w]] = @ + 1]
  /\ Goto(w, "depfree")
  /\ UNCHANGED <<qlock, stop, running, waitset, jlock, rdepends, wjob,
                 mVars, deps>>

(* kvz_threadqueue_free_job(&job->rdepends[i]).                            *)
WDepFree(w) ==
  /\ wpc[w] = "depfree"
  /\ refcount' = [refcount EXCEPT ![CurDep(w)] = @ - 1]
  /\ Goto(w, "dep")
  /\ UNCHANGED <<queueVars, jlock, state, ndepends, rdepends, served, wjob,
                 numNew, mVars, deps>>

WDepsDone(w) ==
  /\ wpc[w] = "dep" /\ served[wjob[w]] = Len(rdepends[wjob[w]])
  /\ ClearRdepends(wjob[w])
  /\ jlock' = [jlock EXCEPT ![wjob[w]] = Nobody]
  /\ Goto(w, "release")
  /\ UNCHANGED <<queueVars, state, ndepends, refcount, wjob, numNew, mVars,
                 deps>>

(* Give up the job and wake one thread less than there are new jobs.       *)
WrongWake(w)     == 0
ThreadsToWake(w) == IF numNew[w] = 0 THEN 0 ELSE numNew[w] - 1

WRelease(w) ==
  /\ wpc[w] = "release"
  /\ refcount' = [refcount EXCEPT ![wjob[w]] = @ - 1]
  /\ SignalAvailable(ThreadsToWake(w))
  /\ wjob' = [wjob EXCEPT ![w] = NoJob]
  /\ numNew' = [numNew EXCEPT ![w] = 0]
  /\ Goto(w, "loop")
  /\ UNCHANGED <<qlock, stop, queue, running, jlock, state, ndepends,
                 rdepends, served, mVars, deps>>

WorkerStep(w) ==
  \/ WLock(w) \/ WWait(w) \/ WExit(w) \/ WPop(w) \/ WStart(w) \/ WEndRun(w)
  \/ WRelock(w) \/ WFinish(w) \/ WDepDone(w) \/ WDepFree(w) \/ WDepsDone(w)
  \/ WRelease(w)

-----------------------------------------------------------------------------
(* The main thread: kvz_threadqueue_init, then calls in any order that the *)
(* encoder may make, then kvz_threadqueue_stop and kvz_threadqueue_free.   *)

(* One iteration of the loop that creates the threads; the caller wants any*)
(* number of them.                                                         *)
MSpawn(w) ==
  /\ mpc = "init" /\ wpc[w] = "none"
  /\ Goto(w, "lock")
  /\ running' = running + 1
  /\ UNCHANGED <<qlock, stop, queue, waitset, jobVars, wjob, numNew, mVars,
                 deps>>

(* pthread_create fails: goto failed, that is kvz_threadqueue_free, whose  *)
(* first act is to lock the queue in kvz_threadqueue_stop.                 *)
MSpawnFails ==
  /\ SpawnMayFail
  /\ mpc = "init" /\ \E w \in Workers : wpc[w] = "none"
  /\ mpc' = "stop"
  /\ UNCHANGED <<queueVars, jobVars, wVars, mjob, mdep, handles, drop, deps>>

MInitDone ==
  /\ mpc = "init"
  /\ qlock' = Nobody
  /\ mpc' = "idle"
  /\ UNCHANGED <<stop, queue, running, waitset, jobVars, wVars, mjob, mdep,
                 handles, drop, deps>>

(* kvz_threadqueue_job_create                                              *)
MCreate(j) ==
  /\ mpc = "idle" /\ state[j] = "NONE"
  /\ state' = [state EXCEPT ![j] = "PAUSED"]
  /\ refcount' = [refcount EXCEPT ![j] = 1]
  /\ handles' = [handles EXCEPT ![j] = 1]
  /\ UNCHANGED <<queueVars, jlock, ndepends, rdepends, served, wVars, mpc,
                 mjob, mdep, drop, deps>>

(* kvz_threadqueue_copy_ref                                                *)
MCopyRef(j) ==
  /\ mpc = "idle" /\ handles[j] \in 1..(MaxHandles - 1)
  /\ refcount' = [refcount EXCEPT ![j] = @ + 1]
  /\ handles' = [handles EXCEPT ![j] = @ + 1]
  /\ UNCHANGED <<queueVars, jlock, state, ndepends, rdepends, served, wVars,
                 mpc, mjob, mdep, drop, deps>>

(* The lock of the dependency is given back at once if it is done.         *)
WrongNothingToDo(d) == FALSE
NothingToDo(d)      == state[d] = "DONE"
WrongKeepLock(d)    == Main
OwnerOnReturn(d)    == IF NothingToDo(d) THEN Nobody ELSE Main

(* kvz_threadqueue_job_dep_add(j, d).  Every caller names a dependency that*)
(* it has already submitted.                                               *)
MDepAdd(j, d) ==
  /\ mpc = "idle" /\ handles[j] > 0 /\ handles[d] > 0
  /\ state[j] = "PAUSED" /\ state[d] \in Submitted /\ ndepends[j] < MaxDeps
  /\ jlock[d] = Nobody
  /\ jlock' = [jlock EXCEPT ![d] = OwnerOnReturn(d)]
  /\ IF NothingToDo(d)
       THEN /\ deps' = [deps EXCEPT ![j] = @ \cup {d}]
            /\ UNCHANGED <<mpc, mjob, mdep>>
       ELSE /\ mpc' = "dep" /\ mjob' = j /\ mdep' = d
            /\ UNCHANGED deps
  /\ UNCHANGED <<queueVars, state, ndepends, rdepends, served, refcount,
                 wVars, handles, drop>>

(* Record both directions of the dependency of j on d.                     *)
WrongLinkOnce(j, d) ==
  /\ ndepends' = [ndepends EXCEPT ![j] = 1]
  /\ rdepends' = [rdepends EXCEPT ![d] = Append(@, j)]
  /\ refcount' = [refcount EXCEPT ![j] = @ + 1]
Link(j, d) ==
  /\ ndepends' = [ndepends EXCEPT ![j] = @ + 1]
  /\ rdepends' = [rdepends EXCEPT ![d] = Append(@, j)]
  /\ refcount' = [refcount EXCEPT ![j] = @ + 1]

(* ... the lock of the dependency is held; the job is locked too.          *)
MDepLink ==
  /\ mpc = "dep" /\ jlock[mjob] = Nobody
  /\ Link(mjob, mdep)
  /\ jlock' = [jlock EXCEPT ![mdep] = Nobody]
  /\ deps' = [deps EXCEPT ![mjob] = @ \cup {mdep}]
  /\ mpc' = "idle" /\ mjob' = NoJob /\ mdep' = NoJob
  /\ UNCHANGED <<queueVars, state, served, wVars, handles, drop>>

(* kvz_threadqueue_submit(j): call, lock the queue, lock the job.          *)
MSubmit(j) ==
  /\ mpc = "idle" /\ handles[j] > 0 /\ state[j] = "PAUSED"
  /\ mpc' = "submit" /\ mjob' = j
  /\ UNCHANGED <<queueVars, jobVars, wVars, mdep, handles, drop, deps>>

MSubmitLock ==
  /\ mpc = "submit" /\ qlock = Nobody
  /\ qlock' = Main
  /\ mpc' = "submitjob"
  /\ UNCHANGED <<stop, queue, running, waitset, jobVars, wVars, mjob, mdep,
                 handles, drop, deps>>

(* What becomes of a submitted job: it is run at once if there are no      *)
(* workers, queued, or left to the worker that completes its dependencies. *)
NoThreads           == \A w \in Workers : wpc[w] = "none"
SubmitsTo(j)        == IF NoThreads THEN "DONE"
                       ELSE IF ndepends[j] = 0 THEN "READY" ELSE "WAITING"

SetState(j, s)      == /\ state' = [state EXCEPT ![j] = s]
                       /\ UNCHANGED <<refcount, queue, waitset>>

MSubmitJob ==
  /\ mpc = "submitjob" /\ jlock[mjob] = Nobody
  /\ IF SubmitsTo(mjob) = "READY" THEN PushJob(mjob) /\ SignalAvailable(1)
                                  ELSE SetState(mjob, SubmitsTo(mjob))
  /\ qlock' = Nobody
  /\ mpc' = "idle" /\ mjob' = NoJob
  /\ UNCHANGED <<stop, running, jlock, ndepends, rdepends, served, wVars,
                 mdep, handles, drop, deps>>

(* kvz_threadqueue_waitfor(j): check under the lock of the job, and sleep  *)
(* on job_done, which gives that lock back, while the job is not done.     *)
MWaitFor(j) ==
  /\ mpc = "idle" /\ handles[j] > 0 /\ state[j] \in Submitted
  /\ mpc' = "waitjob" /\ mjob' = j
  /\ UNCHANGED <<queueVars, jobVars, wVars, mdep, handles, drop, deps>>

MWaitCheck ==
  /\ mpc = "waitjob" /\ jlock[mjob] = Nobody
  /\ IF state[mjob] = "DONE" THEN mpc' = "idle" /\ mjob' = NoJob
                             ELSE mpc' = "waiting" /\ UNCHANGED mjob
  /\ UNCHANGED <<queueVars, jobVars, wVars, mdep, handles, drop, deps>>

MSpurious ==
  /\ mpc = "waiting"
  /\ mpc' = "waitjob"
  /\ UNCHANGED <<queueVars, jobVars, wVars, mjob, mdep, handles, drop, deps>>

(* kvz_threadqueue_free_job on one of the main thread's own references.    *)
(* Every function that creates a job also submits it, so the last one is   *)
(* never that of a paused job.                                             *)
MFreeJob(j) ==
  /\ mpc \in {"idle", "stopped"} /\ handles[j] > 0
  /\ state[j] # "PAUSED" \/ handles[j] > 1
  /\ handles' = [handles EXCEPT ![j] = @ - 1]
  /\ drop' = <<j>>
  /\ mpc' = "drop"
  /\ UNCHANGED <<queueVars, jobVars, wVars, mjob, mdep, deps>>

(* One reference is given up; a job that loses its last one gives up those *)
(* it holds in rdepends, before the references that were to follow.        *)
HeldBy(j)      == rdepends[j]

MDrop ==
  /\ mpc \in {"drop", "flush"}
  /\ LET j == Head(drop) IN
       /\ refcount' = [refcount EXCEPT ![j] = @ - 1]
       /\ IF refcount[j] = 1
            THEN drop' = HeldBy(j) \o Tail(drop) /\ ClearRdepends(j)
            ELSE drop' = Tail(drop) /\ UNCHANGED <<rdepends, served>>
  /\ mpc' = IF drop' # <<>> THEN mpc
            ELSE IF mpc = "flush" THEN "freed"
            ELSE IF stop THEN "stopped" ELSE "idle"
  /\ UNCHANGED <<queueVars, jlock, state, ndepends, wVars, mjob, mdep,
                 handles, deps>>

(* kvz_threadqueue_stop: call, never between the creation of a job and its *)
(* submission; tell the workers to stop; join them.                        *)
MStop ==
  /\ mpc = "idle" /\ \A j \in Jobs : state[j] # "PAUSED"
  /\ mpc' = "stop"
  /\ UNCHANGED <<queueVars, jobVars, wVars, mjob, mdep, handles, drop, deps>>

MStopLock ==
  /\ mpc = "stop" /\ qlock = Nobody
  /\ stop' = TRUE
  /\ BroadcastAvailable
  /\ mpc' = "join"
  /\ UNCHANGED <<qlock, queue, running, jobVars, wVars, mjob, mdep, handles,
                 drop, deps>>

MJoin ==
  /\ mpc = "join" /\ \A w \in Workers : wpc[w] \in {"none", "exit"}
  /\ mpc' = "stopped"
  /\ UNCHANGED <<queueVars, jobVars, wVars, mjob, mdep, handles, drop, deps>>

(* kvz_threadqueue_free, called when the encoder states and the references *)
(* in them are gone: the jobs still in the queue are released.             *)
MQueueFree ==
  /\ mpc = "stopped" /\ qlock = Nobody /\ \A j \in Jobs : handles[j] = 0
  /\ drop' = queue
  /\ queue' = <<>>
  /\ mpc' = IF queue = <<>> THEN "freed" ELSE "flush"
  /\ UNCHANGED <<qlock, stop, running, waitset, jobVars, wVars, mjob, mdep,
                 handles, deps>>

(* Calls that the main thread may make, but does not have to.              *)
MCall == \/ MStop
         \/ \E j \in Jobs : \/ MCreate(j) \/ MCopyRef(j) \/ MSubmit(j)
                            \/ MWaitFor(j) \/ (mpc = "idle" /\ MFreeJob(j))
                            \/ \E d \in Jobs : MDepAdd(j, d)

(* Steps of a call in progress, and of the closing of the encoder.         *)
MProceed == \/ MSpawnFails \/ MInitDone \/ MDepLink \/ MSubmitLock
            \/ MSubmitJob \/ MWaitCheck \/ MDrop \/ MStopLock \/ MJoin
            \/ MQueueFree
            \/ \E w \in Workers : MSpawn(w)
            \/ \E j \in Jobs : mpc = "stopped" /\ MFreeJob(j)

Terminated == mpc = "freed" /\ UNCHANGED vars

Next == \/ MCall \/ MProceed \/ MSpurious \/ Terminated
        \/ \E w \in Workers : WorkerStep(w) \/ WSpurious(w)

(* A thread that repeatedly could take a mutex gets it at last, and a job's*)
(* function returns.  Nothing obliges Main to make a call, and no wakeup   *)
(* is taken to happen without a signal.                                    *)
Fairness == SF_vars(MProceed) /\ \A w \in Workers : SF_vars(WorkerStep(w))

Spec     == Init /\ [][Next]_vars
FairSpec == Spec /\ Fairness
-----------------------------------------------------------------------------
QueueTypeOK == /\ qlock \in Threads \cup {Nobody}
               /\ stop \in BOOLEAN
               /\ queue \in Seq(Jobs)
               /\ running \in Int
               /\ waitset \subseteq Workers

JobTypeOK == /\ jlock \in [Jobs -> Threads \cup {Nobody}]
             /\ state \in [Jobs -> JobStates]
             /\ ndepends \in [Jobs -> Int]
             /\ rdepends \in [Jobs -> Seq(Jobs)]
             /\ served \in [Jobs -> Nat]
             /\ \A j \in Jobs : served[j] <= Len(rdepends[j])
             /\ refcount \in [Jobs -> Int]
             /\ deps \in [Jobs -> SUBSET Jobs]

WorkerTypeOK == /\ wpc \in [Workers -> WPoints]
                /\ wjob \in [Workers -> Jobs \cup {NoJob}]
                /\ \A w \in Workers : wpc[w] \in WHasJob => wjob[w] \in Jobs
                /\ numNew \in [Workers -> Nat]

MainTypeOK == /\ mpc \in MPoints
              /\ mjob \in Jobs \cup {NoJob}
              /\ mpc \in MHasJob => mjob \in Jobs
              /\ mdep \in Jobs \cup {NoJob}
              /\ mpc = "dep" => mdep \in Jobs
              /\ handles \in [Jobs -> Nat]
              /\ drop \in Seq(Jobs)
              /\ mpc \in {"drop", "flush"} => drop # <<>>

TypeOK == QueueTypeOK /\ JobTypeOK /\ WorkerTypeOK /\ MainTypeOK

(* Positions of j in a sequence of jobs.                                   *)
Places(s, j) == {k \in DOMAIN s : s[k] = j}

(* The entries of rdepends that name j and have not been served yet.       *)
Edges(j) == UNION {{d} \X {k \in Places(rdepends[d], j) : k > served[d]} :
                   d \in Jobs}

(* Workers that own a reference to j: the job they took from the queue, or *)
(* the entry of rdepends they are about to free.                           *)
Holders(j) == {w \in Workers : wpc[w] \in WHasJob /\ wjob[w] = j}
Freers(j)  == {w \in Workers : wpc[w] = "depfree" /\ CurDep(w) = j}

(* A reference count is the number of references that really exist, so no  *)
(* thread ever frees a job too early (which would show as a count below    *)
(* the references left) and none is forgotten.  kvz_threadqueue_copy_ref   *)
(* and kvz_threadqueue_free_job are called without any lock on the job.    *)
RefCountExact ==
  \A j \in Jobs :
    refcount[j] = handles[j] + Cardinality(Places(queue, j))
                    + Cardinality(Edges(j)) + Cardinality(Holders(j))
                    + Cardinality(Freers(j)) + Cardinality(Places(drop, j))

(* Deallocating a job leaves nothing dangling: it has no lock owner, is not*)
(* an argument of a call in progress, and has no unfinished business with  *)
(* other jobs when a worker drops its last reference.                      *)
FreedIsQuiet ==
  \A j \in Jobs : refcount[j] <= 0 => /\ jlock[j] = Nobody
                                     /\ j \notin {mjob, mdep}
                                     /\ rdepends[j] = <<>>

(* job->ndepends is the number of entries for the job in the rdepends of   *)
(* other jobs that are still to be counted down (a dependency requested    *)
(* twice counts twice), until jobs are freed after the workers have ended. *)
Dismantling == stop /\ mpc # "join"
NDependsExact ==
  ~Dismantling => \A j \in Jobs : ndepends[j] = Cardinality(Edges(j))

(* A ready job does not lie in the queue while workers sleep, unless enough*)
(* workers that are awake are about to look at the queue or to signal: the *)
(* purpose of waking one thread less than there are new jobs.              *)
Checking == {w \in Workers \ waitset :
               wpc[w] \in {"lock", "wait", "loop", "dep", "depfree",
                           "release"}}
Unsignalled == {u \in Workers \X (2..Cardinality(Jobs)) : u[2] <= numNew[u[1]]}
NoSleepingOnWork ==
  waitset # {} =>
    Len(queue) <= Cardinality(Checking) + Cardinality(Unsignalled)

(* The assertions of the code that are not implied by a step's own guard:  *)
(* in threadqueue_worker, threadqueue_push_job and kvz_threadqueue_stop.   *)
AssertsHold ==
  /\ \A w \in Workers :
       /\ wpc[w] = "start"  => state[wjob[w]] = "READY"
       /\ wpc[w] = "finish" => state[wjob[w]] = "RUNNING"
       /\ wpc[w] = "dep" /\ served[wjob[w]] < Len(rdepends[wjob[w]]) =>
            /\ state[NextDep(w)] \in {"WAITING", "PAUSED"}
            /\ ndepends[NextDep(w)] > 0
  /\ \A k \in DOMAIN queue : ndepends[queue[k]] = 0
  /\ mpc \in {"stopped", "flush", "freed"} => running = 0

(* The thread that owns the lock t is about to acquire, or Nobody.         *)
WaitsFor(t) ==
  IF t = Main
    THEN CASE mpc \in {"submit", "stop"}    -> qlock
           [] mpc \in {"dep", "submitjob", "waitjob"} -> jlock[mjob]
           [] OTHER                         -> Nobody
    ELSE CASE wpc[t] \in {"lock", "relock"} -> qlock
           [] wpc[t] \in {"start", "finish"} -> jlock[wjob[t]]
           [] wpc[t] = "dep" /\ served[wjob[t]] < Len(rdepends[wjob[t]]) ->
                jlock[NextDep(t)]
           [] OTHER                         -> Nobody

(* No group of threads waits for locks held within the group: the queue's  *)
(* lock comes before those of jobs, and a dependency's lock before that of *)
(* the job depending on it, in the worker as in dep_add.  The exception is *)
(* an init that fails after pthread_create: it stops the queue while it    *)
(* holds its lock, and waits for itself.                                   *)
InitFailed  == mpc = "stop" /\ qlock = Main
NoLockCycle ==
  InitFailed \/ \A S \in (SUBSET Threads) \ {{}} :
                  \E t \in S : WaitsFor(t) \notin S

(* When the queue has been freed, so has every job: jobs that were still   *)
(* waiting at the stop are released through the jobs they waited for.      *)
NoLeak == mpc = "freed" => \A j \in Jobs : refcount[j] = 0

(* Reference counts over the life of the queue: exact at every step, none  *)
(* at zero while anybody looks at the job, all at zero in the end.         *)
(* And the counts of dependencies are those of the entries that will be    *)
(* counted down.                                                           *)
References == RefCountExact /\ FreedIsQuiet /\ NoLeak /\ NDependsExact

(* The thread queue implements JobScheduler: no job runs twice, nor before *)
(* everything it was made to depend on is done, however the completion of  *)
(* a dependency interleaves with dep_add and submit.                       *)
Phase(j) == CASE state[j] = "NONE"                  -> "none"
              [] state[j] = "PAUSED"                -> "created"
              [] state[j] \in {"WAITING", "READY"}  -> "submitted"
              [] state[j] = "RUNNING"               -> "running"
              [] state[j] = "DONE"                  -> "done"
phase == [j \in Jobs |-> Phase(j)]
Scheduler == INSTANCE JobScheduler
Implements == Scheduler!Spec

(* A call of kvz_threadqueue_waitfor returns.                              *)
WaitReturns == mpc = "waitjob" ~> mpc = "idle"

(* Every submitted job is executed, unless the queue is stopped.           *)
JobsComplete ==
  \A j \in Jobs : state[j] \in {"WAITING", "READY"} ~>
                    (state[j] = "DONE" \/ stop)

(* kvz_threadqueue_stop returns, whatever the workers are doing, and the   *)
(* encoder is closed.                                                      *)
CloseReturns == mpc = "stop" ~> mpc = "freed"

(* Both: no job is left over, neither by the queue nor by its end.         *)
JobsEnd == JobsComplete /\ CloseReturns
=============================================================================
