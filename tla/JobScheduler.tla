---------------------------- MODULE JobScheduler ----------------------------
(***************************************************************************)
(* What the thread queue promises its users: a job that has been submitted *)
(* runs at most once, and only after every job it was made to depend on    *)
(* has been completed.  Threads, locks, queues and reference counts do not *)
(* appear; ThreadQueue is shown to implement this specification.           *)
(***************************************************************************)
EXTENDS Naturals

CONSTANT Jobs          (* identities of the jobs that may be created       *)

VARIABLES phase,       (* life cycle of each job                           *)
          deps         (* deps[j]: the jobs j was made to depend on        *)

vars == <<phase, deps>>

Phases == {"none", "created", "submitted", "running", "done"}

Init == /\ phase = [j \in Jobs |-> "none"]
        /\ deps  = [j \in Jobs |-> {}]

DepsDone(j)      == \A d \in deps[j] : phase[d] = "done"

Move(j, from, to) == /\ phase[j] = from
                     /\ phase' = [phase EXCEPT ![j] = to]
                     /\ UNCHANGED deps

Create(j) == Move(j, "none", "created")

(* Dependencies are given to a job before it is submitted, and only on     *)
(* jobs that have themselves been submitted.                               *)
AddDep(j, d) == /\ phase[j] = "created"
                /\ phase[d] \in {"submitted", "running", "done"}
                /\ deps' = [deps EXCEPT ![j] = @ \cup {d}]
                /\ UNCHANGED phase

Submit(j) == Move(j, "created", "submitted")

Start(j) == DepsDone(j) /\ Move(j, "submitted", "running")

Finish(j) == Move(j, "running", "done")

(* Without worker threads a job is executed by the call that submits it.   *)
RunInline(j) == DepsDone(j) /\ Move(j, "created", "done")

Next == \E j \in Jobs : \/ Create(j) \/ Submit(j) \/ Start(j) \/ Finish(j)
                        \/ RunInline(j)
                        \/ \E d \in Jobs : AddDep(j, d)

Spec == Init /\ [][Next]_vars

-----------------------------------------------------------------------------
TypeOK == /\ phase \in [Jobs -> Phases]
          /\ deps \in [Jobs -> SUBSET Jobs]

(* No job is executing, or has executed, before the jobs it depends on are *)
(* done: the reason the encoder may read the pixels of a reference CTU.    *)
DepsBeforeRun ==
  \A j \in Jobs : phase[j] \in {"running", "done"} =>
    \A d \in deps[j] : phase[d] = "done"
=============================================================================
