------------------------------ MODULE Wavefront ------------------------------
(***************************************************************************)
(* The jobs that encode the LCUs (coding tree units of 64x64 pixels) of    *)
(* several frames at once, with wavefront parallel processing (--wpp) and  *)
(* --owf: encoder_state_encode_leaf of src/src/encoderstate.c.  An LCU     *)
(* waits for its neighbours in the frame, and for an LCU of an earlier     *)
(* frame, so that the part of the reference pictures that its motion       *)
(* vectors may reach (fracmv_within_tile of src/src/search_inter.c) is     *)
(* there when it is encoded.                                               *)
(*                                                                         *)
(* Frames are numbered in coding order.  Definitions named Wrong... are    *)
(* not the code: each is the definition after it with one mistake.         *)
(***************************************************************************)
EXTENDS Integers

CONSTANTS Rows, Cols    (* the size of a frame in LCUs                     *)

(* encoder_state_encode_leaf makes jobs of LCUs if there are several rows. *)
ASSUME SizeAssumption == Rows \in Nat /\ Rows > 1 /\ Cols \in Nat /\ Cols > 0

VARIABLES
  frames,      (* number of frames whose jobs have been created            *)
  dependsOn,   (* the earlier frame that each frame waits for, or NoFrame  *)
  referred,    (* the earlier frames that each frame refers to             *)
  recon,       (* the LCUs <<n, <<x, y>>>> that have been encoded          *)
  awaited      (* history: frames that a frame waits for, in any number of *)
               (* steps                                                    *)

wfVars == <<frames, dependsOn, referred, recon, awaited>>

NoFrame == -1
Started == 0..(frames - 1)
Lcus    == (0..(Cols - 1)) \X (0..(Rows - 1))
AtMost(a, b) == IF a <= b THEN a ELSE b

(* encoder_control_t.max_inter_ref_lcu                                     *)
Down       == 1
Right      == 1

(* The neighbours in the same frame: on the left, and above on the right,  *)
(* or above in the last column.                                            *)
WrongNeighbours(c) ==
  {d \in Lcus : \/ d = <<c[1] - 1, c[2]>>
                \/ d = <<c[1], c[2] - 1>>}
Neighbours(c) ==
  {d \in Lcus : \/ d = <<c[1] - 1, c[2]>>
                \/ d = <<AtMost(c[1] + 1, Cols - 1), c[2] - 1>>}

(* The LCU of the earlier frame.                                           *)
DepLcu(c) == <<AtMost(c[1] + Right, Cols - 1), AtMost(c[2] + Down, Rows - 1)>>

JobDeps(n, c) ==
  ({n} \X Neighbours(c))
    \cup (IF dependsOn[n] = NoFrame THEN {} ELSE {<<dependsOn[n], DepLcu(c)>>})

Ready(n, c) == <<n, c>> \notin recon /\ JobDeps(n, c) \subseteq recon

WfInit ==
  /\ frames = 0 /\ recon = {}
  /\ dependsOn = [n \in {} |-> NoFrame]
  /\ referred = [n \in {} |-> {}] /\ awaited = [n \in {} |-> {}]

(* A job runs.                                                             *)
EncodeLcu(n, c) ==
  /\ Ready(n, c)
  /\ recon' = recon \cup {<<n, c>>}
  /\ UNCHANGED <<frames, dependsOn, referred, awaited>>

Extend(f, value) == [n \in 0..frames |-> IF n = frames THEN value ELSE f[n]]
AwaitedVia(d)    == IF d = NoFrame THEN {} ELSE {d} \cup awaited[d]

(* The jobs of a frame that refers to the frames R are created, to wait for*)
(* frame d.                                                                *)
CreateJobs(d, R) ==
  /\ frames' = frames + 1
  /\ dependsOn' = Extend(dependsOn, d)
  /\ referred' = Extend(referred, R)
  /\ awaited' = Extend(awaited, AwaitedVia(d))
  /\ UNCHANGED recon

Complete(n) == {n} \X Lcus \subseteq recon

(* What the jobs rely on: a frame refers only to frames that it waits for, *)
(* or that are complete before it is started.                              *)
Covered(d, R) == \A r \in R : r \in AwaitedVia(d) \/ Complete(r)

StartFrame ==
  \E d \in Started \cup {NoFrame}, R \in SUBSET Started :
    Covered(d, R) /\ CreateJobs(d, R)

WfNext == StartFrame \/ \E n \in Started, c \in Lcus : EncodeLcu(n, c)

WfSpec == WfInit /\ [][WfNext]_wfVars

-----------------------------------------------------------------------------
(* The LCUs of a reference picture that the motion vectors of LCU c may    *)
(* reach: Down rows below, and further right the further up.               *)
Reach(c) == {d \in Lcus : /\ d[2] <= c[2] + Down
                          /\ d[1] + d[2] <= c[1] + c[2] + Down + Right}

(* "We need to wait until the CTUs whose pixels we refer to are done before*)
(* we can start this CTU": of an LCU that may be encoded now, everything   *)
(* that its motion vectors may reach in any reference picture is there.    *)
(* In the last row the LCU of the earlier frame is not enough for that; the*)
(* neighbour above has waited for the rest.                                *)
ReferencesFinal ==
  \A n \in Started, c \in Lcus : Ready(n, c) =>
    \A r \in referred[n], d \in Reach(c) : <<r, d>> \in recon
=============================================================================
