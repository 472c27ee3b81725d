---------------------------- MODULE FramePipeline ----------------------------
(***************************************************************************)
(* kvazaar_encode and kvazaar_field_encoding_adapter of src/src/kvazaar.c  *)
(* and the jobs that kvz_encode_one_frame creates: the caller gives        *)
(* pictures, PictureOrder decides which frame is coded next and what it    *)
(* refers to, up to owf + 1 frames are encoded at once by the jobs of      *)
(* Wavefront, and the frames come back in the order they were started.     *)
(* The thread queue shows only in that a job runs once, after those it     *)
(* depends on (JobScheduler).  There is one tile, and --wpp is on.         *)
(*                                                                         *)
(* Definitions named Wrong... are not the code: each is the definition     *)
(* after it with one mistake.                                              *)
(***************************************************************************)
EXTENDS PictureOrder, Wavefront

(* Configurations also have the fields owf and interlaced.                 *)
ASSUME MoreConfigs == \A c \in Configs : c.owf \in Nat /\ c.interlaced \in BOOLEAN
(* Every picture of a low delay group refers to another (--ref is not 0).  *)
ASSUME LowDelayRefs ==
  \A c \in Configs : c.lowDelay => \A i \in 1..c.gopLen : Len(c.gop[i].neg) > 0

VARIABLES
  curState, outState,  (* cur_state_num, out_state_num                     *)
  slot,        (* the frame that each encoder state has coded last         *)
  busy,        (* the encoder states whose frame->done is 0                *)
  framesDone,  (* frames_done                                              *)
  afterStream, (* the frame whose bitstream each frame's bitstream awaits  *)
  written,     (* frames whose bitstream job has run                       *)
  pc,          (* whether the caller is waiting for a bitstream            *)
  second,      (* the second field of a picture is being encoded           *)
  firstOut,    (* encoding the first field gave a bitstream                *)
  lost         (* history: frames whose bitstream the caller never gets    *)

ringVars == <<curState, outState, slot, busy, framesDone>>
callVars == <<pc, second, firstOut, lost>>
pipeVars == <<allVars, wfVars, ringVars, afterStream, written, callVars>>

(* kvz_encoder_control_init makes owf even for interlaced pictures.        *)
Owf         == IF cfg.interlaced /\ cfg.owf % 2 = 1 THEN cfg.owf + 1 ELSE cfg.owf
NumStates   == Owf + 1
States      == 0..Owf
After(s)    == IF s = Owf THEN 0 ELSE s + 1
(* previous_encoder_state, n times                                         *)
Back(s, n)  == IF n <= s THEN s - n ELSE s - n + NumStates
Before(s)   == Back(s, 1)

PInit ==
  /\ OInit /\ WfInit
  /\ curState = 0 /\ outState = 0 /\ busy = {} /\ framesDone = 0
  /\ slot = [s \in States |-> NoFrame]
  /\ afterStream = [n \in {} |-> NoFrame] /\ written = {}
  /\ pc = "call" /\ second = FALSE /\ firstOut = FALSE /\ lost = {}

-----------------------------------------------------------------------------
(* The dependencies of the jobs of the frame at position k of its group.   *)

Intra == pictype' \in {"IDR", "CRA"}

(* The encoder state whose LCUs those of the frame wait for: that of the   *)
(* first reference in a low delay group, that of the frame before          *)
(* otherwise.                                                              *)
NearestRef(k)     == cfg.gop[k + 1].neg[1]
WrongIsDone(dist) == dist >= Owf
IsDone(dist)      == dist > Owf

NoState == -1
RefState(k) ==
  IF Intra \/ Before(curState) = curState \/ slot[Before(curState)] = NoFrame
    THEN NoState
  ELSE IF cfg.lowDelay /\ cfg.gopLen > 0
    THEN IF IsDone(NearestRef(k)) THEN NoState ELSE Back(curState, NearestRef(k))
  ELSE Before(curState)

(* The frames of the pictures in the list of references.                   *)
ReferredFrames ==
  IF Intra THEN {}
  ELSE {d.seq : d \in {e \in coded : e.cvs = cvs' /\ e.poc \in Elements(refs')}}

(* The bitstream waits for that of the frame before, unless the caller has *)
(* got it already, or there is one encoder state only.                     *)
WrongStreamBefore == NoFrame
StreamBefore == IF Before(curState) \in busy THEN slot[Before(curState)] ELSE NoFrame

(* kvz_encode_one_frame, after encoder_state_init_new_frame.  The job that *)
(* is waited for exists.                                                   *)
EncodeOneFrame(k) ==
  LET s == RefState(k)
      d == IF s = NoState THEN NoFrame ELSE slot[s]
  IN
    /\ d = NoFrame <=> s = NoState
    /\ CreateJobs(d, ReferredFrames)
    /\ afterStream' = Extend(afterStream, StreamBefore)
    /\ slot' = [slot EXCEPT ![curState] = num]
    /\ busy' = busy \cup {curState}

-----------------------------------------------------------------------------
(* The end of a call of kvazaar_encode that returns frame n or NoFrame.    *)
(* An interlaced picture takes two calls, and the bitstream of the second  *)
(* is appended to that of the first, if there is one.                      *)
Finish(n) ==
  /\ pc' = "call"
  /\ second' = (cfg.interlaced /\ ~second)
  /\ firstOut' = (n # NoFrame)
  /\ lost' = IF second /\ ~firstOut /\ n # NoFrame THEN lost \cup {n} ELSE lost

(* kvazaar_encode first prepares the encoder state.                        *)
CallPrepare ==
  /\ pc = "call" /\ Prepare
  /\ UNCHANGED <<wfVars, ringVars, afterStream, written, callVars>>

WrongMustWait(flush) == flush
MustWait(flush) == flush \/ curState' = outState

(* Both fields are there, or none.                                         *)
BothFields(flush) == second => flush = ended

(* Then it feeds the picture, or none, to the frame buffer, encodes what   *)
(* the buffer returns, and waits for the oldest frame if all states are    *)
(* busy or there are no more pictures.                                     *)
CallEncode(flush) ==
  /\ pc = "call" /\ BothFields(flush)
  /\ IF flush THEN EncodeFlush ELSE EncodeNext
  /\ IF out' = None
       THEN UNCHANGED <<wfVars, slot, busy, afterStream>>
       ELSE EncodeOneFrame(out'.offset)
  /\ curState' = IF frames' # framesDone /\ curState \in busy' THEN After(curState)
                                                               ELSE curState
  /\ IF frames' # framesDone /\ outState \in busy' /\ MustWait(flush)
       THEN pc' = "wait" /\ UNCHANGED <<second, firstOut, lost>>
       ELSE Finish(NoFrame)
  /\ UNCHANGED <<outState, framesDone, written>>

(* The bitstream of the oldest frame is there: return it.                  *)
CallOutput ==
  /\ pc = "wait" /\ slot[outState] \in written
  /\ busy' = busy \ {outState}
  /\ framesDone' = framesDone + 1
  /\ outState' = After(outState)
  /\ Finish(slot[outState])
  /\ UNCHANGED <<allVars, wfVars, curState, slot, afterStream, written>>

-----------------------------------------------------------------------------
(* The jobs.                                                               *)

RunLcu ==
  /\ \E n \in Started \ written, c \in Lcus : EncodeLcu(n, c)
  /\ UNCHANGED <<allVars, ringVars, afterStream, written, callVars>>

(* The job that writes the bitstream depends on the last LCU of each row.  *)
RowsDone(n) == \A y \in 0..(Rows - 1) : <<n, <<Cols - 1, y>>>> \in recon

WriteBitstream ==
  /\ \E n \in Started \ written :
       /\ RowsDone(n)
       /\ afterStream[n] \in written \cup {NoFrame}
       /\ written' = written \cup {n}
  /\ UNCHANGED <<allVars, wfVars, ringVars, afterStream, callVars>>

Calls == CallPrepare \/ (\E flush \in BOOLEAN : CallEncode(flush)) \/ CallOutput

PNext == Calls \/ RunLcu \/ WriteBitstream

PSpec == PInit /\ [][PNext]_pipeVars

-----------------------------------------------------------------------------
(* Properties.                                                             *)

(* The assertions of kvazaar_encode and kvz_encoder_prepare: the state that*)
(* is about to be used has given its frame to the caller, and frames are   *)
(* numbered in the order in which they are started and returned.           *)
RingReady ==
  /\ pc = "call" => curState \notin busy /\ (prepared => num = frames)
  /\ pc = "wait" => slot[outState] = framesDone
  /\ \A s \in States : s \in busy <=> slot[s] \in framesDone..(frames - 1)

(* The counters of coded bits are handed from frame to frame by the jobs   *)
(* that write the bitstreams: each finds those of the frame before.        *)
(* "To ensure that the pair of fields will be output for the same picture" *)
(* the number of frames in flight is made even: no bitstream is lost.      *)
StreamsInOrder == written = 0..(Cardinality(written) - 1) /\ lost = {}

(* A frame that is started waits for all its references, in any number of  *)
(* steps, or they are complete: the guard of StartFrame, so that the       *)
(* pipeline implements Wavefront.                                          *)
WaitsForReferences ==
  [][frames' # frames => Covered(dependsOn'[frames], referred'[frames])]_pipeVars
=============================================================================
