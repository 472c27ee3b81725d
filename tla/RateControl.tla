----------------------------- MODULE RateControl -----------------------------
(***************************************************************************)
(* Rate control (--bitrate): src/src/rate_control.c with what the jobs and *)
(* encoder_state_write_bitstream_main count.  The bits of a picture are    *)
(* allocated in the thread of the caller when its jobs are created, from   *)
(* what the encoder state keeps of the frame that it coded before; the     *)
(* jobs of the owf frames in between are not done then.                    *)
(*                                                                         *)
(* Frames are numbered in coding order and state n % (owf + 1) codes frame *)
(* n.  Bits are small numbers.  Lambda and the parameters of its model are *)
(* numbers that a frame or an LCU got from another one: which one is kept, *)
(* and not the value.                                                      *)
(* Operators named Wrong... are plausible mistakes in the definition that  *)
(* follows them and are not part of the specification.                     *)
(***************************************************************************)
EXTENDS Integers, Sequences, FiniteSets, FiniteSetsExt

CONSTANTS
  RateConfigs,   (* records: owf, gopLen, whether groups are low delay, and*)
                 (* the intra period of those                              *)
  AvgBits,       (* target_avg_bppic                                       *)
  BitsChoices,   (* the numbers of bits that a frame may take              *)
  NumLcus,       (* the LCUs of a frame                                    *)
  MaxFrames      (* bound: frames that are coded                           *)

ASSUME RateAssumption ==
  /\ \A c \in RateConfigs : c.owf \in Nat /\ c.gopLen \in Nat /\ c.lowDelay \in BOOLEAN
                            /\ c.period \in Nat
  /\ AvgBits \in Nat /\ BitsChoices \subseteq Nat /\ NumLcus \in Nat \ {0}
  /\ MaxFrames \in Nat

VARIABLES
  rc,         (* the configuration                                         *)
  started,    (* the number of frames whose jobs have been created         *)
  written,    (* the bits of the first frames, up to each that is written  *)
  returned,   (* the number of frames that the caller has got              *)
  total,      (* state->frame->total_bits_coded                            *)
  gopBits,    (* state->frame->cur_gop_bits_coded                          *)
  gopTarget,  (* the frame for which cur_gop_target_bits was computed      *)
  last,       (* stats_bitstream_length, with the frame that it is of      *)
  lambda,     (* the frame for which state->frame->lambda was set          *)
  weight,     (* lcu_stats: the frame that set the weight of each LCU ...  *)
  bits,       (* ... its bits                                              *)
  lcuLambda,  (* ... and its lambda                                        *)
  coded,      (* the LCUs of each frame in flight whose job has run        *)
  alloc       (* history: what the last allocation was computed from       *)

frameVars == <<total, gopBits, gopTarget, last, lambda>>
lcuVars   == <<weight, bits, lcuLambda, coded>>
rateVars  == <<rc, started, written, returned, frameVars, lcuVars, alloc>>

SMOOTHING_WINDOW == 40
NoFrame     == -1
States      == 0..rc.owf
StateOf(n)  == n % (rc.owf + 1)
Earlier(s)  == (s - 1) % (rc.owf + 1)     (* previous_encoder_state        *)
LcuIds      == 1..NumLcus
Largest(a, b) == IF a > b THEN a ELSE b
FirstBits(k) == IF k = 0 THEN 0 ELSE written[k]
Stats(value) == [s \in States |-> [l \in LcuIds |-> value]]

(* frame->gop_offset, as kvz_encoder_feed_frame sets it.                   *)
InPeriod(n)  == IF rc.period = 0 THEN n ELSE n % rc.period
GopOffset(n) ==
  IF rc.gopLen = 0 THEN 0
  ELSE IF rc.lowDelay THEN (InPeriod(n) + rc.gopLen - 1) % rc.gopLen
  ELSE IF n = 0 THEN 0 ELSE (n - 1) % rc.gopLen
(* The remainder of C takes the sign of the dividend.                      *)
Remainder(a, b) == IF a >= 0 THEN a % b ELSE -((-a) % b)

RateInit ==
  /\ rc \in RateConfigs
  /\ started = 0 /\ written = <<>> /\ returned = 0
  /\ total = [s \in States |-> 0] /\ gopBits = [s \in States |-> 0]
  /\ gopTarget = [s \in States |-> NoFrame]
  /\ last = [s \in States |-> [frame |-> NoFrame, length |-> 0]]
  /\ lambda = [s \in States |-> NoFrame]
  /\ weight = Stats(NoFrame) /\ bits = Stats(NoFrame) /\ lcuLambda = Stats(NoFrame)
  /\ coded = [s \in States |-> {}]
  /\ alloc = [frame |-> NoFrame, bits |-> 0, pictures |-> 0, target |-> 0]

-----------------------------------------------------------------------------
(* kvz_set_picture_lambda_and_qp for frame n, in the thread of the caller. *)

(* Every frame without groups, and the first of a group.                   *)
NewGop(n) == rc.gopLen = 0 \/ GopOffset(n) = 0 \/ n = 0

(* gop_allocate_bits                                                       *)
InPartialGop(offset) == rc.gopLen > 0 /\ offset # rc.gopLen - 1 /\ ~rc.lowDelay
WrongPictures(n)     == n
PicturesCoded(n)     == Largest(0, n - rc.owf)
GopAllocation(n) ==
  LET s        == StateOf(n)
      offset   == Remainder(GopOffset(n) - rc.owf, Largest(1, rc.gopLen))
      partial  == InPartialGop(offset)
      coded_   == total[s] - (IF partial THEN gopBits[s] ELSE 0)
      pictures == PicturesCoded(n) - (IF partial THEN offset + 1 ELSE 0)
  IN [frame |-> n, bits |-> coded_, pictures |-> pictures,
      target |-> Largest(200, ((AvgBits * (pictures + SMOOTHING_WINDOW) - coded_)
                               * Largest(1, rc.gopLen)) \div SMOOTHING_WINDOW)]

(* At least one frame has been written: the parameters are updated.        *)
WrongHasStats(n) == n > 0
HasStats(n) == n > rc.owf

StartFrame ==
  LET n == started
      s == StateOf(n)
  IN
  /\ n < MaxFrames /\ n - returned <= rc.owf
  /\ started' = n + 1
  /\ lambda' = [lambda EXCEPT ![s] = n]
  /\ IF NewGop(n)
       THEN /\ gopTarget' = [gopTarget EXCEPT ![s] = n]
            /\ gopBits' = [gopBits EXCEPT ![s] = 0]
            /\ alloc' = GopAllocation(n)
       ELSE /\ gopTarget' = [gopTarget EXCEPT ![s] = gopTarget[Earlier(s)]]
            /\ UNCHANGED <<gopBits, alloc>>
  /\ coded' = [coded EXCEPT ![s] = {}]
  /\ UNCHANGED <<rc, written, returned, total, last, weight, bits, lcuLambda>>

(* kvz_set_lcu_lambda_and_qp, kvz_search_lcu and the count of the bits of  *)
(* the LCU, in its job.                                                    *)
EncodeLcu ==
  \E n \in Len(written)..(started - 1), l \in LcuIds :
    LET s == StateOf(n) IN
    /\ l \notin coded[s]
    /\ coded' = [coded EXCEPT ![s] = @ \cup {l}]
    /\ weight' = [weight EXCEPT ![s][l] = n]
    /\ bits' = [bits EXCEPT ![s][l] = n]
    /\ lcuLambda' = [lcuLambda EXCEPT ![s][l] = n]
    /\ UNCHANGED <<rc, started, written, returned, frameVars, alloc>>

(* encoder_state_write_bitstream_main, in the job that comes after all LCUs*)
(* of the frame and the bitstream of the frame before.                     *)
WriteBitstream ==
  LET n == Len(written)
      s == StateOf(n)
  IN
  /\ n < started /\ coded[s] = LcuIds
  /\ \E b \in BitsChoices :
       /\ written' = Append(written, FirstBits(n) + b)
       /\ total' = [total EXCEPT ![s] = (IF n > 0 THEN total[Earlier(s)] ELSE @) + b]
       /\ gopBits' = [gopBits EXCEPT ![s] = gopBits[Earlier(s)] + b]
       /\ last' = [last EXCEPT ![s] = [frame |-> n, length |-> b]]
  /\ UNCHANGED <<rc, started, returned, gopTarget, lambda, lcuVars, alloc>>

(* kvazaar_encode returns a frame: when all states are busy, or at the end.*)
ReturnFrame ==
  /\ returned < Len(written)
  /\ started - returned = rc.owf + 1 \/ started = MaxFrames
  /\ returned' = returned + 1
  /\ UNCHANGED <<rc, started, written, frameVars, lcuVars, alloc>>

AllReturned == returned = MaxFrames /\ UNCHANGED rateVars

RateNext == StartFrame \/ EncodeLcu \/ WriteBitstream \/ ReturnFrame \/ AllReturned

RateSpec == RateInit /\ [][RateNext]_rateVars

-----------------------------------------------------------------------------
(* Properties.                                                             *)

FirstOfGop(n) == Max({m \in 0..n : NewGop(m)})

(* "At this point, total_bits_coded of the current state contains the      *)
(* number of bits written encoder->owf frames before the current frame":   *)
(* the bits and the number of pictures that the target of a group is       *)
(* computed from are those of the same pictures, the first ones, whatever  *)
(* of the frames in flight has been written; and all frames of a group    *)
(* have the target of its first frame.  Groups that are not low delay are  *)
(* left out: their partial group is subtracted with a remainder that is    *)
(* zero or negative.                                                       *)
BudgetExact ==
  /\ ~InPartialGop(0) /\ alloc.frame # NoFrame =>
       /\ alloc.pictures = Largest(0, alloc.frame - rc.owf)
       /\ alloc.bits = FirstBits(alloc.pictures)
  /\ \A s \in States : lambda[s] # NoFrame =>
       gopTarget[s] = FirstOfGop(lambda[s])

(* Rate control corrects its model by what a frame and an LCU took with the*)
(* lambda that they had: when a frame is started whose statistics are used,*)
(* the length, the lambda, the weights and the bits of all LCUs are those  *)
(* of one frame, the one that the state coded before, and there is one.    *)
StatsOfOneFrame ==
  LET n == started
      s == StateOf(n)
      m == n - rc.owf - 1
  IN n - returned <= rc.owf /\ HasStats(n) =>
       /\ m >= 0 /\ lambda[s] = m
       /\ last[s] = [frame |-> m, length |-> FirstBits(m + 1) - FirstBits(m)]
       /\ \A l \in LcuIds : weight[s][l] = m /\ bits[s][l] = m /\ lcuLambda[s][l] = m
=============================================================================
