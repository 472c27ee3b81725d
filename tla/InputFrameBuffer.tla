--------------------------- MODULE InputFrameBuffer ---------------------------
(***************************************************************************)
(* src/src/input_frame_buffer.c: kvz_encoder_feed_frame takes the pictures *)
(* in presentation order and returns them in coding order, each with its   *)
(* decoding time (DTS) and its position in the group of pictures.          *)
(*                                                                         *)
(* A picture is the number of pictures given before it.  The index that    *)
(* the code gives a picture is one less, and starts at -1.                 *)
(* Operators named Wrong... are plausible mistakes in the definition that  *)
(* follows them and are not part of the specification.                     *)
(***************************************************************************)
EXTENDS Integers, Sequences, FiniteSets

CONSTANTS Configs,   (* the configurations to consider, records with the   *)
                     (* fields gopLen, gop, lowDelay, openGop, intraPeriod *)
          MaxIn,     (* bound: number of pictures given                    *)
          Gaps,      (* where the presentation times may jump              *)
          Jump,      (* ... and by how much                                *)
          MaxGopLen, (* the length of the longest group                    *)
          None       (* a NULL picture                                     *)

ASSUME ConfigsShape ==
  \A c \in Configs : /\ c.gopLen \in Nat /\ c.intraPeriod \in Nat
                     /\ c.gop \in Seq([poc : Nat, neg : Seq(Nat),
                                       pos : Seq(Nat), isRef : BOOLEAN])
                     /\ Len(c.gop) = c.gopLen /\ c.gopLen <= MaxGopLen
(* A group that is coded out of order has each of its pictures once (the   *)
(* tables of cfg.c), and if groups are closed, the pictures between two    *)
(* intra pictures are whole groups (the check of cfg.c:1389, which lets a  *)
(* period of 1 pass: the README says what happens then).                   *)
ASSUME GroupsWhole ==
  \A c \in Configs : c.gopLen > 0 /\ ~c.lowDelay =>
    /\ \A k \in 1..c.gopLen : c.gop[k].poc \in 1..c.gopLen
    /\ \A p \in 1..c.gopLen : \E k \in 1..c.gopLen : c.gop[k].poc = p
    /\ \A j, k \in 1..c.gopLen : c.gop[j].poc = c.gop[k].poc => j = k
    /\ ~c.openGop => c.intraPeriod % c.gopLen = 0
(* The last picture of a group is not the first one to be shown.           *)
ASSUME LastIsLater ==
  \A c \in Configs : c.gopLen > 0 /\ ~c.lowDelay => c.gop[c.gopLen].poc > 1
ASSUME BoundsNat == MaxIn \in Nat /\ MaxGopLen \in Nat \ {0} /\ Gaps \subseteq Nat /\ Jump \in Nat
ASSUME NoneNew   == /\ None \notin Nat
                    /\ None \notin [pic : Nat, dts : Int, offset : Nat]

VARIABLES
  cfg, gapAt,               (* the configuration; where the times jump     *)
  picBuffer, ptsBuffer,     (* pic_buffer, pts_buffer                      *)
  numIn, numOut,            (* num_in, num_out                             *)
  delay, gopSkipped,        (* delay, gop_skipped                          *)
  out,                      (* what the last call returned                 *)
  assertsOk,                (* no assertion has failed                     *)
  ended,                    (* the caller has no more pictures             *)
  returned, lastDts         (* history: pictures returned, the last DTS    *)

bufVars == <<picBuffer, ptsBuffer, numIn, delay, gopSkipped>>
vars    == <<cfg, gapAt, bufVars, numOut, out, assertsOk, ended, returned, lastDts>>

BufSize  == 3 * cfg.gopLen
IsClosed == ~cfg.openGop /\ cfg.intraPeriod > 0 /\ cfg.gopLen > 0
Direct   == cfg.gopLen = 0 \/ cfg.lowDelay

(* gop_len + is_closed_gop: the pictures needed before output starts.      *)
WrongEnough == cfg.gopLen + 2
Enough      == cfg.gopLen + (IF IsClosed THEN 1 ELSE 0)

Slot(idx) == (idx + BufSize) % BufSize

(* poc_offset of a position; the table is zero behind the group.           *)
PocOffset(k) == IF k < cfg.gopLen THEN cfg.gop[k + 1].poc ELSE 0

(* The presentation time that the caller gives picture p.                  *)
Pts(p) == IF p >= gapAt THEN p + Jump ELSE p

Init ==
  /\ cfg \in Configs /\ gapAt \in Gaps
  /\ picBuffer = [s \in 0..(BufSize - 1) |-> None]
  /\ ptsBuffer = [s \in 0..(BufSize - 1) |-> 0]
  /\ numIn = 0 /\ numOut = 0 /\ delay = 0 /\ gopSkipped = 0
  /\ out = None /\ assertsOk = TRUE /\ ended = FALSE
  /\ returned = {} /\ lastDts = None

-----------------------------------------------------------------------------
(* The next picture and its DTS.                                           *)

(* Return picture p; None stands for the NULL that the assertion excludes. *)
Return(p, dts, offset) ==
  /\ out' = [pic |-> p, dts |-> dts, offset |-> offset]
  /\ numOut' = numOut + 1
  /\ returned' = returned \cup {p}
  /\ lastDts' = dts

ReturnNull == out' = None /\ UNCHANGED <<numOut, returned, lastDts>>

(* Every closed group of intra_period + 1 pictures starts with an IRAP     *)
(* picture that is not in the table.                                       *)
IrapDue == IsClosed /\ (numOut - 1) % (cfg.intraPeriod + 1) = cfg.intraPeriod

WrongExtraFrames == 0
ExtraFrames      == IF ~cfg.openGop /\ cfg.intraPeriod > 0
                      THEN (numOut - 1) \div (cfg.intraPeriod + 1) ELSE 0
GopOffset == (numOut - 1 - ExtraFrames) % cfg.gopLen
GopStart  == numOut - 1 - GopOffset

(* The positions that the code tries, and those whose picture is there     *)
(* when there are n pictures.                                              *)
Tried           == (GopOffset + gopSkipped)..(Enough - 1)
IdxAt(k)        == GopStart + PocOffset(k) - 1
Present(n)      == {k \in Tried : IdxAt(k) < n - 1}
FirstPresent(n) == CHOOSE k \in Present(n) : \A j \in Present(n) : k <= j

WrongDtsLate(pts, d) ==
  IF numOut = 0 THEN pts[BufSize - 1] + d
  ELSE IF numOut <= cfg.gopLen THEN pts[(numOut - 1) % BufSize] + d
  ELSE pts[(numOut - (cfg.gopLen - 1)) % BufSize]
DtsOf(pts, d) ==
  IF numOut = 0 THEN pts[BufSize - 1] + d
  ELSE IF numOut < cfg.gopLen - 1 THEN pts[(numOut - 1) % BufSize] + d
  ELSE pts[(numOut - (cfg.gopLen - 1)) % BufSize]

(* Return the picture with index idx and forget it.                        *)
Without(pics, idx)      == [pics EXCEPT ![Slot(idx)] = None]

Take(pics, idx, dts, offset) ==
  /\ assertsOk' = (assertsOk /\ pics[Slot(idx)] # None)
  /\ picBuffer' = Without(pics, idx)
  /\ Return(pics[Slot(idx)], dts, offset)

(* The second half of kvz_encoder_feed_frame, when the buffer holds pics,  *)
(* the times are pts, n pictures have come and the delay is d.             *)
Output(pics, pts, n, d) ==
  /\ ptsBuffer' = pts /\ numIn' = n /\ delay' = d
  /\ \/ /\ numOut = 0
        /\ Take(pics, -1, DtsOf(pts, d), 0)
        /\ UNCHANGED gopSkipped
     \/ /\ numOut > 0 /\ IrapDue
        /\ Take(pics, GopStart, DtsOf(pts, d), GopOffset + gopSkipped)
        /\ UNCHANGED gopSkipped
     \/ /\ numOut > 0 /\ ~IrapDue /\ Present(n) # {}
        /\ LET k == FirstPresent(n) IN
             /\ Take(pics, IdxAt(k), DtsOf(pts, d), k)
             /\ gopSkipped' = k - GopOffset
     \/ /\ numOut > 0 /\ ~IrapDue /\ Present(n) = {}
        /\ assertsOk' = FALSE /\ picBuffer' = pics /\ ReturnNull
        /\ UNCHANGED gopSkipped

-----------------------------------------------------------------------------
(* kvz_encoder_feed_frame with a picture and without one.                  *)

(* --gop=0 and low delay groups: pictures are returned as they come.       *)
DirectOffset ==
  IF cfg.gopLen = 0 THEN 0
  ELSE LET n == IF cfg.intraPeriod > 0 THEN numOut % cfg.intraPeriod ELSE numOut
       IN (n + cfg.gopLen - 1) % cfg.gopLen

FeedDirect ==
  /\ Direct
  /\ Return(numIn, Pts(numIn), DirectOffset)
  /\ numIn' = numIn + 1
  /\ UNCHANGED <<picBuffer, ptsBuffer, delay, gopSkipped, assertsOk>>

FeedBuffered ==
  /\ ~Direct
  /\ LET slot == Slot(numIn - 1)
         pics == [picBuffer EXCEPT ![slot] = numIn]
         pts  == [ptsBuffer EXCEPT ![slot] = Pts(numIn)]
         n    == numIn + 1
         d    == IF n = Enough THEN pts[BufSize - 1] - Pts(numIn) ELSE delay
     IN IF picBuffer[slot] # None
          THEN assertsOk' = FALSE /\ ReturnNull /\ UNCHANGED bufVars
        ELSE IF n < Enough
          THEN /\ picBuffer' = pics /\ ptsBuffer' = pts /\ numIn' = n
               /\ ReturnNull
               /\ UNCHANGED <<delay, gopSkipped, assertsOk>>
        ELSE Output(pics, pts, n, d)

Feed == /\ ~ended /\ assertsOk /\ numIn < MaxIn
        /\ FeedDirect \/ FeedBuffered
        /\ UNCHANGED <<cfg, gapAt, ended>>

(* A sequence with less than a group of pictures takes its delay from its  *)
(* first and last pictures.                                                *)
ShortDelay      == IF numIn < Enough
                     THEN ptsBuffer[BufSize - 1] - ptsBuffer[Slot(numIn - 2)]
                     ELSE delay

WrongAllReturned == numOut >= numIn - 1
AllReturned      == numOut = numIn

Flush ==
  /\ assertsOk
  /\ ended' = TRUE
  /\ IF Direct \/ AllReturned
       THEN ReturnNull /\ UNCHANGED <<bufVars, assertsOk>>
       ELSE Output(picBuffer, ptsBuffer, numIn, ShortDelay)
  /\ UNCHANGED <<cfg, gapAt>>

Next == Feed \/ Flush

(* The caller goes on calling once it has no more pictures.                *)
Spec == Init /\ [][Next]_vars /\ WF_vars(ended /\ Flush)

-----------------------------------------------------------------------------
(* Properties.                                                             *)

Given == 0..(numIn - 1)
Held  == {picBuffer[s] : s \in DOMAIN picBuffer} \ {None}

(* Every variable keeps to its kind of value.                              *)
TypeOK ==
  /\ picBuffer \in [0..(BufSize - 1) -> Given \cup {None}]
  /\ ptsBuffer \in [0..(BufSize - 1) -> Nat]
  /\ numIn \in 0..MaxIn /\ numOut \in 0..numIn
  /\ delay \in Int /\ delay <= 0
  /\ gopSkipped \in Nat /\ gopSkipped < cfg.gopLen + 1
  /\ out = None \/ out \in [pic : Given, dts : Int, offset : 0..cfg.gopLen]

(* No picture is lost or returned twice when slots are used again, groups  *)
(* are not full or the sequence ends: those not yet returned are there.    *)
(* The assertions of kvz_encoder_feed_frame hold: the slot of an arriving  *)
(* picture is free, the search for an available picture ends within the    *)
(* group and the picture that is due is in the buffer.                     *)
NoPictureLost == /\ assertsOk
                 /\ Cardinality(returned) = numOut
                 /\ Held = Given \ returned

(* Decoding times increase, across the change from the delayed times of    *)
(* the first pictures to those of earlier pictures, and no picture is to   *)
(* be shown before it is decoded.                                          *)
DecodingTimes ==
  [][numOut' > numOut => /\ numOut > 0 => lastDts' > lastDts
                         /\ lastDts' <= Pts(out'.pic)]_vars

(* Every picture comes out once the caller goes on calling without one.    *)
AllComeOut == ended ~> numOut = numIn

(* The buffer keeps the promise of PictureReorder for the longest group.   *)
Reorder   == INSTANCE PictureReorder WITH Capacity <- MaxGopLen,
                                          Window <- MaxGopLen - 1,
                                          MaxPics <- MaxIn,
                                          held <- Held, arrived <- numIn
Implements == Reorder!Spec
=============================================================================
