---------------------------- MODULE EncMainProofs ----------------------------
(***************************************************************************)
(* The handover of pictures between the two threads of encmain.c is safe   *)
(* for every input, every encoder delay and every failure.  The argument   *)
(* counts one token: main creates it by posting available_input_slots, the *)
(* input thread takes it, and main takes it back from filled_input_slots.  *)
(***************************************************************************)
EXTENDS EncMain, Integers, FiniteSetTheorems, WellFoundedInduction, TLAPS

InHand  == IF rpc \in {"put", "doneput", "post", "donepost"} THEN 1 ELSE 0
Waiting == IF mpc = "wait" THEN 1 ELSE 0

(* There is a token exactly while main waits.                              *)
OneToken == avail \in Nat /\ filled \in Nat /\ avail + filled + InHand = Waiting

(* img_in holds a picture only from the input thread's put to main's take. *)
SlotUse == imgIn # NoPic => rpc \in {"post", "donepost"} \/ filled > 0 \/ mpc = "take"

IInv == OneToken /\ SlotUse

(* The invariant implies what the code relies on.                          *)
LEMMA IInvImplies == IInv => ArgsExclusive
<1> SUFFICES ASSUME IInv, rpc \in {"put", "doneput"}
             PROVE  mpc = "wait" /\ imgIn = NoPic
  BY DEF ArgsExclusive
<1>1. InHand = 1
  BY DEF InHand
<1>2. Waiting \in {0, 1} /\ avail \in Nat /\ filled \in Nat
      /\ avail + filled + InHand = Waiting
  BY DEF IInv, OneToken, Waiting
<1>3. Waiting = 1 /\ filled = 0
  BY <1>1, <1>2
<1>4. mpc = "wait"
  BY <1>3 DEF Waiting
<1>5. imgIn = NoPic
  BY <1>3, <1>4 DEF IInv, SlotUse
<1> QED BY <1>4, <1>5

(* The input thread passes the token on and creates none.                  *)
LEMMA ReaderKeeps == IInv /\ Reader => IInv'
<1> SUFFICES ASSUME IInv, Reader PROVE IInv'
  OBVIOUS
<1> USE DEF IInv, OneToken, SlotUse, InHand, Waiting, sharedVars, readerVars,
            mainVars
<1>1. CASE RTop
  BY <1>1 DEF RTop, Done
<1>2. CASE RRead
  BY <1>2 DEF RRead, ReadOne, Done
<1>3. CASE RSlot
  BY <1>3 DEF RSlot
<1>4. CASE RPut
  BY <1>4 DEF RPut
<1>5. CASE RPost
  BY <1>5 DEF RPost
<1>6. CASE RCleanup
  BY <1>6 DEF RCleanup
<1> QED BY <1>1, <1>2, <1>3, <1>4, <1>5, <1>6 DEF Reader

(* main creates the token when it starts to wait and takes it back when it *)
(* stops.                                                                  *)
LEMMA MainKeeps == IInv /\ MainThread => IInv'
<1> SUFFICES ASSUME IInv, MainThread PROVE IInv'
  OBVIOUS
<1> USE DEF IInv, OneToken, SlotUse, InHand, Waiting, sharedVars, readerVars
<1>1. CASE MTop
  BY <1>1 DEF MTop
<1>2. CASE MWait
  <2>1. mpc = "wait" /\ mpc' = "take" /\ filled > 0 /\ filled' = filled - 1
        /\ avail' = avail /\ rpc' = rpc
    BY <1>2 DEF MWait
  <2>2. Waiting = 1 /\ Waiting' = 0 /\ InHand' = InHand /\ InHand \in {0, 1}
    BY <2>1
  <2>3. filled' \in Nat
    BY <2>1
  <2>4. avail' + filled' + InHand' = Waiting'
    BY <2>1, <2>2
  <2> QED BY <2>1, <2>3, <2>4
<1>3. CASE MTake
  BY <1>3 DEF MTake
<1>4. CASE MCheck
  BY <1>4 DEF MCheck, Fail
<1>5. CASE MEncode
  BY <1>5 DEF MEncode
<1>6. CASE MEncodeFails
  BY <1>6 DEF MEncodeFails, Fail
<1>7. CASE MOutput
  BY <1>7 DEF MOutput
<1>8. CASE MWriteFails
  BY <1>8 DEF MWriteFails, Fail
<1>9. CASE MFinish
  BY <1>9 DEF MFinish
<1>10. CASE MJoin
  BY <1>10 DEF MJoin
<1>11. CASE MDestroy
  BY <1>11 DEF MDestroy
<1>12. CASE MClose
  BY <1>12 DEF MClose
<1> QED BY <1>1, <1>2, <1>3, <1>4, <1>5, <1>6, <1>7, <1>8, <1>9, <1>10, <1>11,
           <1>12 DEF MainThread

(* The invariant holds in every reachable state.                           *)
LEMMA IInvHolds == Spec => []IInv
<1>1. Init => IInv
  BY DEF Init, IInv, OneToken, SlotUse, InHand, Waiting, InitialSlots
<1>2. IInv /\ [Next]_vars => IInv'
  <2> SUFFICES ASSUME IInv, [Next]_vars PROVE IInv'
    OBVIOUS
  <2>1. CASE Reader
    BY <2>1, ReaderKeeps
  <2>2. CASE MainThread
    BY <2>2, MainKeeps
  <2>3. CASE UNCHANGED vars
    BY <2>3 DEF vars, sharedVars, readerVars, mainVars, IInv, OneToken, SlotUse,
                InHand, Waiting
  <2> QED BY <2>1, <2>2, <2>3 DEF Next, Ended
<1> QED BY <1>1, <1>2, PTL DEF Spec

(* input_handler_args is never used by both threads at once, and no        *)
(* picture in img_in is overwritten before main has taken it.              *)
THEOREM HandoverIsSafe == Spec => []ArgsExclusive
BY IInvHolds, IInvImplies, PTL

-----------------------------------------------------------------------------
(* Every picture is accounted for.                                         *)

(* The picture of a variable, as a set.                                    *)
Opt(p) == {p} \ {NoPic}

(* The kinds of values, without the relations between variables.           *)
Kinds ==
  /\ semsAlive \in BOOLEAN
  /\ imgIn \in Pics /\ frameIn \in Pics /\ curIn \in Pics /\ out \in Pics
  /\ retval \in Statuses /\ rretval \in Statuses
  /\ framesRead \in Nat /\ given \in Nat
  /\ loopInput \in BOOLEAN /\ fileLen \in 0..MaxFrames /\ pos \in 0..fileLen
  /\ atEnd \in BOOLEAN
  /\ rpc \in {"top", "read", "slot", "put", "post",
              "doneslot", "doneput", "donepost", "cleanup", "exit"}
  /\ mpc \in {"top", "wait", "take", "check", "encode", "output",
              "join", "destroy", "close", "end"}
  /\ code \in {"SUCCESS", "FAILURE"} /\ closedTwice \in BOOLEAN

(* What the input thread holds at each point, and its status.              *)
InputInv ==
  /\ rpc \in {"top", "exit"} => frameIn = NoPic
  /\ rpc = "read" => frameIn = framesRead
  /\ rpc \in {"slot", "put", "post"} => frameIn \in Nat /\ framesRead = frameIn + 1
  /\ rpc \in {"doneslot", "doneput", "donepost", "cleanup"} =>
       frameIn \in {NoPic, framesRead}
  /\ rretval = "RUNNING" <=> rpc \in {"top", "read", "slot", "put", "post"}

(* What input_handler_args says of the input thread.                       *)
HandoverInv ==
  /\ retval = "RUNNING" <=> rpc \notin {"donepost", "cleanup", "exit"}
  /\ retval # "RUNNING" => retval = rretval /\ imgIn = NoPic
  /\ rpc = "post" => imgIn = frameIn
  /\ filled > 0 \/ mpc = "take" => imgIn # NoPic \/ retval # "RUNNING"
  /\ imgIn # NoPic => imgIn = given

(* The picture that main has in hand, and why it has none.                 *)
MainInv ==
  /\ mpc \in {"top", "wait", "take"} => curIn = NoPic
  /\ mpc \in {"check", "encode"} /\ curIn # NoPic => curIn = given
  /\ mpc = "output" /\ curIn # NoPic => curIn + 1 = given
  /\ curIn # NoPic => curIn = given \/ curIn + 1 = given
  /\ mpc \in {"top", "wait", "take", "check", "encode"} => out = NoPic
  /\ mpc = "check" /\ curIn = NoPic => retval # "RUNNING"
  /\ mpc \in {"encode", "output"} /\ curIn = NoPic => retval = "EOF"
  /\ mpc = "output" /\ curIn = NoPic /\ out = NoPic => inside = {}

(* A program that ends without an error ends after the last picture.       *)
EndInv ==
  /\ mpc \in {"join", "destroy", "close", "end"} /\ code = "SUCCESS" =>
       curIn = NoPic /\ out = NoPic /\ retval = "EOF" /\ inside = {}
  /\ mpc \in {"destroy", "close", "end"} /\ code = "SUCCESS" => rpc = "exit"
  /\ ~semsAlive => mpc \in {"close", "end"}
  /\ code = "FAILURE" => mpc \in {"destroy", "close", "end"}

(* Every picture read was given to the encoder, or is the one that main is *)
(* about to give, or lies in img_in, or is on its way there.               *)
CountInv ==
  framesRead = given + (IF curIn = given THEN 1 ELSE 0)
                     + (IF imgIn # NoPic /\ rpc # "post" THEN 1 ELSE 0)
                     + (IF rpc \in {"slot", "put", "post"} THEN 1 ELSE 0)

(* Every picture given to the encoder is still there, or comes out of it   *)
(* now, or waits in recon_buffer for next_recon_pts, or was written.       *)
OrderInv ==
  /\ nextPts \in 0..given
  /\ \A p \in nextPts..(given - 1) : p \in recon \cup inside \cup Opt(out)
  /\ inside \cup Opt(out) \subseteq nextPts..(given - 1)
  /\ recon \subseteq (nextPts + 1)..(given - 1)
  /\ \A p \in recon \cup Opt(out) : p <= nextPts + Reorder
  /\ inside \cap recon = {} /\ out \notin recon \cup inside

(* Each picture that is not freed is in one of three hands.                *)
LiveInv == code = "SUCCESS" => live = Opt(frameIn) \cup Opt(imgIn) \cup Opt(curIn)

(* Without --loop-input the file that main opened stays the input.         *)
FilesInv ==
  /\ rfile \in Nat
  /\ rfile = 0 /\ mpc # "end" => opened = {0}
  /\ rfile = 0 /\ mpc = "end" => opened = {} /\ ~closedTwice

PictureInv == /\ IInv /\ Kinds
              /\ InputInv /\ HandoverInv /\ MainInv /\ EndInv
              /\ CountInv /\ OrderInv /\ LiveInv /\ FilesInv

-----------------------------------------------------------------------------
(* output_recon_pictures stops at the first picture that is missing.  It   *)
(* exists because the buffer is finite; it is the one whose interval from  *)
(* n is smallest, and inclusion of finite intervals is well-founded.       *)
LEMMA NextAfterIs ==
  ASSUME NEW buf, IsFiniteSet(buf), NEW n \in Nat
  PROVE  /\ NextAfter(buf, n) \in n..(n + Cardinality(buf))
         /\ NextAfter(buf, n) \notin buf
         /\ n..NextAfter(buf, n) \subseteq buf \cup {NextAfter(buf, n)}
<1>1. Cardinality(buf) \in Nat
  BY FS_CardinalityType
<1> DEFINE last == n + Cardinality(buf)
           gaps == (n..last) \ buf
<1>2. n \in Int /\ last \in Int /\ last >= n
  BY <1>1
<1>3. gaps # {}
  <2> SUFFICES ASSUME n..last \subseteq buf PROVE FALSE
    OBVIOUS
  <2>1. Cardinality(n..last) <= Cardinality(buf)
    BY FS_Subset, Zenon
  <2>2. Cardinality(n..last) = IF n > last THEN 0 ELSE last - n + 1
    BY <1>2, FS_Interval, Zenon
  <2> QED
    BY <1>1, <1>2, <2>1, <2>2
<1>4. PICK m \in gaps : \A k \in gaps : m <= k
  <2> DEFINE starts == {n..k : k \in gaps}
  <2>1. starts \subseteq FiniteSubsetsOf(n..last)
    <3>1. IsFiniteSet(n..last)
      BY <1>2, FS_Interval, Zenon
    <3>2. ASSUME NEW k \in gaps
          PROVE  n..k \subseteq n..last /\ IsFiniteSet(n..k)
      <4>1. n..k \subseteq n..last
        BY <1>2
      <4> QED
        BY <3>1, <4>1, FS_Subset, Zenon
    <3> QED
      BY <3>2 DEF FiniteSubsetsOf
  <2>2. starts # {}
    BY <1>3
  <2>3. IsWellFoundedOn(StrictSubsetOrdering(n..last), FiniteSubsetsOf(n..last))
    BY FS_StrictSubsetOrderingWellFounded, Zenon
  <2> HIDE DEF gaps
  <2>4. PICK s \in starts : \A t \in starts : ~ (<<t, s>> \in StrictSubsetOrdering(n..last))
    <3> HIDE DEF starts
    <3> QED
      BY <2>1, <2>2, <2>3, WFMin, Zenon
  <2>5. PICK m \in gaps : s = n..m
    BY <2>4
  <2>6. ASSUME NEW k \in gaps PROVE m <= k
    <3> SUFFICES ASSUME k < m PROVE FALSE
      BY <1>2, <2>6 DEF gaps
    <3>1. n..k \subseteq n..last /\ n..m \subseteq n..last
      BY <1>2 DEF gaps
    <3>2. n..k \subseteq n..m
      BY <1>2 DEF gaps
    <3>3. m \in n..m /\ m \notin n..k
      BY <1>2 DEF gaps
    <3>4. n..k \in starts
      OBVIOUS
    <3> HIDE DEF starts
    <3> QED
      BY <2>4, <2>5, <3>1, <3>2, <3>3, <3>4 DEF StrictSubsetOrdering
  <2> QED
    BY <2>6
<1>5. m \in n..last /\ m \notin buf /\ n..m \subseteq buf \cup {m}
  BY <1>2, <1>4
<1> QED
  BY <1>5 DEF NextAfter

-----------------------------------------------------------------------------
(* The steps of the input thread.                                          *)

(* What the token says of the two threads.                                 *)
LEMMA TokenSays ==
  ASSUME IInv
  PROVE  /\ rpc \in {"put", "doneput", "post", "donepost"} =>
              mpc = "wait" /\ filled = 0 /\ avail = 0
         /\ avail > 0 => mpc = "wait" /\ filled = 0
         /\ filled > 0 => /\ mpc = "wait" /\ filled = 1 /\ avail = 0
                          /\ rpc \notin {"put", "doneput", "post", "donepost"}
         /\ imgIn # NoPic => mpc \in {"wait", "take"}
<1>1. Waiting \in {0, 1} /\ InHand \in {0, 1} /\ avail \in Nat /\ filled \in Nat
      /\ avail + filled + InHand = Waiting
  BY DEF IInv, OneToken, Waiting, InHand
<1>2. rpc \in {"put", "doneput", "post", "donepost"} <=> InHand = 1
  BY DEF InHand
<1>3. mpc = "wait" <=> Waiting = 1
  BY DEF Waiting
<1>4. imgIn # NoPic => InHand = 1 \/ filled > 0 \/ mpc = "take"
  BY DEF IInv, SlotUse, InHand
<1> QED
  BY <1>1, <1>2, <1>3, <1>4

LEMMA ReaderKinds ==
  ASSUME PictureInv, Reader
  PROVE  Kinds' /\ InputInv'
<1> USE DEF PictureInv, Kinds, InputInv, Pics, Statuses, sharedVars, givenVars,
            readerVars, mainVars
<1>1. CASE RTop
  BY <1>1, NoPicNew DEF RTop, Done
<1>2. CASE RRead
  BY <1>2, SizesNat, NoPicNew DEF RRead, ReadOne, Done
<1>3. CASE RSlot
  BY <1>3 DEF RSlot
<1>4. CASE RPut
  BY <1>4 DEF RPut
<1>5. CASE RPost
  BY <1>5, NoPicNew DEF RPost
<1>6. CASE RCleanup
  BY <1>6, NoPicNew DEF RCleanup
<1> QED
  BY <1>1, <1>2, <1>3, <1>4, <1>5, <1>6 DEF Reader

(* A picture goes into img_in when main waits with nothing in hand, so     *)
(* that it is the next one the encoder gets.                               *)
LEMMA ReaderHandover ==
  ASSUME PictureInv, Reader
  PROVE  HandoverInv' /\ CountInv'
<1>1. /\ rpc \in {"put", "doneput", "post", "donepost"} =>
              mpc = "wait" /\ filled = 0 /\ avail = 0
      /\ imgIn # NoPic => mpc \in {"wait", "take"}
  BY TokenSays DEF PictureInv
<1>2. /\ mpc = "wait" => curIn = NoPic
      /\ rpc \in {"put", "doneput"} => imgIn = NoPic
  BY IInvImplies, <1>1 DEF PictureInv, MainInv, ArgsExclusive
<1> USE DEF PictureInv, Kinds, HandoverInv, CountInv, InputInv, sharedVars,
            givenVars, readerVars, mainVars
<1>3. CASE RTop
  BY <1>3 DEF RTop, Done
<1>4. CASE RRead
  BY <1>4 DEF RRead, ReadOne, Done
<1>5. CASE RSlot
  BY <1>5 DEF RSlot
<1>6. CASE RPut
  <2>1. CASE rpc = "put"
    <3>1. framesRead = given + 1
      BY <1>1, <1>2, <2>1, NoPicNew
    <3> QED
      BY <1>1, <1>2, <1>6, <2>1, <3>1, NoPicNew DEF RPut
  <2>2. CASE rpc = "doneput"
    BY <1>1, <1>2, <1>6, <2>2, NoPicNew DEF RPut
  <2> QED
    BY <1>6, <2>1, <2>2 DEF RPut
<1>7. CASE RPost
  BY <1>1, <1>2, <1>7, NoPicNew DEF RPost, Pics
<1>8. CASE RCleanup
  BY <1>8 DEF RCleanup
<1> QED
  BY <1>3, <1>4, <1>5, <1>6, <1>7, <1>8 DEF Reader

(* What concerns main alone.  Only the status of the input matters to it,  *)
(* which changes while main waits.                                         *)
LEMMA ReaderMain ==
  ASSUME PictureInv, Reader, mpc # "end"
  PROVE  MainInv' /\ EndInv' /\ OrderInv'
<1>1. UNCHANGED <<mainVars, semsAlive>>
  BY DEF Reader, RTop, RRead, RSlot, RPut, RPost, RCleanup, sharedVars
<1>2. retval' # retval => mpc = "wait"
  BY TokenSays DEF PictureInv, Reader, RTop, RRead, RSlot, RPut, RPost, RCleanup,
                   sharedVars
<1>3. rpc # "exit"
  BY DEF Reader, RTop, RRead, RSlot, RPut, RPost, RCleanup
<1>4. MainInv'
  BY <1>1, <1>2 DEF PictureInv, MainInv, mainVars
<1>5. EndInv'
  BY <1>1, <1>2, <1>3 DEF PictureInv, EndInv, mainVars
<1>6. OrderInv'
  BY <1>1 DEF PictureInv, OrderInv, Opt, mainVars
<1> QED
  BY <1>4, <1>5, <1>6

(* The input thread frees the picture it is left with, and only that one.  *)
LEMMA ReaderLive ==
  ASSUME PictureInv, Reader, mpc # "end"
  PROVE  LiveInv' /\ FilesInv'
<1>1. /\ rpc = "cleanup" => retval # "RUNNING" /\ imgIn = NoPic
      /\ rpc \in {"put", "doneput"} => imgIn = NoPic
  BY IInvImplies DEF PictureInv, HandoverInv, ArgsExclusive
<1>2. rpc = "cleanup" /\ curIn # NoPic => curIn # frameIn
  <2> SUFFICES ASSUME rpc = "cleanup", curIn # NoPic, curIn = frameIn PROVE FALSE
    OBVIOUS
  <2>1. frameIn = framesRead
    BY DEF PictureInv, InputInv
  <2>2. framesRead \in Nat /\ given \in Nat /\ curIn \in Nat
    BY DEF PictureInv, Kinds, Pics
  <2>3. curIn = given \/ curIn + 1 = given
    BY DEF PictureInv, MainInv
  <2>4. framesRead >= given /\ (curIn = given => framesRead > given)
    BY <2>2 DEF PictureInv, CountInv
  <2> QED
    BY <2>1, <2>2, <2>3, <2>4
<1> USE DEF PictureInv, LiveInv, FilesInv, sharedVars, givenVars, readerVars,
            mainVars, Opt
<1>3. CASE RTop
  BY <1>3, NoPicNew DEF RTop, Done, InputInv, Kinds
<1>4. CASE RRead
  BY <1>4 DEF RRead, ReadOne, Done
<1>5. CASE RSlot
  BY <1>5 DEF RSlot
<1>6. CASE RPut
  BY <1>1, <1>6 DEF RPut
<1>7. CASE RPost
  BY <1>7 DEF RPost, HandoverInv
<1>8. CASE RCleanup
  BY <1>1, <1>2, <1>8 DEF RCleanup, Freed
<1> QED
  BY <1>3, <1>4, <1>5, <1>6, <1>7, <1>8 DEF Reader

-----------------------------------------------------------------------------
(* The steps of main.                                                      *)

(* The call of the encoder: what it may give back.                         *)
LEMMA EncoderCall ==
  ASSUME PictureInv, MEncode
  PROVE  /\ mpc = "encode" /\ mpc' = "output"
         /\ given' = given + (IF curIn = NoPic THEN 0 ELSE 1)
         /\ \/ out' = NoPic /\ inside' = inside \cup Opt(curIn)
               /\ (curIn = NoPic => inside' = {})
            \/ /\ out' \in inside \cup Opt(curIn)
               /\ inside' = (inside \cup Opt(curIn)) \ {out'}
               /\ \A q \in inside \cup Opt(curIn) : out' <= q + Reorder
         /\ UNCHANGED <<sharedVars, readerVars, curIn, recon, nextPts, code,
                        closedTwice, live, opened>>
<1> DEFINE new  == {curIn} \ {NoPic}
           have == inside \cup new
           gone == have \ inside'
<1>1. Encoder!Call(new) /\ out' = IF gone = {} THEN NoPic ELSE CHOOSE p \in gone : TRUE
  BY DEF MEncode
<1>2. Cardinality(new) = IF curIn = NoPic THEN 0 ELSE 1
  <2>1. CASE curIn = NoPic
    <3>1. new = {}
      BY <2>1
    <3> QED
      BY <2>1, <3>1, FS_EmptySet
  <2>2. CASE curIn # NoPic
    <3>1. new = {curIn}
      BY <2>2
    <3> QED
      BY <2>2, <3>1, FS_Singleton
  <2> QED
    BY <2>1, <2>2
<1>3. given' = given + Cardinality(new)
  <2>1. Encoder!Cardinality(new) = Cardinality(new)
    BY Zenon DEF Encoder!Cardinality, Cardinality
  <2> QED
    BY <1>1, <2>1 DEF Encoder!Call
<1>4. \/ new # {} /\ inside' = have
      \/ have = {} /\ inside' = {}
      \/ \E p \in have : (\A q \in have : p <= q + Reorder) /\ inside' = have \ {p}
  BY <1>1 DEF Encoder!Call, Encoder!MayGive
<1>5. new = Opt(curIn)
  BY DEF Opt
<1>6. \/ out' = NoPic /\ inside' = have /\ (curIn = NoPic => inside' = {})
      \/ /\ out' \in have /\ inside' = have \ {out'}
         /\ \A q \in have : out' <= q + Reorder
  <2>1. CASE new # {} /\ inside' = have
    <3>1. gone = {}
      BY <2>1
    <3> QED
      BY <1>1, <2>1, <3>1
  <2>2. CASE have = {} /\ inside' = {}
    <3>1. gone = {}
      BY <2>2
    <3> QED
      BY <1>1, <2>2, <3>1
  <2>3. ASSUME NEW p \in have, \A q \in have : p <= q + Reorder, inside' = have \ {p}
        PROVE  out' = p
    <3>1. gone = {p}
      BY <2>3
    <3>2. (CHOOSE x \in gone : TRUE) = p
      BY <3>1
    <3> QED
      BY <1>1, <3>1, <3>2
  <2> QED
    BY <1>4, <2>1, <2>2, <2>3
<1> HIDE DEF new, have, gone
<1> QED
  BY <1>2, <1>3, <1>5, <1>6 DEF MEncode, have

LEMMA MainKinds ==
  ASSUME PictureInv, MainThread
  PROVE  Kinds' /\ InputInv'
<1> USE DEF sharedVars, givenVars, readerVars
<1>1. UNCHANGED readerVars
  BY DEF MainThread, MTop, MWait, MTake, MCheck, MEncode, MEncodeFails, MOutput,
         MWriteFails, MFinish, MJoin, MDestroy, MClose
<1>2. InputInv'
  BY <1>1 DEF PictureInv, InputInv
<1>3. Kinds'
  <2> USE DEF PictureInv, Kinds, Pics, Statuses
  <2>1. CASE MTop \/ MWait \/ MTake \/ MCheck
    BY <2>1, NoPicNew DEF MTop, MWait, MTake, MCheck, Fail
  <2>2. CASE MEncode
    <3>1. given' \in Nat /\ mpc' = "output"
      BY <2>2, EncoderCall
    <3>2. out' \in Pics
      <4>1. inside \cup Opt(curIn) \subseteq Pics
        BY DEF OrderInv, Opt
      <4> QED
        BY <2>2, <4>1, EncoderCall
    <3> QED
      BY <2>2, <3>1, <3>2 DEF MEncode
  <2>3. CASE MEncodeFails \/ MOutput \/ MWriteFails \/ MFinish
    BY <2>3, NoPicNew DEF MEncodeFails, MOutput, MWriteFails, MFinish, Fail
  <2>4. CASE MJoin
    BY <2>4 DEF MJoin
  <2>5. CASE MDestroy
    <3>1. semsAlive' \in BOOLEAN
      BY <2>5, Zenon DEF MDestroy
    <3> QED
      BY <2>5, <3>1 DEF MDestroy
  <2>6. CASE MClose
    <3>1. closedTwice' \in BOOLEAN
      BY <2>6, Zenon DEF MClose
    <3> QED
      BY <2>6, <3>1 DEF MClose
  <2> QED
    BY <2>1, <2>2, <2>3, <2>4, <2>5, <2>6 DEF MainThread
<1> QED
  BY <1>2, <1>3

(* main takes what the input thread put, and without a picture the input   *)
(* has ended.                                                              *)
LEMMA MainHandover ==
  ASSUME PictureInv, MainThread
  PROVE  HandoverInv' /\ MainInv'
<1>1. /\ filled > 0 => mpc = "wait"
      /\ imgIn # NoPic => mpc \in {"wait", "take"}
      /\ rpc = "post" => mpc = "wait" /\ filled = 0
  BY TokenSays DEF PictureInv
<1> USE DEF PictureInv, Kinds, HandoverInv, MainInv, Pics, Statuses, sharedVars,
            givenVars, readerVars
<1>2. CASE MTop
  BY <1>1, <1>2 DEF MTop, ReaderRuns
<1>3. CASE MWait
  BY <1>1, <1>3 DEF MWait
<1>4. CASE MTake
  BY <1>1, <1>4, NoPicNew DEF MTake, IInv, OneToken
<1>5. CASE MCheck
  BY <1>1, <1>5 DEF MCheck, InputFailed, Fail
<1>6. CASE MEncode
  <2>1. UNCHANGED <<filled, imgIn, retval, rretval, frameIn, rpc, curIn>>
        /\ mpc = "encode" /\ mpc' = "output"
    BY <1>6 DEF MEncode
  <2>2. imgIn = NoPic /\ ~(filled > 0)
    BY <1>1, <2>1
  <2>3. curIn # NoPic => given' = curIn + 1
    BY <1>6, <2>1, EncoderCall
  <2>4. curIn = NoPic /\ out' = NoPic => inside' = {}
    <3>1. inside \subseteq Nat
      BY DEF OrderInv
    <3> QED
      BY <1>6, <3>1, EncoderCall, NoPicNew DEF Opt
  <2> QED
    BY <2>1, <2>2, <2>3, <2>4, NoPicNew
<1>7. CASE MEncodeFails
  BY <1>1, <1>7 DEF MEncodeFails, Fail
<1>8. CASE MOutput
  BY <1>1, <1>8, NoPicNew DEF MOutput
<1>9. CASE MWriteFails
  BY <1>1, <1>9 DEF MWriteFails, Fail
<1>10. CASE MFinish
  BY <1>1, <1>10 DEF MFinish, Finished
<1>11. CASE MJoin \/ MDestroy \/ MClose
  BY <1>1, <1>11 DEF MJoin, MDestroy, MClose
<1> QED
  BY <1>2, <1>3, <1>4, <1>5, <1>6, <1>7, <1>8, <1>9, <1>10, <1>11 DEF MainThread

(* The loop of main ends only when the encoder has nothing left.           *)
LEMMA MainEnd ==
  ASSUME PictureInv, MainThread
  PROVE  EndInv' /\ CountInv'
<1>1. /\ imgIn # NoPic => mpc \in {"wait", "take"}
      /\ rpc = "post" => mpc = "wait"
  BY TokenSays DEF PictureInv
<1> USE DEF PictureInv, Kinds, EndInv, CountInv, MainInv, Pics, Statuses,
            sharedVars, givenVars, readerVars
<1>2. CASE MTop
  BY <1>1, <1>2, NoPicNew DEF MTop
<1>3. CASE MWait
  BY <1>3 DEF MWait
<1>4. CASE MTake
  BY <1>1, <1>4, NoPicNew DEF MTake, HandoverInv
<1>5. CASE MCheck
  BY <1>5 DEF MCheck, Fail
<1>6. CASE MEncode
  <2>1. /\ UNCHANGED <<imgIn, retval, framesRead, rpc, curIn, code, semsAlive>>
        /\ mpc = "encode" /\ mpc' = "output"
    BY <1>6 DEF MEncode
  <2>2. given' = given + (IF curIn = NoPic THEN 0 ELSE 1)
    BY <1>6, EncoderCall
  <2>3. CASE curIn = NoPic
    BY <2>1, <2>2, <2>3
  <2>4. CASE curIn # NoPic
    BY <2>1, <2>2, <2>4
  <2> QED
    BY <2>3, <2>4
<1>7. CASE MEncodeFails
  BY <1>7 DEF MEncodeFails, Fail
<1>8. CASE MOutput
  <2>1. /\ UNCHANGED <<imgIn, retval, framesRead, rpc, code, semsAlive, given>>
        /\ mpc = "output" /\ mpc' = "top" /\ curIn' = NoPic
    BY <1>8 DEF MOutput
  <2>2. curIn # given
    BY <2>1, NoPicNew
  <2> QED
    BY <2>1, <2>2, NoPicNew
<1>9. CASE MWriteFails
  BY <1>9 DEF MWriteFails, Fail
<1>10. CASE MFinish
  BY <1>10 DEF MFinish, Finished
<1>11. CASE MJoin
  BY <1>11 DEF MJoin, Joined
<1>12. CASE MDestroy
  BY <1>12 DEF MDestroy
<1>13. CASE MClose
  BY <1>13 DEF MClose
<1> QED
  BY <1>2, <1>3, <1>4, <1>5, <1>6, <1>7, <1>8, <1>9, <1>10, <1>11, <1>12, <1>13
  DEF MainThread

(* A picture from the encoder goes into recon_buffer, and all those before *)
(* the first missing one go out.                                           *)
LEMMA OutputOrder ==
  ASSUME PictureInv, MOutput, out # NoPic
  PROVE  OrderInv'
<1> DEFINE buf == recon \cup {out}
           m   == NextAfter(buf, nextPts)
<1>1. /\ nextPts' = m /\ recon' = {p \in buf : p >= m}
      /\ UNCHANGED <<inside, given>> /\ out' = NoPic
  BY DEF MOutput, Kept
<1>2. given \in Nat /\ nextPts \in 0..given /\ Reorder \in Nat
  BY SizesNat DEF PictureInv, Kinds, OrderInv
<1>3. buf \subseteq nextPts..(given - 1)
  <2>1. out \in nextPts..(given - 1)
    BY DEF PictureInv, OrderInv, Opt
  <2>2. (nextPts + 1)..(given - 1) \subseteq nextPts..(given - 1)
    BY <1>2
  <2>3. recon \subseteq (nextPts + 1)..(given - 1)
    BY DEF PictureInv, OrderInv
  <2> QED
    BY <2>1, <2>2, <2>3, Zenon
<1>4. IsFiniteSet(buf)
  <2>1. nextPts \in Int /\ given - 1 \in Int
    BY <1>2
  <2>2. IsFiniteSet(nextPts..(given - 1))
    BY <2>1, FS_Interval, Zenon
  <2> QED
    BY <1>3, <2>2, FS_Subset, Zenon
<1>5. /\ m \in nextPts..(nextPts + Cardinality(buf)) /\ m \notin buf
      /\ nextPts..m \subseteq buf \cup {m}
  <2>1. nextPts \in Nat
    BY <1>2
  <2> QED
    BY <1>4, <2>1, NextAfterIs, Zenon
<1>6. Cardinality(buf) \in Nat
  BY <1>4, FS_CardinalityType, Zenon
<1> HIDE DEF m
<1>7. m \in Nat /\ m >= nextPts
  BY <1>2, <1>5, <1>6
<1>8. ASSUME NEW p \in Nat, p >= nextPts, p < m
      PROVE  p \in buf
  <2>1. p \in nextPts..m /\ p # m
    BY <1>2, <1>7, <1>8
  <2> QED
    BY <1>5, <2>1
<1>9. m <= given
  <2> SUFFICES ASSUME m > given PROVE FALSE
    BY <1>2, <1>7
  <2>1. given \in buf
    BY <1>2, <1>8
  <2> QED
    BY <1>2, <1>3, <2>1
<1>10. \A p \in m..(given - 1) : p \in recon' \cup inside'
  <2> SUFFICES ASSUME NEW p \in m..(given - 1) PROVE p \in recon' \cup inside'
    OBVIOUS
  <2>1. p \in nextPts..(given - 1) /\ p >= m
    BY <1>2, <1>7
  <2>2. p \in buf \cup inside
    BY <2>1 DEF PictureInv, OrderInv, Opt
  <2> QED
    BY <1>1, <2>1, <2>2
<1>11. inside \cap buf = {} /\ inside \subseteq nextPts..(given - 1)
  BY DEF PictureInv, OrderInv
<1>12. inside' \subseteq m..(given - 1)
  <2> SUFFICES ASSUME NEW p \in inside PROVE p \in m..(given - 1)
    BY <1>1
  <2>1. p \in nextPts..(given - 1) /\ p \notin buf
    BY <1>11
  <2>2. p \in Nat /\ p >= nextPts
    BY <1>2, <2>1
  <2>3. p >= m
    BY <1>7, <1>8, <2>1, <2>2
  <2> HIDE DEF buf
  <2> QED
    BY <1>2, <1>7, <2>1, <2>3
<1>13. recon' \subseteq (m + 1)..(given - 1)
  <2> SUFFICES ASSUME NEW p \in buf, p >= m PROVE p \in (m + 1)..(given - 1)
    BY <1>1
  <2>1. p # m /\ p \in nextPts..(given - 1)
    BY <1>3, <1>5
  <2> HIDE DEF buf
  <2> QED
    BY <1>2, <1>7, <2>1
<1>14. \A p \in recon' : p <= m + Reorder
  <2> SUFFICES ASSUME NEW p \in buf, p >= m PROVE p <= m + Reorder
    BY <1>1
  <2>1. p <= nextPts + Reorder
    BY DEF PictureInv, OrderInv, Opt
  <2>2. p \in nextPts..(given - 1)
    BY <1>3
  <2> HIDE DEF buf
  <2> QED
    BY <1>2, <1>7, <2>1, <2>2
<1>15. inside' \cap recon' = {}
  BY <1>1, <1>11
<1>16. out' \notin recon' \cup inside'
  <2>1. recon' \cup inside' \subseteq Nat
    BY <1>2, <1>7, <1>12, <1>13
  <2> QED
    BY <1>1, <2>1, NoPicNew
<1>17. Opt(out') = {}
  BY <1>1 DEF Opt
<1>18. nextPts' \in 0..given'
  BY <1>1, <1>2, <1>7, <1>9
<1> HIDE DEF buf
<1>19. nextPts' = m /\ given' = given
  BY <1>1
<1> QED
  BY <1>10, <1>12, <1>13, <1>14, <1>15, <1>16, <1>17, <1>18, <1>19 DEF OrderInv

(* A picture that the encoder gives back overtakes at most Reorder others: *)
(* the next one to be written is among those it holds.                     *)
LEMMA EncodeOrder ==
  ASSUME PictureInv, MEncode
  PROVE  OrderInv'
<1> DEFINE have == inside \cup Opt(curIn)
<1>1. PICK g \in Nat : given' = g
  <2>1. given' = given + (IF curIn = NoPic THEN 0 ELSE 1)
    BY EncoderCall
  <2>2. given' \in Nat
    BY <2>1 DEF PictureInv, Kinds
  <2> QED
    BY <2>2
<1>2. /\ given \in Nat /\ nextPts \in Nat /\ nextPts <= given /\ Reorder \in Nat
      /\ g = given \/ g = given + 1
  <2>1. given \in Nat /\ nextPts \in 0..given
    BY DEF PictureInv, Kinds, OrderInv
  <2>2. given' = given + (IF curIn = NoPic THEN 0 ELSE 1)
    BY EncoderCall
  <2>3. g = given \/ g = given + 1
    BY <1>1, <2>1, <2>2
  <2> QED
    BY <2>1, <2>3, SizesNat
<1>3. out = NoPic /\ Opt(out) = {}
  BY EncoderCall DEF PictureInv, MainInv, Opt
<1>4. curIn # NoPic => curIn = given /\ g = given + 1
  BY <1>1, EncoderCall DEF PictureInv, MainInv
<1>5. curIn = NoPic => g = given
  BY <1>1, <1>2, EncoderCall
<1>6. have \subseteq nextPts..(g - 1)
  <2> SUFFICES ASSUME NEW p \in have PROVE p \in nextPts..(g - 1)
    OBVIOUS
  <2>1. CASE p \in inside
    <3>1. p \in nextPts..(given - 1)
      BY <2>1 DEF PictureInv, OrderInv
    <3> QED
      BY <1>2, <3>1
  <2>2. CASE p = curIn /\ curIn # NoPic
    BY <1>2, <1>4, <2>2
  <2> QED
    BY <2>1, <2>2 DEF Opt
<1>7. recon \subseteq (nextPts + 1)..(given - 1)
  BY DEF PictureInv, OrderInv
<1>8. ASSUME NEW p \in nextPts..(g - 1) PROVE p \in recon \cup have
  <2>1. CASE p \in nextPts..(given - 1)
    BY <1>3, <2>1 DEF PictureInv, OrderInv
  <2>2. CASE p = given /\ g = given + 1
    BY <1>2, <1>4, <1>5, <2>2 DEF Opt
  <2> QED
    BY <1>2, <2>1, <2>2
<1>9. have \cap recon = {}
  <2>1. inside \cap recon = {}
    BY DEF PictureInv, OrderInv
  <2>2. given \notin recon
    BY <1>2, <1>7
  <2> QED
    BY <1>4, <2>1, <2>2 DEF Opt
<1>10. \A p \in recon : p <= nextPts + Reorder
  BY DEF PictureInv, OrderInv
<1>11. NoPic \notin recon \cup have
  <2>1. nextPts..(g - 1) \subseteq Nat /\ (nextPts + 1)..(given - 1) \subseteq Nat
    BY <1>2
  <2>2. recon \cup have \subseteq Nat
    BY <1>6, <1>7, <2>1, Zenon
  <2> QED
    BY <2>2, NoPicNew
<1>12. recon \subseteq (nextPts + 1)..(g - 1) /\ nextPts \in 0..g
  BY <1>2, <1>7
<1> recon' = recon /\ nextPts' = nextPts
  BY EncoderCall
<1>13. CASE out' = NoPic /\ inside' = have
  <2>1. Opt(out') = {}
    BY <1>13 DEF Opt
  <2> HIDE DEF have
  <2> QED
    BY <1>1, <1>6, <1>8, <1>9, <1>10, <1>11, <1>12, <1>13, <2>1 DEF OrderInv
<1>14. CASE /\ out' \in have /\ inside' = have \ {out'}
            /\ \A q \in have : out' <= q + Reorder
  <2>1. Opt(out') = {out'}
    BY <1>11, <1>14 DEF Opt
  <2>2. out' \in nextPts..(g - 1)
    BY <1>6, <1>14
  <2>3. nextPts \in nextPts..(g - 1)
    BY <1>2, <2>2
  <2>4. nextPts \in have
    BY <1>2, <1>7, <1>8, <2>3
  <2>5. out' <= nextPts + Reorder
    BY <1>14, <2>4
  <2> HIDE DEF have
  <2>6. /\ inside' \cup Opt(out') = have
        /\ inside' \cap recon = {} /\ out' \notin recon \cup inside'
    BY <1>9, <1>14, <2>1
  <2>7. \A p \in recon \cup Opt(out') : p <= nextPts + Reorder
    BY <1>10, <2>1, <2>5
  <2>8. \A p \in nextPts..(g - 1) : p \in recon \cup inside' \cup Opt(out')
    BY <1>8, <2>6
  <2> QED
    BY <1>1, <1>6, <1>12, <2>6, <2>7, <2>8 DEF OrderInv
<1> QED
  BY <1>13, <1>14, EncoderCall

LEMMA MainOrder ==
  ASSUME PictureInv, MainThread
  PROVE  OrderInv'
<1>1. CASE MEncode
  BY <1>1, EncodeOrder
<1>2. CASE MOutput /\ out # NoPic
  BY <1>2, OutputOrder
<1>3. CASE MOutput /\ out = NoPic
  <2>1. UNCHANGED <<given, nextPts, recon, inside, out>>
    BY <1>3 DEF MOutput
  <2> QED
    BY <2>1 DEF PictureInv, OrderInv, Opt
<1>4. CASE UNCHANGED <<given, nextPts, recon, inside, out>>
  BY <1>4 DEF PictureInv, OrderInv, Opt
<1> QED
  BY <1>1, <1>2, <1>3, <1>4
  DEF MainThread, MTop, MWait, MTake, MCheck, MEncodeFails, MWriteFails, MFinish,
      MJoin, MDestroy, MClose, Fail

(* main frees the picture that it encoded; the input thread never holds    *)
(* that one.                                                               *)
LEMMA MainLive ==
  ASSUME PictureInv, MainThread
  PROVE  LiveInv' /\ FilesInv'
<1> USE DEF sharedVars, givenVars, readerVars
<1>1. LiveInv'
  <2> USE DEF PictureInv, LiveInv
  <2>1. CASE MTop \/ MTake
    BY <2>1 DEF MTop, MTake, MainInv, Opt
  <2>2. CASE MOutput
    <3>1. /\ live' = live \ {curIn} /\ curIn' = NoPic
          /\ UNCHANGED <<frameIn, imgIn, code>> /\ mpc = "output"
      BY <2>2 DEF MOutput
    <3>2. imgIn = NoPic
      BY <3>1, TokenSays
    <3>3. curIn # NoPic => curIn # frameIn
      <4> SUFFICES ASSUME curIn # NoPic, curIn = frameIn PROVE FALSE
        OBVIOUS
      <4>1. curIn + 1 = given /\ curIn \in Nat /\ given \in Nat /\ framesRead \in Nat
        BY <3>1 DEF MainInv, Kinds, Pics
      <4>2. framesRead >= given /\ (rpc \in {"slot", "put", "post"} => framesRead > given)
        BY <4>1 DEF CountInv
      <4>3. \/ rpc \in {"slot", "put", "post"} /\ framesRead = frameIn + 1
            \/ frameIn = framesRead
        BY DEF InputInv, Kinds
      <4> QED
        BY <4>1, <4>2, <4>3
    <3> QED
      BY <3>1, <3>2, <3>3 DEF Opt
  <2>3. CASE MEncodeFails \/ MWriteFails
    BY <2>3 DEF MEncodeFails, MWriteFails, Fail
  <2>4. CASE MWait \/ MCheck \/ MEncode \/ MFinish \/ MJoin \/ MDestroy \/ MClose
    <3>1. UNCHANGED <<live, frameIn, imgIn, curIn>> /\ (code' = "SUCCESS" => code = "SUCCESS")
      BY <2>4 DEF MWait, MCheck, MEncode, MFinish, MJoin, MDestroy, MClose, Fail
    <3> QED
      BY <3>1 DEF Opt
  <2> QED
    BY <2>1, <2>2, <2>3, <2>4 DEF MainThread
<1>2. FilesInv'
  <2> USE DEF PictureInv, FilesInv
  <2>1. CASE MClose
    <3>1. rfile' = rfile /\ mpc # "end" /\ mpc' = "end" /\ opened' = opened \ {0}
      BY <2>1 DEF MClose
    <3>2. rfile = 0 => ~closedTwice'
      BY <2>1, <3>1, Zenon DEF MClose
    <3> QED
      BY <3>1, <3>2
  <2>2. CASE UNCHANGED <<rfile, opened>> /\ mpc' # "end" /\ mpc # "end"
    BY <2>2
  <2> QED
    BY <2>1, <2>2
    DEF MainThread, MTop, MWait, MTake, MCheck, MEncode, MEncodeFails, MOutput,
        MWriteFails, MFinish, MJoin, MDestroy, Fail
<1> QED
  BY <1>1, <1>2

-----------------------------------------------------------------------------
(* The invariant of the pictures in every reachable state.                 *)
LEMMA PictureInvHolds == Spec => []PictureInv
<1>1. Init => PictureInv
  <2> SUFFICES ASSUME Init PROVE PictureInv
    OBVIOUS
  <2>1. IInv
    BY DEF Init, IInv, OneToken, SlotUse, InHand, Waiting, InitialSlots
  <2>2. fileLen \in 0..MaxFrames /\ loopInput \in BOOLEAN
    BY Flags DEF Init
  <2>3. Kinds
    <3>1. pos \in 0..fileLen
      BY <2>2, SizesNat DEF Init
    <3> QED
      BY <2>2, <3>1 DEF Init, Kinds, Pics, Statuses
  <2>4. InputInv /\ HandoverInv /\ MainInv /\ EndInv
    BY DEF Init, InputInv, HandoverInv, MainInv, EndInv
  <2>5. CountInv /\ LiveInv /\ FilesInv
    BY NoPicNew DEF Init, CountInv, LiveInv, FilesInv, Opt
  <2>6. OrderInv
    BY DEF Init, OrderInv, Opt
  <2> QED
    BY <2>1, <2>3, <2>4, <2>5, <2>6 DEF PictureInv
<1>2. PictureInv /\ [Next]_vars => PictureInv'
  <2> SUFFICES ASSUME PictureInv, [Next]_vars PROVE PictureInv'
    OBVIOUS
  <2>1. CASE mpc # "end" /\ Reader
    <3>1. IInv'
      BY <2>1, ReaderKeeps DEF PictureInv
    <3> QED
      BY <2>1, <3>1, ReaderKinds, ReaderHandover, ReaderMain, ReaderLive DEF PictureInv
  <2>2. CASE MainThread
    <3>1. IInv'
      BY <2>2, MainKeeps DEF PictureInv
    <3> QED
      BY <2>2, <3>1, MainKinds, MainHandover, MainEnd, MainOrder, MainLive DEF PictureInv
  <2>3. CASE UNCHANGED vars
    BY <2>3 DEF vars, sharedVars, readerVars, givenVars, mainVars, PictureInv, IInv,
                OneToken, SlotUse, InHand, Waiting, Kinds, InputInv, HandoverInv,
                MainInv, EndInv, CountInv, OrderInv, LiveInv, FilesInv, Opt
  <2> QED
    BY <2>1, <2>2, <2>3 DEF Next, Ended
<1> QED
  BY <1>1, <1>2, PTL DEF Spec

-----------------------------------------------------------------------------
(* What the invariant says of the properties.                              *)

(* The pictures that wait for next_recon_pts are those the next one has    *)
(* been overtaken by.                                                      *)
LEMMA ReconFits == ASSUME PictureInv PROVE Cardinality(recon) < ReconSize
<1>1. nextPts \in Nat /\ given \in Nat /\ Reorder \in Nat /\ ReconSize \in Nat
  BY SizesNat DEF PictureInv, Kinds, OrderInv
<1>2. recon \subseteq (nextPts + 1)..(nextPts + Reorder)
  <2> SUFFICES ASSUME NEW p \in recon PROVE p \in (nextPts + 1)..(nextPts + Reorder)
    OBVIOUS
  <2>1. p \in (nextPts + 1)..(given - 1) /\ p <= nextPts + Reorder
    BY DEF PictureInv, OrderInv
  <2> QED
    BY <1>1, <2>1
<1> DEFINE first == nextPts + 1
           last  == nextPts + Reorder
<1>3. first \in Int /\ last \in Int /\ last - first + 1 = Reorder
  BY <1>1
<1> HIDE DEF first, last
<1>4. IsFiniteSet(first..last)
      /\ Cardinality(first..last) = IF first > last THEN 0 ELSE last - first + 1
  BY <1>3, FS_Interval, Zenon
<1>5. Cardinality(recon) <= Cardinality(first..last) /\ IsFiniteSet(recon)
  <2>1. recon \subseteq first..last
    BY <1>2 DEF first, last
  <2> QED
    BY <1>4, <2>1, FS_Subset, Zenon
<1>6. Cardinality(recon) \in Nat
  BY <1>5, FS_CardinalityType, Zenon
<1> QED
  BY <1>1, <1>3, <1>4, <1>5, <1>6, ReorderFits

LEMMA PictureInvTypes == PictureInv => TypeOK
<1> SUFFICES ASSUME PictureInv PROVE TypeOK
  OBVIOUS
<1>1. avail \in Nat /\ filled \in Nat
  BY DEF PictureInv, IInv, OneToken
<1>2. given \in Nat /\ framesRead \in Nat /\ nextPts \in 0..given
  BY DEF PictureInv, Kinds, OrderInv
<1>3. framesRead >= given
  BY <1>2 DEF PictureInv, CountInv
<1>4. nextPts \in 0..framesRead /\ nextPts..(given - 1) \subseteq 0..framesRead
      /\ (nextPts + 1)..(given - 1) \subseteq 0..framesRead
  BY <1>2, <1>3
<1>5. inside \subseteq nextPts..(given - 1) /\ recon \subseteq (nextPts + 1)..(given - 1)
  BY DEF PictureInv, OrderInv
<1>6. inside \subseteq live \cup 0..framesRead /\ recon \subseteq 0..framesRead
  BY <1>4, <1>5, Zenon
<1> QED
  BY <1>1, <1>4, <1>6, ReconFits DEF PictureInv, Kinds, TypeOK

LEMMA PictureInvWritten == PictureInv => AllWritten
<1> SUFFICES ASSUME PictureInv, code = "SUCCESS"
             PROVE  /\ mpc \in {"join", "destroy", "close", "end"}
                         => nextPts = framesRead /\ recon = {} /\ inside = {}
                    /\ ~semsAlive => rpc = "exit" /\ live = {} /\ rretval # "FAILURE"
                    /\ mpc = "end" /\ rfile = 0 => opened = {} /\ ~closedTwice
  BY DEF AllWritten
<1>1. ASSUME mpc \in {"join", "destroy", "close", "end"}
      PROVE  /\ curIn = NoPic /\ out = NoPic /\ retval = "EOF" /\ inside = {}
             /\ rpc \in {"donepost", "cleanup", "exit"}
             /\ imgIn = NoPic /\ rretval = "EOF"
  BY <1>1 DEF PictureInv, EndInv, HandoverInv
<1>2. ASSUME mpc \in {"join", "destroy", "close", "end"}
      PROVE  nextPts = framesRead /\ recon = {} /\ inside = {}
  <2>1. given \in Nat /\ framesRead \in Nat /\ nextPts \in 0..given
    BY DEF PictureInv, Kinds, OrderInv
  <2>2. framesRead = given
    BY <1>1, <1>2, <2>1, NoPicNew DEF PictureInv, CountInv
  <2>3. recon \subseteq (nextPts + 1)..(given - 1)
    BY DEF PictureInv, OrderInv
  <2>4. nextPts = given
    <3> SUFFICES ASSUME nextPts # given PROVE FALSE
      OBVIOUS
    <3>1. nextPts \in nextPts..(given - 1)
      BY <2>1
    <3>2. nextPts \in recon
      BY <1>1, <1>2, <3>1 DEF PictureInv, OrderInv, Opt
    <3> QED
      BY <2>1, <2>3, <3>2
  <2>5. recon = {}
    BY <2>1, <2>3, <2>4
  <2> QED
    BY <1>1, <1>2, <2>2, <2>4, <2>5
<1>3. ASSUME ~semsAlive
      PROVE  rpc = "exit" /\ live = {} /\ rretval # "FAILURE"
  <2>1. mpc \in {"close", "end"}
    BY <1>3 DEF PictureInv, EndInv
  <2>2. rpc = "exit" /\ frameIn = NoPic
    BY <2>1 DEF PictureInv, EndInv, InputInv
  <2> QED
    BY <1>1, <2>1, <2>2 DEF PictureInv, LiveInv, Opt
<1>4. mpc = "end" /\ rfile = 0 => opened = {} /\ ~closedTwice
  BY DEF PictureInv, FilesInv
<1> QED
  BY <1>2, <1>3, <1>4

(* Every variable of encmain.c keeps to its kind, and img_rec always finds *)
(* a free place in recon_buffer.                                           *)
THEOREM TypeCorrect == Spec => []TypeOK
BY PictureInvHolds, PictureInvTypes, PTL

(* A program that succeeds has written every picture it read, in           *)
(* presentation order, has waited for its input thread and has freed every *)
(* picture and closed the input once.                                      *)
THEOREM AllWrittenCorrect == Spec => []AllWritten
BY PictureInvHolds, PictureInvWritten, PTL
=============================================================================
