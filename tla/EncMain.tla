------------------------------- MODULE EncMain -------------------------------
(***************************************************************************)
(* The command line program, src/src/encmain.c: an input thread that reads *)
(* pictures ahead of the main thread, which encodes them, writes the       *)
(* bitstream and, with --debug, the reconstructed pictures.                *)
(*                                                                         *)
(* The two threads share input_handler_args and two semaphores.  Pictures  *)
(* are numbered by their presentation time, which is the number of pictures*)
(* read before them.  The encoder itself is external here: it keeps some of*)
(* the pictures it is given and gives them back in a limited reordering.   *)
(* Operators named Wrong... are plausible mistakes in the definition that  *)
(* follows them and are not part of the specification.                     *)
(***************************************************************************)
EXTENDS Naturals, FiniteSets

CONSTANTS Frames,      (* --frames, 0 when it is not given                 *)
          MaxFrames,   (* bound: pictures in the input file                *)
          Latency,     (* pictures the encoder may keep                    *)
          Reorder,     (* how far a picture may overtake earlier ones      *)
          ReconSize,   (* KVZ_MAX_GOP_LENGTH, size of recon_buffer         *)
          LoopInputs,  (* whether --loop-input is given: the values checked*)
          MayFail,     (* whether reading, writing and allocation may fail *)
          NoPic        (* a NULL picture                                   *)

ASSUME SizesNat == /\ Frames \in Nat /\ MaxFrames \in Nat
                   /\ Latency \in Nat /\ Reorder \in Nat /\ ReconSize \in Nat
ASSUME Flags    == LoopInputs \subseteq BOOLEAN /\ MayFail \in BOOLEAN
(* A bound: --loop-input without --frames never ends.                      *)
ASSUME LoopEnds == TRUE \in LoopInputs => Frames > 0
ASSUME NoPicNew == NoPic \notin Nat
(* A picture overtakes others of its group of pictures only, which has at  *)
(* most KVZ_MAX_GOP_LENGTH pictures.                                       *)
ASSUME ReorderFits == Reorder < ReconSize

VARIABLES
  avail, filled,         (* available_input_slots, filled_input_slots      *)
  imgIn, retval,         (* input_handler_args.img_in and .retval          *)
  rpc,                   (* control point of the input thread              *)
  frameIn, rretval,      (* its frame_in and retval                        *)
  framesRead,            (* its frames_read                                *)
  loopInput,             (* --loop-input                                   *)
  fileLen, pos,          (* pictures in the input file, and passed in it   *)
  atEnd,                 (* yuv_io_seek met the end of the input (feof)    *)
  rfile, opened,         (* input_handler_args.input; the files open       *)
  mpc,                   (* control point of main                          *)
  curIn,                 (* cur_in_img                                     *)
  inside, given,         (* the encoder: pictures kept, pictures received  *)
  out,                   (* the picture whose chunks encoder_encode gave   *)
  recon, nextPts,        (* recon_buffer, next_recon_pts                   *)
  live,                  (* pictures that main or the input thread must    *)
                         (* still free                                     *)
  semsAlive,             (* the semaphores have not been destroyed         *)
  code,                  (* exit status                                    *)
  closedTwice            (* main has closed a file that was not open       *)

sharedVars == <<avail, filled, imgIn, retval, semsAlive>>
givenVars  == <<loopInput, fileLen, atEnd>>
readerVars == <<rpc, frameIn, rretval, framesRead, givenVars, pos, rfile>>
mainVars   == <<mpc, curIn, inside, given, out, recon, nextPts, code,
                closedTwice>>
vars       == <<sharedVars, readerVars, mainVars, live, opened>>

WrongInitialSlots == 1
InitialSlots      == 0

(* The file that main opened is number 0; each reopening takes a new one.  *)
(* --seek may have passed some of its pictures, by fseek, or by reading,   *)
(* which can set the end-of-file indicator that only feof sees.            *)
Init ==
  /\ avail = InitialSlots /\ filled = 0
  /\ imgIn = NoPic /\ retval = "RUNNING"
  /\ rpc = "top" /\ frameIn = NoPic /\ rretval = "RUNNING" /\ framesRead = 0
  /\ loopInput \in LoopInputs /\ fileLen \in 0..MaxFrames
  /\ pos \in 0..fileLen /\ atEnd \in BOOLEAN /\ (atEnd => pos = fileLen)
  /\ rfile = 0 /\ opened = {0}
  /\ mpc = "top" /\ curIn = NoPic
  /\ inside = {} /\ given = 0 /\ out = NoPic
  /\ recon = {} /\ nextPts = 0
  /\ live = {} /\ semsAlive = TRUE
  /\ code = "SUCCESS" /\ closedTwice = FALSE

-----------------------------------------------------------------------------
(* The input thread, input_read_thread.                                    *)

(* goto done                                                               *)
Done(status) == rretval' = status /\ rpc' = "doneslot"

(* A picture that was read leaves feof as it was: fread reads no further.  *)
InputEmpty == atEnd \/ (Frames # 0 /\ framesRead >= Frames)

RTop ==
  /\ rpc = "top"
  /\ \/ /\ InputEmpty
        /\ Done("EOF")
        /\ UNCHANGED <<frameIn, live>>
     \/ /\ ~InputEmpty /\ MayFail
        /\ Done("FAILURE")
        /\ UNCHANGED <<frameIn, live>>
     \/ /\ ~InputEmpty
        /\ frameIn' = framesRead
        /\ live' = live \cup {framesRead}
        /\ rpc' = "read"
        /\ UNCHANGED rretval
  /\ UNCHANGED <<sharedVars, framesRead, givenVars, pos, rfile, mainVars,
                 opened>>

ReadOne(newPos) ==
  /\ pos' = newPos
  /\ framesRead' = framesRead + 1
  /\ rpc' = "slot"
  /\ UNCHANGED rretval

(* yuv_io_read succeeds, or reaches the end of the file, or fails; so does *)
(* the read after the file was opened again, from its beginning.           *)
RRead ==
  /\ rpc = "read"
  /\ \/ pos < fileLen /\ ReadOne(pos + 1) /\ UNCHANGED <<rfile, opened>>
     \/ /\ pos = fileLen /\ ~loopInput
        /\ Done("EOF")
        /\ UNCHANGED <<framesRead, pos, rfile, opened>>
     \/ /\ pos = fileLen /\ loopInput
        /\ rfile' = rfile + 1
        /\ \/ /\ MayFail \* fopen fails
              /\ opened' = opened \ {rfile}
              /\ Done("FAILURE")
              /\ UNCHANGED <<framesRead, pos>>
           \/ /\ opened' = (opened \ {rfile}) \cup {rfile + 1}
              /\ \/ fileLen > 0 /\ ReadOne(1)
                 \/ (fileLen = 0 \/ MayFail) /\ Done("FAILURE") /\ UNCHANGED <<framesRead, pos>>
     \/ /\ MayFail
        /\ Done("FAILURE")
        /\ UNCHANGED <<framesRead, pos, rfile, opened>>
  /\ UNCHANGED <<sharedVars, frameIn, givenVars, mainVars, live>>

(* kvz_sem_wait(available_input_slots)                                     *)
RSlot ==
  /\ rpc \in {"slot", "doneslot"} /\ avail > 0
  /\ avail' = avail - 1
  /\ rpc' = IF rpc = "slot" THEN "put" ELSE "doneput"
  /\ UNCHANGED <<filled, imgIn, retval, semsAlive, frameIn, rretval, framesRead,
                 givenVars, pos, rfile, mainVars, live, opened>>

(* Hand over the picture, or the end of the input; then kvz_sem_post.      *)
RPut ==
  /\ rpc \in {"put", "doneput"}
  /\ imgIn' = IF rpc = "put" THEN frameIn ELSE NoPic
  /\ retval' = rretval
  /\ rpc' = IF rpc = "put" THEN "post" ELSE "donepost"
  /\ UNCHANGED <<avail, filled, semsAlive, frameIn, rretval, framesRead,
                 givenVars, pos, rfile, mainVars, live, opened>>

RPost ==
  /\ rpc \in {"post", "donepost"}
  /\ filled' = filled + 1
  /\ IF rpc = "post" THEN rpc' = "top" /\ frameIn' = NoPic
                     ELSE rpc' = "cleanup" /\ UNCHANGED frameIn
  /\ UNCHANGED <<avail, imgIn, retval, semsAlive, rretval, framesRead,
                 givenVars, pos, rfile, mainVars, live, opened>>

(* picture_free(frame_in), pthread_exit                                    *)
Freed(p)      == {p}

(* After an error main destroys the semaphores without waiting for the     *)
(* input thread, which may still be on its way to sem_wait.  avail is then *)
(* 0, so that in every defined outcome it stays there until the process    *)
(* ends.                                                                   *)
RCleanup ==
  /\ rpc = "cleanup"
  /\ live' = live \ Freed(frameIn)
  /\ frameIn' = NoPic
  /\ rpc' = "exit"
  /\ UNCHANGED <<sharedVars, rretval, framesRead, givenVars, pos, rfile, mainVars,
                 opened>>

Reader == RTop \/ RRead \/ RSlot \/ RPut \/ RPost \/ RCleanup

-----------------------------------------------------------------------------
(* The main thread.                                                        *)

ReaderRuns      == retval = "RUNNING"

MTop ==
  /\ mpc = "top"
  /\ IF ReaderRuns
       THEN avail' = avail + 1 /\ mpc' = "wait" /\ UNCHANGED curIn
       ELSE curIn' = NoPic /\ mpc' = "check" /\ UNCHANGED avail
  /\ UNCHANGED <<filled, imgIn, retval, semsAlive, readerVars, inside, given,
                 out, recon, nextPts, code, closedTwice, live, opened>>

MWait ==
  /\ mpc = "wait" /\ filled > 0
  /\ filled' = filled - 1
  /\ mpc' = "take"
  /\ UNCHANGED <<avail, imgIn, retval, semsAlive, readerVars, curIn, inside, given,
                 out, recon, nextPts, code, closedTwice, live, opened>>

MTake ==
  /\ mpc = "take"
  /\ curIn' = imgIn
  /\ imgIn' = NoPic
  /\ mpc' = "check"
  /\ UNCHANGED <<avail, filled, retval, semsAlive, readerVars, inside, given,
                 out, recon, nextPts, code, closedTwice, live, opened>>

InputFailed      == retval = "FAILURE"

Fail == code' = "FAILURE" /\ mpc' = "destroy"

MCheck ==
  /\ mpc = "check"
  /\ IF InputFailed THEN Fail ELSE mpc' = "encode" /\ UNCHANGED code
  /\ UNCHANGED <<sharedVars, readerVars, curIn, inside, given, out, recon,
                 nextPts, closedTwice, live, opened>>

(* The encoder, encoder_encode: any that keeps the promise of              *)
(* PictureReorder.                                                         *)
Encoder == INSTANCE PictureReorder WITH Capacity <- Latency, Window <- Reorder,
                                        MaxPics <- Frames + MaxFrames,
                                        held <- inside, arrived <- given

MEncode ==
  /\ mpc = "encode"
  /\ LET new == {curIn} \ {NoPic}
         gone == (inside \cup new) \ inside'
     IN /\ Encoder!Call(new)
        /\ out' = IF gone = {} THEN NoPic ELSE CHOOSE p \in gone : TRUE
  /\ mpc' = "output"
  /\ UNCHANGED <<sharedVars, readerVars, curIn, recon, nextPts, code, closedTwice,
                 live, opened>>

MEncodeFails ==
  /\ mpc = "encode" /\ MayFail
  /\ Fail
  /\ live' = live \ {curIn}
  /\ UNCHANGED <<sharedVars, readerVars, curIn, inside, given, out, recon,
                 nextPts, closedTwice, opened>>

WrongFinished == curIn = NoPic
WrongFinishedRunning == out = NoPic /\ curIn = NoPic /\ retval = "RUNNING"
Finished      == out = NoPic /\ curIn = NoPic

(* The chunks are written to the file, the reconstruction goes through     *)
(* recon_buffer: output_recon_pictures writes every picture whose turn has *)
(* come.                                                                   *)
WrongNextPast(buf, n)  == n + Cardinality(buf)
NextAfter(buf, n)      == CHOOSE m \in n..(n + Cardinality(buf)) :
                            m \notin buf /\ n..m \subseteq buf \cup {m}

Kept(buf, n)      == {p \in buf : p >= n}

MOutput ==
  /\ mpc = "output" /\ ~Finished
  /\ IF out = NoPic
       THEN UNCHANGED <<recon, nextPts>>
       ELSE LET buf == recon \cup {out} IN
              /\ nextPts' = NextAfter(buf, nextPts)
              /\ recon' = Kept(buf, nextPts')
  /\ live' = live \ {curIn}
  /\ out' = NoPic /\ curIn' = NoPic
  /\ mpc' = "top"
  /\ UNCHANGED <<sharedVars, readerVars, inside, given, code, closedTwice, opened>>

MWriteFails ==
  /\ mpc = "output" /\ out # NoPic /\ MayFail
  /\ Fail
  /\ live' = live \ {curIn}
  /\ UNCHANGED <<sharedVars, readerVars, curIn, inside, given, out, recon,
                 nextPts, closedTwice, opened>>

MFinish ==
  /\ mpc = "output" /\ Finished
  /\ mpc' = "join"
  /\ UNCHANGED <<sharedVars, readerVars, curIn, inside, given, out, recon,
                 nextPts, code, closedTwice, live, opened>>

Joined == rpc = "exit"

MJoin ==
  /\ mpc = "join" /\ Joined
  /\ mpc' = "destroy"
  /\ UNCHANGED <<sharedVars, readerVars, curIn, inside, given, out, recon,
                 nextPts, code, closedTwice, live, opened>>

MDestroy ==
  /\ mpc = "destroy"
  /\ semsAlive' = FALSE
  /\ mpc' = "close"
  /\ UNCHANGED <<avail, filled, imgIn, retval, readerVars, curIn, inside, given,
                 out, recon, nextPts, code, closedTwice, live, opened>>

(* fclose(input), with the FILE pointer that main itself opened.           *)
MClose ==
  /\ mpc = "close"
  /\ closedTwice' = (0 \notin opened)
  /\ opened' = opened \ {0}
  /\ mpc' = "end"
  /\ UNCHANGED <<sharedVars, readerVars, curIn, inside, given, out, recon,
                 nextPts, code, live>>

MainThread == \/ MTop \/ MWait \/ MTake \/ MCheck \/ MEncode \/ MEncodeFails
              \/ MOutput \/ MWriteFails \/ MFinish \/ MJoin \/ MDestroy \/ MClose

(* The process, and with it the input thread, ends when main returns.      *)
Ended == mpc = "end" /\ UNCHANGED vars

Next == (mpc # "end" /\ Reader) \/ MainThread \/ Ended

(* Both threads run, and input and output operations end.                  *)
Spec == Init /\ [][Next]_vars /\ WF_vars(mpc # "end" /\ Reader)
             /\ WF_vars(MainThread)

-----------------------------------------------------------------------------
(* Properties.                                                             *)

Statuses == {"RUNNING", "EOF", "FAILURE"}
Pics     == Nat \cup {NoPic}

(* Every variable keeps to its kind of value, and recon_buffer to          *)
(* KVZ_MAX_GOP_LENGTH: the assertion before img_rec is stored.             *)
TypeOK ==
  /\ avail \in Nat /\ filled \in Nat /\ semsAlive \in BOOLEAN
  /\ imgIn \in Pics /\ frameIn \in Pics /\ curIn \in Pics /\ out \in Pics
  /\ retval \in Statuses /\ rretval \in Statuses
  /\ framesRead \in Nat /\ loopInput \in BOOLEAN
  /\ fileLen \in 0..MaxFrames /\ pos \in 0..fileLen /\ atEnd \in BOOLEAN
  /\ nextPts \in 0..framesRead
  /\ inside \subseteq live \cup 0..framesRead /\ recon \subseteq 0..framesRead
  /\ rpc \in {"top", "read", "slot", "put", "post",
              "doneslot", "doneput", "donepost", "cleanup", "exit"}
  /\ mpc \in {"top", "wait", "take", "check", "encode", "output",
              "join", "destroy", "close", "end"}
  /\ code \in {"SUCCESS", "FAILURE"} /\ closedTwice \in BOOLEAN
  /\ mpc = "output" /\ out # NoPic => Cardinality(recon) < ReconSize

(* The input thread writes input_handler_args without a lock.  It does so  *)
(* only while main waits for filled_input_slots, never while main reads    *)
(* retval or img_in, and never over a picture that main has not taken.     *)
ArgsExclusive ==
  rpc \in {"put", "doneput"} => mpc = "wait" /\ imgIn = NoPic

(* When the program succeeds, every picture that was read was encoded and  *)
(* its reconstruction written in presentation order, across the handover,  *)
(* the encoder's delay and the reorder buffer of the reconstructions.  The *)
(* input thread has ended before the semaphores it uses are destroyed, and *)
(* every picture has been freed by exactly the thread it was left with.    *)
(* A read error in the input thread makes the program fail; and unless the *)
(* input was repeated every file is closed, once.                          *)
AllWritten ==
  code = "SUCCESS" =>
    /\ mpc \in {"join", "destroy", "close", "end"}
         => nextPts = framesRead /\ recon = {} /\ inside = {}
    /\ ~semsAlive => rpc = "exit" /\ live = {} /\ rretval # "FAILURE"
    /\ mpc = "end" /\ rfile = 0 => opened = {} /\ ~closedTwice

(* The two threads never wait for each other for ever: main ends.          *)
EventuallyEnds == <>(mpc = "end")
=============================================================================
