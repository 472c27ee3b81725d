--------------------------- MODULE PictureOwnership ---------------------------
(***************************************************************************)
(* Who owns the pictures: the reference counts of kvz_picture and          *)
(* cu_array_t (src/src/image.c, cu.c), which the caller, the input buffer, *)
(* the ring of encoder states, the lists of references that the states     *)
(* copy from each other (imagelist.c) and the sub-images of the tiles take *)
(* and drop, over the calls of kvazaar.c up to kvazaar_close.              *)
(*                                                                         *)
(* Counts change in the thread of the caller only; jobs read what they     *)
(* were given when their frame was started.  Which pictures are references,*)
(* which are dropped from a list and which picture the input buffer        *)
(* returns is left open here; PictureOrder says which.                     *)
(* Operators named Wrong... are plausible mistakes in the definition that  *)
(* follows them and are not part of the specification.                     *)
(***************************************************************************)
EXTENDS Integers, Sequences, FiniteSets, FiniteSetsExt, SequencesExt

CONSTANTS Configs,   (* the configurations: records with the number of     *)
                     (* additional states owf, lossless, the number of     *)
                     (* tiles, the delay of the input buffer and a bound   *)
                     (* pics on the pictures given                         *)
          None       (* a NULL pointer                                     *)

ASSUME OwnershipConfigs ==
  \A c \in Configs : /\ c.owf \in Nat /\ c.tiles \in Nat \ {0}
                     /\ c.delay \in Nat /\ c.pics \in Nat /\ c.lossless \in BOOLEAN

VARIABLES
  cfg,                    (* the configuration                             *)
  count,                  (* refcount of every object that has one         *)
  assertsOk,              (* no assertion on a reference count has failed  *)
  caller,                 (* the references of the caller: object -> number*)
  held,                   (* pic_buffer of the input frame buffer          *)
  given,                  (* the number of pictures given                  *)
  src, rec, cua,          (* state->tile->frame->source, rec, cu_array     *)
  list,                   (* state->frame->ref: images and cu_arrays       *)
  subs,                   (* the sub-images and sub-arrays of the tiles    *)
  num, prepared, busy,    (* frame->num, frame->prepared, ~frame->done     *)
  cur, oldest,            (* cur_state_num, out_state_num                  *)
  running, used,          (* the frame has jobs to do; what they read      *)
  phase                   (* "open", "output", "stopped", "closed"         *)

stateVars == <<src, rec, cua, list, subs, num>>
ringVars  == <<prepared, busy, cur, oldest, running, used>>
ownVars   == <<cfg, count, assertsOk, caller, held, given, stateVars,
               ringVars, phase>>

RingStates  == 0..cfg.owf
Previous(s) == (s - 1) % (cfg.owf + 1)
Following(s) == (s + 1) % (cfg.owf + 1)

-----------------------------------------------------------------------------
(* Objects and their counts.  A sub-image is <<"sub", state, tile, base>>. *)

Count(c, o)  == IF o \in DOMAIN c THEN c[o] ELSE 0
Put(c, o, n) == [x \in (DOMAIN c \cup {o}) \ (IF n = 0 THEN {o} ELSE {}) |->
                   IF x = o THEN n ELSE c[x]]

(* kvz_image_alloc and kvz_cu_array_alloc; a count of 1.                   *)
Alloc(c, o) == Put(c, o, Count(c, o) + 1)

(* kvz_image_copy_ref, kvz_cu_array_copy_ref and the two increments of     *)
(* kvz_image_list_add; each asserts that there was a reference before.     *)
CopyRef(c, o) == Put(c, o, Count(c, o) + 1)
MayCopy(c, o) == Count(c, o) >= 1

(* kvz_image_free and kvz_cu_array_free.  The last reference to a          *)
(* sub-image also drops that to its base.                                  *)
IsSub(o) == o[1] = "sub"
Dropped(c, o) == Put(c, o, Count(c, o) - 1)
Free(c, o) ==
  IF o = None THEN c
  ELSE IF IsSub(o) /\ Count(c, o) = 1 THEN Dropped(Dropped(c, o), o[4])
  ELSE Dropped(c, o)

FreeAll(c, objects) == FoldLeft(Free, c, objects)

(* kvz_image_make_subimage and kvz_cu_subarray.                            *)
MakeSub(c, o) == CopyRef(Alloc(c, o), o[4])

(* kvz_image_list_t: a sequence of pictures with their cu arrays.          *)
Images(l)  == [i \in DOMAIN l |-> l[i].image]
Arrays(l)  == [i \in DOMAIN l |-> l[i].array]
Objects(l) == Images(l) \o Arrays(l)

(* A list and the counts, as [list, count, ok], with the pair in front,    *)
(* with only the pairs in kept, and without any.                           *)
ListAdd(w, pair) ==
  [list  |-> <<pair>> \o w.list,
   count |-> CopyRef(CopyRef(w.count, pair.image), pair.array),
   ok    |-> w.ok /\ MayCopy(w.count, pair.image) /\ MayCopy(w.count, pair.array)]
ListKeep(c, l, kept) == FreeAll(c, Objects(SelectSeq(l, LAMBDA e : e \notin kept)))
ListDestroy(c, l)    == FreeAll(c, Objects(l))

(* kvz_image_list_copy_contents adds from the last to the first.           *)
ListCopy(c, target, source) ==
  FoldRight(LAMBDA pair, w : ListAdd(w, pair), source,
            [list |-> <<>>, count |-> ListDestroy(c, target), ok |-> TRUE])

-----------------------------------------------------------------------------
(* kvazaar_open: num_encoder_states zeroed states.                         *)

OwnInit ==
  /\ cfg \in Configs
  /\ count = <<>> /\ assertsOk = TRUE /\ caller = <<>> /\ held = {} /\ given = 0
  /\ src = [s \in RingStates |-> None] /\ rec = [s \in RingStates |-> None]
  /\ cua = [s \in RingStates |-> None] /\ list = [s \in RingStates |-> <<>>]
  /\ subs = [s \in RingStates |-> <<>>]
  /\ num = [s \in RingStates |-> IF s = 0 THEN -1 ELSE 0]
  /\ prepared = [s \in RingStates |-> FALSE] /\ busy = {}
  /\ cur = 0 /\ oldest = 0 /\ running = {}
  /\ used = [s \in RingStates |-> {}] /\ phase = "open"

-----------------------------------------------------------------------------
(* The caller.                                                             *)

(* picture_alloc: a picture to be given.  The number of the next picture   *)
(* is that of those given so far.                                          *)
NewPicture == <<"src", given>>

(* The caller drops a reference it has: of a picture given before, of one  *)
(* that kvazaar_encode returned in pic_out or src_out, or after the close  *)
(* of one that it never gave.                                              *)
CallerFrees ==
  \E o \in DOMAIN caller :
    /\ phase = "closed" \/ (phase = "open" /\ o # NewPicture)
    /\ count' = Free(count, o)
    /\ caller' = Put(caller, o, caller[o] - 1)
    /\ UNCHANGED <<cfg, assertsOk, held, given, stateVars, ringVars, phase>>

CallerAllocates ==
  /\ phase = "open" /\ given < cfg.pics /\ NewPicture \notin DOMAIN caller
  /\ count' = Alloc(count, NewPicture)
  /\ caller' = Put(caller, NewPicture, 1)
  /\ UNCHANGED <<cfg, assertsOk, held, given, stateVars, ringVars, phase>>

-----------------------------------------------------------------------------
(* kvz_encoder_prepare.                                                    *)

(* The cu array that a state owns between two frames.                      *)
Spare(s) == <<"spare", s>>

(* With more than one state the list is that of the state before it, and   *)
(* the cu array a new one.                                                 *)
CopiedList(s) ==
  IF cfg.owf > 0
    THEN ListCopy(Alloc(Free(count, cua[s]), Spare(s)), list[s], list[Previous(s)])
  ELSE [list |-> list[s], count |-> count, ok |-> TRUE]

(* The picture of the frame before may become a reference; own is the cu   *)
(* array that the state has then.                                          *)
WithReference(s, isRef) ==
  LET c   == CopiedList(s)
      p   == Previous(s)
      own == IF cfg.owf > 0 THEN Spare(s) ELSE cua[s]
      r   == ListAdd(c, [image |-> rec[p], array |-> cua[p]])
  IN IF isRef
       THEN [list |-> r.list, count |-> Alloc(Free(r.count, own), Spare(s)),
             own |-> Spare(s), ok |-> r.ok]
       ELSE [list |-> c.list, count |-> c.count, own |-> own, ok |-> c.ok]

FirstFrame(s) == num[s] = -1

(* The state after kvz_encoder_prepare, as a record.                       *)
Prepared(s, isRef) ==
  IF prepared[s]
    THEN [list |-> list[s], count |-> count, num |-> num[s], ok |-> TRUE, src |-> src[s],
          rec |-> rec[s], cua |-> cua[s]]
  ELSE IF FirstFrame(s)
    THEN [list |-> list[s], count |-> count, num |-> 0,
          ok |-> src[s] = None /\ rec[s] = None /\ cua[s] = None,
          src |-> None, rec |-> None, cua |-> None]
  ELSE LET r == WithReference(s, isRef)
       IN [list |-> r.list, num |-> num[Previous(s)] + 1, ok |-> r.ok,
           count |-> FreeAll(r.count, <<src[s], rec[s], r.own>>),
           src |-> None, rec |-> None, cua |-> None]

-----------------------------------------------------------------------------
(* kvz_encode_one_frame for picture p, after kvz_encoder_prepare gave w.   *)

(* encoder_set_source_picture: lossless pictures are their own             *)
(* reconstruction.                                                         *)
RecOf(w, p) == IF cfg.lossless THEN p ELSE <<"rec", w.num>>
CuaOf(w)    == <<"cua", w.num>>

(* encoder_state_encode: a tile drops its old sub-images and takes new     *)
(* ones, each of which holds a reference to its base.                      *)
NewSubs(s, w, p) ==
  IF cfg.tiles = 1 THEN <<>>
  ELSE FlattenSeq([t \in 1..cfg.tiles |->
         << <<"sub", s, <<t, "src">>, p>>, <<"sub", s, <<t, "rec">>, RecOf(w, p)>>,
            <<"sub", s, <<t, "cua">>, CuaOf(w)>> >>])

WithSubs(c, s, w, p) == FoldLeft(MakeSub, FreeAll(c, subs[s]), NewSubs(s, w, p))

(* encoder_state_remove_refs drops any of the references, in any place.    *)
Started(s, w, p, kept) ==
  LET l     == SelectSeq(w.list, LAMBDA e : e \in kept)
      alloc == Alloc(IF cfg.lossless THEN CopyRef(w.count, p)
                                 ELSE Alloc(w.count, RecOf(w, p)), CuaOf(w))
  IN [list  |-> l,
      count |-> WithSubs(ListKeep(alloc, w.list, kept), s, w, p),
      ok    |-> w.ok /\ w.src = None /\ w.rec = None /\ w.cua = None
                /\ MayCopy(w.count, p)]

Start(s, w, p, r) ==   (* r: what Started gives                           *)
    /\ count' = r.count /\ assertsOk' = (assertsOk /\ r.ok)
    /\ list' = [list EXCEPT ![s] = r.list]
    /\ src' = [src EXCEPT ![s] = p]
    /\ rec' = [rec EXCEPT ![s] = RecOf(w, p)]
    /\ cua' = [cua EXCEPT ![s] = CuaOf(w)]
    /\ subs' = [subs EXCEPT ![s] = NewSubs(s, w, p)]
    /\ running' = running \cup {s} /\ busy' = busy \cup {s}
    /\ used' = [used EXCEPT ![s] =
                  ToSet(Objects(r.list)) \cup ToSet(NewSubs(s, w, p))
                  \cup {p, RecOf(w, p), CuaOf(w)}]

OnlyPrepare(s, w) ==
  /\ count' = w.count /\ assertsOk' = (assertsOk /\ w.ok)
  /\ list' = [list EXCEPT ![s] = w.list]
  /\ src' = [src EXCEPT ![s] = w.src]
  /\ rec' = [rec EXCEPT ![s] = w.rec]
  /\ cua' = [cua EXCEPT ![s] = w.cua]
  /\ UNCHANGED <<subs, running, busy, used>>

-----------------------------------------------------------------------------
(* kvazaar_encode.                                                         *)

(* kvz_encoder_feed_frame takes a reference to a picture that is given and *)
(* passes one on with the picture that it returns, if any.                 *)
Returned(inside) == inside \cup (IF Cardinality(inside) <= cfg.delay THEN {None} ELSE {})

FrameFed(w, flush) == IF flush THEN w ELSE [w EXCEPT !.count = CopyRef(@, NewPicture)]
EncodeNext(s, w, flush, inside) ==
  \E p \in IF flush /\ held # {} THEN held ELSE Returned(inside) :
    /\ held' = inside \ {p}
    /\ num' = [num EXCEPT ![s] = w.num]
    /\ prepared' = [prepared EXCEPT ![s] = TRUE]
    /\ IF p = None THEN OnlyPrepare(s, w)
       ELSE \E kept \in SUBSET ToSet(w.list) : Start(s, w, p, Started(s, w, p, kept))
    /\ cur' = IF s \in busy' THEN Following(s) ELSE s
    /\ phase' = IF oldest \in busy' /\ (flush \/ cur' = oldest) THEN "output" ELSE "open"
CallEncode(flush) ==
  /\ phase = "open" /\ assertsOk
  /\ flush \/ NewPicture \in DOMAIN caller
  /\ \E isRef \in BOOLEAN :
       EncodeNext(cur, FrameFed(Prepared(cur, isRef), flush), flush,
                  IF flush THEN held ELSE held \cup {NewPicture})
  /\ given' = IF flush THEN given ELSE given + 1
  /\ UNCHANGED <<cfg, caller, oldest>>

(* The caller gets references to the reconstruction and the source.        *)
GiveOut(o) == CopyRef(CopyRef(count, rec[o]), src[o])

CallOutput ==
  /\ phase = "output" /\ oldest \notin running
  /\ count' = GiveOut(oldest)
  /\ assertsOk' = (assertsOk /\ MayCopy(count, rec[oldest]) /\ MayCopy(count, src[oldest]))
  /\ caller' = CopyRef(CopyRef(caller, rec[oldest]), src[oldest])
  /\ busy' = busy \ {oldest}
  /\ prepared' = [prepared EXCEPT ![oldest] = FALSE]
  /\ oldest' = Following(oldest)
  /\ phase' = "open"
  /\ UNCHANGED <<cfg, held, given, stateVars, cur, running, used>>

(* The bitstream of a frame is written after all of its other jobs, and    *)
(* after that of the frame before.                                         *)
FrameJobsEnd ==
  /\ \E s \in running :
       /\ \A t \in running : num[s] <= num[t]
       /\ running' = running \ {s}
       /\ used' = [used EXCEPT ![s] = {}]
  /\ UNCHANGED <<cfg, count, assertsOk, caller, held, given, stateVars, prepared,
                 busy, cur, oldest, phase>>

-----------------------------------------------------------------------------
(* kvazaar_close, at any time between two calls.                           *)

(* kvz_threadqueue_stop: jobs in progress end, the others never run.       *)
WrongStopped == running
StopsJobs    == {}
CloseStops ==
  /\ phase = "open" /\ assertsOk
  /\ running' = StopsJobs /\ phase' = "stopped"
  /\ used' = [s \in RingStates |-> IF s \in running' THEN used[s] ELSE {}]
  /\ UNCHANGED <<cfg, count, assertsOk, caller, held, given, stateVars, prepared, busy,
                 cur, oldest>>

(* The input buffer is emptied, then each state is finalized: its tiles,   *)
(* its source, reconstruction and cu array, and its list.                  *)
OwnedBy(s)  == subs[s] \o <<src[s], rec[s], cua[s]>> \o Objects(list[s])
CloseFrees ==
  /\ phase = "stopped"
  /\ count' = FoldSet(LAMBDA s, c : FreeAll(c, OwnedBy(s)),
                      FoldSet(LAMBDA p, c : Free(c, p), count, held), RingStates)
  /\ held' = {} /\ phase' = "closed"
  /\ src' = [s \in RingStates |-> None] /\ rec' = [s \in RingStates |-> None]
  /\ cua' = [s \in RingStates |-> None] /\ list' = [s \in RingStates |-> <<>>]
  /\ subs' = [s \in RingStates |-> <<>>]
  /\ UNCHANGED <<cfg, assertsOk, caller, given, num, ringVars>>

AllFreed == phase = "closed" /\ caller = <<>> /\ UNCHANGED ownVars

OwnNext ==
  \/ CallerAllocates \/ CallerFrees
  \/ \E flush \in BOOLEAN : CallEncode(flush)
  \/ CallOutput \/ FrameJobsEnd \/ CloseStops \/ CloseFrees \/ AllFreed

OwnSpec == OwnInit /\ [][OwnNext]_ownVars

-----------------------------------------------------------------------------
(* Properties.                                                             *)

Occurrences(o, seq) == Cardinality({i \in DOMAIN seq : seq[i] = o})
SubsOf(s) == ToSet(subs[s])

(* Every count is the number of references that exist: those of the caller,*)
(* of the input buffer, of the states, of their lists and of sub-images.   *)
(* So nothing is freed twice and, as nothing is left when the encoder is   *)
(* closed and the caller has dropped its references, nothing is leaked,    *)
(* whenever the encoder is closed.  The assertions of kvz_encoder_prepare, *)
(* encoder_set_source_picture and the copy_ref functions hold.             *)
HeldBy(s, o) == Occurrences(o, OwnedBy(s)) + Cardinality({b \in SubsOf(s) : b[4] = o})
References(o) == Count(caller, o) + (IF o \in held THEN 1 ELSE 0)
                 + MapThenSumSet(LAMBDA s : HeldBy(s, o), RingStates)
CountsExact ==
  /\ assertsOk
  /\ \A o \in DOMAIN count : count[o] = References(o)
  /\ DOMAIN caller \cup held \cup UNION {ToSet(OwnedBy(s)) : s \in RingStates}
       \subseteq DOMAIN count \cup {None}

(* With exact counts, whatever the jobs of a frame were given is alive     *)
(* until they end: the source, the reconstruction, the tiles and the       *)
(* references, while other states are prepared, drop them from their lists *)
(* or are finalized, and whatever the caller frees.                        *)
PicturesAlive ==
  /\ CountsExact
  /\ \A s \in running : used[s] \subseteq DOMAIN count /\ used[s] \subseteq ToSet(OwnedBy(s))
=============================================================================
