----------------------------- MODULE PictureOrder -----------------------------
(***************************************************************************)
(* Which pictures are intra pictures, which order counts (POC) they get,   *)
(* which reconstructed pictures they may refer to, and what of this the    *)
(* slice header says: kvz_encoder_prepare, encoder_state_init_new_frame,   *)
(* encoder_state_remove_refs and kvz_encoder_create_ref_lists of           *)
(* src/src/encoderstate.c, and the reference picture set of                *)
(* src/src/encoder_state-bitstream.c.                                      *)
(*                                                                         *)
(* A decoder that knows the slice headers alone is modelled beside it; it  *)
(* is not part of the repository.  With several pictures in flight (--owf) *)
(* every encoder state copies the list of the one before it, so that one   *)
(* list stands for all of them.                                            *)
(*                                                                         *)
(* Definitions named Wrong... are not the code: each is the definition     *)
(* after it with one mistake, which a property must notice.                *)
(***************************************************************************)
EXTENDS InputFrameBuffer

VARIABLES
  num, poc, irapPoc,    (* state->frame->num, poc, irap_poc                *)
  gopOffset, pictype,   (* state->frame->gop_offset, pictype               *)
  refs,                 (* state->frame->ref->pocs, the newest first       *)
  prepared,             (* state->frame->prepared                          *)
  headerOk,             (* every slice header could be written             *)
  dpb,                  (* the decoder: the POCs of the pictures it holds, *)
  tid0Poc, cvs,         (* the POC to count from, the number of IDR        *)
                        (* pictures                                        *)
  mismatch,             (* and the POCs on which it and the encoder differ *)
  coded                 (* history: the pictures coded                     *)

encVars == <<num, poc, irapPoc, gopOffset, pictype, refs, headerOk>>
decVars == <<dpb, tid0Poc, cvs, mismatch, coded>>
allVars == <<vars, encVars, decVars, prepared>>

(* Groups that are coded out of order have at most 8 pictures (--gop=8 is  *)
(* the only such table), and there is a whole number of them from one      *)
(* intra picture to the next (the check of cfg.c:1389; a period of 1       *)
(* passes it, see README.md).                                              *)
ASSUME PeriodsFit ==
  \A c \in Configs : c.gopLen > 0 /\ ~c.lowDelay =>
    c.gopLen <= 8 /\ c.intraPeriod % c.gopLen = 0
(* MAX_REF_PIC_COUNT: --ref is less (the check of cfg.c:1401), and so is   *)
(* what an entry of a table names.                                         *)
MaxRefPicCount == 16
ASSUME RefsFit ==
  \A c \in Configs :
    /\ c.refFrames \in 1..(MaxRefPicCount - 1)
    /\ \A k \in 1..c.gopLen :
         Len(c.gop[k].neg) + Len(c.gop[k].pos) < MaxRefPicCount

Elements(list) == {list[i] : i \in DOMAIN list}

TableAt(k) == IF k < cfg.gopLen
                THEN cfg.gop[k + 1]
                ELSE [poc |-> 0, neg |-> <<>>, pos |-> <<>>, isRef |-> FALSE]

OInit ==
  /\ Init
  /\ num = -1 /\ poc = 0 /\ irapPoc = 0 /\ gopOffset = 0 /\ pictype = "NONE"
  /\ refs = <<>> /\ prepared = FALSE /\ headerOk = TRUE
  /\ dpb = {} /\ tid0Poc = 0 /\ cvs = 0 /\ mismatch = {} /\ coded = {}

-----------------------------------------------------------------------------
(* kvz_encoder_prepare: the picture coded last becomes a reference.        *)

IsReference == cfg.gopLen = 0 \/ poc = 0 \/ TableAt(gopOffset).isRef

Prepare ==
  /\ ~prepared /\ headerOk
  /\ prepared' = TRUE
  /\ num' = num + 1
  /\ IF num = -1
       THEN poc' = 0 /\ UNCHANGED refs
       ELSE /\ refs' = IF IsReference THEN <<poc>> \o refs ELSE refs
            /\ poc' = poc + 1
  /\ UNCHANGED <<vars, irapPoc, gopOffset, pictype, headerOk, decVars>>

-----------------------------------------------------------------------------
(* encoder_state_init_new_frame for a picture at position k of the group.  *)

Pyramid == cfg.gopLen > 0 /\ ~cfg.lowDelay
Closed  == Pyramid /\ cfg.intraPeriod > 0 /\ ~cfg.openGop

(* The number of the picture, within its closed group if there are any.    *)
GroupNum == IF Closed THEN (num - 1) % (cfg.intraPeriod + 1) ELSE num - 1

NewPoc(k) ==
  IF num = 0 \/ (Closed /\ GroupNum = cfg.intraPeriod) THEN 0
  ELSE IF Pyramid THEN GroupNum - (GroupNum % cfg.gopLen) + TableAt(k).poc
  ELSE IF cfg.intraPeriod > 0 THEN num % cfg.intraPeriod
  ELSE num

IsIrap(p) == \/ num = 0 \/ p = 0
             \/ ~Closed /\ cfg.intraPeriod > 0 /\ p % cfg.intraPeriod = 0

WrongPictype(p, ip) ==
  IF IsIrap(p) THEN "IDR" ELSE IF p < ip THEN "RASL" ELSE "TRAIL"
NewPictype(p, ip) ==
  IF IsIrap(p)
    THEN IF num = 0 \/ cfg.intraPeriod = 1 \/ ~Pyramid \/ ~cfg.openGop
           THEN "IDR" ELSE "CRA"
    ELSE IF p < ip THEN "RASL" ELSE "TRAIL"

(* encoder_state_remove_refs: with a table, keep what the picture's entry  *)
(* names, except across IRAP pictures; without one, the latest ref_frames. *)
Named(p, k) == {p - d : d \in Elements(TableAt(k).neg)}
                 \cup {p + d : d \in Elements(TableAt(k).pos)}

WrongCrossesIrap(r, p, ip) == FALSE
CrossesIrap(r, p, ip) ==
  \/ r < ip /\ ip < p
  \/ cfg.intraPeriod > 0 /\ r < ip - cfg.intraPeriod

WrongKeptPlaces(p, k, type, ip) ==
  {i \in DOMAIN refs :
     /\ type # "IDR"
     /\ IF cfg.gopLen > 0
          THEN refs[i] \in Named(p, k) /\ ~CrossesIrap(refs[i], p, ip)
          ELSE i > Len(refs) - cfg.refFrames}
KeptPlaces(p, k, type, ip) ==
  {i \in DOMAIN refs :
     /\ type # "IDR"
     /\ IF cfg.gopLen > 0
          THEN refs[i] \in Named(p, k) /\ ~CrossesIrap(refs[i], p, ip)
          ELSE i <= cfg.refFrames}

(* The entries of a list at the places in I, in their order.  (SelectSeq   *)
(* cannot be used where something is to be proved of the result.)          *)
Place(I, n) == CHOOSE i \in I : Cardinality({j \in I : j <= i}) = n
EntriesAt(list, I) == [n \in 1..Cardinality(I) |-> list[Place(I, n)]]

KeptRefs(p, k, type, ip) == EntriesAt(refs, KeptPlaces(p, k, type, ip))

-----------------------------------------------------------------------------
(* The reference picture set of the slice header.                          *)

(* The writer looks up n distances in the table, skipping those that are   *)
(* not found.  It compares how far it has come in the table with n, and    *)
(* gives up with "Failure, reference not found!" at a miss in place n, or  *)
(* at a hit in place n + 1 if there was a miss before.                     *)
Writable(table, found) ==
  LET n == Cardinality(found)
      hit(i) == i \in DOMAIN table /\ table[i] \in found
  IN n = 0 \/ (hit(n) /\ ((\A i \in 1..n : hit(i)) \/ ~hit(n + 1)))

HeaderWritable(p, k, kept) ==
  \/ cfg.gopLen = 0
  \/ /\ Writable(TableAt(k).neg, {p - r : r \in {q \in kept : q < p}})
     /\ Writable(TableAt(k).pos, {r - p : r \in {q \in kept : q >= p}})

(* The distances written: those of the table, or 1, 2, ... without one.    *)
Distances(p, kept) ==
  IF cfg.gopLen > 0 THEN {p - r : r \in kept} ELSE 1..Cardinality(kept)

(* The decoder knows pic_order_cnt_lsb, 5 bits, and takes the nearest POC. *)
LsbRange == 32
DecodedPoc(p, type) ==
  IF type = "IDR" THEN 0
  ELSE CHOOSE q \in (tid0Poc - 15)..(tid0Poc + 16) : (q - p) % LsbRange = 0

Decode(p, type, kept, picture) ==
  LET dp    == DecodedPoc(p, type)
      named == IF type = "IDR" THEN {} ELSE {dp - d : d \in Distances(p, kept)}
      c     == IF type = "IDR" THEN cvs + 1 ELSE cvs
  IN /\ mismatch' = (named \ dpb) \cup (kept \ named)
     /\ dpb' = (dpb \cap named) \cup {dp}
     /\ tid0Poc' = IF type = "RASL" THEN tid0Poc ELSE dp
     /\ cvs' = c
     /\ coded' = coded \cup {[pic |-> picture, seq |-> num, cvs |-> c, poc |-> dp,
                              type |-> type, refs |-> named]}

-----------------------------------------------------------------------------
(* kvz_encode_one_frame for the picture that kvz_encoder_feed_frame        *)
(* returned.                                                               *)

Code(picture, k) ==
  LET p    == NewPoc(k)
      ip   == IF IsIrap(p) THEN p ELSE irapPoc
      type == NewPictype(p, ip)
  IN /\ poc' = p /\ irapPoc' = ip /\ gopOffset' = k /\ pictype' = type
     /\ refs' = KeptRefs(p, k, type, ip)
     /\ headerOk' = (type = "IDR" \/ HeaderWritable(p, k, Elements(refs')))
     /\ IF headerOk' THEN Decode(p, type, Elements(refs'), picture)
                     ELSE UNCHANGED decVars
     /\ prepared' = FALSE
     /\ UNCHANGED num

(* kvazaar_encode: encode the picture that comes out of the buffer.        *)
Then == IF out' = None
          THEN UNCHANGED <<encVars, decVars, prepared>>
          ELSE Code(out'.pic, out'.offset)

EncodeNext  == prepared /\ headerOk /\ Feed /\ Then
EncodeFlush == prepared /\ headerOk /\ Flush /\ Then

ONext == Prepare \/ EncodeNext \/ EncodeFlush

(* The caller goes on calling once it has no more pictures.                *)
OSpec == OInit /\ [][ONext]_allVars
               /\ WF_allVars(Prepare) /\ WF_allVars(ended /\ EncodeFlush)

-----------------------------------------------------------------------------
(* Properties.                                                             *)

Types == {"IDR", "CRA", "RASL", "TRAIL"}
Last  == CHOOSE c \in coded : \A d \in coded : d.seq <= c.seq

(* The writer of the slice header never fails to find a reference.         *)
HeaderNeverFails == headerOk

(* Whatever the slice headers name, the decoder still holds, and it is what*)
(* the encoder refers to: its list of references, its removals and the     *)
(* written distances agree over any sequence of groups and intra pictures. *)
(* It derives the POC that the encoder means from its last bits.  The list *)
(* of references keeps to its capacity and names no picture twice.         *)
DecoderAgrees ==
  /\ mismatch = {}
  /\ Len(refs) <= MaxRefPicCount /\ Cardinality(Elements(refs)) = Len(refs)
  /\ coded # {} /\ headerOk /\ ~prepared => Last.poc = poc

(* The decoder agrees with the encoder, every slice header can be written, *)
(* and every picture that is not an intra picture has one to refer to.     *)
RefsDecodable ==
  /\ HeaderNeverFails /\ DecoderAgrees
  /\ \A c \in coded : c.type \in {"RASL", "TRAIL"} => c.refs # {}

(* The decoder shows the pictures in the order in which they were given.   *)
DisplayOrder ==
  \A c, d \in coded : c.pic < d.pic =>
     c.cvs < d.cvs \/ (c.cvs = d.cvs /\ c.poc < d.poc)

(* Decoding can start at any intra picture: pictures shown after it do not *)
(* refer to pictures coded before it.  The intra pictures are a period     *)
(* apart as they are shown, whatever the order in which they are coded     *)
(* (nothing is said of how far apart closed groups have them: see          *)
(* EveryNthIsIntra).                                                       *)
Irap(c) == c.type \in {"IDR", "CRA"}
RandomAccess ==
  /\ \A i \in coded, c \in coded :
       Irap(i) /\ c.seq > i.seq /\ c.pic > i.pic
       => \A d \in coded : d.cvs = c.cvs /\ d.poc \in c.refs => d.seq >= i.seq
  /\ ~Closed => \A c \in coded : Irap(c) <=>
       IF cfg.intraPeriod = 0 THEN c.pic = 0 ELSE c.pic % cfg.intraPeriod = 0

(* README.md:110 says of --period=N: "Every Nth picture is intra."         *)
EveryNthIsIntra ==
  \A c \in coded : cfg.intraPeriod > 0 /\ c.pic % cfg.intraPeriod = 0 => Irap(c)
=============================================================================
