---------------------------- MODULE PictureReorder ----------------------------
(***************************************************************************)
(* What the picture order of the encoder promises to its user: pictures go *)
(* in one by one, and every call gives back at most one of those it holds. *)
(* A picture may overtake only pictures at most Window before it, at most  *)
(* Capacity pictures are kept back, and a call without a picture gives one *)
(* back as long as any is held.  The main thread of encmain.c relies on    *)
(* this (EncMain), and InputFrameBuffer implements it.                     *)
(***************************************************************************)
EXTENDS Naturals, FiniteSets

CONSTANTS Capacity, Window,
          MaxPics    (* bound: number of pictures *)

VARIABLES held,      (* the pictures kept, numbered in presentation order  *)
          arrived    (* the number of pictures received                    *)

vars == <<held, arrived>>

Init == held = {} /\ arrived = 0

MayGive(p, have) == \A q \in have : p <= q + Window

Call(new) ==
  LET have == held \cup new IN
    /\ arrived' = arrived + Cardinality(new)
    /\ \/ new # {} /\ Cardinality(have) <= Capacity /\ held' = have
       \/ have = {} /\ held' = {}
       \/ \E p \in have : MayGive(p, have) /\ held' = have \ {p}

Next == (arrived < MaxPics /\ Call({arrived})) \/ Call({})

Spec == Init /\ [][Next]_vars

(* No picture waits for ever while others pass it: all pictures but the    *)
(* newest Window + Capacity ones are out.                                  *)
OldPicturesAreOut == \A p \in held : p + Window + Capacity >= arrived
=============================================================================
