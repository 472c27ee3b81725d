----------------------------- MODULE MotionSearch -----------------------------
(***************************************************************************)
(* The search for a motion vector of whole pixels (src/src/search_inter.c).*)
(*                                                                         *)
(* The searches differ in the order in which they look at vectors, and     *)
(* share check_mv_cost, that keeps the best one.  They remember where they *)
(* came from to leave out vectors they have seen.  What such bookkeeping   *)
(* gets wrong is never an error: the encoder only compresses worse.        *)
(*                                                                         *)
(* Costs are not modelled: any vector that was not checked before may be   *)
(* the best so far.  The vectors that are permitted (fracmv_within_tile)   *)
(* are a parameter; src/src/search_inter.c:91-178 is in Wavefront.         *)
(* Operators named Wrong... are plausible mistakes in the definition that  *)
(* follows them and are not part of the specification.                     *)
(***************************************************************************)
EXTENDS Integers, Sequences

CONSTANTS
  Permitted,    (* the vectors that keep to the constraints                *)
  Methods,      (* the searches: records                                   *)
  SearchRange   (* search_range of the full, iSearchRange of the TZ search *)

ASSUME PermittedVectors == Permitted \subseteq Int \X Int
ASSUME StepsOfMethods   == \A m \in Methods : m.steps \in Int
ASSUME RangeNat         == SearchRange \in Nat

VARIABLES
  method,    (* the search                                                 *)
  step,      (* where in the search it is                                  *)
  mv,        (* the centre of the pattern                                  *)
  index,     (* the point of the pattern that was best                     *)
  from,      (* where the next points of the pattern begin, or are left out*)
  steps,     (* max_steps that are left                                    *)
  distance,  (* of the pattern of the TZ search                            *)
  rounds,    (* without improvement                                        *)
  best,      (* best_mv                                                    *)
  checked    (* the vectors that have been compared                        *)
meVars == <<method, step, mv, index, from, steps, distance, rounds, best, checked>>

NoVector == <<>>
Plus(v, w) == <<v[1] + w[1], v[2] + w[2]>>
Around(v, offsets) == [i \in 1..Len(offsets) |-> Plus(v, offsets[i])]
Points(ps) == {ps[i] : i \in 1..Len(ps)}
(* Vectors of quarters of a pixel, rounded to pixels and cut to pixels.    *)
Round(v) == <<(v[1] + 2) \div 4, (v[2] + 2) \div 4>>
Cut(v)   == <<v[1] \div 4, v[2] \div 4>>
MvInMerge(v, m) == v \in {Round(m.merge[i]) : i \in 1..Len(m.merge)}

-----------------------------------------------------------------------------
(* check_mv_cost for points in turn: which of them may be the last that    *)
(* was better than all before, 0 when none was.                            *)
LastBetter(ps) ==
  LET new == {i \in 1..Len(ps) : ps[i] \in Permitted \ checked}
  IN IF best = NoVector /\ new # {} THEN new ELSE new \cup {0}
CheckMvCosts(ps, k) ==
  /\ checked' = checked \cup (Points(ps) \cap Permitted)
  /\ best' = IF k = 0 THEN best ELSE ps[k]

(* The same for vectors in any order, as costs are not modelled.           *)
CheckAll(vs) ==
  /\ checked' = checked \cup (vs \cap Permitted)
  /\ best' \in ((vs \cap Permitted) \ checked) \cup
               (IF best = NoVector /\ vs \cap Permitted # {} THEN {} ELSE {best})

(* Zero, the vector of the picture before, and the candidates to merge     *)
(* with, of one list.  Each is checked once.                               *)
StartingPoints(m) == {<<0, 0>>, Cut(m.extra)} \cup {Round(m.merge[i]) : i \in 1..Len(m.merge)}

SmallHexbs == << <<0, -1>>, <<-1, 0>>, <<1, 0>>, <<0, 1>>, <<-1, -1>>, <<1, -1>>, <<-1, 1>>, <<1, 1>> >>
LargeHexbs == << <<1, -2>>, <<2, 0>>, <<1, 2>>, <<-1, 2>>, <<-2, 0>>, <<-1, -2>>, <<1, -2>>, <<2, 0>> >>
Diamond    == << <<0, -1>>, <<1, 0>>, <<0, 1>>, <<-1, 0>> >>
EarlyHexbs == << <<0, -1>>, <<-1, 0>>, <<0, 1>>, <<1, 0>>, <<0, -1>>, <<-1, 0>> >>

Goto(next) == step' = next
Centre == IF best = NoVector THEN <<0, 0>> ELSE best

SelectStartingPoint ==
  /\ step = "start" /\ method.search # "full"
  /\ CheckAll(StartingPoints(method))
  /\ Goto(IF method.early # "off" THEN "early" ELSE "pattern")
  /\ from' = 1
  /\ mv' = IF best' = NoVector THEN <<0, 0>> ELSE best'
  /\ UNCHANGED <<method, index, steps, distance, rounds>>

(* Two rounds of up to four points.  The sensitive search stops unless the *)
(* cost is much lower.                                                     *)
EarlyTerminate ==
  /\ step \in {"early", "early again"}
  /\ LET last == IF step = "early" THEN 4 ELSE from + 2
         ps == Around(mv, SubSeq(EarlyHexbs, from, last))
     IN \E k \in LastBetter(ps) :
          /\ CheckMvCosts(ps, k)
          /\ \/ (k = 0 \/ method.early = "sensitive") /\ Goto("done") /\ UNCHANGED <<mv, from>>
             \/ /\ k # 0
                /\ Goto(IF step = "early" THEN "early again" ELSE "pattern")
                /\ mv' = best'
                /\ from' = ((from + k - 2 + 3) % 4) + 1
  /\ UNCHANGED <<method, index, steps, distance, rounds>>

-----------------------------------------------------------------------------
(* The hexagon.                                                            *)

SearchHexagon ==
  /\ step = "pattern" /\ method.search = "hex"
  /\ LET ps == Around(mv, SubSeq(LargeHexbs, 1, 6))
     IN \E k \in LastBetter(ps) : CheckMvCosts(ps, k) /\ index' = k
  /\ Goto("hexagon")
  /\ UNCHANGED <<method, mv, from, steps, distance, rounds>>

(* The points of the hexagon that were not in the one before.              *)
WrongNextStart(k) == IF k = 1 THEN 6 ELSE k - 1
NextStart(k) == IF k = 1 THEN 6 ELSE IF k = 8 THEN 1 ELSE k - 1
MoveHexagon ==
  /\ step = "hexagon" /\ index # 0 /\ steps # 0
  /\ mv' = Plus(mv, LargeHexbs[index])
  /\ LET start == NextStart(index)
         ps == Around(mv', [i \in 1..3 |-> IF start + i - 1 \in DOMAIN LargeHexbs THEN LargeHexbs[start + i - 1] ELSE <<0, 0>>])
     IN \E k \in LastBetter(ps) : CheckMvCosts(ps, k) /\ index' = IF k = 0 THEN 0 ELSE start + k - 1
  /\ steps' = IF steps > 0 THEN steps - 1 ELSE steps
  /\ UNCHANGED <<method, step, from, distance, rounds>>

SearchInsideHexagon ==
  /\ step = "hexagon" /\ (index = 0 \/ steps = 0)
  /\ LET ps == Around(mv, SmallHexbs) IN \E k \in LastBetter(ps) : CheckMvCosts(ps, k)
  /\ Goto("done")
  /\ UNCHANGED <<method, mv, index, from, steps, distance, rounds>>

-----------------------------------------------------------------------------
(* The diamond.                                                            *)

SearchDiamond ==
  /\ step = "pattern" /\ method.search = "dia"
  /\ LET ps == Around(mv, Diamond)
     IN \E k \in LastBetter(ps) :
          /\ CheckMvCosts(ps, k)
          /\ IF k = 0 THEN Goto("done") /\ UNCHANGED mv ELSE Goto("diamond") /\ mv' = ps[k]
  /\ from' = 0
  /\ UNCHANGED <<method, index, steps, distance, rounds>>

(* The direction a step came from is its number in binary, flipped: the    *)
(* names are in the order up, right, left, down, but the points are up,    *)
(* right, down, left.  The point that is left out after a step is never    *)
(* the one it came from: after a step up it is the one to the left, after  *)
(* one to the right the one below, and so on.                              *)
FromDir(i) == 3 - i
MoveDiamond ==
  /\ step = "diamond"
  /\ LET others == IF from = 0 THEN <<1, 2, 3, 4>>
                   ELSE [i \in 1..3 |-> IF i < from THEN i ELSE i + 1]
         ps == [i \in 1..Len(others) |-> Plus(mv, Diamond[others[i]])]
     IN \E k \in LastBetter(ps) :
          /\ CheckMvCosts(ps, k)
          /\ steps' = IF steps > 0 THEN steps - 1 ELSE steps
          /\ IF k = 0 THEN Goto("done") /\ UNCHANGED <<mv, from>>
             ELSE /\ mv' = ps[k] /\ from' = FromDir(others[k] - 1) + 1
                  /\ Goto(IF steps' # 0 THEN "diamond" ELSE "done")
  /\ UNCHANGED <<method, index, distance, rounds>>

-----------------------------------------------------------------------------
(* The TZ search: a grid around the best vector, one around zero, and a    *)
(* star around the best, again and again until it is in its centre.        *)

Pattern(d) ==
  << <<0, d>>, <<d, 0>>, <<0, -d>>, <<-d, 0>> >>
  \o (IF d = 1 THEN <<>>
      ELSE << <<d \div 2, d \div 2>>, <<d \div 2, -(d \div 2)>>, <<-(d \div 2), -(d \div 2)>>, <<-(d \div 2), d \div 2>> >>)

StartTz ==
  /\ step = "pattern" /\ method.search = "tz"
  /\ Goto("grid") /\ mv' = Centre /\ distance' = 1 /\ rounds' = 0 /\ index' = 0
  /\ UNCHANGED <<method, from, steps, best, checked>>

(* index is best_dist, the distance that was better last: a round counts   *)
(* as better when the same distance was in an earlier grid.                *)
SearchPattern ==
  /\ step \in {"grid", "zero grid", "star"}
  /\ distance <= (IF step = "zero grid" THEN SearchRange \div 2 ELSE SearchRange)
  /\ step # "star" => rounds < 3
  /\ LET ps == Around(mv, Pattern(distance))
     IN \E k \in LastBetter(ps) : CheckMvCosts(ps, k) /\ index' = IF k = 0 THEN index ELSE distance
  /\ rounds' = IF index' # distance THEN rounds + 1 ELSE rounds
  /\ distance' = 2 * distance
  /\ UNCHANGED <<method, step, mv, from, steps>>

EndPattern ==
  /\ step \in {"grid", "zero grid", "star"}
  /\ \/ distance > (IF step = "zero grid" THEN SearchRange \div 2 ELSE SearchRange)
     \/ step # "star" /\ rounds >= 3
  /\ distance' = 1 /\ rounds' = 0
  /\ IF step = "grid" /\ mv # <<0, 0>>
     THEN Goto("zero grid") /\ mv' = <<0, 0>> /\ UNCHANGED index
     ELSE IF index > 0 THEN Goto("star") /\ mv' = Centre /\ index' = 0
     ELSE Goto("done") /\ UNCHANGED <<mv, index>>
  /\ UNCHANGED <<method, from, steps, best, checked>>

-----------------------------------------------------------------------------
(* The full search: all vectors in windows around zero, the vector of the  *)
(* picture before and the candidates.                                      *)

Window(v) == {Plus(v, w) : w \in (-SearchRange..SearchRange) \X (-SearchRange..SearchRange)}

SearchMvFull ==
  /\ step = "start" /\ method.search = "full"
  /\ CheckAll(Window(<<0, 0>>))
  /\ Goto("full extra")
  /\ UNCHANGED <<method, mv, index, from, steps, distance, rounds>>
SearchFullExtra ==
  /\ step = "full extra"
  /\ IF MvInMerge(Cut(method.extra), method)
     THEN UNCHANGED <<best, checked>> ELSE CheckAll(Window(Cut(method.extra)))
  /\ Goto("full merge") /\ index' = 1
  /\ UNCHANGED <<method, mv, from, steps, distance, rounds>>
SearchFullMerge ==
  /\ step = "full merge"
  /\ IF index > Len(method.merge)
     THEN Goto("done") /\ UNCHANGED <<index, best, checked>>
     ELSE LET v == Cut(method.merge[index])
              before == Window(<<0, 0>>) \cup UNION {Window(Cut(method.merge[j])) : j \in 1..(index - 1)}
          IN /\ CheckAll(IF v = <<0, 0>> THEN {} ELSE Window(v) \ before)
             /\ index' = index + 1
             /\ UNCHANGED step
  /\ UNCHANGED <<method, mv, from, steps, distance, rounds>>

-----------------------------------------------------------------------------

MeInit ==
  /\ method \in Methods /\ step = "start" /\ mv = <<0, 0>> /\ index = 0 /\ from = 0
  /\ steps = method.steps /\ distance = 1 /\ rounds = 0 /\ best = NoVector /\ checked = {}
(* The next unit is searched.                                              *)
SearchNextPu ==
  /\ step = "done"
  /\ method' \in Methods /\ step' = "start" /\ mv' = <<0, 0>> /\ index' = 0 /\ from' = 0
  /\ steps' = method'.steps /\ distance' = 1 /\ rounds' = 0 /\ best' = NoVector /\ checked' = {}
MeNext ==
  \/ SelectStartingPoint \/ EarlyTerminate
  \/ SearchHexagon \/ MoveHexagon \/ SearchInsideHexagon
  \/ SearchDiamond \/ MoveDiamond
  \/ StartTz \/ SearchPattern \/ EndPattern
  \/ SearchMvFull \/ SearchFullExtra \/ SearchFullMerge
  \/ SearchNextPu
MeSpec == MeInit /\ [][MeNext]_meVars

-----------------------------------------------------------------------------
Seen(vs) == vs \cap Permitted \subseteq checked
Distances == {d \in {1, 2, 4, 8, 16, 32, 64, 128} : d <= SearchRange}

(* What a search has looked at when it ends.  Whatever the method and the  *)
(* limits: its candidates.  Without early termination and without a limit  *)
(* of steps: the hexagon, all of it around the point where it ends, and    *)
(* all eight vectors next to that point, one of which the result is, if it *)
(* is not the point; the diamond, all points next to its result but one.   *)
(* Without early termination: the TZ search, all points of the star around *)
(* a result that is not one of the candidates.  The full search: all       *)
(* windows around zero and the merge candidates, and the one around the    *)
(* extra vector unless that, cut to pixels, is a rounded candidate.        *)
(* The three points of a hexagon that it moved to are the only ones that   *)
(* were not in the one before (start of hexagon_search), points that are   *)
(* skipped were tested (already_tested of search_mv_full).                 *)
SearchIsThorough ==
  /\ best # NoVector => best \in checked
  /\ checked \subseteq Permitted
  /\ step \notin {"start", "full extra", "full merge"} /\ method.search # "full" => Seen(StartingPoints(method))
  /\ step = "done" /\ method.search = "hex" /\ method.early = "off" /\ method.steps < 0 =>
       /\ Seen(Points(Around(mv, LargeHexbs))) /\ Seen(Points(Around(mv, SmallHexbs)))
       /\ best # NoVector => best \in {mv} \cup Points(Around(mv, SmallHexbs))
  /\ step = "done" /\ method.search = "dia" /\ method.early = "off" /\ method.steps < 0 =>
       /\ best \in {NoVector, mv}
       /\ \A i \in (1..4) \ {from} : Seen({Plus(mv, Diamond[i])})
  /\ step = "done" /\ method.search = "tz" /\ method.early = "off" /\ best # NoVector =>
       best \in StartingPoints(method) \/ \A d \in Distances : Seen(Points(Around(best, Pattern(d))))
  /\ step = "done" /\ method.search = "full" =>
       /\ \A v \in { <<0, 0>> } \cup {Cut(method.merge[i]) : i \in 1..Len(method.merge)} :
            Seen(Window(v))
       /\ ~MvInMerge(Cut(method.extra), method) => Seen(Window(Cut(method.extra)))
=============================================================================
