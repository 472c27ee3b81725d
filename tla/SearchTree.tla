------------------------------ MODULE SearchTree ------------------------------
(***************************************************************************)
(* The search for the coding tree of an LCU (src/src/search.c).            *)
(*                                                                         *)
(* The recursion search_cu works on one copy of the LCU for each depth     *)
(* (work_tree).  A CU is tried in its own level, its partitions in the     *)
(* level below, then its quarters in the level below; what wins is copied  *)
(* up or down, so that "the neighbouring SCUs and pixels to the left and   *)
(* up of current CU are the final CUs decided via the search"              *)
(* (src/src/search.c:415).                                                 *)
(*                                                                         *)
(* Cells are the smallest prediction blocks.  A mode is what a CU was      *)
(* given: its place and depth, its type, its partition, and whether it has *)
(* no coefficients.  A cell has the mode it is said to have, the one its   *)
(* pixels were reconstructed in and the one of its coefficients.  Costs    *)
(* are not modelled: any comparison may have either result.  The stack of  *)
(* the recursion is the variable stack.                                    *)
(* Operators named Wrong... are plausible mistakes in the definition that  *)
(* follows them and are not part of the specification.                     *)
(***************************************************************************)
EXTENDS Integers, Sequences

CONSTANTS
  MAX_DEPTH,   (* of CUs; prediction blocks may be one level smaller       *)
  Searches     (* the configurations: records                              *)

(* The code has MAX_DEPTH 3; with less of it LCUs are smaller.             *)
ASSUME DepthFits == MAX_DEPTH \in 0..3
MAX_PU_DEPTH == MAX_DEPTH + 1
(* Ranges of depths are within those of their kind of prediction, and are  *)
(* not empty (cfg.c:1451 to 1473).  Sizes are those of the picture from    *)
(* the LCU on, in cells.                                                   *)
ASSUME SearchesFit ==
  \A s \in Searches :
    /\ s.width \in Nat \ {0} /\ s.height \in Nat \ {0}
    /\ \E lo, hi \in 0..MAX_PU_DEPTH : lo <= hi /\ s.intraDepths = <<lo, hi>>
    /\ \E lo, hi \in 0..MAX_DEPTH : lo <= hi /\ s.interDepths = <<lo, hi>>

VARIABLES
  search,   (* the configuration                                           *)
  work,     (* work_tree: for each depth, the cells of the LCU             *)
  stack,    (* the calls of search_cu that have not returned               *)
  decided   (* history: the mode each cell was given last                  *)
searchVars == <<search, work, stack, decided>>

Depths   == 0..MAX_PU_DEPTH
Width(d) == <<1, 2, 4, 8, 16>>[MAX_PU_DEPTH - d + 1]
Cells    == (0..(Width(0) - 1)) \X (0..(Width(0) - 1))
Area(at) == (at[1]..(at[1] + Width(at[3]) - 1)) \X (at[2]..(at[2] + Width(at[3]) - 1))
Quarter(at, k) ==
  LET half == Width(at[3] + 1)
  IN <<at[1] + (k % 2) * half, at[2] + (k \div 2) * half, at[3] + 1>>
NotSet   == [type |-> "notset", empty |-> FALSE]
Blank    == [info |-> NotSet, pixels |-> NotSet, coeffs |-> NotSet]

Outside(at) == at[1] >= search.width \/ at[2] >= search.height
Inside(at)  == at[1] + Width(at[3]) <= search.width /\ at[2] + Width(at[3]) <= search.height
InPicture   == {c \in Cells : c[1] < search.width /\ c[2] < search.height}

-----------------------------------------------------------------------------
(* Copies between levels.                                                  *)

Fill(tree, d, area, part, mode) ==
  [tree EXCEPT ![d] = [c \in Cells |-> IF c \in area THEN [@[c] EXCEPT ![part] = mode] ELSE @[c]]]
FillAll(tree, d, area, mode) ==
  Fill(Fill(Fill(tree, d, area, "info", mode), d, area, "pixels", mode), d, area, "coeffs", mode)

CopyTo(tree, from, to, area, parts) ==
  [tree EXCEPT ![to] =
     [c \in Cells |-> [p \in DOMAIN Blank |-> IF c \in area /\ p \in parts THEN tree[from][c][p] ELSE @[c][p]]]]

CopyUp(tree, at) == CopyTo(tree, at[3] + 1, at[3], Area(at), {"info", "pixels", "coeffs"})

WrongCopyDown(tree, at) ==
  [l \in Depths |->
     IF l <= at[3] THEN tree[l]
     ELSE CopyTo(tree, at[3], l, Area(at), {"info"})[l]]
CopyDown(tree, at) ==
  [l \in Depths |->
     IF l <= at[3] THEN tree[l]
     ELSE CopyTo(tree, at[3], l, Area(at), {"info", "pixels"})[l]]

-----------------------------------------------------------------------------
(* The modes of one CU.                                                    *)

Within(d, range) == d \in range[1]..range[2]
(* A CU that was split because the picture ends may be coded in any way.   *)
SplitForced(at, range) ==
  LET min == Width(range[2])
  IN (at[1] \div min) * min + min > search.width \/ (at[2] \div min) * min + min > search.height

CanUseInter(at) ==
  /\ search.inter /\ at[3] <= MAX_DEPTH
  /\ Within(at[3], search.interDepths) \/ SplitForced(at, search.interDepths)
CanUseIntra(at) == Within(at[3], search.intraDepths) \/ SplitForced(at, search.intraDepths)

InterParts(at) == (IF search.smp THEN {"smp"} ELSE {}) \cup (IF search.amp /\ at[3] < MAX_DEPTH THEN {"amp"} ELSE {})
Mode(at, type, part, empty) == [at |-> at, type |-> type, part |-> part, empty |-> empty]
CuModes(at) ==
  {Mode(at, "inter", part, e) : part \in IF CanUseInter(at) THEN {"2Nx2N"} \cup InterParts(at) ELSE {}, e \in BOOLEAN}
  \cup {Mode(at, "intra", IF at[3] > MAX_DEPTH THEN "NxN" ELSE "2Nx2N", e) :
          e \in IF CanUseIntra(at) THEN BOOLEAN ELSE {}}

(* InterParts are tried in the level below, whichever wins.                *)
TryPartition(tree, at, part) ==
  IF CanUseInter(at) /\ part \in InterParts(at)
  THEN Fill(tree, at[3] + 1, Area(at), "info", Mode(at, "inter", part, FALSE)) ELSE tree
WithPartitions(tree, at) == TryPartition(TryPartition(tree, at, "smp"), at, "amp")

(* An inter CU is reconstructed without coefficients first; those pixels   *)
(* are kept in the level below, and taken back when they turn out better.  *)
Reconstructed(tree, m) ==
  LET at == m.at
      coded == [m EXCEPT !.empty = FALSE]
      kept == Fill(tree, at[3] + 1, Area(at), "pixels", [m EXCEPT !.empty = TRUE])
      quantized == FillAll(kept, at[3], Area(at), coded)
  IN IF m.type = "inter" /\ search.zeroCost
     THEN IF m.empty
          THEN Fill(CopyTo(quantized, at[3] + 1, at[3], Area(at), {"pixels"}), at[3], Area(at), "info", m)
          ELSE quantized
     ELSE FillAll(tree, at[3], Area(at), m)

-----------------------------------------------------------------------------
(* search_cu.                                                              *)

Call(at) == [at |-> at, step |-> "modes", mode |-> NotSet, child |-> 0]
Top == stack[Len(stack)]
Below == SubSeq(stack, 1, Len(stack) - 1)
(* The caller goes on with the next quarter.                               *)
Return(below) ==
  IF below = <<>> THEN <<>> ELSE [below EXCEPT ![Len(below)].child = @ + 1]

SearchLcu ==
  /\ stack = <<>>
  /\ search' \in Searches
  /\ work' = [l \in Depths |-> [c \in Cells |-> Blank]]
  /\ decided' = [c \in Cells |-> NotSet]
  /\ stack' = <<Call(<<0, 0, 0>>)>>

SearchOutside ==
  /\ stack # <<>> /\ Top.step = "modes" /\ Outside(Top.at)
  /\ stack' = Return(Below)
  /\ UNCHANGED <<search, work, decided>>

CanSplit(at, mode) ==
  \/ mode = NotSet
  \/ at[3] < search.intraDepths[2]
  \/ search.inter /\ at[3] < search.interDepths[2]
(* Without coefficients there is little to gain from splitting.            *)
TriesSplit(mode) == mode = NotSet \/ ~mode.empty \/ search.alwaysSplit

SearchModes ==
  /\ stack # <<>> /\ Top.step = "modes" /\ ~Outside(Top.at)
  /\ LET at == Top.at
         usable == IF Inside(at) THEN CuModes(at) ELSE {}
     IN \E m \in IF usable = {} THEN {NotSet} ELSE usable :
          /\ LET tried == IF Inside(at) THEN WithPartitions(work, at) ELSE work
                 reset == Fill(tried, at[3], {<<at[1], at[2]>>}, "info", NotSet)
             IN work' = IF m = NotSet THEN reset ELSE Reconstructed(tried, m)
          /\ stack' = Append(Below, [Top EXCEPT !.step = IF CanSplit(at, m) THEN "split" ELSE "leaf", !.mode = m])
  /\ UNCHANGED <<search, decided>>

SearchQuarter ==
  /\ stack # <<>> /\ Top.step = "split" /\ Top.child < 4
  /\ TriesSplit(Top.mode)
  /\ stack' = Append(stack, Call(Quarter(Top.at, Top.child)))
  /\ UNCHANGED <<search, work, decided>>

Decided(m) == decided' = [c \in Cells |-> IF c \in Area(m.at) THEN m ELSE decided[c]]

(* Splitting was best, or is the only way.                                 *)
KeepQuarters ==
  /\ stack # <<>> /\ Top.step = "split" /\ Top.child = 4
  /\ work' = CopyUp(work, Top.at)
  /\ stack' = Return(Below)
  /\ UNCHANGED <<search, decided>>

(* The CU itself is best; quarters may not all have been searched.         *)
KeepCu ==
  /\ stack # <<>> /\ Top.step \in {"split", "leaf"} /\ Top.mode # NotSet
  /\ work' = IF Top.step = "leaf" \/ Top.at[3] > 0 THEN CopyDown(work, Top.at) ELSE work
  /\ Decided(Top.mode)
  /\ stack' = Return(Below)
  /\ UNCHANGED search

(* A CU that was not searched is given the mode of its first quarter.      *)
KeepModeOfQuarter ==
  /\ stack # <<>> /\ Top.step = "split" /\ Top.child = 4
  /\ Top.mode = NotSet /\ Inside(Top.at) /\ Top.at[3] < MAX_PU_DEPTH
  /\ LET at == Top.at
         first == work[at[3] + 1][<<at[1], at[2]>>].info
         m == Mode(at, "intra", "2Nx2N", FALSE)
         tried == FillAll(work, at[3], Area(at), m)
     IN /\ first.type = "intra" /\ first.at[3] = at[3] + 1
        /\ work' = IF at[3] > 0 THEN CopyDown(tried, at) ELSE tried
        /\ Decided(m)
  /\ stack' = Return(Below)
  /\ UNCHANGED search

SearchInit ==
  /\ search \in Searches
  /\ work = [l \in Depths |-> [c \in Cells |-> Blank]]
  /\ decided = [c \in Cells |-> NotSet]
  /\ stack = <<Call(<<0, 0, 0>>)>>
SearchNext ==
  \/ SearchLcu \/ SearchOutside \/ SearchModes \/ SearchQuarter
  \/ KeepQuarters \/ KeepCu \/ KeepModeOfQuarter
SearchSpec == SearchInit /\ [][SearchNext]_searchVars

-----------------------------------------------------------------------------
(* Order of coding of the cells.                                           *)
ZOrder(c) ==
  LET z(n) == ((c[1] \div n) % 2) + 2 * ((c[2] \div n) % 2)
  IN z(1) + 4 * z(2) + 16 * z(4) + 64 * z(8)
Before(at) == {c \in InPicture : ZOrder(c) < ZOrder(<<at[1], at[2]>>)}

(* When a CU is searched, what was coded before it is final in its own     *)
(* level and in every one below, in which its partitions and quarters will *)
(* be tried (copies of work_tree_copy_up and work_tree_copy_down, splits   *)
(* that were given up, pixels kept in a level below).  When the LCU is     *)
(* done, level 0 has the modes that were decided, each cell has the pixels *)
(* and the coefficients of the mode it says it has, and the cells of a CU  *)
(* are said to be in the same one.  No CU is left without a mode, and      *)
(* nothing is searched below the last level.                               *)
SearchIsConsistent ==
  /\ \A i \in 1..Len(stack) : stack[i].at[3] \in Depths
  /\ stack # <<>> /\ Top.step = "modes" =>
       \A l \in Top.at[3]..MAX_PU_DEPTH, c \in Before(Top.at) :
         work[l][c].info = decided[c] /\ work[l][c].pixels = decided[c]
  /\ stack = <<>> =>
       \A c \in InPicture :
         LET cell == work[0][c]
         IN /\ cell.info = decided[c] /\ cell.info # NotSet
            /\ cell.pixels = cell.info
            /\ cell.info.empty \/ cell.coeffs = cell.info
            /\ \A other \in Area(cell.info.at) : work[0][other].info = cell.info
=============================================================================
