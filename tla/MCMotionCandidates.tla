-------------------------- MODULE MCMotionCandidates --------------------------
EXTENDS MotionCandidates

(* A tile of two LCUs and a half by two: every CU of three LCUs.           *)
MCCuSizes == {8, 16, 32, 64}
MCCodingUnits ==
  {[x |-> x * 8, y |-> y * 8, size |-> s] : x \in 0..19, y \in 0..14, s \in MCCuSizes}
MCInside(c) ==
  c.x % c.size = 0 /\ c.y % c.size = 0 /\ c.x + c.size <= TileWidth /\ c.y + c.size <= TileHeight
MCCus == {c \in MCCodingUnits : MCInside(c)}

MCSlice(type, poc, l0, l1) ==
  [type |-> type, poc |-> poc, lists |-> <<l0, l1>>, bipred |-> TRUE, tmvp |-> TRUE]
MCSlices ==
  {MCSlice("P", 8, <<7, 4, 0>>, <<>>), MCSlice("B", 8, <<7, 4, 0>>, <<7, 4, 0>>),
   MCSlice("B", 4, <<0>>, <<8>>), MCSlice("B", 6, <<4, 0>>, <<8>>),
   [MCSlice("B", 6, <<4, 0>>, <<8>>) EXCEPT !.tmvp = FALSE]}

(* Two units have neighbours with many motions, the others with one.       *)
MCMany == {[x |-> 80, y |-> 80, w |-> 8, h |-> 8], [x |-> 80, y |-> 80, w |-> 8, h |-> 4],
           [x |-> 88, y |-> 80, w |-> 8, h |-> 16]}
MCIsMany(u) == [x |-> u.x, y |-> u.y, w |-> u.w, h |-> u.h] \in MCMany
MCMotions(u, s, p) ==
  IF ~MCIsMany(u) THEN (IF p = "b0" THEN {Uni(1, <<5, -6>>, 0)} ELSE {})
  ELSE IF p = "h" THEN {Uni(1, <<-9, 40>>, -4)}
  ELSE IF p = "c3" THEN {Bi(<<7, -3>>, 2, <<-20, 5>>, 12)}
  ELSE LET later == IF Len(s.lists[1]) > 1 THEN {Uni(1, <<9, 0>>, 1)} ELSE {Uni(1, <<9, 0>>, 0)}
           other == IF s.type = "B" /\ s.lists[1] # s.lists[2] THEN {Uni(2, <<-7, 2>>, 0)} ELSE later
           both  == IF s.type = "B" THEN {Bi(<<0, 0>>, 0, <<-7, 2>>, 0)} ELSE {}
       IN CASE p = "a0" -> later [] p = "a1" -> {Uni(1, <<5, -6>>, 0)} \cup both
            [] p = "b0" -> {Uni(1, <<5, -6>>, 0)} \cup other [] p = "b1" -> other \cup both
            [] OTHER -> {Uni(1, <<5, -6>>, 0)}
MCVectors(s) == {<<5, -6>>, <<0, 0>>}
=============================================================================
