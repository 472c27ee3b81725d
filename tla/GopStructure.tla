---------------------------- MODULE GopStructure ----------------------------
(***************************************************************************)
(* The tables of src/src/cfg.c that say how a group of pictures is coded:  *)
(* for each picture of the group in coding order, its position in          *)
(* presentation order, the distances of the earlier (neg) and later (pos)  *)
(* pictures that it may refer to, and whether it is itself referred to.    *)
(***************************************************************************)
EXTENDS Naturals, Sequences

Entry(poc, neg, pos, isRef) ==
  [poc |-> poc, neg |-> neg, pos |-> pos, isRef |-> isRef]

(* --gop=8                                                                 *)
Gop8 == <<Entry(8, <<8, 12, 16>>, <<>>,        TRUE),
          Entry(4, <<4, 8>>,      <<4>>,       TRUE),
          Entry(2, <<2, 6>>,      <<2, 6>>,    TRUE),
          Entry(1, <<1>>,         <<1, 3, 7>>, FALSE),
          Entry(3, <<1, 3>>,      <<1, 5>>,    FALSE),
          Entry(6, <<2, 6>>,      <<2>>,       TRUE),
          Entry(5, <<1, 5>>,      <<1, 3>>,    FALSE),
          Entry(7, <<1, 3, 7>>,   <<1>>,       FALSE)>>

(* --gop=lp-g(g)d(d)t(t) with --ref=refs: kvz_config_process_lp_gop.       *)

(* depth_modulos: layer 1 holds the key pictures, layer l every            *)
(* 2^(d - l)th one.                                                        *)
Modulo(g, d, l) == IF l = 1 THEN g ELSE 2 ^ (d - l)

Layer(g, d, p) ==
  CHOOSE l \in 1..d : /\ l = d \/ p % Modulo(g, d, l) = 0
                      /\ \A k \in 1..(l - 1) : p % Modulo(g, d, k) # 0

(* The latest earlier picture of a lower layer, which p refers to if t > 1 *)
(* does not place its reference; 0 when there is none.                     *)
LowerBefore(g, d, p) ==
  LET lower == {q \in 1..(p - 1) : Layer(g, d, q) < Layer(g, d, p)} IN
    IF lower = {} THEN 0 ELSE CHOOSE q \in lower : \A r \in lower : r <= q

FirstRef(g, d, t, p) ==
  IF t = 1 THEN 1
  ELSE IF p % t = 0 THEN t
  ELSE LET q == LowerBefore(g, d, p) IN IF q = 0 THEN p % g ELSE p - q

(* The other references are key pictures, those at p, p + g, p + 2g, ...   *)
(* before p, leaving out the one that is the first reference already.      *)
LpRefs(g, d, t, refs, p) ==
  LET first == FirstRef(g, d, t, p)
      shift == IF first = p THEN 1 ELSE 0
  IN [i \in 1..refs |-> IF i = 1 THEN first ELSE p + (i - 2 + shift) * g]

(* Whether another picture of the group has p for its reference.  A        *)
(* picture that refers t pictures back does not mark its reference.        *)
LpIsRef(g, d, t, p) ==
  \/ p = g
  \/ t = 1 /\ p + 1 <= g
  \/ t > 1 /\ \E q \in (p + 1)..g : q % t # 0 /\ LowerBefore(g, d, q) = p

LpGop(g, d, t, refs) ==
  [p \in 1..g |-> Entry(p, LpRefs(g, d, t, refs, p), <<>>, LpIsRef(g, d, t, p))]
=============================================================================
