---------------------------- MODULE MCThreadQueue ----------------------------
(* Instances of ThreadQueue for TLC. *)
EXTENDS ThreadQueue, TLC

Perms == Permutations(Jobs) \cup Permutations(Workers)
=============================================================================
