---------------------------- MODULE MCStateStore ----------------------------
(* Small instances of StateStore for TLC. *)
EXTENDS StateStore, TLC

CONSTANTS b1, b2, p1, p2, t1, t2

MCBody == {b1, b2}
MCDoc == [gen : 0..MaxGen, body : MCBody]
Symmetry == Permutations(Proc) \cup Permutations(Tx) \cup Permutations(MCBody)
=============================================================================
