--------------------------- MODULE MCAtomicStore ---------------------------
(* Small instances of AtomicStore for TLC. *)
EXTENDS AtomicStoreRefinement, TLC

Symmetry == Permutations(Proc) \cup Permutations(Tx) \cup Permutations(Doc)
=============================================================================
