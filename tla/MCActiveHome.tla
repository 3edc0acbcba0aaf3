---------------------------- MODULE MCActiveHome ----------------------------
(***************************************************************************)
(* Two commands over an account kept as a token and one kept as a document; *)
(* agy may refresh the token, and the user may log out.                     *)
(***************************************************************************)
EXTENDS ActiveHome, TLC

CONSTANTS p1, p2, t1, t2, acc1, acc2, tokenA, documentB, foreign

MCProc == {p1, p2}
MCTx == {t1, t2}
MCAccount == {acc1, acc2}
MCOwned == (acc1 :> [token |-> tokenA, document |-> Absent])
           @@ (acc2 :> [token |-> Absent, document |-> documentB])
MCForeign == [token |-> {foreign}, document |-> {}]

MCSymmetry == Permutations(MCProc) \cup Permutations(MCTx)
=============================================================================
