------------------------- MODULE MCCredentialStore -------------------------
(***************************************************************************)
(* Two commands over one account that v1 was found with, no credential, a  *)
(* token, a document or both; an import may bring the token, the same      *)
(* document in other bytes, or another document.                           *)
(***************************************************************************)
EXTENDS CredentialStore, TLC

CONSTANTS p1, p2, t1, t2

MCProc == {p1, p2}
MCTx == {t1, t2}

Credential(slot, print, bytes) == [slot |-> slot, print |-> print, bytes |-> bytes]
MCMaterial == {Credential("token", "t", 1), Credential("document", "a", 1),
               Credential("document", "a", 2)}

MCSymmetry == Permutations(MCProc) \cup Permutations(MCTx)
=============================================================================
