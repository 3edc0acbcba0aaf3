--------------------------- MODULE MCPortableSync ---------------------------
(* Two machines, one command each at a time, two accounts, two credentials. *)
EXTENDS PortableSync, TLC

CONSTANTS A, B, pa, pb, x, y, cred1, cred2

MCMachine == {A, B}
MCProc == {pa, pb}
MCHost == pa :> A @@ pb :> B
MCId == {x, y}
MCCred == {cred1, cred2}

\* The machines are swapped with their commands.
Swap == {A :> A @@ B :> B @@ pa :> pa @@ pb :> pb, A :> B @@ B :> A @@ pa :> pb @@ pb :> pa}
Symmetry == {f @@ g @@ h : f \in Permutations(MCId), g \in Permutations(MCCred), h \in Swap}
=============================================================================
