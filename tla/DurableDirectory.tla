------------------------- MODULE DurableDirectory -------------------------
(***************************************************************************)
(* One directory as sagy's atomic-I/O layer uses it (core/atomic_io.rs):   *)
(* a metadata operation (create, rename, unlink) is visible at once, but   *)
(* outlives a power failure only when a later fsync of the directory       *)
(* succeeded.  "disk" is the visible content; "survivors" is the set of    *)
(* contents a power failure may leave: every content the directory had     *)
(* since its last successful fsync.                                        *)
(*                                                                         *)
(* Environment assumption: operations reach the medium in the order they   *)
(* were made (a metadata journal), so a survivor is a past content.        *)
(*                                                                         *)
(* The content itself is a parameter: the modules that extend this one     *)
(* decide what the directory holds.                                        *)
(***************************************************************************)

VARIABLES disk, survivors

directory == <<disk, survivors>>

InitDirectory(d) == disk = d /\ survivors = {d}

\* A metadata system call that succeeded: visible, not yet durable.
Mutate(d) == disk' = d /\ survivors' = survivors \cup {d}

\* Seeded bug: the fsync is reported as done without being done.
SyncNothing == UNCHANGED directory

\* sync_parent_path: a successful fsync of the directory.
SyncDirectory == disk' = disk /\ survivors' = {disk}

Untouched == UNCHANGED directory

\* A removal whose failure the code ignores (let _ = remove_file(..)).
BestEffort(d) ==
    \/ Untouched
    \/ Mutate(d)
    \/ disk' = d /\ survivors' = {d}

\* The machine stops; what comes back is one of the survivors.
LosePower == \E s \in survivors : disk' = s /\ survivors' = {s}

=============================================================================
