------------------------- MODULE ProfilePoolProofs -------------------------
(***************************************************************************)
(* Theorems about ProfilePool, for any number of processes, profiles and   *)
(* directories.  PoolInv is inductive.  Local(p) is what process p knows;  *)
(* the lemmas about it are used twice: for the process that moves, action  *)
(* by action, and (Others) for those that do not.                          *)
(***************************************************************************)
EXTENDS ProfilePool, TLAPS

---------------------------------------------------------------------------
(* The inductive invariant: what holds of the directories and the registry *)
(* and what each process knows.                                            *)

\* Steps under the registry lock.
AtTask    == {"recover"} \cup Finish \cup Tasks
LockSteps == AtTask \cup {"manifest"}

\* No two directories share a place; a registered profile has its directory,
\* unless its removal is under way, which can be finished.
Stored ==
    /\ \A d, e \in Dir : place[d] = place[e] /\ place[d] # Nowhere => d = e
    /\ \A n \in registry.profiles :
         Exists(n) \/ (manifest # None /\ manifest.name = n)
    /\ RemovalResolvable

\* Only the holder of the registry lock is at such a step; once past recovery
\* it sees no manifest.
Locked(p) ==
    /\ registryLock = p <=> pc[p] \in LockSteps
    /\ pc[p] \in Tasks \cup {"manifest"} => manifest = None

\* Whether p is finishing a removal of its own, whose directory may be archived.
Removing(p) == pc[p] \in Finish /\ task[p] = "done"

HomeHeld(p) == home[p] # None =>
    /\ lease[home[p]] = p
    /\ target[p] \in Profile
    /\ ~Removing(p) => place[home[p]] = target[p]

NextHeld(p) == next[p] # None =>
    /\ lease[next[p][2]] = p /\ next[p][2] # home[p]
    /\ place[next[p][2]] = next[p][1]
    /\ next[p][1] \in registry.profiles \ registry.cooling

\* The leases of measurements are no others of the process.
ProbesHeld(p) ==
    /\ \A n \in Profile : probe[p][n] = "probing" =>
         /\ pc[p] = "measure" /\ opened[p][n] # None
         /\ lease[opened[p][n]] = p /\ opened[p][n] # home[p]
    /\ \A m, n \in Profile :
         probe[p][m] = "probing" /\ probe[p][n] = "probing" /\ m # n
           => opened[p][m] # opened[p][n]

\* Whoever finishes a removal has the lease of the directory, wherever it is.
Finishing(p) == pc[p] \in Finish =>
    /\ manifest # None
    /\ \A d \in Dir : place[d] \in {manifest.name, manifest.archive} =>
         lease[d] = p /\ (d = home[p] <=> task[p] = "done")
    /\ pc[p] # "archive" => ~Exists(manifest.name)
    /\ pc[p] = "forget" => manifest.name \notin registry.profiles

\* Which locals a step comes with.
Shape(p) ==
    /\ pc[p] \in Tasks => task[p] = pc[p]
    /\ running[p] =>
         /\ home[p] # None
         /\ \/ pc[p] \in {"session", "measure", "switch"}
            \/ pc[p] \in {"lock"} \cup AtTask /\ task[p] \in {"limit", "snapshot", "select"}
    /\ next[p] # None <=> pc[p] = "switch"
    /\ pc[p] \in {"lock"} \cup AtTask /\ task[p] \in {"register", "last", "done", "limit"}
         => home[p] # None
    /\ pc[p] \in {"manifest", "session", "switch"} => home[p] # None
    /\ pc[p] \in {"session", "switch"} => running[p]
    /\ pc[p] \in {"lock"} \cup AtTask /\ task[p] = "limit" => running[p]
    /\ pc[p] \in {"lock"} \cup AtTask /\ task[p] = "login" => command[p] = "login"
    /\ pc[p] = "manifest" => command[p] = "rm"
    /\ pc[p] \in {"lock"} \cup AtTask /\ task[p] \in {"rm", "done"} => command[p] = "rm"
    /\ pc[p] \in {"lock", "recover"} => task[p] # "done"
    /\ pc[p] = "idle" => home[p] = None
    /\ command[p] \in {"login", "run", "rm"} => target[p] # None

\* The profile auto works with, or rm is about to remove, is registered; before
\* its child is started it is not cooling down.
Working(p) ==
    /\ command[p] = "auto" /\ home[p] # None => target[p] \in registry.profiles
    /\ pc[p] \in {"lock"} \cup AtTask /\ task[p] = "last" => target[p] \notin registry.cooling
    /\ pc[p] = "manifest" => target[p] \in registry.profiles

Local(p) == /\ Locked(p) /\ HomeHeld(p) /\ NextHeld(p) /\ ProbesHeld(p)
            /\ Finishing(p) /\ Shape(p) /\ Working(p)

PoolInv == PoolTypeOK /\ Stored /\ \A p \in Proc : Local(p)

---------------------------------------------------------------------------
(* Where things are.                                                       *)

\* At(n) is the directory at n, if there is one.
LEMMA AtExists ==
    ASSUME NEW n, Exists(n)
    PROVE  At(n) \in Dir /\ place[At(n)] = n
BY Zenon DEF At, Exists

LEMMA AtIs ==
    ASSUME Stored, NEW d \in Dir, place[d] # Nowhere
    PROVE  Exists(place[d]) /\ At(place[d]) = d
<1>1. Exists(place[d]) BY Zenon DEF Exists
<1> QED BY <1>1, AtExists, Zenon DEF Stored

\* What does not move a directory does not move what it is at.
LEMMA PlacesStay ==
    ASSUME place' = place, NEW n
    PROVE  Exists(n)' = Exists(n) /\ At(n)' = At(n)
BY Zenon DEF At, Exists

---------------------------------------------------------------------------
(* The processes that do not move.                                         *)

\* A step leaves the locals, the leases and the registry lock of q alone, ...
Bystander(q) ==
    /\ pc'[q] = pc[q] /\ command'[q] = command[q] /\ task'[q] = task[q]
    /\ target'[q] = target[q] /\ home'[q] = home[q] /\ next'[q] = next[q]
    /\ running'[q] = running[q] /\ probe'[q] = probe[q] /\ opened'[q] = opened[q]
    /\ registryLock' = q <=> registryLock = q
    /\ \A d \in Dir : lease[d] = q => lease'[d] = q

\* ... and what q knows of the disk.
Spared(q) ==
    /\ registryLock = q =>
         manifest' = manifest /\ place' = place /\ registry'.profiles = registry.profiles
    /\ \A d \in Dir : lease[d] = q /\ place[d] \in Profile =>
         /\ place'[d] = place[d]
         /\ place[d] \in registry.profiles => place[d] \in registry'.profiles
         /\ place[d] \in registry'.cooling => place[d] \in registry.cooling

LEMMA Others ==
    ASSUME PoolTypeOK, NEW q \in Proc, Local(q), Bystander(q), Spared(q)
    PROVE  Local(q)'
<1> USE DEF Local
<1> USE PoolAssumption
<1>1. Locked(q)'
  BY DEF Locked, Bystander, Spared, LockSteps, AtTask
<1>2. home[q] # None => home[q] \in Dir
  BY DEF PoolTypeOK
<1>3. HomeHeld(q)'
  BY <1>2 DEF HomeHeld, Bystander, Spared, Removing
<1>4. next[q] # None => next[q][1] \in Profile /\ next[q][2] \in Dir
  BY DEF PoolTypeOK
<1>5. NextHeld(q)'
  BY <1>4 DEF NextHeld, Bystander, Spared
<1>6. \A n \in Profile : opened[q][n] # None => opened[q][n] \in Dir
  BY DEF PoolTypeOK
<1>7. ProbesHeld(q)'
  BY <1>6 DEF ProbesHeld, Bystander
<1>8. pc[q] \in Finish => registryLock = q
  BY DEF Locked, LockSteps, AtTask
<1>9. pc[q] \in Finish => manifest' = manifest /\ place' = place
                        /\ registry'.profiles = registry.profiles
  BY <1>8 DEF Spared
<1>10. Finishing(q)'
  BY <1>9 DEF Finishing, Bystander, Exists
<1>11. Shape(q)'
  BY DEF Shape, Bystander
<1>12. command[q] = "auto" => ~Removing(q)
  BY DEF Shape, Removing, AtTask
<1>13. task[q] = "last" => ~Removing(q)
  BY DEF Removing
<1>14. Working(q)'
  BY <1>2, <1>12, <1>13 DEF Working, HomeHeld, Shape, Locked, LockSteps, Bystander, Spared
<1> QED BY <1>1, <1>3, <1>5, <1>7, <1>10, <1>11, <1>14

\* The invariant, one process at a time.
LEMMA Composed ==
    ASSUME PoolInv, PoolTypeOK', Stored', NEW p \in Proc, Local(p)',
           \A q \in Proc \ {p} : Bystander(q) /\ Spared(q)
    PROVE  PoolInv'
<1>1. ASSUME NEW q \in Proc, q # p  PROVE Local(q)'
  BY <1>1, Others DEF PoolInv
<1> QED BY <1>1 DEF PoolInv

---------------------------------------------------------------------------
(* Types, in two parts: what is on the disk, and the rest.                 *)

DiskOK ==
    /\ registry \in Registry /\ Valid(registry) /\ manifest \in Removal \cup {None}
    /\ place \in [Dir -> Place] /\ token \subseteq Dir

LocksOK == registryLock \in Proc \cup {Nobody} /\ lease \in [Dir -> Proc \cup {Nobody}]

ControlOK ==
    /\ pc \in [Proc -> Steps]
    /\ command \in [Proc -> Commands] /\ task \in [Proc -> Tasks \cup {"done"}]

WorkOK ==
    /\ target \in [Proc -> Profile \cup {None}] /\ home \in [Proc -> Dir \cup {None}]
    /\ next \in [Proc -> (Profile \X Dir) \cup {None}]
    /\ running \in [Proc -> BOOLEAN] /\ limited \in [Proc -> BOOLEAN]
    /\ attempted \in [Proc -> SUBSET Profile]

ProbesOK ==
    /\ probe \in [Proc -> [Profile -> Probes]]
    /\ opened \in [Proc -> [Profile -> Dir \cup {None}]]

CountsOK == commands \in Nat /\ crashes \in Nat

LEMMA Types ==
    PoolTypeOK <=> DiskOK /\ LocksOK /\ ControlOK /\ WorkOK /\ ProbesOK /\ CountsOK
BY Zenon DEF PoolTypeOK, DiskOK, LocksOK, ControlOK, WorkOK, ProbesOK, CountsOK

LEMMA TypesNext ==
    PoolTypeOK' <=> DiskOK' /\ LocksOK' /\ ControlOK' /\ WorkOK' /\ ProbesOK' /\ CountsOK'
BY Zenon DEF PoolTypeOK, DiskOK, LocksOK, ControlOK, WorkOK, ProbesOK, CountsOK

LEMMA DiskStays ==
    ASSUME PoolInv, UNCHANGED disk
    PROVE  DiskOK' /\ Stored' /\ \A q \in Proc : Spared(q)
<1>1. DiskOK' BY Types DEF PoolInv, DiskOK, disk, Valid
<1>2. Stored' BY DEF PoolInv, Stored, RemovalResolvable, Resolvable, Exists, disk
<1>3. \A q \in Proc : Spared(q) BY DEF Spared, disk
<1> QED BY <1>1, <1>2, <1>3

---------------------------------------------------------------------------
(* Commands end.                                                           *)

LEMMA Ended ==
    ASSUME PoolInv, NEW p \in Proc, End(p)
    PROVE  /\ LocksOK' /\ ControlOK' /\ WorkOK' /\ ProbesOK'
           /\ Local(p)'
           /\ \A q \in Proc \ {p} : Bystander(q)
<1> USE PoolAssumption DEF PoolInv, End, Goto, Assign
<1>0. LocksOK /\ ControlOK /\ WorkOK /\ ProbesOK BY Types
<1>1. LocksOK' BY <1>0 DEF LocksOK
<1>2. ControlOK' BY <1>0 DEF ControlOK, Steps, Commands
<1>3. WorkOK' BY <1>0 DEF WorkOK
<1>4. ProbesOK' BY <1>0 DEF ProbesOK, Probes
<1>5. /\ pc'[p] = "idle" /\ registryLock' # p /\ home'[p] = None /\ next'[p] = None
      /\ ~running'[p] /\ command'[p] = "none" /\ task'[p] = "done"
      /\ \A n \in Profile : probe'[p][n] = "none"
  BY <1>0 DEF LocksOK, ControlOK, WorkOK, ProbesOK
<1>6. Local(p)'
  BY <1>5 DEF Local, Locked, HomeHeld, NextHeld, ProbesHeld, Finishing, Shape, Working,
              LockSteps, AtTask, Finish, Tasks
<1>7. \A q \in Proc \ {p} : Bystander(q)
  BY <1>0 DEF Bystander, LocksOK, ControlOK, WorkOK, ProbesOK
<1> QED BY <1>1, <1>2, <1>3, <1>4, <1>6, <1>7

LEMMA EndStep ==
    ASSUME PoolInv, NEW p \in Proc, End(p), UNCHANGED disk, CountsOK'
    PROVE  PoolInv'
BY DiskStays, Ended, TypesNext, Composed

\* A step that leaves the disk alone.
LEMMA Quiet ==
    ASSUME PoolInv, NEW p \in Proc, UNCHANGED disk,
           LocksOK', ControlOK', WorkOK', ProbesOK', CountsOK', Local(p)',
           \A q \in Proc \ {p} : Bystander(q)
    PROVE  PoolInv'
BY DiskStays, TypesNext, Composed

LEMMA BeginStep ==
    ASSUME PoolInv, NEW p \in Proc, NEW c \in Commands, NEW n \in Profile \cup {None},
           NEW t \in {"login", "run", "rm", "snapshot"},
           t \in {"login", "rm"} => c = t, c \in {"login", "run", "rm"} => n # None,
           Begin(p, c, n, t)
    PROVE  PoolInv'
<1> USE PoolAssumption DEF PoolInv, Begin, Await, Goto, Assign
<1>1. LocksOK /\ ControlOK /\ WorkOK /\ ProbesOK /\ CountsOK BY Types
<1>2. LocksOK' /\ ProbesOK' BY <1>1 DEF LocksOK, ProbesOK, locks, probes
<1>3. ControlOK' BY <1>1 DEF ControlOK, Tasks, Steps
<1>4. WorkOK' BY <1>1 DEF WorkOK, child
<1>5. CountsOK' BY <1>1 DEF CountsOK
<1>6. pc'[p] = "lock" /\ task'[p] = t /\ command'[p] = c /\ target'[p] = n
  BY <1>1 DEF ControlOK, WorkOK
<1>7. home[p] = None /\ next[p] = None /\ ~running[p]
  BY DEF Local, Shape
<1>8. Local(p)'
  BY <1>6, <1>7 DEF Local, Locked, HomeHeld, NextHeld, ProbesHeld, Finishing, Shape, Working,
              LockSteps, AtTask, Finish, Tasks, locks, child, probes
<1>9. \A q \in Proc \ {p} : Bystander(q)
  BY <1>1 DEF Bystander, ControlOK, WorkOK, locks, child, probes
<1> QED BY <1>2, <1>3, <1>4, <1>5, <1>8, <1>9, Quiet

LEMMA LockStep ==
    ASSUME PoolInv, NEW p \in Proc, Lock(p)
    PROVE  PoolInv'
<1> USE PoolAssumption DEF PoolInv, Lock, Goto
<1>1. LocksOK /\ ControlOK /\ WorkOK /\ ProbesOK /\ CountsOK BY Types
<1>2. LocksOK' BY <1>1 DEF LocksOK
<1>3. ControlOK' BY <1>1 DEF ControlOK, Steps
<1>4. WorkOK' /\ ProbesOK' /\ CountsOK'
  BY <1>1 DEF WorkOK, ProbesOK, CountsOK, child, probes, counts
<1>6. pc'[p] = "recover" /\ registryLock' = p
  BY <1>1 DEF ControlOK
<1>8. Local(p)'
  BY <1>6 DEF Local, Locked, HomeHeld, NextHeld, ProbesHeld, Finishing, Shape, Working, Removing,
              LockSteps, AtTask, Finish, Tasks, disk, child, probes
<1>9. \A q \in Proc \ {p} : Bystander(q)
  BY <1>1 DEF Bystander, ControlOK, child, probes
<1> QED BY <1>2, <1>3, <1>4, <1>8, <1>9, Quiet

LEMMA NothingToRecoverStep ==
    ASSUME PoolInv, NEW p \in Proc, NothingToRecover(p)
    PROVE  PoolInv'
<1> USE PoolAssumption DEF PoolInv, NothingToRecover, Goto
<1>1. LocksOK /\ ControlOK /\ WorkOK /\ ProbesOK /\ CountsOK BY Types
<1>2. task[p] \in Tasks BY <1>1 DEF Local, Shape, ControlOK
<1>3. ControlOK' BY <1>1, <1>2 DEF ControlOK, Steps
<1>4. LocksOK' /\ WorkOK' /\ ProbesOK' /\ CountsOK'
  BY <1>1 DEF LocksOK, WorkOK, ProbesOK, CountsOK, locks, child, probes, counts
<1>5. pc'[p] = task[p] BY <1>1 DEF ControlOK
<1>6. Local(p)'
  BY <1>2, <1>5 DEF Local, Locked, HomeHeld, NextHeld, ProbesHeld, Finishing, Shape, Working,
              Removing, LockSteps, AtTask, Finish, Tasks, disk, locks, child, probes
<1>7. \A q \in Proc \ {p} : Bystander(q)
  BY <1>1 DEF Bystander, ControlOK, locks, child, probes
<1> QED BY <1>3, <1>4, <1>6, <1>7, Quiet

---------------------------------------------------------------------------
(* A removal is finished.                                                  *)

\* A removal that is under way has one directory, at either end of its move.
LEMMA RemovedIs ==
    ASSUME PoolInv, manifest # None
    PROVE  /\ manifest \in Removal /\ manifest.name # manifest.archive
           /\ Removed(manifest) \in Dir
           /\ \A d \in Dir : place[d] \in {manifest.name, manifest.archive}
                               <=> d = Removed(manifest)
<1> USE PoolAssumption DEF PoolInv
<1>1. manifest \in Removal /\ manifest.name # manifest.archive
  BY DEF PoolTypeOK, Removal
<1>2. Exists(manifest.name) # Exists(manifest.archive)
  BY DEF Stored, RemovalResolvable, Resolvable
<1>3. CASE Exists(manifest.name)
  <2>1. Removed(manifest) \in Dir /\ place[Removed(manifest)] = manifest.name
    BY <1>3, AtExists DEF Removed
  <2>2. ~Exists(manifest.archive) BY <1>2, <1>3
  <2>3. manifest.name # Nowhere BY <1>1 DEF Removal
  <2> QED BY <1>1, <2>1, <2>2, <2>3 DEF Stored, Exists
<1>4. CASE ~Exists(manifest.name)
  <2>0. Exists(manifest.archive) BY <1>2, <1>4 DEF Exists
  <2>1. Removed(manifest) \in Dir /\ place[Removed(manifest)] = manifest.archive
    BY <2>0, <1>4, AtExists DEF Removed
  <2>2. manifest.archive # Nowhere BY <1>1 DEF Removal
  <2> QED BY <1>1, <1>4, <2>1, <2>2 DEF Stored, Exists
<1> QED BY <1>3, <1>4

LEMMA RecoverRemovalStep ==
    ASSUME PoolInv, NEW p \in Proc, RecoverRemoval(p)
    PROVE  PoolInv'
<1> USE PoolAssumption DEF PoolInv, RecoverRemoval, Goto
<1>1. LocksOK /\ ControlOK /\ WorkOK /\ ProbesOK /\ CountsOK BY Types
<1>2. ControlOK' BY <1>1 DEF ControlOK, Steps, Finish
<1>3. LocksOK' BY <1>1 DEF LocksOK
<1>4. WorkOK' /\ ProbesOK' /\ CountsOK'
  BY <1>1 DEF WorkOK, ProbesOK, CountsOK, child, probes, counts
<1>5. /\ pc'[p] = "archive" /\ task'[p] = task[p] /\ task[p] \in Tasks
      /\ registryLock = p
  BY <1>1 DEF ControlOK, Local, Shape, Locked, LockSteps, AtTask
<1>6. /\ Removed(manifest) \in Dir /\ lease[Removed(manifest)] = Nobody
      /\ lease'[Removed(manifest)] = p
      /\ \A d \in Dir : lease[d] = p => lease'[d] = p
  BY <1>1, RemovedIs DEF LocksOK, Free
<1>7. Locked(p)' BY <1>5 DEF Local, Locked, LockSteps, AtTask, Finish, Tasks, disk
<1>8. HomeHeld(p)' /\ NextHeld(p)' /\ ProbesHeld(p)'
  <2>1. home[p] # None => home[p] \in Dir BY <1>1 DEF WorkOK
  <2>2. next[p] # None => next[p][2] \in Dir BY <1>1 DEF WorkOK
  <2>3. \A n \in Profile : opened[p][n] # None => opened[p][n] \in Dir BY <1>1 DEF ProbesOK
  <2>4. task[p] # "done" BY <1>5 DEF Tasks
  <2>5. HomeHeld(p)' BY <1>5, <1>6, <2>1, <2>4 DEF Local, HomeHeld, Removing, disk, Finish
  <2>6. NextHeld(p)' BY <1>6, <2>2 DEF Local, NextHeld, disk
  <2>7. ProbesHeld(p)' BY <1>6, <2>3 DEF Local, ProbesHeld, probes
  <2> QED BY <2>5, <2>6, <2>7
<1>9. Finishing(p)'
  <2>1. home[p] # Removed(manifest)
    BY <1>1, <1>6 DEF Local, HomeHeld, WorkOK
  <2>2. \A d \in Dir : place[d] \in {manifest.name, manifest.archive} => d = Removed(manifest)
    BY RemovedIs
  <2> QED BY <1>5, <1>6, <2>1, <2>2 DEF Finishing, disk, Tasks
<1>10. Shape(p)' /\ Working(p)'
  BY <1>5 DEF Local, Shape, Working, AtTask, Finish, Tasks, disk, child
<1>11. \A q \in Proc \ {p} : Bystander(q)
  BY <1>1, <1>6 DEF Bystander, LocksOK, ControlOK, child, probes
<1> QED BY <1>2, <1>3, <1>4, <1>7, <1>8, <1>9, <1>10, <1>11, Quiet DEF Local

LEMMA KeepSessionStep ==
    ASSUME PoolInv, NEW p \in Proc, running[p], pc[p] # "switch",
           KeepSession(p), UNCHANGED <<disk, counts>>
    PROVE  PoolInv'
<1> USE PoolAssumption DEF PoolInv, KeepSession, Goto
<1>1. LocksOK /\ ControlOK /\ WorkOK /\ ProbesOK /\ CountsOK BY Types
<1>2. ControlOK' BY <1>1 DEF ControlOK, Steps
<1>3. LocksOK' BY <1>1 DEF LocksOK
<1>4. ProbesOK' BY <1>1 DEF ProbesOK, Probes
<1>5. WorkOK' /\ CountsOK' BY <1>1 DEF WorkOK, CountsOK, child, counts
<1>6. /\ pc'[p] = "session" /\ registryLock' # p
      /\ \A n \in Profile : probe'[p][n] = "none"
  BY <1>1 DEF LocksOK, ControlOK, ProbesOK
<1>7. home[p] # None /\ next[p] = None /\ ~Removing(p)
  BY DEF Local, Shape, Removing, Finish, Tasks, AtTask
<1>8. Local(p)'
  BY <1>6, <1>7 DEF Local, Locked, HomeHeld, NextHeld, ProbesHeld, Finishing, Shape, Working,
              LockSteps, AtTask, Finish, Tasks, disk, child
<1>9. \A q \in Proc \ {p} : Bystander(q)
  BY <1>1 DEF Bystander, LocksOK, ControlOK, ProbesOK, child
<1> QED BY <1>2, <1>3, <1>4, <1>5, <1>8, <1>9, Quiet

LEMMA FailsStep ==
    ASSUME PoolInv, NEW p \in Proc, pc[p] # "switch", Fails(p), UNCHANGED <<disk, counts>>
    PROVE  PoolInv'
<1>1. CountsOK' BY Types DEF PoolInv, CountsOK, counts
<1> QED BY <1>1, KeepSessionStep, EndStep DEF Fails

LEMMA ArchiveDirectoryStep ==
    ASSUME PoolInv, NEW p \in Proc, ArchiveDirectory(p)
    PROVE  PoolInv'
<1> USE PoolAssumption DEF PoolInv, ArchiveDirectory, Goto
<1>1. DiskOK /\ LocksOK /\ ControlOK /\ WorkOK /\ ProbesOK /\ CountsOK BY Types
<1>2. /\ manifest # None /\ registryLock = p
      /\ \A d \in Dir : place[d] \in {manifest.name, manifest.archive} => lease[d] = p
      /\ \A d \in Dir : place[d] \in {manifest.name, manifest.archive}
                          => (d = home[p] <=> task[p] = "done")
  BY DEF Local, Finishing, Locked, LockSteps, AtTask, Finish
<1> DEFINE r == Removed(manifest)
<1>3. /\ manifest \in Removal /\ manifest.name # manifest.archive
      /\ r \in Dir
      /\ \A d \in Dir : place[d] \in {manifest.name, manifest.archive} <=> d = r
  BY <1>2, RemovedIs
<1> HIDE DEF r
<1>4. place' = [place EXCEPT ![r] = manifest.archive]
  <2>1. CASE Exists(manifest.name) BY <2>1 DEF r, Removed
  <2>2. CASE ~Exists(manifest.name)
    <3>1. place[r] # manifest.name BY <1>3, <2>2 DEF Exists
    <3>2. place[r] = manifest.archive BY <1>3, <3>1
    <3>3. place' = place BY <2>2
    <3> QED BY <1>1, <1>3, <3>2, <3>3 DEF DiskOK
  <2> QED BY <2>1, <2>2
<1>5. DiskOK' BY <1>1, <1>3, <1>4 DEF DiskOK, Place, Removal, Valid
<1>6. LocksOK' /\ ControlOK' /\ WorkOK' /\ ProbesOK' /\ CountsOK'
  BY <1>1 DEF LocksOK, ControlOK, WorkOK, ProbesOK, CountsOK, FinishFrame, locks, child,
              probes, counts, Steps, Finish
<1>7. /\ place'[r] = manifest.archive /\ \A d \in Dir : d # r => place'[d] = place[d]
      /\ \A d \in Dir : d # r => place[d] \notin {manifest.name, manifest.archive}
  BY <1>1, <1>3, <1>4 DEF DiskOK
<1>8. Stored'
  <2>1. \A d, e \in Dir : place'[d] = place'[e] /\ place'[d] # Nowhere => d = e
    BY <1>3, <1>7 DEF Stored
  <2>2. \A n \in registry.profiles : Exists(n)' \/ manifest.name = n
    <3> SUFFICES ASSUME NEW n \in registry.profiles, n # manifest.name PROVE Exists(n)'
      OBVIOUS
    <3>1. PICK d \in Dir : place[d] = n BY DEF Stored, Exists
    <3>2. n \in Profile /\ n # manifest.archive BY <1>1, <1>3 DEF DiskOK, Registry, Removal
    <3> QED BY <1>3, <1>7, <3>1, <3>2 DEF Exists
  <2>3. Exists(manifest.archive)' BY <1>3, <1>7 DEF Exists
  <2>4. ~Exists(manifest.name)' BY <1>3, <1>7 DEF Exists
  <2> QED BY <1>2, <2>1, <2>2, <2>3, <2>4 DEF Stored, RemovalResolvable, Resolvable
<1>9. Local(p)'
  <2>1. pc'[p] = "unregister" /\ Removing(p)' = Removing(p)
    BY <1>1 DEF ControlOK, Removing, Finish, FinishFrame
  <2>2. HomeHeld(p)' BY <1>1, <1>2, <1>3, <1>7, <2>1
    DEF Local, HomeHeld, Removing, Finish, FinishFrame, locks, WorkOK
  <2>3. next[p] = None BY DEF Local, Shape
  <2>4. Locked(p)' /\ NextHeld(p)' /\ ProbesHeld(p)' /\ Shape(p)' /\ Working(p)'
    BY <2>1, <2>3 DEF Local, Locked, NextHeld, ProbesHeld, Shape, Working, LockSteps, AtTask,
                 Finish, Tasks, FinishFrame, locks, child, probes
  <2>5. ~Exists(manifest.name)' BY <1>3, <1>7 DEF Exists
  <2>6. Finishing(p)'
    BY <1>2, <1>3, <1>7, <2>1, <2>5 DEF Finishing, FinishFrame, locks
  <2> QED BY <2>2, <2>4, <2>6 DEF Local
<1>10. \A q \in Proc \ {p} : Bystander(q)
  BY <1>1 DEF Bystander, ControlOK, FinishFrame, locks, child, probes
<1>11. lease[r] = p BY <1>2, <1>3
<1>12. \A q \in Proc \ {p} : Spared(q)
  BY <1>2, <1>7, <1>11 DEF Spared
<1> QED BY <1>5, <1>6, <1>8, <1>9, <1>10, <1>12, TypesNext, Composed

LEMMA UnregisterStep ==
    ASSUME PoolInv, NEW p \in Proc, Unregister(p)
    PROVE  PoolInv'
<1> USE PoolAssumption DEF PoolInv, Unregister, Goto
<1>1. DiskOK /\ LocksOK /\ ControlOK /\ WorkOK /\ ProbesOK /\ CountsOK BY Types
<1>2. /\ manifest # None /\ registryLock = p /\ ~Exists(manifest.name)
      /\ \A d \in Dir : place[d] \in {manifest.name, manifest.archive} => lease[d] = p
  BY DEF Local, Finishing, Locked, LockSteps, AtTask, Finish
<1>3. /\ registry'.profiles = registry.profiles \ {manifest.name}
      /\ registry'.cooling = registry.cooling \ {manifest.name}
      /\ registry'.last = IF registry.last = manifest.name THEN None ELSE registry.last
      /\ registry' \in Registry /\ Valid(registry)'
  BY <1>1 DEF DiskOK, Without, Registry, Valid
<1>4. DiskOK' BY <1>1, <1>3 DEF DiskOK
<1>5. LocksOK' /\ ControlOK' /\ WorkOK' /\ ProbesOK' /\ CountsOK'
  BY <1>1 DEF LocksOK, ControlOK, WorkOK, ProbesOK, CountsOK, FinishFrame, locks, child,
              probes, counts, Steps, Finish
<1>6. Stored'
  BY <1>2, <1>3 DEF Stored, RemovalResolvable, Resolvable, Exists
<1>7. \A d \in Dir : place[d] # manifest.name BY <1>2 DEF Exists
<1>8. Local(p)'
  <2>1. pc'[p] = "forget" /\ Removing(p)' = Removing(p)
    BY <1>1 DEF ControlOK, Removing, Finish, FinishFrame
  <2>2. next[p] = None BY DEF Local, Shape
  <2>3. HomeHeld(p)' BY <2>1 DEF Local, HomeHeld, FinishFrame, locks
  <2>4. Locked(p)' /\ NextHeld(p)' /\ ProbesHeld(p)' /\ Shape(p)'
    BY <2>1, <2>2 DEF Local, Locked, NextHeld, ProbesHeld, Shape, LockSteps, AtTask,
                 Finish, Tasks, FinishFrame, locks, child, probes
  <2>5. Working(p)'
    <3>1. ASSUME command[p] = "auto", home[p] # None PROVE target[p] # manifest.name
      <4>1. ~Removing(p) BY <3>1 DEF Local, Shape, Removing, AtTask
      <4> QED BY <1>1, <1>7, <3>1, <4>1 DEF Local, HomeHeld, WorkOK
    <3> QED BY <1>3, <2>1, <3>1
        DEF Local, Working, AtTask, Finish, Tasks, FinishFrame
  <2>6. Finishing(p)'
    BY <1>2, <1>3, <2>1 DEF Local, Finishing, FinishFrame, locks, Exists, Finish
  <2> QED BY <2>3, <2>4, <2>5, <2>6 DEF Local
<1>9. \A q \in Proc \ {p} : Bystander(q)
  BY <1>1 DEF Bystander, ControlOK, FinishFrame, locks, child, probes
<1>10. \A q \in Proc \ {p} : Spared(q)
  BY <1>2, <1>3, <1>7 DEF Spared
<1> QED BY <1>4, <1>5, <1>6, <1>8, <1>9, <1>10, TypesNext, Composed

LEMMA Forgotten ==
    ASSUME PoolInv, NEW p \in Proc, pc[p] = "forget",
           manifest' = None, UNCHANGED <<registry, place, token>>
    PROVE  DiskOK' /\ Stored' /\ \A q \in Proc \ {p} : Spared(q)
<1> USE PoolAssumption DEF PoolInv
<1>1. DiskOK' BY Types DEF DiskOK, Valid
<1>2. /\ registryLock = p /\ manifest # None /\ manifest.name \notin registry.profiles
  BY DEF Local, Locked, Finishing, LockSteps, AtTask, Finish
<1>3. Stored' BY <1>2 DEF Stored, RemovalResolvable, Exists
<1>4. \A q \in Proc \ {p} : Spared(q) BY <1>2 DEF Spared
<1> QED BY <1>1, <1>3, <1>4

LEMMA ForgetRecoveredStep ==
    ASSUME PoolInv, NEW p \in Proc, ForgetRecovered(p)
    PROVE  PoolInv'
<1> USE PoolAssumption DEF PoolInv, ForgetRecovered, Goto
<1>1. LocksOK /\ ControlOK /\ WorkOK /\ ProbesOK /\ CountsOK BY Types
<1>2. task[p] \in Tasks BY <1>1 DEF ControlOK
<1>3. /\ manifest # None /\ registryLock = p /\ ~Exists(manifest.name)
      /\ \A d \in Dir : place[d] \in {manifest.name, manifest.archive} =>
           lease[d] = p /\ d # home[p]
  BY <1>2 DEF Local, Finishing, Locked, LockSteps, AtTask, Finish
<1> DEFINE r == At(manifest.archive)
<1>4. r \in Dir /\ place[r] = manifest.archive
  <2>1. Exists(manifest.archive)
    BY <1>3 DEF Stored, RemovalResolvable, Resolvable, Exists
  <2> QED BY <2>1, AtExists
<1>5. /\ lease[r] = p /\ r # home[p] BY <1>3, <1>4
<1> HIDE DEF r
<1>6. lease' = [lease EXCEPT ![r] = Nobody] BY DEF r
<1>7. LocksOK' BY <1>1, <1>4, <1>6 DEF LocksOK
<1>8. ControlOK' BY <1>1, <1>2 DEF ControlOK, Steps
<1>9. WorkOK' /\ ProbesOK' /\ CountsOK'
  BY <1>1 DEF WorkOK, ProbesOK, CountsOK, child, probes, counts
<1>10. pc'[p] = task[p] /\ ~Removing(p)' /\ ~Removing(p)
  BY <1>1, <1>2 DEF ControlOK, Removing, Tasks
<1>11. next[p] = None BY DEF Local, Shape
<1>12. HomeHeld(p)'
  <2>1. home[p] # None => home[p] \in Dir BY <1>1 DEF WorkOK
  <2> QED BY <1>1, <1>5, <1>6, <1>10, <2>1 DEF Local, HomeHeld, LocksOK
<1>13. Locked(p)' /\ NextHeld(p)' /\ ProbesHeld(p)' /\ Finishing(p)' /\ Shape(p)' /\ Working(p)'
  BY <1>2, <1>10, <1>11 DEF Local, Locked, NextHeld, ProbesHeld, Finishing, Shape, Working,
              LockSteps, AtTask, Finish, Tasks, child, probes
<1>14. \A q \in Proc \ {p} : Bystander(q)
  BY <1>1, <1>4, <1>5, <1>6 DEF Bystander, LocksOK, ControlOK, child, probes
<1> QED BY <1>7, <1>8, <1>9, <1>12, <1>13, <1>14, Forgotten, TypesNext, Composed DEF Local

LEMMA ForgetOwnStep ==
    ASSUME PoolInv, NEW p \in Proc, ForgetOwn(p)
    PROVE  PoolInv'
<1>1. CountsOK' BY Types DEF PoolInv, CountsOK, counts, ForgetOwn
<1>2. DiskOK' /\ Stored' /\ \A q \in Proc \ {p} : Spared(q) BY Forgotten DEF ForgetOwn
<1>3. End(p) BY DEF ForgetOwn
<1> QED BY <1>1, <1>2, <1>3, Ended, TypesNext, Composed

LEMMA FinishFailsStep ==
    ASSUME PoolInv, NEW p \in Proc, FinishFails(p)
    PROVE  PoolInv'
<1> USE PoolAssumption DEF PoolInv, FinishFails, Goto
<1>0. LocksOK /\ ControlOK /\ WorkOK /\ ProbesOK /\ CountsOK BY Types
<1>c. CountsOK' BY <1>0 DEF CountsOK, counts
<1>1. CASE ~running[p] BY <1>1, <1>c, EndStep
<1>2. CASE running[p]
  <2>1. /\ pc[p] \in Finish /\ task[p] # "done"
        /\ home[p] # None /\ home[p] \in Dir /\ next[p] = None
    BY <1>0, <1>2 DEF Local, Shape, AtTask, Finish, Tasks, WorkOK
  <2>2. /\ manifest # None /\ registryLock = p
        /\ \A d \in Dir : place[d] \in {manifest.name, manifest.archive} =>
             lease[d] = p /\ d # home[p]
    BY <2>1 DEF Local, Finishing, Locked, LockSteps, AtTask
  <2>3. /\ Removed(manifest) \in Dir /\ lease[Removed(manifest)] = p
        /\ Removed(manifest) # home[p]
    BY <2>2, RemovedIs
  <2>4. /\ lease' = [lease EXCEPT ![Removed(manifest)] = Nobody]
        /\ registryLock' = Nobody /\ pc' = [pc EXCEPT ![p] = "session"]
        /\ probe' = [probe EXCEPT ![p] = [n \in Profile |-> "none"]]
        /\ UNCHANGED <<command, task, target, home, next, child, attempted, opened>>
    BY <1>2 DEF Unlock
  <2>5. LocksOK' BY <1>0, <2>3, <2>4 DEF LocksOK
  <2>6. ControlOK' BY <1>0, <2>4 DEF ControlOK, Steps
  <2>7. ProbesOK' BY <1>0, <2>4 DEF ProbesOK, Probes
  <2>8. WorkOK' BY <1>0, <2>4 DEF WorkOK, child
  <2>9. /\ pc'[p] = "session" /\ registryLock' # p
        /\ \A n \in Profile : probe'[p][n] = "none"
        /\ lease'[home[p]] = lease[home[p]]
    BY <1>0, <2>1, <2>3, <2>4 DEF LocksOK, ControlOK, ProbesOK
  <2>10. Local(p)'
    <3>1. HomeHeld(p)'
      BY <2>1, <2>4, <2>9 DEF Local, HomeHeld, Removing, disk
    <3>2. Locked(p)' /\ NextHeld(p)' /\ ProbesHeld(p)' /\ Finishing(p)'
      BY <2>1, <2>4, <2>9 DEF Locked, NextHeld, ProbesHeld, Finishing, LockSteps, AtTask,
                  Finish, Tasks
    <3>3. Shape(p)' /\ Working(p)'
      BY <1>2, <2>1, <2>4, <2>9 DEF Local, Shape, Working, AtTask, Finish, Tasks, disk, child
    <3> QED BY <3>1, <3>2, <3>3 DEF Local
  <2>11. \A q \in Proc \ {p} : Bystander(q)
    BY <1>0, <2>2, <2>3, <2>4 DEF Bystander, LocksOK, ControlOK, ProbesOK, child
  <2> QED BY <1>c, <2>5, <2>6, <2>7, <2>8, <2>10, <2>11, Quiet
<1> QED BY <1>1, <1>2

LEMMA RecoveryFailsStep ==
    ASSUME PoolInv, NEW p \in Proc, RecoveryFails(p)
    PROVE  PoolInv'
BY FailsStep DEF RecoveryFails

---------------------------------------------------------------------------
(* login and run.                                                          *)

LEMMA CreateHomeStep ==
    ASSUME PoolInv, NEW p \in Proc, CreateHome(p)
    PROVE  PoolInv'
<1> USE PoolAssumption DEF PoolInv, CreateHome, Untask
<1>1. DiskOK /\ LocksOK /\ ControlOK /\ WorkOK /\ ProbesOK /\ CountsOK BY Types
<1>2. PICK d \in Dir : place[d] = Nowhere /\ place' = [place EXCEPT ![d] = target[p]]
  OBVIOUS
<1>3. /\ task[p] = "login" /\ registryLock = p /\ manifest = None
  BY DEF Local, Shape, Locked, LockSteps, AtTask, Tasks
<1>4. target[p] \in Profile \cup {None} BY <1>1 DEF WorkOK
<1>5. target[p] \in Profile
  BY <1>3, <1>4 DEF Local, Shape, AtTask, Tasks
<1>6. /\ place'[d] = target[p] /\ \A e \in Dir : e # d => place'[e] = place[e]
      /\ \A e \in Dir : place[e] # target[p]
  BY <1>1, <1>2 DEF DiskOK, Exists
<1>7. DiskOK' BY <1>1, <1>2, <1>5 DEF DiskOK, Place, Valid
<1>8. LocksOK' /\ ControlOK' /\ WorkOK' /\ ProbesOK' /\ CountsOK'
  BY <1>1 DEF LocksOK, ControlOK, WorkOK, ProbesOK, CountsOK, locks, child, probes, counts
<1>9. Stored'
  <2>1. \A e, f \in Dir : place'[e] = place'[f] /\ place'[e] # Nowhere => e = f
    BY <1>6 DEF Stored
  <2>2. \A n \in registry.profiles : Exists(n)'
    <3> SUFFICES ASSUME NEW n \in registry.profiles PROVE Exists(n)' OBVIOUS
    <3>1. PICK e \in Dir : place[e] = n BY <1>3 DEF Stored, Exists
    <3>2. n # Nowhere BY <1>1 DEF DiskOK, Registry
    <3> QED BY <1>2, <1>6, <3>1, <3>2 DEF Exists
  <2> QED BY <1>3, <2>1, <2>2 DEF Stored, RemovalResolvable
<1>10. \A e \in Dir : place[e] \in Profile => place'[e] = place[e]
  BY <1>2, <1>6
<1>11. \A q \in Proc \ {p} : Bystander(q) /\ Spared(q)
  BY <1>3, <1>10 DEF Bystander, Spared, locks, child, probes
<1>12. Local(p)'
  <2>1. home[p] # None => home[p] \in Dir BY <1>1 DEF WorkOK
  <2>2. HomeHeld(p)'
    BY <1>10, <2>1 DEF Local, HomeHeld, Removing, locks, Finish
  <2>3. next[p] = None /\ pc[p] = "login" BY DEF Local, Shape
  <2> QED BY <2>2, <2>3 DEF Local, Locked, NextHeld, ProbesHeld, Finishing, Shape, Working,
                  Finish, locks, child, probes
<1> QED BY <1>7, <1>8, <1>9, <1>11, <1>12, TypesNext, Composed

LEMMA LeaseHomeStep ==
    ASSUME PoolInv, NEW p \in Proc, NEW step \in {"session", "start"}, NEW alive \in BOOLEAN,
           pc[p] \in {"login", "run"}, alive <=> step = "session",
           pc[p] = "run" => target[p] \in registry.profiles,
           LeaseHome(p, step, alive)
    PROVE  PoolInv'
<1> USE PoolAssumption DEF PoolInv, LeaseHome, Goto, Assign, Unlock, Untask
<1>1. DiskOK /\ LocksOK /\ ControlOK /\ WorkOK /\ ProbesOK /\ CountsOK BY Types
<1> DEFINE d == At(target[p])
<1>2. d \in Dir /\ place[d] = target[p] /\ d # None /\ lease[d] = Nobody
  BY AtExists DEF Free
<1>3. /\ home' = [home EXCEPT ![p] = d] /\ lease' = [lease EXCEPT ![d] = p]
  OBVIOUS
<1> HIDE DEF d
<1>4. target[p] \in Profile /\ (command[p] = "auto" => target[p] \in registry.profiles)
  <2>1. CASE pc[p] = "run" BY <1>1, <2>1 DEF DiskOK, Registry
  <2>2. CASE pc[p] = "login"
    <3>1. command[p] = "login" /\ target[p] # None
      BY <2>2 DEF Local, Shape, AtTask, Tasks
    <3> QED BY <1>1, <3>1 DEF WorkOK
  <2> QED BY <2>1, <2>2
<1>5. LocksOK' BY <1>1, <1>2, <1>3 DEF LocksOK
<1>6. ControlOK' BY <1>1 DEF ControlOK, Steps
<1>7. WorkOK' BY <1>1, <1>2, <1>3 DEF WorkOK
<1>8. ProbesOK' /\ CountsOK' BY <1>1 DEF ProbesOK, CountsOK, probes, counts
<1>9. /\ pc'[p] = step /\ registryLock' # p /\ home'[p] = d /\ lease'[d] = p
      /\ running'[p] = alive /\ next[p] = None
  BY <1>1, <1>2, <1>3 DEF LocksOK, ControlOK, WorkOK, Local, Shape
<1>10. Local(p)'
  <2>1. HomeHeld(p)' BY <1>2, <1>4, <1>9 DEF HomeHeld, disk
  <2>2. Locked(p)' /\ NextHeld(p)' /\ ProbesHeld(p)' /\ Finishing(p)'
    BY <1>9 DEF Local, Locked, NextHeld, ProbesHeld, Finishing, LockSteps, AtTask,
                Finish, Tasks, probes
  <2>3. Shape(p)' /\ Working(p)'
    BY <1>2, <1>4, <1>9 DEF Shape, Working, AtTask, Finish, Tasks, disk
  <2> QED BY <2>1, <2>2, <2>3 DEF Local
<1>11. registryLock = p BY DEF Local, Locked, LockSteps, AtTask, Tasks
<1>12. \A q \in Proc \ {p} : Bystander(q)
  BY <1>1, <1>2, <1>3, <1>11 DEF Bystander, LocksOK, ControlOK, WorkOK, probes
<1> QED BY <1>5, <1>6, <1>7, <1>8, <1>10, <1>12, Quiet

LEMMA SignedInStep ==
    ASSUME PoolInv, NEW p \in Proc, SignedIn(p)
    PROVE  PoolInv'
<1> USE PoolAssumption DEF PoolInv, SignedIn, Goto, Assign, Await
<1>1. DiskOK /\ LocksOK /\ ControlOK /\ WorkOK /\ ProbesOK /\ CountsOK BY Types
<1>2. home[p] # None /\ home[p] \in Dir /\ next[p] = None /\ registryLock # p
  BY <1>1 DEF Local, Shape, Locked, LockSteps, AtTask, Finish, Tasks, WorkOK
<1>3. DiskOK' BY <1>1, <1>2 DEF DiskOK, Valid
<1>4. Stored' BY DEF Stored, RemovalResolvable, Resolvable, Exists
<1>5. ControlOK' BY <1>1 DEF ControlOK, Steps, Tasks
<1>6. WorkOK' BY <1>1 DEF WorkOK
<1>7. LocksOK' /\ ProbesOK' /\ CountsOK'
  BY <1>1 DEF LocksOK, ProbesOK, CountsOK, locks, probes, counts
<1>8. pc'[p] = "lock" /\ task'[p] = "register" /\ ~running'[p]
  BY <1>1 DEF ControlOK, WorkOK
<1>9. Local(p)'
  <2>1. HomeHeld(p)' BY <1>2, <1>8 DEF Local, HomeHeld, Removing, locks, Finish
  <2>2. Locked(p)' /\ NextHeld(p)' /\ ProbesHeld(p)' /\ Finishing(p)'
    BY <1>2, <1>8 DEF Local, Locked, NextHeld, ProbesHeld, Finishing, LockSteps, AtTask,
                Finish, Tasks, locks, probes
  <2>3. Shape(p)' /\ Working(p)'
    BY <1>2, <1>8 DEF Local, Shape, Working, AtTask, Finish, Tasks
  <2> QED BY <2>1, <2>2, <2>3 DEF Local
<1>10. \A q \in Proc \ {p} : Bystander(q) /\ Spared(q)
  BY <1>1 DEF Bystander, Spared, ControlOK, WorkOK, locks, probes
<1> QED BY <1>3, <1>4, <1>5, <1>6, <1>7, <1>9, <1>10, TypesNext, Composed

LEMMA RegisterStep ==
    ASSUME PoolInv, NEW p \in Proc, Register(p)
    PROVE  PoolInv'
<1> USE PoolAssumption DEF PoolInv, Register
<1>1. DiskOK /\ LocksOK /\ ControlOK /\ WorkOK /\ ProbesOK /\ CountsOK BY Types
<1>2. /\ registryLock = p /\ manifest = None /\ task[p] = "register"
      /\ home[p] \in Dir /\ target[p] \in Profile /\ place[home[p]] = target[p]
  BY <1>1 DEF Local, Locked, Shape, HomeHeld, Removing, LockSteps, AtTask, Finish, Tasks, WorkOK
<1>3. /\ registry'.profiles = registry.profiles \cup {target[p]}
      /\ registry'.cooling = registry.cooling /\ registry'.last = registry.last
      /\ registry' \in Registry /\ Valid(registry)'
  BY <1>1, <1>2 DEF DiskOK, Registry, Valid
<1>4. DiskOK' BY <1>1, <1>3 DEF DiskOK
<1>5. Stored'
  BY <1>2, <1>3 DEF Stored, RemovalResolvable, Exists
<1>6. CountsOK' BY <1>1 DEF CountsOK, counts
<1>7. \A q \in Proc \ {p} : Spared(q) BY <1>2, <1>3 DEF Spared
<1> QED BY <1>4, <1>5, <1>6, <1>7, Ended, TypesNext, Composed

LEMMA StartStep ==
    ASSUME PoolInv, NEW p \in Proc, Start(p)
    PROVE  PoolInv'
<1> USE PoolAssumption DEF PoolInv, Start, Goto, Assign, Untask
<1>1. DiskOK /\ LocksOK /\ ControlOK /\ WorkOK /\ ProbesOK /\ CountsOK BY Types
<1>2. home[p] # None /\ next[p] = None /\ registryLock # p
  BY <1>1 DEF Local, Shape, Locked, LockSteps, AtTask, Finish, Tasks, DiskOK
<1>3. ControlOK' BY <1>1 DEF ControlOK, Steps
<1>4. WorkOK' BY <1>1 DEF WorkOK
<1>5. LocksOK' /\ ProbesOK' /\ CountsOK'
  BY <1>1 DEF LocksOK, ProbesOK, CountsOK, locks, probes, counts
<1>6. pc'[p] = "session" /\ running'[p]
  BY <1>1 DEF ControlOK, WorkOK
<1>7. Local(p)'
  <2>1. HomeHeld(p)' BY <1>2, <1>6 DEF Local, HomeHeld, Removing, disk, locks, Finish
  <2>2. Locked(p)' /\ NextHeld(p)' /\ ProbesHeld(p)' /\ Finishing(p)'
    BY <1>2, <1>6 DEF Local, Locked, NextHeld, ProbesHeld, Finishing, LockSteps, AtTask,
                Finish, Tasks, locks, probes
  <2>3. Shape(p)' /\ Working(p)'
    BY <1>2, <1>6 DEF Local, Shape, Working, AtTask, Finish, Tasks, disk
  <2> QED BY <2>1, <2>2, <2>3 DEF Local
<1>8. \A q \in Proc \ {p} : Bystander(q)
  BY <1>1 DEF Bystander, ControlOK, WorkOK, locks, probes
<1> QED BY <1>3, <1>4, <1>5, <1>7, <1>8, Quiet

---------------------------------------------------------------------------
(* Measuring.                                                              *)

LEMMA SnapshotStep ==
    ASSUME PoolInv, NEW p \in Proc, Snapshot(p)
    PROVE  PoolInv'
<1> USE PoolAssumption DEF PoolInv, Snapshot, Goto, Unlock
<1>1. LocksOK /\ ControlOK /\ WorkOK /\ ProbesOK /\ CountsOK BY Types
<1>2. registryLock = p /\ next[p] = None /\ ~Removing(p)
  BY DEF Local, Shape, Locked, Removing, LockSteps, AtTask, Finish, Tasks
<1>3. ControlOK' BY <1>1 DEF ControlOK, Steps
<1>4. ProbesOK' BY <1>1 DEF ProbesOK, Probes
<1>5. LocksOK' /\ WorkOK' /\ CountsOK'
  BY <1>1 DEF LocksOK, WorkOK, CountsOK, child, counts
<1>6. /\ pc'[p] = "measure" /\ registryLock' # p
      /\ \A n \in Profile : probe'[p][n] # "probing"
  BY <1>1 DEF LocksOK, ControlOK, ProbesOK
<1>7. Local(p)'
  <2>1. HomeHeld(p)' BY <1>2, <1>6 DEF Local, HomeHeld, disk
  <2>2. Locked(p)' /\ NextHeld(p)' /\ ProbesHeld(p)' /\ Finishing(p)'
    BY <1>2, <1>6 DEF Locked, NextHeld, ProbesHeld, Finishing, LockSteps, AtTask,
                Finish, Tasks
  <2>3. Shape(p)' /\ Working(p)'
    BY <1>2, <1>6 DEF Local, Shape, Working, AtTask, Finish, Tasks, disk, child
  <2> QED BY <2>1, <2>2, <2>3 DEF Local
<1>8. \A q \in Proc \ {p} : Bystander(q)
  BY <1>1, <1>2 DEF Bystander, ControlOK, ProbesOK, child
<1> QED BY <1>3, <1>4, <1>5, <1>7, <1>8, Quiet

\* A step of one measurement.
LEMMA MeasuringStep ==
    ASSUME PoolInv, NEW p \in Proc, NEW n \in Profile,
           NEW before \in Probes, NEW after \in Probes, Measuring(p, n, before, after),
           LocksOK', opened' \in [Proc -> [Profile -> Dir \cup {None}]],
           HomeHeld(p)', ProbesHeld(p)',
           \A q \in Proc \ {p} : /\ opened'[q] = opened[q]
                                 /\ \A d \in Dir : lease[d] = q => lease'[d] = q
    PROVE  PoolInv'
<1> USE PoolAssumption DEF PoolInv, Measuring
<1>1. LocksOK /\ ControlOK /\ WorkOK /\ ProbesOK /\ CountsOK BY Types
<1>2. ControlOK' /\ WorkOK' /\ CountsOK'
  BY <1>1 DEF ControlOK, WorkOK, CountsOK, child, counts
<1>3. ProbesOK' BY <1>1 DEF ProbesOK
<1>4. next[p] = None BY DEF Local, Shape
<1>5. Locked(p)' /\ NextHeld(p)' /\ Finishing(p)' /\ Shape(p)' /\ Working(p)'
  BY <1>4 DEF Local, Locked, NextHeld, Finishing, Shape, Working, Finish, disk, child
<1>6. \A q \in Proc \ {p} : Bystander(q)
  BY <1>1 DEF Bystander, ProbesOK, child
<1> QED BY <1>2, <1>3, <1>5, <1>6, Quiet DEF Local

LEMMA MissingHomeStep ==
    ASSUME PoolInv, NEW p \in Proc, NEW n \in Profile, MissingHome(p, n)
    PROVE  PoolInv'
<1> USE DEF PoolInv, MissingHome, Measuring
<1>1. LocksOK /\ ProbesOK BY Types
<1>2. HomeHeld(p)' BY DEF Local, HomeHeld, Removing, disk
<1>3. ProbesHeld(p)' BY <1>1 DEF Local, ProbesHeld, ProbesOK
<1>4. LocksOK' /\ opened' \in [Proc -> [Profile -> Dir \cup {None}]]
  BY <1>1 DEF LocksOK, ProbesOK
<1> QED BY <1>2, <1>3, <1>4, MeasuringStep DEF Probes, Results

LEMMA OpenLeaseStep ==
    ASSUME PoolInv, NEW p \in Proc, NEW n \in Profile, OpenLease(p, n)
    PROVE  PoolInv'
<1> USE DEF PoolInv, OpenLease, Measuring
<1>1. LocksOK /\ ProbesOK BY Types
<1>2. At(n) \in Dir BY AtExists
<1>3. HomeHeld(p)' BY DEF Local, HomeHeld, Removing, disk
<1>4. LocksOK' /\ opened' \in [Proc -> [Profile -> Dir \cup {None}]]
  BY <1>1, <1>2 DEF LocksOK, ProbesOK
<1>5. /\ probe'[p][n] = "opened"
      /\ \A m \in Profile : m # n => /\ probe'[p][m] = probe[p][m]
                                     /\ opened'[p][m] = opened[p][m]
      /\ \A q \in Proc \ {p} : opened'[q] = opened[q]
  BY <1>1 DEF ProbesOK
<1>6. ProbesHeld(p)' BY <1>5 DEF Local, ProbesHeld
<1> QED BY <1>3, <1>4, <1>5, <1>6, MeasuringStep DEF Probes

LEMMA TryLeaseStep ==
    ASSUME PoolInv, NEW p \in Proc, NEW n \in Profile, TryLease(p, n)
    PROVE  PoolInv'
<1> USE PoolAssumption DEF PoolInv, TryLease
<1>1. LocksOK /\ ProbesOK /\ WorkOK BY Types
<1> DEFINE d == opened[p][n]
<1>2. d \in Dir /\ d # None BY <1>1 DEF ProbesOK
<1>3. opened' \in [Proc -> [Profile -> Dir \cup {None}]]
  BY <1>1 DEF ProbesOK
<1>4. CASE Free(d) /\ Measuring(p, n, "opened", "probing") /\ lease' = [lease EXCEPT ![d] = p]
  <2>0. UNCHANGED disk /\ UNCHANGED <<pc, task, target, home>> BY <1>4 DEF Measuring
  <2>1. LocksOK' BY <1>1, <1>2, <1>4 DEF LocksOK, Measuring
  <2>2. /\ lease[d] = Nobody /\ lease'[d] = p
        /\ \A e \in Dir : e # d => lease'[e] = lease[e]
    BY <1>1, <1>2, <1>4 DEF LocksOK, Free
  <2>3. home[p] # None => home[p] \in Dir /\ home[p] # d
    BY <1>1, <1>2, <2>2 DEF Local, HomeHeld, WorkOK
  <2>4. HomeHeld(p)' BY <2>0, <2>2, <2>3 DEF Local, HomeHeld, Removing, disk
  <2>5. /\ pc[p] = "measure" /\ probe'[p][n] = "probing"
        /\ \A m \in Profile : m # n => probe'[p][m] = probe[p][m]
    BY <1>1, <1>4 DEF Measuring, ProbesOK
  <2>6. \A m \in Profile : m # n /\ probe[p][m] = "probing" =>
          opened[p][m] \in Dir /\ opened[p][m] # d /\ lease'[opened[p][m]] = p
    BY <1>1, <2>2 DEF Local, ProbesHeld, ProbesOK
  <2>7. ProbesHeld(p)'
    <3>1. \A m \in Profile : m # n /\ probe[p][m] = "probing" =>
            opened[p][m] # None /\ opened[p][m] # home[p]
      BY DEF Local, ProbesHeld
    <3>2. d # home[p] BY <1>2, <2>3
    <3>3. \A m, k \in Profile : probe[p][m] = "probing" /\ probe[p][k] = "probing" /\ m # k
            => opened[p][m] # opened[p][k]
      BY DEF Local, ProbesHeld
    <3> QED BY <1>2, <2>0, <2>2, <2>5, <2>6, <3>1, <3>2, <3>3 DEF ProbesHeld
  <2>8. \A q \in Proc \ {p} : /\ opened'[q] = opened[q]
                              /\ \A e \in Dir : lease[e] = q => lease'[e] = q
    BY <2>2
  <2>9. Measuring(p, n, "opened", "probing") BY <1>4
  <2>10. "opened" \in Probes /\ "probing" \in Probes BY DEF Probes
  <2> QED BY <1>3, <2>1, <2>4, <2>7, <2>8, <2>9, <2>10, MeasuringStep
<1>5. CASE Measuring(p, n, "opened", "busy") /\ UNCHANGED lease
  <2>0. UNCHANGED disk /\ UNCHANGED <<pc, task, target, home>> BY <1>5 DEF Measuring
  <2>1. HomeHeld(p)' BY <1>5, <2>0 DEF Local, HomeHeld, Removing, disk
  <2>2. /\ probe'[p][n] = "busy"
        /\ \A m \in Profile : m # n => probe'[p][m] = probe[p][m]
    BY <1>1, <1>5 DEF Measuring, ProbesOK
  <2>3. ProbesHeld(p)' BY <1>5, <2>0, <2>2 DEF Local, ProbesHeld
  <2>4. LocksOK' BY <1>1, <1>5 DEF LocksOK, Measuring
  <2>5. "opened" \in Probes /\ "busy" \in Probes BY DEF Probes, Results
  <2> QED BY <1>3, <1>5, <2>1, <2>3, <2>4, <2>5, MeasuringStep
<1> QED BY <1>4, <1>5

LEMMA MeasuredStep ==
    ASSUME PoolInv, NEW p \in Proc, NEW n \in Profile, Measured(p, n)
    PROVE  PoolInv'
<1> USE PoolAssumption DEF PoolInv, Measured
<1>1. LocksOK /\ ProbesOK /\ WorkOK BY Types
<1> DEFINE d == opened[p][n]
<1>2. PICK r \in {"ready", "exhausted", "needs-login"} : Measuring(p, n, "probing", r)
  OBVIOUS
<1>3. /\ d \in Dir /\ lease[d] = p /\ d # home[p]
      /\ \A m \in Profile : m # n /\ probe[p][m] = "probing" => opened[p][m] # d
  BY <1>1, <1>2 DEF Local, ProbesHeld, ProbesOK, Measuring
<1>4. LocksOK' /\ opened' \in [Proc -> [Profile -> Dir \cup {None}]]
  BY <1>1, <1>2, <1>3 DEF LocksOK, ProbesOK, Measuring
<1>5. /\ \A e \in Dir : e # d => lease'[e] = lease[e]
      /\ probe'[p][n] # "probing"
      /\ \A m \in Profile : m # n => /\ probe'[p][m] = probe[p][m]
                                     /\ opened'[p][m] = opened[p][m]
      /\ \A q \in Proc \ {p} : opened'[q] = opened[q]
  BY <1>1, <1>2 DEF LocksOK, ProbesOK, Measuring
<1>6. UNCHANGED disk /\ UNCHANGED <<pc, task, target, home>> BY <1>2 DEF Measuring
<1>7. HomeHeld(p)'
  <2>1. home[p] # None => home[p] \in Dir BY <1>1 DEF WorkOK
  <2> QED BY <1>3, <1>5, <1>6, <2>1 DEF Local, HomeHeld, Removing, disk
<1>8. ProbesHeld(p)'
  <2>1. \A m \in Profile : probe'[p][m] = "probing" =>
          /\ m # n /\ probe[p][m] = "probing" /\ opened'[p][m] = opened[p][m]
          /\ opened[p][m] \in Dir /\ opened[p][m] # d
    BY <1>1, <1>3, <1>5 DEF Local, ProbesHeld, ProbesOK
  <2> QED BY <1>5, <1>6, <2>1 DEF Local, ProbesHeld
<1>9. \A q \in Proc \ {p} : /\ opened'[q] = opened[q]
                            /\ \A e \in Dir : lease[e] = q => lease'[e] = q
  BY <1>3, <1>5
<1>10. "probing" \in Probes /\ r \in Probes BY DEF Probes, Results
<1> QED BY <1>2, <1>4, <1>7, <1>8, <1>9, <1>10, MeasuringStep

LEMMA RefreshedStep ==
    ASSUME PoolInv, NEW p \in Proc, Refreshed(p)
    PROVE  PoolInv'
<1> USE PoolAssumption DEF PoolInv, Refreshed, AllMeasured, Await, Goto, Assign
<1>1. LocksOK /\ ControlOK /\ WorkOK /\ ProbesOK /\ CountsOK BY Types
<1>2. ControlOK' BY <1>1 DEF ControlOK, Steps, Tasks, Commands
<1>3. LocksOK' /\ WorkOK' /\ ProbesOK' /\ CountsOK'
  BY <1>1 DEF LocksOK, WorkOK, ProbesOK, CountsOK, locks, child, probes, counts
<1>4. /\ pc'[p] = "lock" /\ task'[p] = "snapshot" /\ command'[p] = "list"
      /\ \A n \in Profile : probe'[p][n] # "probing"
  BY <1>1 DEF ControlOK, ProbesOK, Results, probes
<1>5. next[p] = None /\ ~Removing(p) BY DEF Local, Shape, Removing, Finish
<1>6. Local(p)'
  <2>1. HomeHeld(p)' BY <1>4, <1>5 DEF Local, HomeHeld, disk, locks
  <2>2. Locked(p)' /\ NextHeld(p)' /\ ProbesHeld(p)' /\ Finishing(p)'
    BY <1>4, <1>5 DEF Local, Locked, NextHeld, ProbesHeld, Finishing, LockSteps, AtTask,
                Finish, Tasks, locks
  <2>3. Shape(p)' /\ Working(p)'
    BY <1>4, <1>5 DEF Local, Shape, Working, AtTask, Finish, Tasks, disk, child
  <2> QED BY <2>1, <2>2, <2>3 DEF Local
<1>7. \A q \in Proc \ {p} : Bystander(q)
  BY <1>1 DEF Bystander, ControlOK, locks, child, probes
<1> QED BY <1>2, <1>3, <1>6, <1>7, Quiet

LEMMA CompareStep ==
    ASSUME PoolInv, NEW p \in Proc, Compare(p)
    PROVE  PoolInv'
<1> USE PoolAssumption DEF PoolInv, Compare, AllMeasured, Await, Goto, Assign
<1>1. LocksOK /\ ControlOK /\ WorkOK /\ ProbesOK /\ CountsOK BY Types
<1>2. ControlOK' BY <1>1 DEF ControlOK, Steps, Tasks
<1>3. LocksOK' /\ WorkOK' /\ ProbesOK' /\ CountsOK'
  BY <1>1 DEF LocksOK, WorkOK, ProbesOK, CountsOK, locks, child, probes, counts
<1>4. /\ pc'[p] = "lock" /\ task'[p] = "select"
      /\ \A n \in Profile : probe'[p][n] # "probing"
  BY <1>1 DEF ControlOK, ProbesOK, Results, probes
<1>5. next[p] = None /\ ~Removing(p) BY DEF Local, Shape, Removing, Finish
<1>6. Local(p)'
  <2>1. HomeHeld(p)' BY <1>4, <1>5 DEF Local, HomeHeld, disk, locks
  <2>2. Locked(p)' /\ NextHeld(p)' /\ ProbesHeld(p)' /\ Finishing(p)'
    BY <1>4, <1>5 DEF Local, Locked, NextHeld, ProbesHeld, Finishing, LockSteps, AtTask,
                Finish, Tasks, locks
  <2>3. Shape(p)' /\ Working(p)'
    BY <1>4, <1>5 DEF Local, Shape, Working, AtTask, Finish, Tasks, disk, child
  <2> QED BY <2>1, <2>2, <2>3 DEF Local
<1>7. \A q \in Proc \ {p} : Bystander(q)
  BY <1>1 DEF Bystander, ControlOK, locks, child, probes
<1> QED BY <1>2, <1>3, <1>6, <1>7, Quiet

---------------------------------------------------------------------------
(* auto.                                                                   *)

\* What both picks have in common.
LEMMA Picked ==
    ASSUME PoolInv, NEW p \in Proc, NEW n \in Profile, Pick(p, n)
    PROVE  /\ At(n) \in Dir /\ place[At(n)] = n /\ At(n) # None
           /\ n \in registry.profiles /\ n \notin registry.cooling
           /\ lease[At(n)] = Nobody /\ lease'[At(n)] = p
           /\ \A d \in Dir : d # At(n) => lease'[d] = lease[d]
           /\ registryLock = p /\ registryLock' = Nobody /\ LocksOK'
           /\ \A m \in Profile : probe'[p][m] = "none"
           /\ \A q \in Proc \ {p} : probe'[q] = probe[q]
           /\ ProbesOK' /\ CountsOK'
           /\ next[p] = None /\ ~Removing(p)
<1> USE PoolAssumption DEF PoolInv, Pick, Selectable
<1>1. LocksOK /\ ProbesOK /\ CountsOK BY Types
<1>2. At(n) \in Dir /\ place[At(n)] = n /\ At(n) # None BY AtExists
<1> DEFINE d == At(n)
<1>3. lease' = [lease EXCEPT ![d] = p] /\ lease[d] = Nobody /\ d \in Dir
  BY <1>2 DEF Free
<1> HIDE DEF d
<1>4. /\ lease'[d] = p /\ \A e \in Dir : e # d => lease'[e] = lease[e]
      /\ registryLock' = Nobody /\ LocksOK'
  BY <1>1, <1>3 DEF LocksOK, Unlock
<1>5. /\ \A m \in Profile : probe'[p][m] = "none"
      /\ \A q \in Proc \ {p} : probe'[q] = probe[q]
      /\ ProbesOK' /\ CountsOK'
  BY <1>1 DEF ProbesOK, Probes, CountsOK, counts
<1>6. registryLock = p /\ next[p] = None /\ ~Removing(p)
  BY DEF Local, Shape, Locked, Removing, LockSteps, AtTask, Finish, Tasks
<1> QED BY <1>2, <1>3, <1>4, <1>5, <1>6 DEF d

LEMMA PickFirstStep ==
    ASSUME PoolInv, NEW p \in Proc, NEW n \in Profile, PickFirst(p, n)
    PROVE  PoolInv'
<1> USE PoolAssumption DEF PoolInv, PickFirst, Await, Goto, Assign
<1>1. ControlOK /\ WorkOK BY Types
<1> DEFINE d == At(n)
<1>2. /\ d \in Dir /\ place[d] = n /\ d # None
      /\ n \in registry.profiles /\ n \notin registry.cooling
      /\ lease[d] = Nobody /\ lease'[d] = p
      /\ \A e \in Dir : e # d => lease'[e] = lease[e]
      /\ registryLock = p /\ registryLock' = Nobody /\ LocksOK'
      /\ \A m \in Profile : probe'[p][m] = "none"
      /\ \A q \in Proc \ {p} : probe'[q] = probe[q]
      /\ ProbesOK' /\ CountsOK' /\ next[p] = None
  BY Picked
<1>3. /\ target' = [target EXCEPT ![p] = n] /\ home' = [home EXCEPT ![p] = d]
      /\ pc' = [pc EXCEPT ![p] = "lock"] /\ task' = [task EXCEPT ![p] = "last"]
      /\ UNCHANGED <<disk, command, running, limited, attempted, opened, next>>
      /\ ~running[p]
  BY DEF Pick, child
<1> HIDE DEF d, PickFirst
<1>4. ControlOK' /\ WorkOK'
  BY <1>1, <1>2, <1>3 DEF ControlOK, WorkOK, Steps, Tasks
<1>5. pc'[p] = "lock" /\ task'[p] = "last" /\ target'[p] = n /\ home'[p] = d
  BY <1>1, <1>3 DEF ControlOK, WorkOK
<1>6. Local(p)'
  <2>1. HomeHeld(p)' BY <1>2, <1>3, <1>5 DEF HomeHeld, disk
  <2>2. Locked(p)' /\ NextHeld(p)' /\ ProbesHeld(p)' /\ Finishing(p)'
    BY <1>2, <1>3, <1>5 DEF Locked, NextHeld, ProbesHeld, Finishing, LockSteps, AtTask,
                Finish, Tasks
  <2>3. Shape(p)' /\ Working(p)'
    BY <1>2, <1>3, <1>5 DEF Local, Shape, Working, AtTask, Finish, Tasks, disk
  <2> QED BY <2>1, <2>2, <2>3 DEF Local
<1>7. \A q \in Proc \ {p} : Bystander(q)
  BY <1>1, <1>2, <1>3 DEF Bystander, ControlOK, WorkOK
<1> QED BY <1>2, <1>3, <1>4, <1>6, <1>7, Quiet

LEMMA PickNextStep ==
    ASSUME PoolInv, NEW p \in Proc, NEW n \in Profile, PickNext(p, n)
    PROVE  PoolInv'
<1> USE PoolAssumption DEF PoolInv, PickNext, Goto, Assign
<1>1. ControlOK /\ WorkOK BY Types
<1> DEFINE d == At(n)
<1>2. /\ d \in Dir /\ place[d] = n
      /\ n \in registry.profiles /\ n \notin registry.cooling
      /\ lease[d] = Nobody /\ lease'[d] = p
      /\ \A e \in Dir : e # d => lease'[e] = lease[e]
      /\ registryLock = p /\ registryLock' = Nobody /\ LocksOK'
      /\ \A m \in Profile : probe'[p][m] = "none"
      /\ \A q \in Proc \ {p} : probe'[q] = probe[q]
      /\ ProbesOK' /\ CountsOK' /\ ~Removing(p)
  BY Picked
<1>3. /\ next' = [next EXCEPT ![p] = <<n, d>>] /\ pc' = [pc EXCEPT ![p] = "switch"]
      /\ UNCHANGED <<disk, command, task, target, home, running, limited, attempted, opened>>
      /\ running[p]
  BY DEF Pick, child
<1> HIDE DEF d, PickNext
<1>4. <<n, d>> \in Profile \X Dir /\ <<n, d>> # None
  BY <1>2
<1>5. ControlOK' /\ WorkOK'
  BY <1>1, <1>3, <1>4 DEF ControlOK, WorkOK, Steps
<1>6. pc'[p] = "switch" /\ next'[p] = <<n, d>> BY <1>1, <1>3 DEF ControlOK, WorkOK
<1>7. home[p] # None /\ home[p] \in Dir /\ lease[home[p]] = p /\ home[p] # d
  BY <1>1, <1>2, <1>3 DEF Local, Shape, HomeHeld, WorkOK
<1>8. Local(p)'
  <2>1. HomeHeld(p)' BY <1>2, <1>3, <1>7 DEF Local, HomeHeld, disk
  <2>2. NextHeld(p)' BY <1>2, <1>3, <1>6, <1>7 DEF NextHeld, disk
  <2>3. Locked(p)' /\ ProbesHeld(p)' /\ Finishing(p)'
    BY <1>2, <1>6 DEF Locked, ProbesHeld, Finishing, LockSteps, AtTask, Finish, Tasks
  <2>4. Shape(p)' /\ Working(p)'
    BY <1>3, <1>4, <1>6, <1>7 DEF Local, Shape, Working, AtTask, Finish, Tasks, disk
  <2> QED BY <2>1, <2>2, <2>3, <2>4 DEF Local
<1>9. \A q \in Proc \ {p} : Bystander(q)
  BY <1>1, <1>2, <1>3 DEF Bystander, ControlOK, WorkOK
<1> QED BY <1>2, <1>3, <1>5, <1>8, <1>9, Quiet

LEMMA StartSelectedStep ==
    ASSUME PoolInv, NEW p \in Proc, StartSelected(p)
    PROVE  PoolInv'
<1> USE PoolAssumption DEF PoolInv, StartSelected, Goto, Assign, Unlock
<1>1. DiskOK /\ LocksOK /\ ControlOK /\ WorkOK /\ ProbesOK /\ CountsOK BY Types
<1>2. /\ registryLock = p /\ task[p] = "last" /\ home[p] # None /\ next[p] = None
      /\ ~Removing(p)
  BY DEF Local, Locked, Shape, Removing, LockSteps, AtTask, Finish, Tasks
<1>3. /\ registry'.profiles = registry.profiles /\ registry'.cooling = registry.cooling
      /\ registry'.last = target[p] /\ registry' \in Registry /\ Valid(registry)'
  BY <1>1 DEF DiskOK, Registry, Valid
<1>4. DiskOK' BY <1>1, <1>3 DEF DiskOK
<1>5. Stored' BY <1>3 DEF Stored, RemovalResolvable, Resolvable, Exists
<1>6. target[p] \in Profile BY <1>1 DEF DiskOK, Registry
<1>7. WorkOK' BY <1>1, <1>6 DEF WorkOK
<1>8. ControlOK' BY <1>1 DEF ControlOK, Steps
<1>9. LocksOK' /\ ProbesOK' /\ CountsOK'
  BY <1>1 DEF LocksOK, ProbesOK, CountsOK, probes, counts
<1>10. pc'[p] = "session" /\ running'[p] /\ registryLock' # p
  BY <1>1 DEF ControlOK, WorkOK
<1>11. Local(p)'
  <2>1. HomeHeld(p)' BY <1>2, <1>10 DEF Local, HomeHeld
  <2>2. Locked(p)' /\ NextHeld(p)' /\ ProbesHeld(p)' /\ Finishing(p)'
    BY <1>2, <1>10 DEF Local, Locked, NextHeld, ProbesHeld, Finishing, LockSteps, AtTask,
                Finish, Tasks, probes
  <2>3. Shape(p)' /\ Working(p)'
    BY <1>2, <1>3, <1>10 DEF Local, Shape, Working, AtTask, Finish, Tasks
  <2> QED BY <2>1, <2>2, <2>3 DEF Local
<1>12. \A q \in Proc \ {p} : Bystander(q)
  BY <1>1, <1>2 DEF Bystander, ControlOK, WorkOK, probes
<1>13. \A q \in Proc \ {p} : Spared(q) BY <1>2, <1>3 DEF Spared
<1> QED BY <1>4, <1>5, <1>7, <1>8, <1>9, <1>11, <1>12, <1>13, TypesNext, Composed

LEMMA ReportLimitStep ==
    ASSUME PoolInv, NEW p \in Proc, ReportLimit(p)
    PROVE  PoolInv'
<1> USE PoolAssumption DEF PoolInv, ReportLimit, Await, Goto, Assign
<1>1. LocksOK /\ ControlOK /\ WorkOK /\ ProbesOK /\ CountsOK BY Types
<1>2. ControlOK' BY <1>1 DEF ControlOK, Steps, Tasks
<1>3. LocksOK' /\ ProbesOK' /\ CountsOK'
  BY <1>1 DEF LocksOK, ProbesOK, CountsOK, locks, probes, counts
<1>4. WorkOK' BY <1>1 DEF WorkOK
<1>5. pc'[p] = "lock" /\ task'[p] = "limit" BY <1>1 DEF ControlOK
<1>6. home[p] # None /\ next[p] = None /\ ~Removing(p)
  BY DEF Local, Shape, Removing, Finish
<1>7. Local(p)'
  <2>1. HomeHeld(p)' BY <1>5, <1>6 DEF Local, HomeHeld, disk, locks
  <2>2. Locked(p)' /\ NextHeld(p)' /\ ProbesHeld(p)' /\ Finishing(p)'
    BY <1>5, <1>6 DEF Local, Locked, NextHeld, ProbesHeld, Finishing, LockSteps, AtTask,
                Finish, Tasks, locks, probes
  <2>3. Shape(p)' /\ Working(p)'
    BY <1>5, <1>6 DEF Local, Shape, Working, AtTask, Finish, Tasks, disk
  <2> QED BY <2>1, <2>2, <2>3 DEF Local
<1>8. \A q \in Proc \ {p} : Bystander(q)
  BY <1>1 DEF Bystander, ControlOK, locks, probes
<1> QED BY <1>2, <1>3, <1>4, <1>7, <1>8, Quiet

LEMMA MarkLimitedStep ==
    ASSUME PoolInv, NEW p \in Proc, MarkLimited(p)
    PROVE  PoolInv'
<1> USE PoolAssumption DEF PoolInv, MarkLimited, Await, Goto, Unlock
<1>1. DiskOK /\ LocksOK /\ ControlOK /\ WorkOK /\ ProbesOK /\ CountsOK BY Types
<1>2. /\ registryLock = p /\ task[p] = "limit" /\ home[p] # None /\ next[p] = None
      /\ ~Removing(p)
  BY DEF Local, Locked, Shape, Removing, LockSteps, AtTask, Finish, Tasks
<1>3. home[p] \in Dir /\ lease[home[p]] = p /\ place[home[p]] = target[p]
  BY <1>1, <1>2 DEF Local, HomeHeld, WorkOK
<1>4. /\ registry'.profiles = registry.profiles
      /\ registry'.cooling = registry.cooling \cup {target[p]}
      /\ registry'.last = registry.last /\ registry' \in Registry /\ Valid(registry)'
  BY <1>1 DEF DiskOK, Registry, Valid
<1>5. DiskOK' BY <1>1, <1>4 DEF DiskOK
<1>6. Stored' BY <1>4 DEF Stored, RemovalResolvable, Resolvable, Exists
<1>7. ControlOK' BY <1>1 DEF ControlOK, Steps, Tasks, Assign
<1>8. LocksOK' /\ WorkOK' /\ ProbesOK' /\ CountsOK'
  BY <1>1 DEF LocksOK, WorkOK, ProbesOK, CountsOK, child, probes, counts
<1>9. /\ registryLock' # p
      /\ \/ pc'[p] = "lock" /\ task'[p] = "snapshot"
         \/ pc'[p] = "session" /\ task'[p] = "limit"
  BY <1>1, <1>2 DEF ControlOK, Assign
<1>10. running[p] BY <1>2 DEF Local, Shape, AtTask, Tasks
<1>11. Local(p)'
  <2>1. HomeHeld(p)' BY <1>2, <1>9 DEF Local, HomeHeld
  <2>2. Locked(p)' /\ NextHeld(p)' /\ ProbesHeld(p)' /\ Finishing(p)'
    BY <1>2, <1>9 DEF Local, Locked, NextHeld, ProbesHeld, Finishing, LockSteps, AtTask,
                Finish, Tasks, probes
  <2>3. Shape(p)' /\ Working(p)'
    BY <1>2, <1>4, <1>9, <1>10 DEF Local, Shape, Working, AtTask, Finish, Tasks, child
  <2> QED BY <2>1, <2>2, <2>3 DEF Local
<1>12. \A q \in Proc \ {p} : Bystander(q)
  BY <1>1, <1>2 DEF Bystander, ControlOK, child, probes, Assign
<1>13. target[p] # Nowhere BY <1>1 DEF DiskOK, Registry
<1>14. \A d \in Dir : place[d] = target[p] => d = home[p]
  BY <1>3, <1>13 DEF Stored
<1>15. \A q \in Proc \ {p} : Spared(q) BY <1>2, <1>3, <1>4, <1>14 DEF Spared
<1> QED BY <1>5, <1>6, <1>7, <1>8, <1>11, <1>12, <1>15, TypesNext, Composed

LEMMA SwitchStep ==
    ASSUME PoolInv, NEW p \in Proc, Switch(p)
    PROVE  PoolInv'
<1> USE PoolAssumption DEF PoolInv, Switch, Await, Goto, Assign
<1>1. LocksOK /\ ControlOK /\ WorkOK /\ ProbesOK /\ CountsOK BY Types
<1> DEFINE n == next[p][1]
<1> DEFINE d == next[p][2]
<1>2. /\ next[p] # None /\ n \in Profile /\ d \in Dir /\ d # None
      /\ lease[d] = p /\ d # home[p] /\ place[d] = n
      /\ n \in registry.profiles /\ n \notin registry.cooling
      /\ home[p] \in Dir /\ lease[home[p]] = p /\ registryLock # p
  BY <1>1 DEF Local, Locked, Shape, NextHeld, HomeHeld, WorkOK, LockSteps, AtTask, Finish, Tasks
<1>3. /\ target' = [target EXCEPT ![p] = n] /\ home' = [home EXCEPT ![p] = d]
  OBVIOUS
<1> HIDE DEF n, d
<1>4. LocksOK' BY <1>1, <1>2 DEF LocksOK
<1>5. ControlOK' BY <1>1 DEF ControlOK, Steps, Tasks
<1>6. WorkOK' BY <1>1, <1>2, <1>3 DEF WorkOK
<1>7. ProbesOK' /\ CountsOK' BY <1>1 DEF ProbesOK, CountsOK, probes, counts
<1>8. /\ pc'[p] = "lock" /\ task'[p] = "last" /\ target'[p] = n /\ home'[p] = d
      /\ next'[p] = None /\ ~running'[p] /\ lease'[d] = p
  BY <1>1, <1>2, <1>3 DEF LocksOK, ControlOK, WorkOK
<1>9. Local(p)'
  <2>1. HomeHeld(p)' BY <1>2, <1>8 DEF HomeHeld, disk
  <2>2. Locked(p)' /\ NextHeld(p)' /\ ProbesHeld(p)' /\ Finishing(p)'
    BY <1>2, <1>8 DEF Local, Locked, NextHeld, ProbesHeld, Finishing, LockSteps, AtTask,
                Finish, Tasks, probes
  <2>3. Shape(p)' /\ Working(p)'
    BY <1>2, <1>8 DEF Local, Shape, Working, AtTask, Finish, Tasks, disk
  <2> QED BY <2>1, <2>2, <2>3 DEF Local
<1>10. \A q \in Proc \ {p} : Bystander(q)
  BY <1>1, <1>2, <1>3 DEF Bystander, LocksOK, ControlOK, WorkOK, probes
<1> QED BY <1>4, <1>5, <1>6, <1>7, <1>9, <1>10, Quiet

LEMMA BinaryChangedStep ==
    ASSUME PoolInv, NEW p \in Proc, BinaryChanged(p)
    PROVE  PoolInv'
<1> USE PoolAssumption DEF PoolInv, BinaryChanged, Goto, Assign
<1>1. LocksOK /\ ControlOK /\ WorkOK /\ ProbesOK /\ CountsOK BY Types
<1> DEFINE d == next[p][2]
<1>2. /\ d \in Dir /\ lease[d] = p /\ d # home[p] /\ home[p] # None
      /\ home[p] \in Dir /\ registryLock # p /\ running[p] /\ ~Removing(p)
  BY <1>1 DEF Local, Locked, Shape, NextHeld, WorkOK, LockSteps, AtTask, Finish, Tasks, Removing
<1>3. lease' = [lease EXCEPT ![d] = Nobody] OBVIOUS
<1> HIDE DEF d
<1>4. LocksOK' BY <1>1, <1>2, <1>3 DEF LocksOK
<1>5. ControlOK' BY <1>1 DEF ControlOK, Steps
<1>6. WorkOK' BY <1>1 DEF WorkOK, child
<1>7. ProbesOK' /\ CountsOK' BY <1>1 DEF ProbesOK, CountsOK, probes, counts
<1>8. pc'[p] = "session" /\ next'[p] = None /\ lease'[home[p]] = lease[home[p]]
  BY <1>1, <1>2, <1>3 DEF LocksOK, ControlOK, WorkOK
<1>9. Local(p)'
  <2>1. HomeHeld(p)' BY <1>2, <1>8 DEF Local, HomeHeld, disk
  <2>2. Locked(p)' /\ NextHeld(p)' /\ ProbesHeld(p)' /\ Finishing(p)'
    BY <1>2, <1>8 DEF Local, Locked, NextHeld, ProbesHeld, Finishing, LockSteps, AtTask,
                Finish, Tasks, probes
  <2>3. Shape(p)' /\ Working(p)'
    BY <1>2, <1>8 DEF Local, Shape, Working, AtTask, Finish, Tasks, disk, child
  <2> QED BY <2>1, <2>2, <2>3 DEF Local
<1>10. \A q \in Proc \ {p} : Bystander(q)
  BY <1>1, <1>2, <1>3 DEF Bystander, LocksOK, ControlOK, WorkOK, child, probes
<1> QED BY <1>4, <1>5, <1>6, <1>7, <1>9, <1>10, Quiet

---------------------------------------------------------------------------
(* rm, and the environment.                                                *)

LEMMA PrepareRemovalStep ==
    ASSUME PoolInv, NEW p \in Proc, PrepareRemoval(p)
    PROVE  PoolInv'
<1> USE PoolAssumption DEF PoolInv, PrepareRemoval, Goto, Assign, Untask
<1>1. DiskOK /\ LocksOK /\ ControlOK /\ WorkOK /\ ProbesOK /\ CountsOK BY Types
<1> DEFINE d == At(target[p])
<1>2. d \in Dir /\ place[d] = target[p] /\ d # None /\ lease[d] = Nobody
  BY AtExists DEF Free
<1>3. /\ home' = [home EXCEPT ![p] = d] /\ lease' = [lease EXCEPT ![d] = p]
  OBVIOUS
<1> HIDE DEF d
<1>4. target[p] \in Profile BY <1>1 DEF DiskOK, Registry
<1>5. /\ registryLock = p /\ manifest = None /\ task[p] = "rm" /\ command[p] = "rm"
      /\ next[p] = None /\ ~running[p]
  BY DEF Local, Locked, Shape, LockSteps, AtTask, Finish, Tasks
<1>6. LocksOK' BY <1>1, <1>2, <1>3 DEF LocksOK
<1>7. ControlOK' BY <1>1 DEF ControlOK, Steps
<1>8. WorkOK' BY <1>1, <1>2, <1>3 DEF WorkOK, child
<1>9. ProbesOK' /\ CountsOK' BY <1>1 DEF ProbesOK, CountsOK, probes, counts
<1>10. pc'[p] = "manifest" /\ home'[p] = d /\ lease'[d] = p
  BY <1>1, <1>2, <1>3 DEF LocksOK, ControlOK, WorkOK
<1>11. Local(p)'
  <2>1. HomeHeld(p)' BY <1>2, <1>4, <1>10 DEF HomeHeld, disk
  <2>2. Locked(p)' /\ NextHeld(p)' /\ ProbesHeld(p)' /\ Finishing(p)'
    BY <1>5, <1>10 DEF Local, Locked, NextHeld, ProbesHeld, Finishing, LockSteps, AtTask,
                Finish, Tasks, probes, disk
  <2>3. Shape(p)' /\ Working(p)'
    BY <1>2, <1>5, <1>10 DEF Local, Shape, Working, AtTask, Finish, Tasks, disk, child
  <2> QED BY <2>1, <2>2, <2>3 DEF Local
<1>12. \A q \in Proc \ {p} : Bystander(q)
  BY <1>1, <1>2, <1>3 DEF Bystander, LocksOK, ControlOK, WorkOK, child, probes
<1> QED BY <1>6, <1>7, <1>8, <1>9, <1>11, <1>12, Quiet

LEMMA WriteManifestStep ==
    ASSUME PoolInv, NEW p \in Proc, WriteManifest(p)
    PROVE  PoolInv'
<1> USE PoolAssumption DEF PoolInv, WriteManifest, Goto, Assign
<1>1. DiskOK /\ LocksOK /\ ControlOK /\ WorkOK /\ ProbesOK /\ CountsOK BY Types
<1>2. PICK a \in Archive : ~Exists(a) /\ manifest' = [name |-> target[p], archive |-> a]
  OBVIOUS
<1>3. /\ registryLock = p /\ manifest = None /\ home[p] # None /\ home[p] \in Dir
      /\ command[p] = "rm" /\ next[p] = None /\ ~running[p]
      /\ target[p] \in registry.profiles
      /\ lease[home[p]] = p /\ place[home[p]] = target[p]
  BY <1>1 DEF Local, Locked, Shape, Working, HomeHeld, Removing, LockSteps, AtTask, Finish,
              Tasks, WorkOK
<1>4. target[p] \in Profile /\ manifest' \in Removal
  BY <1>1, <1>2, <1>3 DEF DiskOK, Registry, Removal
<1>5. manifest' # None /\ manifest'.name = target[p] /\ manifest'.archive = a
  BY <1>2, <1>4
<1>6. DiskOK' BY <1>1, <1>4 DEF DiskOK, Valid
<1>7. Exists(target[p]) BY <1>3 DEF Exists
<1>8. Stored'
  BY <1>2, <1>3, <1>5, <1>7 DEF Stored, RemovalResolvable, Resolvable, Exists
<1>9. ControlOK' BY <1>1 DEF ControlOK, Steps, Finish
<1>10. LocksOK' /\ WorkOK' /\ ProbesOK' /\ CountsOK'
  BY <1>1 DEF LocksOK, WorkOK, ProbesOK, CountsOK, locks, child, probes, counts
<1>11. pc'[p] = "archive" /\ task'[p] = "done" BY <1>1 DEF ControlOK
<1>12. \A d \in Dir : place[d] \in {target[p], a} <=> d = home[p]
  BY <1>2, <1>3, <1>4 DEF Stored, Exists
<1>13. Local(p)'
  <2>1. HomeHeld(p)' BY <1>3, <1>4 DEF HomeHeld, locks
  <2>2. Finishing(p)'
    BY <1>3, <1>5, <1>11, <1>12 DEF Finishing, locks
  <2>3. Locked(p)' /\ NextHeld(p)' /\ ProbesHeld(p)'
    BY <1>3, <1>11 DEF Local, Locked, NextHeld, ProbesHeld, LockSteps, AtTask,
                Finish, Tasks, locks, probes
  <2>4. Shape(p)' /\ Working(p)'
    BY <1>3, <1>11 DEF Local, Shape, Working, AtTask, Finish, Tasks, child
  <2> QED BY <2>1, <2>2, <2>3, <2>4 DEF Local
<1>14. \A q \in Proc \ {p} : Bystander(q) /\ Spared(q)
  BY <1>1, <1>3 DEF Bystander, Spared, ControlOK, locks, child, probes
<1> QED BY <1>6, <1>8, <1>9, <1>10, <1>13, <1>14, TypesNext, Composed

LEMMA CooldownEndsStep ==
    ASSUME PoolInv, CooldownEnds
    PROVE  PoolInv'
<1> USE PoolAssumption DEF PoolInv, CooldownEnds
<1>1. DiskOK /\ LocksOK /\ ControlOK /\ WorkOK /\ ProbesOK /\ CountsOK BY Types
<1>2. /\ registry'.profiles = registry.profiles /\ registry'.cooling \subseteq registry.cooling
      /\ registry'.last = registry.last /\ registry' \in Registry /\ Valid(registry)'
  BY <1>1 DEF DiskOK, Registry, Valid
<1>3. DiskOK' BY <1>1, <1>2 DEF DiskOK
<1>4. LocksOK' /\ ControlOK' /\ WorkOK' /\ ProbesOK' /\ CountsOK'
  BY <1>1 DEF LocksOK, ControlOK, WorkOK, ProbesOK, CountsOK, locks, child, probes, counts
<1>5. Stored' BY <1>2 DEF Stored, RemovalResolvable, Resolvable, Exists
<1>6. \A q \in Proc : Bystander(q) /\ Spared(q)
  BY <1>2 DEF Bystander, Spared, locks, child, probes
<1>7. \A q \in Proc : Local(q)' BY <1>6, Others
<1> QED BY <1>3, <1>4, <1>5, <1>7, TypesNext

---------------------------------------------------------------------------
(* The theorems.                                                           *)

LEMMA InitInv == ASSUME Init PROVE PoolInv
<1> USE PoolAssumption DEF Init
<1>1. DiskOK
  <2>1. Valid(registry) /\ registry \in Registry OBVIOUS
  <2>2. registry.profiles \cup {Nowhere} \subseteq Place BY <2>1 DEF Registry, Place
  <2> QED BY <2>1, <2>2 DEF DiskOK
<1>2. LocksOK /\ ControlOK /\ WorkOK /\ ProbesOK /\ CountsOK
  BY DEF LocksOK, ControlOK, Steps, Commands, WorkOK, ProbesOK, Probes, CountsOK
<1>3. Stored BY DEF Stored, RemovalResolvable, Exists
<1>4. ASSUME NEW p \in Proc PROVE Local(p)
  BY <1>4 DEF Local, Locked, HomeHeld, NextHeld, ProbesHeld, Finishing, Shape, Working,
              LockSteps, AtTask, Finish, Tasks
<1> QED BY <1>1, <1>2, <1>3, <1>4, Types DEF PoolInv

LEMMA EndingStep ==
    ASSUME PoolInv, NEW p \in Proc,
           \/ Refused(p) \/ SessionEnds(p) \/ Listed(p) \/ SwitchNotNeeded(p) \/ Kill(p)
    PROVE  PoolInv'
<1>1. CountsOK BY Types DEF PoolInv
<1>2. End(p) /\ UNCHANGED disk /\ CountsOK'
  BY <1>1 DEF Refused, SessionEnds, Listed, SwitchNotNeeded, Kill, CountsOK, counts
<1> QED BY <1>2, EndStep

LEMMA CommandStep ==
    ASSUME PoolInv, NEW p \in Proc, Command(p)
    PROVE  PoolInv'
<1> USE PoolAssumption DEF Commands
<1>1. CASE \E n \in Profile : Begin(p, "login", n, "login") \/ Begin(p, "run", n, "run")
                              \/ Begin(p, "rm", n, "rm")
  <2>1. PICK n \in Profile : \/ Begin(p, "login", n, "login") \/ Begin(p, "run", n, "run")
                             \/ Begin(p, "rm", n, "rm")
    BY <1>1
  <2>2. n \in Profile \cup {None} /\ n # None OBVIOUS
  <2>3. CASE Begin(p, "login", n, "login") BY <2>2, <2>3, BeginStep
  <2>4. CASE Begin(p, "run", n, "run") BY <2>2, <2>4, BeginStep
  <2>5. CASE Begin(p, "rm", n, "rm") BY <2>2, <2>5, BeginStep
  <2> QED BY <2>1, <2>3, <2>4, <2>5
<1>2. CASE \E c \in {"auto", "list", "refresh"} : Begin(p, c, None, "snapshot")
  BY <1>2, BeginStep
<1> QED BY <1>1, <1>2 DEF Command

LEMMA RegisteredStep ==
    ASSUME PoolInv, NEW p \in Proc, Registered(p)
    PROVE  PoolInv'
BY LockStep, NothingToRecoverStep, RecoverRemovalStep, RecoveryFailsStep,
   ArchiveDirectoryStep, UnregisterStep, ForgetRecoveredStep, ForgetOwnStep,
   FinishFailsStep, PrepareRemovalStep, WriteManifestStep, Zenon DEF Registered

LEMMA SessionStep ==
    ASSUME PoolInv, NEW p \in Proc, Session(p)
    PROVE  PoolInv'
<1>1. CASE LeaseLogin(p)
  BY <1>1, LeaseHomeStep DEF LeaseLogin
<1>2. CASE LeaseRun(p)
  BY <1>2, LeaseHomeStep DEF LeaseRun
<1> QED
  BY <1>1, <1>2, CreateHomeStep, SignedInStep, RegisterStep, StartStep, EndingStep,
     StartSelectedStep, ReportLimitStep, MarkLimitedStep, SwitchStep, BinaryChangedStep,
     Zenon DEF Session

LEMMA MeasureStep ==
    ASSUME PoolInv, NEW p \in Proc, Measure(p)
    PROVE  PoolInv'
<1>1. ASSUME NEW n \in Profile,
             \/ MissingHome(p, n) \/ VanishedHome(p, n) \/ OpenLease(p, n)
             \/ TryLease(p, n) \/ Measured(p, n) \/ PickFirst(p, n) \/ PickNext(p, n)
      PROVE  PoolInv'
  <2>1. CASE VanishedHome(p, n)
    BY <2>1, FailsStep DEF VanishedHome
  <2> QED BY <1>1, <2>1, MissingHomeStep, OpenLeaseStep, TryLeaseStep, MeasuredStep,
             PickFirstStep, PickNextStep, Zenon
<1>2. CASE NothingSelectable(p)
  BY <1>2, FailsStep DEF NothingSelectable
<1> QED BY <1>1, <1>2, SnapshotStep, EndingStep, RefreshedStep, CompareStep, Zenon
        DEF Measure

LEMMA NextInv == ASSUME PoolInv, [Next]_vars PROVE PoolInv'
<1>1. CASE UNCHANGED vars
  <2>1. DiskOK' /\ Stored' BY <1>1, DiskStays DEF vars
  <2>2. LocksOK' /\ ControlOK' /\ WorkOK' /\ ProbesOK' /\ CountsOK'
    BY <1>1, Types DEF PoolInv, LocksOK, ControlOK, WorkOK, ProbesOK, CountsOK, vars, locks,
                       child, probes, counts
  <2>3. ASSUME NEW q \in Proc PROVE Local(q)'
    BY <1>1, <2>3, Others DEF PoolInv, Bystander, Spared, vars, disk, locks, child, probes
  <2> QED BY <2>1, <2>2, <2>3, TypesNext DEF PoolInv
<1>2. ASSUME NEW p \in Proc, Command(p) \/ Step(p) \/ Kill(p)
      PROVE  PoolInv'
  BY <1>2, CommandStep, RegisteredStep, SessionStep, MeasureStep, EndingStep, Zenon DEF Step
<1>3. CASE Finished BY <1>1, <1>3 DEF Finished
<1> QED BY <1>1, <1>2, <1>3, CooldownEndsStep, Zenon DEF Next

(***************************************************************************)
(* The inductive invariant, of all pools and any number of commands and    *)
(* kills.                                                                  *)
(***************************************************************************)
THEOREM PoolInvariant == Spec => []PoolInv
BY InitInv, NextInv, PTL DEF Spec

(***************************************************************************)
(* Every variable keeps its type, and the registry is one that             *)
(* validate_state accepts.                                                 *)
(***************************************************************************)
THEOREM PoolTypeCorrect == Spec => []PoolTypeOK
<1>1. PoolInv => PoolTypeOK BY DEF PoolInv
<1> QED BY <1>1, PoolInvariant, PTL

(***************************************************************************)
(* A session of login, run or auto has its HOME to itself, and it stays    *)
(* where its name says.                                                    *)
(***************************************************************************)
THEOREM SessionsOwnTheirHome == Spec => []SessionOwnsHome
<1>1. ASSUME PoolInv, NEW p \in Proc, running[p]
      PROVE  Exists(target[p]) /\ At(target[p]) = home[p] /\ lease[home[p]] = p
  <2>1. /\ home[p] # None /\ ~Removing(p)
    BY <1>1 DEF PoolInv, Local, Shape, Removing, AtTask, Finish, Tasks
  <2>2. /\ home[p] \in Dir /\ target[p] \in Profile
        /\ place[home[p]] = target[p] /\ lease[home[p]] = p
    BY <1>1, <2>1, Types DEF PoolInv, Local, HomeHeld, WorkOK
  <2>3. target[p] # Nowhere BY <2>2, PoolAssumption
  <2> QED BY <1>1, <2>2, <2>3, AtIs DEF PoolInv
<1>2. PoolInv => SessionOwnsHome BY <1>1 DEF SessionOwnsHome
<1> QED BY <1>2, PoolInvariant, PTL

(***************************************************************************)
(* Wherever a removal was stopped, remove::finish never asks for a manual  *)
(* inspection.                                                             *)
(***************************************************************************)
THEOREM RemovalsResolvable == Spec => []RemovalResolvable
<1>1. PoolInv => RemovalResolvable BY DEF PoolInv, Stored
<1> QED BY <1>1, PoolInvariant, PTL

(***************************************************************************)
(* Nobody acts on a registry with half a removal in it.                    *)
(***************************************************************************)
THEOREM RemovalsNeverHalfSeen == Spec => []NoHalfRemoval
<1>1. PoolInv => NoHalfRemoval BY DEF PoolInv, Stored, Local, Locked, NoHalfRemoval
<1> QED BY <1>1, PoolInvariant, PTL

(***************************************************************************)
(* The profile of auto, and the one it is about to switch to, cannot be    *)
(* removed under it.                                                       *)
(***************************************************************************)
THEOREM SelectedProfilesRegistered == Spec => []SelectedStaysRegistered
<1>1. PoolInv => SelectedStaysRegistered
  BY DEF PoolInv, Local, Working, NextHeld, SelectedStaysRegistered
<1> QED BY <1>1, PoolInvariant, PTL

(***************************************************************************)
(* auto never starts a child with a profile that is cooling down.          *)
(***************************************************************************)
THEOREM CoolingNeverStarted == Spec => CoolingNotStarted
<1>1. PoolInv /\ [Next]_vars =>
        [\A p \in Proc : pc[p] = "last" /\ running'[p] => target[p] \notin registry.cooling]_vars
  <2>1. ASSUME PoolInv, NEW p \in Proc, pc[p] = "last"
        PROVE  target[p] \notin registry.cooling
    BY <2>1 DEF PoolInv, Local, Shape, Working, AtTask, Tasks
  <2> QED BY <2>1
<1> QED BY <1>1, PoolInvariant, PTL DEF Spec, CoolingNotStarted

=============================================================================
