---------------------------- MODULE ProfilePool ----------------------------
(***************************************************************************)
(* profile/{mod,store,remove}.rs: the pool of agy profiles.  Every profile *)
(* has a directory of its own, which is the HOME of the agy it runs.  The  *)
(* registry (state.json) is read and written under the registry lock; a    *)
(* directory is used under its lease, a lock file inside the directory,    *)
(* which is only ever tried.  Commands: login, run, auto, rm, and list and *)
(* refresh, which measure profiles (list without starting agy).            *)
(*                                                                         *)
(* Taking the registry lock first finishes a removal somebody began        *)
(* (lock_registry calls remove::recover).  measure takes leases without    *)
(* the registry lock, from a snapshot of the registry.                     *)
(*                                                                         *)
(* Abstractions: the measured quotas are "ready" (may be selected) or      *)
(* "exhausted", so any ready profile may come first; whether a directory   *)
(* holds a resumable login is `token'.  Quota snapshots on disk are in     *)
(* QuotaSnapshot.  Only pull gives a profile a directory with another name *)
(* than its own; it is not part of this module.  Crashes are kills: what   *)
(* a system call did stays done.                                           *)
(***************************************************************************)
EXTENDS Naturals, FiniteSets

CONSTANTS
    Proc,
    Profile,        \* labels
    Dir,            \* directories that exist or will: their identity
    Archive,        \* names in archive/ (Uuid::new_v4): never used twice
    Nobody,         \* a free lock
    None,           \* no profile, no directory, no manifest
    Nowhere,        \* place of a directory not created yet
    MaxCommands,    \* bound: commands run in all
    MaxCrashes      \* bound: kills

Registry == [profiles : SUBSET Profile, last : Profile \cup {None},
             cooling : SUBSET Profile]
Removal  == [name : Profile, archive : Archive]
Place    == Profile \cup Archive \cup {Nowhere}

ASSUME PoolAssumption ==
    /\ Nobody \notin Proc
    /\ None \notin Profile \cup Dir \cup Removal \cup (Profile \X Dir)
    /\ Profile \cap Archive = {} /\ Nowhere \notin Profile \cup Archive
    /\ {MaxCommands, MaxCrashes} \subseteq Nat

VARIABLES
    registry, manifest,
    place,      \* where each directory is: profiles/<name>, archive/<uuid>
    token,      \* directories with a resumable login
    registryLock, lease,
    pc,
    command,
    task,       \* what the registry lock is taken for
    target,     \* the profile the command works on
    home,       \* the directory it leased for it
    next,       \* the successor auto reserved, and its directory
    running,    \* a child agy runs with HOME = profiles/<target>/home
    limited,    \* that child has reported a 429
    attempted,  \* profiles this auto has started
    probe,      \* how far each measurement is
    opened,     \* the directory whose lock file it opened
    commands, crashes

disk   == <<registry, manifest, place, token>>
locks  == <<registryLock, lease>>
probes == <<probe, opened>>
counts == <<commands, crashes>>
child  == <<running, limited>>
vars   == <<disk, locks, pc, command, task, target, home, next, child,
            attempted, probes, counts>>

Commands == {"none", "login", "run", "auto", "rm", "list", "refresh"}
Tasks    == {"login", "register", "run", "snapshot", "select", "last", "limit", "rm"}
Finish   == {"archive", "unregister", "forget"}
Steps    == Tasks \cup Finish \cup
            {"idle", "lock", "recover", "manifest", "start", "session", "measure", "switch"}
Results  == {"ready", "exhausted", "busy", "needs-login"}
Probes   == Results \cup {"none", "queued", "opened", "probing"}

\* validate_state.
Valid(r) == r.last \in r.profiles \cup {None} /\ r.cooling \subseteq r.profiles

PoolTypeOK ==
    /\ registry \in Registry /\ Valid(registry) /\ manifest \in Removal \cup {None}
    /\ place \in [Dir -> Place] /\ token \subseteq Dir
    /\ registryLock \in Proc \cup {Nobody} /\ lease \in [Dir -> Proc \cup {Nobody}]
    /\ pc \in [Proc -> Steps]
    /\ command \in [Proc -> Commands] /\ task \in [Proc -> Tasks \cup {"done"}]
    /\ target \in [Proc -> Profile \cup {None}] /\ home \in [Proc -> Dir \cup {None}]
    /\ next \in [Proc -> (Profile \X Dir) \cup {None}]
    /\ running \in [Proc -> BOOLEAN] /\ limited \in [Proc -> BOOLEAN]
    /\ attempted \in [Proc -> SUBSET Profile]
    /\ probe \in [Proc -> [Profile -> Probes]]
    /\ opened \in [Proc -> [Profile -> Dir \cup {None}]]
    /\ commands \in Nat /\ crashes \in Nat

\* Some profiles, each with its directory; some of them logged in.
Init ==
    /\ registry \in {r \in Registry : Valid(r)}
    /\ manifest = None
    /\ place \in [Dir -> registry.profiles \cup {Nowhere}]
    /\ \A n \in registry.profiles : \E d \in Dir : place[d] = n
    /\ \A d, e \in Dir : place[d] = place[e] /\ place[d] # Nowhere => d = e
    /\ token \in SUBSET {d \in Dir : place[d] # Nowhere}
    /\ registryLock = Nobody /\ lease = [d \in Dir |-> Nobody]
    /\ pc = [p \in Proc |-> "idle"] /\ command = [p \in Proc |-> "none"]
    /\ task = [p \in Proc |-> "done"]
    /\ target = [p \in Proc |-> None] /\ home = [p \in Proc |-> None]
    /\ next = [p \in Proc |-> None]
    /\ running = [p \in Proc |-> FALSE] /\ limited = [p \in Proc |-> FALSE]
    /\ attempted = [p \in Proc |-> {}]
    /\ probe = [p \in Proc |-> [n \in Profile |-> "none"]]
    /\ opened = [p \in Proc |-> [n \in Profile |-> None]]
    /\ commands = 0 /\ crashes = 0

---------------------------------------------------------------------------
(* Building blocks.                                                        *)

Exists(n)  == \E d \in Dir : place[d] = n
At(n)      == CHOOSE d \in Dir : place[d] = n
Free(d)    == lease[d] = Nobody
Goto(p, step) == pc' = [pc EXCEPT ![p] = step]
Assign(f, p, v) == [f EXCEPT ![p] = v]

\* Wait for the registry lock to do t.
Await(p, t) == Goto(p, "lock") /\ task' = Assign(task, p, t)

Unlock == registryLock' = Nobody

\* The command is over: its locks go with its file handles, its child with it.
End(p) ==
    /\ Goto(p, "idle")
    /\ registryLock' = IF registryLock = p THEN Nobody ELSE registryLock
    /\ lease' = [d \in Dir |-> IF lease[d] = p THEN Nobody ELSE lease[d]]
    /\ command' = Assign(command, p, "none") /\ task' = Assign(task, p, "done")
    /\ target' = Assign(target, p, None) /\ home' = Assign(home, p, None)
    /\ next' = Assign(next, p, None)
    /\ running' = Assign(running, p, FALSE) /\ limited' = Assign(limited, p, FALSE)
    /\ attempted' = Assign(attempted, p, {})
    /\ probe' = [probe EXCEPT ![p] = [n \in Profile |-> "none"]]
    /\ opened' = [opened EXCEPT ![p] = [n \in Profile |-> None]]

\* Whatever goes wrong in the callback of a 429 leaves the child in control.
KeepSession(p) ==
    /\ Goto(p, "session")
    /\ registryLock' = IF registryLock = p THEN Nobody ELSE registryLock
    /\ probe' = [probe EXCEPT ![p] = [n \in Profile |-> "none"]]
    /\ UNCHANGED <<lease, command, task, target, home, next, child, attempted, opened>>

Fails(p) == IF running[p] THEN KeepSession(p) ELSE End(p)

---------------------------------------------------------------------------
(* The command line: parameters are labels.                                *)

Begin(p, c, n, t) ==
    /\ pc[p] = "idle" /\ commands < MaxCommands
    /\ commands' = commands + 1
    /\ command' = Assign(command, p, c) /\ target' = Assign(target, p, n)
    /\ Await(p, t)
    /\ UNCHANGED <<disk, locks, home, next, child, attempted, probes, crashes>>

Command(p) ==
    \/ \E n \in Profile : Begin(p, "login", n, "login") \/ Begin(p, "run", n, "run")
                          \/ Begin(p, "rm", n, "rm")
    \/ \E c \in {"auto", "list", "refresh"} : Begin(p, c, None, "snapshot")

---------------------------------------------------------------------------
(* lock_registry, and remove::finish: of an interrupted removal, or one's  *)
(* own.                                                                    *)

Lock(p) ==
    /\ pc[p] = "lock" /\ registryLock = Nobody
    /\ registryLock' = p
    /\ Goto(p, "recover")
    /\ UNCHANGED <<disk, lease, command, task, target, home, next, child,
                   attempted, probes, counts>>

\* What finish checks before it touches anything.
Resolvable(m) ==
    /\ Exists(m.name) => m.name \in registry.profiles
    /\ Exists(m.name) # Exists(m.archive)

Removed(m) == IF Exists(m.name) THEN At(m.name) ELSE At(m.archive)

NothingToRecover(p) ==
    /\ pc[p] = "recover" /\ manifest = None
    /\ Goto(p, task[p])
    /\ UNCHANGED <<disk, locks, command, task, target, home, next, child,
                   attempted, probes, counts>>

RecoverRemoval(p) ==
    /\ pc[p] = "recover" /\ manifest # None
    /\ Resolvable(manifest) /\ Free(Removed(manifest))
    /\ lease' = [lease EXCEPT ![Removed(manifest)] = p]
    /\ Goto(p, "archive")
    /\ UNCHANGED <<disk, registryLock, command, task, target, home, next, child,
                   attempted, probes, counts>>

\* Ambiguous, or busy: the command that wanted the lock fails.
RecoveryFails(p) ==
    /\ pc[p] = "recover" /\ manifest # None
    /\ Resolvable(manifest) => ~Free(Removed(manifest))
    /\ Fails(p)
    /\ UNCHANGED <<disk, counts>>

FinishFrame == UNCHANGED <<locks, command, task, target, home, next, child,
                           attempted, probes, counts>>

Without(r, n) == [profiles |-> r.profiles \ {n},
                  last |-> IF r.last = n THEN None ELSE r.last,
                  cooling |-> r.cooling \ {n}]

\* Seeded bug: the registry is written before the directory is moved.
UnregisterEarly(p) ==
    /\ pc[p] = "archive"
    /\ registry' = Without(registry, manifest.name)
    /\ Goto(p, "unregister")
    /\ UNCHANGED <<manifest, place, token>> /\ FinishFrame

ArchiveDirectory(p) ==
    /\ pc[p] = "archive"
    /\ place' = IF Exists(manifest.name)
                THEN [place EXCEPT ![At(manifest.name)] = manifest.archive] ELSE place
    /\ Goto(p, "unregister")
    /\ UNCHANGED <<registry, manifest, token>> /\ FinishFrame

Unregister(p) ==
    /\ pc[p] = "unregister"
    /\ registry' = Without(registry, manifest.name)
    /\ Goto(p, "forget")
    /\ UNCHANGED <<manifest, place, token>> /\ FinishFrame

\* Delete the manifest; drop the lease recovery took and go on to the task.
ForgetRecovered(p) ==
    /\ pc[p] = "forget" /\ task[p] # "done"
    /\ manifest' = None
    /\ lease' = [lease EXCEPT ![At(manifest.archive)] = Nobody]
    /\ Goto(p, task[p])
    /\ UNCHANGED <<registry, place, token, registryLock, command, task, target,
                   home, next, child, attempted, probes, counts>>

ForgetOwn(p) ==
    /\ pc[p] = "forget" /\ task[p] = "done"
    /\ manifest' = None
    /\ End(p) /\ UNCHANGED <<registry, place, token, counts>>

\* A rename, a write or a removal fails: the manifest stays.
FinishFails(p) ==
    /\ pc[p] \in Finish \cup {"manifest"}
    /\ IF running[p]
       THEN /\ lease' = [lease EXCEPT ![Removed(manifest)] = Nobody]
            /\ Unlock /\ Goto(p, "session")
            /\ probe' = [probe EXCEPT ![p] = [n \in Profile |-> "none"]]
            /\ UNCHANGED <<command, task, target, home, next, child, attempted, opened>>
       ELSE End(p)
    /\ UNCHANGED <<disk, counts>>

---------------------------------------------------------------------------
(* login: create the directory and lease it, let agy sign in, register.    *)

Untask == UNCHANGED <<command, task, target, next, attempted, probes, counts>>

CreateHome(p) ==
    /\ pc[p] = "login" /\ ~Exists(target[p])
    /\ \E d \in Dir : place[d] = Nowhere /\ place' = [place EXCEPT ![d] = target[p]]
    /\ UNCHANGED <<registry, manifest, token, locks, pc, home, child>> /\ Untask

\* Lease the directory profiles/<target> and let go of the registry.
LeaseHome(p, step, alive) ==
    /\ Exists(target[p]) /\ Free(At(target[p]))
    /\ home' = Assign(home, p, At(target[p]))
    /\ lease' = [lease EXCEPT ![At(target[p])] = p]
    /\ Unlock /\ Goto(p, step)
    /\ running' = Assign(running, p, alive)
    /\ UNCHANGED <<disk, limited>> /\ Untask

LeaseLogin(p) == pc[p] = "login" /\ LeaseHome(p, "session", TRUE)

\* agy ended well and left a login; the lease is kept.
SignedIn(p) ==
    /\ pc[p] = "session" /\ command[p] = "login"
    /\ token' = token \cup {home[p]}
    /\ running' = Assign(running, p, FALSE)
    /\ Await(p, "register")
    /\ UNCHANGED <<registry, manifest, place, locks, command, target, home, next,
                   limited, attempted, probes, counts>>

Register(p) ==
    /\ pc[p] = "register"
    /\ registry' = [registry EXCEPT !.profiles = @ \cup {target[p]}]
    /\ End(p) /\ UNCHANGED <<manifest, place, token, counts>>

---------------------------------------------------------------------------
(* run.                                                                    *)

LeaseRun(p) ==
    /\ pc[p] = "run" /\ target[p] \in registry.profiles
    /\ LeaseHome(p, "start", FALSE)

\* token_ready, then the child.
Start(p) ==
    /\ pc[p] = "start" /\ home[p] \in token
    /\ running' = Assign(running, p, TRUE) /\ Goto(p, "session")
    /\ UNCHANGED <<disk, locks, home, limited>> /\ Untask

\* Not registered, no directory (for a login: none can be made), busy, no login.
Refused(p) ==
    /\ \/ /\ pc[p] \in {"login", "run", "rm"}
          /\ \/ pc[p] # "login"
                /\ (target[p] \notin registry.profiles \/ ~Exists(target[p]))
             \/ Exists(target[p]) /\ ~Free(At(target[p]))
       \/ pc[p] = "start" /\ home[p] \notin token
       \/ pc[p] = "login" /\ ~Exists(target[p]) /\ \A d \in Dir : place[d] # Nowhere
    /\ End(p) /\ UNCHANGED <<disk, counts>>

\* The child ended; under the lease its quota is probed once more.
SessionEnds(p) ==
    /\ pc[p] = "session"
    /\ End(p) /\ UNCHANGED <<disk, counts>>

---------------------------------------------------------------------------
(* snapshot and measure: of list and refresh, and of auto.                 *)

Candidates(p) ==
    IF command[p] = "auto" THEN (registry.profiles \ attempted[p]) \ registry.cooling
    ELSE registry.profiles

Snapshot(p) ==
    /\ pc[p] = "snapshot"
    /\ probe' = [probe EXCEPT ![p] =
                   [n \in Profile |-> IF n \in Candidates(p) THEN "queued" ELSE "none"]]
    /\ Unlock /\ Goto(p, "measure")
    /\ UNCHANGED <<disk, lease, command, task, target, home, next, child,
                   attempted, opened, counts>>

Measuring(p, n, before, after) ==
    /\ pc[p] = "measure" /\ probe[p][n] = before
    /\ probe' = [probe EXCEPT ![p][n] = after]
    /\ UNCHANGED <<disk, registryLock, pc, command, task, target, home, next, child,
                   attempted, counts>>

MissingHome(p, n) ==
    /\ ~Exists(n)
    /\ Measuring(p, n, "queued", "needs-login") /\ UNCHANGED <<lease, opened>>

\* The directory was there when profile_home looked, and gone when its lock
\* file was to be opened: the whole measurement fails, once all workers end.
VanishedHome(p, n) ==
    /\ pc[p] = "measure" /\ probe[p][n] = "queued" /\ ~Exists(n)
    /\ \A m \in Profile : probe[p][m] \notin {"opened", "probing"}
    /\ Fails(p) /\ UNCHANGED <<disk, counts>>

\* try_lease opens the lock file of the directory that has the name now, ...
OpenLease(p, n) ==
    /\ Exists(n)
    /\ opened' = [opened EXCEPT ![p][n] = At(n)]
    /\ Measuring(p, n, "queued", "opened") /\ UNCHANGED lease

\* ... and then tries to lock that file.
TryLease(p, n) ==
    /\ opened[p][n] # None
    /\ \/ /\ Free(opened[p][n]) /\ Measuring(p, n, "opened", "probing")
          /\ lease' = [lease EXCEPT ![opened[p][n]] = p]
       \/ /\ ~Free(opened[p][n]) /\ Measuring(p, n, "opened", "busy")
          /\ UNCHANGED lease
    /\ UNCHANGED opened

\* The login and the quota are read where the name leads to now.
Measured(p, n) ==
    /\ \E r \in {"ready", "exhausted", "needs-login"} :
         /\ r = "needs-login" <=> ~(Exists(n) /\ At(n) \in token)
         /\ Measuring(p, n, "probing", r)
    /\ lease' = [lease EXCEPT ![opened[p][n]] = Nobody]
    /\ opened' = [opened EXCEPT ![p][n] = None]

AllMeasured(p) ==
    pc[p] = "measure" /\ \A n \in Profile : probe[p][n] \in Results \cup {"none"}

Listed(p) ==
    /\ AllMeasured(p) /\ command[p] = "list"
    /\ End(p) /\ UNCHANGED <<disk, counts>>

\* refresh ends with the list.
Refreshed(p) ==
    /\ AllMeasured(p) /\ command[p] = "refresh"
    /\ command' = Assign(command, p, "list")
    /\ Await(p, "snapshot")
    /\ UNCHANGED <<disk, locks, target, home, next, child, attempted, probes, counts>>

Compare(p) ==
    /\ AllMeasured(p) /\ command[p] = "auto"
    /\ Await(p, "select")
    /\ UNCHANGED <<disk, locks, command, target, home, next, child, attempted,
                   probes, counts>>

---------------------------------------------------------------------------
(* auto.                                                                   *)

\* Seeded bug: the cooldowns are those of the snapshot.
SelectableThen(p, n) ==
    /\ n \in registry.profiles /\ probe[p][n] = "ready"
    /\ Exists(n) /\ Free(At(n)) /\ At(n) \in token

\* With the registry read again.
Selectable(p, n) ==
    /\ n \in registry.profiles \ registry.cooling
    /\ probe[p][n] = "ready"
    /\ Exists(n) /\ Free(At(n)) /\ At(n) \in token

Pick(p, n) ==
    /\ pc[p] = "select" /\ Selectable(p, n)
    /\ lease' = [lease EXCEPT ![At(n)] = p]
    /\ Unlock
    /\ probe' = [probe EXCEPT ![p] = [m \in Profile |-> "none"]]
    /\ UNCHANGED <<disk, command, child, attempted, opened, counts>>

PickFirst(p, n) ==
    /\ ~running[p] /\ Pick(p, n)
    /\ target' = Assign(target, p, n) /\ home' = Assign(home, p, At(n))
    /\ Await(p, "last") /\ UNCHANGED next

PickNext(p, n) ==
    /\ running[p] /\ Pick(p, n)
    /\ next' = Assign(next, p, <<n, At(n)>>)
    /\ Goto(p, "switch") /\ UNCHANGED <<task, target, home>>

NothingSelectable(p) ==
    /\ pc[p] = "select" /\ \A n \in Profile : ~Selectable(p, n)
    /\ Fails(p)
    /\ UNCHANGED <<disk, counts>>

\* last_selected, then the child.  write_state would refuse a name that is not
\* registered, which does not happen (SelectedStaysRegistered).
StartSelected(p) ==
    /\ pc[p] = "last" /\ target[p] \in registry.profiles
    /\ registry' = [registry EXCEPT !.last = target[p]]
    /\ attempted' = [attempted EXCEPT ![p] = @ \cup {target[p]}]
    /\ running' = Assign(running, p, TRUE) /\ limited' = Assign(limited, p, FALSE)
    /\ Unlock /\ Goto(p, "session")
    /\ UNCHANGED <<manifest, place, token, lease, command, task, target, home, next,
                   probes, counts>>

\* The first 429 in the log of the child.
ReportLimit(p) ==
    /\ pc[p] = "session" /\ command[p] = "auto" /\ ~limited[p]
    /\ limited' = Assign(limited, p, TRUE)
    /\ Await(p, "limit")
    /\ UNCHANGED <<disk, locks, command, target, home, next, running, attempted,
                   probes, counts>>

\* Then another profile, if the session may be restarted at all.
MarkLimited(p) ==
    /\ pc[p] = "limit" /\ target[p] \in registry.profiles
    /\ registry' = [registry EXCEPT !.cooling = @ \cup {target[p]}]
    /\ Unlock
    /\ \/ Await(p, "snapshot")
       \/ Goto(p, "session") /\ UNCHANGED task
    /\ UNCHANGED <<manifest, place, token, lease, command, target, home, next, child,
                   attempted, probes, counts>>

\* The child is stopped, its directory let go.
Switch(p) ==
    /\ pc[p] = "switch"
    /\ running' = Assign(running, p, FALSE)
    /\ lease' = [lease EXCEPT ![home[p]] = Nobody]
    /\ target' = Assign(target, p, next[p][1]) /\ home' = Assign(home, p, next[p][2])
    /\ next' = Assign(next, p, None)
    /\ Await(p, "last")
    /\ UNCHANGED <<disk, registryLock, command, limited, attempted, probes, counts>>

\* The child ended well in the meantime: nothing to switch.
SwitchNotNeeded(p) ==
    /\ pc[p] = "switch"
    /\ End(p) /\ UNCHANGED <<disk, counts>>

\* agy is not the verified build any more: the successor is let go again.
BinaryChanged(p) ==
    /\ pc[p] = "switch"
    /\ lease' = [lease EXCEPT ![next[p][2]] = Nobody]
    /\ next' = Assign(next, p, None)
    /\ Goto(p, "session")
    /\ UNCHANGED <<disk, registryLock, command, task, target, home, child, attempted,
                   probes, counts>>

---------------------------------------------------------------------------
(* rm.                                                                     *)

\* Seeded bug: a profile in use may be removed.
PrepareAnyRemoval(p) ==
    /\ pc[p] = "rm"
    /\ target[p] \in registry.profiles /\ Exists(target[p])
    /\ home' = Assign(home, p, At(target[p]))
    /\ Goto(p, "manifest")
    /\ UNCHANGED <<disk, locks, child>> /\ Untask

PrepareRemoval(p) ==
    /\ pc[p] = "rm"
    /\ target[p] \in registry.profiles /\ Exists(target[p]) /\ Free(At(target[p]))
    /\ home' = Assign(home, p, At(target[p]))
    /\ lease' = [lease EXCEPT ![At(target[p])] = p]
    /\ Goto(p, "manifest")
    /\ UNCHANGED <<disk, registryLock, child>> /\ Untask

\* persist_noclobber and fsync: from here on the removal is going to happen.
WriteManifest(p) ==
    /\ pc[p] = "manifest"
    /\ \E a \in {b \in Archive : ~Exists(b)} :
         manifest' = [name |-> target[p], archive |-> a]
    /\ task' = Assign(task, p, "done") /\ Goto(p, "archive")
    /\ UNCHANGED <<registry, place, token, locks, command, target, home, next, child,
                   attempted, probes, counts>>

---------------------------------------------------------------------------

\* Five minutes are over.
CooldownEnds ==
    /\ \E n \in registry.cooling : registry' = [registry EXCEPT !.cooling = @ \ {n}]
    /\ UNCHANGED <<manifest, place, token, locks, pc, command, task, target, home,
                   next, child, attempted, probes, counts>>

Kill(p) ==
    /\ pc[p] # "idle" /\ crashes < MaxCrashes
    /\ crashes' = crashes + 1
    /\ End(p) /\ UNCHANGED <<disk, commands>>

Registered(p) ==
    \/ Lock(p) \/ NothingToRecover(p) \/ RecoverRemoval(p) \/ RecoveryFails(p)
    \/ ArchiveDirectory(p) \/ Unregister(p) \/ ForgetRecovered(p) \/ ForgetOwn(p)
    \/ FinishFails(p) \/ PrepareRemoval(p) \/ WriteManifest(p)

Session(p) ==
    \/ CreateHome(p) \/ LeaseLogin(p) \/ SignedIn(p) \/ Register(p)
    \/ LeaseRun(p) \/ Start(p) \/ Refused(p) \/ SessionEnds(p)
    \/ StartSelected(p) \/ ReportLimit(p) \/ MarkLimited(p)
    \/ Switch(p) \/ SwitchNotNeeded(p) \/ BinaryChanged(p)

Measure(p) ==
    \/ Snapshot(p) \/ Listed(p) \/ Refreshed(p) \/ Compare(p) \/ NothingSelectable(p)
    \/ \E n \in Profile :
         \/ MissingHome(p, n) \/ VanishedHome(p, n) \/ OpenLease(p, n)
         \/ TryLease(p, n) \/ Measured(p, n) \/ PickFirst(p, n) \/ PickNext(p, n)

Step(p) == Registered(p) \/ Session(p) \/ Measure(p)

Finished ==
    /\ \A p \in Proc : pc[p] = "idle"
    /\ commands = MaxCommands
    /\ UNCHANGED vars

Next == (\E p \in Proc : Command(p) \/ Step(p) \/ Kill(p)) \/ CooldownEnds \/ Finished

Spec == Init /\ [][Next]_vars

---------------------------------------------------------------------------

(***************************************************************************)
(* README: "Each process gets its own HOME".  As long as a command has a   *)
(* child, the directory its HOME leads to is the one it leased: nobody     *)
(* else runs in it, and nobody moves it away or puts another in its place. *)
(***************************************************************************)
SessionOwnsHome ==
    \A p \in Proc : running[p] =>
        /\ Exists(target[p]) /\ At(target[p]) = home[p]
        /\ lease[home[p]] = p

(***************************************************************************)
(* A removal can be finished from wherever it was stopped: none of the     *)
(* checks that ask for manual inspection ever fires, as long as only sagy  *)
(* touches the pool (remove::finish).                                      *)
(***************************************************************************)
RemovalResolvable == manifest # None => Resolvable(manifest)

(***************************************************************************)
(* Whoever reads the registry under its lock sees no removal half done:    *)
(* every registered profile has its directory.                             *)
(***************************************************************************)
NoHalfRemoval ==
    \A p \in Proc : registryLock = p /\ pc[p] \in Tasks =>
        manifest = None /\ \A n \in registry.profiles : Exists(n)

(***************************************************************************)
(* The profile auto works with is registered for as long as it works with  *)
(* it.  write_state refuses a last_selected and a cooldown of any other,   *)
(* and auto would end, or lose the 429, if another command had removed it. *)
(***************************************************************************)
SelectedStaysRegistered ==
    \A p \in Proc : command[p] = "auto" =>
        /\ home[p] # None => target[p] \in registry.profiles
        /\ next[p] # None => next[p][1] \in registry.profiles

(***************************************************************************)
(* README: "cooling profiles ... are skipped".  auto starts no child with  *)
(* a profile that is cooling down at that moment, also when another        *)
(* command recorded the cooldown while this one was measuring.             *)
(***************************************************************************)
CoolingNotStarted ==
    [][\A p \in Proc : pc[p] = "last" /\ running'[p] =>
         target[p] \notin registry.cooling]_vars

=============================================================================
