---------------------------- MODULE ProfileQuota ----------------------------
(***************************************************************************)
(* profile/{mod,cache,statusline,quota,runtime,repo_sync}.rs: one label of *)
(* the pool over time.  login, run, refresh, rm, push and pull by several  *)
(* processes, as far as they decide which directory the label stands for,  *)
(* which identity that directory holds, and which quota is shown for it.   *)
(*                                                                         *)
(* A session has a bridge: agy calls a helper on every change of its state *)
(* line, the helper replaces event.json, the waiting parent polls that     *)
(* file, and a completed turn makes a worker thread measure the quota with *)
(* a copy of the credential.  pull imports the remote login into a fresh   *)
(* directory, with a manifest to clean up after an interrupted import.     *)
(*                                                                         *)
(* The clock is read by now() and never repeats or goes back.  Kills do    *)
(* not hit a process while its agy signs in: that agy would go on alone.   *)
(* The registry lock is held over several steps only by rm and pull (the   *)
(* others' critical sections are one action); ProfilePool has the steps of *)
(* a removal and the switching of auto.                                    *)
(***************************************************************************)
EXTENDS QuotaSnapshot, FiniteSetsExt

CONSTANTS
    Proc,
    Own,            \* profiles/<label>, the directory login creates
    Imports,        \* directories sync_<uuid>, each for one import
    Nobody, None,
    MaxCommands,    \* bound: commands run in all
    MaxTurns        \* bound: turns of agy in a session

Dir == {Own} \cup Imports

Entries  == [dir : Dir, sample : Nat, started : Nat, reset : Nat, attempted : Nat]
Removals == [dir : Dir, at : Nat]
Jobs     == [dir : Dir \cup {None}, at : Nat, got : Nat, result : Outcomes]
Flights  == [stage : {"none", "started", "probing", "done"}, at : Nat, got : Nat]

ASSUME QuotaAssumption ==
    /\ Own \notin Imports /\ None \notin Dir \cup Removals /\ Nobody \notin Proc
    /\ NoEntry \notin Entries
    /\ IsFiniteSet(Proc) /\ IsFiniteSet(Imports)
    /\ {MaxCommands, MaxTurns} \subseteq Nat

VARIABLES
    registry,       \* the directory of the label, None: not registered
    removal,        \* the manifest of a removal: directory and reset_at
    import,         \* the manifest of an import: its directory
    place, login,   \* of a directory: where it is, the identity it holds
    used,           \* imported directories whose uuid is spent
    entry,          \* quota.json
    remote,         \* the login of the label in the remote pool, 0: none
    lease, registryLock, syncLock,
    pc, job,        \* of a process: where it is, what it measured or fetched
    agy,            \* the child of the session: running, ended, killed, none
    interrupted,    \* SIGINT reached the session, and agy goes on
    event,          \* event.json: the turns completed by its token counts
    previous, pending, flight,   \* SessionBridge
    probed,         \* history: turns completed when the last worker was started
    unreset,        \* history: of a directory: when its last reset failed, 0: written
    commands

registryVars == <<registry, removal, import>>
dirs    == <<place, login, used>>
locks   == <<lease, registryLock, syncLock>>
bridge  == <<previous, pending, flight>>
session == <<agy, interrupted, event, bridge, probed>>
past    == <<unreset, commands>>
vars    == <<registryVars, dirs, entry, remote, locks, pc, job, session, past>>

NoJob    == [dir |-> None, at |-> 0, got |-> 0, result |-> "ready"]
NoFlight == [stage |-> "none", at |-> 0, got |-> 0]
Steps    == {"idle", "reset", "signin", "register", "session", "joining", "exit",
             "probing", "measure", "lease", "measuring", "record", "rm", "push",
             "export", "clone", "publish", "pull", "fetch", "import", "stage",
             "move", "commit", "forget", "cleanup"}
InSession == {"session", "joining"}

QuotaTypeOK ==
    /\ registry \in Dir \cup {None} /\ import \in Imports \cup {None}
    /\ removal \in Removals \cup {None}
    /\ place \in [Dir -> {"absent", "staged", "present"}]
    /\ login \in [Dir -> Nat] /\ used \subseteq Imports
    /\ entry \in {e \in Entries : ValidEntry(e)} \cup {NoEntry}
    /\ remote \in Nat
    /\ lease \in [Dir -> Proc \cup {Nobody}]
    /\ {registryLock, syncLock} \subseteq Proc \cup {Nobody}
    /\ pc \in [Proc -> Steps] /\ job \in [Proc -> Jobs]
    /\ agy \in {"none", "running", "ended", "killed"}
    /\ interrupted \in BOOLEAN /\ pending \in BOOLEAN
    /\ event \in 0..MaxTurns /\ previous \in 0..event /\ probed \in 0..event
    /\ flight \in Flights /\ unreset \in [Dir -> Nat]
    \* One session at a time, under its lease, and no worker without one.
    /\ agy # "none" <=> \E p \in Proc : pc[p] \in InSession
    /\ \A p \in Proc : pc[p] \in InSession => lease[job[p].dir] = p
    /\ flight # NoFlight => agy # "none"

\* The label is unknown, or has logged in before; the pool may have a login.
Init ==
    /\ registry \in {None, Own} /\ removal = None /\ import = None
    /\ place = [d \in Dir |-> IF d = registry THEN "present" ELSE "absent"]
    /\ login = [d \in Dir |-> IF d = registry THEN 1 ELSE 0] /\ used = {}
    /\ entry = NoEntry
    /\ lease = [d \in Dir |-> Nobody] /\ registryLock = Nobody /\ syncLock = Nobody
    /\ pc = [p \in Proc |-> "idle"] /\ job = [p \in Proc |-> NoJob]
    /\ agy = "none" /\ interrupted = FALSE
    /\ event = 0 /\ previous = 0 /\ pending = FALSE /\ flight = NoFlight
    /\ probed = 0 /\ unreset = [d \in Dir |-> 0] /\ commands = 0
    /\ remote \in {0, 2}

---------------------------------------------------------------------------
(* Building blocks.                                                        *)

Goto(p, step) == pc' = [pc EXCEPT ![p] = step]
Work(p, j)    == job' = [job EXCEPT ![p] = j]
Free(d)       == lease[d] = Nobody
Lease(p, d)   == Free(d) /\ lease' = [lease EXCEPT ![d] = p]
Without(p)    == [d \in Dir |-> IF lease[d] = p THEN Nobody ELSE lease[d]]
Merge(u)      == entry' = Merged(entry, u)
Present(d)    == place[d] = "present"
HasLogin(d)   == login[d] # 0       \* a resumable credential
InPool        == remote # 0         \* a valid bundle, and the label in it

\* A reading of the clock: later than every reading somebody still remembers.
Now ==
    LET readings == {job[p].at : p \in Proc} \cup {flight.at} \cup {unreset[d] : d \in Dir}
                    \cup (IF removal = None THEN {} ELSE {removal.at})
                    \cup (IF entry = NoEntry THEN {}
                          ELSE {entry.started, entry.reset, entry.attempted})
    IN  1 + Max(readings)

\* An identity nobody and nothing knows yet.
NewLogin ==
    LET known == {login[d] : d \in Dir} \cup {job[p].got : p \in Proc} \cup {remote, flight.got}
                 \cup (IF entry = NoEntry THEN {} ELSE {entry.sample})
    IN  CHOOSE n \in 1..(Cardinality(known) + 1) : n \notin known

\* lock_registry, with nothing to recover.
Unlocked == registryLock = Nobody /\ removal = None

Begin(p) ==
    /\ pc[p] = "idle" /\ commands < MaxCommands
    /\ commands' = commands + 1 /\ UNCHANGED unreset

\* The command is over; its locks go with its files.
Ends(p) ==
    /\ Goto(p, "idle") /\ Work(p, NoJob)
    /\ lease' = Without(p)
    /\ registryLock' = IF registryLock = p THEN Nobody ELSE registryLock
    /\ syncLock' = IF syncLock = p THEN Nobody ELSE syncLock

Ready(ok) == IF ok THEN "ready" ELSE "unavailable"
Seen(ok, got) == IF ok THEN got ELSE 0

---------------------------------------------------------------------------
(* login.                                                                  *)

LoginBegins(p) ==
    LET d == IF registry = None THEN Own ELSE registry IN
    /\ Begin(p) /\ Unlocked
    /\ place' = [place EXCEPT ![d] = "present"]
    /\ Lease(p, d) /\ Work(p, [NoJob EXCEPT !.dir = d]) /\ Goto(p, "reset")
    /\ UNCHANGED <<registryVars, login, used, entry, remote, registryLock, syncLock,
                   session>>

\* Before agy can sign in as somebody else.  A reset that cannot be written is
\* only noted.
LoginResets(p) ==
    LET d == job[p].dir IN
    /\ pc[p] = "reset"
    /\ \/ /\ Merge(Update(d, 0, Now, "reset"))
          /\ unreset' = [unreset EXCEPT ![d] = 0]
       \/ /\ UNCHANGED entry
          /\ unreset' = [unreset EXCEPT ![d] = Now]
    /\ Goto(p, "signin")
    /\ UNCHANGED <<registryVars, dirs, remote, locks, job, session, commands>>

SignsIn(p) ==
    /\ pc[p] = "signin" /\ job[p].got = 0
    /\ login' = [login EXCEPT ![job[p].dir] = NewLogin]
    /\ Work(p, [job[p] EXCEPT !.got = NewLogin])
    /\ UNCHANGED <<registryVars, place, used, entry, remote, locks, pc, session, past>>

\* agy ended well and the directory holds a login.
LoginSucceeds(p) ==
    /\ pc[p] = "signin" /\ HasLogin(job[p].dir)
    /\ Goto(p, "register")
    /\ UNCHANGED <<registryVars, dirs, entry, remote, locks, job, session, past>>

LoginFails(p) ==
    /\ pc[p] = "signin" /\ Ends(p)
    /\ UNCHANGED <<registryVars, dirs, entry, remote, session, past>>

Registers(p) ==
    /\ pc[p] = "register" /\ Unlocked
    /\ registry' = IF registry = None THEN Own ELSE registry
    /\ Goto(p, "exit")
    /\ UNCHANGED <<removal, import, dirs, entry, remote, locks, job, session, past>>

\* refresh_after_exit: one more measurement, under the lease of the command.
ExitProbes(p) ==
    /\ pc[p] = "exit"
    /\ Work(p, [job[p] EXCEPT !.at = Now, !.got = login[job[p].dir]])
    /\ Goto(p, "probing")
    /\ UNCHANGED <<registryVars, dirs, entry, remote, locks, session, past>>

ExitMerges(p) ==
    /\ pc[p] = "probing"
    /\ \/ \E ok \in BOOLEAN :
              Merge(Update(job[p].dir, Seen(ok, job[p].got), job[p].at, Ready(ok)))
       \/ UNCHANGED entry               \* interrupted, or not written
    /\ Ends(p)
    /\ UNCHANGED <<registryVars, dirs, remote, session, past>>

---------------------------------------------------------------------------
(* run: agy, its status-line helper, the polling parent and the worker.    *)

RunBegins(p) ==
    /\ Begin(p) /\ Unlocked
    /\ registry \in {d \in Dir : HasLogin(d)} /\ Lease(p, registry)
    /\ Work(p, [NoJob EXCEPT !.dir = registry]) /\ Goto(p, "session")
    /\ agy' = "running" /\ interrupted' = FALSE
    /\ event' = 0 /\ previous' = 0 /\ pending' = FALSE /\ flight' = NoFlight
    /\ probed' = 0
    /\ UNCHANGED <<registryVars, dirs, entry, remote, registryLock, syncLock>>

SessionFrame == UNCHANGED <<registryVars, dirs, remote, locks, job, past>>

\* The helper replaces event.json with the idle state after a turn (states in
\* between only serve turns that leave the token counts alone).  Helpers that
\* fail are ignored: several turns may show as one.
Helper ==
    /\ agy = "running" /\ event < MaxTurns
    /\ event' \in (event + 1)..MaxTurns
    /\ UNCHANGED <<entry, pc, agy, interrupted, bridge, probed>> /\ SessionFrame

CompletedTurn(before, next) == next # before

Noticed == CompletedTurn(previous, event)

Landed == flight.stage = "done"
Brings == Landed /\ flight.got # 0
Harvest(p) ==
    IF Brings THEN Merge(Update(job[p].dir, flight.got, flight.at, "ready"))
    ELSE UNCHANGED entry

\* poll_inner: a finished measurement first, then the event, then a new one.
\* Seeded bug: a turn completed while a measurement runs is forgotten.
PollForgets(p) ==
    /\ pc[p] = "session" /\ (Landed => Brings) /\ Harvest(p)
    /\ previous' = event /\ pending' = FALSE
    /\ flight' = IF ~(flight = NoFlight \/ Landed) THEN flight
                 ELSE [NoFlight EXCEPT !.stage = IF Noticed THEN "started" ELSE "none"]
    /\ probed' = IF Noticed /\ flight'.stage = "started" THEN event ELSE probed
    /\ UNCHANGED <<pc, agy, interrupted, event>> /\ SessionFrame

Polls(p) ==
    LET due == pending \/ Noticed
        idle == flight = NoFlight \/ Landed
    IN
    /\ pc[p] = "session" /\ (Landed => Brings) /\ Harvest(p)
    /\ previous' = event
    /\ pending' = (due /\ ~idle)
    /\ flight' = IF ~idle THEN flight
                 ELSE [NoFlight EXCEPT !.stage = IF due THEN "started" ELSE "none"]
    /\ probed' = IF due /\ idle THEN event ELSE probed
    /\ UNCHANGED <<pc, agy, interrupted, event>> /\ SessionFrame

\* Nothing was measured, or it could not be saved (all of it, or only the sync
\* of the directory): the error ends this poll before the event is read.
PollFails(p) ==
    /\ pc[p] = "session" /\ Landed
    /\ Harvest(p) \/ UNCHANGED entry
    /\ flight' = NoFlight
    /\ UNCHANGED <<pc, agy, interrupted, event, previous, pending, probed>> /\ SessionFrame

\* The worker copies the credential into a home of its own and asks agy.
FlightProbes(p) ==
    /\ pc[p] = "session" /\ flight.stage = "started"
    /\ flight' = [stage |-> "probing", at |-> Now, got |-> login[job[p].dir]]
    /\ UNCHANGED <<entry, pc, agy, interrupted, event, previous, pending, probed>>
    /\ SessionFrame

\* It may fail or be cancelled at any point: nothing was seen.
FlightEnds ==
    /\ flight.stage \in {"started", "probing"}
    /\ \E ok \in BOOLEAN :
           flight' = [flight EXCEPT !.stage = "done", !.got = Seen(ok, flight.got)]
    /\ UNCHANGED <<entry, pc, agy, interrupted, event, previous, pending, probed>> /\ SessionFrame

\* Below 128: an exit code.  From there on: a signal.
AgyEnds ==
    /\ agy = "running" /\ agy' \in {"ended", "killed"} /\ interrupted' = FALSE
    /\ UNCHANGED <<entry, pc, event, bridge, probed>> /\ SessionFrame

Interrupt ==
    /\ agy = "running" /\ interrupted' = TRUE
    /\ UNCHANGED <<entry, pc, agy, event, bridge, probed>> /\ SessionFrame

\* Seeded bug: every poll after SIGINT starts the grace period again.
GraceRestarts(p) ==
    /\ pc[p] = "session" /\ interrupted /\ agy = "running"
    /\ UNCHANGED <<entry, pc, session>> /\ SessionFrame

\* wait_plain: three seconds after SIGINT a SIGTERM, then a SIGKILL.
StopsAgy(p) ==
    /\ pc[p] = "session" /\ interrupted /\ agy = "running"
    /\ agy' \in {"ended", "killed"} /\ interrupted' = FALSE
    /\ UNCHANGED <<entry, pc, event, bridge, probed>> /\ SessionFrame

\* On to refresh_after_exit, or out when a signal ended agy.
Leaves(p) ==
    /\ IF agy = "ended" THEN Goto(p, "exit") /\ UNCHANGED <<locks, job>> ELSE Ends(p)
    /\ agy' = "none" /\ flight' = NoFlight
    /\ UNCHANGED <<registryVars, dirs, remote, past>>

\* finish: what has landed is kept if it can be saved, what still flies is
\* cancelled and joined; events are not read any more.
Closes(p) ==
    /\ pc[p] = "session" /\ agy \in {"ended", "killed"}
    /\ Harvest(p) \/ UNCHANGED entry
    /\ pending' = FALSE /\ event' = 0 /\ previous' = 0 /\ probed' = 0
    /\ UNCHANGED interrupted
    /\ \/ /\ flight = NoFlight \/ Landed
          /\ Leaves(p)
       \/ /\ flight # NoFlight /\ ~Landed
          /\ Goto(p, "joining")
          /\ UNCHANGED <<agy, flight>> /\ SessionFrame

Joins(p) ==
    /\ pc[p] = "joining" /\ Landed
    /\ Leaves(p) /\ UNCHANGED <<entry, interrupted, event, previous, pending, probed>>

---------------------------------------------------------------------------
(* refresh: a snapshot of the registry, then a measurement under the lease *)
(* alone, then a merge under no lock of the label.                         *)

RefreshBegins(p) ==
    /\ Begin(p) /\ Unlocked /\ registry # None
    /\ Work(p, [NoJob EXCEPT !.dir = registry]) /\ Goto(p, "measure")
    /\ UNCHANGED <<registryVars, dirs, entry, remote, locks, session>>

MeasureBegins(p) ==
    /\ pc[p] = "measure"
    /\ Work(p, [job[p] EXCEPT !.at = Now]) /\ Goto(p, "lease")
    /\ UNCHANGED <<registryVars, dirs, entry, remote, locks, session, past>>

MeasureFrame == UNCHANGED <<registryVars, dirs, remote, registryLock, syncLock,
                            session, past>>

\* No directory, no login in it, or somebody else uses it.
Unmeasured(p) ==
    LET d == job[p].dir
        missing == ~Present(d) \/ (Free(d) /\ ~HasLogin(d))
    IN
    /\ pc[p] = "lease" /\ (missing \/ ~Free(d))
    /\ Work(p, [job[p] EXCEPT !.result = IF missing THEN "needs-login" ELSE "busy"])
    /\ Goto(p, "record") /\ UNCHANGED <<entry, lease>> /\ MeasureFrame

Measures(p) ==
    LET d == job[p].dir IN
    /\ pc[p] = "lease" /\ Present(d) /\ HasLogin(d) /\ Lease(p, d)
    /\ Work(p, [job[p] EXCEPT !.got = login[d]])
    /\ Goto(p, "measuring") /\ UNCHANGED entry /\ MeasureFrame

MeasureEnds(p) ==
    /\ pc[p] = "measuring" /\ lease' = Without(p)
    /\ \E ok \in BOOLEAN :
           Work(p, [job[p] EXCEPT !.got = Seen(ok, @), !.result = Ready(ok)])
    /\ Goto(p, "record") /\ UNCHANGED entry /\ MeasureFrame

Records(p) ==
    /\ pc[p] = "record"
    /\ \/ Merge(Update(job[p].dir, job[p].got, job[p].at, job[p].result))
       \/ UNCHANGED entry
    /\ Ends(p)
    /\ UNCHANGED <<registryVars, dirs, remote, session, past>>

---------------------------------------------------------------------------
(* rm.  Whoever takes the registry lock next finishes an interrupted one.  *)

RmBegins(p) ==
    /\ Begin(p) /\ Unlocked /\ registry # None /\ Lease(p, registry)
    /\ removal' = [dir |-> registry, at |-> Now]
    /\ registryLock' = p /\ Goto(p, "rm")
    /\ UNCHANGED <<registry, import, dirs, entry, remote, syncLock, job, session>>

\* Reset, archive, unregister, forget.
Removed ==
    /\ Merge(Update(removal.dir, 0, removal.at, "reset"))
    /\ place' = [place EXCEPT ![removal.dir] = "absent"]
    /\ login' = [login EXCEPT ![removal.dir] = 0]
    /\ unreset' = [unreset EXCEPT ![removal.dir] = 0]
    /\ registry' = None /\ removal' = None
    /\ UNCHANGED <<import, used, remote, session, commands>>

RmFinishes(p) == pc[p] = "rm" /\ Removed /\ Ends(p)

Locking == {"idle", "register", "push", "pull", "export", "import", "cleanup"}

RecoversRemoval(p) ==
    /\ pc[p] \in Locking /\ registryLock = Nobody /\ removal # None
    /\ Free(removal.dir) /\ Removed
    /\ UNCHANGED <<locks, pc, job>>

\* The archive is in use, or the reset cannot be written: the command that
\* wanted the lock fails.
RecoveryFails(p) ==
    /\ pc[p] \in Locking \ {"idle"} /\ registryLock = Nobody /\ removal # None
    /\ Ends(p)
    /\ UNCHANGED <<registryVars, dirs, entry, remote, session, past>>

---------------------------------------------------------------------------
(* push and pull, one at a time; first an interrupted import is cleaned up. *)

SyncFrame == UNCHANGED <<removal, entry, session, past>>

SyncBegins(p) ==
    /\ Begin(p) /\ syncLock = Nobody
    /\ syncLock' = p /\ pc' \in {[pc EXCEPT ![p] = "push"], [pc EXCEPT ![p] = "pull"]}
    /\ UNCHANGED <<registryVars, dirs, entry, remote, lease, registryLock, job, session>>

\* Seeded bug: the cleanup does not ask the registry.
CleansAll ==
    /\ place' = [d \in Dir |-> IF d = import THEN "absent" ELSE place[d]]
    /\ login' = [d \in Dir |-> IF d = import THEN 0 ELSE login[d]]
    /\ import' = None

\* recover_import.  Nobody leases a directory that no label stands for here.
Cleans ==
    LET gone(d) == d = import /\ registry # d IN
    /\ place' = [d \in Dir |-> IF gone(d) THEN "absent" ELSE place[d]]
    /\ login' = [d \in Dir |-> IF gone(d) THEN 0 ELSE login[d]]
    /\ import' = None

RecoversImport(p) ==
    /\ Unlocked /\ Cleans
    /\ \/ pc[p] = "push" /\ Goto(p, "export") /\ UNCHANGED <<locks, job>>
       \/ pc[p] = "pull" /\ Goto(p, "fetch") /\ UNCHANGED <<locks, job>>
       \/ pc[p] = "cleanup" /\ Ends(p)
    /\ UNCHANGED <<registry, used, remote>> /\ SyncFrame

\* local_bundle: the credential is copied under the lease, let go at once.
Exports(p) ==
    /\ pc[p] = "export" /\ Unlocked
    /\ IF registry \in {d \in Dir : Free(d) /\ HasLogin(d)}
       THEN /\ Work(p, [job[p] EXCEPT !.got = login[registry]])
            /\ Goto(p, "clone") /\ UNCHANGED locks
       ELSE Ends(p)
    /\ UNCHANGED <<registry, import, dirs, remote>> /\ SyncFrame

\* EncryptedRepo::open and merge_push: another login under this label refuses.
Clones(p) ==
    /\ pc[p] = "clone"
    /\ IF InPool THEN Ends(p) ELSE Goto(p, "publish") /\ UNCHANGED <<locks, job>>
    /\ UNCHANGED <<registry, import, dirs, remote>> /\ SyncFrame

\* Seeded bug: git push --force.
PublishesForced(p) ==
    /\ pc[p] = "publish"
    /\ remote' = job[p].got /\ Ends(p)
    /\ UNCHANGED <<registry, import, dirs>> /\ SyncFrame

\* git refuses a push over a commit the clone has not seen.
Publishes(p) ==
    /\ pc[p] = "publish"
    /\ remote' = IF InPool THEN remote ELSE job[p].got
    /\ Ends(p)
    /\ UNCHANGED <<registry, import, dirs>> /\ SyncFrame

\* Another machine publishes its login under the same label.
OtherMachine ==
    /\ ~InPool /\ remote' = NewLogin
    /\ UNCHANGED <<registry, import, dirs, locks, pc, job>> /\ SyncFrame

Fetches(p) ==
    /\ pc[p] = "fetch"
    /\ IF InPool
       THEN /\ Work(p, [job[p] EXCEPT !.got = remote])
            /\ Goto(p, "import") /\ UNCHANGED locks
       ELSE Ends(p)
    /\ UNCHANGED <<registry, import, dirs, remote>> /\ SyncFrame

\* The label is known and kept, its own directory is in the way, or (bound)
\* the fresh names are used up.
KeepsLabel(p) ==
    /\ pc[p] = "import" /\ Unlocked
    /\ (registry # None \/ place[Own] # "absent" \/ used = Imports)
    /\ Ends(p)
    /\ UNCHANGED <<registry, import, dirs, remote>> /\ SyncFrame

PlansImport(p) ==
    /\ pc[p] = "import" /\ Unlocked
    /\ registry = None /\ place[Own] = "absent"
    /\ \E d \in Imports \ used :
           /\ import' = d /\ used' = used \cup {d}
           /\ Work(p, [job[p] EXCEPT !.dir = d])
    /\ registryLock' = p /\ Goto(p, "stage")
    /\ UNCHANGED <<registry, place, login, remote, lease, syncLock>> /\ SyncFrame

Stages(p) ==
    LET d == job[p].dir IN
    /\ \/ /\ pc[p] = "stage" /\ Goto(p, "move")
          /\ place' = [place EXCEPT ![d] = "staged"]
          /\ login' = [login EXCEPT ![d] = job[p].got]
       \/ /\ pc[p] = "move" /\ Goto(p, "commit")
          /\ place' = [place EXCEPT ![d] = "present"]
          /\ UNCHANGED login
    /\ UNCHANGED <<registry, import, used, remote, locks, job>> /\ SyncFrame

CommitsImport(p) ==
    /\ pc[p] = "commit"
    /\ registry' = job[p].dir /\ Goto(p, "forget")
    /\ UNCHANGED <<import, dirs, remote, locks, job>> /\ SyncFrame

ForgetsImport(p) ==
    /\ pc[p] = "forget"
    /\ import' = None /\ Ends(p)
    /\ UNCHANGED <<registry, dirs, remote>> /\ SyncFrame

\* A system call fails; write_state may have taken effect all the same.
ImportFails(p) ==
    /\ pc[p] \in {"stage", "move", "commit", "forget"}
    /\ registry' \in {registry} \cup (IF pc[p] = "commit" THEN {job[p].dir} ELSE {})
    /\ registryLock' = Nobody /\ Goto(p, "cleanup")
    /\ UNCHANGED <<import, dirs, remote, lease, syncLock, job>> /\ SyncFrame

---------------------------------------------------------------------------

Kill(p) ==
    /\ pc[p] \notin {"idle", "signin"} /\ Ends(p)
    /\ IF pc[p] \in InSession
       THEN /\ agy' = "none" /\ interrupted' = FALSE /\ event' = 0
            /\ previous' = 0 /\ pending' = FALSE /\ flight' = NoFlight /\ probed' = 0
       ELSE UNCHANGED session
    /\ UNCHANGED <<registryVars, dirs, entry, remote, past>>

Login(p)   == LoginBegins(p) \/ LoginResets(p) \/ SignsIn(p) \/ LoginSucceeds(p)
              \/ LoginFails(p) \/ Registers(p) \/ ExitProbes(p) \/ ExitMerges(p)
Bridge(p)  == Polls(p) \/ PollFails(p) \/ FlightProbes(p)
Session(p) == RunBegins(p) \/ Bridge(p) \/ StopsAgy(p) \/ Closes(p) \/ Joins(p)
Refresh(p) == RefreshBegins(p) \/ MeasureBegins(p) \/ Unmeasured(p) \/ Measures(p)
              \/ MeasureEnds(p) \/ Records(p)
Rm(p)      == RmBegins(p) \/ RmFinishes(p) \/ RecoversRemoval(p) \/ RecoveryFails(p)
Sync(p)    == SyncBegins(p) \/ RecoversImport(p) \/ Exports(p) \/ Clones(p) \/ Publishes(p)
              \/ Fetches(p) \/ KeepsLabel(p) \/ PlansImport(p) \/ Stages(p)
              \/ CommitsImport(p) \/ ForgetsImport(p) \/ ImportFails(p)

Next ==
    \/ \E p \in Proc : Login(p) \/ Session(p) \/ Refresh(p) \/ Rm(p) \/ Sync(p) \/ Kill(p)
    \/ Helper \/ FlightEnds \/ AgyEnds \/ Interrupt \/ OtherMachine

Spec == Init /\ [][Next]_vars

\* The parent polls, a worker's queries have a deadline; agy itself may go on
\* for ever, and helpers and users do what they like.
Fairness ==
    /\ WF_vars(FlightEnds)
    /\ \A p \in Proc : /\ WF_vars(Polls(p)) /\ WF_vars(PollFails(p))
                       /\ WF_vars(FlightProbes(p)) /\ WF_vars(StopsAgy(p))
                       /\ WF_vars(Closes(p)) /\ WF_vars(Joins(p))

FairSpec == Spec /\ Fairness

---------------------------------------------------------------------------
(* Properties.                                                             *)

\* What list and the choice of a number show for the label.
Shown ==
    IF registry # None /\ entry # NoEntry
    THEN IF entry.dir = registry THEN entry.sample ELSE 0
    ELSE 0

\* A quota shown for the label was measured with the identity its directory
\* holds now: no measurement begun before a new login, a removal or an import
\* comes back after it, however late it is merged (cache::merge).  Except when
\* the reset before the last login could not be written, of which login only
\* takes note (profile/mod.rs:63): what had begun by then may still be shown,
\* but nothing that began after it is of another identity.
ShownIsCurrent ==
    Shown # 0 => Shown = login[registry] \/ entry.started <= unreset[registry]

\* A registered label has its directory and a login in it, and a directory
\* that was moved in is registered or still named by the manifest of its
\* import: recovery deletes neither too much nor too little (recover_import,
\* profile/repo_sync.rs:286).
ImportResolvable ==
    /\ registry # None => Present(registry) /\ HasLogin(registry)
    /\ \A d \in Imports : place[d] # "absent" => d \in {registry, import}

\* The login published for a label is never replaced by another login
\* (merge_push, and git's refusal of a push over an unseen commit).
RemoteKept == [][InPool => remote' = remote]_vars

\* As long as agy goes on, a worker is started after every completed turn, also
\* when another one was still measuring as the turn ended
\* (poll_inner, statusline.rs:344).  A worker that fails is not repeated.
TurnsMeasured == []<>(agy # "running" \/ probed = event)

\* After SIGINT, or the end of agy, the session returns, whatever its worker
\* is doing and even if agy ignores signals (wait_plain, SessionBridge::finish).
SessionReturns == (interrupted \/ agy \in {"ended", "killed"}) ~> agy = "none"
=============================================================================
