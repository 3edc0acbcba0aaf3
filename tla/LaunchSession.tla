--------------------------- MODULE LaunchSession ---------------------------
(***************************************************************************)
(* Several sagy commands at once: `sagy' launching agy (run_launch, with   *)
(* the fallback to another account when the child is rate limited) and     *)
(* `sagy use' switching accounts, over State, the active home of the user  *)
(* and the file locks that protect them.                                   *)
(*                                                                         *)
(* Lock order: State, the account's credential lock, the home locks.  All  *)
(* of them block.  A command first looks for interrupted transactions,     *)
(* which takes the credential lock of every account in turn under the      *)
(* State lock.  A launch leases the credential and the home locks, without *)
(* State, for as long as its child runs.                                   *)
(*                                                                         *)
(* Abstractions: a commit of State is one step (AtomicStore implements a   *)
(* compare-and-swap register: CasRegister), and the revision a session     *)
(* expects is kept as `exact': nobody has committed since.  Of a usage     *)
(* snapshot only the cooldown is kept, and no window ends during a run     *)
(* (AccountUsage has time).  The two home slots are one.  Crashes, and the *)
(* journals an interrupted or half-failed transaction leaves to recover,   *)
(* are not part of this module: a restore succeeds, and recovery finds     *)
(* nothing to do once it has the locks.                                    *)
(***************************************************************************)
EXTENDS Naturals, FiniteSets

CONSTANTS
    Accounts,       \* how many accounts State has; their ids in sorted order
    Launchers,      \* processes that run `sagy'
    Switchers,      \* processes that run `sagy use'
    Nobody,         \* a free lock
    LateEvidence,   \* whether a child may outlive the window its 429 opens
    MaxTries,       \* attempts of one launch: 3
    MaxCommands     \* bound: commands each process runs

Account   == 1..Accounts
NoAccount == 0      \* no current account, empty home, nothing selected
Proc  == Launchers \cup Switchers
State == [current : Account \cup {NoAccount}, cooling : SUBSET Account]

ASSUME LaunchAssumption ==
    /\ Launchers \cap Switchers = {}
    /\ Nobody \notin Proc
    /\ LateEvidence \in BOOLEAN
    /\ {Accounts, MaxTries, MaxCommands} \subseteq Nat \ {0}

VARIABLES
    state,      \* the committed State
    home,       \* whose credential is published in the active home
    stateLock, credLock, homeLock,
    pc,
    session,    \* StateSession: the State the command last read or wrote
    exact,      \* whether that is still the committed revision
    visited,    \* accounts the recovery pass has been through
    chosen,     \* the account the command works on
    before,     \* what the switch found in the home, for restore
    child,      \* the child agy and how it ended
    tries,      \* attempt of run_launch
    commands

locks == <<stateLock, credLock, homeLock>>
vars  == <<state, home, stateLock, credLock, homeLock, pc, session, exact,
           visited, chosen, before, child, tries, commands>>

Steps == {"idle", "recover", "visit", "refresh", "select", "switch", "credential", "home", "publish",
          "commit", "finalize", "lease", "lease_home", "reread", "running",
          "drop", "record"}
Endings  == {"ok", "failed", "rejected", "exhausted"}
Children == Endings \cup {"none", "running"}

LaunchTypeOK ==
    /\ state \in State /\ home \in Account \cup {NoAccount}
    /\ {stateLock, homeLock} \subseteq Proc \cup {Nobody}
    /\ credLock \in [Account -> Proc \cup {Nobody}]
    /\ pc \in [Proc -> Steps]
    /\ session \in [Proc -> State] /\ exact \in [Proc -> BOOLEAN]
    /\ \A p \in Proc : exact[p] => session[p] = state
    /\ visited \in [Proc -> 0..Accounts]
    /\ {chosen, before} \subseteq [Proc -> Account \cup {NoAccount}]
    /\ child \in [Proc -> Children]
    /\ tries \in [Proc -> 0..MaxTries] /\ commands \in [Proc -> 0..MaxCommands]

Init ==
    /\ home \in Account \cup {NoAccount}
    /\ state = [current |-> home, cooling |-> {}]
    /\ stateLock = Nobody /\ homeLock = Nobody
    /\ credLock = [a \in Account |-> Nobody]
    /\ pc = [p \in Proc |-> "idle"]
    /\ session = [p \in Proc |-> state] /\ exact = [p \in Proc |-> FALSE]
    /\ visited = [p \in Proc |-> 0]
    /\ chosen = [p \in Proc |-> NoAccount] /\ before = [p \in Proc |-> NoAccount]
    /\ child = [p \in Proc |-> "none"]
    /\ tries = [p \in Proc |-> 0] /\ commands = [p \in Proc |-> 0]

---------------------------------------------------------------------------
(* Building blocks.                                                        *)

Goto(p, step) == pc' = [pc EXCEPT ![p] = step]

\* Seeded bug: the revision is compared by nobody.
CommitAnyway(p, new) ==
    /\ state' = new
    /\ session' = [session EXCEPT ![p] = new]
    /\ exact' = [q \in Proc |-> q = p \/ pc[q] # "idle"]

\* A new revision: whoever read an earlier one is not exact any more.
Commit(p, new) ==
    /\ state' = new
    /\ session' = [session EXCEPT ![p] = new]
    /\ exact' = [q \in Proc |-> q = p]

Uncommitted == UNCHANGED <<state, session, exact>>

\* The command returns; the locks it holds go with its file handles.
Return(p) ==
    /\ Goto(p, "idle")
    /\ stateLock' = IF stateLock = p THEN Nobody ELSE stateLock
    /\ credLock' = [a \in Account |-> IF credLock[a] = p THEN Nobody ELSE credLock[a]]
    /\ homeLock' = IF homeLock = p THEN Nobody ELSE homeLock
    /\ exact' = [exact EXCEPT ![p] = FALSE]
    /\ session' = [session EXCEPT ![p] = state]
    /\ visited' = [visited EXCEPT ![p] = 0]
    /\ chosen' = [chosen EXCEPT ![p] = NoAccount]
    /\ before' = [before EXCEPT ![p] = NoAccount]
    /\ child' = [child EXCEPT ![p] = "none"]
    /\ tries' = [tries EXCEPT ![p] = 0]
    /\ UNCHANGED <<state, commands>>

\* StateSession::commit waits for the State lock.
CommitExact(p, new, step) ==
    /\ exact[p] /\ stateLock = Nobody
    /\ Commit(p, new)
    /\ Goto(p, step)

\* Whatever begins with State refuses a session that is not exact any more:
\* with_locked_exact, commit.  Of a child's evidence that means it is gone.
Conflict(p) ==
    /\ \/ pc[p] \in {"recover", "refresh", "switch"}
       \/ pc[p] = "record" /\ child[p] # "ok"
    /\ ~exact[p]
    /\ Return(p) /\ UNCHANGED home

---------------------------------------------------------------------------
(* The command line.                                                       *)

\* StateSession::from_store.
Open(p) ==
    /\ pc[p] = "idle" /\ commands[p] < MaxCommands
    /\ commands' = [commands EXCEPT ![p] = @ + 1]
    /\ session' = [session EXCEPT ![p] = state]
    /\ exact' = [exact EXCEPT ![p] = TRUE]
    /\ Goto(p, "recover")
    /\ tries' = [tries EXCEPT ![p] = 1]
    /\ UNCHANGED <<state, home, locks, visited, chosen, before, child>>

LockState(p, from, to) ==
    /\ pc[p] = from /\ exact[p] /\ stateLock = Nobody
    /\ stateLock' = p
    /\ Goto(p, to) /\ Uncommitted
    /\ UNCHANGED <<home, credLock, homeLock, visited, chosen, before, child, tries, commands>>

\* recover_account_transactions: with the State lock, the credential lock of
\* every account in the order of the ids, each held for the look at its journals.
Recover(p) == LockState(p, "recover", "visit")

Visit(p) ==
    /\ pc[p] = "visit" /\ visited[p] < Accounts
    /\ credLock[visited[p] + 1] = Nobody
    /\ visited' = [visited EXCEPT ![p] = @ + 1]
    /\ Uncommitted
    /\ UNCHANGED <<home, locks, pc, chosen, before, child, tries, commands>>

Recovered(p, to) ==
    /\ pc[p] = "visit" /\ visited[p] = Accounts
    /\ visited' = [visited EXCEPT ![p] = 0]
    /\ stateLock' = Nobody
    /\ Goto(p, to) /\ Uncommitted
    /\ UNCHANGED <<home, credLock, homeLock, before, child, tries, commands>>

\* A launch probes all accounts; `use' switches to the account it was given.
\* A switch recovers again before it begins.
Started(p)  == p \in Launchers /\ chosen[p] = NoAccount /\ Recovered(p, "refresh")
               /\ UNCHANGED chosen
Use(p)      == p \in Switchers /\ chosen[p] = NoAccount /\ Recovered(p, "recover")
               /\ \E a \in Account : chosen' = [chosen EXCEPT ![p] = a]
Resume(p)   == chosen[p] # NoAccount /\ Recovered(p, "switch") /\ UNCHANGED chosen

\* refresh_all_and_commit: probes go out only for accounts not cooling down,
\* and some of them may be answered with a 429.
Refresh(p) ==
    /\ pc[p] = "refresh"
    /\ \E limited \in SUBSET Account :
         CommitExact(p, [session[p] EXCEPT !.cooling = @ \cup limited], "select")
    /\ UNCHANGED <<home, locks, visited, chosen, before, child, tries, commands>>

\* select_best_account: the current account while it is eligible.
Candidates(s) ==
    LET eligible == Account \ s.cooling IN
    IF s.current \in eligible THEN {s.current} ELSE eligible

Select(p) ==
    /\ pc[p] = "select"
    /\ \E a \in Candidates(session[p]) : chosen' = [chosen EXCEPT ![p] = a]
    /\ Goto(p, "recover") /\ Uncommitted
    /\ UNCHANGED <<home, locks, visited, before, child, tries, commands>>

NothingUsable(p) ==
    pc[p] = "select" /\ Candidates(session[p]) = {} /\ Return(p) /\ UNCHANGED home

---------------------------------------------------------------------------
(* switch_account_session_inner.                                           *)

BeginSwitch(p) == LockState(p, "switch", "credential")

TakeCredential(p, from, to) ==
    /\ pc[p] = from /\ credLock[chosen[p]] = Nobody
    /\ credLock' = [credLock EXCEPT ![chosen[p]] = p]
    /\ Goto(p, to) /\ Uncommitted
    /\ UNCHANGED <<home, stateLock, homeLock, visited, chosen, before, child, tries, commands>>

TakeHome(p, from, to) ==
    /\ pc[p] = from /\ homeLock = Nobody
    /\ homeLock' = p
    /\ Goto(p, to) /\ Uncommitted
    /\ UNCHANGED <<home, stateLock, credLock, visited, chosen, before, child, tries, commands>>

LockCredential(p) == TakeCredential(p, "credential", "home")
LockHome(p)       == TakeHome(p, "home", "publish")

\* prepare and publish the active home.
Publish(p) ==
    /\ pc[p] = "publish"
    /\ home' = chosen[p] /\ before' = [before EXCEPT ![p] = home]
    /\ Goto(p, "commit") /\ Uncommitted
    /\ UNCHANGED <<locks, visited, chosen, child, tries, commands>>

\* The one State CAS of the transaction; it still holds the State lock.
CommitSwitch(p) ==
    /\ pc[p] = "commit"
    /\ Commit(p, [state EXCEPT !.current = chosen[p]])
    /\ Goto(p, "finalize")
    /\ UNCHANGED <<home, locks, visited, chosen, before, child, tries, commands>>

Restore(p) == home' = before[p]

CommitFails(p) == pc[p] = "commit" /\ Restore(p) /\ Return(p)

\* A launch goes on to its child.
Finalize(p) ==
    /\ pc[p] = "finalize" /\ p \in Launchers
    /\ stateLock' = Nobody /\ homeLock' = Nobody
    /\ credLock' = [credLock EXCEPT ![chosen[p]] = Nobody]
    /\ before' = [before EXCEPT ![p] = NoAccount]
    /\ Goto(p, "lease") /\ Uncommitted
    /\ UNCHANGED <<home, visited, chosen, child, tries, commands>>

---------------------------------------------------------------------------
(* resolve_launch_credential and the child.                                *)

LeaseCredential(p) == TakeCredential(p, "lease", "lease_home")

\* Seeded bug: the home is not leased for the life of the child.
LeaseNothing(p) ==
    /\ pc[p] = "lease_home" /\ Goto(p, "reread") /\ Uncommitted
    /\ UNCHANGED <<home, locks, visited, chosen, before, child, tries, commands>>

LeaseHome(p) == TakeHome(p, "lease_home", "reread")

\* Seeded bug: the leases are taken to make a second look at State needless.
ResolvedByLayout(p) == home = chosen[p]

\* Both slots of the home have the digests of the account's layout.
HomeHolds(p) == home = chosen[p]

Resolved(p) == exact[p] /\ HomeHolds(p)

\* With the leases held: State is still the session's, and the home holds the
\* account's credential.
Spawn(p) ==
    /\ pc[p] = "reread" /\ Resolved(p)
    /\ child' = [child EXCEPT ![p] = "running"]
    /\ Goto(p, "running") /\ Uncommitted
    /\ UNCHANGED <<home, locks, visited, chosen, before, tries, commands>>

ChildEnds(p) ==
    /\ pc[p] = "running"
    /\ \E how \in Endings : child' = [child EXCEPT ![p] = how]
    /\ Goto(p, "drop") /\ Uncommitted
    /\ UNCHANGED <<home, locks, visited, chosen, before, tries, commands>>

\* drop(credential), before any State CAS.
DropLeases(p) ==
    /\ pc[p] = "drop"
    /\ homeLock' = Nobody
    /\ credLock' = [credLock EXCEPT ![chosen[p]] = Nobody]
    /\ Goto(p, "record") /\ Uncommitted
    /\ UNCHANGED <<home, stateLock, visited, chosen, before, child, tries, commands>>

\* What the evidence of the child makes of the session's State.  A window that
\* is over by now is none.
Recorded(s, a, how) ==
    LET limited == [s EXCEPT !.cooling = @ \cup {a}] IN
    CASE how = "rejected"  -> {s}
      [] how = "failed"    -> {s, limited}
      [] how = "exhausted" -> IF LateEvidence THEN {s, limited} ELSE {limited}

\* record_launch_diagnostic, or a forced refresh when the child failed without
\* saying why; then the next account if it was rate limited.
RecordAndReturn(p) ==
    /\ pc[p] = "record"
    /\ \/ child[p] \in {"failed", "rejected"}
       \/ child[p] = "exhausted" /\ tries[p] = MaxTries
    /\ \E new \in Recorded(session[p], chosen[p], child[p]) :
         CommitExact(p, new, "idle")
    /\ chosen' = [chosen EXCEPT ![p] = NoAccount]
    /\ child' = [child EXCEPT ![p] = "none"]
    /\ UNCHANGED <<home, locks, visited, before, tries, commands>>

\* Seeded bug: a fallback does not count as an attempt.
Untried(p) == UNCHANGED tries

NextTry(p) == tries' = [tries EXCEPT ![p] = @ + 1]

RecordAndFallBack(p) ==
    /\ pc[p] = "record" /\ child[p] = "exhausted" /\ tries[p] < MaxTries
    /\ \E new \in Recorded(session[p], chosen[p], child[p]) :
         CommitExact(p, new, "select")
    /\ child' = [child EXCEPT ![p] = "none"]
    /\ NextTry(p)
    /\ UNCHANGED <<home, locks, visited, chosen, before, commands>>

\* The command ends here: `use' after its switch, a launch whose child ended
\* well, a launch whose journals could not be cleaned up after the commit
\* (recovery pending), and an error: a home that holds a foreign credential, a
\* State or home that is not what the launch selected, no agy to run.
Ends(p) ==
    /\ \/ pc[p] \in {"publish", "finalize", "reread"}
       \/ pc[p] = "record" /\ child[p] = "ok"
    /\ Return(p) /\ UNCHANGED home

---------------------------------------------------------------------------

Step(p) ==
    \/ Conflict(p) \/ Ends(p)
    \/ Recover(p) \/ Visit(p) \/ Started(p) \/ Use(p) \/ Resume(p)
    \/ Refresh(p) \/ Select(p) \/ NothingUsable(p)
    \/ BeginSwitch(p) \/ LockCredential(p) \/ LockHome(p)
    \/ Publish(p) \/ CommitSwitch(p) \/ CommitFails(p) \/ Finalize(p)
    \/ LeaseCredential(p) \/ LeaseHome(p) \/ Spawn(p)
    \/ ChildEnds(p) \/ DropLeases(p)
    \/ RecordAndReturn(p) \/ RecordAndFallBack(p)

\* Every command of the bounded run has returned.
Finished ==
    /\ \A p \in Proc : pc[p] = "idle" /\ commands[p] = MaxCommands
    /\ UNCHANGED vars

Next == (\E p \in Proc : Open(p) \/ Step(p)) \/ Finished

Spec     == Init /\ [][Next]_vars
FairSpec == Spec /\ \A p \in Proc : WF_vars(Step(p))

---------------------------------------------------------------------------

(***************************************************************************)
(* While a child runs, the active home holds the credential of the account *)
(* it was started for, and that account is State's current one: no other   *)
(* command switches under a running agy (resolve_launch_credential).       *)
(***************************************************************************)
ChildRunsAsSelected ==
    \A p \in Launchers : child[p] = "running" =>
        home = chosen[p] /\ state.current = chosen[p]

(***************************************************************************)
(* Whenever nobody holds the home locks, the home holds the credential of  *)
(* State's current account: a switch that fails puts back what it found.   *)
(***************************************************************************)
HomeFollowsState == homeLock = Nobody => home = state.current

(***************************************************************************)
(* No command waits, directly or through others, for a lock it holds       *)
(* itself: the lock order, and the leases dropped before any State CAS.    *)
(***************************************************************************)
Awaited(p) ==
    CASE pc[p] = "visit" /\ visited[p] < Accounts -> credLock[visited[p] + 1]
      [] pc[p] \in {"credential", "lease"}  -> credLock[chosen[p]]
      [] pc[p] \in {"home", "lease_home"}   -> homeLock
      [] pc[p] \in {"recover", "refresh", "switch"}    -> stateLock
      [] pc[p] = "record" /\ child[p] # "ok" -> stateLock
      [] OTHER -> Nobody

NoCircularWait ==
    \A waiting \in SUBSET Proc : waiting # {} =>
        \E p \in waiting : Awaited(p) \notin waiting

(***************************************************************************)
(* A cooldown that is in State is not undone by a command that read State  *)
(* before it was: every commit starts from the revision it replaces.       *)
(***************************************************************************)
CooldownsKept == [][state.cooling \subseteq state'.cooling]_vars

(***************************************************************************)
(* agy is never started with an account that is cooling down in State,     *)
(* even if it started to only after this command had selected it.          *)
(***************************************************************************)
NeverSpawnedCooling ==
    [][\A p \in Launchers : child[p] = "none" /\ child'[p] = "running" =>
         chosen[p] \notin state.cooling]_vars

(***************************************************************************)
(* Every command returns, if every child ends.                             *)
(***************************************************************************)
CommandsReturn == \A p \in Proc : pc[p] # "idle" ~> pc[p] = "idle"
============================================================================
