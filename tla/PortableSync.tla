---------------------------- MODULE PortableSync ----------------------------
(***************************************************************************)
(* The portable account pool: one encrypted bundle in a git repository,    *)
(* pushed and pulled by several machines.  A push exports the accounts of a *)
(* machine, compares them with the bundle of a fresh clone, and replaces    *)
(* it whole; what the bundle has and the machine has not becomes a          *)
(* tombstone.  A pull merges the bundle into State: accounts of the pool    *)
(* replace local ones, tombstones remove local ones, and a local account    *)
(* that holds the credential of a pool account under another id goes.       *)
(* The watermark in State says which bundle the machine saw last; a bundle  *)
(* written before pool ids were canonical carries, and is remembered under, *)
(* a legacy id.                                                            *)
(*                                                                         *)
(* Source: adapters/antigravity/repo_sync.rs and repo_bundle.rs.  A bundle  *)
(* is what its plaintext says: encryption, parsing and size limits are left *)
(* out, and so are the credential journals of a pull, which commits or does *)
(* not (CredentialStore has them).  Adding, importing again and removing    *)
(* accounts, and switching to one, are single commits of other commands.    *)
(* An account is added under an id nobody used before.                      *)
(***************************************************************************)
EXTENDS Naturals, FiniteSets, Functions

CONSTANTS
    Machine,    \* machines that share the repository
    Proc,       \* push and pull commands
    Host,       \* Host[p]: the machine command p runs on
    Id,         \* account ids
    Cred,       \* credentials, told apart by their fingerprints
    NoId, NoBundle, NoMark, NoCmd,
    Ttl,        \* age, in ticks, after which a tombstone is not passed on
    Skew,       \* how far the clock of the machine that adds may be ahead
    MaxClock,   \* bound: ticks
    MaxGen,     \* bound: generations of the bundle
    MaxEdits    \* bound: commits of other commands

Pool == {"canonical", "legacy"}

\* BundleV2: the accounts and the tombstones, by id.
Times      == 1..(MaxClock + Skew)
Table(S)   == UNION {[ids -> S] : ids \in SUBSET Id}
Account    == [cred : Cred, added : Times]
Tombstone  == [cred : Cred, at : Times]
Issue      == [added : Times, creds : SUBSET Cred]
Accounts   == Table(Account)
Tombstones == Table(Tombstone)
Bundles    == [pool : Pool, gen : 1..MaxGen, accounts : Accounts, tombs : Tombstones]
Watermarks == [gen : 1..MaxGen, hash : [pool : Pool, accounts : Accounts, tombs : Tombstones]]
States     == [accounts : Accounts, current : Id \cup {NoId},
               marks : [Pool -> Watermarks \cup {NoMark}]]
Steps      == {"export", "push", "send", "mark", "pull", "release", "merge"}
Commands   == [step : Steps, fresh : BOOLEAN, state : States, exported : SUBSET Id,
               base : Nat, bundle : Bundles \cup {NoBundle}, pool : Pool]

ASSUME PortableSyncConstants ==
    /\ Host \in [Proc -> Machine] /\ NoId \notin Id
    /\ NoBundle \notin Bundles /\ NoMark \notin Watermarks /\ NoCmd \notin Commands \cup Proc
    /\ Ttl \in Nat /\ Skew \in Nat
    /\ {MaxClock, MaxGen, MaxEdits} \subseteq Nat \ {0}

VARIABLES
    remote,     \* the branch: how many commits, and the bundle in it
    local,      \* State of each machine: accounts, the current one, watermarks
    broken,     \* accounts of each machine whose credential file cannot be read
    cmd,        \* each push and pull under way
    clock, edits,
    issued,     \* history: of every account, when it was added and the credentials it had
    removed,    \* history: the ids of accounts users removed
    deleted,    \* history: the tombstones that were ever in the bundle
    merged      \* history: the commits of the branch each State has taken in

counters == <<clock, edits>>
history == <<issued, removed, deleted, merged>>
vars == <<remote, local, broken, cmd, counters, history>>

NoAccounts == [id \in {} |-> 0]
Only(id, entry) == [i \in {id} |-> entry]
Over(f, g) == [id \in DOMAIN f \cup DOMAIN g |-> IF id \in DOMAIN f THEN f[id] ELSE g[id]]
Creds(accounts) == {accounts[id].cred : id \in DOMAIN accounts}

\* What BundleV2 demands: no credential twice, nothing both there and deleted.
WellFormed(bundle) ==
    /\ bundle.gen > 0
    /\ IsInjective([id \in DOMAIN bundle.accounts |-> bundle.accounts[id].cred])
    /\ DOMAIN bundle.accounts \cap DOMAIN bundle.tombs = {}

\* The pool id a bundle carries; without a bundle it is the canonical one.
PoolOf(bundle) == IF bundle = NoBundle THEN "canonical" ELSE bundle.pool

\* What two bundles must share to be the same; the generation does not count.
Semantic(pool, accounts, tombs) == [pool |-> pool, accounts |-> accounts, tombs |-> tombs]
SemanticOf(bundle) == Semantic(bundle.pool, bundle.accounts, bundle.tombs)
Mark(bundle) == [gen |-> bundle.gen, hash |-> SemanticOf(bundle)]

GenOf(mark) == IF mark = NoMark THEN 0 ELSE mark.gen

\* The watermark of the canonical id, or of the legacy id the bundle carries.
MarkFor(marks, bundle) ==
    IF marks["canonical"] # NoMark THEN marks["canonical"]
    ELSE marks[PoolOf(bundle)]

Rekey(marks, pool, mark) ==
    [k \in Pool |-> CASE k = "canonical" -> mark
                      [] k = "legacy" /\ pool = "legacy" -> NoMark
                      [] OTHER -> marks[k]]

Unsynced == [k \in Pool |-> NoMark]
Machines(accounts, marks) ==
    {[accounts |-> accounts, current |-> id, marks |-> marks] : id \in DOMAIN accounts \cup {NoId}}

\* The pool starts empty, or with one account in a bundle of the legacy id that
\* some machines have seen.
Init ==
    /\ \/ /\ remote = [head |-> 0, bundle |-> NoBundle]
          /\ local \in [Machine -> Machines(NoAccounts, Unsynced)]
          /\ merged = [m \in Machine |-> {}] /\ issued = NoAccounts
       \/ \E id \in Id, c \in Cred :
            LET old == [pool |-> "legacy", gen |-> 1, accounts |-> Only(id, [cred |-> c, added |-> 1]),
                        tombs |-> NoAccounts]
                seen == [Unsynced EXCEPT !["legacy"] = Mark(old)]
            IN  /\ remote = [head |-> 1, bundle |-> old]
                /\ local \in [Machine -> Machines(NoAccounts, Unsynced) \cup Machines(old.accounts, seen)]
                /\ merged = [m \in Machine |-> IF local[m].marks = seen THEN {1} ELSE {}]
                /\ issued = Only(id, [added |-> 1, creds |-> {c}])
    /\ broken = [m \in Machine |-> {}]
    /\ cmd = [p \in Proc |-> NoCmd]
    /\ clock = 1 /\ edits = 0
    /\ removed = {} /\ deleted = {}

-----------------------------------------------------------------------------
(* Commits of State.  A command that read an older State can only fail.    *)

Superseded(m, except) ==
    [q \in Proc |-> IF cmd[q] # NoCmd /\ Host[q] = m /\ q # except
                    THEN [cmd[q] EXCEPT !.fresh = FALSE] ELSE cmd[q]]

Edit(m, state) ==
    /\ edits < MaxEdits /\ edits' = edits + 1
    /\ local' = [local EXCEPT ![m] = state]
    /\ cmd' = Superseded(m, NoCmd)
    /\ UNCHANGED <<remote, clock, deleted, merged>>

Add(m, id, c, ahead) ==
    /\ id \notin DOMAIN issued /\ c \notin Creds(local[m].accounts) /\ ahead \in 0..Skew
    /\ Edit(m, [local[m] EXCEPT !.accounts = Over(@, Only(id, [cred |-> c, added |-> clock + ahead]))])
    /\ issued' = Over(issued, Only(id, [added |-> clock + ahead, creds |-> {c}]))
    /\ UNCHANGED <<broken, removed>>

\* A new login of the same account: the record keeps the time it was added.
ImportAgain(m, id, c) ==
    /\ id \in DOMAIN local[m].accounts
    /\ c \notin Creds(local[m].accounts)
    /\ Edit(m, [local[m] EXCEPT !.accounts[id].cred = c])
    /\ broken' = [broken EXCEPT ![m] = @ \ {id}]
    /\ issued' = [issued EXCEPT ![id].creds = @ \cup {c}]
    /\ UNCHANGED removed

Drop(state, ids) ==
    [state EXCEPT !.accounts = Restrict(@, DOMAIN @ \ ids),
                  !.current = IF @ \in ids THEN NoId ELSE @]

Remove(m, id) ==
    /\ id \in DOMAIN local[m].accounts /\ id \notin broken[m]
    /\ Edit(m, Drop(local[m], {id}))
    /\ removed' = removed \cup {id}
    /\ UNCHANGED <<broken, issued>>

Use(m, id) ==
    /\ id \in DOMAIN local[m].accounts \ {local[m].current} /\ id \notin broken[m]
    /\ Edit(m, [local[m] EXCEPT !.current = id])
    /\ UNCHANGED <<broken, issued, removed>>

\* A credential file is lost; State does not know.
Break(m, id) ==
    /\ edits < MaxEdits /\ edits' = edits + 1
    /\ id \in DOMAIN local[m].accounts \ broken[m]
    /\ broken' = [broken EXCEPT ![m] = @ \cup {id}]
    /\ UNCHANGED <<remote, local, cmd, clock, history>>

Tick ==
    /\ clock < MaxClock /\ clock' = clock + 1
    /\ UNCHANGED <<remote, local, broken, cmd, edits, history>>

End(p) == cmd' = [cmd EXCEPT ![p] = NoCmd]

\* A command opens a session: the State it works on and its revision.
Begins(p, step) ==
    /\ cmd[p] = NoCmd
    /\ cmd' = [cmd EXCEPT ![p] = [step |-> step, fresh |-> TRUE, state |-> local[Host[p]],
                                  exported |-> {}, base |-> 0, bundle |-> NoBundle,
                                  pool |-> "canonical"]]
    /\ UNCHANGED <<remote, local, broken, counters, history>>

At(p, step) == cmd[p] # NoCmd /\ cmd[p].step = step

\* Commits are exact: they conflict when State has moved since it was read.
Commit(p, state, next) ==
    /\ cmd[p].fresh
    /\ local' = [local EXCEPT ![Host[p]] = state]
    /\ cmd' = [Superseded(Host[p], p) EXCEPT ![p] = next]

Conflict(p) == ~cmd[p].fresh /\ End(p) /\ UNCHANGED <<local, broken, merged>>

-----------------------------------------------------------------------------
(* Push.                                                                   *)

PushBegins(p) == local[Host[p]].accounts # NoAccounts /\ Begins(p, "export")

\* The accounts whose files hold what State, as it was read, says of them.
Exportable(m, mine) ==
    {id \in DOMAIN mine \ broken[m] :
        id \in DOMAIN local[m].accounts /\ local[m].accounts[id].cred = mine[id].cred}

\* A command that has none, or one credential twice, has nothing to push.
Export(p) ==
    LET mine == cmd[p].state.accounts
        exported == Exportable(Host[p], mine)
    IN  /\ At(p, "export")
        /\ IF exported = {} \/ ~IsInjective([id \in exported |-> mine[id].cred]) THEN End(p)
           ELSE cmd' = [cmd EXCEPT ![p].step = "push", ![p].exported = exported]
        /\ UNCHANGED <<remote, local, broken, counters, history>>

\* Of those that cannot be exported, the copies the bundle has.
Retained(c, bundle) ==
    IF bundle = NoBundle THEN NoAccounts
    ELSE Restrict(bundle.accounts,
                  {id \in DOMAIN bundle.accounts \cap (DOMAIN c.state.accounts \ c.exported) :
                      bundle.accounts[id].cred \notin Creds(Restrict(c.state.accounts, c.exported))})

\* Seeded bug: a credential that cannot be read is not kept in the pool either.
ExportsOnly(c, bundle) == Restrict(c.state.accounts, c.exported)

Exports(c, bundle) == Over(Restrict(c.state.accounts, c.exported), Retained(c, bundle))

\* Seeded bug: deletions are told once and not passed on.
CarriedOnce(bundle, exports) == NoAccounts

\* Deletions are passed on until they are old, or their account is back.
Carried(bundle, exports) ==
    IF bundle = NoBundle THEN NoAccounts
    ELSE Restrict(bundle.tombs, {id \in DOMAIN bundle.tombs \ DOMAIN exports :
                                    clock - bundle.tombs[id].at <= Ttl})

\* What the bundle has and State, as it was read, has not, was deleted here.
Deletions(c, bundle, carried) ==
    IF bundle = NoBundle THEN NoAccounts
    ELSE [id \in DOMAIN bundle.accounts \ (DOMAIN c.state.accounts \cup DOMAIN carried) |->
             [cred |-> bundle.accounts[id].cred, at |-> clock]]

\* Nothing would change; a bundle of the legacy id is always written anew.
Unchanged(c, bundle) ==
    LET exports == Exports(c, bundle)
        mark == MarkFor(c.state.marks, bundle)
    IN  /\ bundle # NoBundle
        /\ SemanticOf(bundle) = Semantic("canonical", exports, Carried(bundle, exports))
        /\ GenOf(mark) <= bundle.gen

\* Seeded bug: a machine that never synchronized has nothing to be behind of.
BehindMark(marks, bundle) ==
    LET mark == MarkFor(marks, bundle)
    IN  bundle # NoBundle /\ mark # NoMark /\ mark.gen < bundle.gen

\* The machine has not seen the bundle it is about to replace.
Behind(marks, bundle) ==
    LET mark == MarkFor(marks, bundle)
    IN  /\ bundle # NoBundle
        /\ \/ GenOf(mark) < bundle.gen
           \/ GenOf(mark) = bundle.gen /\ mark.hash # SemanticOf(bundle)

\* Seeded bug: the generation stays where this machine saw it.
NextGenSame(marks, bundle) ==
    LET mine == GenOf(MarkFor(marks, bundle)) IN IF mine = 0 THEN 1 ELSE mine

NextGen(marks, bundle) ==
    LET mine == GenOf(MarkFor(marks, bundle))
        theirs == IF bundle = NoBundle THEN 0 ELSE bundle.gen
    IN  1 + IF mine > theirs THEN mine ELSE theirs

NewBundle(c, bundle) ==
    LET exports == Exports(c, bundle)
        carried == Carried(bundle, exports)
    IN  [pool |-> "canonical", gen |-> NextGen(c.state.marks, bundle), accounts |-> exports,
         tombs |-> Over(carried, Deletions(c, bundle, carried))]

\* A clone has the branch as it is now.
Clone(c) == [c EXCEPT !.base = remote.head, !.pool = PoolOf(remote.bundle)]

\* Clone and decide: what is pushed depends on the clone and on what the
\* command read before.
Prepare(p) ==
    LET c == cmd[p]
        bundle == remote.bundle
        new == NewBundle(c, bundle)
        refused == Behind(c.state.marks, bundle) \/ ~WellFormed(new)
    IN  /\ At(p, "push")
        /\ \/ /\ Unchanged(c, bundle) /\ c.state.marks["canonical"] # Mark(bundle)
              /\ cmd' = [cmd EXCEPT ![p] = [Clone(c) EXCEPT !.step = "mark", !.bundle = bundle]]
           \/ /\ Unchanged(c, bundle) /\ c.state.marks["canonical"] = Mark(bundle)
              /\ End(p)
           \/ /\ ~Unchanged(c, bundle) /\ refused
              /\ End(p)
           \/ /\ ~Unchanged(c, bundle) /\ ~refused /\ new.gen <= MaxGen
              /\ cmd' = [cmd EXCEPT ![p] = [Clone(c) EXCEPT !.step = "send", !.bundle = new]]
        /\ UNCHANGED <<remote, local, broken, counters, history>>

Replace(bundle) ==
    /\ remote' = [head |-> remote.head + 1, bundle |-> bundle]
    /\ deleted' = deleted \cup {[id |-> id, cred |-> bundle.tombs[id].cred, at |-> bundle.tombs[id].at] :
                                   id \in DOMAIN bundle.tombs}

\* `git push origin HEAD' is refused when the branch has moved on.
Send(p) ==
    /\ At(p, "send")
    /\ \/ /\ remote.head = cmd[p].base
          /\ Replace(cmd[p].bundle)
          /\ cmd' = [cmd EXCEPT ![p].step = "mark", ![p].base = @ + 1]
       \/ /\ remote.head # cmd[p].base
          /\ UNCHANGED <<remote, deleted>> /\ End(p)
    /\ UNCHANGED <<local, broken, counters, issued, removed, merged>>

\* The push takes effect but its answer is lost: the command ends with an error.
AnswerLost(p) ==
    /\ At(p, "send")
    /\ remote.head = cmd[p].base /\ Replace(cmd[p].bundle)
    /\ End(p)
    /\ UNCHANGED <<local, broken, counters, issued, removed, merged>>

\* The watermark is one exact commit.
Remember(p) ==
    LET c == cmd[p]
    IN  /\ At(p, "mark")
        /\ \/ /\ Commit(p, [c.state EXCEPT !.marks = Rekey(@, c.pool, Mark(c.bundle))], NoCmd)
              /\ merged' = [merged EXCEPT ![Host[p]] = @ \cup {c.base}]
              /\ UNCHANGED broken
           \/ Conflict(p)
        /\ UNCHANGED <<remote, counters, issued, removed, deleted>>

-----------------------------------------------------------------------------
(* Pull.                                                                   *)

PullBegins(p) == Begins(p, "pull")

\* A bundle is taken when it is newer than what the machine has seen.
Newer(marks, bundle) ==
    LET mark == MarkFor(marks, bundle)
    IN  bundle # NoBundle /\ GenOf(mark) < bundle.gen

\* The credential of the account in use cannot be replaced under its user.
ReplacesCurrent(state, bundle) ==
    /\ state.current \in DOMAIN bundle.accounts
    /\ bundle.accounts[state.current].cred # state.accounts[state.current].cred

\* A tombstone removes the account it names, with the credential it names,
\* unless that account was added after the deletion.
Applies(state, bundle, id) ==
    /\ id \in DOMAIN bundle.tombs \ DOMAIN bundle.accounts
    /\ id \in DOMAIN state.accounts
    /\ state.accounts[id].added <= bundle.tombs[id].at
    /\ state.accounts[id].cred = bundle.tombs[id].cred

DeletesCurrent(state, bundle) == state.current # NoId /\ Applies(state, bundle, state.current)

Fetch(p) ==
    LET c == cmd[p]
        bundle == remote.bundle
    IN  /\ At(p, "pull")
        /\ \/ /\ Newer(c.state.marks, bundle) /\ ~ReplacesCurrent(c.state, bundle)
              /\ cmd' = [cmd EXCEPT ![p] = [Clone(c) EXCEPT
                            !.bundle = bundle,
                            !.step = IF DeletesCurrent(c.state, bundle) THEN "release" ELSE "merge"]]
           \/ /\ Newer(c.state.marks, bundle) => ReplacesCurrent(c.state, bundle)
              /\ End(p)
        /\ UNCHANGED <<remote, local, broken, counters, history>>

\* The account in use was deleted from the pool: the home is released and the
\* account removed, in a transaction of its own.
Release(p) ==
    LET c == cmd[p]
        id == c.state.current
        left == Drop(c.state, {id})
    IN  /\ At(p, "release")
        /\ \/ /\ Commit(p, left, [c EXCEPT !.step = "merge", !.state = left])
              /\ broken' = [broken EXCEPT ![Host[p]] = @ \ {id}]
              /\ UNCHANGED merged
           \/ Conflict(p)
        /\ UNCHANGED <<remote, counters, issued, removed, deleted>>

\* Local accounts that no tombstone removes.
Survivors(state, bundle) ==
    Restrict(state.accounts,
             {id \in DOMAIN state.accounts : id = state.current \/ ~Applies(state, bundle, id)})

\* Local accounts with the credential of a pool account of another id.
Duplicates(accounts, bundle) ==
    {id \in DOMAIN accounts : \E i \in DOMAIN bundle.accounts \ {id} :
        accounts[id].cred = bundle.accounts[i].cred}

\* State after a pull: accounts of the pool replace local ones.
Merged(c) ==
    LET accounts == Over(c.bundle.accounts, Survivors(c.state, c.bundle))
    IN  [accounts |-> Restrict(accounts, DOMAIN accounts \ Duplicates(accounts, c.bundle)),
         current |-> c.state.current,
         marks |-> Rekey(c.state.marks, c.pool, Mark(c.bundle))]

\* Every account of the pool gets its files, every removed one loses them.
Unreadable(m, c) == (broken[m] \cap DOMAIN Merged(c).accounts) \ DOMAIN c.bundle.accounts

\* One exact commit, which conflicts when State has moved; the credential of
\* the account in use is not removed as a duplicate.
Merge(p) ==
    LET c == cmd[p]
        m == Host[p]
        usable == c.state.current \in DOMAIN Merged(c).accounts \cup {NoId}
    IN  /\ At(p, "merge")
        /\ \/ /\ usable /\ Commit(p, Merged(c), NoCmd)
              /\ broken' = [broken EXCEPT ![m] = Unreadable(m, c)]
              /\ merged' = [merged EXCEPT ![m] = @ \cup {c.base}]
           \/ usable /\ Conflict(p)
           \/ ~usable /\ End(p) /\ UNCHANGED <<local, broken, merged>>
        /\ UNCHANGED <<remote, counters, issued, removed, deleted>>

\* SIGKILL, or a failing call: what is under way is rolled back.
Kill(p) ==
    /\ cmd[p] # NoCmd /\ End(p)
    /\ UNCHANGED <<remote, local, broken, counters, history>>

Next ==
    \/ \E m \in Machine, id \in Id :
         \/ \E c \in Cred : (\E ahead \in 0..Skew : Add(m, id, c, ahead)) \/ ImportAgain(m, id, c)
         \/ Remove(m, id) \/ Use(m, id) \/ Break(m, id)
    \/ Tick
    \/ \E p \in Proc :
         \/ PushBegins(p) \/ Export(p) \/ Prepare(p) \/ Send(p) \/ AnswerLost(p) \/ Remember(p)
         \/ PullBegins(p) \/ Fetch(p) \/ Release(p) \/ Merge(p) \/ Kill(p)

Spec == Init /\ [][Next]_vars

-----------------------------------------------------------------------------

\* Type invariant.
SyncTypeOK ==
    /\ remote \in [head : Nat, bundle : Bundles \cup {NoBundle}]
    /\ local \in [Machine -> States]
    /\ broken \in [Machine -> SUBSET Id]
    /\ cmd \in [Proc -> Commands \cup {NoCmd}]
    /\ clock \in 1..MaxClock /\ edits \in 0..MaxEdits
    /\ issued \in Table(Issue)
    /\ removed \subseteq Id
    /\ deleted \subseteq [id : Id, cred : Cred, at : Times]
    /\ merged \in [Machine -> SUBSET Nat]

\* A push replaces only a bundle whose accounts and deletions the State of its
\* machine has taken in: nothing another machine published is overwritten
\* unseen, whatever races, fails or is killed (repo_sync.rs push, the check
\* before record_local_deletions).
SeenBeforeReplaced ==
    [][\A p \in Proc : remote' # remote /\ At(p, "send") /\ cmd'[p] # cmd[p] /\ remote.bundle # NoBundle
          => remote.head \in merged[Host[p]]]_vars

\* A pull removes an account only if the pool deleted that very credential, not
\* before the account was added, or holds it under another id; and a push drops
\* an account of the pool only if a user removed it somewhere.
AccountsKept ==
    [][/\ edits' = edits =>
             \A m \in Machine : \A id \in DOMAIN local[m].accounts \ DOMAIN local'[m].accounts :
                LET gone == local[m].accounts[id]
                IN  \/ gone.cred \in Creds(local'[m].accounts)
                    \/ \E d \in deleted : d.id = id /\ d.cred = gone.cred /\ gone.added <= d.at
       /\ remote.bundle # NoBundle /\ remote'.bundle # NoBundle =>
             \A id \in DOMAIN remote.bundle.accounts \ DOMAIN remote'.bundle.accounts :
                id \in removed \/ remote.bundle.accounts[id].cred \in Creds(remote'.bundle.accounts)]_vars

\* What the pool was told to delete stays out of it while the record is live,
\* unless the account was added after the deletion, by its clock.  An account
\* that ever got another credential is excepted: its record only speaks of one
\* of them, and goes when the account comes back with the other.
DeletionHolds ==
    \A d \in deleted :
        remote.bundle # NoBundle /\ issued[d.id].creds = {d.cred} /\ d.id \in DOMAIN remote.bundle.accounts =>
            \/ remote.bundle.accounts[d.id].added > d.at
            \/ clock - d.at > Ttl

\* A push that is refused because its machine is behind says to pull first, and
\* that pull is never refused as a rollback or a conflict of generations.
RefusedPushCanPull ==
    \A m \in Machine : Behind(local[m].marks, remote.bundle) => Newer(local[m].marks, remote.bundle)
=============================================================================
