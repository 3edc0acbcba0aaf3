# A TLA+ project for sagy

`sagy` manages several Antigravity (`agy`) logins on one machine: it keeps a
pool of accounts or profiles, decides which of them may be used, publishes the
chosen one where `agy` looks for it, starts `agy`, watches how it ends, and moves
on to another login when the first one is rate limited. Several `sagy` commands
run at once, over plain files, guarded by advisory file locks. None of its
interesting behaviour is in a data structure; it is in the order of system
calls, in what is read before a lock and used after it, in what a killed process
leaves behind, and in a wall clock that is not monotonic. Those are the things
modelled here.

Paths below are relative to the repository; the implementation is in
`src/src/`.

## 1. The system

| part | state it keeps | operations | hard because |
|---|---|---|---|
| Atomic document store (`core/atomic_store.rs`) | `state.json`, a prepared journal, staged files, a lock file derived from the target | lock, recover, commit, reconcile | a kill or power failure between any two system calls; a rename or fsync whose outcome is unknown |
| State store and sessions (`core/state_store.rs`) | one session per command: the revision it read | read without a lock, adopt, with_locked_exact, commit | the read is three file reads; everything checked before the lock may be outdated under it |
| Account health (`core/health.rs`, `core/policy.rs`, usage part of `core/state.rs`) | one usage snapshot per account: verdict, cooldown window, quota, probe times | probe decision, reduce an observation, normalize, select | a clock that is set back, observations that arrive late, retry hints of any size |
| Usage probes (`adapters/antigravity/usage.rs`) | none | one HTTP exchange per account | error answers of four credential kinds |
| Launches and switches (`cli/mod.rs`, `adapters/antigravity/launcher.rs`, `account.rs`) | a lock per credential, the home locks, the child | `sagy`, `sagy use` | locks held across a child that runs for hours; fallback; a commit against a revision read before the child ran |
| Active home (`active_home.rs`) | two home slots, a journal, tombstones | publish, restore, finalize, recover | two slots that cannot be replaced in one step |
| Credential store (`account/credential_store.rs`) | one credential directory per account, a journal in each | stage, publish, roll back, finalize, recover | the outcome of an interrupted transaction is whatever State says |
| Account import, removal, migration (`account.rs`) | none of their own | compose State, credential and home transactions | three journals, one commit point |
| Profile pool (`profile/{mod,store,remove,cache}.rs`) | profile directories, a registry, leases, quota snapshots, removal manifests | login, run, use, auto, rm, list, limits | leases taken without the registry lock, measurements that outlive the profile they measured |
| Profile synchronization (`profile/repo_sync.rs`) | staged directories and an import manifest | push, pull, recover | half an import; two machines that publish one label |
| Live quota bridge and child observer (`profile/{statusline,observer,quota,runtime}.rs`) | an event file, a probe in flight, a pending flag | poll, probe, finish, watch the log of the child | completed turns that arrive during a probe; an end that waits for a probe |
| Portable pool synchronization (`adapters/antigravity/repo_*.rs`) | an encrypted bundle in a git repository, a watermark | push, pull | every push replaces the bundle whole; machines that are behind; lost answers |
| Launch diagnostics (`launch_observation.rs`) | the unread tail of the child's standard error | feed, finish | a document cut anywhere, inside text that is none |
| Routing and native session (`cli/{router,args}.rs`, `native_session.rs`, `launcher.rs`) | the output guard | route, inject arguments, hold back and show output | three readers of the same words; a marker cut by chunks and streams |
| Self-update, paths, UI, help | little | parsing, text, a download | not concurrent |

How they interact: every command opens a State session, runs the recovery of
interrupted account transactions under the State lock, does its work and commits
exactly once against the revision it read. The lock order is State, then the
credential lock of an account, then the home locks. A launch keeps the last two
for as long as its child runs, without State. The profile pool has an order of
its own (registry lock, then the lease of a profile) and shares nothing with the
account pool but `agy` itself.

What makes each part correct:

* store: at every moment, and after every power failure, the directory says which
  side of a commit won; an answer to the caller is never a lie;
* sessions: no update is lost, no acknowledged commit is undone;
* health: a rejected or cooling login is not used; a window ends; what is selected
  was probed recently; State can store every verdict;
* launches: a child runs as the account that was selected, for its whole life;
  commands do not deadlock; cooldowns and evidence are not lost;
* home, credentials, import: after a stop the next command completes or undoes
  all three stores together;
* profiles: one holder of a home directory at a time; a removal or import that
  was stopped is finished; quotas of an earlier login are not shown for the next
  (but for a reset that cannot be written, section 6);
  a session returns, and what it used is measured;
* pools in git: nobody overwrites what he has not seen; no account is lost, no
  deleted one comes back; a published login is not replaced by a push;
* a started `agy`: it gets exactly the words meant for it; its output is shown
  once, whole and in order, or held back; what is concluded from it depends on the
  bytes and not on how they arrived.

## 2. Modules

    DurableDirectory <- AtomicStore <- AtomicStoreRefinement (implements CasRegister)
                              ^             ^-- MCAtomicStore
                              |             ^-- AtomicStoreProofs
                              |-- StateStore <- MCStateStore, AtomicStoreProofs
    AccountHealth <- AccountUsage <- MCAccountUsage, AccountUsageProofs
    LaunchSession <- MCLaunchSession, LaunchSessionProofs
    ProfilePool <- MCProfilePool, ProfilePoolProofs
    CredentialStore <- MCCredentialStore, CredentialStoreProofs
    ActiveHome <- MCActiveHome, ActiveHomeProofs
    PortableSync <- MCPortableSync, PortableSyncProofs
    QuotaSnapshot <- ProfileQuota <- MCProfileQuota, ProfileQuotaProofs
    LaunchArguments, LaunchDiagnostics <- ChildOutput <- MCChildOutput, LaunchSessionProofs

**DurableDirectory**: one directory under power failures. `disk` is what
processes see; `survivors` is the set of contents a power failure may leave.
A change adds to the survivors, an fsync of the directory leaves only `disk`, a
power failure picks any survivor. Operations reach the medium in the order in which
they were made, as with a metadata journal: every survivor is a content the directory
once had, so an unsynced rename may be undone, but never alone among later operations
that survive.

**AtomicStore**: the journaled commit of `atomic_store.rs`. One action per
system call that changes the directory and per directory fsync: create and fill
the stage, stage and publish the journal, rename over the target, remove stage,
remove journal. `pc` is the place in the code and `ctx` is the call it
belongs to, because the same recovery and cleanup code serves `recover`,
`commit`, and the two passes of `reconcile_uncertain` (whose answers differ).
Each of those calls may fail (`SpendFault`); a failed rename or fsync has an
unknown outcome. `Kill` ends one process anywhere, `PowerFailure` all of them.
`ForeignWrite` is a writer that ignores the lock, such as an editor.

**CasRegister**: what the store promises: a compare-and-swap register that is
durable. A call either takes effect atomically between its start and its answer,
when the register has the expected value, or not at all; "committed" is durable,
"not applied" and "conflict" are final, "unresolved" is either.

**StateStore** extends AtomicStore with sessions: the three file reads of
`StateStore::read`, preflight and adoption of a populated directory,
removal of orphan stages, `check_exact`, any number of commits. A document is a
generation and a body.

**AccountHealth**: the pure part: `ProbeDecision`, `Normalized`,
`NormalCooldown`, `Reduced`, `Eligible`, `Storable`, as operators over a usage
record. Times are integers. **AccountUsage** puts one account through
refreshes, launches, late evidence, clock steps and clock set-backs.

**LaunchSession**: `sagy` and `sagy use` as processes over State (one commit is
one step, as AtomicStore and CasRegister justify), the active home and the
three kinds of locks. An action per blocking lock operation, per commit, per
change of the home and per decision. `exact[p]` stands for "the revision p
holds is the committed one".

**ProfilePool**: `login`, `run`, `auto`, `rm`, `list` and `refresh` as processes
over the registry (`registry`), the removal manifest, the directories and their
leases. A directory is an identity (`Dir`) and `place` says which name leads to
it, so that a directory that is moved to the archive and one that is created
anew under the old name are told apart, as an open lock file does. `pc` is the
place in the code; every use of the registry goes through `Lock` and `recover`
(`lock_registry`), with `task` saying what the lock was taken for. `finish` is
three actions (`ArchiveDirectory`, `Unregister`, `Forget...`) with a possible
failure or kill between any two. `measure` is three: open the lock file, lock it,
probe. That `write_state` refuses a selection or a cooldown of an unregistered
profile is no action, because it cannot happen (`SelectedStaysRegistered`). A child of `auto` reports its first 429 (`ReportLimit`), the cooldown is
written, another profile may be measured, reserved and switched to. Whether a
quota is sufficient is a choice at each measurement.

**CredentialStore**: the transaction of one account's credential. The two live
slots (`live`), the files a transaction leaves (`evidence`, `journal`,
`update`), the reference and generation of State (`state`), and commands that
recover, then stage, publish, commit and clean up. A command is a `session`
and, while it holds the State lock, `owner`, `step` and `job` say where it is;
one action is one change of one file. `Lock` refuses a session whose revision is
not the one on disk, so the unlocked read that opens a session is folded into the
first lock: a read that the lock would refuse leads nowhere. `Decision` is
`recover_pending_inner`, `Rebuilds` the reconstruction of the two layouts from
what is left, `Known` the layouts a rollback accepts. `Permit` and `JournalProves` are what
State demands of a commit that changes a reference: the revision and reference
it was prepared for, and a journal that proves both layouts. A credential has a slot, a
fingerprint and bytes: two documents may have one fingerprint, as after a refresh
of the access token, and State only records the fingerprint. `Import` and
`Migrate` differ in what they accept: a migration carries only what the account
was found with. A commit of State is one step and may fail, without effect or in
doubt; `OrdinaryCommit` is a commit that touches no credential. `Kill` stops the
owner between two steps or in the middle of writing a file (`Torn`).

Three variables are history only. `original` is the v1 layout. `doubt` says that a
commit took effect, reported that it might not have, and was answered by a
rollback of the credential (the commit itself is AtomicStore's, which makes the
doubt rare). `overlap` says that a transaction began over the journal of a command
killed between its recovery and its own lock: recovery and mutation are two
locked sections. The safety properties except what follows either; section 6
says what happens then.

**ActiveHome**: the transaction on the two home slots (`home`), composed with
State (`state`) and with the credential journal of a removal, which is kept
coarse (`cjournal`: `MoveCredential`, `Purge`, `Undelete` are one step each).
`Plan` is what the journal says, `Effective` the mode after the takeover rule,
`Explained` the check that a live slot is the baseline or the target. Publishing is
`MoveAside` and `Place` per slot, restoring `Displaced`, `KeepLive` and `PutBack`
(the file in the way is kept under a recovery name), then `Unstage`, `Verify`,
`RemoveJournal`, `Finalize`, `CleanTombstone`. `Provable`, `JournalProves`,
`ProfileProven` and `ReferenceProven` are the proofs of the coordinated commit;
`Decision` and `CredentialDecision` are what the recovery of another command
concludes from the journal and from what State says (`Authority`).
`ForeignWrite` is agy or the user, at any moment.
Its history variables: `waived` (what agy replaced itself, or wrote while a command held the locks),
`doubt` and `overlap` as above, `bumped` (an ordinary commit went past a journal).

**PortableSync**: machines, each with a State (`local`: accounts, current account,
watermarks, generation) and one command at a time, over one `remote`. A push
is `PushBegins`, `Export`, `Prepare` (the clone with everything decided on it),
`Send` or `AnswerLost`, `Remember`; a pull is `PullBegins`, `Fetch`, `Release` (the
switch away from a current account that goes), `Merge`. `Behind`, `NextGen`, `Carried`,
`Deletions`, `Applies`, `Survivors` and `Duplicates` are the functions of
`repo_sync.rs`. Users add, import again, remove, use and lose accounts
(`Add` to `Break`) between any two steps. A tombstone has a time, and the clocks of
two machines differ by up to `Skew`. Two variables are history: `merged`, the bundles a
machine has taken in, and `issued`, of every account that ever was, when it was added and
which credentials it had.

**QuotaSnapshot** is `cache::merge`, as operators on one entry of `quota.json`.
**ProfileQuota** puts one label through `login`, `run` with its quota bridge,
`refresh`, `rm`, `push` and `pull`. `Helper` is the process agy starts on every
change of its status line, `Polls` the parent that reads the event file, `FlightProbes` and
`FlightEnds` the worker thread, `Interrupt` and `StopsAgy` the wait of
`runtime.rs`, `Closes` and `Joins` the end of the bridge. Any write of `quota.json` may
fail: a merge is then lost (`PollFails`, `Closes`, `ExitMerges`, `Records`), a recovered
removal stops (`RecoveryFails`), and a `login` goes on without its reset (`LoginResets`);
`unreset` is history, and remembers when that was. An import is `PlansImport` (the manifest),
`Stages`, `CommitsImport`, `ForgetsImport`, with `RecoversImport` for who comes
next. `sample` numbers identities: a quota belongs to the login it was measured with.

**LaunchArguments** is functions only: `Route` and `ParsedLaunch` (router and clap),
`FinalArgs` (what is injected and joined), `HasNoninteractivePrompt` (who gets a
native session). **LaunchDiagnostics** is the incremental parser of
`launch_observation.rs` over symbols: `Extent`, `After`, `Evidence`, `Scan`,
`Feed`, `Finish`, `Classify`, `Merge`. **ChildOutput** starts from a command line and
ends with agy: a native session whose two streams pass the output guard, or a
managed child whose standard error is mirrored and judged. Readers take chunks of any
size from pipes of bounded size; a read, a write, a wait may fail.

Each module's header names its abstractions. Definitions marked "Seeded bug" are
the mutants listed in `PROJECT.json`: each is what one definition would be
with a plausible mistake, and each property is known to fail with its own.
They are not part of any specification. Properties that are defined and in no run
are proved for every instance (section 4).

## 3. Runs

| run | question | bounds |
|---|---|---|
| `store` | Can every directory a power failure leaves be decided? Are the answers true? Refinement of CasRegister | 2 processes, 2 documents, 2 transactions, 1 crash, 2 faults |
| `store_live` | Does every call return? | 1 process, 3 faults, 1 foreign write |
| `sessions` | Lost updates, acknowledged commits, adoption | 2 sessions, generations 0..2, 2 bodies, 1 crash, 1 fault |
| `usage` | Windows, rejections, freshness of one account | 6 clock readings, TTL 3, backoff 1, retry 1..3, hints none, 1, 9 |
| `launches` | The child's account, cooldowns | 2 launches and a switch, 2 accounts, 3 attempts |
| `launches_live` | Does every command return? | 1 launch, 1 switch, 2 commands each, 3 attempts |
| `pool` | HOMEs, removals, cooldowns of the profile pool | 2 processes, 3 commands, 2 labels, 3 directories, 2 archives, 1 kill |
| `credentials` | Do State and the credential files agree after any stop? Is a credential ever lost? | 2 commands at a time, 2 transaction ids, 3 credentials, generations 0..3, 2 kills or failed commits |
| `home` | Do home, State and credentials agree after any stop? Is what agy wrote ever destroyed? | 2 commands at a time, 2 ids, 2 accounts (a token, a document) and a foreign token, generations 1..3, 2 kills, failures or writes of agy |
| `sync` | Is a bundle overwritten unseen, an account lost, a deletion undone? Can a refused machine go on? | 2 machines, 2 ids, 2 credentials, 2 edits by users, 4 bundle generations, clock 0..2, TTL 0, skew 1; kills and lost answers unbounded |
| `quota` | Is a stale quota shown? Is an import half there? Is every turn measured, does a session return? | 2 processes, 3 commands, 2 turns, the own directory and one imported; kills and failing writes unbounded |
| `output` | Which words reach agy, what of its output is shown, what is concluded from it? | command lines of 4 words, texts of 5 symbols, pipes of 2, chunks of 1 or 2, guard buffers of 3, 3 and 1, 1 failing call |

Why the bounds are enough to be interesting. Two processes are what the lock
distinguishes: holder and other. Two transactions let one be interrupted and the
next meet its remains. Two faults are a failed rename followed by a failed
recovery; the third, in `store_live`, makes the retry of the reconciliation
fail too, which is as deep as the code goes. One crash is enough because
recovery after a second crash starts from a directory the first may also leave.
In `usage` the clock readings span a whole TTL and the longest window, and the
hint 9 is beyond the clamp. Three attempts are the constant of `run_launch`. In
`pool`, three commands let a removal, a recovery by another command and a
new login follow each other while a session or a measurement lasts; the third
directory is the one created anew. The run starts from a pool without a last
selection and cooldowns; the theorems start from any. In `credentials` two
failures are a stopped transaction and a stopped recovery of it, or a failed
commit whose rollback is stopped; generations 1 to 3 hold a migration, a second
transaction and an ordinary commit; two ids are reused after cleanup, so any
number of transactions follow each other; a token, a document and the same
document in other bytes are the cases `merge_oauth_import` and the fingerprint
tell apart. Commands are not counted: a closed session may be opened again.

In `home` the two accounts occupy different slots, so that a switch replaces one
file and removes another; the budget of 2 covers a stopped transaction and a stopped
recovery, or one of them and a write of agy. In `sync` two edits are an account added on
one machine and removed on the other, or removed and added again; a TTL of 0 makes a
record that has expired reachable; the pool starts empty, or with a bundle under a
legacy id that some machines have seen. Ids, credentials and the two
machines with their commands are interchangeable, so the run is reduced by that symmetry. In
`quota` three commands are a login, a session, and a third that overlaps either; when both
processes are idle the first one begins (they are interchangeable). Two turns are one
that starts a measurement and one that arrives during it. A reset fails only where the
label has a quota that it would have dropped, or a measurement waits to be recorded
(`FailsInVain`); elsewhere it has nothing to drop, and its failure nothing to show. In `output`
the buffers are smaller than the longest text, so that each limit is met; the texts
of the judged stream are a document with up to three symbols around it (the first of three
is an opening brace, where alone the scan can stop), and six special
ones (two documents, a duplicate key, a stray brace closed later, one too long, a
string that hides one). The words of a command line are one of each kind that a rule
tells apart; the shortcut flags are represented by some of them (`--no-import-known` and
`--no-launch`, which the router treats like the others, do not occur).

*Coverage.* All actions of the specifications are taken by some run. Deadlock is
checked except in `sync`, `quota` and `output`, whose processes may really be done
(`Finished` in LaunchSession, and the bounded end of the other specifications, are
explicit stuttering actions).

*Fairness.* `store_live` and `launches_live` assume weak fairness of
a process's own steps: a running process is scheduled. Nothing obliges a
command to be started, a process to be killed or the clock to move. In
`launches_live` the end of the child counts as such a step: agy is an
interactive program and the user ends it. A process waiting for a file lock is
not promised it by weak fairness of the *lock*; in the bounded run every holder
releases and commands are finite, so weak fairness is enough. `quota` assumes
weak fairness of the parent (it polls every interval, stops an agy that outlived its
grace after SIGINT, closes the bridge, joins the worker) and of the worker (a probe is bounded by a
timeout). Agy is not obliged to end, to complete turns, or to call its helper.
In `output`, `NeverStuck` says `ENABLED Progress` of every state. Every step of this
specification consumes a word, a symbol, a chunk, a fault or a phase, so that a run
that is never stuck ends: no fairness is needed beyond that of the scheduler.

## 4. Theorems

All proofs are for arbitrary constants that satisfy the module's named
assumptions: any number of processes, documents, crashes, faults, accounts,
clock readings.

*AtomicStoreProofs.* The inductive invariant is `Structure /\ Durable`.
`Structure` is about the locals of processes: only the lock holder is inside a
call, the stage a call has written is its own, the contexts that can occur at
each place. It is inductive alone, also with foreign writers, and gives
`TypeCorrect`, `JournalsKept` and `DefiniteAnswersFinal`. `Durable` relates
*every surviving directory content* to the place of the lock holder: which of
base and target each survivor can have, and which journal. It needs
`MaxForeign = 0`; it cannot be had from `JournalResolvable` because that says
nothing of the moments when no journal is there. It gives `JournalsResolvable`,
`AnswersTrue` and `ReplacedAsExpected`.

The same module proves the refinement, `RegisterImplemented`:
`MaxForeign = 0 /\ Spec => ImplementsRegister`. Under the refinement mapping the value of
the register is the document on disk. What a step does to it follows from one more
invariant, `Effective`: while a commit runs, the document on disk is the one it was
asked for exactly if its own rename took effect (`applied`). Steps are classified
by what they mean for the caller: the call goes on (`Continues`), a recovery ends
(`EndsRecovery`), an answer is given (`Answering`), the document is replaced (`Take`); one
lemma each (`Unseen`, `Left`, `Called`, `Answered`, `Taken`) maps the class to a step of the register
or a stutter. `NoCallAssumption` (the placeholder for "no call" is no process) is the
only new assumption on constants.

The second half of the module is about StateStore. Sessions are clients of the store, so their invariant, `SessionInv`,
begins with the store's own (`Structure /\ Durable`, and no foreign write): a
step of StateStore is a step of AtomicStore, a step of a session that leaves the store alone,
or the adoption of a populated directory, which is shown to keep both. To these it
adds `SessionTypeOK`, the place of a session in relation to the lock (`SessionShape`),
that no surviving journal refers to an orphan stage (`OrphansUnreferred`), and
`AcknowledgedCommitsSurvive` itself, which is inductive over the rest: an
acknowledged generation is in every surviving directory, or follows from its journal.
`InFlightStageSafe` and `GenerationsAdvanceByOne` follow.

*PortableSyncProofs.* `SyncInv` relates what several machines and commands know.
The copy of State a command works on tells of an account in the same words as
everybody else's, because only `issued` accounts exist and each was issued once; no
watermark exceeds the branch; a watermark, a pushed bundle or a fetched one with the generation
of the branch is that very bundle, and its machine has merged it; whoever has seen
the bundle holds its accounts, or knows by its mark that he removed them; every live
deletion is told by a tombstone, until the account comes back; what is pushed follows
the branch only while `base` is its head. `SeenBeforeReplaced` and `AccountsKept` are
consequences of a step between such states; `DeletionHolds` and
`RefusedPushCanPull` are conjuncts with the times (clocks, skew) spelled out.

*ProfileQuotaProofs.* `QuotaInv` is types, for each process which lock or lease its place
implies (`LocksHeld`), who is registered (`Registered`), what a pending import bars
(`Barred`), the registry against the directories (`Registry`), that no measurement is from the
future (`Timed`), that whatever was measured, shown or under way, has the identity its
directory holds, or is of a directory that holds nothing any more, or began too early to
pass the merge, or before a reset of that directory that could not be written (`Truthful`,
`Late`), and that nothing is known of a directory before its import (`Fresh`). `Barred` is what
makes it inductive: before somebody signs in, everything measured in that directory is `Late`.
`unreset` moves only under the lease of the directory (`ResetMoves`), and what is late stays
late (`LateKept`). The lemmas on `cache::merge` (nothing that began before a reset
survives it; a merge never goes back) are about QuotaSnapshot alone. Steps are summarised once (`Apart`,
`Worked`, `Flown`, `Logged`, `Merges`, `Continues`), so that a part of the invariant is argued over six kinds
of step and not over forty actions. That `NextSample` is fresh needs the maximum of a finite set.

*CredentialStoreProofs.* What the files of an account, its journals and State say of each
other depends on how far the command that holds the lock is. `CredInv` therefore has, for
the job of the owner, one conjunct per step (`Working`): in which of its layouts the account
is, what State refers to, and which evidence is there. Around it: what a plan can be
(`Plain`; `PlanKind` shows that every plan is an import or a removal of a token or of a document,
or a transaction of nothing), which step goes with which job (`Control`), that an update is the owner's own
(`Updates`), that a recovery knows every journal (`Listed`), and that there is one journal
at most as long as they never overlap (`Single`). `DriftIsJournalled`, `ReferencedKept` and
`LegacySurvives` are not inductive: `Rest` says the first at every instant and not only when
nobody works, `Safe` says where the credential of the second is (in a slot, or in the backups of a
journal that has the reference as the one before), and `Legacy` says that a v1 layout agrees with
the original less what was quarantined, for the live one and for that each journal starts
from. Two facts are there for the recoveries: a token that was moved away is in its tombstone
as long as its backup is there (`Moved`), and a v1 journal that outlives v1 is that of the
commit that made it v2 (`Upgraded`). `Safe` needs no exception for overlap. Every action has one
lemma; what an action leaves alone is argued once (`FilesKept`, `FilesStaged`, `FilesPublished`,
`OwnerQuiet`). Assumed of the constants is that a reference is not the value for "none", that the
placeholders are neither journals nor jobs, and that there is room for a first commit.

*ActiveHomeProofs.* `HomeInv` is `HomeTypeOK`, what is true of the files whoever works
(`OfFiles`) and what is true of the command that holds the locks (`OfOwner`). `HomeJournals`
says of each home journal what it says of State (before, or sealed and after) and of each slot:
before, between or after its two moves, or put back (`Whole`). `DeletionJournals` and
`Credentials` do the same for the credential journal of a removal; `Settled` says the home is
right while no journal is left, `Single` that there is one journal as long as none
overlap. The owner's part has, for its job, what each step means for State (`OfState`), for the
journals (`OfJournals`) and for the slots (`OfSlots`), besides which steps a job can be at
(`Control`) and what a recovery has still to do (`Listed`). agy may write between any two steps, so
where a slot should equal what a plan or a copy says, the invariant says `Same`: equal, or
agy had its hands on both (`waived`). With `writes = 0` nothing is waived (`Untouching`) and
`HomesAgree` and `JournalsDecided` follow. `ForeignsKept` is not an invariant: every step is shown
to keep what sagy did not write (`Keeps`), for which a takeover alone may replace it
(`Managed`) and a rollback's copy must have its original (`Copies`). The proof corrected the
property. It had excepted only what agy writes *during* a command, which three faults
refute: a kill after a tombstone was made, agy writing the same content back, a recovery that
keeps that as its copy and restores the tombstone, agy logging out before the recovery is
done; the recovery then drops the last copy. So what agy replaces itself is
excepted too. Assumed of the constants: no file of an account is one agy writes by itself,
the placeholders are neither journals nor jobs, and there is room for the first State.

*AccountUsageProofs.* `UsageInv` says of the snapshot which combinations of
verdict, error, window and provider's answer occur (`RejectionsKept` is not
inductive alone: the transport error that keeps a rejection is only known to
stand for one by the last recorded answer). Everything else follows from
lemmas about the reducer, one per branch.

*LaunchSessionProofs.* `Inv` has, besides types, which locks a step implies
(`LocksHeld`, both ways), that the holder of State is exact, that whoever needs
an account has one, that home and State agree whenever nobody has the home
locks and what they are while somebody has (`HomeAndState`), and that a
selected account does not cool down behind an exact session (`PickedUsable`).
Steps of the code are classified by `Moves(p, from, to)`, so that each lock is
argued once. `LocksAreOrdered` says no nonempty set of commands exists of which
each waits for a lock held in the set; it follows from the order of the steps.

*LaunchSessionProofs, ChildOutput.* The second half of the module is about the agy that a
launch starts. `OutputInv` says where a command can be (what process, reader and result each
phase goes with), that what was read is a beginning of what was printed and that a guard
that has not opened has shown nothing: it holds, in the order of arrival, what its
preambles hold of each stream, and no marker is in it. An open guard has shown of each
stream all but a tail shorter than a marker (`WithheldLater`: what is withheld stays so
while more is read). `MarkersWithheld` and `OutputsComplete` follow. `Planned` says that a
plan is the route of what was typed. `AllArgsForwarded` needs what the flattening of joined
words computes, `NativeNoContinueInjected` what the scan for a wish of the user has found up to
each word. Both are recursive functions: the proof takes any function that satisfies the
equation (there is one by `Recursion`, below) and argues by well-founded induction. The library's
induction theorems take an operator as a parameter, which the provers cannot instantiate;
so `Descending` and `Ascending` prove, once, that a *set* of numbers closed under the
step of an interval is the interval, from the least element of its complement (`Least`), and each
induction names its set.

*LaunchSessionProofs, LaunchDiagnostics.* The third part proves that the verdict on a child
depends on its bytes only. A parser sees a part of the text at a time, so everything is said
of a `Window`: a text `t` that occurs in `w` at some place. `ObjectWindow` is an induction over
the objects nested in the text: an object that is complete or impossible in `t` is so in
`w`, and only one that waits for more can become anything. `ClosingWindow` says the same of
the brace that closes a candidate, `LineWindow` of the end of a line; and a document that is read
ends at the brace that closes it (`ObjectCloses`). So a scan that goes on after a brace of `t`
goes on alike in every longer text (`AfterMore`); this is the point at which a stray brace has to
be excepted, because its line may end before it is closed. A second induction, over
the cursor, gives `Resumed`: a scan of `t` that stops and is resumed, with what it kept, on what
comes next finds what one scan of both finds. `Knows(t, p)` says that of a parser `p` that was fed
`t`; it holds of a new parser, `KnowsMore` carries it over a chunk that drops nothing, and
`Observes` is the invariant of a launch that has it for the text read so far. At the end the text
read is the text printed (`ReadToEnd`), and `VerdictIsOfBytes` follows. It reduces
`EvidenceIsTopLevel` to one scan of the whole text, and that to `Sound`, an induction over
its cursor: braces before the cursor enclose nothing behind it that they should
not have (`ClearFrom`), and what is found only becomes graver.

*ProfilePoolProofs.* `PoolInv` is `PoolTypeOK`, `Stored` (no two directories in
one place; a registered profile without a directory is the one the manifest
names; the manifest can be finished) and, for each process, `Local`: what it
knows. The safety properties are not inductive alone: that a session owns its
HOME needs that a lease is held from `LeaseHome` to the end of the command, that
whoever finishes a removal holds the lease of the directory *wherever it is*
(`Finishing`), and which registry steps mean the lock is held (`Locked`). Each
action has a lemma that proves `Local` for the process that moves; `Others` does
it once for all that do not, from two facts: the step leaves their locals,
leases and lock alone (`Bystander`), and what they know of the disk (`Spared`).
The theorems hold for any number of commands and kills.

Some properties are proved and in no run: their proofs cover every instance, and
TLC agreed with them before they were proved. They are the type invariants `TypeOK`,
`UsageTypeOK`, `LaunchTypeOK`, `PoolTypeOK`; `DefiniteAnswersLeaveNoJournal`,
`OnlyExpectedReplaced` and `JournalNeverOverwritten` of the store; `AlwaysStorable`,
`RateLimitEnds` and `RetriedAfterBackoff` of the health of an account; `NoCircularWait` and
`HomeFollowsState` of launches; `SelectedStaysRegistered` and `NoHalfRemoval` of the
profile pool; `SessionTypeOK` and `OrphansUnreferred` of sessions; `SyncTypeOK`,
`QuotaTypeOK`, `CredTypeOK`, `HomeTypeOK` and `OutputTypeOK`.

Model-checked only: `CallsReturn`, `CommandsReturn`, `TurnsMeasured` and
`SessionReturns` (liveness is out of the prover's reach) and `NeverStuck` (`ENABLED` too).
No theorem's module uses a recursive operator:
recursion is written as recursive functions.

## 5. What is not modelled

* Syntax: JSON schemas, versions, quarantine of broken files, path checks,
  permissions, symbolic links, Windows sharing retries. They reject files sagy
  does not write.
* Time-of-day display, scores inside a tier, wording.
* HTTP, git, encryption, terminals and signals are environment: their outcomes
  are choices.
* The self-update (a linear script: download, checksum, rename), paths, help, and the
  parsing of logins and tokens.

In ProfilePool a crash is a kill, not a power failure, and a killed `sagy` takes
its child along (in reality `agy` may live on, without a lease). Which of several
eligible profiles comes first and the clock are left out, and so
is `pull`, the only command that gives a profile a directory with another name
(ProfileQuota has it, for one label). `use N` is a `list` followed by a `run`.

In LaunchSession a crash is not modelled, and the credential and active-home
journals are taken to be empty; CredentialStore is what `Visit` does to one
account, ActiveHome what `Publish` and `CommitFails` do to the home.

In CredentialStore a migration carries one account, a failing system call is a stop of
the command (only the commit of State is answered by a rollback), and a crash is
a kill: what a power failure does to a directory is AtomicStore's subject. In
ActiveHome the credential files of an account are one thing, half-written journals
are not distinguished (CredentialStore has them), and digests are the contents.

In PortableSync the bundle is its plaintext: size limits, the maximal number of
tombstones, spellings of the URL and the lock on the checkout are left out, the
branch is never deleted, and a pull commits or does not.
In ProfileQuota the clock never goes back, and a process is not killed while its agy
signs in. An agy that is updated during a session, which makes later probes fail, is left
out. Of `observer.rs` only the verdict about the child is modelled (ProfilePool):
its terminal handling and its reading of agy's log are not. In ChildOutput the channel
between reader and loop is not a step of its own, `--state-dir` counts as one word in
both spellings, and the query of the Keychain has two outcomes.

## 6. Where code and documentation disagree

These came up while modelling. None has a run of its own; each was followed in
the model named, or in the code.

1. *A commit can leave a store nobody can open* (StateStore). Between the
   rename of the stage over `state.json` and the removal of the journal, the
   journal refers to a stage that is gone. `inspect_recovery_from_normalized`
   (`core/atomic_store.rs:1379`) calls that an invalid journal, and every path to
   `recover_locked`, which would finish the commit, first reads the store.
   A kill in that window is enough.
2. *RESOURCE_EXHAUSTED may leave no cooldown* (AccountUsage). The window
   starts at `observed_at`, taken before the child is spawned
   (`cli/mod.rs:626`).
3. *A probe may run in the HOME of a login* (ProfilePool). `measure`
   (`profile/mod.rs:191`) opens the lock file in the directory of a profile and
   locks it, without the registry lock. When a removal archives the directory
   in between and a login creates it anew, the lease is that of the archived
   directory and `quota::probe` starts `agy` in the one the login is using.
   README.md:157: "Each process gets its own `HOME`". Sessions are not
   affected (`SessionOwnsHome`), because they take leases under the registry lock.
4. *An interrupted rollback may refuse to be recovered* (CredentialStore).
   `recover_pending` (`account/credential_store.rs:2217`) says that the sealed
   authority "decides whether a known live layout is rolled back or finalized".
   The first import of an account is published (its stage is consumed), the commit
   of State fails, the rollback removes the published slot, and the command
   is killed. The live layout is the one before, but nothing proves the one after any
   more: `layout_from_journal_after` (3243) wants the stage or the target, the
   journal stays, and each later command that mutates stops at it.
   Relatives with one kill: in cleanup, between the removal of a backup and of the
   journal; after a migration that carries the bytes it found, between commit
   and cleanup, when the layout equals `before` and the reference does not; after
   an import that keeps the fingerprint, between publish and commit, when the
   layout and the reference say "after" and the revision says "before".
5. *A prepared home journal does not mean that State is still before it*
   (ActiveHome). The comment at `active_home.rs:1380` says so; a command that recovered
   before another one was killed commits past the journal the other left.
6. *A write of agy may be deleted* (ActiveHome). README.md:231: "`sagy` never silently
   overwrites credentials it did not write". What agy writes between the check of the home and
   the moves is taken for the baseline, and `finalize` of a switch without takeover
   deletes it (`active_home.rs:765`).
7. *A pooled machine may overwrite an unseen bundle* (PortableSync). The comment at
   `repo_sync.rs:1735` rules it out, and `SeenBeforeReplaced` holds for a branch that only
   grows. If the branch is deleted and pushed anew, a machine whose watermark has the
   greater generation is not "behind": it replaces the new bundle and writes
   tombstones for its accounts. With an equal generation and other contents, push says
   to pull first and pull refuses (`GenerationConflict`).
8. *`sagy -- --help` and `sagy launch -- --help`* (LaunchArguments). README.md:195-198
   says they still resume; the router injects `--no-resume`.
   `sagy launch --takeover -- x` is not rewritten (`router.rs:133`), and
   `sagy --takeover ...` goes to agy as it is.
9. *The verdict depends on the chunks* (LaunchDiagnostics). The comments around
   `launch_observation.rs:300` and :335 say it does not. A stray brace before a line
   break hides the document behind it or not, depending on where the text is cut;
   `VerdictOfBytes` therefore excepts texts with a stray brace, and those that were
   too long. Nor does the scan always stay out of the line of a stray brace, as the comments at
   :253-300 say: after a brace that is never closed it goes on at the next line, although a
   document that began on the first is still open, and takes an object nested in that for
   evidence (`EvidenceIsTopLevel` excepts it).
10. *A marker may be shown* (ChildOutput). The output guard exists to stop at an
    authentication request. Until it opens it scans the chunks of both streams in the order
    they arrive, and does not scan what it held back of each stream
    (`native_session.rs:450-465`): a marker whose halves are separated by a chunk of
    the other stream is shown. `MarkerWithheld` has this one exception.
11. *A quota may survive a new login* (ProfileQuota). The comment at `profile/cache.rs:183`
    says that a new login must clear the values of the old identity. `login`
    (`profile/mod.rs:63-77`) only notes that the reset could not be written, and goes on to
    sign in: until a later measurement is merged, the label shows the quota of the old
    identity, or one whose measurement began before. `ShownIsCurrent` excepts what began
    before such a reset, and nothing else. `rm` is stricter: it stops (`remove.rs:145`).
12. *A native session may continue a conversation* (ChildOutput, LaunchArguments). The comment at
    `native_session.rs:111-113` says that `--continue` stays on the managed path.
    `has_noninteractive_prompt` looks for a prompt and for interactive mode only, so
    `sagy --continue -p hi` and `sagy -c -p hi` run natively, and agy continues. What holds is
    that sagy itself adds no `--continue` there (`NoContinueInjected`).

*Evidence is not merged.* `record_launch_diagnostic` (`cli/mod.rs:687`) commits
against the revision from before the child; any other commit meanwhile makes it
fail, and the 429 is lost. `core/health.rs:400` speaks of a merge "after a CAS
retry"; there is none. LaunchSession has it as `Conflict`.

Observations, by module. They leave safety alone unless it says otherwise.

* Usage: `local_vertex_snapshot` (`usage.rs:277`) replaces a rejection of a service
  account although `core/health.rs:31` says only a successful probe may
  (`RejectionKept` therefore excludes service accounts); and
  `reduce_usage_observed` compares an observation with a probe time from the
  future that `normalized` would have discarded.
* CredentialStore: recovery refuses, and every later command that mutates
  with it, (a) after a kill between the write of a `.update` and its rename
  (`cleanup_orphan_updates`, 3770), (b) after a kill in the middle of writing a
  journal, (c) after a rollback that restored the token and was killed before it
  removed the document (two live slots are no known layout), (d) when ordinary
  commits of a command that had recovered earlier moved the generation on. Backups
  copied before a kill that precedes the journal are never removed (1258); only
  stages are. With `overlap`, two journals may roll back over each other and
  restore a credential that was removed, or drop one that was imported; with `doubt`,
  State names a credential whose files were rolled back.
* ActiveHome: an ordinary commit past a journal, or a write of agy beside one, makes
  every later command refuse, `--takeover` included; a second restore leaves the
  `.recovery` file of the first, in plaintext; `HomeAgrees` excepts `doubt` and `overlap`.
* PortableSync: a pull replaces a credential that was imported again locally by the
  older one of the pool; a removal that was not pushed is undone by the pull
  that a refused push demands; with skewed clocks a tombstone may not apply; an account that
  was imported again with another credential may come back under its old one after it
  was deleted, because the tombstone speaks of one credential (`DeletionHolds` excepts
  such accounts).
* ProfileQuota: a worker that failed is not repeated before the next turn (the refresh at the
  end makes up for it); a turn shorter than a poll interval whose counts do not
  grow is not noticed; SIGTERM or SIGKILL of a `run` with a probe in flight leaves the
  copy of the credential in `.sagy-quota-probe-*`; a killed `login` leaves an agy
  that may sign in unobserved; with a clock that is set back a measurement in flight
  may pass a later reset.
* ChildOutput: a retry hint is clamped to 30..3600 before it is compared and `RetryInfo`
  is not, so that 10 and 10 contradict each other; a wait that fails may leave
  the child unreaped, and with SIGCHLD ignored the native loop does not return
  (result "lost"); a descendant of agy that keeps the pipe open keeps sagy waiting.
* Profiles: a `list` or a `refresh` holds the lease of each profile while it
  measures it, so that a `run`, an `rm` or the selection of `auto` at that moment
  finds the profile busy.
* Launches: every command's recovery takes each credential lock under the State
  lock, so a second command blocks while a child runs, with the State lock held, and
  all later commands queue behind it. There is no deadlock, because a launch
  drops its leases before it needs State (theorem `LocksAreOrdered`).

## 7. Plan

What is left, most important first:

1. Crashes in LaunchSession, composed with the journals of ActiveHome.
2. The rest of `observer.rs`; migration of several accounts; the self-update.
