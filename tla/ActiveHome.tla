----------------------------- MODULE ActiveHome -----------------------------
(***************************************************************************)
(* The active-home transaction: the two files agy reads its session from   *)
(* (`antigravity-oauth-token` and `oauth_creds.json`, in two directories)  *)
(* are made to hold the credential of the account State calls current.  A   *)
(* switch replaces them, the removal of the current account empties them,  *)
(* each together with one commit of State, and a removal also with the      *)
(* deletion of the account's credential files.  A transaction stages the   *)
(* new files, writes a journal, moves the old files aside, moves the       *)
(* staged ones into place, commits State and then removes its evidence.    *)
(* The next command decides a journal it finds from the files and State.   *)
(*                                                                         *)
(* Source: adapters/antigravity/active_home.rs, the switch, removal and    *)
(* recovery sessions of adapters/antigravity/account.rs and the permits,   *)
(* proofs and coordinated commit of core/state_store.rs.  The credential    *)
(* store is the coarse half here: moving, putting back and deleting an     *)
(* account's files is one step each (CredentialStore has every file).      *)
(* agy and the user write the two home files too, whenever they like: they *)
(* know nothing of the locks.  Leftovers nobody reads (a `.update` sibling *)
(* of a journal, half a stage) are not distinguished from their absence or *)
(* from a whole stage.                                                     *)
(***************************************************************************)
EXTENDS Naturals, FiniteSets

CONSTANTS
    Proc,       \* commands that run concurrently
    Tx,         \* transaction ids
    Account,    \* accounts State starts with
    Owned,      \* Owned[a]: the home files of account a
    Foreign,    \* Foreign[s]: what agy or the user may write to slot s
    Absent,     \* no file
    NoProfile,  \* State names no account as current
    NoJournal,  \* no journal file
    NoJob,      \* no transaction under way
    Nobody,     \* the State lock, and with it both home locks, is free
    MaxGen,     \* bound: generations of State
    MaxFaults   \* bound: kills, failing calls and commits, outside writes, together

Slot == {"token", "document"}
Content == (UNION {{Owned[a][s] : s \in Slot} : a \in Account})
           \cup (UNION {Foreign[s] : s \in Slot}) \cup {Absent}
Layout == [Slot -> Content]
Empty == [s \in Slot |-> Absent]

\* A plan is what a journal says of its transaction, besides the phase.
Modes == {"strict", "adopt", "takeover"}
Plans == [kind : {"switch", "remove", "delete"}, account : Account, mode : Modes,
          base : 1 .. MaxGen - 1, before : Account \cup {NoProfile},
          after : Account \cup {NoProfile}, baseline : Layout, target : Layout]
Journals == [plan : Plans, phase : {"prepared", "publishing", "published"}]
CredentialJournals == [account : Account, base : 1 .. MaxGen - 1]
Jobs == [tx : Tx, plan : Plans, mode : Modes, route : {"commit", "rollback", "recover"},
         slot : Slot, seen : Layout, moved : SUBSET Slot]

\* No file of an account is one that agy or the user may write.
ASSUME ActiveHomeConstants ==
    /\ Owned \in [Account -> Layout]
    /\ \A a \in Account : Cardinality({s \in Slot : Owned[a][s] # Absent}) <= 1
    /\ \A s \in Slot : Absent \notin Foreign[s]
    /\ \A a \in Account, s, u \in Slot : Owned[a][s] \notin Foreign[u]
    /\ NoJournal \notin Journals \cup CredentialJournals /\ NoJob \notin Jobs
    /\ {"live", "gone"} \cap Tx = {}
    /\ NoProfile \notin Account /\ Nobody \notin Proc
    /\ MaxGen \in Nat \ {0} /\ MaxFaults \in Nat

VARIABLES
    home,       \* the two live files
    stage, tombstone, recovery, backup,  \* files of each transaction, by slot
    journal,    \* the home journal of each transaction
    cred,       \* of each account: "live", the id that moved its files aside, "gone"
    cjournal,   \* the credential journal of each transaction
    state,      \* state.json: generation, accounts, the current account
    session,    \* of each command: how far it is with the State it read
    owner, step, job, todo,  \* the lock holder, its next step, its transaction
    failures, writes,        \* history: bounds
    waived,     \* history: what agy replaced itself, or wrote while a command held the locks
    doubt,      \* history: a commit said it might not have taken effect, but had
    bumped,     \* history: a commit without a journal moved past a home journal
    overlap     \* history: a transaction began over the journal of a killed one

evidence == <<stage, tombstone, recovery, backup>>
credentials == <<cred, cjournal>>
control == <<session, owner, step, job, todo>>
history == <<failures, writes, waived, doubt, bumped, overlap>>
vars == <<home, evidence, journal, credentials, state, control, history>>

-----------------------------------------------------------------------------
(* Plans and what the files say about them.                                *)

HomeOf(profile) == IF profile = NoProfile THEN Empty ELSE Owned[profile]

\* The mode that counts: adopting is only for a home no profile claims and
\* which holds the target already.
Effective(plan) ==
    IF plan.mode # "adopt" THEN plan.mode
    ELSE IF plan.before = NoProfile /\ plan.baseline # Empty /\ plan.baseline = plan.target
         THEN "adopt" ELSE "strict"

\* What a home may hold when a transaction starts.
Accepts(plan) ==
    /\ plan.before # NoProfile => plan.mode = "takeover" \/ plan.baseline = HomeOf(plan.before)
    /\ plan.before = NoProfile /\ plan.baseline # Empty => Effective(plan) # "strict"

\* Seeded bug: a slot that is empty is always someone else's doing.
ExplainedLive(plan, t, s) == home[s] \in {plan.baseline[s], plan.target[s]}

\* A slot between its two moves is empty and its old file is the tombstone.
Explained(plan, t, s) ==
    \/ home[s] \in {plan.baseline[s], plan.target[s]}
    \/ home[s] = Absent /\ tombstone[t][s] # Absent

Pending == {t \in Tx : journal[t] # NoJournal}
CPending == {t \in Tx : cjournal[t] # NoJournal}
Untouched(t) ==
    /\ t \notin Pending \cup CPending /\ t \notin {cred[a] : a \in Account}
    /\ \A s \in Slot : {stage[t][s], tombstone[t][s], recovery[t][s], backup[t][s]} = {Absent}

\* Stages no journal of any account protects are plaintext nobody will use.
Swept == [t \in Tx |-> IF t \in Pending THEN stage[t] ELSE Empty]

-----------------------------------------------------------------------------
(* Sessions.                                                               *)

Init ==
    /\ state \in [gen : {1}, accounts : {Account}, profile : Account \cup {NoProfile}]
    /\ home \in IF state.profile # NoProfile THEN {HomeOf(state.profile)}
                ELSE {Owned[a] : a \in Account}
                     \cup {l \in Layout : \A s \in Slot : l[s] \in Foreign[s] \cup {Absent}}
    /\ stage = [t \in Tx |-> Empty] /\ tombstone = stage /\ recovery = stage /\ backup = stage
    /\ journal = [t \in Tx |-> NoJournal] /\ cjournal = journal
    /\ cred = [a \in Account |-> "live"]
    /\ session = [p \in Proc |-> "out"]
    /\ owner = Nobody /\ step = "idle" /\ job = NoJob /\ todo = {}
    /\ failures = 0 /\ writes = 0 /\ waived = {}
    /\ doubt = FALSE /\ bumped = FALSE /\ overlap = FALSE

At(p, where) == owner = p /\ step = where

\* A command that has not locked yet reads State as late as it pleases.  One
\* that read an older generation can only end with a conflict: it is out.
Lock(p, where) == owner = Nobody /\ session[p] \in where /\ owner' = p

Superseded(p, at) == session' = [q \in Proc |-> IF q = p THEN at ELSE "out"]

Release(p, at) ==
    /\ owner' = Nobody /\ step' = "idle" /\ job' = NoJob /\ todo' = {}
    /\ session' = [session EXCEPT ![p] = at]

\* The command ends: done, or refused.
Close(p) ==
    /\ session[p] # "out" /\ owner # p
    /\ session' = [session EXCEPT ![p] = "out"]
    /\ UNCHANGED <<home, evidence, journal, credentials, state, owner, step, job, todo, history>>

\* A commit of usage or evidence: no proof, and no look at any journal.
OrdinaryCommit(p) ==
    /\ owner = Nobody /\ session[p] \in {"ready", "saved"} /\ state.gen < MaxGen
    /\ state' = [state EXCEPT !.gen = @ + 1]
    /\ Superseded(p, "saved")
    /\ bumped' = (bumped \/ Pending \cup CPending # {})
    /\ UNCHANGED <<home, evidence, journal, credentials, owner, step, job, todo, failures,
                   writes, waived, doubt, overlap>>

\* agy refreshes its token, the user logs in or out: under no lock of sagy.
ForeignWrite(s, c) ==
    /\ failures + writes < MaxFaults /\ home[s] # c /\ c \in Foreign[s] \cup {Absent}
    /\ home' = [home EXCEPT ![s] = c]
    /\ writes' = writes + 1
    /\ waived' = waived \cup {home[s]} \cup (IF owner = Nobody THEN {} ELSE {c})
    /\ UNCHANGED <<evidence, journal, credentials, state, control, failures, doubt, bumped,
                   overlap>>

-----------------------------------------------------------------------------
(* Preparing.                                                              *)

Plan(kind, a, mode, target, after) ==
    [kind |-> kind, account |-> a, mode |-> mode, base |-> state.gen,
     before |-> state.profile, after |-> after, baseline |-> home, target |-> target]

Job(t, plan) == [tx |-> t, plan |-> plan, mode |-> Effective(plan), route |-> "commit",
                 slot |-> "token", seen |-> Empty, moved |-> {}]

\* A locked section that starts a transaction; it does not look for journals
\* again, although the lock was free since the recovery.
Begin(p, t, plan, first) ==
    /\ Lock(p, {"ready"}) /\ state.gen < MaxGen /\ Untouched(t)
    /\ overlap' = (overlap \/ Pending \cup CPending # {})
    /\ step' = first /\ job' = Job(t, plan)
    /\ UNCHANGED <<home, tombstone, recovery, backup, journal, cred, state, session, todo,
                   failures, writes, waived, doubt, bumped>>

\* Switching reads the credential of the account under its lease.
Switch(p, t, a, mode) ==
    LET plan == Plan("switch", a, mode, Owned[a], a)
    IN  /\ a \in state.accounts /\ cred[a] = "live" /\ Accepts(plan)
        /\ Begin(p, t, plan, "stage")
        /\ stage' = Swept /\ UNCHANGED cjournal

\* A home that is not sagy's to replace; the stages left over are gone anyway.
SwitchRefused(p, a, mode) ==
    /\ owner = Nobody /\ session[p] = "ready"
    /\ a \in state.accounts /\ ~Accepts(Plan("switch", a, mode, Owned[a], a))
    /\ stage' = Swept
    /\ session' = [session EXCEPT ![p] = "out"]
    /\ UNCHANGED <<home, tombstone, recovery, backup, journal, credentials, state, owner, step,
                   job, todo, history>>

\* A removal first journals the deletion of the credential; the home takes
\* part when the account is the current one.
Remove(p, t, a) ==
    LET plan == Plan("remove", a, "strict", Empty, NoProfile)
        current == state.profile = a
    IN  /\ a \in state.accounts /\ cred[a] = "live"
        /\ cjournal' = [cjournal EXCEPT ![t] = [account |-> a, base |-> state.gen]]
        /\ IF current /\ Accepts(plan)
           THEN Begin(p, t, plan, "stage") /\ stage' = Swept
           ELSE /\ Begin(p, t, Plan("delete", a, "strict", Empty, state.profile),
                         IF current THEN "refused" ELSE "delete")
                /\ stage' = IF current THEN Swept ELSE stage

\* The home was refused: the credential journal stays for the next command.
Refused(p) ==
    /\ At(p, "refused")
    /\ Release(p, "out")
    /\ UNCHANGED <<home, evidence, journal, credentials, state, history>>

Unstaged == {s \in Slot : job.plan.target[s] # Absent /\ stage[job.tx][s] = Absent}

WriteStage(p, s) ==
    /\ At(p, "stage") /\ s \in Unstaged
    /\ stage' = [stage EXCEPT ![job.tx][s] = job.plan.target[s]]
    /\ UNCHANGED <<home, tombstone, recovery, backup, journal, credentials, state, control, history>>

SetPhase(phase) ==
    journal' = [journal EXCEPT ![job.tx] = [plan |-> [job.plan EXCEPT !.mode = job.mode],
                                            phase |-> phase]]

WriteJournal(p) ==
    /\ At(p, "stage") /\ Unstaged = {}
    /\ SetPhase("prepared")
    /\ step' = IF job.plan.kind = "remove" THEN "delete" ELSE "publish"
    /\ UNCHANGED <<home, evidence, credentials, state, session, owner, job, todo, history>>

\* The account's files move to tombstones of their own.
MoveCredential(p) ==
    /\ At(p, "delete")
    /\ cred' = [cred EXCEPT ![job.plan.account] = job.tx]
    /\ step' = IF job.plan.kind = "remove" THEN "publish" ELSE "commit"
    /\ UNCHANGED <<home, evidence, journal, cjournal, state, session, owner, job, todo, history>>

-----------------------------------------------------------------------------
(* Publishing.                                                             *)

\* The home is read again; an adoption moves nothing.
Publish(p) ==
    /\ At(p, "publish") /\ home = job.plan.baseline
    /\ IF job.mode = "adopt" THEN step' = "seal" /\ UNCHANGED journal
       ELSE step' = "aside" /\ SetPhase("publishing")
    /\ UNCHANGED <<home, evidence, credentials, state, session, owner, job, todo, history>>

ToMove == {s \in Slot : job.plan.baseline[s] # Absent /\ tombstone[job.tx][s] = Absent}

\* Whatever is in the slot by now moves: nothing holds agy back.
MoveAside(p, s) ==
    /\ At(p, "aside") /\ s \in ToMove /\ (s = "document" => "token" \notin ToMove)
    /\ home[s] # Absent
    /\ home' = [home EXCEPT ![s] = Absent]
    /\ tombstone' = [tombstone EXCEPT ![job.tx][s] = home[s]]
    /\ UNCHANGED <<stage, recovery, backup, journal, credentials, state, control, history>>

\* A move never replaces a file that is there.
Place(p, s) ==
    /\ At(p, "aside") /\ ToMove = {}
    /\ stage[job.tx][s] # Absent /\ home[s] = Absent
    /\ home' = [home EXCEPT ![s] = stage[job.tx][s]]
    /\ stage' = [stage EXCEPT ![job.tx][s] = Absent]
    /\ UNCHANGED <<tombstone, recovery, backup, journal, credentials, state, control, history>>

Seal(p) ==
    /\ \/ At(p, "seal")
       \/ At(p, "aside") /\ ToMove = {} /\ stage[job.tx] = Empty
    /\ SetPhase("published")
    /\ step' = "commit"
    /\ UNCHANGED <<home, evidence, credentials, state, session, owner, job, todo, history>>

-----------------------------------------------------------------------------
(* The commit of State, with the proofs of the journals it needs.          *)

Committed ==
    [gen |-> state.gen + 1,
     accounts |-> IF job.plan.kind = "switch" THEN state.accounts
                  ELSE state.accounts \ {job.plan.account},
     profile |-> job.plan.after]

\* A proof is of the account it moves the home to, or away from, and of a
\* baseline its mode allows.
Provable(plan) ==
    /\ plan.account = IF plan.after # NoProfile THEN plan.after ELSE plan.before
    /\ (plan.mode # "takeover" /\ plan.before # NoProfile) => plan.baseline = HomeOf(plan.before)
    /\ (plan.mode = "adopt" /\ plan.before = NoProfile) => plan.baseline = plan.target
    /\ (plan.mode = "strict" /\ plan.before = NoProfile) => plan.baseline = Empty

\* The journal is read again from disk and must tell the same story.
JournalProves(plan) ==
    /\ job.tx \in Pending
    /\ journal[job.tx] = [plan |-> plan, phase |-> "published"]

\* What the proof says of the profile and the revision must be what State says
\* and what it is to say.
ProfileProven ==
    job.plan.kind # "delete" =>
        LET proof == [job.plan EXCEPT !.mode = job.mode]
        IN  /\ Provable(proof) /\ proof.base = state.gen
            /\ proof.before = state.profile /\ proof.after = Committed.profile
            /\ JournalProves(proof)
ReferenceProven ==
    Committed.accounts # state.accounts =>
        cjournal[job.tx] = [account |-> job.plan.account, base |-> state.gen]

Commit(p) ==
    /\ At(p, "commit") /\ ProfileProven /\ ReferenceProven
    /\ state' = Committed /\ Superseded(p, session[p])
    /\ step' = IF job.plan.kind = "delete" THEN "purge" ELSE "finalize"
    /\ UNCHANGED <<home, evidence, journal, credentials, owner, job, todo, history>>

RollBack ==
    /\ job' = [job EXCEPT !.route = "rollback"]
    /\ step' = IF job.plan.kind = "delete" THEN "undelete" ELSE "check"
    /\ UNCHANGED <<owner, todo>>

\* A failed commit is answered by a rollback, also when it may have landed.
CommitFails(p) ==
    /\ At(p, "commit") /\ failures + writes < MaxFaults
    /\ failures' = failures + 1
    /\ \/ UNCHANGED <<state, doubt, session>>
       \/ state' = Committed /\ doubt' = TRUE /\ Superseded(p, session[p])
    /\ RollBack
    /\ UNCHANGED <<home, evidence, journal, credentials, writes, waived, bumped, overlap>>

-----------------------------------------------------------------------------
(* Rolling the home back: slot by slot, the token first.                   *)

\* Where the command goes when the home part is over, well or not.
Leave(p, well) ==
    CASE job.route = "recover" /\ well ->
            /\ step' = "journals" /\ todo' = todo \ {job.tx} /\ job' = NoJob
            /\ UNCHANGED <<session, owner>>
      [] job.route # "recover" /\ job.plan.kind = "remove" ->
            /\ step' = IF job.route = "commit" THEN "purge" ELSE "undelete"
            /\ UNCHANGED <<session, owner, job, todo>>
      [] OTHER -> Release(p, "out")

\* Anything unknown in a slot stops the rollback before it begins.
Check(p) ==
    /\ At(p, "check") /\ \A s \in Slot : Explained(job.plan, job.tx, s)
    /\ job' = [job EXCEPT !.seen = home, !.slot = "token"]
    /\ step' = "keep"
    /\ UNCHANGED <<home, evidence, journal, credentials, state, session, owner, todo, history>>

\* The new file makes way when there is an old one, or when it is not the
\* file the transaction found.
Displaced(s) ==
    /\ job.mode # "adopt" /\ home[s] # Absent
    /\ tombstone[job.tx][s] # Absent \/ job.seen[s] # job.plan.baseline[s]

KeepLive(p) ==
    LET s == job.slot
    IN  /\ At(p, "keep")
        /\ IF Displaced(s)
           THEN /\ recovery[job.tx][s] = Absent
                /\ recovery' = [recovery EXCEPT ![job.tx][s] = home[s]]
                /\ home' = [home EXCEPT ![s] = Absent]
                /\ job' = [job EXCEPT !.moved = @ \cup {s}]
           ELSE UNCHANGED <<recovery, home, job>>
        /\ step' = "back"
        /\ UNCHANGED <<stage, tombstone, backup, journal, credentials, state, session, owner,
                       todo, history>>

PutBack(p) ==
    LET s == job.slot
    IN  /\ At(p, "back") /\ tombstone[job.tx][s] # Absent /\ home[s] = Absent
        /\ home' = [home EXCEPT ![s] = tombstone[job.tx][s]]
        /\ tombstone' = [tombstone EXCEPT ![job.tx][s] = Absent]
        /\ UNCHANGED <<stage, recovery, backup, journal, credentials, state, control, history>>

NextSlot(steps, done) ==
    IF job.slot = "token" THEN job' = [job EXCEPT !.slot = "document"] /\ step' = steps
                          ELSE job' = job /\ step' = done

Unstage(p) ==
    /\ At(p, "back") /\ tombstone[job.tx][job.slot] = Absent
    /\ stage' = [stage EXCEPT ![job.tx][job.slot] = Absent]
    /\ NextSlot("keep", "verify")
    /\ UNCHANGED <<home, tombstone, recovery, backup, journal, credentials, state, session,
                   owner, todo, history>>

Verify(p) ==
    /\ At(p, "verify") /\ home = job.plan.baseline
    /\ step' = "discard"
    /\ UNCHANGED <<home, evidence, journal, credentials, state, session, owner, job, todo, history>>

\* Only what this very pass put away; another pass leaves its copy for good.
Discard(p, s) ==
    /\ At(p, "discard") /\ s \in job.moved
    /\ recovery' = [recovery EXCEPT ![job.tx][s] = Absent]
    /\ job' = [job EXCEPT !.moved = @ \ {s}]
    /\ UNCHANGED <<home, stage, tombstone, backup, journal, credentials, state, session, owner,
                   step, todo, history>>

\* The journal goes last, whichever way the transaction ended.
RemoveJournal(p) ==
    /\ At(p, "discard") /\ job.moved = {}
    /\ journal' = [journal EXCEPT ![job.tx] = NoJournal]
    /\ Leave(p, TRUE)
    /\ UNCHANGED <<home, evidence, credentials, state, history>>

-----------------------------------------------------------------------------
(* Finishing.                                                              *)

Finalize(p) ==
    /\ At(p, "finalize") /\ home = job.plan.target
    /\ step' = "clean" /\ job' = [job EXCEPT !.slot = "token"]
    /\ UNCHANGED <<home, evidence, journal, credentials, state, session, owner, todo, history>>

CleanStage(p) ==
    /\ At(p, "clean") /\ stage[job.tx][job.slot] # Absent
    /\ stage' = [stage EXCEPT ![job.tx][job.slot] = Absent]
    /\ UNCHANGED <<home, tombstone, recovery, backup, journal, credentials, state, control, history>>

\* Seeded bug: what a takeover replaced is deleted like a managed file.
DropTombstone(p) ==
    /\ At(p, "clean")
    /\ LET s == job.slot
       IN  /\ stage[job.tx][s] = Absent /\ tombstone[job.tx][s] # Absent
           /\ tombstone' = [tombstone EXCEPT ![job.tx][s] = Absent]
    /\ UNCHANGED <<home, stage, recovery, backup, journal, credentials, state, control, history>>

\* What a takeover replaced becomes a backup beside the file.
CleanTombstone(p) ==
    /\ At(p, "clean")
    /\ LET s == job.slot
           old == tombstone[job.tx][s]
       IN  /\ stage[job.tx][s] = Absent /\ old # Absent
           /\ tombstone' = [tombstone EXCEPT ![job.tx][s] = Absent]
           /\ backup' = IF job.mode = "takeover" THEN [backup EXCEPT ![job.tx][s] = old] ELSE backup
    /\ UNCHANGED <<home, stage, recovery, journal, credentials, state, control, history>>

CleanSlot(p) ==
    /\ At(p, "clean")
    /\ LET s == job.slot
       IN  /\ stage[job.tx][s] = Absent /\ tombstone[job.tx][s] = Absent
           /\ recovery' = [recovery EXCEPT ![job.tx][s] = Absent]
    /\ NextSlot("clean", "discard")
    /\ UNCHANGED <<home, stage, tombstone, backup, journal, credentials, state, session, owner,
                   todo, history>>

\* The credential half of a removal, after the home half.
Purge(p) ==
    /\ At(p, "purge")
    /\ cred' = [cred EXCEPT ![job.plan.account] = "gone"]
    /\ cjournal' = [cjournal EXCEPT ![job.tx] = NoJournal]
    /\ Release(p, "out")
    /\ UNCHANGED <<home, evidence, journal, state, history>>

Undelete(p) ==
    /\ At(p, "undelete")
    /\ cred' = [cred EXCEPT ![job.plan.account] = "live"]
    /\ cjournal' = [cjournal EXCEPT ![job.tx] = NoJournal]
    /\ Release(p, "out")
    /\ UNCHANGED <<home, evidence, journal, state, history>>

-----------------------------------------------------------------------------
(* Recovery: the home journals of every account in one locked section, the *)
(* credential journals in the next, the command's own work in a third.     *)

RecoverHome(p) ==
    /\ Lock(p, {"out", "saved"})
    /\ step' = "journals" /\ todo' = Pending
    /\ UNCHANGED <<home, evidence, journal, credentials, state, session, job, history>>

\* Seeded bug: what was published is finished, whatever State says.
FinishPublished(t) ==
    LET plan == journal[t].plan
    IN  CASE journal[t].phase # "published" -> [to |-> "check", mode |-> "strict"]
          [] OTHER -> [to |-> "finalize", mode |-> plan.mode]

\* All that recovery is told of State: the revision and the profile.
Authority == [revision |-> state.gen, profile |-> state.profile]

\* What becomes of a journal: before `published`, State is still at the old
\* profile; after, State decides, if it moved by at most this commit.
Decision(t) ==
    LET plan == journal[t].plan
        before == [revision |-> plan.base, profile |-> plan.before]
        after == [revision |-> plan.base + 1, profile |-> plan.after]
        sealed == journal[t].phase = "published"
        clear == \A s \in Slot : Explained(plan, t, s)
    IN  CASE ~sealed -> [to |-> "check", mode |-> "strict"]
          [] sealed /\ clear /\ Authority = after ->
                [to |-> "finalize", mode |-> plan.mode]
          [] sealed /\ clear /\ Authority = before ->
                [to |-> "check", mode |-> IF plan.baseline = plan.target THEN "adopt" ELSE "takeover"]
          [] OTHER -> [to |-> "stuck", mode |-> "strict"]

\* The transaction as its journal tells it: profiles, revision and layouts.
Journalled(t) == [Job(t, journal[t].plan) EXCEPT !.route = "recover", !.mode = Decision(t).mode]

TakeJournal(p, t) ==
    /\ At(p, "journals") /\ t \in todo /\ Decision(t).to # "stuck"
    /\ step' = Decision(t).to
    /\ job' = Journalled(t)
    /\ stage' = Swept
    /\ UNCHANGED <<home, tombstone, recovery, backup, journal, credentials, state, session, owner,
                   todo, history>>

HomeRecovered(p) ==
    /\ At(p, "journals") /\ todo = {}
    /\ Release(p, "recovered")
    /\ UNCHANGED <<home, evidence, journal, credentials, state, history>>

RecoverCredentials(p) ==
    /\ Lock(p, {"recovered"})
    /\ step' = "credentials" /\ todo' = CPending
    /\ UNCHANGED <<home, evidence, journal, credentials, state, session, job, history>>

\* What State says of the account decides, up to one commit later.
CredentialDecision(t) ==
    LET a == cjournal[t].account
        base == cjournal[t].base
    IN  CASE a \in state.accounts /\ state.gen \in {base, base + 1} -> "live"
          [] a \notin state.accounts /\ state.gen = base + 1 /\ cred[a] # "live" -> "gone"
          [] OTHER -> "stuck"

DecideCredential(p, t) ==
    /\ At(p, "credentials") /\ t \in todo /\ CredentialDecision(t) # "stuck"
    /\ cred' = [cred EXCEPT ![cjournal[t].account] = CredentialDecision(t)]
    /\ cjournal' = [cjournal EXCEPT ![t] = NoJournal]
    /\ todo' = todo \ {t}
    /\ UNCHANGED <<home, evidence, journal, state, session, owner, step, job, history>>

CredentialsRecovered(p) ==
    /\ At(p, "credentials") /\ todo = {}
    /\ Release(p, "ready")
    /\ UNCHANGED <<home, evidence, journal, credentials, state, history>>

-----------------------------------------------------------------------------
(* What goes wrong.                                                        *)

\* A file is not what the code found or expects: a typed error.
Refuses ==
    CASE step = "publish" -> home # job.plan.baseline
      [] step = "aside" -> \/ \E s \in ToMove : home[s] = Absent
                           \/ ToMove = {} /\ \E s \in Slot : stage[job.tx][s] # Absent /\ home[s] # Absent
      [] step = "commit" -> ~(ProfileProven /\ ReferenceProven)
      [] step = "check" -> \E s \in Slot : ~Explained(job.plan, job.tx, s)
      [] step = "keep" -> Displaced(job.slot) /\ recovery[job.tx][job.slot] # Absent
      [] step = "back" -> tombstone[job.tx][job.slot] # Absent /\ home[job.slot] # Absent
      [] step = "verify" -> home # job.plan.baseline
      [] step = "finalize" -> home # job.plan.target
      [] OTHER -> FALSE

\* A failed publication is rolled back; a failed rollback, or a failed clean-up
\* after the commit, leaves the journal to the next command.
Fail(p) ==
    IF step \in {"publish", "aside", "seal", "commit"} THEN RollBack /\ UNCHANGED session ELSE Leave(p, FALSE)

Refuse(p) ==
    /\ owner = p /\ Refuses
    /\ Fail(p)
    /\ UNCHANGED <<home, evidence, journal, credentials, state, history>>

CallFails(p) ==
    /\ owner = p /\ failures + writes < MaxFaults
    /\ step \in {"publish", "aside", "seal", "keep", "back", "verify", "discard", "clean"}
    /\ failures' = failures + 1
    /\ Fail(p)
    /\ UNCHANGED <<home, evidence, journal, credentials, state, writes, waived, doubt, bumped,
                   overlap>>

\* A journal nobody can decide ends every command that finds it.
Stuck(p) ==
    /\ \/ At(p, "journals") /\ \E t \in todo : Decision(t).to = "stuck"
       \/ At(p, "credentials") /\ \E t \in todo : CredentialDecision(t) = "stuck"
    /\ Release(p, "out")
    /\ UNCHANGED <<home, evidence, journal, credentials, state, history>>

Kill(p) ==
    /\ owner = p /\ failures + writes < MaxFaults
    /\ failures' = failures + 1
    /\ Release(p, "out")
    /\ UNCHANGED <<home, evidence, journal, credentials, state, writes, waived, doubt, bumped,
                   overlap>>

Next ==
    \/ \E s \in Slot : \E c \in Foreign[s] \cup {Absent} : ForeignWrite(s, c)
    \/ \E p \in Proc :
        \/ Close(p) \/ OrdinaryCommit(p)
        \/ \E t \in Tx, a \in Account :
            \/ Remove(p, t, a)
            \/ \E mode \in {"adopt", "takeover"} : Switch(p, t, a, mode)
        \/ \E a \in Account, mode \in {"adopt", "takeover"} : SwitchRefused(p, a, mode)
        \/ Refused(p) \/ WriteJournal(p) \/ MoveCredential(p)
        \/ \E s \in Slot : WriteStage(p, s) \/ MoveAside(p, s) \/ Place(p, s) \/ Discard(p, s)
        \/ Publish(p) \/ Seal(p) \/ Commit(p) \/ CommitFails(p)
        \/ Check(p) \/ KeepLive(p) \/ PutBack(p) \/ Unstage(p) \/ Verify(p) \/ RemoveJournal(p)
        \/ Finalize(p) \/ CleanStage(p) \/ CleanTombstone(p) \/ CleanSlot(p)
        \/ Purge(p) \/ Undelete(p)
        \/ RecoverHome(p) \/ HomeRecovered(p) \/ RecoverCredentials(p) \/ CredentialsRecovered(p)
        \/ \E t \in Tx : TakeJournal(p, t) \/ DecideCredential(p, t)
        \/ Refuse(p) \/ CallFails(p) \/ Stuck(p) \/ Kill(p)

Spec == Init /\ [][Next]_vars

-----------------------------------------------------------------------------
(* Properties.                                                             *)

\* Type invariant: every variable has a value the code can produce, and a
\* journal is always whole.
HomeTypeOK ==
    /\ home \in Layout
    /\ stage \in [Tx -> Layout] /\ tombstone \in [Tx -> Layout]
    /\ recovery \in [Tx -> Layout] /\ backup \in [Tx -> Layout]
    /\ journal \in [Tx -> Journals \cup {NoJournal}]
    /\ cjournal \in [Tx -> CredentialJournals \cup {NoJournal}]
    /\ cred \in [Account -> {"live", "gone"} \cup Tx]
    /\ state \in [gen : 1 .. MaxGen, accounts : SUBSET Account,
                  profile : Account \cup {NoProfile}]
    /\ session \in [Proc -> {"out", "recovered", "ready", "saved"}]
    /\ owner \in Proc \cup {Nobody} /\ job \in Jobs \cup {NoJob} /\ todo \subseteq Tx
    /\ step \in {"idle", "stage", "refused", "delete", "publish", "aside", "seal", "commit",
                 "check", "keep", "back", "verify", "finalize", "clean", "discard",
                 "purge", "undelete", "journals", "credentials"}
    /\ failures \in Nat /\ writes \in Nat /\ failures + writes <= MaxFaults
    /\ waived \subseteq Content /\ {doubt, bumped, overlap} \subseteq BOOLEAN

\* Whenever no command holds the locks and no journal is left, the home holds
\* what State says, the credential files of an account exist exactly if State
\* has the account, and the current account is one of them: whatever was
\* killed, refused or rolled back in between.
Agreed ==
    /\ state.profile # NoProfile => state.profile \in state.accounts
    /\ \A a \in Account : (a \in state.accounts) = (cred[a] = "live")
    /\ state.profile # NoProfile => home = HomeOf(state.profile)
HomeAgrees ==
    (owner = Nobody /\ Pending \cup CPending = {} /\ writes = 0 /\ ~doubt /\ ~overlap) => Agreed

\* A journal a killed command leaves can be decided by the next one, wherever
\* the kill fell, unless State or the home moved on in between.
PendingDecided ==
    (owner = Nobody /\ writes = 0 /\ ~bumped /\ ~overlap) =>
        /\ \A t \in Pending : Decision(t).to # "stuck"
        /\ \A t \in Pending, s \in Slot : Explained(journal[t].plan, t, s)
        /\ \A t \in CPending : CredentialDecision(t) # "stuck"

\* A credential sagy did not write is never destroyed by sagy: it stays in its
\* slot, in a tombstone, or as the backup of a takeover, unless agy once replaced
\* it itself (what is left of it then are copies), or wrote it while a command
\* held the locks, as between its check of the home and its moves.
Somewhere(c) ==
    c \in UNION {{home[s]} \cup {f[t][s] : t \in Tx, f \in {tombstone, recovery, backup}} : s \in Slot}
ForeignKept ==
    [][\A c \in UNION {Foreign[s] : s \in Slot} :
          Somewhere(c) /\ writes' = writes => Somewhere(c)' \/ c \in waived]_vars

=============================================================================
