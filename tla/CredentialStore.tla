-------------------------- MODULE CredentialStore --------------------------
(***************************************************************************)
(* The credential transaction of one account: the two fixed live slots     *)
(* (`.oauth-token` and `credentials.json`) are replaced, removed or carried *)
(* from a v1 document together with the credential reference that          *)
(* state.json keeps for the account.  No file system call covers both, so  *)
(* a transaction copies the old slots, writes a journal, publishes the new *)
(* layout, commits State and only then removes its evidence; the next      *)
(* command that finds a journal rolls it back or finishes it.              *)
(*                                                                         *)
(* Source: adapters/antigravity/account/credential_store.rs and the        *)
(* import, migration, removal and recovery sessions of                     *)
(* adapters/antigravity/account.rs.  Every write happens under the State   *)
(* lock (StateStore), so the file system steps of one transaction are      *)
(* interleaved with nothing but the unlocked reads of other commands; a    *)
(* kill may fall between any two of them.  A system call that fails makes  *)
(* its command end where a kill would have stopped it; the commit of State *)
(* is the exception: its failure is answered by a rollback.                *)
(***************************************************************************)
EXTENDS Naturals, FiniteSets

CONSTANTS
    Proc,       \* commands that run concurrently
    Tx,         \* transaction ids
    Material,   \* credentials: [slot, print, bytes]; print is the fingerprint
    Absent,     \* no file
    Torn,       \* a file whose writer was killed
    NoRef,      \* State has no credential reference for the account
    NoJob,      \* no transaction under way
    Nobody,     \* the State lock is free
    MaxGen,     \* bound: generations of State
    MaxFailures \* bound: kills and commits of State that fail, together

Slot == {"token", "document"}

\* What State says of an account's credential: its slot and its fingerprint.
Ref(m) == [slot |-> m.slot, print |-> m.print]
Refs == {Ref(m) : m \in Material} \cup {NoRef}

\* A plan is what a journal says of its transaction; its phase is apart from it.
Layout == {l \in [Slot -> Material \cup {Absent}] : \A s \in Slot : l[s] # Absent => l[s].slot = s}
Plans == [base : 0 .. MaxGen, before : Layout, after : Layout, beforeRef : Refs, afterRef : Refs]
Phases == {"prepared", "opposite_moved", "published", "restored"}
Journals == [plan : Plans, phase : Phases]
Routes == {"recover", "commit", "rollback"}
Jobs == [tx : Tx, plan : Plans, route : Routes, phase : Phases]

ASSUME CredentialConstants ==
    /\ \A m \in Material : m.slot \in Slot /\ DOMAIN m = {"slot", "print", "bytes"}
    /\ {Absent, Torn} \cap Material = {} /\ Absent # Torn
    /\ \A m \in Material : Ref(m) # NoRef
    /\ Absent \notin Journals /\ Torn \notin Journals /\ NoJob \notin Jobs
    /\ Nobody \notin Proc
    /\ MaxGen \in Nat \ {0} /\ MaxFailures \in Nat

VARIABLES
    live,       \* the two live slots
    evidence,   \* the stage, backup and tombstone files of every transaction
    journal,    \* the journal file of every transaction
    update,     \* the `.update` sibling a phase change goes through
    aside,      \* materials renamed to quarantine names
    state,      \* state.json: generation (0 for v1) and the account's reference
    session,    \* of each command: where it is and the revision it read
    owner,      \* who holds the State lock
    step,       \* what the owner does next
    job,        \* the transaction the owner works on
    todo,       \* journals the running recovery still has to decide
    failures,   \* kills and failed commits so far
    original,   \* history: the live layout the v1 document was found with
    doubt,      \* history: a commit of State took effect, said it might not
                \* have, and was answered by a rollback of the credential
    overlap     \* history: a transaction began over the journal of a killed one

files == <<live, evidence, journal, update, aside>>
history == <<failures, original, doubt, overlap>>
vars == <<files, state, session, owner, step, job, todo, history>>

-----------------------------------------------------------------------------
(* Layouts, references and what one transaction writes down.               *)

Evidence == {"stage", "token_backup", "document_backup",
             "token_tombstone", "document_tombstone"}
Backup == [token |-> "token_backup", document |-> "document_backup"]
Tombstone == [token |-> "token_tombstone", document |-> "document_tombstone"]
Opposite == [token |-> "document", document |-> "token"]

Empty == [s \in Slot |-> Absent]

Only(m) == [Empty EXCEPT ![m.slot] = m]

\* The reference of a layout; two live slots have none.
LayoutRef(l) ==
    IF Cardinality({s \in Slot : l[s] # Absent}) = 1
    THEN Ref(l[CHOOSE s \in Slot : l[s] # Absent])
    ELSE NoRef

Deleting(plan) == plan.after = Empty
Purging(plan) == plan.after = Empty /\ plan.before = Empty

\* The slot a plan publishes to, or removes from.
Target(plan) ==
    LET shown == IF Deleting(plan) THEN plan.before ELSE plan.after
    IN  IF shown["document"] # Absent THEN "document" ELSE "token"

\* Seeded bug: the old slots are not backed up.
StagedAlone(plan) ==
    [k \in Evidence |->
        IF k = "stage"
        THEN IF Deleting(plan) THEN plan.before[Target(plan)] ELSE plan.after[Target(plan)]
        ELSE Absent]

\* The files a plan stages before its journal.
Staged(plan) ==
    [k \in Evidence |->
        CASE k = "stage" -> IF Deleting(plan) THEN plan.before[Target(plan)]
                                              ELSE plan.after[Target(plan)]
          [] k = "token_backup" -> plan.before["token"]
          [] k = "document_backup" -> plan.before["document"]
          [] OTHER -> Absent]

\* An import backs the old slots up first, a removal stages first.
StageRank(plan) ==
    IF Deleting(plan)
    THEN [stage |-> 1, token_backup |-> 2, document_backup |-> 3]
    ELSE [token_backup |-> 1, document_backup |-> 2, stage |-> 3]
CleanRank == [stage |-> 1, token_backup |-> 2, document_backup |-> 3,
              token_tombstone |-> 4, document_tombstone |-> 5]

Unstaged(t, plan) ==
    {k \in DOMAIN StageRank(plan) : Staged(plan)[k] # Absent /\ evidence[t][k] = Absent}
Kept(t) == {k \in Evidence : evidence[t][k] # Absent}
First(ks, rank) == CHOOSE k \in ks : \A l \in ks : rank[k] <= rank[l]

\* Transaction ids are fresh UUIDs: nothing in the directory bears the name.
Fresh(t) == Kept(t) = {} /\ journal[t] = Absent /\ update[t] = Absent

-----------------------------------------------------------------------------
(* What recovery makes of a journal it finds.                              *)

Written(t) == journal[t] \notin {Absent, Torn}
Plan(t) == journal[t].plan
PhaseUpdateDiffers(t) == update[t] # Absent /\ update[t] # journal[t]

\* Whether the files still prove both layouts of the journal: the new one by
\* the stage or the live slot, the old one by the backups alone.
Rebuilds(t) ==
    LET plan == Plan(t)
        new == IF evidence[t]["stage"] # Absent THEN evidence[t]["stage"]
                                                ELSE live[Target(plan)]
    IN  /\ Deleting(plan) \/ new = plan.after[Target(plan)]
        /\ \A s \in Slot : plan.before[s] # Absent => evidence[t][Backup[s]] = plan.before[s]

\* The live layouts a transaction can have left behind.
Known(l, plan) ==
    LET target == Target(plan)
        other == Opposite[target]
    IN  \/ l \in {plan.before, plan.after}
        \/ l[other] = Absent /\ l[target] = plan.after[target]
        \/ l[other] = Absent /\ l[target] = plan.before[target] /\ plan.before[other] # Absent

\* What recovery may believe of State: of a v2 document its references, of a
\* v1 document nothing but that it is one.
Current == state.gen > 0

SameRevision(plan) ==
    IF Current THEN state.gen = plan.base + 1 \/ (plan.base > 0 /\ state.gen = plan.base)
    ELSE plan.base = 0
Committed(plan) == Current /\ state.gen = plan.base + 1

\* Seeded bug: recovery finishes whatever was published.
FinalizePublished(t) == IF live = Plan(t).after THEN "finalize" ELSE "restore"

Decision(t) ==
    LET plan == Plan(t)
        rollback == IF Known(live, plan) THEN "restore" ELSE "conflict"
    IN  CASE ~SameRevision(plan) -> "conflict"
          [] SameRevision(plan) /\ live = plan.before ->
                IF state.ref = plan.beforeRef THEN "restore" ELSE "conflict"
          [] SameRevision(plan) /\ live # plan.before /\ live = plan.after /\ Current ->
                CASE state.ref = plan.afterRef -> IF Committed(plan) THEN "finalize" ELSE "conflict"
                  [] state.ref # plan.afterRef /\ state.ref = plan.beforeRef -> "restore"
                  [] OTHER -> "conflict"
          [] OTHER -> IF ~Current \/ state.ref = plan.beforeRef THEN rollback ELSE "conflict"

Decided(t, what) == Written(t) /\ Rebuilds(t) /\ Decision(t) = what

\* The file a slot is restored from: the moved original before the copy.
Source(t, s) ==
    IF evidence[t][Tombstone[s]] # Absent THEN Tombstone[s] ELSE Backup[s]

-----------------------------------------------------------------------------
(* Sessions and the State lock.                                            *)

Init ==
    /\ live \in Layout
    /\ evidence = [t \in Tx |-> [k \in Evidence |-> Absent]]
    /\ journal = [t \in Tx |-> Absent]
    /\ update = [t \in Tx |-> Absent]
    /\ aside = {}
    /\ state = [gen |-> 0, ref |-> NoRef]
    /\ session = [p \in Proc |-> [at |-> "closed", rev |-> 0]]
    /\ owner = Nobody /\ step = "idle" /\ job = NoJob /\ todo = {}
    /\ failures = 0 /\ original = live /\ doubt = FALSE /\ overlap = FALSE

\* The lock is refused to a session whose revision is not the one on disk; a
\* command that has not locked yet read State as late as it pleases.
Lock(p, first) ==
    /\ owner = Nobody
    /\ session[p].at = "closed" \/ session[p].rev = state.gen
    /\ owner' = p /\ step' = first

Release(p, at) ==
    /\ owner' = Nobody /\ step' = "idle" /\ job' = NoJob /\ todo' = {}
    /\ session' = [session EXCEPT ![p] =
                      [at |-> at, rev |-> IF at = "closed" THEN 0 ELSE state.gen]]

\* The command ends, as it must when its revision is not the one on disk.
Close(p) ==
    /\ session[p].at # "closed" /\ owner # p
    /\ session' = [session EXCEPT ![p] = [at |-> "closed", rev |-> 0]]
    /\ UNCHANGED <<files, state, owner, step, job, todo, history>>

\* A commit that carries no credential transition: usage, selection, another
\* account.  It looks at no credential journal.
OrdinaryCommit(p) ==
    /\ session[p].at \in {"recovered", "committed"}
    /\ owner = Nobody /\ session[p].rev = state.gen
    /\ state.gen \in 1 .. MaxGen - 1
    /\ state' = [state EXCEPT !.gen = @ + 1]
    /\ session' = [session EXCEPT ![p] = [at |-> "committed", rev |-> state.gen + 1]]
    /\ UNCHANGED <<files, owner, step, job, todo, history>>

-----------------------------------------------------------------------------
(* Recovery, the first locked section of every command that mutates.       *)

Recover(p) ==
    /\ Lock(p, "updates")
    /\ session' = [session EXCEPT ![p].rev = state.gen]
    /\ UNCHANGED <<files, state, job, todo, history>>

\* A stage no journal owns is a plaintext copy nobody will ask for.
CleanOrphan(p) ==
    /\ owner = p /\ step = "updates" /\ ~\E t \in Tx : PhaseUpdateDiffers(t)
    /\ \E t \in Tx : /\ journal[t] = Absent /\ evidence[t]["stage"] # Absent
                     /\ evidence' = [evidence EXCEPT ![t]["stage"] = Absent]
    /\ UNCHANGED <<live, journal, update, aside, state, session, owner, step, job, todo,
                   history>>

\* Seeded bug: stages without a journal are left to lie.
ListAtOnce(p) ==
    /\ owner = p /\ step = "updates" /\ ~\E t \in Tx : PhaseUpdateDiffers(t)
    /\ update' = [t \in Tx |-> Absent]
    /\ todo' = {t \in Tx : journal[t] # Absent}
    /\ step' = "journals"
    /\ UNCHANGED <<live, evidence, journal, aside, state, session, owner, job, history>>

\* A leftover phase change is removed only when it says what the journal says.
ListJournals(p) ==
    /\ owner = p /\ step = "updates" /\ ~\E t \in Tx : PhaseUpdateDiffers(t)
    /\ ~\E t \in Tx : journal[t] = Absent /\ evidence[t]["stage"] # Absent
    /\ update' = [t \in Tx |-> Absent]
    /\ todo' = {t \in Tx : journal[t] # Absent}
    /\ step' = "journals"
    /\ UNCHANGED <<live, evidence, journal, aside, state, session, owner, job, history>>

\* The next journal, in the order of the UUIDs: any.
TakeJournal(p) ==
    /\ owner = p /\ step = "journals"
    /\ \E t \in todo :
        /\ \/ Decided(t, "restore") /\ step' = "token"
           \/ Decided(t, "finalize") /\ step' = "clean"
        /\ job' = [tx |-> t, plan |-> Plan(t), route |-> "recover", phase |-> "restored"]
        /\ todo' = todo \ {t}
    /\ UNCHANGED <<files, state, session, owner, history>>

Recovered(p) ==
    /\ owner = p /\ step = "journals" /\ todo = {}
    /\ Release(p, "recovered")
    /\ UNCHANGED <<files, state, history>>

-----------------------------------------------------------------------------
(* Staging.  The lock was free between the recovery and this section.      *)

Begin(p, first, base) ==
    /\ session[p].at = "recovered"
    /\ Lock(p, first)
    /\ \E t \in Tx : Fresh(t) /\ job' = [tx |-> t, plan |-> base, route |-> "commit",
                                          phase |-> "prepared"]
    /\ overlap' = (overlap \/ \E t \in Tx : journal[t] # Absent)
    /\ UNCHANGED <<files, state, session, todo, failures, original, doubt>>

\* What a mutation is allowed under the State lock: to replace this reference
\* of this revision.
Permit == [revision |-> state.gen, ref |-> state.ref]

PlanTo(after) ==
    [base |-> Permit.revision, before |-> live, after |-> after,
     beforeRef |-> Permit.ref, afterRef |-> LayoutRef(after)]

\* A raw token is merged into an authorized-user document that exists.
Mergeable(m) == m.slot = "token" => live["document"] = Absent

\* v2 insists on the layout State names; v1 takes any, two slots included.
Import(p, m) ==
    /\ state.gen < MaxGen /\ Mergeable(m)
    /\ state.gen > 0 => /\ \E s \in Slot : live[s] = Absent
                        /\ LayoutRef(live) = state.ref
    /\ Begin(p, "stage", PlanTo(Only(m)))

\* What a v1 account is carried with: its document, with a fresher token
\* merged in, else its token, else a credential embedded in the v1 record.
Carried(m) ==
    IF live["document"] # Absent THEN m.slot = "document"
    ELSE live["token"] \in {Absent, m}

Migrate(p, m) ==
    /\ state.gen = 0 /\ Carried(m)
    /\ Begin(p, "stage", PlanTo(Only(m)))

Remove(p) ==
    /\ state.gen \in 1 .. MaxGen - 1
    /\ state.ref # NoRef /\ LayoutRef(live) = state.ref
    /\ Begin(p, "stage", PlanTo(Empty))

\* A v1 account that cannot be carried: its files are renamed, which nothing
\* undoes, and an empty transaction retires it.
Retire(p) ==
    /\ state.gen = 0
    /\ Begin(p, "quarantine", [PlanTo(Empty) EXCEPT !.before = Empty])

Quarantine(p) ==
    /\ owner = p /\ step = "quarantine"
    /\ \E s \in Slot :
        /\ live[s] # Absent
        /\ s = "document" => live["token"] = Absent
        /\ live' = [live EXCEPT ![s] = Absent]
        /\ aside' = aside \cup {live[s]}
    /\ UNCHANGED <<evidence, journal, update, state, session, owner, step, job, todo, history>>

Quarantined(p) ==
    /\ owner = p /\ step = "quarantine" /\ live = Empty
    /\ step' = "stage"
    /\ UNCHANGED <<files, state, session, owner, job, todo, history>>

WriteEvidence(p) ==
    /\ owner = p /\ step = "stage"
    /\ LET missing == Unstaged(job.tx, job.plan)
           k == First(missing, StageRank(job.plan))
       IN  /\ missing # {}
           /\ evidence' = [evidence EXCEPT ![job.tx][k] = Staged(job.plan)[k]]
    /\ UNCHANGED <<live, journal, update, aside, state, session, owner, step, job, todo,
                   history>>

WriteJournal(p) ==
    /\ owner = p /\ step = "stage" /\ Unstaged(job.tx, job.plan) = {}
    /\ journal' = [journal EXCEPT ![job.tx] = [plan |-> job.plan, phase |-> "prepared"]]
    /\ step' = "move"
    /\ UNCHANGED <<live, evidence, update, aside, state, session, owner, job, todo, history>>

-----------------------------------------------------------------------------
(* Publishing.                                                             *)

\* The slot that must be empty before the target is replaced.
Leaving(plan) == IF Deleting(plan) THEN Target(plan) ELSE Opposite[Target(plan)]

EnterPhase(phase) ==
    /\ job' = [job EXCEPT !.phase = phase]
    /\ step' = "phase"

MoveAway(p) ==
    /\ owner = p /\ step = "move"
    /\ LET s == Leaving(job.plan)
       IN  /\ live[s] # Absent
           /\ live' = [live EXCEPT ![s] = Absent]
           /\ evidence' = [evidence EXCEPT ![job.tx][Tombstone[s]] = live[s]]
    /\ EnterPhase(IF Deleting(job.plan) THEN "published" ELSE "opposite_moved")
    /\ UNCHANGED <<journal, update, aside, state, session, owner, todo, history>>

PublishPurge(p) ==
    /\ owner = p /\ step = "move" /\ Purging(job.plan)
    /\ EnterPhase("published")
    /\ UNCHANGED <<files, state, session, owner, todo, history>>

Replace(p) ==
    /\ owner = p /\ step \in {"move", "replace"} /\ ~Deleting(job.plan)
    /\ step = "move" => live[Leaving(job.plan)] = Absent
    /\ live' = [live EXCEPT ![Target(job.plan)] = evidence[job.tx]["stage"]]
    /\ evidence' = [evidence EXCEPT ![job.tx]["stage"] = Absent]
    /\ EnterPhase("published")
    /\ UNCHANGED <<journal, update, aside, state, session, owner, todo, history>>

\* A phase is written beside the journal and renamed over it.
WriteUpdate(p) ==
    /\ owner = p /\ step = "phase" /\ update[job.tx] = Absent
    /\ update' = [update EXCEPT ![job.tx] = [plan |-> job.plan, phase |-> job.phase]]
    /\ UNCHANGED <<live, evidence, journal, aside, state, session, owner, step, job, todo,
                   history>>

ReplaceJournal(p) ==
    /\ owner = p /\ step = "phase" /\ update[job.tx] # Absent
    /\ journal' = [journal EXCEPT ![job.tx] = update[job.tx]]
    /\ update' = [update EXCEPT ![job.tx] = Absent]
    /\ step' = CASE job.phase = "opposite_moved" -> "replace"
                 [] job.phase = "published" -> "commit"
                 [] job.phase = "restored" -> "clean"
    /\ UNCHANGED <<live, evidence, aside, state, session, owner, job, todo, history>>

-----------------------------------------------------------------------------
(* The commit of State, and its rollback.                                  *)

\* The journal, read again from disk, is published and tells of the same
\* revision, references and new layout as the transaction.
JournalProves(t, plan) ==
    /\ Written(t) /\ journal[t].phase = "published"
    /\ Plan(t).base = plan.base
    /\ Plan(t).beforeRef = plan.beforeRef /\ Plan(t).afterRef = plan.afterRef
    /\ LayoutRef(Plan(t).after) = plan.afterRef

\* The proof is also held against State and what State is about to say.
Commit(p) ==
    /\ owner = p /\ step = "commit"
    /\ JournalProves(job.tx, job.plan)
    /\ job.plan.base = state.gen /\ job.plan.beforeRef = state.ref
    /\ state' = [gen |-> state.gen + 1, ref |-> job.plan.afterRef]
    /\ step' = "clean"
    /\ UNCHANGED <<files, session, owner, job, todo, history>>

\* Seeded bug: a refused commit cleans up without rolling back.
FailWithoutRollback(p) ==
    /\ owner = p /\ step = "commit" /\ failures < MaxFailures
    /\ failures' = failures + 1
    /\ job' = [job EXCEPT !.route = "rollback"]
    /\ step' = "clean"
    /\ UNCHANGED <<files, state, session, owner, todo, original, doubt, overlap>>

\* The proof is refused or the commit fails, possibly after it took effect:
\* either way the credential is rolled back.
CommitFails(p) ==
    /\ owner = p /\ step = "commit" /\ failures < MaxFailures
    /\ failures' = failures + 1
    /\ \/ UNCHANGED <<state, doubt>>
       \/ /\ state' = [gen |-> state.gen + 1, ref |-> job.plan.afterRef]
          /\ doubt' = TRUE
    /\ job' = [job EXCEPT !.route = "rollback", !.phase = "restored"]
    /\ step' = "token"
    /\ UNCHANGED <<files, session, owner, todo, original, overlap>>

Restorable(s) ==
    IF job.plan.before[s] # Absent
    THEN evidence[job.tx][Source(job.tx, s)] = job.plan.before[s]
    ELSE job.plan.after[s] = Absent \/ live[s] \in {Absent, job.plan.after[s]}

\* A slot that was occupied gets its original back, a new one is removed.
RestoreSlot(p, s) ==
    LET before == job.plan.before[s]
    IN  /\ owner = p /\ step = s /\ Restorable(s)
        /\ live' = IF before = Absent /\ job.plan.after[s] = Absent THEN live
                   ELSE [live EXCEPT ![s] = before]
        /\ evidence' = IF before \in {Absent, live[s]} THEN evidence
                       ELSE [evidence EXCEPT ![job.tx][Source(job.tx, s)] = Absent]
        /\ step' = IF s = "token" THEN "document" ELSE "phase"
        /\ UNCHANGED <<journal, update, aside, state, session, owner, job, todo, history>>

-----------------------------------------------------------------------------
(* Evidence goes first, the journal last.                                  *)

Discard(p) ==
    /\ owner = p /\ step = "clean" /\ Kept(job.tx) # {}
    /\ evidence' = [evidence EXCEPT ![job.tx][First(Kept(job.tx), CleanRank)] = Absent]
    /\ UNCHANGED <<live, journal, update, aside, state, session, owner, step, job, todo,
                   history>>

RemoveJournal(p) ==
    /\ owner = p /\ step = "clean" /\ Kept(job.tx) = {}
    /\ ~\E t \in Tx : PhaseUpdateDiffers(t)
    /\ update' = [t \in Tx |-> Absent]
    /\ journal' = [journal EXCEPT ![job.tx] = Absent]
    /\ \/ /\ job.route = "recover"
          /\ job' = NoJob /\ step' = "journals"
          /\ UNCHANGED <<session, owner, todo>>
       \/ /\ job.route # "recover"
          /\ Release(p, IF job.route = "commit" THEN "committed" ELSE "closed")
    /\ UNCHANGED <<live, evidence, aside, state, history>>

-----------------------------------------------------------------------------
(* Commands that end early.                                                *)

\* A conflict, or evidence that is missing: everything stays as it is.
Stuck ==
    \/ /\ step = "updates" \/ (step = "clean" /\ Kept(job.tx) = {})
       /\ \E t \in Tx : PhaseUpdateDiffers(t)
    \/ step = "journals" /\ \E t \in todo : ~Decided(t, "restore") /\ ~Decided(t, "finalize")
    \/ step \in Slot /\ ~Restorable(step)

GiveUp(p) ==
    /\ owner = p /\ Stuck
    /\ Release(p, "closed")
    /\ UNCHANGED <<files, state, history>>

\* A kill, between two steps or in the middle of writing a file.
Kill(p) ==
    /\ owner = p /\ failures < MaxFailures
    /\ failures' = failures + 1
    /\ Release(p, "closed")
    /\ \/ UNCHANGED <<evidence, journal, update>>
       \/ /\ step = "stage" /\ Unstaged(job.tx, job.plan) # {}
          /\ LET k == First(Unstaged(job.tx, job.plan), StageRank(job.plan))
             IN  evidence' = [evidence EXCEPT ![job.tx][k] = Torn]
          /\ UNCHANGED <<journal, update>>
       \/ /\ step = "stage" /\ Unstaged(job.tx, job.plan) = {}
          /\ journal' = [journal EXCEPT ![job.tx] = Torn]
          /\ UNCHANGED <<evidence, update>>
       \/ /\ step = "phase" /\ update[job.tx] = Absent
          /\ update' = [update EXCEPT ![job.tx] = Torn]
          /\ UNCHANGED <<evidence, journal>>
    /\ UNCHANGED <<live, aside, state, original, doubt, overlap>>

Step(p) ==
    \/ Close(p) \/ OrdinaryCommit(p)
    \/ Recover(p) \/ CleanOrphan(p) \/ ListJournals(p)
    \/ TakeJournal(p) \/ Recovered(p)
    \/ \E m \in Material : Import(p, m) \/ Migrate(p, m)
    \/ Remove(p) \/ Retire(p) \/ Quarantine(p) \/ Quarantined(p)
    \/ WriteEvidence(p) \/ WriteJournal(p)
    \/ MoveAway(p) \/ PublishPurge(p) \/ Replace(p) \/ WriteUpdate(p) \/ ReplaceJournal(p)
    \/ Commit(p) \/ CommitFails(p) \/ \E s \in Slot : RestoreSlot(p, s)
    \/ Discard(p) \/ RemoveJournal(p) \/ GiveUp(p) \/ Kill(p)

Next == \E p \in Proc : Step(p)

Spec == Init /\ [][Next]_vars

-----------------------------------------------------------------------------
(* Properties.                                                             *)

Contents == Material \cup {Absent, Torn}

\* Type invariant.
CredTypeOK ==
    /\ live \in Layout /\ original \in Layout /\ aside \subseteq Material
    /\ evidence \in [Tx -> [Evidence -> Contents]]
    /\ journal \in [Tx -> Journals \cup {Absent, Torn}]
    /\ update \in [Tx -> Journals \cup {Absent, Torn}]
    /\ state \in [gen : 0 .. MaxGen, ref : Refs]
    /\ session \in [Proc -> [at : {"closed", "recovered", "committed"},
                              rev : 0 .. MaxGen]]
    /\ owner \in Proc \cup {Nobody}
    /\ step \in {"idle", "updates", "journals", "quarantine", "stage", "move", "replace",
                 "phase", "commit", "token", "document", "clean"}
    /\ job \in Jobs \cup {NoJob}
    /\ todo \subseteq Tx
    /\ failures \in 0 .. MaxFailures /\ {doubt, overlap} \subseteq BOOLEAN

\* When nobody works on the account and its live files are not the credential
\* State refers to, a journal is there that knows the reference and whose
\* evidence still proves both of its layouts: no kill, wherever it falls in
\* staging, publishing, rollback or cleanup, leaves State and the files
\* disagreeing with nothing left to settle it by.
DriftIsJournalled ==
    (state.gen > 0 /\ owner = Nobody /\ ~doubt /\ ~overlap /\ LayoutRef(live) # state.ref) =>
        \E t \in Tx : /\ Written(t) /\ Rebuilds(t)
                      /\ state.ref \in {Plan(t).beforeRef, Plan(t).afterRef}

Holding(ref) ==
    \/ \E s \in Slot : live[s] # Absent /\ Ref(live[s]) = ref
    \/ \E t \in Tx, k \in Evidence :
          evidence[t][k] \in Material /\ Ref(evidence[t][k]) = ref

\* At every instant, the middle of every transaction included, a complete
\* file holds the credential State refers to.
ReferencedKept ==
    (state.gen > 0 /\ state.ref # NoRef /\ ~doubt) => Holding(state.ref)

\* Until State is v2, every credential the v1 account was found with is still
\* in some file: live, staged away or quarantined.
LegacySurvives ==
    (state.gen = 0 /\ ~overlap) =>
        \A s \in Slot : original[s] # Absent =>
            \/ original[s] \in aside
            \/ \E x \in Slot : live[x] = original[s]
            \/ \E t \in Tx, k \in Evidence : evidence[t][k] = original[s]

\* A recovery that reports success leaves no journal, no half-written phase
\* and no unowned stage; the live files are what State refers to or, in v1,
\* what the account was found with (less what was quarantined).
RecoveryConverges ==
    [][\A p \in Proc :
        (owner = p /\ session[p].at # "recovered" /\ session'[p].at = "recovered") =>
            /\ \A t \in Tx : journal'[t] = Absent /\ update'[t] = Absent
                             /\ evidence'[t]["stage"] = Absent
            /\ (state'.gen > 0 /\ ~doubt' /\ ~overlap') => LayoutRef(live') = state'.ref
            /\ (state'.gen = 0 /\ ~overlap') =>
                 \A s \in Slot : live'[s] = original[s] \/ original[s] \in aside']_vars

=============================================================================
