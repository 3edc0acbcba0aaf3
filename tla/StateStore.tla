----------------------------- MODULE StateStore -----------------------------
(***************************************************************************)
(* core/state_store.rs: sessions over state.json.  A session reads the     *)
(* document without a lock (StateStore::read), keeps the revision it saw,  *)
(* and commits through with_locked_exact: read again, preflight the        *)
(* directory, take the lock, check that nothing moved, remove the stages   *)
(* nobody refers to, recover, compare the revision, run the transaction.   *)
(*                                                                         *)
(* The pure read is three separate file reads, so commits of other         *)
(* processes fall between them.  Below the lock everything is AtomicStore. *)
(*                                                                         *)
(* Abstractions: a document is its generation and a body; generation 0     *)
(* stands for a version-1 document; the schema and inventory checks, which *)
(* only reject files sagy never writes, and the syntax quarantine are left *)
(* out.  The proofs a commit demands are the business of other modules.    *)
(***************************************************************************)
EXTENDS AtomicStore

CONSTANTS
    Body,       \* what a document says besides its generation
    MaxGen,     \* bound: generations
    NoView      \* nothing read

ASSUME DocAssumption ==
    /\ MaxGen \in Nat
    /\ Doc = [gen : 0..MaxGen, body : Body]
    /\ NoView \notin Value \cup Content

VARIABLES
    sess,       \* where each session is
    purpose,    \* why it reads: to open itself, or to commit
    view,       \* what the running read has seen so far
    revision,   \* the revision the session holds
    before,     \* the preflight snapshot with_locked_exact compares with
    orphans,    \* adoption: orphan stages still to be removed
    populated,  \* the root holds something: a document, or the lock file
    acked       \* history: highest generation answered "committed"

sessionVars == <<sess, purpose, view, revision, before, orphans, populated, acked>>
allVars == <<vars, sessionVars>>

Reading  == {"target", "journal", "stage"}
Inside   == {"adopt", "orphans", "orphan_sync", "recovering", "txn", "committing"}
Sessions == {"closed", "open", "preflight", "lock", "claim"} \cup Reading \cup Inside

View == [live : Value, journal : Journal \cup {NoJournal}]

SessionTypeOK ==
    /\ sess \in [Proc -> Sessions]
    /\ purpose \in [Proc -> {"open", "commit"}]
    /\ view \in [Proc -> View \cup {NoView}]
    /\ revision \in [Proc -> Value \cup {NoView}]
    /\ before \in [Proc -> Content \cup {NoView}]
    /\ orphans \in [Proc -> SUBSET ({"stage", "jstage"} \X Tx)]
    /\ populated \in BOOLEAN
    /\ acked \in 0..MaxGen

Generation(v) == IF v = Missing THEN 0 ELSE v.gen

SessionInit ==
    /\ Init /\ Generation(disk.live) = 0
    /\ sess = [p \in Proc |-> "closed"]
    /\ purpose = [p \in Proc |-> "open"]
    /\ view = [p \in Proc |-> NoView]
    /\ revision = [p \in Proc |-> NoView]
    /\ before = [p \in Proc |-> NoView]
    /\ orphans = [p \in Proc |-> {}]
    /\ populated = (disk.live # Missing)
    /\ acked = 0

---------------------------------------------------------------------------
(* StateStore::read: the document, its journal, the stage the journal      *)
(* refers to (inspect_recovery_from_normalized).                           *)

Store == UNCHANGED vars

Move(p, step) == sess' = [sess EXCEPT ![p] = step]

StartRead(p, why) ==
    /\ Move(p, "target")
    /\ purpose' = [purpose EXCEPT ![p] = why]

OpenSession(p) ==
    /\ sess[p] = "closed"
    /\ StartRead(p, "open")
    /\ Store /\ UNCHANGED <<view, revision, before, orphans, populated, acked>>

\* Only a session whose revision can still grow commits (bound MaxGen).
StartCommit(p) ==
    /\ sess[p] = "open" /\ Generation(revision[p]) < MaxGen /\ used # Tx
    /\ StartRead(p, "commit")
    /\ Store /\ UNCHANGED <<view, revision, before, orphans, populated, acked>>

CloseSession(p) ==
    /\ sess[p] = "open"
    /\ Move(p, "closed") /\ revision' = [revision EXCEPT ![p] = NoView]
    /\ Store /\ UNCHANGED <<purpose, view, before, orphans, populated, acked>>

ReadTarget(p) ==
    /\ sess[p] = "target"
    /\ view' = [view EXCEPT ![p] = [live |-> disk.live, journal |-> NoJournal]]
    /\ Move(p, "journal")
    /\ Store /\ UNCHANGED <<purpose, revision, before, orphans, populated, acked>>

\* The read succeeded: open the session, or go on if the revision still holds.
ReadDone(p) ==
    /\ view' = [view EXCEPT ![p] = NoView]
    /\ \/ /\ purpose[p] = "open" /\ Move(p, "open")
          /\ revision' = [revision EXCEPT ![p] = view[p].live]
       \/ /\ purpose[p] = "commit" /\ view[p].live = revision[p]
          /\ Move(p, "preflight") /\ UNCHANGED revision
       \/ /\ purpose[p] = "commit" /\ view[p].live # revision[p]
          /\ Move(p, "open") /\ UNCHANGED revision

ReadFailed(p) ==
    /\ view' = [view EXCEPT ![p] = NoView]
    /\ Move(p, IF purpose[p] = "open" THEN "closed" ELSE "open")
    /\ UNCHANGED revision

ReadJournal(p) ==
    /\ sess[p] = "journal"
    /\ \/ disk.journal = NoJournal /\ ReadDone(p)
       \/ /\ disk.journal # NoJournal
          /\ view[p].live \notin {disk.journal.base, disk.journal.target}
          /\ ReadFailed(p)
       \/ /\ disk.journal # NoJournal
          /\ view[p].live \in {disk.journal.base, disk.journal.target}
          /\ view' = [view EXCEPT ![p].journal = disk.journal]
          /\ Move(p, "stage") /\ UNCHANGED revision
    /\ Store /\ UNCHANGED <<purpose, before, orphans, populated, acked>>

\* The stage must be there and have the digest the journal promises.
Inspectable(j, d) == d.stage[j.tx] = j.target

ReadStage(p) ==
    /\ sess[p] = "stage"
    /\ \/ Inspectable(view[p].journal, disk) /\ ReadDone(p)
       \/ ~Inspectable(view[p].journal, disk) /\ ReadFailed(p)
    /\ Store /\ UNCHANGED <<purpose, before, orphans, populated, acked>>

---------------------------------------------------------------------------
(* with_locked_exact: adoption of the populated root.                      *)

\* preflight_existing and the validator: a stage that is there must be intact.
PreflightValid(d) ==
    d.journal # NoJournal => d.stage[d.journal.tx] \in {d.journal.target, Missing}

Preflight(p) ==
    /\ sess[p] = "preflight" /\ populated
    /\ \/ /\ PreflightValid(disk)
          /\ before' = [before EXCEPT ![p] = disk] /\ Move(p, "lock")
       \/ /\ ~PreflightValid(disk) /\ UNCHANGED before /\ Move(p, "open")
    /\ Store /\ UNCHANGED <<purpose, view, revision, orphans, populated, acked>>

\* Opening the lock file creates it.
TakeLock(p) ==
    /\ sess[p] = "lock"
    /\ Acquire(p) /\ populated' = TRUE
    /\ Move(p, "adopt") /\ UNCHANGED <<purpose, view, revision, before, orphans, acked>>

\* A root with nothing in it is claimed: lock_exact without an adoption.
Claim(p) ==
    /\ sess[p] = "preflight" /\ ~populated
    /\ Move(p, "claim")
    /\ Store /\ UNCHANGED <<purpose, view, revision, before, orphans, populated, acked>>

LockClaimed(p) ==
    /\ sess[p] = "claim"
    /\ Acquire(p) /\ populated' = TRUE
    /\ Move(p, "orphans") /\ UNCHANGED <<purpose, view, revision, before, orphans, acked>>

LeaveSession(p) ==
    /\ Move(p, "open")
    /\ before' = [before EXCEPT ![p] = NoView]
    /\ orphans' = [orphans EXCEPT ![p] = {}]

\* Leaving the transaction drops the guard.
Leave(p) == Release(p) /\ LeaveSession(p)

\* Stages no journal refers to, which adoption removes under the lock.
OrphanStages(d) ==
    {<<"stage", t>> : t \in {u \in Tx : /\ d.stage[u] # Missing
                                        /\ d.journal # NoJournal => d.journal.tx # u}}
    \cup {<<"jstage", t>> : t \in d.jstages}

\* The second preflight, under the lock, must equal the first.
Adopt(p) ==
    /\ sess[p] = "adopt"
    /\ \/ /\ disk = before[p]
          /\ orphans' = [orphans EXCEPT ![p] = OrphanStages(disk)]
          /\ Move(p, "orphans") /\ Store /\ UNCHANGED <<before, revision>>
       \/ disk # before[p] /\ Leave(p) /\ UNCHANGED revision
    /\ UNCHANGED <<purpose, view, populated, acked>>

LockedFrame == UNCHANGED <<lock, pc, ctx, job, verdict, answer, used, applied,
                           crashes, foreign>>

WithoutOrphan(o) ==
    IF o[1] = "stage" THEN WithoutStage(o[2]) ELSE WithoutJournalStage(o[2])

RemoveOrphan(p) ==
    /\ sess[p] = "orphans"
    /\ \E o \in orphans[p] :
         /\ Mutate(WithoutOrphan(o))
         /\ orphans' = [orphans EXCEPT ![p] = @ \ {o}]
    /\ Move(p, "orphan_sync")
    /\ LockedFrame /\ UNCHANGED <<faults, purpose, view, revision, before, populated, acked>>

SyncOrphan(p) ==
    /\ sess[p] = "orphan_sync"
    /\ SyncDirectory /\ Move(p, "orphans")
    /\ LockedFrame
    /\ UNCHANGED <<faults, purpose, view, revision, before, orphans, populated, acked>>

OrphanFails(p) ==
    /\ \/ sess[p] = "orphan_sync"
       \/ sess[p] = "orphans" /\ orphans[p] # {}
    /\ SpendFault /\ Forget({p}) /\ LeaveSession(p)
    /\ Untouched
    /\ UNCHANGED <<used, crashes, foreign, purpose, view, revision, populated, acked>>

StartRecovery(p) ==
    /\ sess[p] = "orphans" /\ orphans[p] = {}
    /\ CallRecover(p)
    /\ Move(p, "recovering")
    /\ UNCHANGED <<purpose, view, revision, before, orphans, populated, acked>>

\* check_exact: compare under the lock what the session expects.
CheckExact(p) ==
    /\ sess[p] = "recovering" /\ pc[p] = "held"
    /\ \/ /\ answer[p] \in Outcomes /\ disk.live = revision[p]
          /\ Move(p, "txn") /\ Store /\ UNCHANGED <<before, orphans>>
       \/ /\ answer[p] \in Errors \/ disk.live # revision[p]
          /\ Leave(p)
    /\ UNCHANGED <<purpose, view, revision, populated, acked>>

---------------------------------------------------------------------------
(* The transaction: commits against the revision it holds, any number.     *)

\* next_generation and encode: the next document.
Successor(v, b) == [gen |-> Generation(v) + 1, body |-> b]

CommitExact(p, b) ==
    /\ sess[p] = "txn" /\ Generation(revision[p]) < MaxGen
    /\ CallCommit(p, revision[p], Successor(revision[p], b))
    /\ Move(p, "committing")
    /\ UNCHANGED <<purpose, view, revision, before, orphans, populated, acked>>

Committed(p) ==
    /\ sess[p] = "committing" /\ pc[p] = "held" /\ answer[p] = "committed"
    /\ revision' = [revision EXCEPT ![p] = job[p].new]
    /\ acked' = job[p].new.gen
    /\ Move(p, "txn")
    /\ Store /\ UNCHANGED <<purpose, view, before, orphans, populated>>

\* The commit failed: StateSession::with_locked_exact still takes over the
\* revision it finds under the lock, StateSession::commit_exact keeps its own.
CommitFailed(p) ==
    /\ sess[p] = "committing" /\ pc[p] = "held" /\ answer[p] # "committed"
    /\ Leave(p)
    /\ revision' \in {revision, [revision EXCEPT ![p] = disk.live]}
    /\ UNCHANGED <<purpose, view, populated, acked>>

EndTransaction(p) ==
    /\ sess[p] = "txn"
    /\ Leave(p) /\ UNCHANGED <<purpose, view, revision, populated, acked>>

---------------------------------------------------------------------------
StoreStep(p) == Internal(p) /\ UNCHANGED sessionVars

KillSession(p) ==
    /\ Kill(p)
    /\ Move(p, "closed")
    /\ before' = [before EXCEPT ![p] = NoView]
    /\ orphans' = [orphans EXCEPT ![p] = {}]
    /\ revision' = [revision EXCEPT ![p] = NoView]
    /\ UNCHANGED <<purpose, view, populated, acked>>

PowerFailureAll ==
    /\ PowerFailure
    /\ sess' = [p \in Proc |-> "closed"]
    /\ purpose' = [p \in Proc |-> "open"]
    /\ view' = [p \in Proc |-> NoView]
    /\ revision' = [p \in Proc |-> NoView]
    /\ before' = [p \in Proc |-> NoView]
    /\ orphans' = [p \in Proc |-> {}]
    /\ UNCHANGED <<populated, acked>>

Read(p) == ReadTarget(p) \/ ReadJournal(p) \/ ReadStage(p)

\* Everything a transaction does once it has begun, but waiting for the lock.
Transact(p) ==
    \/ Preflight(p) \/ Claim(p) \/ Adopt(p) \/ RemoveOrphan(p) \/ SyncOrphan(p)
    \/ OrphanFails(p) \/ StartRecovery(p)
    \/ CheckExact(p) \/ Committed(p) \/ CommitFailed(p) \/ StoreStep(p)

SessionNext ==
    \/ \E p \in Proc :
         \/ OpenSession(p) \/ StartCommit(p) \/ CloseSession(p)
         \/ Read(p) \/ TakeLock(p) \/ LockClaimed(p) \/ Transact(p) \/ EndTransaction(p)
         \/ \E b \in Body : CommitExact(p, b)
         \/ KillSession(p)
    \/ PowerFailureAll

SessionSpec == SessionInit /\ [][SessionNext]_allVars

---------------------------------------------------------------------------
(* Properties.                                                             *)

\* No update is lost: the document's generation only ever grows by one, from
\* the very document the committing session had read.
GenerationsAdvanceByOne ==
    [][disk'.live # disk.live /\ crashes' = crashes =>
         /\ Generation(disk'.live) = Generation(disk.live) + 1
         /\ \E p \in Proc : revision[p] = disk.live]_allVars

\* A commit a session was told of is never undone, not by a stale session, not
\* by recovery, not by a power failure.
AcknowledgedCommitsSurvive == \A s \in survivors : Generation(s.live) >= acked

\* Adoption never takes the stage of a running commit for an orphan.
InFlightStageSafe ==
    \A p \in Proc :
        pc[p] \in {"jstage", "publish", "publish_sync", "replace"} =>
            disk.stage[job[p].tx] = job[p].new

=============================================================================
