---------------------------- MODULE AtomicStore ----------------------------
(***************************************************************************)
(* core/atomic_store.rs: compare-and-swap of ONE document (state.json)     *)
(* through a prepared journal, by processes that share a file lock.        *)
(*                                                                         *)
(* Every system call that changes the directory and every directory fsync  *)
(* is a step of its own, so that a process can be killed, or the machine   *)
(* can stop, between any two of them.  A system call or an fsync may also  *)
(* fail; the handlers of those failures (rollback_after_not_applied,       *)
(* reconcile_uncertain, resolve_without_journal) are modelled in full.     *)
(*                                                                         *)
(* Abstractions: a document is identified with its SHA-256 digest; the     *)
(* syntax checks of the journal (version, txid spelling, locators) are     *)
(* left out, since only this code writes journals; reading is one step.    *)
(***************************************************************************)
EXTENDS DurableDirectory, Naturals

CONSTANTS
    Proc,         \* processes that open the store
    Doc,          \* document contents
    Tx,           \* transaction ids (Uuid::new_v4): never used twice
    Missing,      \* no file of that name
    Torn,         \* a file whose write did not finish or was not fsynced
    NoJournal,    \* no journal file
    Nobody,       \* the lock is free
    NoTx,         \* no transaction id drawn yet
    NoJob,        \* no commit call made yet
    MaxCrashes,   \* bound: kills and power failures
    MaxFaults,    \* bound: failing system calls
    MaxForeign    \* bound: writes of the document that bypass the lock

Value   == Doc \cup {Missing}
Journal == [base : Value, target : Doc, tx : Tx]
Job     == [exp : Value, new : Doc, tx : Tx \cup {NoTx},
            phase : {"publication", "mutation"}]

ASSUME ConstantAssumption ==
    /\ Missing \notin Doc
    /\ Torn \notin Value
    /\ Nobody \notin Proc
    /\ NoTx \notin Tx
    /\ NoJournal \notin Journal
    /\ NoJob \notin Job
    /\ {MaxCrashes, MaxFaults, MaxForeign} \subseteq Nat

Content == [live    : Value,                        \* the target document
            journal : Journal \cup {NoJournal},     \* the fixed journal
            stage   : [Tx -> Value \cup {Torn}],    \* .sagy-<tx>.staged
            jstages : SUBSET Tx]                    \* .sagy-<tx>.journal.staged

VARIABLES
    lock,      \* holder of the target-derived lock file
    pc,        \* where each process is
    ctx,       \* the call a step belongs to: see Contexts
    job,       \* locals of commit_locked: expected, new, txid, phase
    verdict,   \* what to answer when the running cleanup succeeds
    answer,    \* what the last call returned
    used,      \* transaction ids already drawn
    applied,   \* history: this call renamed its stage over the target
    crashes, faults, foreign

vars == <<disk, survivors, lock, pc, ctx, job, verdict, answer, used,
          applied, crashes, faults, foreign>>

\* "recover": the recover call itself; "commit": commit_locked up to its
\* digest check; "publish": its writes; "finalize" and "rollback":
\* finalize_journal and rollback_after_not_applied; "reconcile" and "retry":
\* the first and the second recovery pass of reconcile_uncertain.
Contexts == {"recover", "commit", "publish", "finalize", "rollback",
             "reconcile", "retry"}
Outcomes == {"clean", "finalized", "rolled_back"}
Errors   == {"reconcile", "recovery_conflict", "io"}
Answers  == {"none", "committed", "conflict", "not_applied"} \cup Outcomes \cup Errors
Steps    == {"idle", "held", "recover", "unstage", "unstage_sync", "unjournal",
             "unjournal_sync", "check", "stage", "fill", "jstage", "publish",
             "publish_sync", "replace", "replace_sync", "resolve", "retry",
             "dropstage", "dropstage_sync"}

\* p is inside commit_locked; it has drawn its transaction id.
Committing(p) == pc[p] \notin {"idle", "held"} /\ ctx[p] # "recover"
Writing(p)    == Committing(p) /\ ctx[p] # "commit"

TypeOK ==
    /\ disk \in Content /\ disk \in survivors
    /\ survivors \subseteq Content
    /\ lock \in Proc \cup {Nobody}
    /\ pc \in [Proc -> Steps]
    /\ ctx \in [Proc -> Contexts]
    /\ job \in [Proc -> Job \cup {NoJob}]
    /\ verdict \in [Proc -> Answers]
    /\ answer \in [Proc -> Answers]
    /\ used \subseteq Tx
    /\ applied \in [Proc -> BOOLEAN]
    /\ crashes \in Nat /\ faults \in Nat /\ foreign \in Nat

\* Any document may be there before sagy opens the store; no journal is.
Init ==
    /\ \E d \in Value :
         InitDirectory([live |-> d, journal |-> NoJournal,
                        stage |-> [t \in Tx |-> Missing], jstages |-> {}])
    /\ lock = Nobody
    /\ pc = [p \in Proc |-> "idle"]
    /\ ctx = [p \in Proc |-> "recover"]
    /\ job = [p \in Proc |-> NoJob]
    /\ verdict = [p \in Proc |-> "none"]
    /\ answer = [p \in Proc |-> "none"]
    /\ used = {}
    /\ applied = [p \in Proc |-> FALSE]
    /\ crashes = 0 /\ faults = 0 /\ foreign = 0

---------------------------------------------------------------------------
(* How a step continues.  Each operator fixes pc, ctx, verdict and answer. *)

Goto(p, step) ==
    pc' = [pc EXCEPT ![p] = step] /\ UNCHANGED <<ctx, verdict, answer>>

Enter(p, context, step) ==
    /\ pc' = [pc EXCEPT ![p] = step]
    /\ ctx' = [ctx EXCEPT ![p] = context]
    /\ UNCHANGED <<verdict, answer>>

\* Remove files first, then answer a.
CleanThen(p, step, a) ==
    /\ pc' = [pc EXCEPT ![p] = step]
    /\ verdict' = [verdict EXCEPT ![p] = a]
    /\ UNCHANGED <<ctx, answer>>

Return(p, a) ==
    /\ pc' = [pc EXCEPT ![p] = "held"]
    /\ answer' = [answer EXCEPT ![p] = a]
    /\ verdict' = [verdict EXCEPT ![p] = "none"]
    /\ UNCHANGED ctx

\* The locals of these processes are gone: their guard was dropped, or they died.
Forget(procs) ==
    /\ pc' = [p \in Proc |-> IF p \in procs THEN "idle" ELSE pc[p]]
    /\ ctx' = [p \in Proc |-> IF p \in procs THEN "recover" ELSE ctx[p]]
    /\ job' = [p \in Proc |-> IF p \in procs THEN NoJob ELSE job[p]]
    /\ verdict' = [p \in Proc |-> IF p \in procs THEN "none" ELSE verdict[p]]
    /\ answer' = [p \in Proc |-> IF p \in procs THEN "none" ELSE answer[p]]
    /\ applied' = [p \in Proc |-> IF p \in procs THEN FALSE ELSE applied[p]]
    /\ lock' = Nobody

\* What the callers of recover_locked do with its result.
Recovered(p, r) ==
    \/ ctx[p] = "recover" /\ Return(p, r)
    \/ ctx[p] = "commit" /\ r \in Outcomes /\ Goto(p, "check")
    \/ ctx[p] = "commit" /\ r \in Errors /\ Return(p, r)
    \/ ctx[p] \in {"reconcile", "retry"} /\ r = "finalized" /\ Return(p, "committed")
    \/ ctx[p] \in {"reconcile", "retry"} /\ r = "rolled_back" /\ Return(p, "not_applied")
    \/ ctx[p] = "reconcile" /\ r = "clean" /\ Goto(p, "resolve")
    \/ ctx[p] = "retry" /\ r = "clean" /\ CleanThen(p, "dropstage", "committed")
    \/ ctx[p] = "reconcile" /\ r = "reconcile" /\ Goto(p, "retry")
    \/ ctx[p] = "reconcile" /\ r \in Errors \ {"reconcile"} /\ Return(p, r)
    \/ ctx[p] = "retry" /\ r \in Errors /\ Return(p, r)

\* cleanup_journal succeeded, or failed, on behalf of one of its callers.
Cleaned(p) ==
    \/ ctx[p] = "finalize" /\ Return(p, "committed")
    \/ ctx[p] = "rollback" /\ Return(p, "not_applied")
    \/ ctx[p] \notin {"finalize", "rollback"} /\ Recovered(p, verdict[p])

\* reconcile_uncertain begins.
Reconcile(p) == Enter(p, "reconcile", "recover")

CleanupFailed(p) ==
    \/ ctx[p] = "finalize" /\ Reconcile(p)
    \/ ctx[p] = "rollback" /\ Return(p, "reconcile")
    \/ ctx[p] \notin {"finalize", "rollback"} /\ Recovered(p, "reconcile")

SpendFault == faults < MaxFaults /\ faults' = faults + 1

---------------------------------------------------------------------------
(* The lock and the calls made under it.                                   *)

\* Seeded bug: the file lock is shared.
AcquireShared(p) ==
    /\ pc[p] = "idle"
    /\ lock' = p
    /\ Return(p, "none")
    /\ Untouched /\ UNCHANGED <<job, used, applied, crashes, faults, foreign>>

Acquire(p) ==
    /\ pc[p] = "idle" /\ lock = Nobody
    /\ lock' = p
    /\ Return(p, "none")
    /\ Untouched /\ UNCHANGED <<job, used, applied, crashes, faults, foreign>>

Release(p) ==
    /\ pc[p] = "held"
    /\ Forget({p})
    /\ Untouched /\ UNCHANGED <<used, crashes, faults, foreign>>

CallRecover(p) ==
    /\ pc[p] = "held"
    /\ Enter(p, "recover", "recover")
    /\ Untouched
    /\ UNCHANGED <<lock, job, used, applied, crashes, faults, foreign>>

CallCommit(p, exp, new) ==
    /\ pc[p] = "held" /\ used # Tx
    /\ Enter(p, "commit", "recover")
    /\ job' = [job EXCEPT ![p] =
                 [exp |-> exp, new |-> new, tx |-> NoTx, phase |-> "publication"]]
    /\ applied' = [applied EXCEPT ![p] = FALSE]
    /\ Untouched /\ UNCHANGED <<lock, used, crashes, faults, foreign>>

---------------------------------------------------------------------------
(* recover_locked and cleanup_journal.                                     *)

\* Steps below change neither the lock nor the counters of the environment.
Frame == UNCHANGED <<lock, used, crashes, foreign>>

RecoverNone(p) ==
    /\ pc[p] = "recover" /\ disk.journal = NoJournal
    /\ Recovered(p, "clean")
    /\ Untouched /\ Frame /\ UNCHANGED <<job, applied, faults>>

\* live == target: make the document durable, then drop the journal.
RecoverFinalize(p) ==
    /\ pc[p] = "recover" /\ disk.journal # NoJournal
    /\ disk.live = disk.journal.target
    /\ \/ SyncDirectory /\ CleanThen(p, "unstage", "finalized") /\ UNCHANGED faults
       \/ Untouched /\ SpendFault /\ Recovered(p, "reconcile")
    /\ Frame /\ UNCHANGED <<job, applied>>

RecoverRollBack(p) ==
    /\ pc[p] = "recover" /\ disk.journal # NoJournal
    /\ disk.live = disk.journal.base /\ disk.live # disk.journal.target
    /\ CleanThen(p, "unstage", "rolled_back")
    /\ Untouched /\ Frame /\ UNCHANGED <<job, applied, faults>>

RecoverConflict(p) ==
    /\ pc[p] = "recover" /\ disk.journal # NoJournal
    /\ disk.live \notin {disk.journal.base, disk.journal.target}
    /\ Recovered(p, "recovery_conflict")
    /\ Untouched /\ Frame /\ UNCHANGED <<job, applied, faults>>

\* The stage cleanup_journal is asked to remove.
StageToClean(p) ==
    IF ctx[p] \in {"finalize", "rollback"} THEN job[p].tx ELSE disk.journal.tx

WithoutStage(t) == [disk EXCEPT !.stage[t] = Missing]

\* remove_file of the stage: nothing to do when it is absent.
RemoveStage(p) ==
    /\ pc[p] = "unstage"
    /\ LET t == StageToClean(p) IN
       \/ disk.stage[t] = Missing /\ Untouched /\ Goto(p, "unjournal") /\ UNCHANGED faults
       \/ disk.stage[t] # Missing /\ Mutate(WithoutStage(t))
            /\ Goto(p, "unstage_sync") /\ UNCHANGED faults
       \/ disk.stage[t] # Missing /\ Untouched /\ SpendFault /\ CleanupFailed(p)
    /\ Frame /\ UNCHANGED <<job, applied>>

SyncRemovedStage(p) ==
    /\ pc[p] = "unstage_sync"
    /\ \/ SyncDirectory /\ Goto(p, "unjournal") /\ UNCHANGED faults
       \/ Untouched /\ SpendFault /\ CleanupFailed(p)
    /\ Frame /\ UNCHANGED <<job, applied>>

RemoveJournal(p) ==
    /\ pc[p] = "unjournal"
    /\ \/ Mutate([disk EXCEPT !.journal = NoJournal])
            /\ Goto(p, "unjournal_sync") /\ UNCHANGED faults
       \/ Untouched /\ SpendFault /\ CleanupFailed(p)
    /\ Frame /\ UNCHANGED <<job, applied>>

SyncRemovedJournal(p) ==
    /\ pc[p] = "unjournal_sync"
    /\ \/ SyncDirectory /\ Cleaned(p) /\ UNCHANGED faults
       \/ Untouched /\ SpendFault /\ CleanupFailed(p)
    /\ Frame /\ UNCHANGED <<job, applied>>

---------------------------------------------------------------------------
(* commit_locked after its recovery pass.                                  *)

\* Seeded bug: the digest is not compared.
CheckNothing(p) ==
    /\ pc[p] = "check"
    /\ Enter(p, "publish", "stage")
    /\ \E t \in Tx \ used : /\ job' = [job EXCEPT ![p].tx = t]
                           /\ used' = used \cup {t}
    /\ Untouched /\ UNCHANGED <<lock, applied, crashes, faults, foreign>>

\* Compare the live digest with the expected one, draw a transaction id.
CheckExpected(p) ==
    /\ pc[p] = "check"
    /\ \/ /\ disk.live # job[p].exp
          /\ Return(p, "conflict")
          /\ UNCHANGED <<job, used>>
       \/ /\ disk.live = job[p].exp
          /\ Enter(p, "publish", "stage")
          /\ \E t \in Tx \ used : /\ job' = [job EXCEPT ![p].tx = t]
                                 /\ used' = used \cup {t}
    /\ Untouched /\ UNCHANGED <<lock, applied, crashes, faults, foreign>>

\* write_staged: create the file, then write and fsync it.
CreateStage(p) ==
    /\ pc[p] = "stage"
    /\ \/ Mutate([disk EXCEPT !.stage[job[p].tx] = Torn]) /\ Goto(p, "fill")
            /\ UNCHANGED faults
       \/ Untouched /\ SpendFault /\ Return(p, "not_applied")
    /\ Frame /\ UNCHANGED <<job, applied>>

Filled(t, d, s) == [s EXCEPT !.stage[t] = IF @ = Missing THEN Missing ELSE d]

FillStage(p) ==
    /\ pc[p] = "fill"
    /\ \/ /\ disk' = Filled(job[p].tx, job[p].new, disk)
          /\ survivors' = {Filled(job[p].tx, job[p].new, s) : s \in survivors}
          /\ Goto(p, "jstage") /\ UNCHANGED faults
       \/ /\ BestEffort(WithoutStage(job[p].tx))
          /\ SpendFault /\ Return(p, "not_applied")
    /\ Frame /\ UNCHANGED <<job, applied>>

\* publish_journal: write and fsync the journal under its staging name, ...
WithJournalStage(t) == [disk EXCEPT !.jstages = @ \cup {t}]

WriteJournalStage(p) ==
    /\ pc[p] = "jstage"
    /\ \/ Mutate(WithJournalStage(job[p].tx)) /\ Goto(p, "publish") /\ UNCHANGED faults
       \/ /\ Mutate(WithJournalStage(job[p].tx)) \/ Untouched \/ SyncDirectory
          /\ SpendFault /\ CleanThen(p, "dropstage", "not_applied")
    /\ Frame /\ UNCHANGED <<job, applied>>

\* ... then rename it over the fixed journal.  A rename that fails is
\* NotApplied on Unix and indeterminate on Windows.
OwnJournal(p) == [base |-> job[p].exp, target |-> job[p].new, tx |-> job[p].tx]

WithoutJournalStage(t) == [disk EXCEPT !.jstages = @ \ {t}]

PublishJournal(p) ==
    /\ pc[p] = "publish"
    /\ \/ /\ Mutate([WithoutJournalStage(job[p].tx) EXCEPT !.journal = OwnJournal(p)])
          /\ Goto(p, "publish_sync") /\ UNCHANGED faults
       \/ /\ BestEffort(WithoutJournalStage(job[p].tx))
          /\ SpendFault /\ CleanThen(p, "dropstage", "not_applied")
       \/ Untouched /\ SpendFault /\ Reconcile(p)
    /\ Frame /\ UNCHANGED <<job, applied>>

SyncPublishedJournal(p) ==
    /\ pc[p] = "publish_sync"
    /\ \/ /\ SyncDirectory /\ Goto(p, "replace")
          /\ job' = [job EXCEPT ![p].phase = "mutation"] /\ UNCHANGED faults
       \/ Untouched /\ SpendFault /\ Reconcile(p) /\ UNCHANGED job
    /\ Frame /\ UNCHANGED applied

\* replace_same_dir: rename the stage over the document.
ReplaceTarget(p) ==
    /\ pc[p] = "replace"
    /\ \/ /\ Mutate([WithoutStage(job[p].tx) EXCEPT !.live = disk.stage[job[p].tx]])
          /\ applied' = [applied EXCEPT ![p] = TRUE]
          /\ Goto(p, "replace_sync") /\ UNCHANGED faults
       \/ Untouched /\ SpendFault /\ Enter(p, "rollback", "unstage") /\ UNCHANGED applied
       \/ Untouched /\ SpendFault /\ Reconcile(p) /\ UNCHANGED applied
    /\ Frame /\ UNCHANGED job

\* Seeded bug: a rename whose fsync fails is taken for one that did not happen.
UnsyncedTakenForUndone(p) ==
    /\ pc[p] = "replace_sync"
    /\ \/ SyncDirectory /\ Enter(p, "finalize", "unstage") /\ UNCHANGED faults
       \/ Untouched /\ SpendFault /\ Enter(p, "rollback", "unstage")
    /\ Frame /\ UNCHANGED <<job, applied>>

SyncReplacedTarget(p) ==
    /\ pc[p] = "replace_sync"
    /\ \/ SyncDirectory /\ Enter(p, "finalize", "unstage") /\ UNCHANGED faults
       \/ Untouched /\ SpendFault /\ Reconcile(p)
    /\ Frame /\ UNCHANGED <<job, applied>>

---------------------------------------------------------------------------
(* reconcile_uncertain and resolve_without_journal.                        *)

\* No journal is visible: only a live target that syncs is a commit.
ResolveWithoutJournal(p) ==
    /\ pc[p] = "resolve"
    /\ \/ /\ disk.live = job[p].new
          /\ \/ SyncDirectory /\ CleanThen(p, "dropstage", "committed") /\ UNCHANGED faults
             \/ Untouched /\ SpendFault /\ Return(p, "reconcile")
       \/ /\ disk.live # job[p].new /\ job[p].phase = "mutation"
          /\ Untouched /\ Return(p, "reconcile") /\ UNCHANGED faults
       \/ /\ disk.live # job[p].new /\ job[p].phase = "publication"
          /\ Untouched /\ CleanThen(p, "dropstage", "reconcile") /\ UNCHANGED faults
    /\ Frame /\ UNCHANGED <<job, applied>>

\* Seeded bug: reconciliation polls for the target instead of giving up.
RetryUntilLive(p) ==
    /\ pc[p] = "retry"
    /\ \/ /\ disk.live = job[p].new /\ SyncDirectory
          /\ Enter(p, "retry", "recover")
          /\ Frame /\ UNCHANGED <<job, applied, faults>>
       \/ disk.live # job[p].new /\ UNCHANGED vars

\* The first pass needed reconciliation itself: one more pass, and only when
\* the document is the target and can be made durable.
RetryReconciliation(p) ==
    /\ pc[p] = "retry"
    /\ \/ /\ disk.live = job[p].new /\ SyncDirectory
          /\ Enter(p, "retry", "recover") /\ UNCHANGED faults
       \/ /\ disk.live = job[p].new /\ Untouched /\ SpendFault
          /\ Return(p, "reconcile")
       \/ /\ disk.live # job[p].new /\ Untouched
          /\ Return(p, "reconcile") /\ UNCHANGED faults
    /\ Frame /\ UNCHANGED <<job, applied>>

\* Remove the stage no journal refers to, then answer the verdict.
DropStage(p) ==
    /\ pc[p] = "dropstage"
    /\ \/ /\ disk.stage[job[p].tx] = Missing
          /\ Untouched /\ Return(p, verdict[p]) /\ UNCHANGED faults
       \/ /\ disk.stage[job[p].tx] # Missing /\ Mutate(WithoutStage(job[p].tx))
          /\ Goto(p, "dropstage_sync") /\ UNCHANGED faults
       \/ /\ disk.stage[job[p].tx] # Missing /\ Untouched
          /\ SpendFault /\ Return(p, "reconcile")
    /\ Frame /\ UNCHANGED <<job, applied>>

SyncDroppedStage(p) ==
    /\ pc[p] = "dropstage_sync"
    /\ \/ SyncDirectory /\ Return(p, verdict[p]) /\ UNCHANGED faults
       \/ Untouched /\ SpendFault /\ Return(p, "reconcile")
    /\ Frame /\ UNCHANGED <<job, applied>>

\* Reading the journal or the document fails.
ReadFails(p) ==
    /\ pc[p] \in {"recover", "check", "resolve", "retry"}
    /\ SpendFault
    /\ \/ pc[p] = "recover" /\ Recovered(p, "io")
       \/ pc[p] # "recover" /\ Return(p, "io")
    /\ Untouched /\ Frame /\ UNCHANGED <<job, applied>>

---------------------------------------------------------------------------
(* The environment: kills, power failures, writers that ignore the lock.   *)

\* The kernel frees the lock of a killed process.
Kill(p) ==
    /\ pc[p] # "idle" /\ crashes < MaxCrashes
    /\ crashes' = crashes + 1
    /\ Forget({p})
    /\ Untouched /\ UNCHANGED <<used, faults, foreign>>

PowerFailure ==
    /\ crashes < MaxCrashes
    /\ crashes' = crashes + 1
    /\ LosePower
    /\ Forget(Proc)
    /\ UNCHANGED <<used, faults, foreign>>

ForeignWrite(d) ==
    /\ foreign < MaxForeign /\ d # disk.live
    /\ foreign' = foreign + 1
    /\ Mutate([disk EXCEPT !.live = d])
    /\ UNCHANGED <<lock, pc, ctx, job, verdict, answer, used, applied, crashes, faults>>

Internal(p) ==
    \/ RecoverNone(p) \/ RecoverFinalize(p) \/ RecoverRollBack(p) \/ RecoverConflict(p)
    \/ RemoveStage(p) \/ SyncRemovedStage(p)
    \/ RemoveJournal(p) \/ SyncRemovedJournal(p)
    \/ CheckExpected(p) \/ CreateStage(p) \/ FillStage(p) \/ WriteJournalStage(p)
    \/ PublishJournal(p) \/ SyncPublishedJournal(p)
    \/ ReplaceTarget(p) \/ SyncReplacedTarget(p)
    \/ ResolveWithoutJournal(p) \/ RetryReconciliation(p)
    \/ DropStage(p) \/ SyncDroppedStage(p) \/ ReadFails(p)

Client(p) ==
    \/ Acquire(p) \/ Release(p) \/ CallRecover(p)
    \/ \E exp \in Value, new \in Doc : CallCommit(p, exp, new)

Environment ==
    \/ \E p \in Proc : Kill(p)
    \/ PowerFailure
    \/ \E d \in Doc : ForeignWrite(d)

Next == (\E p \in Proc : Client(p) \/ Internal(p)) \/ Environment

Spec == Init /\ [][Next]_vars

\* The code in a call is never suspended for ever: a call that has begun
\* takes its next step.
FairSpec == Spec /\ \A p \in Proc : WF_vars(Internal(p))

---------------------------------------------------------------------------
(* Properties.  A ForeignWrite is outside the protocol: what the store     *)
(* promises of the document, it promises while there was none.             *)

\* Whatever the directory holds after a kill or a power failure, a journal
\* found in it can be resolved: the live document is the journal's base or its
\* target, so recover_locked answers Finalized or RolledBack, never
\* RecoveryConflict.
JournalResolvable ==
    foreign = 0 => \A s \in survivors :
        s.journal # NoJournal => s.live \in {s.journal.base, s.journal.target}

\* A receipt is durable and a refusal is final.  While the caller still holds
\* the lock after "committed", every content a power failure can leave has the
\* new document; after "not_applied", none has it in place of the old one.
AnswersAreTrue ==
    foreign = 0 => \A p \in Proc : pc[p] = "held" =>
        /\ answer[p] = "committed" => \A s \in survivors : s.live = job[p].new
        /\ answer[p] = "not_applied" => \A s \in survivors : s.live = job[p].exp

\* A call that answered anything but "reconcile", "recovery_conflict" or "io"
\* leaves no journal behind, so no later recovery acts on its behalf.
DefiniteAnswersLeaveNoJournal ==
    \A p \in Proc : pc[p] = "held" /\ answer[p] \in Answers \ (Errors \cup {"none"}) =>
        disk.journal = NoJournal

\* The document only ever changes from what the lock holder compared with its
\* expectation to what that holder was asked to write; recovery and cleanup
\* never change it.
OnlyExpectedReplaced ==
    [][disk'.live # disk.live /\ foreign' = 0 /\ crashes' = crashes =>
         \E p \in Proc : /\ lock = p
                        /\ disk.live = job[p].exp /\ disk'.live = job[p].new
                        /\ disk.journal = OwnJournal(p)
                        /\ survivors = {disk}]_vars

\* A journal is never overwritten by the next transaction's: whatever a kill,
\* a failed cleanup or a conflict left behind is resolved or kept as evidence.
JournalNeverOverwritten ==
    \A p \in Proc : pc[p] = "publish" => disk.journal = NoJournal

\* Every call returns: the reconciliation passes cannot chase each other.
CallsReturn == \A p \in Proc : pc[p] \notin {"idle", "held"} ~> pc[p] \in {"idle", "held"}

=============================================================================
