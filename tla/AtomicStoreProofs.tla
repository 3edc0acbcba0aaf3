------------------------- MODULE AtomicStoreProofs -------------------------
(***************************************************************************)
(* Proofs about AtomicStore, for every set of processes, documents and     *)
(* transaction ids and every bound, the proof that it implements           *)
(* CasRegister, and, in the second half, proofs about StateStore: sessions *)
(* are clients of the store that also remove files of their own while they *)
(* adopt a directory, the invariants of the store are shown to survive     *)
(* that, and what a session promises follows from them.                    *)
(***************************************************************************)
EXTENDS StateStore, AtomicStoreRefinement, TLAPS

---------------------------------------------------------------------------
(* The inductive invariant, part by part.                                  *)

\* Exactly the lock holder is inside the store.
Locked == \A p \in Proc : lock = p <=> pc[p] # "idle"

PublishSteps == {"stage", "fill", "jstage", "publish", "publish_sync", "replace",
                 "replace_sync"}
CleanupSteps == {"unstage", "unstage_sync", "unjournal", "unjournal_sync"}
DropSteps    == {"dropstage", "dropstage_sync"}
RecoveryContexts == {"recover", "commit", "reconcile", "retry"}

\* Which call a step can belong to, and what is still to be answered.
Placed(p) ==
    /\ pc[p] = "idle" => ctx[p] = "recover"
    /\ pc[p] \in PublishSteps => ctx[p] = "publish"
    /\ pc[p] = "check" => ctx[p] = "commit"
    /\ pc[p] \in {"resolve", "retry"} => ctx[p] = "reconcile"
    /\ pc[p] = "recover" => ctx[p] \in RecoveryContexts
    /\ pc[p] \in CleanupSteps =>
         /\ ctx[p] \in RecoveryContexts \cup {"finalize", "rollback"}
         /\ ctx[p] \in RecoveryContexts => verdict[p] \in {"finalized", "rolled_back"}
    /\ pc[p] \in DropSteps =>
         /\ ctx[p] \in {"publish", "reconcile", "retry"}
         /\ verdict[p] \in {"committed", "not_applied", "reconcile"}

\* The locals a step relies on are set.
LocalsSet(p) == pc[p] # "idle" =>
    /\ ctx[p] # "recover" => job[p] \in Job
    /\ ctx[p] \notin {"recover", "commit"} => job[p].tx \in Tx

\* Where the journal is, and whose it is.
NoJournalSteps == {"check", "stage", "fill", "jstage", "publish", "resolve",
                   "unjournal_sync"} \cup DropSteps

JournalPlaced(p) ==
    /\ pc[p] = "idle" => ctx[p] = "recover"
    /\ pc[p] \in NoJournalSteps => disk.journal = NoJournal
    /\ pc[p] \in {"unstage", "unstage_sync", "unjournal"} =>
         /\ disk.journal # NoJournal
         /\ ctx[p] \in {"finalize", "rollback"} => disk.journal = OwnJournal(p)
    /\ pc[p] \in {"publish_sync", "replace", "replace_sync"} =>
         disk.journal = OwnJournal(p)

\* The stage is complete before anything refers to it.
StageComplete(p) ==
    /\ pc[p] = "fill" => disk.stage[job[p].tx] = Torn
    /\ pc[p] \in {"jstage", "publish", "publish_sync", "replace"} =>
         disk.stage[job[p].tx] = job[p].new

DefiniteAnswer(p) ==
    pc[p] = "held" /\ answer[p] \in Answers \ (Errors \cup {"none"}) =>
        disk.journal = NoJournal

Shape(p) == Placed(p) /\ LocalsSet(p) /\ JournalPlaced(p) /\ StageComplete(p)
            /\ DefiniteAnswer(p)

Structure == TypeOK /\ Locked /\ \A p \in Proc : Shape(p)

---------------------------------------------------------------------------
LEMMA StructureInit == Init => Structure
<1> SUFFICES ASSUME Init PROVE Structure
  OBVIOUS
<1>1. TypeOK
  BY ConstantAssumption
  DEF Init, InitDirectory, TypeOK, Content, Value, Steps, Contexts, Answers, Outcomes, Errors
<1>2. Locked
  BY ConstantAssumption DEF Init, Locked
<1>3. ASSUME NEW p \in Proc PROVE Shape(p)
  BY DEF Init, InitDirectory, Shape, Placed, LocalsSet, JournalPlaced, StageComplete,
      DefiniteAnswer, PublishSteps, CleanupSteps, DropSteps, NoJournalSteps,
      RecoveryContexts
<1> QED
  BY <1>1, <1>2, <1>3 DEF Structure

LEMMA InternalStructure ==
    ASSUME Structure, NEW p \in Proc, Internal(p) PROVE Structure'
<1> USE ConstantAssumption
  DEF Mutate, SyncDirectory, BestEffort, Untouched, directory, Recovered, Cleaned, CleanupFailed, Reconcile, Return, Goto, Enter, CleanThen, Frame, SpendFault,
      Steps, Answers, Contexts, Errors, Outcomes,
      Locked, Shape, Placed, LocalsSet, JournalPlaced, StageComplete, DefiniteAnswer,
      PublishSteps, CleanupSteps, DropSteps, NoJournalSteps, RecoveryContexts, OwnJournal
<1>0. TypeOK /\ Locked /\ \A q \in Proc : Shape(q)
  BY DEF Structure
<1>1. CASE RecoverNone(p)
  <2>1. TypeOK'
    BY <1>0, <1>1 DEF TypeOK, Content, Value, Job, Journal, RecoverNone
  <2>2. Locked'
    BY <1>0, <1>1 DEF TypeOK, RecoverNone
  <2>3. ASSUME NEW q \in Proc PROVE Shape(q)'
    BY <1>0, <1>1 DEF TypeOK, Content, Job, Journal, RecoverNone
  <2> QED
    BY <2>1, <2>2, <2>3 DEF Structure
<1>2. CASE RecoverFinalize(p)
  <2>1. TypeOK'
    BY <1>0, <1>2 DEF TypeOK, Content, Value, Job, Journal, RecoverFinalize
  <2>2. Locked'
    BY <1>0, <1>2 DEF TypeOK, RecoverFinalize
  <2>3. ASSUME NEW q \in Proc PROVE Shape(q)'
    BY <1>0, <1>2 DEF TypeOK, Content, Job, Journal, RecoverFinalize
  <2> QED
    BY <2>1, <2>2, <2>3 DEF Structure
<1>3. CASE RecoverRollBack(p)
  <2>1. TypeOK'
    BY <1>0, <1>3 DEF TypeOK, Content, Value, Job, Journal, RecoverRollBack
  <2>2. Locked'
    BY <1>0, <1>3 DEF TypeOK, RecoverRollBack
  <2>3. ASSUME NEW q \in Proc PROVE Shape(q)'
    BY <1>0, <1>3 DEF TypeOK, Content, Job, Journal, RecoverRollBack
  <2> QED
    BY <2>1, <2>2, <2>3 DEF Structure
<1>4. CASE RecoverConflict(p)
  <2>1. TypeOK'
    BY <1>0, <1>4 DEF TypeOK, RecoverConflict
  <2>2. Locked'
    BY <1>0, <1>4 DEF TypeOK, RecoverConflict
  <2>3. ASSUME NEW q \in Proc PROVE Shape(q)'
    BY <1>0, <1>4 DEF TypeOK, Content, Job, Journal, RecoverConflict
  <2> QED
    BY <2>1, <2>2, <2>3 DEF Structure
<1>5. CASE RemoveStage(p)
  <2>1. TypeOK'
    BY <1>0, <1>5 DEF TypeOK, Content, Value, Job, Journal, RemoveStage, StageToClean, WithoutStage
  <2>2. Locked'
    BY <1>0, <1>5 DEF TypeOK, RemoveStage, StageToClean, WithoutStage
  <2>3. ASSUME NEW q \in Proc PROVE Shape(q)'
    BY <1>0, <1>5 DEF TypeOK, Content, Job, Journal, RemoveStage, StageToClean, WithoutStage
  <2> QED
    BY <2>1, <2>2, <2>3 DEF Structure
<1>6. CASE SyncRemovedStage(p)
  <2>1. TypeOK'
    BY <1>0, <1>6 DEF TypeOK, Content, Value, Job, Journal, SyncRemovedStage
  <2>2. Locked'
    BY <1>0, <1>6 DEF TypeOK, SyncRemovedStage
  <2>3. ASSUME NEW q \in Proc PROVE Shape(q)'
    BY <1>0, <1>6 DEF TypeOK, Content, Job, Journal, SyncRemovedStage
  <2> QED
    BY <2>1, <2>2, <2>3 DEF Structure
<1>7. CASE RemoveJournal(p)
  <2>1. TypeOK'
    BY <1>0, <1>7 DEF TypeOK, Content, Value, Job, Journal, RemoveJournal
  <2>2. Locked'
    BY <1>0, <1>7 DEF TypeOK, RemoveJournal
  <2>3. ASSUME NEW q \in Proc PROVE Shape(q)'
    BY <1>0, <1>7 DEF TypeOK, Content, Job, Journal, RemoveJournal
  <2> QED
    BY <2>1, <2>2, <2>3 DEF Structure
<1>8. CASE SyncRemovedJournal(p)
  <2>1. TypeOK'
    BY <1>0, <1>8 DEF TypeOK, Content, Value, Job, Journal, SyncRemovedJournal
  <2>2. Locked'
    BY <1>0, <1>8 DEF TypeOK, SyncRemovedJournal
  <2>3. ASSUME NEW q \in Proc PROVE Shape(q)'
    BY <1>0, <1>8 DEF TypeOK, Content, Job, Journal, SyncRemovedJournal
  <2> QED
    BY <2>1, <2>2, <2>3 DEF Structure
<1>9. CASE CheckExpected(p)
  <2>1. TypeOK'
    BY <1>0, <1>9 DEF TypeOK, Content, Value, Job, Journal, CheckExpected
  <2>2. Locked'
    BY <1>0, <1>9 DEF TypeOK, CheckExpected
  <2>3. ASSUME NEW q \in Proc PROVE Shape(q)'
    BY <1>0, <1>9 DEF TypeOK, Content, Job, Journal, CheckExpected
  <2> QED
    BY <2>1, <2>2, <2>3 DEF Structure
<1>10. CASE CreateStage(p)
  <2>1. TypeOK'
    BY <1>0, <1>10 DEF TypeOK, Content, Value, Job, Journal, CreateStage
  <2>2. Locked'
    BY <1>0, <1>10 DEF TypeOK, CreateStage
  <2>3. ASSUME NEW q \in Proc PROVE Shape(q)'
    BY <1>0, <1>10 DEF TypeOK, Content, Job, Journal, CreateStage
  <2> QED
    BY <2>1, <2>2, <2>3 DEF Structure
<1>11. CASE FillStage(p)
  <2>t. job[p] \in Job /\ job[p].tx \in Tx /\ job[p].new \in Doc
    BY <1>0, <1>11 DEF FillStage, Job
  <2>f. \A s \in Content : Filled(job[p].tx, job[p].new, s) \in Content
    BY <2>t DEF Content, Filled, Value
  <2>w. WithoutStage(job[p].tx) \in Content
    BY <2>t, <1>0 DEF TypeOK, Content, WithoutStage, Value
  <2>1. TypeOK'
    <3>1. disk' \in Content /\ survivors' \subseteq Content /\ disk' \in survivors'
      BY <1>0, <1>11, <2>f, <2>w DEF TypeOK, FillStage
    <3> QED
      BY <3>1, <1>0, <1>11 DEF TypeOK, FillStage
  <2>2. Locked'
    BY <1>0, <1>11 DEF TypeOK, FillStage, Filled, WithoutStage
  <2>3. ASSUME NEW q \in Proc PROVE Shape(q)'
    <3>1. disk'.journal = disk.journal
      BY <1>0, <1>11 DEF TypeOK, Content, FillStage, Filled, WithoutStage
    <3>2. pc'[p] = "jstage" => disk'.stage[job[p].tx] = job[p].new
      <4>1. disk.stage[job[p].tx] = Torn
        BY <1>0, <1>11 DEF FillStage
      <4> QED
        BY <4>1, <1>0, <1>11, <2>t DEF TypeOK, Content, Value, FillStage, Filled
    <3> QED
      BY <3>1, <3>2, <1>0, <1>11 DEF TypeOK, FillStage
  <2> QED
    BY <2>1, <2>2, <2>3 DEF Structure
<1>12. CASE WriteJournalStage(p)
  <2>1. TypeOK'
    BY <1>0, <1>12 DEF TypeOK, Content, Value, Job, Journal, WriteJournalStage, WithJournalStage
  <2>2. Locked'
    BY <1>0, <1>12 DEF TypeOK, WriteJournalStage, WithJournalStage
  <2>3. ASSUME NEW q \in Proc PROVE Shape(q)'
    BY <1>0, <1>12 DEF TypeOK, Content, Job, Journal, WriteJournalStage, WithJournalStage
  <2> QED
    BY <2>1, <2>2, <2>3 DEF Structure
<1>13. CASE PublishJournal(p)
  <2>t. job[p] \in Job /\ job[p].tx \in Tx /\ OwnJournal(p) \in Journal
    BY <1>0, <1>13 DEF PublishJournal, Job, Journal
  <2>w. WithoutJournalStage(job[p].tx) \in Content
    BY <2>t, <1>0 DEF TypeOK, Content, WithoutJournalStage
  <2>j. [WithoutJournalStage(job[p].tx) EXCEPT !.journal = OwnJournal(p)] \in Content
    BY <2>t, <2>w DEF Content
  <2>1. TypeOK'
    <3>1. disk' \in Content /\ survivors' \subseteq Content /\ disk' \in survivors'
      BY <1>0, <1>13, <2>w, <2>j DEF TypeOK, PublishJournal
    <3> QED
      BY <3>1, <1>0, <1>13 DEF TypeOK, PublishJournal
  <2>2. Locked'
    BY <1>0, <1>13 DEF TypeOK, PublishJournal, WithoutJournalStage
  <2>3. ASSUME NEW q \in Proc PROVE Shape(q)'
    <3>a. /\ WithoutJournalStage(job[p].tx).stage = disk.stage
          /\ WithoutJournalStage(job[p].tx).journal = disk.journal
      BY <1>0 DEF TypeOK, Content, WithoutJournalStage
    <3>1. disk'.stage = disk.stage
      BY <3>a, <2>w, <1>0, <1>13 DEF TypeOK, Content, PublishJournal
    <3>2. disk'.journal = IF pc'[p] = "publish_sync" THEN OwnJournal(p) ELSE disk.journal
      BY <3>a, <2>w, <1>0, <1>13 DEF TypeOK, Content, PublishJournal
    <3> QED
      BY <3>1, <3>2, <1>0, <1>13 DEF TypeOK, PublishJournal
  <2> QED
    BY <2>1, <2>2, <2>3 DEF Structure
<1>14. CASE SyncPublishedJournal(p)
  <2>1. TypeOK'
    <3>1. disk' \in Content /\ survivors' \subseteq Content /\ disk' \in survivors'
      BY <1>0, <1>14 DEF TypeOK, SyncPublishedJournal
    <3>2. job' \in [Proc -> Job \cup {NoJob}]
      <4>1. job[p] \in Job
        BY <1>0, <1>14 DEF SyncPublishedJournal
      <4>2. [job[p] EXCEPT !.phase = "mutation"] \in Job
        BY <4>1 DEF Job
      <4> QED BY <4>2, <1>0, <1>14 DEF TypeOK, SyncPublishedJournal
    <3> QED
      BY <3>1, <3>2, <1>0, <1>14 DEF TypeOK, SyncPublishedJournal
  <2>2. Locked'
    BY <1>0, <1>14 DEF TypeOK, SyncPublishedJournal
  <2>3. ASSUME NEW q \in Proc PROVE Shape(q)'
    BY <1>0, <1>14 DEF TypeOK, Content, Job, Journal, SyncPublishedJournal
  <2> QED
    BY <2>1, <2>2, <2>3 DEF Structure
<1>15. CASE ReplaceTarget(p)
  <2>t. job[p] \in Job /\ job[p].tx \in Tx /\ disk.stage[job[p].tx] \in Doc
    BY <1>0, <1>15 DEF ReplaceTarget, Job
  <2>w. WithoutStage(job[p].tx) \in Content
    BY <2>t, <1>0 DEF TypeOK, Content, WithoutStage, Value
  <2>j. [WithoutStage(job[p].tx) EXCEPT !.live = disk.stage[job[p].tx]] \in Content
    BY <2>t, <2>w DEF Content, Value
  <2>1. TypeOK'
    <3>1. disk' \in Content /\ survivors' \subseteq Content /\ disk' \in survivors'
      BY <1>0, <1>15, <2>j DEF TypeOK, ReplaceTarget
    <3>2. applied' \in [Proc -> BOOLEAN]
      BY <1>0, <1>15 DEF TypeOK, ReplaceTarget
    <3>3. UNCHANGED <<job, answer, lock, used, crashes, foreign>> /\ faults' \in Nat
      BY <1>0, <1>15 DEF TypeOK, ReplaceTarget
    <3>4. pc' \in [Proc -> Steps] /\ ctx' \in [Proc -> Contexts] /\ verdict' = verdict
      BY <1>0, <1>15 DEF TypeOK, ReplaceTarget
    <3> QED
      BY <3>1, <3>2, <3>3, <3>4, <1>0 DEF TypeOK
  <2>2. Locked'
    BY <1>0, <1>15 DEF TypeOK, ReplaceTarget, WithoutStage
  <2>3. ASSUME NEW q \in Proc PROVE Shape(q)'
    <3>1. disk'.journal = disk.journal
      BY <1>0, <1>15 DEF TypeOK, Content, ReplaceTarget, WithoutStage
    <3>2. pc'[p] \in {"replace_sync", "unstage", "recover"} /\ job' = job
          /\ \A r \in Proc \ {p} : pc'[r] = pc[r] /\ ctx'[r] = ctx[r]
      BY <1>0, <1>15 DEF TypeOK, ReplaceTarget
    <3>3. /\ pc'[p] = "unstage" => ctx'[p] = "rollback"
          /\ pc'[p] = "recover" => ctx'[p] = "reconcile"
          /\ pc'[p] = "replace_sync" => ctx'[p] = ctx[p]
      BY <1>0, <1>15 DEF TypeOK, ReplaceTarget
    <3>4. CASE q # p
      <4>1. pc[p] # "idle"
        BY <1>15 DEF ReplaceTarget
      <4>2. pc'[q] = "idle" /\ ctx'[q] = "recover"
        BY <4>1, <3>4, <3>2, <1>0
      <4> QED
        BY <4>2
    <3>5. CASE q = p
      <4>1. pc[p] = "replace" /\ ctx[p] = "publish" /\ disk.journal = OwnJournal(p)
        BY <1>0, <1>15 DEF ReplaceTarget
      <4>2. job[p] \in Job /\ job[p].tx \in Tx
        BY <4>1, <1>0
      <4> QED
        BY <4>1, <4>2, <3>1, <3>2, <3>3, <3>5 DEF Job, Journal
    <3> QED
      BY <3>4, <3>5
  <2> QED
    BY <2>1, <2>2, <2>3 DEF Structure
<1>16. CASE SyncReplacedTarget(p)
  <2>1. TypeOK'
    BY <1>0, <1>16 DEF TypeOK, Content, Value, Job, Journal, SyncReplacedTarget
  <2>2. Locked'
    BY <1>0, <1>16 DEF TypeOK, SyncReplacedTarget
  <2>3. ASSUME NEW q \in Proc PROVE Shape(q)'
    BY <1>0, <1>16 DEF TypeOK, Content, Job, Journal, SyncReplacedTarget
  <2> QED
    BY <2>1, <2>2, <2>3 DEF Structure
<1>17. CASE ResolveWithoutJournal(p)
  <2>1. TypeOK'
    BY <1>0, <1>17 DEF TypeOK, Content, Value, Job, Journal, ResolveWithoutJournal
  <2>2. Locked'
    BY <1>0, <1>17 DEF TypeOK, ResolveWithoutJournal
  <2>3. ASSUME NEW q \in Proc PROVE Shape(q)'
    BY <1>0, <1>17 DEF TypeOK, Content, Job, Journal, ResolveWithoutJournal
  <2> QED
    BY <2>1, <2>2, <2>3 DEF Structure
<1>18. CASE RetryReconciliation(p)
  <2>1. TypeOK'
    BY <1>0, <1>18 DEF TypeOK, Content, Value, Job, Journal, RetryReconciliation
  <2>2. Locked'
    BY <1>0, <1>18 DEF TypeOK, RetryReconciliation
  <2>3. ASSUME NEW q \in Proc PROVE Shape(q)'
    BY <1>0, <1>18 DEF TypeOK, Content, Job, Journal, RetryReconciliation
  <2> QED
    BY <2>1, <2>2, <2>3 DEF Structure
<1>19. CASE DropStage(p)
  <2>1. TypeOK'
    BY <1>0, <1>19 DEF TypeOK, Content, Value, Job, Journal, DropStage, WithoutStage
  <2>2. Locked'
    BY <1>0, <1>19 DEF TypeOK, DropStage, WithoutStage
  <2>3. ASSUME NEW q \in Proc PROVE Shape(q)'
    BY <1>0, <1>19 DEF TypeOK, Content, Job, Journal, DropStage, WithoutStage
  <2> QED
    BY <2>1, <2>2, <2>3 DEF Structure
<1>20. CASE SyncDroppedStage(p)
  <2>1. TypeOK'
    BY <1>0, <1>20 DEF TypeOK, Content, Value, Job, Journal, SyncDroppedStage
  <2>2. Locked'
    BY <1>0, <1>20 DEF TypeOK, SyncDroppedStage
  <2>3. ASSUME NEW q \in Proc PROVE Shape(q)'
    BY <1>0, <1>20 DEF TypeOK, Content, Job, Journal, SyncDroppedStage
  <2> QED
    BY <2>1, <2>2, <2>3 DEF Structure
<1>21. CASE ReadFails(p)
  <2>1. TypeOK'
    BY <1>0, <1>21 DEF TypeOK, Content, Value, Job, Journal, ReadFails
  <2>2. Locked'
    BY <1>0, <1>21 DEF TypeOK, ReadFails
  <2>3. ASSUME NEW q \in Proc PROVE Shape(q)'
    BY <1>0, <1>21 DEF TypeOK, Content, Job, Journal, ReadFails
  <2> QED
    BY <2>1, <2>2, <2>3 DEF Structure
<1> QED
  BY <1>1, <1>2, <1>3, <1>4, <1>5, <1>6, <1>7, <1>8, <1>9, <1>10, <1>11, <1>12, <1>13, <1>14, <1>15, <1>16, <1>17, <1>18, <1>19, <1>20, <1>21 DEF Internal

LEMMA ClientStructure ==
    ASSUME Structure, NEW p \in Proc, Client(p) PROVE Structure'
<1> USE ConstantAssumption
  DEF Mutate, SyncDirectory, Untouched, directory, Return, Enter, Goto, Forget,
      Steps, Answers, Contexts, Errors, Outcomes,
      Locked, Shape, Placed, LocalsSet, JournalPlaced, StageComplete, DefiniteAnswer,
      PublishSteps, CleanupSteps, DropSteps, NoJournalSteps, RecoveryContexts, OwnJournal
<1>0. TypeOK /\ Locked /\ \A q \in Proc : Shape(q)
  BY DEF Structure
<1>1. CASE Acquire(p)
  <2>1. TypeOK'
    BY <1>0, <1>1 DEF TypeOK, Acquire
  <2>2. Locked'
    BY <1>0, <1>1 DEF TypeOK, Acquire
  <2>3. ASSUME NEW q \in Proc PROVE Shape(q)'
    BY <1>0, <1>1 DEF TypeOK, Acquire
  <2> QED
    BY <2>1, <2>2, <2>3 DEF Structure
<1>2. CASE Release(p)
  <2>1. TypeOK'
    BY <1>0, <1>2 DEF TypeOK, Release
  <2>2. Locked'
    BY <1>0, <1>2 DEF TypeOK, Release
  <2>3. ASSUME NEW q \in Proc PROVE Shape(q)'
    BY <1>0, <1>2 DEF TypeOK, Release
  <2> QED
    BY <2>1, <2>2, <2>3 DEF Structure
<1>3. CASE CallRecover(p)
  <2>1. TypeOK'
    BY <1>0, <1>3 DEF TypeOK, CallRecover
  <2>2. Locked'
    BY <1>0, <1>3 DEF TypeOK, CallRecover
  <2>3. ASSUME NEW q \in Proc PROVE Shape(q)'
    BY <1>0, <1>3 DEF TypeOK, CallRecover
  <2> QED
    BY <2>1, <2>2, <2>3 DEF Structure
<1>4. ASSUME NEW exp \in Value, NEW new \in Doc, CallCommit(p, exp, new)
      PROVE  Structure'
  <2>0. job'[p] \in Job /\ \A q \in Proc \ {p} : job'[q] = job[q]
    BY <1>0, <1>4 DEF TypeOK, CallCommit, Job
  <2>1. TypeOK'
    <3>1. applied' \in [Proc -> BOOLEAN]
      BY <1>0, <1>4 DEF TypeOK, CallCommit
    <3>2. job' \in [Proc -> Job \cup {NoJob}]
      BY <1>0, <1>4, <2>0 DEF TypeOK, CallCommit
    <3>3. pc' \in [Proc -> Steps] /\ ctx' \in [Proc -> Contexts]
      BY <1>0, <1>4 DEF TypeOK, CallCommit
    <3> QED
      BY <3>1, <3>2, <3>3, <1>0, <1>4 DEF TypeOK, CallCommit
  <2>2. Locked'
    BY <1>0, <1>4 DEF TypeOK, CallCommit
  <2>3. ASSUME NEW q \in Proc PROVE Shape(q)'
    BY <2>0, <1>0, <1>4 DEF TypeOK, CallCommit
  <2> QED
    BY <2>1, <2>2, <2>3 DEF Structure
<1> QED
  BY <1>1, <1>2, <1>3, <1>4 DEF Client

LEMMA EnvironmentStructure ==
    ASSUME Structure, Environment PROVE Structure'
<1> USE ConstantAssumption
  DEF Mutate, SyncDirectory, Untouched, directory, Return, Enter, Goto, Forget,
      Steps, Answers, Contexts, Errors, Outcomes,
      Locked, Shape, Placed, LocalsSet, JournalPlaced, StageComplete, DefiniteAnswer,
      PublishSteps, CleanupSteps, DropSteps, NoJournalSteps, RecoveryContexts, OwnJournal
<1>0. TypeOK /\ Locked /\ \A q \in Proc : Shape(q)
  BY DEF Structure
<1>1. ASSUME NEW p \in Proc, Kill(p) PROVE Structure'
  <2>1. TypeOK'
    <3>1. applied' \in [Proc -> BOOLEAN]
      BY <1>0, <1>1 DEF TypeOK, Kill
    <3>2. /\ pc' \in [Proc -> Steps] /\ ctx' \in [Proc -> Contexts]
          /\ job' \in [Proc -> Job \cup {NoJob}]
      BY <1>0, <1>1 DEF TypeOK, Kill
    <3>3. verdict' \in [Proc -> Answers] /\ answer' \in [Proc -> Answers]
      BY <1>0, <1>1 DEF TypeOK, Kill
    <3>4. /\ UNCHANGED <<disk, survivors, used, faults, foreign>>
          /\ lock' = Nobody /\ crashes' = crashes + 1
      BY <1>1 DEF Kill
    <3> QED
      BY <3>1, <3>2, <3>3, <3>4, <1>0 DEF TypeOK
  <2>2. Locked'
    BY <1>0, <1>1 DEF TypeOK, Kill
  <2>3. ASSUME NEW q \in Proc PROVE Shape(q)'
    BY <1>0, <1>1 DEF TypeOK, Kill
  <2> QED
    BY <2>1, <2>2, <2>3 DEF Structure
<1>2. CASE PowerFailure
  <2>1. TypeOK'
    BY <1>0, <1>2 DEF TypeOK, PowerFailure, LosePower
  <2>2. Locked'
    BY <1>0, <1>2 DEF TypeOK, PowerFailure
  <2>3. ASSUME NEW q \in Proc PROVE Shape(q)'
    BY <1>0, <1>2 DEF TypeOK, PowerFailure
  <2> QED
    BY <2>1, <2>2, <2>3 DEF Structure
<1>3. ASSUME NEW d \in Doc, ForeignWrite(d) PROVE Structure'
  <2>0. disk' \in Content /\ disk'.journal = disk.journal /\ disk'.stage = disk.stage
    BY <1>0, <1>3 DEF TypeOK, Content, Value, ForeignWrite
  <2>1. TypeOK'
    BY <2>0, <1>0, <1>3 DEF TypeOK, ForeignWrite
  <2>2. Locked'
    BY <1>0, <1>3 DEF TypeOK, ForeignWrite
  <2>3. ASSUME NEW q \in Proc PROVE Shape(q)'
    BY <2>0, <1>0, <1>3 DEF ForeignWrite
  <2> QED
    BY <2>1, <2>2, <2>3 DEF Structure
<1> QED
  BY <1>1, <1>2, <1>3 DEF Environment

LEMMA StutterStructure == Structure /\ UNCHANGED vars => Structure'
<1> SUFFICES ASSUME Structure, UNCHANGED vars PROVE Structure'
  OBVIOUS
<1>1. TypeOK'
  BY DEF Structure, TypeOK, vars
<1>2. Locked'
  BY DEF Structure, Locked, vars
<1>3. ASSUME NEW p \in Proc PROVE Shape(p)'
  BY DEF Structure, vars, Shape, Placed, LocalsSet, JournalPlaced, StageComplete,
      DefiniteAnswer, OwnJournal
<1> QED
  BY <1>1, <1>2, <1>3 DEF Structure

\* The directory, the lock and every process stay in the shape the code relies on.
THEOREM StructureInvariant == Spec => []Structure
<1>1. Structure /\ [Next]_vars => Structure'
  BY InternalStructure, ClientStructure, EnvironmentStructure, StutterStructure DEF Next
<1> QED
  BY StructureInit, <1>1, PTL DEF Spec

\* Type correctness of atomic_store.rs: only complete documents are renamed
\* over the target, only drawn transaction ids name stages.
THEOREM TypeCorrect == Spec => []TypeOK
  BY StructureInvariant, PTL DEF Structure

\* publish_journal never renames over a journal that a kill, a failed cleanup or
\* a conflict left behind.
THEOREM JournalsKept == Spec => []JournalNeverOverwritten
<1>1. Structure => JournalNeverOverwritten
  BY DEF Structure, Shape, JournalPlaced, NoJournalSteps, JournalNeverOverwritten
<1> QED
  BY <1>1, StructureInvariant, PTL

\* A call with a definite answer leaves no journal for a later recovery to act on.
THEOREM DefiniteAnswersFinal == Spec => []DefiniteAnswersLeaveNoJournal
<1>1. Structure => DefiniteAnswersLeaveNoJournal
  BY DEF Structure, Shape, DefiniteAnswer, DefiniteAnswersLeaveNoJournal
<1> QED
  BY <1>1, StructureInvariant, PTL

---------------------------------------------------------------------------
(* Durability: what a power failure can bring back.                        *)

Settled == \A s \in survivors : s.live = disk.live

\* A survivor with another document than the visible one is the content from
\* just before the rename of the transaction whose journal is still there.
Coherent(s) ==
    \/ s.live = disk.live
    \/ /\ disk.journal # NoJournal
       /\ s.journal = disk.journal
       /\ disk.live = disk.journal.target /\ s.live = disk.journal.base

Resolvable(s) ==
    s.journal # NoJournal => s.live \in {s.journal.base, s.journal.target}

LiveIsNew(p) == disk.live = job[p].new /\ Settled
LiveIsOld(p) == disk.live = job[p].exp /\ Settled

\* What the document is while a process is at each step.
Progress(p) ==
    /\ pc[p] \in PublishSteps \ {"replace_sync"} => disk.live = job[p].exp
    /\ pc[p] = "replace" => survivors = {disk}
    /\ pc[p] = "replace_sync" => disk.live = job[p].new
    /\ pc[p] = "recover" /\ ctx[p] \in {"reconcile", "retry"} =>
         disk.journal \in {NoJournal, OwnJournal(p)}
    /\ pc[p] = "recover" /\ ctx[p] = "retry" => LiveIsNew(p)
    /\ pc[p] \in CleanupSteps =>
         /\ Settled
         /\ ctx[p] = "finalize" => LiveIsNew(p)
         /\ ctx[p] = "rollback" => LiveIsOld(p)
         /\ ctx[p] \in {"reconcile", "retry"} =>
              /\ disk.journal \in {NoJournal, OwnJournal(p)}
              /\ verdict[p] = "finalized" => LiveIsNew(p)
              /\ verdict[p] = "rolled_back" => LiveIsOld(p)
    /\ pc[p] \in {"resolve", "retry"} => disk.journal \in {NoJournal, OwnJournal(p)}
    /\ pc[p] \in DropSteps =>
         /\ verdict[p] = "committed" => LiveIsNew(p)
         /\ verdict[p] = "not_applied" => LiveIsOld(p)
    /\ pc[p] = "held" =>
         /\ answer[p] = "committed" => LiveIsNew(p)
         /\ answer[p] = "not_applied" => LiveIsOld(p)

Durable ==
    foreign = 0 =>
        /\ \A s \in survivors : Coherent(s) /\ Resolvable(s)
        /\ \A p \in Proc : Progress(p)

\* A step inside a call keeps the document durable or resolvable.
LEMMA InternalDurable ==
    ASSUME Structure, Durable, NEW p \in Proc, Internal(p) PROVE Durable'
<1> USE ConstantAssumption
  DEF Mutate, SyncDirectory, BestEffort, Untouched, directory, Recovered, Cleaned,
      CleanupFailed, Reconcile, Return, Goto, Enter, CleanThen, Frame, SpendFault,
      Steps, Answers, Contexts, Errors, Outcomes,
      PublishSteps, CleanupSteps, DropSteps, NoJournalSteps, RecoveryContexts, OwnJournal
<1>0. TypeOK /\ Locked /\ \A q \in Proc : Shape(q)
  BY DEF Structure
<1>s. Structure'
  BY InternalStructure
<1>f. foreign' = foreign
  BY DEF Internal, RecoverNone, RecoverFinalize, RecoverRollBack, RecoverConflict, RemoveStage, SyncRemovedStage, RemoveJournal, SyncRemovedJournal, CheckExpected, CreateStage, FillStage, WriteJournalStage, PublishJournal, SyncPublishedJournal, ReplaceTarget, SyncReplacedTarget, ResolveWithoutJournal, RetryReconciliation, DropStage, SyncDroppedStage, ReadFails
<1> SUFFICES ASSUME foreign = 0
             PROVE  /\ \A s \in survivors' : Coherent(s)' /\ Resolvable(s)'
                    /\ \A q \in Proc : Progress(q)'
  BY <1>f DEF Durable
<1>d. (\A s \in survivors : Coherent(s) /\ Resolvable(s)) /\ \A q \in Proc : Progress(q)
  BY DEF Durable
<1>o. pc[p] # "idle"
  BY DEF Internal, RecoverNone, RecoverFinalize, RecoverRollBack, RecoverConflict, RemoveStage, SyncRemovedStage, RemoveJournal, SyncRemovedJournal, CheckExpected, CreateStage, FillStage, WriteJournalStage, PublishJournal, SyncPublishedJournal, ReplaceTarget, SyncReplacedTarget, ResolveWithoutJournal, RetryReconciliation, DropStage, SyncDroppedStage, ReadFails
<1>i. \A q \in Proc \ {p} : pc[q] = "idle"
  BY <1>0, <1>o DEF Locked
<1>1. CASE RecoverNone(p)
  <2>1. ASSUME NEW s \in survivors' PROVE Coherent(s)' /\ Resolvable(s)'
    BY <1>0, <1>d, <1>1 DEF TypeOK, Content, Shape, JournalPlaced, LocalsSet, Placed, Progress, Coherent, Resolvable, Settled, LiveIsNew, LiveIsOld, Job, Journal, RecoverNone
  <2>2. ASSUME NEW q \in Proc, q # p PROVE Progress(q)'
    BY <1>0, <1>i, <2>2, <1>1 DEF TypeOK, Progress, RecoverNone
  <2>3. Progress(p)'
    BY <1>0, <1>d, <1>1 DEF TypeOK, Content, Shape, JournalPlaced, LocalsSet, Placed, DefiniteAnswer, StageComplete, Progress, Coherent, Settled, LiveIsNew, LiveIsOld, Job, Journal, RecoverNone
  <2> QED
    BY <2>1, <2>2, <2>3
<1>2. CASE RecoverFinalize(p)
  <2>1. ASSUME NEW s \in survivors' PROVE Coherent(s)' /\ Resolvable(s)'
    BY <1>0, <1>d, <1>2 DEF TypeOK, Content, Shape, JournalPlaced, LocalsSet, Placed, Progress, Coherent, Resolvable, Settled, LiveIsNew, LiveIsOld, Job, Journal, RecoverFinalize
  <2>2. ASSUME NEW q \in Proc, q # p PROVE Progress(q)'
    BY <1>0, <1>i, <2>2, <1>2 DEF TypeOK, Progress, RecoverFinalize
  <2>3. Progress(p)'
    BY <1>0, <1>d, <1>2 DEF TypeOK, Content, Shape, JournalPlaced, LocalsSet, Placed, DefiniteAnswer, StageComplete, Progress, Coherent, Settled, LiveIsNew, LiveIsOld, Job, Journal, RecoverFinalize
  <2> QED
    BY <2>1, <2>2, <2>3
<1>3. CASE RecoverRollBack(p)
  <2>1. ASSUME NEW s \in survivors' PROVE Coherent(s)' /\ Resolvable(s)'
    BY <1>0, <1>d, <1>3 DEF TypeOK, Content, Shape, JournalPlaced, LocalsSet, Placed, Progress, Coherent, Resolvable, Settled, LiveIsNew, LiveIsOld, Job, Journal, RecoverRollBack
  <2>2. ASSUME NEW q \in Proc, q # p PROVE Progress(q)'
    BY <1>0, <1>i, <2>2, <1>3 DEF TypeOK, Progress, RecoverRollBack
  <2>3. Progress(p)'
    BY <1>0, <1>d, <1>3 DEF TypeOK, Content, Shape, JournalPlaced, LocalsSet, Placed, DefiniteAnswer, StageComplete, Progress, Coherent, Settled, LiveIsNew, LiveIsOld, Job, Journal, RecoverRollBack
  <2> QED
    BY <2>1, <2>2, <2>3
<1>4. CASE RecoverConflict(p)
  <2>1. ASSUME NEW s \in survivors' PROVE Coherent(s)' /\ Resolvable(s)'
    BY <1>0, <1>d, <1>4 DEF TypeOK, Content, Shape, JournalPlaced, LocalsSet, Placed, Progress, Coherent, Resolvable, Settled, LiveIsNew, LiveIsOld, Job, Journal, RecoverConflict
  <2>2. ASSUME NEW q \in Proc, q # p PROVE Progress(q)'
    BY <1>0, <1>i, <2>2, <1>4 DEF TypeOK, Progress, RecoverConflict
  <2>3. Progress(p)'
    BY <1>0, <1>d, <1>4 DEF TypeOK, Content, Shape, JournalPlaced, LocalsSet, Placed, DefiniteAnswer, StageComplete, Progress, Coherent, Settled, LiveIsNew, LiveIsOld, Job, Journal, RecoverConflict
  <2> QED
    BY <2>1, <2>2, <2>3
<1>5. CASE RemoveStage(p)
  <2>1. ASSUME NEW s \in survivors' PROVE Coherent(s)' /\ Resolvable(s)'
    BY <1>0, <1>d, <1>5 DEF TypeOK, Content, Shape, JournalPlaced, LocalsSet, Placed, Progress, Coherent, Resolvable, Settled, LiveIsNew, LiveIsOld, Job, Journal, RemoveStage, StageToClean, WithoutStage
  <2>2. ASSUME NEW q \in Proc, q # p PROVE Progress(q)'
    BY <1>0, <1>i, <2>2, <1>5 DEF TypeOK, Progress, RemoveStage
  <2>3. Progress(p)'
    BY <1>0, <1>d, <1>5 DEF TypeOK, Content, Shape, JournalPlaced, LocalsSet, Placed, DefiniteAnswer, StageComplete, Progress, Coherent, Settled, LiveIsNew, LiveIsOld, Job, Journal, RemoveStage, StageToClean, WithoutStage
  <2> QED
    BY <2>1, <2>2, <2>3
<1>6. CASE SyncRemovedStage(p)
  <2>1. ASSUME NEW s \in survivors' PROVE Coherent(s)' /\ Resolvable(s)'
    BY <1>0, <1>d, <1>6 DEF TypeOK, Content, Shape, JournalPlaced, LocalsSet, Placed, Progress, Coherent, Resolvable, Settled, LiveIsNew, LiveIsOld, Job, Journal, SyncRemovedStage
  <2>2. ASSUME NEW q \in Proc, q # p PROVE Progress(q)'
    BY <1>0, <1>i, <2>2, <1>6 DEF TypeOK, Progress, SyncRemovedStage
  <2>3. Progress(p)'
    BY <1>0, <1>d, <1>6 DEF TypeOK, Content, Shape, JournalPlaced, LocalsSet, Placed, DefiniteAnswer, StageComplete, Progress, Coherent, Settled, LiveIsNew, LiveIsOld, Job, Journal, SyncRemovedStage
  <2> QED
    BY <2>1, <2>2, <2>3
<1>7. CASE RemoveJournal(p)
  <2>1. ASSUME NEW s \in survivors' PROVE Coherent(s)' /\ Resolvable(s)'
    BY <1>0, <1>d, <1>7 DEF TypeOK, Content, Shape, JournalPlaced, LocalsSet, Placed, Progress, Coherent, Resolvable, Settled, LiveIsNew, LiveIsOld, Job, Journal, RemoveJournal
  <2>2. ASSUME NEW q \in Proc, q # p PROVE Progress(q)'
    BY <1>0, <1>i, <2>2, <1>7 DEF TypeOK, Progress, RemoveJournal
  <2>3. Progress(p)'
    BY <1>0, <1>d, <1>7 DEF TypeOK, Content, Shape, JournalPlaced, LocalsSet, Placed, DefiniteAnswer, StageComplete, Progress, Coherent, Settled, LiveIsNew, LiveIsOld, Job, Journal, RemoveJournal
  <2> QED
    BY <2>1, <2>2, <2>3
<1>8. CASE SyncRemovedJournal(p)
  <2>1. ASSUME NEW s \in survivors' PROVE Coherent(s)' /\ Resolvable(s)'
    BY <1>0, <1>d, <1>8 DEF TypeOK, Content, Shape, JournalPlaced, LocalsSet, Placed, Progress, Coherent, Resolvable, Settled, LiveIsNew, LiveIsOld, Job, Journal, SyncRemovedJournal
  <2>2. ASSUME NEW q \in Proc, q # p PROVE Progress(q)'
    BY <1>0, <1>i, <2>2, <1>8 DEF TypeOK, Progress, SyncRemovedJournal
  <2>3. Progress(p)'
    BY <1>0, <1>d, <1>8 DEF TypeOK, Content, Shape, JournalPlaced, LocalsSet, Placed, DefiniteAnswer, StageComplete, Progress, Coherent, Settled, LiveIsNew, LiveIsOld, Job, Journal, SyncRemovedJournal
  <2> QED
    BY <2>1, <2>2, <2>3
<1>9. CASE CheckExpected(p)
  <2>1. ASSUME NEW s \in survivors' PROVE Coherent(s)' /\ Resolvable(s)'
    BY <1>0, <1>d, <1>9 DEF TypeOK, Content, Shape, JournalPlaced, LocalsSet, Placed, Progress, Coherent, Resolvable, Settled, LiveIsNew, LiveIsOld, Job, Journal, CheckExpected
  <2>2. ASSUME NEW q \in Proc, q # p PROVE Progress(q)'
    BY <1>0, <1>i, <2>2, <1>9 DEF TypeOK, Progress, CheckExpected
  <2>3. Progress(p)'
    BY <1>0, <1>d, <1>9 DEF TypeOK, Content, Shape, JournalPlaced, LocalsSet, Placed, DefiniteAnswer, StageComplete, Progress, Coherent, Settled, LiveIsNew, LiveIsOld, Job, Journal, CheckExpected
  <2> QED
    BY <2>1, <2>2, <2>3
<1>10. CASE CreateStage(p)
  <2>1. ASSUME NEW s \in survivors' PROVE Coherent(s)' /\ Resolvable(s)'
    BY <1>0, <1>d, <1>10 DEF TypeOK, Content, Shape, JournalPlaced, LocalsSet, Placed, Progress, Coherent, Resolvable, Settled, LiveIsNew, LiveIsOld, Job, Journal, CreateStage
  <2>2. ASSUME NEW q \in Proc, q # p PROVE Progress(q)'
    BY <1>0, <1>i, <2>2, <1>10 DEF TypeOK, Progress, CreateStage
  <2>3. Progress(p)'
    BY <1>0, <1>d, <1>10 DEF TypeOK, Content, Shape, JournalPlaced, LocalsSet, Placed, DefiniteAnswer, StageComplete, Progress, Coherent, Settled, LiveIsNew, LiveIsOld, Job, Journal, CreateStage
  <2> QED
    BY <2>1, <2>2, <2>3
<1>11. CASE FillStage(p)
  <2>1. ASSUME NEW s \in survivors' PROVE Coherent(s)' /\ Resolvable(s)'
    BY <1>0, <1>d, <1>11 DEF TypeOK, Content, Shape, JournalPlaced, LocalsSet, Placed, Progress, Coherent, Resolvable, Settled, LiveIsNew, LiveIsOld, Job, Journal, FillStage, Filled, WithoutStage
  <2>2. ASSUME NEW q \in Proc, q # p PROVE Progress(q)'
    BY <1>0, <1>i, <2>2, <1>11 DEF TypeOK, Progress, FillStage
  <2>3. Progress(p)'
    BY <1>0, <1>d, <1>11 DEF TypeOK, Content, Shape, JournalPlaced, LocalsSet, Placed, DefiniteAnswer, StageComplete, Progress, Coherent, Settled, LiveIsNew, LiveIsOld, Job, Journal, FillStage, Filled, WithoutStage
  <2> QED
    BY <2>1, <2>2, <2>3
<1>12. CASE WriteJournalStage(p)
  <2>1. ASSUME NEW s \in survivors' PROVE Coherent(s)' /\ Resolvable(s)'
    BY <1>0, <1>d, <1>12 DEF TypeOK, Content, Shape, JournalPlaced, LocalsSet, Placed, Progress, Coherent, Resolvable, Settled, LiveIsNew, LiveIsOld, Job, Journal, WriteJournalStage, WithJournalStage
  <2>2. ASSUME NEW q \in Proc, q # p PROVE Progress(q)'
    BY <1>0, <1>i, <2>2, <1>12 DEF TypeOK, Progress, WriteJournalStage
  <2>3. Progress(p)'
    BY <1>0, <1>d, <1>12 DEF TypeOK, Content, Shape, JournalPlaced, LocalsSet, Placed, DefiniteAnswer, StageComplete, Progress, Coherent, Settled, LiveIsNew, LiveIsOld, Job, Journal, WriteJournalStage, WithJournalStage
  <2> QED
    BY <2>1, <2>2, <2>3
<1>13. CASE PublishJournal(p)
  <2>b. /\ pc[p] = "publish" /\ ctx[p] = "publish" /\ disk.journal = NoJournal
        /\ job[p] \in Job /\ job[p].tx \in Tx /\ disk.live = job[p].exp
    BY <1>0, <1>d, <1>13 DEF PublishJournal, Shape, JournalPlaced, LocalsSet, Placed, Progress
  <2>w. /\ WithoutJournalStage(job[p].tx).live = disk.live
        /\ WithoutJournalStage(job[p].tx).journal = disk.journal
        /\ WithoutJournalStage(job[p].tx) \in Content
    BY <2>b, <1>0 DEF TypeOK, Content, WithoutJournalStage
  <2>a. /\ disk'.live = disk.live
        /\ disk'.journal = IF pc'[p] = "publish_sync" THEN OwnJournal(p) ELSE NoJournal
        /\ survivors' \subseteq survivors \cup {disk'}
    BY <2>b, <2>w, <1>0, <1>13 DEF TypeOK, Content, PublishJournal
  <2>s. \A s \in survivors : s.live = disk.live /\ Resolvable(s)
    BY <2>b, <1>d DEF Coherent
  <2>j. job' = job /\ answer' = answer
    BY <1>13 DEF PublishJournal
  <2>1. ASSUME NEW s \in survivors' PROVE Coherent(s)' /\ Resolvable(s)'
    <3>1. s.live = disk'.live
      BY <2>a, <2>s
    <3>2. Resolvable(s)
      BY <2>a, <2>b, <2>s DEF Resolvable
    <3> QED
      BY <3>1, <3>2 DEF Coherent, Resolvable
  <2>2. ASSUME NEW q \in Proc, q # p PROVE Progress(q)'
    BY <1>0, <1>i, <2>2, <1>13 DEF TypeOK, Progress, PublishJournal
  <2>3. Progress(p)'
    <3>1. Settled'
      BY <2>a, <2>s DEF Settled
    <3>2. \/ pc'[p] = "publish_sync"
          \/ pc'[p] = "dropstage" /\ verdict'[p] = "not_applied"
          \/ pc'[p] = "recover" /\ ctx'[p] = "reconcile"
      BY <1>0, <1>13 DEF TypeOK, PublishJournal
    <3> QED
      BY <3>1, <3>2, <2>a, <2>b, <2>j DEF Progress, LiveIsNew, LiveIsOld
  <2> QED
    BY <2>1, <2>2, <2>3
<1>14. CASE SyncPublishedJournal(p)
  <2>1. ASSUME NEW s \in survivors' PROVE Coherent(s)' /\ Resolvable(s)'
    BY <1>0, <1>d, <1>14 DEF TypeOK, Content, Shape, JournalPlaced, LocalsSet, Placed, Progress, Coherent, Resolvable, Settled, LiveIsNew, LiveIsOld, Job, Journal, SyncPublishedJournal
  <2>2. ASSUME NEW q \in Proc, q # p PROVE Progress(q)'
    BY <1>0, <1>i, <2>2, <1>14 DEF TypeOK, Progress, SyncPublishedJournal
  <2>3. Progress(p)'
    BY <1>0, <1>d, <1>14 DEF TypeOK, Content, Shape, JournalPlaced, LocalsSet, Placed, DefiniteAnswer, StageComplete, Progress, Coherent, Settled, LiveIsNew, LiveIsOld, Job, Journal, SyncPublishedJournal
  <2> QED
    BY <2>1, <2>2, <2>3
<1>15. CASE ReplaceTarget(p)
  <2>b. /\ pc[p] = "replace" /\ ctx[p] = "publish" /\ disk.journal = OwnJournal(p)
        /\ job[p] \in Job /\ job[p].tx \in Tx /\ disk.stage[job[p].tx] = job[p].new
        /\ disk.live = job[p].exp /\ survivors = {disk}
    BY <1>0, <1>d, <1>15 DEF ReplaceTarget, Shape, JournalPlaced, LocalsSet, Placed,
      StageComplete, Progress
  <2>w. /\ WithoutStage(job[p].tx).journal = disk.journal
        /\ WithoutStage(job[p].tx) \in Content
    BY <2>b, <1>0 DEF TypeOK, Content, WithoutStage, Value
  <2>a. /\ disk'.journal = OwnJournal(p)
        /\ disk'.live = IF pc'[p] = "replace_sync" THEN job[p].new ELSE job[p].exp
        /\ survivors' = {disk, disk'}
    BY <2>b, <2>w, <1>0, <1>15 DEF TypeOK, Content, ReplaceTarget
  <2>j. job' = job /\ answer' = answer
    BY <1>15 DEF ReplaceTarget
  <2>n. OwnJournal(p) # NoJournal
    BY <2>b DEF Job, Journal
  <2>1. ASSUME NEW s \in survivors' PROVE Coherent(s)' /\ Resolvable(s)'
    <3>1. s.journal = OwnJournal(p) /\ s.live \in {job[p].exp, job[p].new}
      BY <2>a, <2>b
    <3>2. s.live = disk'.live \/ (disk'.live = job[p].new /\ s.live = job[p].exp)
      <4>1. s = disk \/ s = disk'
        BY <2>a
      <4>2. disk'.live \in {job[p].exp, job[p].new} /\ disk.live = job[p].exp
        BY <2>a, <2>b
      <4> QED
        BY <4>1, <4>2
    <3> QED
      BY <3>1, <3>2, <2>a, <2>n DEF Coherent, Resolvable
  <2>2. ASSUME NEW q \in Proc, q # p PROVE Progress(q)'
    BY <1>0, <1>i, <2>2, <1>15 DEF TypeOK, Progress, ReplaceTarget
  <2>3. Progress(p)'
    <3>1. pc'[p] # "replace_sync" => Settled'
      BY <2>a, <2>b DEF Settled
    <3>2. \/ pc'[p] = "replace_sync"
          \/ pc'[p] = "unstage" /\ ctx'[p] = "rollback"
          \/ pc'[p] = "recover" /\ ctx'[p] = "reconcile"
      BY <1>0, <1>15 DEF TypeOK, ReplaceTarget
    <3> QED
      BY <3>1, <3>2, <2>a, <2>b, <2>j DEF Progress, LiveIsNew, LiveIsOld
  <2> QED
    BY <2>1, <2>2, <2>3
<1>16. CASE SyncReplacedTarget(p)
  <2>1. ASSUME NEW s \in survivors' PROVE Coherent(s)' /\ Resolvable(s)'
    BY <1>0, <1>d, <1>16 DEF TypeOK, Content, Shape, JournalPlaced, LocalsSet, Placed, Progress, Coherent, Resolvable, Settled, LiveIsNew, LiveIsOld, Job, Journal, SyncReplacedTarget
  <2>2. ASSUME NEW q \in Proc, q # p PROVE Progress(q)'
    BY <1>0, <1>i, <2>2, <1>16 DEF TypeOK, Progress, SyncReplacedTarget
  <2>3. Progress(p)'
    BY <1>0, <1>d, <1>16 DEF TypeOK, Content, Shape, JournalPlaced, LocalsSet, Placed, DefiniteAnswer, StageComplete, Progress, Coherent, Settled, LiveIsNew, LiveIsOld, Job, Journal, SyncReplacedTarget
  <2> QED
    BY <2>1, <2>2, <2>3
<1>17. CASE ResolveWithoutJournal(p)
  <2>1. ASSUME NEW s \in survivors' PROVE Coherent(s)' /\ Resolvable(s)'
    BY <1>0, <1>d, <1>17 DEF TypeOK, Content, Shape, JournalPlaced, LocalsSet, Placed, Progress, Coherent, Resolvable, Settled, LiveIsNew, LiveIsOld, Job, Journal, ResolveWithoutJournal
  <2>2. ASSUME NEW q \in Proc, q # p PROVE Progress(q)'
    BY <1>0, <1>i, <2>2, <1>17 DEF TypeOK, Progress, ResolveWithoutJournal
  <2>3. Progress(p)'
    BY <1>0, <1>d, <1>17 DEF TypeOK, Content, Shape, JournalPlaced, LocalsSet, Placed, DefiniteAnswer, StageComplete, Progress, Coherent, Settled, LiveIsNew, LiveIsOld, Job, Journal, ResolveWithoutJournal
  <2> QED
    BY <2>1, <2>2, <2>3
<1>18. CASE RetryReconciliation(p)
  <2>1. ASSUME NEW s \in survivors' PROVE Coherent(s)' /\ Resolvable(s)'
    BY <1>0, <1>d, <1>18 DEF TypeOK, Content, Shape, JournalPlaced, LocalsSet, Placed, Progress, Coherent, Resolvable, Settled, LiveIsNew, LiveIsOld, Job, Journal, RetryReconciliation
  <2>2. ASSUME NEW q \in Proc, q # p PROVE Progress(q)'
    BY <1>0, <1>i, <2>2, <1>18 DEF TypeOK, Progress, RetryReconciliation
  <2>3. Progress(p)'
    BY <1>0, <1>d, <1>18 DEF TypeOK, Content, Shape, JournalPlaced, LocalsSet, Placed, DefiniteAnswer, StageComplete, Progress, Coherent, Settled, LiveIsNew, LiveIsOld, Job, Journal, RetryReconciliation
  <2> QED
    BY <2>1, <2>2, <2>3
<1>19. CASE DropStage(p)
  <2>1. ASSUME NEW s \in survivors' PROVE Coherent(s)' /\ Resolvable(s)'
    BY <1>0, <1>d, <1>19 DEF TypeOK, Content, Shape, JournalPlaced, LocalsSet, Placed, Progress, Coherent, Resolvable, Settled, LiveIsNew, LiveIsOld, Job, Journal, DropStage, WithoutStage
  <2>2. ASSUME NEW q \in Proc, q # p PROVE Progress(q)'
    BY <1>0, <1>i, <2>2, <1>19 DEF TypeOK, Progress, DropStage
  <2>3. Progress(p)'
    BY <1>0, <1>d, <1>19 DEF TypeOK, Content, Shape, JournalPlaced, LocalsSet, Placed, DefiniteAnswer, StageComplete, Progress, Coherent, Settled, LiveIsNew, LiveIsOld, Job, Journal, DropStage, WithoutStage
  <2> QED
    BY <2>1, <2>2, <2>3
<1>20. CASE SyncDroppedStage(p)
  <2>1. ASSUME NEW s \in survivors' PROVE Coherent(s)' /\ Resolvable(s)'
    BY <1>0, <1>d, <1>20 DEF TypeOK, Content, Shape, JournalPlaced, LocalsSet, Placed, Progress, Coherent, Resolvable, Settled, LiveIsNew, LiveIsOld, Job, Journal, SyncDroppedStage
  <2>2. ASSUME NEW q \in Proc, q # p PROVE Progress(q)'
    BY <1>0, <1>i, <2>2, <1>20 DEF TypeOK, Progress, SyncDroppedStage
  <2>3. Progress(p)'
    BY <1>0, <1>d, <1>20 DEF TypeOK, Content, Shape, JournalPlaced, LocalsSet, Placed, DefiniteAnswer, StageComplete, Progress, Coherent, Settled, LiveIsNew, LiveIsOld, Job, Journal, SyncDroppedStage
  <2> QED
    BY <2>1, <2>2, <2>3
<1>21. CASE ReadFails(p)
  <2>1. ASSUME NEW s \in survivors' PROVE Coherent(s)' /\ Resolvable(s)'
    BY <1>0, <1>d, <1>21 DEF TypeOK, Content, Shape, JournalPlaced, LocalsSet, Placed, Progress, Coherent, Resolvable, Settled, LiveIsNew, LiveIsOld, Job, Journal, ReadFails
  <2>2. ASSUME NEW q \in Proc, q # p PROVE Progress(q)'
    BY <1>0, <1>i, <2>2, <1>21 DEF TypeOK, Progress, ReadFails
  <2>3. Progress(p)'
    BY <1>0, <1>d, <1>21 DEF TypeOK, Content, Shape, JournalPlaced, LocalsSet, Placed, DefiniteAnswer, StageComplete, Progress, Coherent, Settled, LiveIsNew, LiveIsOld, Job, Journal, ReadFails
  <2> QED
    BY <2>1, <2>2, <2>3
<1> QED
  BY <1>1, <1>2, <1>3, <1>4, <1>5, <1>6, <1>7, <1>8, <1>9, <1>10, <1>11, <1>12, <1>13, <1>14, <1>15, <1>16, <1>17, <1>18, <1>19, <1>20, <1>21 DEF Internal

LEMMA OtherDurable ==
    ASSUME Structure, Durable,
           \/ \E p \in Proc : Client(p)
           \/ Environment
           \/ UNCHANGED vars
    PROVE  Durable'
<1> USE ConstantAssumption
  DEF Untouched, directory, Return, Goto, Enter, Forget, PublishSteps, CleanupSteps,
      DropSteps, OwnJournal
<1>0. TypeOK /\ Locked /\ foreign \in Nat
  BY DEF Structure, TypeOK
<1>1. ASSUME NEW p \in Proc, Client(p) PROVE Durable'
  <2>1. UNCHANGED <<disk, survivors, foreign>>
    BY <1>1 DEF Client, Acquire, Release, CallRecover, CallCommit
  <2>2. \A q \in Proc \ {p} : pc[q] = "idle"
    BY <1>0, <1>1 DEF Client, Acquire, Release, CallRecover, CallCommit, Locked
  <2>3. ASSUME NEW q \in Proc, q # p PROVE Progress(q)'
    <3>1. pc[q] = "idle"
      BY <2>2, <2>3
    <3>2. pc'[q] = "idle"
      BY <1>0, <1>1, <2>3, <3>1 DEF TypeOK, Client, Acquire, Release, CallRecover, CallCommit
    <3> QED
      BY <3>2 DEF Progress
  <2>4. Progress(p)'
    <3>1. \/ pc'[p] = "idle"
          \/ pc'[p] = "held" /\ answer'[p] = "none"
          \/ pc'[p] = "recover" /\ ctx'[p] \in {"recover", "commit"}
      <4>1. CASE Acquire(p)
        BY <1>0, <4>1 DEF TypeOK, Acquire
      <4>2. CASE Release(p)
        BY <1>0, <4>2 DEF TypeOK, Release
      <4>3. CASE CallRecover(p)
        BY <1>0, <4>3 DEF TypeOK, CallRecover
      <4>4. ASSUME NEW exp \in Value, NEW new \in Doc, CallCommit(p, exp, new)
            PROVE  pc'[p] = "recover" /\ ctx'[p] = "commit"
        BY <1>0, <4>4 DEF TypeOK, CallCommit
      <4> QED
        BY <1>1, <4>1, <4>2, <4>3, <4>4 DEF Client
    <3> QED
      BY <3>1 DEF Progress
  <2>5. \A s \in survivors' : foreign' = 0 => Coherent(s)' /\ Resolvable(s)'
    BY <2>1 DEF Durable, Coherent, Resolvable
  <2> QED
    BY <2>3, <2>4, <2>5 DEF Durable
<1>2. ASSUME NEW p \in Proc, Kill(p) PROVE Durable'
  <2>1. UNCHANGED <<disk, survivors, foreign>>
    BY <1>2 DEF Kill
  <2>2. \A q \in Proc : pc'[q] = "idle"
    BY <1>0, <1>2 DEF Kill, Locked
  <2>3. \A q \in Proc : Progress(q)'
    BY <2>2 DEF Progress
  <2>5. \A s \in survivors' : foreign' = 0 => Coherent(s)' /\ Resolvable(s)'
    BY <2>1 DEF Durable, Coherent, Resolvable
  <2> QED
    BY <2>3, <2>5 DEF Durable
<1>3. CASE PowerFailure
  <2>1. disk' \in survivors /\ survivors' = {disk'} /\ foreign' = foreign
    BY <1>3 DEF PowerFailure, LosePower
  <2>2. \A q \in Proc : pc'[q] = "idle"
    BY <1>3 DEF PowerFailure
  <2>3. \A q \in Proc : Progress(q)'
    BY <2>2 DEF Progress
  <2>5. \A s \in survivors' : foreign' = 0 => Coherent(s)' /\ Resolvable(s)'
    BY <2>1 DEF Durable, Coherent, Resolvable
  <2> QED
    BY <2>3, <2>5 DEF Durable
<1>4. ASSUME NEW d \in Doc, ForeignWrite(d) PROVE Durable'
  BY <1>0, <1>4 DEF ForeignWrite, Durable
<1>5. CASE UNCHANGED vars
  <2>1. \A q \in Proc : Progress(q) => Progress(q)'
    BY <1>5 DEF vars, Progress, LiveIsNew, LiveIsOld, Settled
  <2>2. \A s \in survivors' : foreign' = 0 => Coherent(s)' /\ Resolvable(s)'
    BY <1>5 DEF vars, Durable, Coherent, Resolvable
  <2> QED
    BY <1>5, <2>1, <2>2 DEF vars, Durable
<1> QED
  BY <1>1, <1>2, <1>3, <1>4, <1>5 DEF Environment

LEMMA DurableInit == Init => Durable
  BY ConstantAssumption DEF Init, InitDirectory, Durable, Coherent, Resolvable, Progress,
     PublishSteps, CleanupSteps, DropSteps

\* As long as every writer takes the lock, every content a power failure can
\* leave is explained by the journal found in it.
THEOREM DurableInvariant == Spec => [](Structure /\ Durable)
<1>1. Structure /\ Durable /\ [Next]_vars => Durable'
  BY InternalDurable, OtherDurable DEF Next
<1>2. Structure /\ [Next]_vars => Structure'
  BY InternalStructure, ClientStructure, EnvironmentStructure, StutterStructure DEF Next
<1> QED
  BY StructureInit, DurableInit, <1>1, <1>2, PTL DEF Spec

\* recover_locked can resolve every journal a stopped process left: the live
\* document is its base or its target.
THEOREM JournalsResolvable == Spec => []JournalResolvable
<1>1. Durable => JournalResolvable
  BY DEF Durable, Resolvable, JournalResolvable
<1> QED
  BY <1>1, DurableInvariant, PTL

\* A receipt of commit_locked survives a power failure, and nothing of a call
\* answered NotApplied does.
THEOREM AnswersTrue == Spec => []AnswersAreTrue
<1>1. Durable => AnswersAreTrue
  BY DEF Durable, Progress, LiveIsNew, LiveIsOld, Settled, AnswersAreTrue
<1> QED
  BY <1>1, DurableInvariant, PTL

\* Only the rename of a lock holder's stage changes the document, and only from
\* the expected to the requested content.
THEOREM ReplacedAsExpected == Spec => OnlyExpectedReplaced
<1> DEFINE Replaced ==
      disk'.live # disk.live /\ foreign' = 0 /\ crashes' = crashes =>
        \E p \in Proc : /\ lock = p
                       /\ disk.live = job[p].exp /\ disk'.live = job[p].new
                       /\ disk.journal = OwnJournal(p)
                       /\ survivors = {disk}
<1>1. ASSUME Structure, Durable, [Next]_vars PROVE Replaced
  <2> USE DEF Mutate, SyncDirectory, BestEffort, Untouched, directory
  <2>0. TypeOK
    BY <1>1 DEF Structure
  <2>1. ASSUME NEW p \in Proc, ReplaceTarget(p) PROVE Replaced
    <3>1. CASE disk' = disk
      BY <3>1
    <3>2. CASE foreign # 0
      BY <3>2, <2>1 DEF ReplaceTarget, Frame
    <3>3. CASE disk' # disk /\ foreign = 0
      <4>1. /\ pc[p] = "replace" /\ disk.live = job[p].exp /\ survivors = {disk}
            /\ disk.stage[job[p].tx] = job[p].new /\ disk.journal = OwnJournal(p)
            /\ lock = p
        <5>1. pc[p] = "replace" /\ lock = p
          BY <1>1, <2>1 DEF ReplaceTarget, Structure, Locked
        <5>2. disk.stage[job[p].tx] = job[p].new /\ disk.journal = OwnJournal(p)
          BY <1>1, <5>1 DEF Structure, Shape, StageComplete, JournalPlaced
        <5>3. disk.live = job[p].exp /\ survivors = {disk}
          BY <1>1, <3>3, <5>1, <5>2 DEF Durable, Progress, PublishSteps, Structure, Settled, LiveIsOld
        <5> QED
          BY <5>1, <5>2, <5>3
      <4>2. WithoutStage(job[p].tx) \in [live : Value, journal : Journal \cup {NoJournal},
              stage : [Tx -> Value \cup {Torn}], jstages : SUBSET Tx]
        BY <2>0, <4>1 DEF TypeOK, Content, WithoutStage, Value
      <4>3. disk'.live = job[p].new
        BY <2>1, <3>3, <4>1, <4>2 DEF ReplaceTarget
      <4> QED
        BY <4>1, <4>3
    <3> QED
      BY <3>1, <3>2, <3>3
  <2>2. ASSUME NEW p \in Proc, Internal(p), ~ReplaceTarget(p) PROVE disk'.live = disk.live
    BY <2>0, <2>2 DEF TypeOK, Content, Internal, RecoverNone, RecoverFinalize, RecoverRollBack, RecoverConflict, RemoveStage, SyncRemovedStage, RemoveJournal, SyncRemovedJournal, CheckExpected, CreateStage, FillStage, WriteJournalStage, PublishJournal, SyncPublishedJournal, SyncReplacedTarget, ResolveWithoutJournal, RetryReconciliation, DropStage, SyncDroppedStage, ReadFails,
       StageToClean, WithoutStage, Filled, WithJournalStage, WithoutJournalStage
  <2>3. ASSUME NEW p \in Proc, Client(p) PROVE disk' = disk
    BY <2>3 DEF Client, Acquire, Release, CallRecover, CallCommit
  <2>4. ASSUME Environment PROVE Replaced
    <3>1. ASSUME NEW p \in Proc, Kill(p) PROVE Replaced
      BY <3>1 DEF Kill
    <3>2. CASE PowerFailure
      BY <2>0, <3>2 DEF TypeOK, PowerFailure
    <3>3. ASSUME NEW d \in Doc, ForeignWrite(d) PROVE Replaced
      BY <2>0, <3>3 DEF TypeOK, ForeignWrite
    <3> QED
      BY <2>4, <3>1, <3>2, <3>3 DEF Environment
  <2> QED
    BY <1>1, <2>1, <2>2, <2>3, <2>4 DEF Next, vars
<1> QED
  BY <1>1, DurableInvariant, PTL DEF Spec, OnlyExpectedReplaced

---------------------------------------------------------------------------
(* The refinement: every step of the store is a step of the register.      *)

\* Which of its two values the document has while a call runs, and whether the
\* call put it there.
Effect(p) == Committing(p) =>
    /\ \/ ctx[p] \in {"commit", "rollback"}
       \/ pc[p] \in PublishSteps \ {"replace_sync"}
       \/ pc[p] \in CleanupSteps /\ ctx[p] \in {"reconcile", "retry"} /\ verdict[p] = "rolled_back"
       \/ pc[p] \in DropSteps /\ verdict[p] = "not_applied"
       => ~applied[p]
    /\ ctx[p] = "finalize" \/ pc[p] = "replace_sync" => applied[p]
    /\ ctx[p] # "commit" => disk.live = IF applied[p] THEN job[p].new ELSE job[p].exp

Effective == foreign = 0 => \A p \in Proc : Effect(p)


\* Only the rename of the stage changes the document.
LEMMA DocumentStays ==
    ASSUME Structure, NEW p \in Proc, Internal(p), ~ReplaceTarget(p)
    PROVE  disk'.live = disk.live
<1> USE DEF Mutate, SyncDirectory, BestEffort, Untouched, directory
<1>0. disk \in Content /\ survivors \subseteq Content
  BY DEF Structure, TypeOK
<1> QED
  BY <1>0 DEF Content, Internal, RecoverNone, RecoverFinalize, RecoverRollBack, RecoverConflict,
       RemoveStage, SyncRemovedStage, RemoveJournal, SyncRemovedJournal,
       CheckExpected, CreateStage, FillStage, WriteJournalStage,
       PublishJournal, SyncPublishedJournal, SyncReplacedTarget,
       ResolveWithoutJournal, RetryReconciliation, DropStage,
       SyncDroppedStage, ReadFails,
       StageToClean, WithoutStage, Filled, WithJournalStage, WithoutJournalStage


\* Processes other than the one in the store are idle before and after its step.
LEMMA OthersIdle ==
    ASSUME Structure, NEW p \in Proc, Internal(p)
    PROVE  /\ pc[p] \notin {"idle", "held"}
           /\ \A q \in Proc \ {p} : pc[q] = "idle" /\ pc'[q] = "idle"
<1>1. pc[p] \notin {"idle", "held"}
  BY DEF Internal, RecoverNone, RecoverFinalize, RecoverRollBack, RecoverConflict,
       RemoveStage, SyncRemovedStage, RemoveJournal, SyncRemovedJournal,
       CheckExpected, CreateStage, FillStage, WriteJournalStage,
       PublishJournal, SyncPublishedJournal, ReplaceTarget,
       SyncReplacedTarget, ResolveWithoutJournal, RetryReconciliation,
       DropStage, SyncDroppedStage, ReadFails
<1>2. \A q \in Proc \ {p} : pc[q] = "idle"
  BY <1>1 DEF Structure, Locked
<1>3. lock' = lock
  BY DEF Internal, Frame, RecoverNone, RecoverFinalize, RecoverRollBack, RecoverConflict,
       RemoveStage, SyncRemovedStage, RemoveJournal, SyncRemovedJournal,
       CheckExpected, CreateStage, FillStage, WriteJournalStage,
       PublishJournal, SyncPublishedJournal, ReplaceTarget,
       SyncReplacedTarget, ResolveWithoutJournal, RetryReconciliation,
       DropStage, SyncDroppedStage, ReadFails
<1>4. Structure'
  BY InternalStructure
<1>5. ASSUME NEW q \in Proc \ {p} PROVE pc'[q] = "idle"
  <2>1. lock = p
    BY <1>1 DEF Structure, Locked
  <2> QED
    BY <1>3, <1>4, <2>1 DEF Structure, Locked
<1> QED
  BY <1>1, <1>2, <1>5


LEMMA InternalEffective ==
    ASSUME Structure, Durable, Effective, NEW p \in Proc, Internal(p)
    PROVE  Effective'
<1> USE ConstantAssumption
  DEF Recovered, Cleaned, CleanupFailed, Reconcile, Return, Goto, Enter, CleanThen, Frame,
      SpendFault, Answers, Errors, Outcomes,
      PublishSteps, CleanupSteps, DropSteps, NoJournalSteps, RecoveryContexts, OwnJournal
<1>0. TypeOK /\ Shape(p) /\ p \in Proc
  BY DEF Structure
<1>f. foreign' = foreign
  BY DEF Internal, RecoverNone, RecoverFinalize, RecoverRollBack, RecoverConflict,
       RemoveStage, SyncRemovedStage, RemoveJournal, SyncRemovedJournal,
       CheckExpected, CreateStage, FillStage, WriteJournalStage,
       PublishJournal, SyncPublishedJournal, ReplaceTarget,
       SyncReplacedTarget, ResolveWithoutJournal, RetryReconciliation,
       DropStage, SyncDroppedStage, ReadFails
<1> SUFFICES ASSUME foreign = 0 PROVE \A q \in Proc : Effect(q)'
  BY <1>f DEF Effective
<1>e. Effect(p)
  BY DEF Effective
<1>p. Progress(p)
  BY DEF Durable
<1>q. ASSUME NEW q \in Proc, q # p PROVE Effect(q)'
  BY <1>q, OthersIdle DEF Effect, Committing
<1>l. ~ReplaceTarget(p) => disk'.live = disk.live
  BY DocumentStays
<1>s. Placed(p) /\ LocalsSet(p) /\ JournalPlaced(p) /\ StageComplete(p)
  BY <1>0 DEF Shape

<1>1. CASE RecoverNone(p)
  <2>1. ~ReplaceTarget(p)
    BY <1>1 DEF RecoverNone, ReplaceTarget
  <2> QED
    BY <2>1, <1>1, <1>0, <1>l, <1>e, <1>p, <1>q, <1>s
    DEF TypeOK, Placed, LocalsSet, JournalPlaced, Progress, LiveIsNew, LiveIsOld, Job, Journal,
        Effect, Committing, RecoverNone
<1>2. CASE RecoverFinalize(p)
  <2>1. ~ReplaceTarget(p)
    BY <1>2 DEF RecoverFinalize, ReplaceTarget
  <2> QED
    BY <2>1, <1>2, <1>0, <1>l, <1>e, <1>p, <1>q, <1>s
    DEF TypeOK, Placed, LocalsSet, JournalPlaced, Progress, LiveIsNew, LiveIsOld, Job, Journal,
        Effect, Committing, RecoverFinalize
<1>3. CASE RecoverRollBack(p)
  <2>1. ~ReplaceTarget(p)
    BY <1>3 DEF RecoverRollBack, ReplaceTarget
  <2> QED
    BY <2>1, <1>3, <1>0, <1>l, <1>e, <1>p, <1>q, <1>s
    DEF TypeOK, Placed, LocalsSet, JournalPlaced, Progress, LiveIsNew, LiveIsOld, Job, Journal,
        Effect, Committing, RecoverRollBack
<1>4. CASE RecoverConflict(p)
  <2>1. ~ReplaceTarget(p)
    BY <1>4 DEF RecoverConflict, ReplaceTarget
  <2> QED
    BY <2>1, <1>4, <1>0, <1>l, <1>e, <1>p, <1>q, <1>s
    DEF TypeOK, Placed, LocalsSet, JournalPlaced, Progress, LiveIsNew, LiveIsOld, Job, Journal,
        Effect, Committing, RecoverConflict
<1>5. CASE RemoveStage(p)
  <2>1. ~ReplaceTarget(p)
    BY <1>5 DEF RemoveStage, ReplaceTarget
  <2> QED
    BY <2>1, <1>5, <1>0, <1>l, <1>e, <1>p, <1>q, <1>s
    DEF TypeOK, Placed, LocalsSet, JournalPlaced, Progress, LiveIsNew, LiveIsOld, Job, Journal,
        Effect, Committing, RemoveStage
<1>6. CASE SyncRemovedStage(p)
  <2>1. ~ReplaceTarget(p)
    BY <1>6 DEF SyncRemovedStage, ReplaceTarget
  <2> QED
    BY <2>1, <1>6, <1>0, <1>l, <1>e, <1>p, <1>q, <1>s
    DEF TypeOK, Placed, LocalsSet, JournalPlaced, Progress, LiveIsNew, LiveIsOld, Job, Journal,
        Effect, Committing, SyncRemovedStage
<1>7. CASE RemoveJournal(p)
  <2>1. ~ReplaceTarget(p)
    BY <1>7 DEF RemoveJournal, ReplaceTarget
  <2> QED
    BY <2>1, <1>7, <1>0, <1>l, <1>e, <1>p, <1>q, <1>s
    DEF TypeOK, Placed, LocalsSet, JournalPlaced, Progress, LiveIsNew, LiveIsOld, Job, Journal,
        Effect, Committing, RemoveJournal
<1>8. CASE SyncRemovedJournal(p)
  <2>1. ~ReplaceTarget(p)
    BY <1>8 DEF SyncRemovedJournal, ReplaceTarget
  <2> QED
    BY <2>1, <1>8, <1>0, <1>l, <1>e, <1>p, <1>q, <1>s
    DEF TypeOK, Placed, LocalsSet, JournalPlaced, Progress, LiveIsNew, LiveIsOld, Job, Journal,
        Effect, Committing, SyncRemovedJournal
<1>9. CASE CheckExpected(p)
  <2>1. ~ReplaceTarget(p)
    BY <1>9 DEF CheckExpected, ReplaceTarget
  <2> QED
    BY <2>1, <1>9, <1>0, <1>l, <1>e, <1>p, <1>q, <1>s
    DEF TypeOK, Placed, LocalsSet, JournalPlaced, Progress, LiveIsNew, LiveIsOld, Job, Journal,
        Effect, Committing, CheckExpected
<1>10. CASE CreateStage(p)
  <2>1. ~ReplaceTarget(p)
    BY <1>10 DEF CreateStage, ReplaceTarget
  <2> QED
    BY <2>1, <1>10, <1>0, <1>l, <1>e, <1>p, <1>q, <1>s
    DEF TypeOK, Placed, LocalsSet, JournalPlaced, Progress, LiveIsNew, LiveIsOld, Job, Journal,
        Effect, Committing, CreateStage
<1>11. CASE FillStage(p)
  <2>1. ~ReplaceTarget(p)
    BY <1>11 DEF FillStage, ReplaceTarget
  <2> QED
    BY <2>1, <1>11, <1>0, <1>l, <1>e, <1>p, <1>q, <1>s
    DEF TypeOK, Placed, LocalsSet, JournalPlaced, Progress, LiveIsNew, LiveIsOld, Job, Journal,
        Effect, Committing, FillStage
<1>12. CASE WriteJournalStage(p)
  <2>1. ~ReplaceTarget(p)
    BY <1>12 DEF WriteJournalStage, ReplaceTarget
  <2> QED
    BY <2>1, <1>12, <1>0, <1>l, <1>e, <1>p, <1>q, <1>s
    DEF TypeOK, Placed, LocalsSet, JournalPlaced, Progress, LiveIsNew, LiveIsOld, Job, Journal,
        Effect, Committing, WriteJournalStage
<1>13. CASE PublishJournal(p)
  <2>1. ~ReplaceTarget(p)
    BY <1>13 DEF PublishJournal, ReplaceTarget
  <2> QED
    BY <2>1, <1>13, <1>0, <1>l, <1>e, <1>p, <1>q, <1>s
    DEF TypeOK, Placed, LocalsSet, JournalPlaced, Progress, LiveIsNew, LiveIsOld, Job, Journal,
        Effect, Committing, PublishJournal
<1>14. CASE SyncPublishedJournal(p)
  <2>1. ~ReplaceTarget(p)
    BY <1>14 DEF SyncPublishedJournal, ReplaceTarget
  <2> QED
    BY <2>1, <1>14, <1>0, <1>l, <1>e, <1>p, <1>q, <1>s
    DEF TypeOK, Placed, LocalsSet, JournalPlaced, Progress, LiveIsNew, LiveIsOld, Job, Journal,
        Effect, Committing, SyncPublishedJournal
<1>15. CASE ReplaceTarget(p)
  <2>1. /\ pc[p] = "replace" /\ ctx[p] = "publish" /\ job[p] \in Job /\ job[p].tx \in Tx
        /\ disk.stage[job[p].tx] = job[p].new /\ disk.live = job[p].exp /\ ~applied[p]
    BY <1>15, <1>s, <1>p, <1>e DEF ReplaceTarget, Placed, LocalsSet, StageComplete, Progress,
       Effect, Committing
  <2>2. CASE Mutate([WithoutStage(job[p].tx) EXCEPT !.live = disk.stage[job[p].tx]])
             /\ applied' = [applied EXCEPT ![p] = TRUE] /\ Goto(p, "replace_sync")
    <3>1. disk'.live = job[p].new
      <4>1. WithoutStage(job[p].tx) \in Content
        BY <1>0, <2>1 DEF TypeOK, Content, WithoutStage, Value
      <4> QED
        BY <4>1, <2>1, <2>2 DEF Mutate, Content
    <3> QED
      BY <3>1, <2>1, <2>2, <1>0, <1>15, <1>q DEF TypeOK, Effect, Committing, ReplaceTarget
  <2>3. CASE Untouched /\ applied' = applied
    BY <2>1, <2>3, <1>0, <1>15, <1>q DEF TypeOK, Effect, Committing, ReplaceTarget, Untouched,
       directory
  <2> QED
    BY <2>2, <2>3, <1>15 DEF ReplaceTarget
<1>16. CASE SyncReplacedTarget(p)
  <2>1. ~ReplaceTarget(p)
    BY <1>16 DEF SyncReplacedTarget, ReplaceTarget
  <2> QED
    BY <2>1, <1>16, <1>0, <1>l, <1>e, <1>p, <1>q, <1>s
    DEF TypeOK, Placed, LocalsSet, JournalPlaced, Progress, LiveIsNew, LiveIsOld, Job, Journal,
        Effect, Committing, SyncReplacedTarget
<1>17. CASE ResolveWithoutJournal(p)
  <2>1. ~ReplaceTarget(p)
    BY <1>17 DEF ResolveWithoutJournal, ReplaceTarget
  <2> QED
    BY <2>1, <1>17, <1>0, <1>l, <1>e, <1>p, <1>q, <1>s
    DEF TypeOK, Placed, LocalsSet, JournalPlaced, Progress, LiveIsNew, LiveIsOld, Job, Journal,
        Effect, Committing, ResolveWithoutJournal
<1>18. CASE RetryReconciliation(p)
  <2>1. ~ReplaceTarget(p)
    BY <1>18 DEF RetryReconciliation, ReplaceTarget
  <2> QED
    BY <2>1, <1>18, <1>0, <1>l, <1>e, <1>p, <1>q, <1>s
    DEF TypeOK, Placed, LocalsSet, JournalPlaced, Progress, LiveIsNew, LiveIsOld, Job, Journal,
        Effect, Committing, RetryReconciliation
<1>19. CASE DropStage(p)
  <2>1. ~ReplaceTarget(p)
    BY <1>19 DEF DropStage, ReplaceTarget
  <2> QED
    BY <2>1, <1>19, <1>0, <1>l, <1>e, <1>p, <1>q, <1>s
    DEF TypeOK, Placed, LocalsSet, JournalPlaced, Progress, LiveIsNew, LiveIsOld, Job, Journal,
        Effect, Committing, DropStage
<1>20. CASE SyncDroppedStage(p)
  <2>1. ~ReplaceTarget(p)
    BY <1>20 DEF SyncDroppedStage, ReplaceTarget
  <2> QED
    BY <2>1, <1>20, <1>0, <1>l, <1>e, <1>p, <1>q, <1>s
    DEF TypeOK, Placed, LocalsSet, JournalPlaced, Progress, LiveIsNew, LiveIsOld, Job, Journal,
        Effect, Committing, SyncDroppedStage
<1>21. CASE ReadFails(p)
  <2>1. ~ReplaceTarget(p)
    BY <1>21 DEF ReadFails, ReplaceTarget
  <2> QED
    BY <2>1, <1>21, <1>0, <1>l, <1>e, <1>p, <1>q, <1>s
    DEF TypeOK, Placed, LocalsSet, JournalPlaced, Progress, LiveIsNew, LiveIsOld, Job, Journal,
        Effect, Committing, ReadFails
<1> QED
  BY <1>1, <1>2, <1>3, <1>4, <1>5, <1>6, <1>7, <1>8, <1>9, <1>10, <1>11,
       <1>12, <1>13, <1>14, <1>15, <1>16, <1>17, <1>18, <1>19, <1>20, <1>21 DEF Internal


LEMMA OtherEffective ==
    ASSUME Structure, Effective,
           \/ \E p \in Proc : Client(p)
           \/ Environment
           \/ UNCHANGED vars
    PROVE  Effective'
<1> USE ConstantAssumption DEF Effect, Committing, Return, Enter, Forget, PublishSteps,
      CleanupSteps, DropSteps
<1>0. TypeOK /\ Locked /\ foreign \in Nat
  BY DEF Structure, TypeOK
<1>1. ASSUME NEW p \in Proc, Client(p) PROVE Effective'
  <2>1. \A q \in Proc \ {p} : pc[q] = "idle"
    BY <1>0, <1>1 DEF Client, Acquire, Release, CallRecover, CallCommit, Locked
  <2>2. ASSUME NEW q \in Proc, q # p PROVE Effect(q)'
    <3>0. pc[q] = "idle"
      BY <2>1, <2>2
    <3>1. pc'[q] = "idle"
      BY <1>0, <1>1, <2>2, <3>0 DEF TypeOK, Client, Acquire, Release, CallRecover, CallCommit
    <3> QED
      BY <3>1
  <2>3. Effect(p)'
    <3>1. CASE Acquire(p) \/ Release(p) \/ CallRecover(p)
      <4>1. pc'[p] \in {"idle", "held"} \/ ctx'[p] = "recover"
        BY <3>1, <1>0 DEF TypeOK, Acquire, Release, CallRecover
      <4> QED
        BY <4>1
    <3>2. ASSUME NEW exp \in Value, NEW new \in Doc, CallCommit(p, exp, new)
          PROVE  Effect(p)'
      <4>1. pc'[p] = "recover" /\ ctx'[p] = "commit" /\ applied'[p] = FALSE
        BY <3>2, <1>0 DEF TypeOK, CallCommit
      <4> QED
        BY <4>1
    <3> QED
      BY <1>1, <3>1, <3>2 DEF Client
  <2> QED
    BY <2>2, <2>3 DEF Effective
<1>2. ASSUME Environment PROVE Effective'
  <2>1. ASSUME NEW p \in Proc, Kill(p) PROVE \A q \in Proc : pc'[q] = "idle"
    BY <1>0, <2>1 DEF TypeOK, Kill, Locked
  <2>2. CASE PowerFailure
    BY <2>2 DEF PowerFailure, Effective
  <2>3. ASSUME NEW d \in Doc, ForeignWrite(d) PROVE foreign' # 0
    BY <2>3, <1>0 DEF ForeignWrite
  <2> QED
    BY <1>2, <2>1, <2>2, <2>3 DEF Environment, Effective
<1>3. CASE UNCHANGED vars
  BY <1>3 DEF vars, Effective
<1> QED
  BY <1>1, <1>2, <1>3

\* The rename a commit call made, and no other, decides what the document is
\* until the call answers.
THEOREM EffectInvariant == Spec => [](Structure /\ Durable /\ Effective)
<1>1. Init => Effective
  BY DEF Init, Effective, Effect, Committing
<1>2. Structure /\ Durable /\ Effective /\ [Next]_vars => Effective'
  BY InternalEffective, OtherEffective DEF Next
<1> QED
  BY <1>1, <1>2, DurableInvariant, PTL DEF Spec

---------------------------------------------------------------------------
(* What a step of the store does to the register.                          *)

Exposed == {s.live : s \in survivors}
Calls   == [q \in Proc |-> AbstractCall(q)]
Replies == [q \in Proc |-> AbstractReply(q)]

\* What a power failure may bring back only changes by the rename and by an
\* fsync.
LEMMA ExposedStays ==
    ASSUME Structure, NEW p \in Proc, Internal(p), ~ReplaceTarget(p)
    PROVE  Exposed' = Exposed \/ Exposed' = {disk.live}
<1>0. disk \in survivors /\ survivors \subseteq Content
  BY DEF Structure, TypeOK
<1>l. disk'.live = disk.live
  BY DocumentStays
<1>1. CASE Untouched
  BY <1>1 DEF Untouched, directory, Exposed
<1>2. CASE survivors' = {disk'}
  BY <1>2, <1>l DEF Exposed
<1>3. CASE survivors' = survivors \cup {disk'}
  BY <1>3, <1>l, <1>0 DEF Exposed
<1>4. CASE FillStage(p)
  <2>1. \A s \in survivors : Filled(job[p].tx, job[p].new, s).live = s.live
    BY <1>0 DEF Content, Filled
  <2>2. CASE survivors' = {Filled(job[p].tx, job[p].new, s) : s \in survivors}
    BY <2>1, <2>2 DEF Exposed
  <2>3. CASE BestEffort(WithoutStage(job[p].tx))
    BY <2>3, <1>1, <1>2, <1>3 DEF BestEffort, Mutate
  <2> QED
    BY <1>4, <2>2, <2>3 DEF FillStage
<1> QED
  BY <1>1, <1>2, <1>3, <1>4
  DEF Internal, SyncDirectory, Mutate, BestEffort,
      RecoverNone, RecoverFinalize, RecoverRollBack, RecoverConflict,
      RemoveStage, SyncRemovedStage, RemoveJournal, SyncRemovedJournal,
      CheckExpected, CreateStage, WriteJournalStage, PublishJournal,
      SyncPublishedJournal, SyncReplacedTarget, ResolveWithoutJournal,
      RetryReconciliation, DropStage, SyncDroppedStage, ReadFails


\* A step inside a call goes on with it,
Continues(p) ==
    /\ pc'[p] \notin {"idle", "held"}
    /\ ctx'[p] = "recover" <=> ctx[p] = "recover"
    /\ ctx[p] # "recover" =>
         job'[p].exp = job[p].exp /\ job'[p].new = job[p].new /\ applied'[p] = applied[p]

\* ends a recover call, which is none of the register's,
EndsRecovery(p) == pc'[p] = "held" /\ ctx[p] = "recover" /\ ctx'[p] = "recover"

\* or answers a commit call.  What it does to the directory besides shows nowhere.
Answering(p) ==
    /\ pc'[p] = "held" /\ ctx[p] # "recover" /\ ctx'[p] = ctx[p]
    /\ job' = job /\ (Untouched \/ Settled)
    /\ \/ answer'[p] \in Errors
       \/ answer'[p] = "conflict" /\ ~applied[p] /\ disk.live # job[p].exp
       \/ answer'[p] = "not_applied" /\ ~applied[p]
       \/ answer'[p] = "committed" /\ ctx[p] # "commit"

LEMMA InternalKinds ==
    ASSUME Structure, Durable, Effective, foreign = 0,
           NEW p \in Proc, Internal(p), ~ReplaceTarget(p)
    PROVE  Continues(p) \/ EndsRecovery(p) \/ Answering(p)
<1> USE ConstantAssumption
  DEF Recovered, Cleaned, CleanupFailed, Reconcile, Return, Goto, Enter, CleanThen, Frame,
      SpendFault, Answers, Errors, Outcomes, Untouched, directory,
      PublishSteps, CleanupSteps, DropSteps, NoJournalSteps, RecoveryContexts, OwnJournal
<1>0. TypeOK /\ Shape(p) /\ p \in Proc
  BY DEF Structure
<1>e. Effect(p)
  BY DEF Effective
<1>p. Progress(p)
  BY DEF Durable
<1>s. Placed(p) /\ LocalsSet(p) /\ JournalPlaced(p)
  BY <1>0 DEF Shape
<1>c. disk.journal = NoJournal => Settled
  BY DEF Durable, Coherent, Settled

<1>1. CASE RecoverNone(p)
  BY <1>1, <1>0, <1>e, <1>p, <1>s, <1>c
  DEF TypeOK, Placed, LocalsSet, JournalPlaced, Progress, LiveIsNew, LiveIsOld, Job, Journal,
      Effect, Committing, Continues, EndsRecovery, Answering, RecoverNone
<1>2. CASE RecoverFinalize(p)
  BY <1>2, <1>0, <1>e, <1>p, <1>s, <1>c
  DEF TypeOK, Placed, LocalsSet, JournalPlaced, Progress, LiveIsNew, LiveIsOld, Job, Journal,
      Effect, Committing, Continues, EndsRecovery, Answering, RecoverFinalize
<1>3. CASE RecoverRollBack(p)
  BY <1>3, <1>0, <1>e, <1>p, <1>s, <1>c
  DEF TypeOK, Placed, LocalsSet, JournalPlaced, Progress, LiveIsNew, LiveIsOld, Job, Journal,
      Effect, Committing, Continues, EndsRecovery, Answering, RecoverRollBack
<1>4. CASE RecoverConflict(p)
  BY <1>4, <1>0, <1>e, <1>p, <1>s, <1>c
  DEF TypeOK, Placed, LocalsSet, JournalPlaced, Progress, LiveIsNew, LiveIsOld, Job, Journal,
      Effect, Committing, Continues, EndsRecovery, Answering, RecoverConflict
<1>5. CASE RemoveStage(p)
  BY <1>5, <1>0, <1>e, <1>p, <1>s, <1>c
  DEF TypeOK, Placed, LocalsSet, JournalPlaced, Progress, LiveIsNew, LiveIsOld, Job, Journal,
      Effect, Committing, Continues, EndsRecovery, Answering, RemoveStage
<1>6. CASE SyncRemovedStage(p)
  BY <1>6, <1>0, <1>e, <1>p, <1>s, <1>c
  DEF TypeOK, Placed, LocalsSet, JournalPlaced, Progress, LiveIsNew, LiveIsOld, Job, Journal,
      Effect, Committing, Continues, EndsRecovery, Answering, SyncRemovedStage
<1>7. CASE RemoveJournal(p)
  BY <1>7, <1>0, <1>e, <1>p, <1>s, <1>c
  DEF TypeOK, Placed, LocalsSet, JournalPlaced, Progress, LiveIsNew, LiveIsOld, Job, Journal,
      Effect, Committing, Continues, EndsRecovery, Answering, RemoveJournal
<1>8. CASE SyncRemovedJournal(p)
  BY <1>8, <1>0, <1>e, <1>p, <1>s, <1>c
  DEF TypeOK, Placed, LocalsSet, JournalPlaced, Progress, LiveIsNew, LiveIsOld, Job, Journal,
      Effect, Committing, Continues, EndsRecovery, Answering, SyncRemovedJournal
<1>9. CASE CheckExpected(p)
  BY <1>9, <1>0, <1>e, <1>p, <1>s, <1>c
  DEF TypeOK, Placed, LocalsSet, JournalPlaced, Progress, LiveIsNew, LiveIsOld, Job, Journal,
      Effect, Committing, Continues, EndsRecovery, Answering, CheckExpected
<1>10. CASE CreateStage(p)
  BY <1>10, <1>0, <1>e, <1>p, <1>s, <1>c
  DEF TypeOK, Placed, LocalsSet, JournalPlaced, Progress, LiveIsNew, LiveIsOld, Job, Journal,
      Effect, Committing, Continues, EndsRecovery, Answering, CreateStage
<1>11. CASE FillStage(p)
  BY <1>11, <1>0, <1>e, <1>p, <1>s, <1>c
  DEF TypeOK, Placed, LocalsSet, JournalPlaced, Progress, LiveIsNew, LiveIsOld, Job, Journal,
      Effect, Committing, Continues, EndsRecovery, Answering, FillStage
<1>12. CASE WriteJournalStage(p)
  BY <1>12, <1>0, <1>e, <1>p, <1>s, <1>c
  DEF TypeOK, Placed, LocalsSet, JournalPlaced, Progress, LiveIsNew, LiveIsOld, Job, Journal,
      Effect, Committing, Continues, EndsRecovery, Answering, WriteJournalStage
<1>13. CASE PublishJournal(p)
  BY <1>13, <1>0, <1>e, <1>p, <1>s, <1>c
  DEF TypeOK, Placed, LocalsSet, JournalPlaced, Progress, LiveIsNew, LiveIsOld, Job, Journal,
      Effect, Committing, Continues, EndsRecovery, Answering, PublishJournal
<1>14. CASE SyncPublishedJournal(p)
  BY <1>14, <1>0, <1>e, <1>p, <1>s, <1>c
  DEF TypeOK, Placed, LocalsSet, JournalPlaced, Progress, LiveIsNew, LiveIsOld, Job, Journal,
      Effect, Committing, Continues, EndsRecovery, Answering, SyncPublishedJournal
<1>16. CASE SyncReplacedTarget(p)
  BY <1>16, <1>0, <1>e, <1>p, <1>s, <1>c
  DEF TypeOK, Placed, LocalsSet, JournalPlaced, Progress, LiveIsNew, LiveIsOld, Job, Journal,
      Effect, Committing, Continues, EndsRecovery, Answering, SyncReplacedTarget
<1>17. CASE ResolveWithoutJournal(p)
  BY <1>17, <1>0, <1>e, <1>p, <1>s, <1>c
  DEF TypeOK, Placed, LocalsSet, JournalPlaced, Progress, LiveIsNew, LiveIsOld, Job, Journal,
      Effect, Committing, Continues, EndsRecovery, Answering, ResolveWithoutJournal
<1>18. CASE RetryReconciliation(p)
  BY <1>18, <1>0, <1>e, <1>p, <1>s, <1>c
  DEF TypeOK, Placed, LocalsSet, JournalPlaced, Progress, LiveIsNew, LiveIsOld, Job, Journal,
      Effect, Committing, Continues, EndsRecovery, Answering, RetryReconciliation
<1>19. CASE DropStage(p)
  BY <1>19, <1>0, <1>e, <1>p, <1>s, <1>c
  DEF TypeOK, Placed, LocalsSet, JournalPlaced, Progress, LiveIsNew, LiveIsOld, Job, Journal,
      Effect, Committing, Continues, EndsRecovery, Answering, DropStage
<1>20. CASE SyncDroppedStage(p)
  BY <1>20, <1>0, <1>e, <1>p, <1>s, <1>c
  DEF TypeOK, Placed, LocalsSet, JournalPlaced, Progress, LiveIsNew, LiveIsOld, Job, Journal,
      Effect, Committing, Continues, EndsRecovery, Answering, SyncDroppedStage
<1>21. CASE ReadFails(p)
  BY <1>21, <1>0, <1>e, <1>p, <1>s, <1>c
  DEF TypeOK, Placed, LocalsSet, JournalPlaced, Progress, LiveIsNew, LiveIsOld, Job, Journal,
      Effect, Committing, Continues, EndsRecovery, Answering, ReadFails
<1> QED
  BY <1>1, <1>2, <1>3, <1>4, <1>5, <1>6, <1>7, <1>8, <1>9, <1>10, <1>11,
       <1>12, <1>13, <1>14, <1>16, <1>17, <1>18, <1>19, <1>20, <1>21 DEF Internal

---------------------------------------------------------------------------
(* Each kind of step is a step of the register.                            *)

RegisterStep == [Register!Next]_(Register!register)

\* Only the process that moves changes its call and its reply.
Alone(p) == \A q \in Proc \ {p} :
    AbstractCall(q)' = AbstractCall(q) /\ AbstractReply(q)' = AbstractReply(q)

LEMMA OneMoves ==
    ASSUME NEW p \in Proc, Alone(p)
    PROVE  /\ Calls' = [Calls EXCEPT ![p] = AbstractCall(p)']
           /\ Replies' = [Replies EXCEPT ![p] = AbstractReply(p)']
  BY DEF Alone, Calls, Replies

\* Nothing to be seen, or the register reaches the medium.
LEMMA Unseen ==
    ASSUME NEW p \in Proc, Alone(p), disk'.live = disk.live,
           AbstractCall(p)' = AbstractCall(p), AbstractReply(p)' = AbstractReply(p),
           Exposed' = Exposed \/ Exposed' = {disk.live}
    PROVE  RegisterStep
<1>1. Calls' = Calls /\ Replies' = Replies
  BY DEF Alone, Calls, Replies
<1>2. CASE Exposed' = Exposed
  BY <1>1, <1>2 DEF RegisterStep, Register!register, Calls, Replies, Exposed
<1>3. CASE Exposed' = {disk.live}
  <2>1. Register!Settle
    BY <1>1, <1>3 DEF Register!Settle, Calls, Replies, Exposed
  <2> QED
    BY <2>1 DEF RegisterStep, Register!Next
<1> QED
  BY <1>2, <1>3

LEMMA Left ==
    ASSUME NEW p \in Proc, Alone(p), UNCHANGED directory,
           AbstractCall(p)' = NoCall, AbstractReply(p)' = "none"
    PROVE  RegisterStep
<1>1. Register!Leave(p)
  BY OneMoves DEF Register!Leave, Calls, Replies, Exposed, directory
<1> QED
  BY <1>1 DEF RegisterStep, Register!Next

LEMMA Called ==
    ASSUME NEW p \in Proc, Alone(p), UNCHANGED directory,
           NEW exp \in Value, NEW new \in Doc, AbstractCall(p) = NoCall,
           AbstractCall(p)' = [exp |-> exp, new |-> new, taken |-> FALSE],
           AbstractReply(p)' = "none"
    PROVE  RegisterStep
<1>1. Register!Call(p, exp, new)
  BY OneMoves DEF Register!Call, Calls, Replies, Exposed, directory
<1> QED
  BY <1>1 DEF RegisterStep, Register!Next, Register!Value, Value

LEMMA Answered ==
    ASSUME NEW p \in Proc, Alone(p), disk'.live = disk.live, Exposed' = Exposed,
           AbstractCall(p) # NoCall, AbstractCall(p)' = NoCall,
           AbstractReply(p)' \in {"committed", "not_applied", "conflict", "unresolved"},
           Register!Justified(p, AbstractReply(p)')
    PROVE  RegisterStep
<1>1. Register!Reply(p, AbstractReply(p)')
  BY OneMoves DEF Register!Reply, Calls, Replies, Exposed
<1> QED
  BY <1>1 DEF RegisterStep, Register!Next

LEMMA Taken ==
    ASSUME NEW p \in Proc, Alone(p), disk.live = job[p].exp, disk'.live = job[p].new,
           survivors' = survivors \cup {disk'},
           NEW asked \in [exp : Value, new : Doc, taken : BOOLEAN],
           NEW given \in [exp : Value, new : Doc, taken : BOOLEAN],
           asked.exp = job[p].exp, asked.new = job[p].new, ~asked.taken,
           given.exp = asked.exp, given.new = asked.new, given.taken,
           AbstractCall(p) = asked, AbstractCall(p)' = given,
           AbstractReply(p)' = AbstractReply(p)
    PROVE  RegisterStep
<1>1. Exposed' = Exposed \cup {disk'.live}
  BY DEF Exposed
<1>2. Replies' = Replies
  BY DEF Alone, Replies
<1>3. Calls' = [Calls EXCEPT ![p].taken = TRUE]
  <2>1. Calls[p] = asked
    BY DEF Calls
  <2>2. PICK b \in BOOLEAN : b
    OBVIOUS
  <2>3. given = [asked EXCEPT !.taken = b]
    BY <2>2
  <2>4. b = TRUE
    BY <2>2
  <2>5. given = [asked EXCEPT !.taken = TRUE]
    BY <2>3, <2>4, Zenon
  <2> QED
    BY <2>1, <2>5, OneMoves
<1>4. asked # NoCall
  BY NoCallAssumption
<1>5. Register!Take(p)
  BY <1>1, <1>2, <1>3, <1>4 DEF Register!Take, Calls, Replies, Exposed
<1> QED
  BY <1>5 DEF RegisterStep, Register!Next

\* Processes that stay out of the store have neither a call nor a reply.
LEMMA IdleIsNothing ==
    ASSUME NEW p \in Proc, pc[p] = "idle"
    PROVE  AbstractCall(p) = NoCall /\ AbstractReply(p) = "none"
  BY DEF AbstractCall, AbstractReply, Committing

\* A step inside a call is a step of the register or none.
LEMMA InternalImplements ==
    ASSUME Structure, Durable, Effective, foreign = 0, NEW p \in Proc, Internal(p)
    PROVE  RegisterStep
<1>0. TypeOK /\ Shape(p) /\ Effect(p) /\ Progress(p)
  BY DEF Structure, Effective, Durable
<1>a. Alone(p) /\ pc[p] \notin {"idle", "held"}
  <2>1. ASSUME NEW q \in Proc \ {p}
        PROVE  AbstractCall(q)' = AbstractCall(q) /\ AbstractReply(q)' = AbstractReply(q)
    BY OthersIdle DEF AbstractCall, AbstractReply, Committing
  <2> QED
    BY <2>1, OthersIdle DEF Alone
<1>r. AbstractReply(p) = "none"
  BY <1>a DEF AbstractReply
<1>1. CASE ~ReplaceTarget(p)
  <2>l. disk'.live = disk.live
    BY <1>1, DocumentStays
  <2>x. Exposed' = Exposed \/ Exposed' = {disk.live}
    BY <1>1, ExposedStays
  <2>1. CASE Continues(p)
    <3>1. AbstractCall(p)' = AbstractCall(p) /\ AbstractReply(p)' = AbstractReply(p)
      BY <2>1, <1>a DEF Continues, AbstractCall, AbstractReply, Committing
    <3> QED
      BY <3>1, <2>l, <2>x, <1>a, Unseen
  <2>2. CASE EndsRecovery(p)
    <3>1. AbstractCall(p)' = AbstractCall(p) /\ AbstractReply(p)' = AbstractReply(p)
      BY <2>2, <1>a DEF EndsRecovery, AbstractCall, AbstractReply, Committing
    <3> QED
      BY <3>1, <2>l, <2>x, <1>a, Unseen
  <2>3. CASE Answering(p)
    <3>1. /\ AbstractCall(p) = [exp |-> job[p].exp, new |-> job[p].new, taken |-> applied[p]]
          /\ job[p].exp \in Value /\ job[p].new \in Doc /\ applied[p] \in BOOLEAN
      <4>1. Committing(p)
        BY <2>3, <1>a DEF Answering, Committing
      <4>2. job[p] \in Job
        BY <2>3, <1>0, <1>a DEF Answering, Shape, LocalsSet
      <4> QED
        BY <4>1, <4>2, <1>0 DEF AbstractCall, Job, TypeOK
    <3>2. AbstractCall(p) # NoCall
      BY <3>1, NoCallAssumption
    <3>3. AbstractCall(p)' = NoCall
      BY <2>3 DEF Answering, AbstractCall, Committing
    <3>4. AbstractReply(p)' = IF answer'[p] \in Errors THEN "unresolved" ELSE answer'[p]
      BY <2>3 DEF Answering, AbstractReply
    <3>5. Exposed' = Exposed
      <4>1. CASE Untouched
        BY <4>1 DEF Untouched, directory, Exposed
      <4>2. CASE Settled
        <5>1. Exposed = {disk.live}
          BY <4>2, <1>0 DEF Settled, Exposed, TypeOK
        <5> QED
          BY <5>1, <2>x
      <4> QED
        BY <4>1, <4>2, <2>3 DEF Answering
    <3>6. Structure' /\ (foreign' = 0 => Durable')
      BY InternalStructure, InternalDurable
    <3>7. foreign' = 0
      BY OthersIdle DEF Internal, Frame, RecoverNone, RecoverFinalize, RecoverRollBack, RecoverConflict,
         RemoveStage, SyncRemovedStage, RemoveJournal, SyncRemovedJournal, CheckExpected,
         CreateStage, FillStage, WriteJournalStage, PublishJournal, SyncPublishedJournal,
         ReplaceTarget, SyncReplacedTarget, ResolveWithoutJournal, RetryReconciliation,
         DropStage, SyncDroppedStage, ReadFails
    <3>8. Progress(p)' /\ disk' \in survivors'
      BY <3>6, <3>7 DEF Durable, Structure, TypeOK
    <3>9. Register!Justified(p, AbstractReply(p)')
      <4> DEFINE J(r) == Register!Justified(p, r)
      <4>1. CASE answer'[p] \in Errors
        <5>1. J("unresolved")
          BY DEF Register!Justified
        <5> QED
          BY <5>1, <4>1, <3>4
      <4>2. CASE answer'[p] = "conflict" /\ ~applied[p] /\ disk.live # job[p].exp
        <5>1. J("conflict")
          BY <4>2, <3>1 DEF Register!Justified
        <5> QED
          BY <5>1, <4>2, <3>4 DEF Errors
      <4>3. CASE answer'[p] = "not_applied" /\ ~applied[p]
        <5>1. disk'.live = job[p].exp /\ \A s \in survivors' : s.live = disk'.live
          BY <4>3, <3>8, <2>3 DEF Answering, Progress, LiveIsOld, Settled
        <5>2. Exposed = {job[p].exp}
          BY <5>1, <3>5, <3>8 DEF Exposed
        <5>3. J("not_applied")
          BY <5>2, <4>3, <3>1 DEF Register!Justified, Exposed
        <5> QED
          BY <5>3, <4>3, <3>4 DEF Errors
      <4>4. CASE answer'[p] = "committed" /\ ctx[p] # "commit"
        <5>1. disk'.live = job[p].new /\ \A s \in survivors' : s.live = disk'.live
          BY <4>4, <3>8, <2>3 DEF Answering, Progress, LiveIsNew, Settled
        <5>2. Exposed = {disk.live} /\ disk.live = job[p].new
          BY <5>1, <3>5, <3>8, <2>l DEF Exposed
        <5>3. applied[p] \/ job[p].exp = job[p].new
          BY <5>2, <4>4, <2>3, <1>0, <1>a DEF Effect, Answering, Committing
        <5>4. J("committed")
          BY <5>2, <5>3, <3>1 DEF Register!Justified, Exposed
        <5> QED
          BY <5>4, <4>4, <3>4 DEF Errors
      <4> QED
        BY <4>1, <4>2, <4>3, <4>4, <2>3 DEF Answering
    <3> QED
      BY <3>2, <3>3, <3>4, <3>5, <3>9, <2>l, <2>3, <1>a, Answered DEF Answering, Errors
  <2> QED
    BY <1>1, <2>1, <2>2, <2>3, InternalKinds
<1>2. CASE ReplaceTarget(p)
  <2>1. /\ pc[p] = "replace" /\ ctx[p] = "publish" /\ job[p] \in Job /\ job[p].tx \in Tx
        /\ disk.stage[job[p].tx] = job[p].new /\ disk.live = job[p].exp /\ ~applied[p]
    <3>1. pc[p] = "replace"
      BY <1>2 DEF ReplaceTarget
    <3> QED
      BY <3>1, <1>0 DEF Shape, Placed, LocalsSet, StageComplete, Progress, Effect, Committing,
         PublishSteps
  <2>2. job' = job /\ answer' = answer
    BY <1>2 DEF ReplaceTarget, Goto, Enter, Reconcile
  <2>3. CASE Mutate([WithoutStage(job[p].tx) EXCEPT !.live = disk.stage[job[p].tx]])
             /\ applied' = [applied EXCEPT ![p] = TRUE] /\ Goto(p, "replace_sync")
    <3>1. disk'.live = job[p].new /\ survivors' = survivors \cup {disk'}
      <4>1. WithoutStage(job[p].tx) \in Content
        BY <1>0, <2>1 DEF TypeOK, Content, WithoutStage, Value
      <4> QED
        BY <4>1, <2>1, <2>3 DEF Mutate, Content
    <3>2. pc'[p] = "replace_sync" /\ ctx'[p] = ctx[p] /\ applied'[p] = TRUE
      BY <2>3, <1>0 DEF TypeOK, Goto
    <3>3. job[p].exp \in Value /\ job[p].new \in Doc
      BY <2>1 DEF Job
    <3> DEFINE asked == [exp |-> job[p].exp, new |-> job[p].new, taken |-> applied[p]]
               given == [exp |-> job[p].exp, new |-> job[p].new, taken |-> applied'[p]]
    <3>4. AbstractCall(p) = asked /\ asked \in [exp : Value, new : Doc, taken : BOOLEAN]
      BY <2>1, <3>3, <1>0 DEF AbstractCall, Committing, TypeOK
    <3>5. AbstractCall(p)' = given /\ given \in [exp : Value, new : Doc, taken : BOOLEAN]
      BY <2>1, <2>2, <3>2, <3>3 DEF AbstractCall, Committing
    <3>6. AbstractReply(p)' = AbstractReply(p)
      BY <3>2, <1>r DEF AbstractReply
    <3>7. ~asked.taken /\ given.taken
      BY <2>1, <3>2
    <3>8. /\ asked.exp = job[p].exp /\ asked.new = job[p].new
          /\ given.exp = asked.exp /\ given.new = asked.new
      OBVIOUS
    <3> HIDE DEF asked, given
    <3> QED
      BY <3>1, <3>4, <3>5, <3>6, <3>7, <3>8, <2>1, <1>a, Taken
  <2>4. CASE Untouched /\ applied' = applied
            /\ (Enter(p, "rollback", "unstage") \/ Reconcile(p))
    <3>1. pc'[p] \notin {"idle", "held"} /\ ctx'[p] # "recover"
      BY <2>4, <1>0 DEF TypeOK, Enter, Reconcile
    <3>2. AbstractCall(p)' = AbstractCall(p) /\ AbstractReply(p)' = AbstractReply(p)
      BY <3>1, <2>1, <2>2, <2>4, <1>a DEF AbstractCall, AbstractReply, Committing
    <3> QED
      BY <3>2, <2>4, <1>a, Unseen DEF Untouched, directory, Exposed
  <2> QED
    BY <1>2, <2>3, <2>4 DEF ReplaceTarget
<1> QED
  BY <1>1, <1>2

\* What callers and the environment do.
LEMMA OtherImplements ==
    ASSUME Structure, foreign = 0, MaxForeign = 0,
           (\E p \in Proc : Client(p)) \/ Environment
    PROVE  RegisterStep
<1>0. TypeOK /\ Locked /\ \A p \in Proc : Shape(p)
  BY DEF Structure
<1>1. ASSUME NEW p \in Proc, Client(p) PROVE RegisterStep
  <2>0. UNCHANGED directory
    BY <1>1 DEF Client, Acquire, Release, CallRecover, CallCommit, Untouched
  <2>1. ASSUME NEW q \in Proc \ {p} PROVE pc[q] = "idle"
    BY <1>0, <1>1, ConstantAssumption
    DEF Client, Acquire, Release, CallRecover, CallCommit, Locked
  <2>2. ASSUME NEW q \in Proc, q # p PROVE pc'[q] = "idle"
    <3>1. pc[q] = "idle"
      BY <2>1, <2>2
    <3> QED
      BY <1>0, <1>1, <2>2, <3>1 DEF TypeOK, Client, Acquire, Release, CallRecover, CallCommit,
         Return, Enter, Forget
  <2>3. Alone(p)
    <3>1. ASSUME NEW q \in Proc \ {p}
          PROVE  AbstractCall(q)' = AbstractCall(q) /\ AbstractReply(q)' = AbstractReply(q)
      BY <2>1, <2>2 DEF AbstractCall, AbstractReply, Committing
    <3> QED
      BY <3>1 DEF Alone
  <2>4. AbstractCall(p) = NoCall
    BY <1>1, <1>0 DEF Client, Acquire, Release, CallRecover, CallCommit, AbstractCall, Committing
  <2>5. CASE Acquire(p) \/ Release(p) \/ CallRecover(p)
    <3>1. \/ pc'[p] = "idle"
          \/ pc'[p] = "held" /\ ctx'[p] = "recover"
          \/ pc'[p] = "recover" /\ ctx'[p] = "recover"
      <4>1. CASE Acquire(p)
        BY <4>1, <1>0 DEF TypeOK, Acquire, Return, Shape, Placed
      <4>2. CASE Release(p)
        BY <4>2, <1>0 DEF TypeOK, Release, Forget
      <4>3. CASE CallRecover(p)
        BY <4>3, <1>0 DEF TypeOK, CallRecover, Enter
      <4> QED
        BY <2>5, <4>1, <4>2, <4>3
    <3>2. AbstractCall(p)' = NoCall /\ AbstractReply(p)' = "none"
      BY <3>1 DEF AbstractCall, AbstractReply, Committing
    <3> QED
      BY <3>2, <2>0, <2>3, Left
  <2>6. ASSUME NEW exp \in Value, NEW new \in Doc, CallCommit(p, exp, new)
        PROVE  RegisterStep
    <3>1. /\ pc'[p] = "recover" /\ ctx'[p] = "commit" /\ applied'[p] = FALSE
          /\ job'[p].exp = exp /\ job'[p].new = new
      BY <2>6, <1>0 DEF TypeOK, CallCommit, Enter
    <3>2. /\ AbstractCall(p)' = [exp |-> exp, new |-> new, taken |-> FALSE]
          /\ AbstractReply(p)' = "none"
      BY <3>1 DEF AbstractCall, AbstractReply, Committing
    <3> QED
      BY <3>2, <2>0, <2>3, <2>4, Called
  <2> QED
    BY <1>1, <2>5, <2>6 DEF Client
<1>2. ASSUME NEW p \in Proc, Kill(p) PROVE RegisterStep
  <2>1. UNCHANGED directory
    BY <1>2 DEF Kill, Untouched
  <2>2. \A q \in Proc : pc'[q] = "idle"
    BY <1>0, <1>2 DEF Kill, Forget, Locked
  <2>3. \A q \in Proc \ {p} : pc[q] = "idle"
    BY <1>0, <1>2 DEF Kill, Locked
  <2>4. ASSUME NEW q \in Proc
        PROVE  AbstractCall(q)' = NoCall /\ AbstractReply(q)' = "none"
    BY <2>2 DEF AbstractCall, AbstractReply, Committing
  <2>5. Alone(p)
    BY <2>3, <2>4, IdleIsNothing DEF Alone
  <2> QED
    BY <2>1, <2>4, <2>5, Left
<1>3. CASE PowerFailure
  <2>1. \A q \in Proc : pc'[q] = "idle"
    BY <1>3 DEF PowerFailure, Forget
  <2>2. ASSUME NEW q \in Proc
        PROVE  AbstractCall(q)' = NoCall /\ AbstractReply(q)' = "none"
    BY <2>1 DEF AbstractCall, AbstractReply, Committing
  <2>3. Calls' = [q \in Proc |-> NoCall] /\ Replies' = [q \in Proc |-> "none"]
    BY <2>2 DEF Calls, Replies
  <2>4. disk'.live \in Exposed /\ Exposed' = {disk'.live}
    BY <1>3 DEF PowerFailure, LosePower, Exposed
  <2>5. Register!PowerFailure
    BY <2>3, <2>4 DEF Register!PowerFailure, Calls, Replies, Exposed
  <2> QED
    BY <2>5 DEF RegisterStep, Register!Next
<1>4. ASSUME NEW d \in Doc, ForeignWrite(d) PROVE FALSE
  BY <1>4 DEF ForeignWrite
<1> QED
  BY <1>1, <1>2, <1>3, <1>4 DEF Environment

LEMMA RegisterInit == Init => Register!Init
<1> SUFFICES ASSUME Init PROVE Register!Init
  OBVIOUS
<1>1. disk.live \in Value /\ survivors = {disk}
  BY DEF Init, InitDirectory
<1>2. \A p \in Proc : AbstractCall(p) = NoCall /\ AbstractReply(p) = "none"
  BY IdleIsNothing DEF Init
<1> QED
  BY <1>1, <1>2 DEF Register!Init, Register!Value, Value

\* atomic_store.rs is an atomic register: as long as every writer takes the lock,
\* a commit takes effect in one step, between its start and its answer, only over the
\* expected document, and its answer is true of what a power failure may leave.
THEOREM RegisterImplemented ==
    MaxForeign = 0 /\ Spec => ImplementsRegister
<1> DEFINE Inv == Structure /\ Durable /\ Effective
           Sealed == foreign = 0 /\ MaxForeign = 0
<1>1. MaxForeign = 0 /\ Init => Sealed
  BY DEF Init
<1>2. Sealed /\ [Next]_vars => Sealed'
  <2>1. ASSUME NEW p \in Proc, Internal(p) PROVE foreign' = foreign
    BY <2>1 DEF Internal, Frame, RecoverNone, RecoverFinalize, RecoverRollBack,
       RecoverConflict, RemoveStage, SyncRemovedStage, RemoveJournal, SyncRemovedJournal,
       CheckExpected, CreateStage, FillStage, WriteJournalStage, PublishJournal,
       SyncPublishedJournal, ReplaceTarget, SyncReplacedTarget, ResolveWithoutJournal,
       RetryReconciliation, DropStage, SyncDroppedStage, ReadFails
  <2>2. ASSUME NEW p \in Proc, Client(p) PROVE foreign' = foreign
    BY <2>2 DEF Client, Acquire, Release, CallRecover, CallCommit
  <2>3. ASSUME Sealed, Environment PROVE foreign' = foreign
    <3>1. ASSUME NEW d \in Doc, ForeignWrite(d) PROVE FALSE
      BY <2>3, <3>1 DEF ForeignWrite
    <3> QED
      BY <2>3, <3>1 DEF Environment, Kill, PowerFailure
  <2> QED
    BY <2>1, <2>2, <2>3 DEF Next, vars
<1>3. Inv /\ Sealed /\ [Next]_vars => RegisterStep
  <2>1. ASSUME Inv, UNCHANGED vars PROVE RegisterStep
    <3>1. \A q \in Proc : AbstractCall(q)' = AbstractCall(q) /\ AbstractReply(q)' = AbstractReply(q)
      BY <2>1 DEF vars, AbstractCall, AbstractReply, Committing
    <3>2. Calls' = Calls /\ Replies' = Replies /\ disk' = disk /\ survivors' = survivors
      BY <2>1, <3>1 DEF vars, Calls, Replies
    <3> QED
      BY <3>2 DEF RegisterStep, Register!register, Calls, Replies
  <2> QED
    BY <2>1, InternalImplements, OtherImplements DEF Next
<1> QED
  BY <1>1, <1>2, <1>3, RegisterInit, EffectInvariant, PTL
  DEF Spec, ImplementsRegister, Register!Spec, RegisterStep

---------------------------------------------------------------------------
(* Sessions: their inductive invariant.                                    *)

Adopting == {"adopt", "orphans", "orphan_sync", "txn"}

\* The call a session waits for is the commit it asked for: from the very
\* document it holds to that document's successor.
Promised(p) ==
    /\ pc[p] # "idle" /\ ctx[p] # "recover"
    /\ job[p].exp = revision[p]
    /\ job[p].new.gen = Generation(revision[p]) + 1

\* Where the store is while a session is at each of its steps.
SessionShape(p) ==
    /\ sess[p] \notin Inside => pc[p] = "idle"
    /\ sess[p] \in Adopting => pc[p] = "held"
    /\ sess[p] = "recovering" => pc[p] # "idle" /\ ctx[p] = "recover"
    /\ sess[p] = "committing" => Promised(p)
    /\ revision[p] = NoView =>
         sess[p] = "closed" \/ (sess[p] \in Reading /\ purpose[p] = "open")
    /\ sess[p] \in {"journal", "stage"} => view[p] \in View
    /\ sess[p] = "stage" => view[p].journal \in Journal
    /\ sess[p] \notin {"orphans", "orphan_sync"} => orphans[p] = {}

\* Nothing adoption is still going to remove is the stage of the journal.
OrphansUnreferred ==
    \A p \in Proc : sess[p] \in {"orphans", "orphan_sync"} /\ disk.journal # NoJournal =>
        <<"stage", disk.journal.tx>> \notin orphans[p]

SessionInv ==
    /\ Structure /\ Durable /\ foreign = 0
    /\ SessionTypeOK
    /\ \A p \in Proc : SessionShape(p)
    /\ OrphansUnreferred
    /\ AcknowledgedCommitsSurvive

---------------------------------------------------------------------------
(* Facts about documents and revisions.                                    *)

LEMMA GenerationType ==
    ASSUME NEW v \in Value PROVE Generation(v) \in 0..MaxGen
  BY DocAssumption, ConstantAssumption DEF Generation, Value

\* The next document of a revision is one the store can hold.
LEMMA SuccessorType ==
    ASSUME NEW v \in Value, NEW b \in Body, Generation(v) < MaxGen
    PROVE  Successor(v, b) \in Doc /\ Successor(v, b).gen = Generation(v) + 1
<1>1. Generation(v) + 1 \in 0..MaxGen
  BY GenerationType, DocAssumption
<1> QED
  BY <1>1, DocAssumption DEF Successor

---------------------------------------------------------------------------
(* What a step of a session does to the store underneath.                  *)

\* A session whose process waits, or runs a call, is inside the store.
Adoption(p) == RemoveOrphan(p) \/ SyncOrphan(p) \/ OrphanFails(p)

\* Every step of a session is a step of the store, a stutter, or a removal that
\* adoption makes while it holds the lock.
LEMMA SessionMeetsStore ==
    ASSUME SessionInv, [SessionNext]_allVars
    PROVE  \/ \E p \in Proc : Client(p) \/ Internal(p)
           \/ \E p \in Proc : Kill(p)
           \/ PowerFailure
           \/ UNCHANGED vars
           \/ \E p \in Proc : pc[p] = "held" /\ Adoption(p)
<1> USE DEF SessionInv, SessionShape
<1>1. CASE UNCHANGED allVars
  BY <1>1 DEF allVars
<1>2. CASE PowerFailureAll
  BY <1>2 DEF PowerFailureAll
<1>3. ASSUME NEW p \in Proc,
             OpenSession(p) \/ StartCommit(p) \/ CloseSession(p) \/ Read(p)
             \/ Preflight(p) \/ Claim(p) \/ Committed(p)
      PROVE  UNCHANGED vars
  BY <1>3 DEF OpenSession, StartCommit, CloseSession, Read, ReadTarget, ReadJournal,
              ReadStage, Preflight, Claim, Committed, Store
<1>4. ASSUME NEW p \in Proc,
             TakeLock(p) \/ LockClaimed(p) \/ StartRecovery(p) \/ CommitFailed(p)
             \/ EndTransaction(p)
      PROVE  Client(p)
  BY <1>4 DEF TakeLock, LockClaimed, StartRecovery, CommitFailed, EndTransaction, Leave,
              Client
<1>5. ASSUME NEW p \in Proc, Adopt(p) \/ CheckExact(p)
      PROVE  UNCHANGED vars \/ Client(p)
  BY <1>5 DEF Adopt, CheckExact, Store, Leave, Client
<1>6. ASSUME NEW p \in Proc, NEW b \in Body, CommitExact(p, b)
      PROVE  Client(p)
  <2>1. revision[p] \in Value /\ Generation(revision[p]) < MaxGen
    BY <1>6 DEF CommitExact, SessionTypeOK, Inside, Reading
  <2>2. Successor(revision[p], b) \in Doc
    BY <2>1, SuccessorType
  <2> QED
    BY <1>6, <2>1, <2>2 DEF CommitExact, Client
<1>7. ASSUME NEW p \in Proc, Adoption(p)
      PROVE  pc[p] = "held"
  BY <1>7 DEF Adoption, RemoveOrphan, SyncOrphan, OrphanFails, Adopting
<1>8. ASSUME NEW p \in Proc, StoreStep(p) PROVE Internal(p)
  BY <1>8 DEF StoreStep
<1>9. ASSUME NEW p \in Proc, KillSession(p) PROVE Kill(p)
  BY <1>9 DEF KillSession
<1> HIDE DEF SessionInv, SessionShape
<1> QED
  BY <1>1, <1>2, <1>3, <1>4, <1>5, <1>6, <1>7, <1>8, <1>9
  DEF SessionNext, Transact, Adoption

\* What an adoption step does to the directory: an unreferenced stage, or a
\* journal stage, goes; the document and the journal stay.
LEMMA AdoptionMoves ==
    ASSUME TypeOK, SessionTypeOK, NEW p \in Proc, Adoption(p)
    PROVE  /\ disk' \in Content /\ disk' \in survivors' /\ survivors' \subseteq Content
           /\ disk'.live = disk.live /\ disk'.journal = disk.journal
           /\ survivors' \subseteq survivors \cup {disk'}
           /\ UNCHANGED <<used, crashes, foreign>>
           /\ faults' \in Nat
<1> USE DEF Mutate, SyncDirectory, Untouched, directory
<1>1. CASE RemoveOrphan(p)
  <2>1. PICK o \in orphans[p] : Mutate(WithoutOrphan(o))
    BY <1>1 DEF RemoveOrphan
  <2>2. o \in {"stage", "jstage"} \X Tx
    BY <2>1 DEF SessionTypeOK
  <2>3. /\ WithoutOrphan(o) \in Content
        /\ WithoutOrphan(o).live = disk.live /\ WithoutOrphan(o).journal = disk.journal
    BY <2>2 DEF TypeOK, Content, WithoutOrphan, WithoutStage, WithoutJournalStage, Value
  <2>4. UNCHANGED <<used, crashes, foreign, faults>>
    BY <1>1 DEF RemoveOrphan, LockedFrame
  <2> QED
    BY <2>1, <2>3, <2>4 DEF TypeOK
<1>2. CASE SyncOrphan(p)
  BY <1>2 DEF SyncOrphan, LockedFrame, TypeOK
<1>3. CASE OrphanFails(p)
  BY <1>3 DEF OrphanFails, SpendFault, TypeOK
<1> QED
  BY <1>1, <1>2, <1>3 DEF Adoption

\* Adoption ends by forgetting the process, or leaves every process where it is.
LEMMA AdoptionPlaces ==
    ASSUME NEW p \in Proc, Adoption(p)
    PROVE  \/ UNCHANGED <<lock, pc, ctx, job, verdict, answer, applied>>
           \/ Forget({p})
  BY DEF Adoption, RemoveOrphan, SyncOrphan, OrphanFails, LockedFrame

LEMMA AdoptionStructure ==
    ASSUME Structure, SessionTypeOK, NEW p \in Proc, pc[p] = "held", Adoption(p)
    PROVE  Structure'
<1>0. TypeOK /\ Locked /\ \A q \in Proc : Shape(q)
  BY DEF Structure
<1>1. /\ disk' \in Content /\ disk' \in survivors' /\ survivors' \subseteq Content
      /\ disk'.journal = disk.journal
      /\ UNCHANGED <<used, crashes, foreign>> /\ faults' \in Nat
  BY <1>0, AdoptionMoves
<1>2. \A q \in Proc \ {p} : pc[q] = "idle"
  BY <1>0 DEF Locked
<1>3. CASE UNCHANGED <<lock, pc, ctx, job, verdict, answer, applied>>
  <2>1. TypeOK'
    BY <1>0, <1>1, <1>3 DEF TypeOK
  <2>2. Locked'
    BY <1>0, <1>3 DEF Locked
  <2>3. ASSUME NEW q \in Proc PROVE Shape(q)'
    BY <1>0, <1>1, <1>2, <1>3 DEF Shape, Placed, LocalsSet, JournalPlaced, StageComplete,
       DefiniteAnswer, PublishSteps, CleanupSteps, DropSteps, NoJournalSteps
  <2> QED
    BY <2>1, <2>2, <2>3 DEF Structure
<1>4. CASE Forget({p})
  <2>1. TypeOK'
    <3>1. /\ pc' \in [Proc -> Steps] /\ ctx' \in [Proc -> Contexts]
          /\ job' \in [Proc -> Job \cup {NoJob}] /\ applied' \in [Proc -> BOOLEAN]
      BY <1>0, <1>4 DEF TypeOK, Forget, Steps, Contexts
    <3>2. /\ verdict' \in [Proc -> Answers] /\ answer' \in [Proc -> Answers]
          /\ lock' = Nobody
      BY <1>0, <1>4 DEF TypeOK, Forget, Answers
    <3> QED
      BY <1>0, <1>1, <3>1, <3>2 DEF TypeOK
  <2>2. \A q \in Proc : pc'[q] = "idle" /\ ctx'[q] = "recover"
    BY <1>0, <1>2, <1>4 DEF Forget, Shape, Placed
  <2>3. Locked'
    BY <1>4, <2>2, ConstantAssumption DEF Locked, Forget
  <2>4. ASSUME NEW q \in Proc PROVE Shape(q)'
    BY <2>2 DEF Shape, Placed, LocalsSet, JournalPlaced, StageComplete, DefiniteAnswer,
       PublishSteps, CleanupSteps, DropSteps, NoJournalSteps
  <2> QED
    BY <2>1, <2>3, <2>4 DEF Structure
<1> QED
  BY <1>3, <1>4, AdoptionPlaces

LEMMA AdoptionDurable ==
    ASSUME Structure, Durable, SessionTypeOK, NEW p \in Proc, pc[p] = "held", Adoption(p)
    PROVE  Durable'
<1>0. TypeOK /\ Locked
  BY DEF Structure
<1>1. /\ disk'.live = disk.live /\ disk'.journal = disk.journal
      /\ survivors' \subseteq survivors \cup {disk'} /\ foreign' = foreign
  BY <1>0, AdoptionMoves
<1> SUFFICES ASSUME foreign = 0
             PROVE  /\ \A s \in survivors' : Coherent(s)' /\ Resolvable(s)'
                    /\ \A q \in Proc : Progress(q)'
  BY <1>1 DEF Durable
<1>d. (\A s \in survivors : Coherent(s) /\ Resolvable(s)) /\ \A q \in Proc : Progress(q)
  BY DEF Durable
<1>2. disk \in survivors
  BY <1>0 DEF TypeOK
<1>3. ASSUME NEW s \in survivors' PROVE Coherent(s)' /\ Resolvable(s)'
  BY <1>1, <1>2, <1>d DEF Coherent, Resolvable
<1>4. \A q \in Proc \ {p} : pc[q] = "idle"
  BY <1>0 DEF Locked
<1>5. Settled => Settled'
  BY <1>1 DEF Settled
<1>6. ASSUME NEW q \in Proc PROVE Progress(q)'
  <2>1. CASE UNCHANGED <<lock, pc, ctx, job, verdict, answer, applied>>
    <3>1. pc'[q] \in {"idle", "held"} /\ answer'[q] = answer[q] /\ pc'[q] = pc[q]
      BY <1>4, <2>1
    <3>2. (LiveIsNew(q) => LiveIsNew(q)') /\ (LiveIsOld(q) => LiveIsOld(q)')
      BY <1>1, <1>5, <2>1 DEF LiveIsNew, LiveIsOld
    <3>3. Progress(q)
      BY <1>d
    <3> QED
      BY <3>1, <3>2, <3>3 DEF Progress, PublishSteps, CleanupSteps, DropSteps
  <2>2. CASE Forget({p})
    <3>1. pc'[q] = "idle"
      BY <1>4, <2>2 DEF Forget
    <3> QED
      BY <3>1 DEF Progress, PublishSteps, CleanupSteps, DropSteps
  <2> QED
    BY <2>1, <2>2, AdoptionPlaces
<1> QED
  BY <1>3, <1>6

\* The invariants of the store survive every step of a session.
LEMMA StoreKept ==
    ASSUME SessionInv, [SessionNext]_allVars PROVE (Structure /\ Durable /\ foreign = 0)'
<1>0. Structure /\ Durable /\ foreign = 0 /\ SessionTypeOK
  BY DEF SessionInv
<1>1. ASSUME NEW p \in Proc, Client(p) PROVE (Structure /\ Durable /\ foreign = 0)'
  <2>1. foreign' = foreign
    BY <1>1 DEF Client, Acquire, Release, CallRecover, CallCommit
  <2> QED
    BY <1>0, <1>1, <2>1, ClientStructure, OtherDurable
<1>2. ASSUME NEW p \in Proc, Internal(p) PROVE (Structure /\ Durable /\ foreign = 0)'
  <2>1. foreign' = foreign
    BY <1>2 DEF Frame, Internal, RecoverNone, RecoverFinalize, RecoverRollBack, RecoverConflict,
       RemoveStage, SyncRemovedStage, RemoveJournal, SyncRemovedJournal, CheckExpected,
       CreateStage, FillStage, WriteJournalStage, PublishJournal, SyncPublishedJournal,
       ReplaceTarget, SyncReplacedTarget, ResolveWithoutJournal, RetryReconciliation,
       DropStage, SyncDroppedStage, ReadFails
  <2> QED
    BY <1>0, <1>2, <2>1, InternalStructure, InternalDurable
<1>3. ASSUME (\E p \in Proc : Kill(p)) \/ PowerFailure
      PROVE  (Structure /\ Durable /\ foreign = 0)'
  <2>1. foreign' = foreign /\ Environment
    BY <1>3 DEF Kill, PowerFailure, Environment
  <2> QED
    BY <1>0, <2>1, EnvironmentStructure, OtherDurable
<1>4. CASE UNCHANGED vars
  <2>1. foreign' = foreign
    BY <1>4 DEF vars
  <2> QED
    BY <1>0, <1>4, <2>1, StutterStructure, OtherDurable
<1>5. ASSUME NEW p \in Proc, pc[p] = "held", Adoption(p)
      PROVE  (Structure /\ Durable /\ foreign = 0)'
  <2>1. foreign' = foreign
    BY <1>0, <1>5, AdoptionMoves DEF Structure
  <2> QED
    BY <1>0, <1>5, <2>1, AdoptionStructure, AdoptionDurable
<1> QED
  BY <1>1, <1>2, <1>3, <1>4, <1>5, SessionMeetsStore

---------------------------------------------------------------------------
(* What a step inside a call does to the call, and to the document.        *)

LEMMA InternalPlaces ==
    ASSUME Structure, NEW p \in Proc, Internal(p)
    PROVE  /\ pc[p] \notin {"idle", "held"} /\ pc'[p] # "idle"
           /\ ctx[p] = "recover" => ctx'[p] = "recover"
           /\ ctx[p] # "recover" =>
                /\ ctx'[p] # "recover"
                /\ job'[p].exp = job[p].exp /\ job'[p].new = job[p].new
           /\ \A q \in Proc \ {p} : pc'[q] = pc[q] /\ ctx'[q] = ctx[q] /\ job'[q] = job[q]
<1> USE DEF Recovered, Cleaned, CleanupFailed, Reconcile, Return, Goto, Enter, CleanThen,
            Frame, PublishSteps, CleanupSteps, DropSteps
<1>0. TypeOK /\ Placed(p) /\ LocalsSet(p)
  BY DEF Structure, Shape
<1>1. pc[p] \notin {"idle", "held"}
  BY DEF Internal, RecoverNone, RecoverFinalize, RecoverRollBack, RecoverConflict,
     RemoveStage, SyncRemovedStage, RemoveJournal, SyncRemovedJournal, CheckExpected,
     CreateStage, FillStage, WriteJournalStage, PublishJournal, SyncPublishedJournal,
     ReplaceTarget, SyncReplacedTarget, ResolveWithoutJournal, RetryReconciliation,
     DropStage, SyncDroppedStage, ReadFails
<1>2. CASE CheckExpected(p)
  <2>1. ctx[p] = "commit" /\ job[p] \in Job
    BY <1>0, <1>2 DEF CheckExpected, Placed, LocalsSet
  <2> QED
    BY <1>0, <1>1, <1>2, <2>1 DEF TypeOK, CheckExpected, Job
<1>3. CASE SyncPublishedJournal(p)
  <2>1. ctx[p] = "publish" /\ job[p] \in Job
    BY <1>0, <1>3 DEF SyncPublishedJournal, Placed, LocalsSet
  <2> QED
    BY <1>0, <1>1, <1>3, <2>1 DEF TypeOK, SyncPublishedJournal, Job
<1>4. CASE CreateStage(p) \/ FillStage(p) \/ WriteJournalStage(p) \/ PublishJournal(p)
           \/ ReplaceTarget(p) \/ SyncReplacedTarget(p)
  <2>1. ctx[p] = "publish"
    BY <1>0, <1>4 DEF CreateStage, FillStage, WriteJournalStage, PublishJournal,
       ReplaceTarget, SyncReplacedTarget, Placed
  <2> QED
    BY <1>0, <1>1, <1>4, <2>1 DEF TypeOK, CreateStage, FillStage, WriteJournalStage,
       PublishJournal, ReplaceTarget, SyncReplacedTarget
<1>5. CASE RecoverNone(p) \/ RecoverFinalize(p) \/ RecoverRollBack(p) \/ RecoverConflict(p)
  BY <1>0, <1>1, <1>5 DEF TypeOK, RecoverNone, RecoverFinalize, RecoverRollBack,
     RecoverConflict
<1>6. CASE RemoveStage(p) \/ SyncRemovedStage(p) \/ RemoveJournal(p) \/ SyncRemovedJournal(p)
  BY <1>0, <1>1, <1>6 DEF TypeOK, RemoveStage, SyncRemovedStage, RemoveJournal,
     SyncRemovedJournal
<1>7. CASE ResolveWithoutJournal(p) \/ RetryReconciliation(p) \/ DropStage(p)
           \/ SyncDroppedStage(p) \/ ReadFails(p)
  <2>1. ctx[p] = "recover" => pc[p] = "recover"
    BY <1>0, <1>1, <1>7 DEF ResolveWithoutJournal, RetryReconciliation, DropStage,
       SyncDroppedStage, ReadFails, Placed
  <2> QED
    BY <1>0, <1>1, <1>7, <2>1 DEF TypeOK, ResolveWithoutJournal, RetryReconciliation,
       DropStage, SyncDroppedStage, ReadFails
<1> QED
  BY <1>2, <1>3, <1>4, <1>5, <1>6, <1>7 DEF Internal

\* Only the rename changes the document, from what the caller expected to what
\* it asked for; until then every survivor has a document the directory had.
LEMMA InternalMoves ==
    ASSUME Structure, Durable, foreign = 0, NEW p \in Proc, Internal(p)
    PROVE  \/ /\ disk'.live = disk.live
              /\ \A s \in survivors' : \E r \in survivors : s.live = r.live
           \/ /\ pc[p] = "replace"
              /\ disk.live = job[p].exp /\ disk'.live = job[p].new
              /\ \A s \in survivors' :
                   s.live = job[p].new \/ \E r \in survivors : s.live = r.live
<1> USE DEF Mutate, SyncDirectory, BestEffort, Untouched, directory
<1>0. TypeOK /\ disk \in survivors /\ disk \in Content /\ survivors \subseteq Content
  BY DEF Structure, TypeOK
<1>1. CASE ReplaceTarget(p)
  <2>1. /\ disk.stage[job[p].tx] = job[p].new /\ disk.live = job[p].exp
        /\ pc[p] = "replace"
    BY <1>1 DEF ReplaceTarget, Structure, Shape, StageComplete, Durable, Progress,
       PublishSteps
  <2>2. job[p].tx \in Tx
    BY <1>1 DEF ReplaceTarget, Structure, Shape, LocalsSet, Placed, PublishSteps
  <2>3. WithoutStage(job[p].tx) \in [live : Value, journal : Journal \cup {NoJournal},
          stage : [Tx -> Value \cup {Torn}], jstages : SUBSET Tx]
    BY <1>0, <2>2 DEF Content, WithoutStage, Value
  <2> QED
    BY <1>0, <1>1, <2>1, <2>3 DEF ReplaceTarget
<1>2. CASE FillStage(p)
  <2>1. \A t, d : \A s \in Content : Filled(t, d, s).live = s.live
    BY DEF Content, Filled
  <2>2. WithoutStage(job[p].tx).live = disk.live
    BY <1>0 DEF Content, WithoutStage
  <2> QED
    BY <1>0, <1>2, <2>1, <2>2 DEF FillStage
<1>3. CASE ~ReplaceTarget(p) /\ ~FillStage(p)
  <2>1. /\ disk'.live = disk.live
        /\ survivors' \subseteq survivors \cup {disk'}
    BY <1>0, <1>3 DEF TypeOK, Content, Internal, RecoverNone, RecoverFinalize,
       RecoverRollBack, RecoverConflict, RemoveStage, SyncRemovedStage, RemoveJournal,
       SyncRemovedJournal, CheckExpected, CreateStage, WriteJournalStage, PublishJournal,
       SyncPublishedJournal, SyncReplacedTarget, ResolveWithoutJournal,
       RetryReconciliation, DropStage, SyncDroppedStage, ReadFails,
       StageToClean, WithoutStage, WithJournalStage, WithoutJournalStage
  <2> QED
    BY <1>0, <2>1
<1> QED
  BY <1>1, <1>2, <1>3

---------------------------------------------------------------------------
(* The steps of a session keep its own invariant.                          *)

\* What the shape of a session depends on.
Place(p) == <<sess[p], purpose[p], view[p], revision[p], orphans[p],
              pc[p], ctx[p], job[p]>>

LEMMA ShapeOfPlace ==
    ASSUME NEW p \in Proc, SessionShape(p), Place(p)' = Place(p) PROVE SessionShape(p)'
  BY DEF Place, SessionShape, Promised

\* Sessions only touch their own locals.
SessionStep(p) ==
    \/ OpenSession(p) \/ StartCommit(p) \/ CloseSession(p) \/ Read(p)
    \/ TakeLock(p) \/ LockClaimed(p) \/ Transact(p) \/ EndTransaction(p)
    \/ \E b \in Body : CommitExact(p, b)
    \/ KillSession(p)

LEMMA OthersKept ==
    ASSUME SessionInv, NEW p \in Proc, SessionStep(p), NEW q \in Proc, q # p
    PROVE  Place(q)' = Place(q)
<1> USE DEF Move, Store, vars, Place
<1>0. Structure /\ TypeOK /\ SessionTypeOK
  BY DEF SessionInv, Structure
<1> USE DEF TypeOK, SessionTypeOK
<1>1. CASE OpenSession(p) \/ StartCommit(p) \/ CloseSession(p)
  BY <1>0, <1>1 DEF OpenSession, StartCommit, CloseSession, StartRead
<1>2. CASE Read(p)
  BY <1>0, <1>2 DEF Read, ReadTarget, ReadJournal, ReadStage, ReadDone, ReadFailed
<1>3. CASE TakeLock(p) \/ LockClaimed(p)
  BY <1>0, <1>3 DEF TakeLock, LockClaimed, Acquire, Return
<1>4. CASE Preflight(p) \/ Claim(p) \/ Committed(p)
  BY <1>0, <1>4 DEF Preflight, Claim, Committed
<1>5. CASE Adopt(p) \/ CheckExact(p) \/ CommitFailed(p) \/ EndTransaction(p)
  <2>1. pc'[q] = pc[q] /\ ctx'[q] = ctx[q] /\ job'[q] = job[q]
    BY <1>5 DEF Adopt, CheckExact, CommitFailed, EndTransaction, Leave, Release, Forget
  <2>2. sess'[q] = sess[q] /\ orphans'[q] = orphans[q]
    BY <1>0, <1>5 DEF Adopt, CheckExact, CommitFailed, EndTransaction, Leave, LeaveSession
  <2>3. purpose'[q] = purpose[q] /\ view'[q] = view[q] /\ revision'[q] = revision[q]
    BY <1>0, <1>5 DEF Adopt, CheckExact, CommitFailed, EndTransaction
  <2> QED
    BY <2>1, <2>2, <2>3
<1>6. CASE Adoption(p)
  <2>1. pc'[q] = pc[q] /\ ctx'[q] = ctx[q] /\ job'[q] = job[q]
    <3>1. UNCHANGED <<pc, ctx, job>> \/ Forget({p})
      BY <1>6, AdoptionPlaces
    <3> QED
      BY <3>1 DEF Forget
  <2>2. sess'[q] = sess[q] /\ orphans'[q] = orphans[q]
    BY <1>0, <1>6 DEF Adoption, RemoveOrphan, SyncOrphan, OrphanFails, LeaveSession
  <2>3. purpose'[q] = purpose[q] /\ view'[q] = view[q] /\ revision'[q] = revision[q]
    BY <1>0, <1>6 DEF Adoption, RemoveOrphan, SyncOrphan, OrphanFails
  <2> QED
    BY <2>1, <2>2, <2>3
<1>7. CASE StartRecovery(p) \/ (\E b \in Body : CommitExact(p, b))
  BY <1>0, <1>7 DEF StartRecovery, CommitExact, CallRecover, CallCommit, Enter
<1>8. CASE StoreStep(p)
  <2>1. Internal(p) /\ UNCHANGED <<sess, purpose, view, revision, orphans>>
    BY <1>8 DEF StoreStep, sessionVars
  <2>2. pc'[q] = pc[q] /\ ctx'[q] = ctx[q] /\ job'[q] = job[q]
    BY <1>0, <2>1, InternalPlaces
  <2> QED
    BY <2>1, <2>2
<1>9. CASE KillSession(p)
  <2>1. pc'[q] = pc[q] /\ ctx'[q] = ctx[q] /\ job'[q] = job[q]
    BY <1>9 DEF KillSession, Kill, Forget
  <2> QED
    BY <1>0, <1>9, <2>1 DEF KillSession
<1> QED
  BY <1>1, <1>2, <1>3, <1>4, <1>5, <1>6, <1>7, <1>8, <1>9 DEF SessionStep, Transact, Adoption

LEMMA SessionTypeKept ==
    ASSUME SessionInv, [SessionNext]_allVars PROVE SessionTypeOK'
<1> USE DEF Move, Sessions, Reading, Inside
<1>0. TypeOK /\ SessionTypeOK /\ \A p \in Proc : SessionShape(p)
  BY DEF SessionInv, Structure
<1>c. disk \in Content
  BY <1>0 DEF TypeOK
<1>d. disk.live \in Value /\ disk.journal \in Journal \cup {NoJournal}
  BY <1>c DEF Content
<1>1. CASE UNCHANGED allVars
  BY <1>0, <1>1 DEF SessionTypeOK, allVars, sessionVars
<1>2. CASE PowerFailureAll
  BY <1>0, <1>2 DEF SessionTypeOK, PowerFailureAll
<1>3. ASSUME NEW p \in Proc, OpenSession(p) \/ StartCommit(p) \/ CloseSession(p)
      PROVE  SessionTypeOK'
  BY <1>0, <1>3 DEF SessionTypeOK, OpenSession, StartCommit, CloseSession, StartRead
<1>4. ASSUME NEW p \in Proc, ReadTarget(p) PROVE SessionTypeOK'
  <2>1. [live |-> disk.live, journal |-> NoJournal] \in View
    BY <1>d DEF View
  <2> QED
    BY <1>0, <1>4, <2>1 DEF SessionTypeOK, ReadTarget
<1>5. ASSUME NEW p \in Proc, ReadJournal(p) PROVE SessionTypeOK'
  <2>1. view[p] \in View /\ view[p].live \in Value
    BY <1>0, <1>5 DEF SessionShape, ReadJournal, View
  <2>2. [view[p] EXCEPT !.journal = disk.journal] \in View
    BY <1>d, <2>1 DEF View
  <2>3. view' \in [Proc -> View \cup {NoView}]
    BY <1>0, <1>5, <2>2 DEF SessionTypeOK, ReadJournal, ReadDone, ReadFailed
  <2>4. revision' \in [Proc -> Value \cup {NoView}] /\ sess' \in [Proc -> Sessions]
    BY <1>0, <1>5, <2>1 DEF SessionTypeOK, ReadJournal, ReadDone, ReadFailed
  <2> QED
    BY <1>0, <1>5, <2>3, <2>4 DEF SessionTypeOK, ReadJournal
<1>6. ASSUME NEW p \in Proc, ReadStage(p) PROVE SessionTypeOK'
  <2>1. view[p].live \in Value
    BY <1>0, <1>6 DEF SessionShape, ReadStage, View
  <2> QED
    BY <1>0, <1>6, <2>1 DEF SessionTypeOK, ReadStage, ReadDone, ReadFailed
<1>7. ASSUME NEW p \in Proc, TakeLock(p) \/ LockClaimed(p) \/ Preflight(p) \/ Claim(p)
      PROVE  SessionTypeOK'
  BY <1>0, <1>c, <1>7 DEF SessionTypeOK, TakeLock, LockClaimed, Preflight, Claim
<1>8. ASSUME NEW p \in Proc, Adopt(p) PROVE SessionTypeOK'
  <2>1. OrphanStages(disk) \subseteq {"stage", "jstage"} \X Tx
    BY <1>c DEF OrphanStages, Content
  <2> QED
    BY <1>0, <1>8, <2>1 DEF SessionTypeOK, Adopt, Leave, LeaveSession
<1>9. ASSUME NEW p \in Proc, Adoption(p) PROVE SessionTypeOK'
  BY <1>0, <1>9 DEF SessionTypeOK, Adoption, RemoveOrphan, SyncOrphan, OrphanFails,
     LeaveSession
<1>10. ASSUME NEW p \in Proc, StartRecovery(p) \/ CheckExact(p) \/ EndTransaction(p)
       PROVE  SessionTypeOK'
  BY <1>0, <1>10 DEF SessionTypeOK, StartRecovery, CheckExact, EndTransaction, Leave,
     LeaveSession
<1>11. ASSUME NEW p \in Proc, NEW b \in Body, CommitExact(p, b) PROVE SessionTypeOK'
  BY <1>0, <1>11 DEF SessionTypeOK, CommitExact
<1>12. ASSUME NEW p \in Proc, Committed(p) PROVE SessionTypeOK'
  <2>1. job[p] \in Job
    BY <1>0, <1>12 DEF SessionInv, Structure, Shape, LocalsSet, SessionShape, Promised,
       Committed
  <2>2. job[p].new \in Doc
    BY <2>1 DEF Job
  <2>3. job[p].new \in Value /\ job[p].new.gen \in 0..MaxGen
    BY <2>2, DocAssumption DEF Value
  <2> QED
    BY <1>0, <1>12, <2>3 DEF SessionTypeOK, Committed
<1>13. ASSUME NEW p \in Proc, CommitFailed(p) PROVE SessionTypeOK'
  BY <1>0, <1>d, <1>13 DEF SessionTypeOK, CommitFailed, Leave, LeaveSession
<1>14. ASSUME NEW p \in Proc, StoreStep(p) PROVE SessionTypeOK'
  BY <1>0, <1>14 DEF SessionTypeOK, StoreStep, sessionVars
<1>15. ASSUME NEW p \in Proc, KillSession(p) PROVE SessionTypeOK'
  BY <1>0, <1>15 DEF SessionTypeOK, KillSession
<1> QED
  BY <1>1, <1>2, <1>3, <1>4, <1>5, <1>6, <1>7, <1>8, <1>9, <1>10, <1>11, <1>12, <1>13,
     <1>14, <1>15 DEF SessionNext, Read, Transact, Adoption

LEMMA SessionShapeKept ==
    ASSUME SessionInv, NEW p \in Proc, SessionStep(p) PROVE SessionShape(p)'
<1> USE DEF Move, Store, vars, Reading, Inside, Adopting
<1>0. TypeOK /\ SessionTypeOK /\ SessionShape(p) /\ Structure
  BY DEF SessionInv, Structure
<1>d. disk.live \in Value /\ disk.journal \in Journal \cup {NoJournal}
  BY <1>0 DEF TypeOK, Content
<1>n. NoView \notin Value
  BY DocAssumption
<1> USE DEF TypeOK, SessionTypeOK
<1>1. CASE OpenSession(p) \/ StartCommit(p) \/ CloseSession(p)
  BY <1>0, <1>n, <1>1 DEF SessionShape, OpenSession, StartCommit, CloseSession, StartRead
<1>2. CASE ReadTarget(p)
  <2>1. [live |-> disk.live, journal |-> NoJournal] \in View
    BY <1>d DEF View
  <2> QED
    BY <1>0, <1>2, <2>1 DEF SessionShape, ReadTarget
<1>3. CASE ReadJournal(p)
  <2>1. view[p] \in View /\ view[p].live \in Value /\ pc[p] = "idle"
    BY <1>0, <1>3 DEF SessionShape, ReadJournal, View
  <2>2. [view[p] EXCEPT !.journal = disk.journal] \in View
    BY <1>d, <2>1 DEF View
  <2>3. CASE ReadDone(p) \/ ReadFailed(p)
    BY <1>0, <1>n, <1>3, <2>1, <2>3 DEF SessionShape, ReadJournal, ReadDone, ReadFailed
  <2>4. CASE /\ disk.journal # NoJournal
             /\ view' = [view EXCEPT ![p].journal = disk.journal]
             /\ Move(p, "stage") /\ UNCHANGED revision
    <3>1. view'[p] = [view[p] EXCEPT !.journal = disk.journal] /\ sess'[p] = "stage"
      BY <1>0, <2>4
    <3>2. view'[p] \in View /\ view'[p].journal \in Journal
      BY <1>d, <2>1, <2>2, <2>4, <3>1 DEF View
    <3> QED
      BY <1>0, <1>3, <2>1, <2>4, <3>1, <3>2 DEF SessionShape, ReadJournal
  <2> QED
    BY <1>3, <2>3, <2>4 DEF ReadJournal
<1>4. CASE ReadStage(p)
  <2>1. view[p].live \in Value /\ pc[p] = "idle"
    BY <1>0, <1>4 DEF SessionShape, ReadStage, View
  <2> QED
    BY <1>0, <1>n, <1>4, <2>1 DEF SessionShape, ReadStage, ReadDone, ReadFailed
<1>5. CASE TakeLock(p) \/ LockClaimed(p)
  BY <1>0, <1>5 DEF SessionShape, TakeLock, LockClaimed, Acquire, Return
<1>6. CASE Preflight(p) \/ Claim(p)
  BY <1>0, <1>6 DEF SessionShape, Preflight, Claim
<1>7. CASE Adopt(p) \/ CheckExact(p) \/ CommitFailed(p) \/ EndTransaction(p)
  BY <1>0, <1>d, <1>n, <1>7 DEF SessionShape, Promised, Adopt, CheckExact, CommitFailed,
     EndTransaction, Leave, LeaveSession, Release, Forget
<1>8. CASE Adoption(p)
  BY <1>0, <1>8 DEF SessionShape, Adoption, RemoveOrphan, SyncOrphan, OrphanFails,
     LeaveSession, Forget, LockedFrame
<1>9. CASE StartRecovery(p)
  BY <1>0, <1>9 DEF SessionShape, StartRecovery, CallRecover, Enter
<1>10. ASSUME NEW b \in Body, CommitExact(p, b) PROVE SessionShape(p)'
  <2>1. revision[p] \in Value
    BY <1>0, <1>10 DEF SessionShape, CommitExact
  <2>2. Successor(revision[p], b).gen = Generation(revision[p]) + 1
    BY <1>10, <2>1, SuccessorType DEF CommitExact
  <2>3. /\ job'[p].exp = revision[p] /\ job'[p].new = Successor(revision[p], b)
        /\ pc'[p] = "recover" /\ ctx'[p] = "commit" /\ sess'[p] = "committing"
        /\ revision' = revision /\ orphans' = orphans /\ orphans[p] = {}
    BY <1>0, <1>10 DEF SessionShape, CommitExact, CallCommit, Enter
  <2> QED
    BY <1>n, <2>1, <2>2, <2>3 DEF SessionShape, Promised
<1>11. CASE Committed(p)
  <2>1. job[p] \in Job /\ job[p].new \in Doc
    BY <1>0, <1>11 DEF Structure, Shape, LocalsSet, SessionShape, Promised, Committed, Job
  <2> QED
    BY <1>0, <1>n, <1>11, <2>1 DEF SessionShape, Committed, Value
<1>12. CASE StoreStep(p)
  <2>1. UNCHANGED sessionVars /\ Internal(p)
    BY <1>12 DEF StoreStep
  <2>2. sess[p] \in {"recovering", "committing"}
    BY <1>0, <2>1, InternalPlaces DEF SessionShape
  <2> QED
    BY <1>0, <2>1, <2>2, InternalPlaces DEF SessionShape, Promised, sessionVars
<1>13. CASE KillSession(p)
  BY <1>0, <1>13 DEF SessionShape, KillSession, Kill, Forget
<1> QED
  BY <1>1, <1>2, <1>3, <1>4, <1>5, <1>6, <1>7, <1>8, <1>9, <1>10, <1>11, <1>12, <1>13
  DEF SessionStep, Read, Transact, Adoption

\* Adoption takes its orphans from the directory under the lock, and nobody
\* publishes a journal before it is done with them.
LEMMA OrphansKept ==
    ASSUME SessionInv, NEW p \in Proc, SessionStep(p) PROVE OrphansUnreferred'
<1> USE DEF Move, Inside, Reading, Adopting
<1>0. /\ Structure /\ Locked /\ TypeOK /\ SessionTypeOK /\ OrphansUnreferred
      /\ \A q \in Proc : SessionShape(q)
  BY DEF SessionInv, Structure
<1> SUFFICES ASSUME NEW q \in Proc, sess'[q] \in {"orphans", "orphan_sync"},
                    disk'.journal # NoJournal
             PROVE  <<"stage", disk'.journal.tx>> \notin orphans'[q]
  BY DEF OrphansUnreferred
<1>1. CASE StoreStep(p)
  <2>1. pc[p] \notin {"idle", "held"} /\ sess' = sess
    BY <1>0, <1>1, InternalPlaces DEF StoreStep, sessionVars
  <2>2. pc[q] = "held"
    BY <1>0, <2>1 DEF SessionShape
  <2> QED
    BY <1>0, <2>1, <2>2 DEF Locked
<1>2. CASE ~StoreStep(p)
  <2>1. disk'.journal = disk.journal
    <3>1. CASE Adoption(p)
      BY <1>0, <3>1, AdoptionMoves
    <3>2. CASE ~Adoption(p)
      BY <1>2, <3>2 DEF SessionStep, Transact, Adoption, Read, Store, vars, Untouched,
         directory, OpenSession, StartCommit, CloseSession, ReadTarget, ReadJournal,
         ReadStage, TakeLock, LockClaimed, Preflight, Claim, Adopt, StartRecovery,
         CheckExact, CommitExact, Committed, CommitFailed, EndTransaction, KillSession,
         Leave, Acquire, Release, CallRecover, CallCommit, Kill
    <3> QED
      BY <3>1, <3>2
  <2>2. CASE q # p
    <3>1. Place(q)' = Place(q)
      BY <2>2, OthersKept
    <3> QED
      BY <1>0, <2>1, <3>1 DEF Place, OrphansUnreferred
  <2>3. CASE q = p
    <3>1. CASE Adopt(p)
      <4>1. orphans'[p] = OrphanStages(disk)
        BY <1>0, <2>3, <3>1 DEF SessionTypeOK, Adopt, Leave, LeaveSession
      <4> QED
        BY <2>1, <2>3, <4>1 DEF OrphanStages
    <3>2. CASE LockClaimed(p)
      BY <1>0, <2>3, <3>2 DEF LockClaimed, SessionShape
    <3>3. CASE Adoption(p)
      <4>1. sess[p] \in {"orphans", "orphan_sync"} /\ orphans'[p] \subseteq orphans[p]
        BY <1>0, <2>3, <3>3 DEF SessionTypeOK, Adoption, RemoveOrphan, SyncOrphan,
           OrphanFails, LeaveSession
      <4> QED
        BY <1>0, <2>1, <2>3, <4>1 DEF OrphansUnreferred
    <3>4. CASE ~(Adopt(p) \/ LockClaimed(p) \/ Adoption(p))
      <4>1. sess'[p] \notin {"orphans", "orphan_sync"}
        BY <1>0, <1>2, <3>4 DEF SessionTypeOK, SessionStep, Transact, Adoption, Read,
           OpenSession, StartCommit, CloseSession, StartRead, ReadTarget, ReadJournal,
           ReadStage, ReadDone, ReadFailed, TakeLock, Preflight, Claim, StartRecovery,
           CheckExact, CommitExact, Committed, CommitFailed, EndTransaction, KillSession,
           Leave, LeaveSession
      <4> QED
        BY <2>3, <4>1
    <3> QED
      BY <3>1, <3>2, <3>3, <3>4
  <2> QED
    BY <2>2, <2>3
<1> QED
  BY <1>1, <1>2

---------------------------------------------------------------------------
(* The document moves one generation at a time.                            *)

\* What a step of the sessions does to the document and to the survivors.
LEMMA DocumentMoves ==
    ASSUME SessionInv, [SessionNext]_allVars
    PROVE  \/ disk'.live = disk.live \/ crashes' # crashes
           \/ \E p \in Proc : /\ disk.live = revision[p]
                              /\ disk'.live.gen = Generation(revision[p]) + 1
                              /\ disk'.live \in Doc
<1>0. Structure /\ Durable /\ foreign = 0 /\ SessionTypeOK /\ TypeOK
  BY DEF SessionInv, Structure
<1>1. ASSUME NEW p \in Proc, Internal(p), disk'.live # disk.live
      PROVE  /\ disk.live = revision[p]
             /\ disk'.live.gen = Generation(revision[p]) + 1
             /\ disk'.live \in Doc
  <2>1. pc[p] = "replace" /\ disk.live = job[p].exp /\ disk'.live = job[p].new
    BY <1>0, <1>1, InternalMoves
  <2>2. ctx[p] = "publish" /\ job[p] \in Job
    BY <1>0, <2>1 DEF Structure, Shape, Placed, LocalsSet, PublishSteps
  <2>3. sess[p] = "committing" /\ Promised(p)
    BY <1>0, <2>1, <2>2 DEF SessionInv, SessionShape, Inside, Adopting
  <2> QED
    BY <2>1, <2>2, <2>3 DEF Promised, Job
<1>2. ASSUME NEW p \in Proc, Client(p) PROVE disk' = disk
  BY <1>2 DEF Client, Acquire, Release, CallRecover, CallCommit, Untouched, directory
<1>3. ASSUME NEW p \in Proc, Kill(p) PROVE disk' = disk
  BY <1>3 DEF Kill, Untouched, directory
<1>4. CASE PowerFailure
  BY <1>0, <1>4 DEF PowerFailure, TypeOK
<1>5. CASE UNCHANGED vars
  BY <1>5 DEF vars
<1>6. ASSUME NEW p \in Proc, Adoption(p) PROVE disk'.live = disk.live
  BY <1>0, <1>6, AdoptionMoves
<1> QED
  BY <1>1, <1>2, <1>3, <1>4, <1>5, <1>6, SessionMeetsStore

\* No survivor falls below the last generation a session was told of.
LEMMA AckedKept ==
    ASSUME SessionInv, [SessionNext]_allVars PROVE AcknowledgedCommitsSurvive'
<1>0. /\ Structure /\ Durable /\ foreign = 0 /\ SessionTypeOK /\ TypeOK
      /\ \A s \in survivors : Generation(s.live) >= acked
  BY DEF SessionInv, Structure, AcknowledgedCommitsSurvive
<1>1. ASSUME NEW p \in Proc, Committed(p) PROVE AcknowledgedCommitsSurvive'
  <2>1. pc[p] = "held" /\ answer[p] = "committed" /\ acked' = job[p].new.gen
        /\ survivors' = survivors
    BY <1>1 DEF Committed, Store, vars
  <2>2. \A s \in survivors : s.live = job[p].new
    BY <1>0, <2>1 DEF Durable, Progress, LiveIsNew, Settled
  <2>3. job[p].new \in Doc
    BY <1>0, <1>1 DEF SessionInv, SessionShape, Promised, Structure, Shape, LocalsSet,
       Committed, Job
  <2>4. Generation(job[p].new) = job[p].new.gen /\ job[p].new.gen \in Nat
    BY <2>3, ConstantAssumption, DocAssumption DEF Generation
  <2> QED
    BY <2>1, <2>2, <2>4 DEF AcknowledgedCommitsSurvive
<1>2. ASSUME \A p \in Proc : ~Committed(p), SessionNext \/ UNCHANGED allVars
      PROVE  acked' = acked
  BY <1>2 DEF SessionNext, allVars, sessionVars, OpenSession, StartCommit, CloseSession,
     Read, ReadTarget, ReadJournal, ReadStage, TakeLock, LockClaimed, Transact, Preflight,
     Claim, Adopt, RemoveOrphan, SyncOrphan, OrphanFails, StartRecovery, CheckExact,
     CommitFailed, StoreStep, EndTransaction, CommitExact, KillSession, PowerFailureAll
<1>3. \A s \in survivors : Generation(s.live) \in Nat
  BY <1>0, GenerationType, DocAssumption DEF TypeOK, Content
<1>4. ASSUME acked' = acked, NEW s \in survivors'
      PROVE  Generation(s.live) >= acked'
  <2>1. ASSUME NEW p \in Proc, Client(p) PROVE survivors' = survivors
    BY <2>1 DEF Client, Acquire, Release, CallRecover, CallCommit, Untouched, directory
  <2>2. ASSUME NEW p \in Proc, Kill(p) PROVE survivors' = survivors
    BY <2>2 DEF Kill, Untouched, directory
  <2>3. CASE PowerFailure
    BY <1>0, <1>4, <2>3 DEF PowerFailure, LosePower
  <2>4. CASE UNCHANGED vars
    BY <1>0, <1>4, <2>4 DEF vars
  <2>5. ASSUME NEW p \in Proc, Adoption(p) PROVE Generation(s.live) >= acked
    BY <1>0, <2>5, AdoptionMoves DEF TypeOK
  <2>6. ASSUME NEW p \in Proc, Internal(p) PROVE Generation(s.live) >= acked
    <3>1. CASE \E r \in survivors : s.live = r.live
      BY <1>0, <3>1
    <3>2. CASE pc[p] = "replace" /\ disk.live = job[p].exp /\ s.live = job[p].new
      <4>1. ctx[p] = "publish" /\ job[p] \in Job
        BY <1>0, <3>2 DEF Structure, Shape, Placed, LocalsSet, PublishSteps
      <4>2. sess[p] = "committing" /\ Promised(p)
        BY <1>0, <3>2, <4>1 DEF SessionInv, SessionShape, Inside, Adopting
      <4>3. s.live \in Doc /\ s.live.gen = Generation(disk.live) + 1
        BY <3>2, <4>1, <4>2 DEF Promised, Job
      <4>4. Generation(s.live) = s.live.gen
        BY <4>3, ConstantAssumption DEF Generation
      <4>5. Generation(disk.live) >= acked /\ Generation(disk.live) \in Nat /\ acked \in Nat
        BY <1>0, <1>3, DocAssumption DEF TypeOK, SessionTypeOK
      <4> QED
        BY <4>3, <4>4, <4>5
    <3> QED
      BY <1>0, <1>4, <2>6, <3>1, <3>2, InternalMoves
  <2> QED
    BY <1>0, <1>4, <2>1, <2>2, <2>3, <2>4, <2>5, <2>6, SessionMeetsStore
<1> QED
  BY <1>1, <1>2, <1>4 DEF AcknowledgedCommitsSurvive

---------------------------------------------------------------------------
(* The theorems about sessions.                                            *)

LEMMA SessionInvInit == SessionInit => SessionInv
<1> SUFFICES ASSUME SessionInit PROVE SessionInv
  OBVIOUS
<1>1. Structure /\ Durable /\ foreign = 0 /\ survivors = {disk}
  BY StructureInit, DurableInit DEF SessionInit, Init, InitDirectory
<1>2. SessionTypeOK
  BY DocAssumption DEF SessionInit, SessionTypeOK, Sessions
<1>3. \A p \in Proc : SessionShape(p)
  BY DEF SessionInit, Init, SessionShape, Inside, Adopting, Reading
<1>4. OrphansUnreferred
  BY DEF SessionInit, OrphansUnreferred
<1>5. AcknowledgedCommitsSurvive
  BY <1>1 DEF SessionInit, AcknowledgedCommitsSurvive
<1> QED
  BY <1>1, <1>2, <1>3, <1>4, <1>5 DEF SessionInv

LEMMA SessionInvStep == SessionInv /\ [SessionNext]_allVars => SessionInv'
<1> SUFFICES ASSUME SessionInv, [SessionNext]_allVars PROVE SessionInv'
  OBVIOUS
<1>0. /\ \A p \in Proc : SessionShape(p)
      /\ OrphansUnreferred
  BY DEF SessionInv
<1>1. (Structure /\ Durable /\ foreign = 0)' /\ SessionTypeOK' /\ AcknowledgedCommitsSurvive'
  BY StoreKept, SessionTypeKept, AckedKept
<1>2. CASE UNCHANGED allVars
  <2>1. \A p \in Proc : SessionShape(p)'
    BY <1>0, <1>2 DEF allVars, vars, sessionVars, SessionShape, Promised
  <2>2. OrphansUnreferred'
    BY <1>0, <1>2 DEF allVars, vars, sessionVars, OrphansUnreferred
  <2> QED
    BY <1>1, <2>1, <2>2 DEF SessionInv
<1>3. CASE PowerFailureAll
  <2>1. \A p \in Proc : SessionShape(p)'
    BY <1>3 DEF PowerFailureAll, PowerFailure, Forget, SessionShape, Inside, Adopting, Reading
  <2>2. OrphansUnreferred'
    BY <1>3 DEF PowerFailureAll, OrphansUnreferred
  <2> QED
    BY <1>1, <2>1, <2>2 DEF SessionInv
<1>4. ASSUME NEW p \in Proc, SessionStep(p) PROVE SessionInv'
  <2>1. \A q \in Proc : SessionShape(q)'
    BY <1>0, <1>4, SessionShapeKept, OthersKept, ShapeOfPlace
  <2>2. OrphansUnreferred'
    BY <1>4, OrphansKept
  <2> QED
    BY <1>1, <2>1, <2>2 DEF SessionInv
<1> QED
  BY <1>2, <1>3, <1>4 DEF SessionNext, SessionStep

\* Whatever sessions do - reads without the lock, adoption, commits, kills - the
\* store underneath keeps its structure and its durability.
THEOREM SessionInvariant == SessionSpec => []SessionInv
  BY SessionInvInit, SessionInvStep, PTL DEF SessionSpec

\* Type correctness of the sessions of state_store.rs.
THEOREM SessionTypeCorrect == SessionSpec => []SessionTypeOK
<1>1. SessionInv => SessionTypeOK
  BY DEF SessionInv
<1> QED
  BY <1>1, SessionInvariant, PTL

\* A generation that commit_exact reported as committed is in every content a
\* power failure can leave, whatever stale sessions and recoveries do later.
THEOREM AcknowledgedCommitsKept == SessionSpec => []AcknowledgedCommitsSurvive
<1>1. SessionInv => AcknowledgedCommitsSurvive
  BY DEF SessionInv
<1> QED
  BY <1>1, SessionInvariant, PTL

\* Adoption never removes the stage a running commit is about to rename.
THEOREM StagesKept == SessionSpec => []InFlightStageSafe
<1>1. SessionInv => InFlightStageSafe
  BY DEF SessionInv, Structure, Shape, StageComplete, InFlightStageSafe
<1> QED
  BY <1>1, SessionInvariant, PTL

\* Nor the stage of a journal that a stopped commit left to be resolved.
THEOREM JournalStagesSpared == SessionSpec => []OrphansUnreferred
<1>1. SessionInv => OrphansUnreferred
  BY DEF SessionInv
<1> QED
  BY <1>1, SessionInvariant, PTL

\* Sessions leave journals the next recovery can resolve, as the bare store does.
THEOREM SessionsLeaveResolvableJournals == SessionSpec => []JournalResolvable
<1>1. SessionInv => JournalResolvable
  BY DEF SessionInv, Durable, Resolvable, JournalResolvable
<1> QED
  BY <1>1, SessionInvariant, PTL

\* No update is lost: a commit replaces exactly the document a session had read,
\* by the next generation.
THEOREM NoUpdateLost == SessionSpec => GenerationsAdvanceByOne
<1> DEFINE Advance ==
      disk'.live # disk.live /\ crashes' = crashes =>
        /\ Generation(disk'.live) = Generation(disk.live) + 1
        /\ \E p \in Proc : revision[p] = disk.live
<1>1. ASSUME SessionInv, [SessionNext]_allVars PROVE Advance
  <2> SUFFICES ASSUME disk'.live # disk.live, crashes' = crashes PROVE Advance
    OBVIOUS
  <2>1. PICK p \in Proc : /\ disk.live = revision[p]
                          /\ disk'.live.gen = Generation(revision[p]) + 1
                          /\ disk'.live \in Doc
    BY <1>1, DocumentMoves
  <2>2. Generation(disk'.live) = disk'.live.gen
    BY <2>1, ConstantAssumption DEF Generation
  <2> QED
    BY <2>1, <2>2
<1>2. SessionInv /\ [SessionNext]_allVars => [Advance]_allVars
  BY <1>1
<1> QED
  BY <1>2, SessionInvariant, PTL DEF SessionSpec, GenerationsAdvanceByOne

=============================================================================
