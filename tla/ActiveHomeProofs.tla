-------------------------- MODULE ActiveHomeProofs --------------------------
(***************************************************************************)
(* Proofs about ActiveHome, for any number of commands, transactions,      *)
(* accounts, kills, failing calls and writes of agy.  What agy does while  *)
(* a transaction runs is told by `waived`: two contents that should be the *)
(* same are the same, or agy had its hands on both.                        *)
(***************************************************************************)
EXTENDS ActiveHome, TLAPS

---------------------------------------------------------------------------
(* The inductive invariant.                                                *)

Wild == UNION {Foreign[s] : s \in Slot}
Same(x, y) == x = y \/ {x, y} \subseteq waived
Calm  == writes = 0 /\ ~overlap
Plain == Calm /\ ~doubt

\* What a plan can be.
PlanOK(plan) ==
    /\ plan.kind = "switch" => plan.after = plan.account /\ plan.target = Owned[plan.account]
    /\ plan.kind = "remove" => /\ plan.before = plan.account /\ plan.after = NoProfile
                               /\ plan.target = Empty
    /\ plan.kind = "delete" => plan.after = plan.before

\* Only a takeover replaces what sagy did not write.
Managed(plan, mode) == mode = "takeover" \/ \A s \in Slot : plan.baseline[s] \notin Wild
BaseRight(plan) == plan.before # NoProfile => plan.baseline = HomeOf(plan.before)
HomeRight == state.profile # NoProfile => home = HomeOf(state.profile)
Sealed(t) == journal[t].phase = "published"

\* A slot before, between or after its two moves, and put back.
Whole(t, plan, s) ==
    IF tombstone[t][s] = Absent
    THEN \/ home[s] = plan.baseline[s]
         \/ plan.baseline[s] = Absent /\ home[s] = plan.target[s]
    ELSE home[s] \in {Absent, plan.target[s]}

\* What each journal of the home says of State and of the files.
JournalOK(t, plan) ==
    /\ PlanOK(plan) /\ plan.kind # "delete" /\ Managed(plan, plan.mode)
    /\ ~overlap => \/ state.profile = plan.before
                   \/ Sealed(t) /\ state.profile = plan.after
    /\ ~overlap /\ ~bumped =>
        \/ state.gen = plan.base /\ state.profile = plan.before
        \/ Sealed(t) /\ state.gen = plan.base + 1 /\ state.profile = plan.after
    /\ Calm => \A s \in Slot :
        Whole(t, plan, s) \/ (Sealed(t) /\ state.gen > plan.base /\ home[s] = plan.target[s])
    /\ Plain => BaseRight(plan)
    /\ \A s \in Slot : tombstone[t][s] # Absent =>
        Same(tombstone[t][s], plan.baseline[s]) /\ backup[t][s] = Absent
HomeJournals == \A t \in Pending : JournalOK(t, journal[t].plan)

\* What each journal of a deletion says of State.
CredentialJournalOK(a, base) ==
    \/ state.gen = base /\ a \in state.accounts
    \/ state.gen = base + 1 /\ a \notin state.accounts /\ cred[a] # "live"
DeletionJournals ==
    ~overlap /\ ~bumped =>
        \A t \in CPending : CredentialJournalOK(cjournal[t].account, cjournal[t].base)

Credentials ==
    ~doubt /\ ~overlap =>
        \A a \in Account : \/ (a \in state.accounts) = (cred[a] = "live")
                           \/ \E t \in CPending : cjournal[t].account = a
Current == state.profile \in state.accounts \cup {NoProfile}
Settled == Plain /\ Pending = {} => HomeRight

\* A copy a rollback made of what sagy did not write has its original.
Kept(c) == \E s \in Slot : home[s] = c \/ \E t \in Tx : c \in {tombstone[t][s], backup[t][s]}
Copies == \A t \in Tx, s \in Slot :
    recovery[t][s] \in Wild \ waived => Kept(recovery[t][s])
Untouching == writes = 0 => waived = {}
Single == ~overlap => \A t, u \in Pending \cup CPending : t = u

\* Where the lock holder is, and what it holds.
Forward == {"refused", "stage", "delete", "publish", "aside", "seal", "commit"}
Backward == {"check", "keep", "back", "verify"}
Control ==
    /\ owner = Nobody <=> step = "idle"
    /\ job = NoJob <=> step \in {"idle", "journals", "credentials"}
    /\ job # NoJob =>
        /\ step \in Forward \cup {"purge"} => job.route = "commit"
        /\ step \in Backward => job.route # "commit"
        /\ step \in {"finalize", "clean"} => job.route # "rollback"
        /\ step = "undelete" => job.route = "rollback"
        /\ step \in {"purge", "undelete"} => job.plan.kind # "switch"
        /\ step = "delete" => job.plan.kind # "switch"
        /\ step = "refused" => job.plan.kind = "delete"
        /\ job.plan.kind = "delete" => step \in {"refused", "delete", "commit", "purge", "undelete"}
        /\ job.route = "recover" => job.plan.kind # "delete" /\ step \in Backward \cup {"finalize", "clean", "discard"}
Listed ==
    /\ step = "journals" \/ (job # NoJob /\ job.route = "recover") => todo \subseteq Pending
    /\ step = "credentials" => todo \subseteq CPending
Alone == ~overlap /\ job # NoJob => \A t \in Pending \cup CPending : t = job.tx

Before(plan) ==
    state.gen = plan.base /\ state.profile = plan.before /\ plan.account \in state.accounts
After(plan) ==
    /\ state.gen = plan.base + 1 /\ state.profile = plan.after
    /\ plan.kind # "switch" => plan.account \notin state.accounts

\* The job against State, its journals, and the files, step by step.
OfState(plan) ==
    /\ job.route = "commit" => IF step \in Forward THEN Before(plan) ELSE After(plan)
    /\ job.route = "rollback" => Before(plan) \/ (doubt /\ After(plan))
    /\ job.route = "recover" =>
        /\ step \in {"finalize", "clean"} => state.gen = plan.base + 1 /\ state.profile = plan.after
        /\ step \in Backward /\ ~overlap => state.profile = plan.before
    /\ plan.kind = "delete" /\ step \in {"delete", "commit"} => plan.account # plan.before
OfJournals(t, plan) ==
    /\ plan.kind # "delete" /\ step \notin {"stage", "purge", "undelete"} =>
        t \in Pending /\ journal[t].plan = [plan EXCEPT !.mode = journal[t].plan.mode]
    /\ plan.kind # "delete" /\ step \in {"commit", "finalize", "clean"} => Sealed(t)
    /\ plan.kind = "delete" => t \notin Pending
    /\ job.route # "recover" /\ plan.kind = "switch" => t \notin CPending
    /\ job.route # "recover" /\ plan.kind # "switch" =>
        /\ cjournal[t] = [account |-> plan.account, base |-> plan.base]
        /\ step \notin {"refused", "stage", "delete"} => cred[plan.account] = t
OfSlots(t, plan) ==
    /\ step \in {"stage", "delete", "publish", "seal"} =>
        /\ tombstone[t] = Empty /\ \A s \in Slot : Same(home[s], plan.baseline[s])
    /\ step \in {"stage", "delete", "publish", "aside", "seal"} => backup[t] = Empty
    /\ step \in {"stage", "delete", "publish", "aside"} =>
        \A s \in Slot : stage[t][s] \in {Absent, plan.target[s]}
    /\ step = "aside" => \A s \in Slot :
        plan.baseline[s] # Absent /\ tombstone[t][s] = Absent => Same(home[s], plan.baseline[s])
    /\ step \in {"check", "keep", "back"} /\ Calm => \A s \in Slot : Whole(t, plan, s)
    /\ step \in {"keep", "back"} =>
        /\ \A s \in Slot : job.seen[s] \in {plan.baseline[s], plan.target[s], Absent}
        /\ job.slot = "token" => Same(home["document"], job.seen["document"])
    /\ step = "keep" => Same(home[job.slot], job.seen[job.slot])
    /\ step = "clean" => \A s \in Slot : Same(home[s], plan.target[s])
    /\ step = "discard" /\ Plain => HomeRight
Work(t, plan) ==
    /\ PlanOK(plan) /\ (Plain => BaseRight(plan))
    /\ plan.kind # "delete" /\ (job.route = "commit" \/ step \in {"finalize", "clean"}) =>
        Managed(plan, job.mode)
    /\ OfState(plan) /\ OfJournals(t, plan) /\ OfSlots(t, plan)
Working ==
    \A t \in Tx, plan \in Plans :
        (job # NoJob /\ job.tx = t /\ job.plan = plan) => Work(t, plan)

OfHome == HomeJournals /\ Current /\ Settled /\ Copies /\ Untouching
OfCredentials == DeletionJournals /\ Credentials /\ Single
OfFiles == OfHome /\ OfCredentials
OfOwner == Control /\ Listed /\ Alone /\ Working
HomeInv == HomeTypeOK /\ OfFiles /\ OfOwner

---------------------------------------------------------------------------
(* Layouts, contents, plans and jobs.                                      *)

\* The two slots.
LEMMA Slots == Slot = {"token", "document"} /\ "token" \in Slot /\ "document" \in Slot
BY DEF Slot

\* What agy may write is neither nothing nor the file of an account.
LEMMA WildContent ==
    /\ Absent \notin Wild
    /\ \A a \in Account, s \in Slot : Owned[a][s] \notin Wild
    /\ \A s \in Slot : Foreign[s] \subseteq Content /\ Foreign[s] \subseteq Wild
    /\ Absent \in Content
<1>1. \A s \in Slot : Foreign[s] \subseteq Wild
  BY DEF Wild
<1>2. Wild \subseteq Content /\ Absent \in Content
  <2> DEFINE own == UNION {{Owned[a][s] : s \in Slot} : a \in Account}
  <2>1. Content = own \cup Wild \cup {Absent}
    BY DEF Wild, Content
  <2> HIDE DEF own
  <2> QED  BY <2>1
<1>3. ASSUME NEW c \in Wild PROVE \E s \in Slot : c \in Foreign[s]
  BY DEF Wild
<1>4. Absent \notin Wild
  BY <1>3, ActiveHomeConstants
<1>5. \A a \in Account, s \in Slot : Owned[a][s] \notin Wild
  BY <1>3, ActiveHomeConstants
<1> QED  BY <1>1, <1>2, <1>4, <1>5

\* The layouts a home can be given.
LEMMA Layouts ==
    /\ Empty \in Layout /\ \A s \in Slot : Empty[s] = Absent
    /\ \A a \in Account : Owned[a] \in Layout
    /\ \A profile \in Account \cup {NoProfile} : HomeOf(profile) \in Layout
BY WildContent, ActiveHomeConstants DEF Empty, Layout, HomeOf

\* A layout is what its slots hold.
LEMMA SameLayout ==
    ASSUME NEW l \in Layout, NEW m \in Layout, \A s \in Slot : l[s] = m[s] PROVE l = m
BY DEF Layout

\* Writing one slot, and one file of a transaction.
LEMMA SlotWritten ==
    ASSUME NEW l \in Layout, NEW s \in Slot, NEW c \in Content, NEW g, g = [l EXCEPT ![s] = c]
    PROVE  g \in Layout /\ g[s] = c /\ \A u \in Slot : u # s => g[u] = l[u]
BY DEF Layout

\* Writing one file of one directory changes that file and no other.
LEMMA FileWritten ==
    ASSUME NEW f \in [Tx -> Layout], NEW t \in Tx, NEW s \in Slot, NEW c \in Content,
           NEW g, g = [f EXCEPT ![t][s] = c]
    PROVE  /\ g \in [Tx -> Layout] /\ g[t][s] = c
           /\ \A v \in Tx, u \in Slot : v # t \/ u # s => g[v][u] = f[v][u]
           /\ \A v \in Tx : v # t => g[v] = f[v]
BY DEF Layout

\* The parts of a plan, a job and a journal.
LEMMA PlanType ==
    ASSUME NEW plan \in Plans
    PROVE  /\ plan.kind \in {"switch", "remove", "delete"} /\ plan.account \in Account
           /\ plan.mode \in Modes /\ plan.base \in 1 .. MaxGen - 1 /\ plan.base \in Nat
           /\ plan.before \in Account \cup {NoProfile} /\ plan.after \in Account \cup {NoProfile}
           /\ plan.baseline \in Layout /\ plan.target \in Layout
           /\ \A s \in Slot : plan.baseline[s] \in Content /\ plan.target[s] \in Content
           /\ \A mode \in Modes : [plan EXCEPT !.mode = mode] \in Plans
<1>1. MaxGen \in Nat
  BY ActiveHomeConstants
<1>2. plan.base \in 1 .. MaxGen - 1 /\ plan.baseline \in Layout /\ plan.target \in Layout
  BY DEF Plans
<1>3. \A mode \in Modes : [plan EXCEPT !.mode = mode] \in Plans
  BY DEF Plans
<1>4. plan.base \in Nat
  BY <1>1, <1>2
<1>5. \A s \in Slot : plan.baseline[s] \in Content /\ plan.target[s] \in Content
  BY <1>2 DEF Layout
<1> QED  BY <1>2, <1>3, <1>4, <1>5 DEF Plans

\* What a job, a journal of the home and a journal of a deletion are made of.
LEMMA JobType ==
    ASSUME HomeTypeOK, job # NoJob
    PROVE  /\ job \in Jobs /\ job.tx \in Tx /\ job.plan \in Plans /\ job.mode \in Modes
           /\ job.route \in {"commit", "rollback", "recover"} /\ job.slot \in Slot
           /\ job.seen \in Layout /\ job.moved \subseteq Slot
BY DEF HomeTypeOK, Jobs
LEMMA JournalType ==
    ASSUME HomeTypeOK, NEW t \in Pending
    PROVE  /\ t \in Tx /\ journal[t] \in Journals /\ journal[t].plan \in Plans
           /\ journal[t].phase \in {"prepared", "publishing", "published"}
BY DEF HomeTypeOK, Pending, Journals
LEMMA CredentialJournalType ==
    ASSUME HomeTypeOK, NEW t \in CPending
    PROVE  /\ t \in Tx /\ cjournal[t] \in CredentialJournals /\ cjournal[t].account \in Account
           /\ cjournal[t].base \in 1 .. MaxGen - 1
BY DEF HomeTypeOK, CPending, CredentialJournals

\* What the files of accounts are to replace is not what agy wrote, nor is the
\* target of a plan that touches the home.
LEMMA TargetOwned ==
    ASSUME NEW plan \in Plans, PlanOK(plan), plan.kind # "delete", NEW s \in Slot
    PROVE  plan.target[s] \notin Wild
BY WildContent, Layouts, PlanType DEF PlanOK

\* The job under way, by names that a step does not change.
LEMMA JobIs ==
    ASSUME HomeInv, job # NoJob
    PROVE  \E t \in Tx, plan \in Plans : job.tx = t /\ job.plan = plan /\ Work(t, plan)
BY JobType DEF HomeInv, OfOwner, Working

\* What is known of the one job is all that is known of jobs.
LEMMA WorkIs ==
    ASSUME NEW t \in Tx, NEW plan \in Plans, job.tx = t, job.plan = plan, Work(t, plan)
    PROVE  Working
BY DEF Working

\* The ways a job changes.
LEMMA JobChanges ==
    ASSUME NEW j \in Jobs
    PROVE  /\ LET k == [j EXCEPT !.route = "rollback"]
              IN  /\ k \in Jobs /\ k.tx = j.tx /\ k.plan = j.plan /\ k.mode = j.mode /\ k.route = "rollback"
                  /\ k.slot = j.slot /\ k.seen = j.seen /\ k.moved = j.moved
           /\ \A l \in Layout :
              LET k == [j EXCEPT !.seen = l, !.slot = "token"]
              IN  /\ k \in Jobs /\ k.tx = j.tx /\ k.plan = j.plan /\ k.mode = j.mode /\ k.route = j.route
                  /\ k.slot = "token" /\ k.seen = l /\ k.moved = j.moved
           /\ \A x \in Slot :
              LET k == [j EXCEPT !.slot = x]
              IN  /\ k \in Jobs /\ k.tx = j.tx /\ k.plan = j.plan /\ k.mode = j.mode /\ k.route = j.route
                  /\ k.slot = x /\ k.seen = j.seen /\ k.moved = j.moved
           /\ \A m \in SUBSET Slot :
              LET k == [j EXCEPT !.moved = m]
              IN  /\ k \in Jobs /\ k.tx = j.tx /\ k.plan = j.plan /\ k.mode = j.mode /\ k.route = j.route
                  /\ k.slot = j.slot /\ k.seen = j.seen /\ k.moved = m
BY DEF Jobs, Slot

---------------------------------------------------------------------------
(* Steps that leave the files alone, and holders of the lock without a job.*)

\* What is said of files and State survives a step that touches neither.
LEMMA HomeCopied ==
    ASSUME OfHome, overlap => overlap',
           UNCHANGED <<home, tombstone, backup, journal, state, writes, waived, doubt, bumped>>,
           \A t \in Tx, s \in Slot : recovery'[t][s] \in {recovery[t][s], Absent}
    PROVE  OfHome'
<1>0. Pending' = Pending /\ (Calm' => Calm) /\ (Plain' => Plain)
  BY DEF Pending, Calm, Plain
<1>1. ASSUME NEW t \in Pending, JournalOK(t, journal[t].plan)
      PROVE  JournalOK(t, journal[t].plan)'
  BY <1>0, <1>1 DEF JournalOK, Sealed, Whole, Same
<1>2. HomeJournals'
  BY <1>0, <1>1 DEF OfHome, HomeJournals
<1>3. Current' /\ Settled' /\ Untouching'
  BY <1>0 DEF OfHome, Current, Settled, HomeRight, Untouching
<1>4. Copies'
  BY WildContent DEF OfHome, Copies, Kept
<1> QED  BY <1>2, <1>3, <1>4 DEF OfHome

\* A step that changes none of a part's files keeps what is known of them.
LEMMA HomeKept ==
    ASSUME OfHome, overlap => overlap',
           UNCHANGED <<home, tombstone, recovery, backup, journal, state,
                       writes, waived, doubt, bumped>>
    PROVE  OfHome'
BY HomeCopied
LEMMA CredentialsKept ==
    ASSUME OfCredentials, overlap => overlap', Pending' = Pending,
           UNCHANGED <<cred, cjournal, state, doubt, bumped>>
    PROVE  OfCredentials'
BY DEF OfCredentials, DeletionJournals, CredentialJournalOK, Credentials, Single, CPending
LEMMA FilesKept ==
    ASSUME OfFiles, overlap => overlap',
           UNCHANGED <<home, tombstone, recovery, backup, journal, cred, cjournal, state,
                       writes, waived, doubt, bumped>>
    PROVE  OfFiles'
BY HomeKept, CredentialsKept DEF OfFiles, Pending

\* Nobody is at work, or the owner of the lock looks for journals.
LEMMA OwnerQuiet ==
    ASSUME job' = NoJob, owner' = Nobody <=> step' = "idle",
           step' \in {"idle", "journals", "credentials"},
           step' = "journals" => todo' \subseteq Pending',
           step' = "credentials" => todo' \subseteq CPending'
    PROVE  OfOwner'
BY DEF OfOwner, Control, Listed, Alone, Working

\* A lock that is given back.
LEMMA ReleaseIs ==
    ASSUME HomeTypeOK, NEW p \in Proc, NEW at \in {"out", "recovered", "ready", "saved"}, Release(p, at)
    PROVE  /\ owner' = Nobody /\ step' = "idle" /\ job' = NoJob /\ todo' = {}
           /\ session' \in [Proc -> {"out", "recovered", "ready", "saved"}]
           /\ OfOwner'
<1>1. /\ owner' = Nobody /\ step' = "idle" /\ job' = NoJob /\ todo' = {}
      /\ session' \in [Proc -> {"out", "recovered", "ready", "saved"}]
  BY DEF Release, HomeTypeOK
<1> QED  BY <1>1, OwnerQuiet

\* A command that ends, or goes on to its next locked section.
LEMMA ReleaseInv ==
    ASSUME HomeInv, NEW p \in Proc, NEW at \in {"out", "recovered", "ready", "saved"}, Release(p, at),
           UNCHANGED <<home, evidence, journal, credentials, state>>,
           UNCHANGED <<writes, waived, doubt, bumped, overlap>>,
           failures' = failures \/ (failures + writes < MaxFaults /\ failures' = failures + 1)
    PROVE  HomeInv'
<1>1. HomeTypeOK'
  <2>1. failures' \in Nat /\ writes' \in Nat /\ failures' + writes' <= MaxFaults
    BY ActiveHomeConstants DEF HomeInv, HomeTypeOK
  <2> QED  BY <2>1, ReleaseIs DEF HomeInv, HomeTypeOK, evidence, credentials
<1>2. OfFiles'
  BY FilesKept DEF HomeInv, evidence, credentials
<1> QED  BY <1>1, <1>2, ReleaseIs DEF HomeInv

\* A command that is done with a section leaves the invariant: it closes its
\* session, is refused, has recovered, is stuck, or is killed with the locks.
LEMMA CloseInv == ASSUME HomeInv, NEW p \in Proc, Close(p) PROVE HomeInv'
<1>0. /\ session' \in [Proc -> {"out", "recovered", "ready", "saved"}]
      /\ UNCHANGED <<home, evidence, journal, credentials, state, owner, step, job, todo, history>>
  BY DEF Close, HomeInv, HomeTypeOK
<1>1. HomeTypeOK'
  BY <1>0 DEF HomeInv, HomeTypeOK, evidence, credentials, history
<1>2. OfFiles'
  BY <1>0, FilesKept DEF HomeInv, evidence, credentials, history
<1>3. OfOwner'
  <2>1. Control' /\ Listed' /\ Alone'
    BY <1>0 DEF HomeInv, OfOwner, Control, Listed, Alone, Pending, CPending, credentials, history
  <2>2. ASSUME NEW t \in Tx, NEW plan \in Plans, Work(t, plan) PROVE Work(t, plan)'
    BY <1>0, <2>2 DEF Work, OfState, OfJournals, OfSlots, Plain, Calm, Before, After, Pending,
         CPending, Sealed, Same, Whole, HomeRight, BaseRight, evidence, credentials, history
  <2>3. Working'
    BY <1>0, <2>2 DEF HomeInv, OfOwner, Working
  <2> QED  BY <2>1, <2>3 DEF OfOwner
<1> QED  BY <1>1, <1>2, <1>3 DEF HomeInv

LEMMA RefusedInv == ASSUME HomeInv, NEW p \in Proc, Refused(p) PROVE HomeInv'
BY ReleaseInv DEF Refused, history
LEMMA HomeRecoveredInv == ASSUME HomeInv, NEW p \in Proc, HomeRecovered(p) PROVE HomeInv'
BY ReleaseInv DEF HomeRecovered, history
LEMMA CredentialsRecoveredInv == ASSUME HomeInv, NEW p \in Proc, CredentialsRecovered(p) PROVE HomeInv'
BY ReleaseInv DEF CredentialsRecovered, history
LEMMA StuckInv == ASSUME HomeInv, NEW p \in Proc, Stuck(p) PROVE HomeInv'
BY ReleaseInv DEF Stuck, history
LEMMA KillInv == ASSUME HomeInv, NEW p \in Proc, Kill(p) PROVE HomeInv'
BY ReleaseInv DEF Kill

\* Recovery takes the lock and lists what is pending.
LEMMA RecoverInv ==
    ASSUME HomeInv, NEW p \in Proc, RecoverHome(p) \/ RecoverCredentials(p) PROVE HomeInv'
<1>0. /\ owner = Nobody /\ owner' = p /\ p # Nobody /\ UNCHANGED job
      /\ (step' = "journals" /\ todo' = Pending) \/ (step' = "credentials" /\ todo' = CPending)
      /\ UNCHANGED <<home, evidence, journal, credentials, state, session, history>>
  <2>1. CASE RecoverHome(p)
    BY <2>1, ActiveHomeConstants DEF RecoverHome, Lock
  <2>2. CASE RecoverCredentials(p)
    BY <2>2, ActiveHomeConstants DEF RecoverCredentials, Lock
  <2> QED  BY <2>1, <2>2
<1>1. job' = NoJob /\ Pending' = Pending /\ CPending' = CPending
  BY <1>0 DEF HomeInv, OfOwner, Control, Pending, CPending, credentials
<1>2. HomeTypeOK'
  BY <1>0, <1>1 DEF HomeInv, HomeTypeOK, Pending, CPending, evidence, credentials, history
<1>3. OfFiles'
  BY <1>0, FilesKept DEF HomeInv, evidence, credentials, history
<1>4. OfOwner'
  BY <1>0, <1>1, OwnerQuiet
<1> QED  BY <1>2, <1>3, <1>4 DEF HomeInv

---------------------------------------------------------------------------
(* Commits without a journal, and the beginning of a transaction.          *)

\* A commit that is no transaction's passes every journal there is.
LEMMA OrdinaryCommitInv == ASSUME HomeInv, NEW p \in Proc, OrdinaryCommit(p) PROVE HomeInv'
<1>0. /\ owner = Nobody /\ state.gen < MaxGen /\ state' = [state EXCEPT !.gen = state.gen + 1]
      /\ bumped' = (bumped \/ Pending \cup CPending # {})
      /\ UNCHANGED <<home, evidence, journal, credentials, owner, step, job, todo, failures,
                     writes, waived, doubt, overlap>>
      /\ Superseded(p, "saved")
  BY DEF OrdinaryCommit
<1>1. /\ state.gen \in 1 .. MaxGen /\ state' \in [gen : 1 .. MaxGen, accounts : SUBSET Account,
                                                   profile : Account \cup {NoProfile}]
      /\ state'.gen = state.gen + 1 /\ state'.profile = state.profile /\ state'.accounts = state.accounts
      /\ Pending' = Pending /\ CPending' = CPending
  BY <1>0, ActiveHomeConstants DEF HomeInv, HomeTypeOK, Pending, CPending, credentials
<1>2. HomeTypeOK'
  <2>1. session' \in [Proc -> {"out", "recovered", "ready", "saved"}]
    BY <1>0 DEF Superseded
  <2>2. bumped' \in BOOLEAN
    BY <1>0
  <2> QED  BY <1>0, <1>1, <2>1, <2>2 DEF HomeInv, HomeTypeOK, evidence, credentials
<1>3. OfHome'
  <2>1. ASSUME NEW t \in Pending PROVE JournalOK(t, journal[t].plan)'
    <3> DEFINE plan == journal[t].plan
    <3>1. JournalOK(t, plan)
      BY DEF HomeInv, OfFiles, OfHome, HomeJournals
    <3>2. bumped' /\ plan \in Plans /\ plan.base \in Nat /\ plan' = plan /\ Sealed(t)' = Sealed(t)
      BY <1>0, <2>1, JournalType, PlanType DEF HomeInv, Sealed
    <3>3. state'.gen \in Nat /\ (state.gen > plan.base => state'.gen > plan.base)
      BY <1>1, <3>2
    <3>4. (Calm' => Calm) /\ (Plain' => Plain) /\ \A s \in Slot : Whole(t, plan, s)' <=> Whole(t, plan, s)
      BY <1>0 DEF Calm, Plain, Whole, evidence
    <3> HIDE DEF plan
    <3>5. JournalOK(t, plan)'
      BY <1>0, <1>1, <3>1, <3>2, <3>3, <3>4 DEF JournalOK, Same, evidence
    <3> QED  BY <3>5 DEF plan
  <2>2. HomeJournals'
    BY <1>1, <2>1 DEF HomeJournals
  <2>3. Current' /\ Settled' /\ Untouching'
    BY <1>0, <1>1 DEF HomeInv, OfFiles, OfHome, Current, Settled, HomeRight, Untouching, Plain, Calm
  <2>4. Copies'
    BY <1>0 DEF HomeInv, OfFiles, OfHome, Copies, Kept, evidence
  <2> QED  BY <2>2, <2>3, <2>4 DEF OfHome
<1>4. OfCredentials'
  BY <1>0, <1>1 DEF HomeInv, OfFiles, OfCredentials, DeletionJournals, Credentials, Single, credentials
<1>5. job = NoJob /\ step = "idle"
  BY <1>0 DEF HomeInv, OfOwner, Control
<1>6. OfOwner'
  BY <1>0, <1>5, OwnerQuiet DEF HomeInv, OfOwner, Control
<1> QED  BY <1>2, <1>3, <1>4, <1>6 DEF HomeInv, OfFiles

\* A refused switch has swept the stages.
LEMMA SweptType == ASSUME HomeTypeOK PROVE Swept \in [Tx -> Layout]
BY Layouts DEF Swept, HomeTypeOK

\* A switch that finds a home it may not touch is refused under the locks.
LEMMA SwitchRefusedInv ==
    ASSUME HomeInv, NEW p \in Proc, NEW a \in Account, NEW mode \in Modes, SwitchRefused(p, a, mode)
    PROVE  HomeInv'
<1>0. /\ owner = Nobody /\ stage' = Swept /\ session' = [session EXCEPT ![p] = "out"]
      /\ UNCHANGED <<home, tombstone, recovery, backup, journal, credentials, state, owner, step,
                     job, todo, history>>
  BY DEF SwitchRefused
<1>1. HomeTypeOK'
  BY <1>0, SweptType DEF HomeInv, HomeTypeOK, credentials, history
<1>2. OfFiles'
  BY <1>0, FilesKept DEF HomeInv, credentials, history
<1>3. job = NoJob /\ step = "idle"
  BY <1>0 DEF HomeInv, OfOwner, Control
<1>4. OfOwner'
  BY <1>0, <1>3, OwnerQuiet DEF HomeInv, OfOwner, Control
<1> QED  BY <1>1, <1>2, <1>4 DEF HomeInv

\* The plan of a switch or of a removal is made of what State and the home are.
LEMMA PlanIs ==
    ASSUME HomeTypeOK, state.gen < MaxGen, NEW kind \in {"switch", "remove", "delete"}, NEW a \in Account,
           NEW mode \in Modes, NEW target \in Layout, NEW after \in Account \cup {NoProfile}
    PROVE  LET plan == Plan(kind, a, mode, target, after)
           IN  /\ plan \in Plans /\ plan.kind = kind /\ plan.account = a /\ plan.mode = mode
               /\ plan.base = state.gen /\ plan.before = state.profile /\ plan.after = after
               /\ plan.baseline = home /\ plan.target = target
<1>1. state.gen \in 1 .. MaxGen - 1
  BY ActiveHomeConstants DEF HomeTypeOK
<1> QED  BY <1>1 DEF Plan, Plans, HomeTypeOK

\* What a transaction starts from that accepts the home it finds.
LEMMA AcceptedManaged ==
    ASSUME NEW plan \in Plans, PlanOK(plan), plan.kind # "delete", Accepts(plan)
    PROVE  Managed(plan, Effective(plan)) /\ Effective(plan) \in Modes
<1>1. Effective(plan) \in Modes
  BY PlanType DEF Effective, Modes
<1>2. CASE Effective(plan) = "takeover"
  BY <1>1, <1>2 DEF Managed
<1>3. CASE Effective(plan) # "takeover" /\ plan.before # NoProfile
  <2>1. plan.baseline = Owned[plan.before] /\ plan.before \in Account
    BY <1>3, PlanType DEF Accepts, Effective, HomeOf
  <2> QED  BY <1>1, <2>1, WildContent DEF Managed
<1>4. CASE Effective(plan) # "takeover" /\ plan.before = NoProfile
  <2>1. plan.baseline = Empty \/ plan.baseline = plan.target
    BY <1>4, PlanType DEF Accepts, Effective, Modes
  <2>2. \A s \in Slot : plan.baseline[s] \notin Wild
    BY <2>1, TargetOwned, Layouts, WildContent
  <2> QED  BY <1>1, <2>2 DEF Managed
<1> QED  BY <1>2, <1>3, <1>4

\* A transaction begins, over whatever a killed command left.
LEMMA BeginInv ==
    ASSUME HomeInv, NEW p \in Proc, NEW t \in Tx, NEW plan \in Plans, NEW first \in {"stage", "delete", "refused"},
           Begin(p, t, plan, first), stage' \in {stage, Swept}, PlanOK(plan),
           plan.base = state.gen, plan.before = state.profile, plan.baseline = home,
           plan.account \in state.accounts,
           plan.kind # "delete" => first = "stage" /\ Accepts(plan),
           plan.kind = "delete" =>
               \/ first = "refused"
               \/ first = "delete" /\ plan.account # plan.before,
           \/ plan.kind = "switch" /\ UNCHANGED cjournal
           \/ /\ plan.kind # "switch"
              /\ cjournal' = [cjournal EXCEPT ![t] = [account |-> plan.account, base |-> plan.base]]
    PROVE  HomeInv'
<1>0. /\ owner = Nobody /\ owner' = p /\ p # Nobody /\ state.gen < MaxGen /\ Untouched(t)
      /\ overlap' = (overlap \/ Pending \cup CPending # {})
      /\ step' = first /\ job' = Job(t, plan)
      /\ UNCHANGED <<home, tombstone, recovery, backup, journal, cred, state, session, todo,
                     failures, writes, waived, doubt, bumped>>
  BY ActiveHomeConstants DEF Begin, Lock
<1>1. PlanOK(plan) /\ plan.kind \in {"switch", "remove", "delete"} /\ plan.base \in 1 .. MaxGen - 1
      /\ plan.account \in Account
  BY PlanType
<1>2. Effective(plan) \in Modes
  BY PlanType DEF Effective, Modes
<1>3. /\ job' \in Jobs /\ job' # NoJob /\ job'.tx = t /\ job'.plan = plan /\ job'.mode = Effective(plan)
      /\ job'.route = "commit"
  BY <1>0, <1>2, Layouts, ActiveHomeConstants DEF Job, Jobs, Slot
<1>4. cjournal' \in [Tx -> CredentialJournals \cup {NoJournal}]
  <2>1. [account |-> plan.account, base |-> plan.base] \in CredentialJournals
    BY <1>1 DEF CredentialJournals
  <2> QED  BY <2>1 DEF HomeInv, HomeTypeOK
<1>5. HomeTypeOK'
  <2>1. stage' \in [Tx -> Layout]
    BY SweptType DEF HomeInv, HomeTypeOK
  <2>2. overlap' \in BOOLEAN /\ step' \in {"stage", "delete", "refused"}
    BY <1>0
  <2> QED  BY <1>0, <1>3, <1>4, <2>1, <2>2 DEF HomeInv, HomeTypeOK
<1>6. OfHome'
  BY <1>0, HomeKept DEF HomeInv, OfFiles
<1>7. /\ Pending' = Pending /\ (~overlap' => ~overlap /\ Pending = {} /\ CPending = {})
      /\ \A u \in Tx : u # t => cjournal'[u] = cjournal[u]
  BY <1>0 DEF Pending, HomeInv, HomeTypeOK
<1>8. CPending' \subseteq CPending \cup {t}
  BY <1>7 DEF CPending
<1>9. plan.kind # "switch" => cjournal'[t] = [account |-> plan.account, base |-> plan.base]
  BY DEF HomeInv, HomeTypeOK
<1>10. plan.kind = "switch" => CPending' = CPending
  BY DEF CPending
<1>11. OfCredentials'
  <2>1. DeletionJournals'
    BY <1>0, <1>7, <1>8, <1>9, <1>10 DEF DeletionJournals, CredentialJournalOK
  <2>2. Credentials'
    BY <1>0, <1>7 DEF HomeInv, OfFiles, OfCredentials, Credentials
  <2>3. Single'
    BY <1>7, <1>8 DEF Single
  <2> QED  BY <2>1, <2>2, <2>3 DEF OfCredentials
<1>12. Control'
  BY <1>0, <1>1, <1>3 DEF Control, Forward, Backward
<1>13. Listed' /\ Alone'
  BY <1>0, <1>3, <1>7, <1>8 DEF Listed, Alone
<1>14. Work(t, plan)'
  <2>1. tombstone[t] = Empty /\ backup[t] = Empty /\ stage[t] = Empty
    <3>1. tombstone[t] \in Layout /\ backup[t] \in Layout /\ stage[t] \in Layout
      BY DEF HomeInv, HomeTypeOK
    <3>2. ASSUME NEW s \in Slot
          PROVE  tombstone[t][s] = Absent /\ backup[t][s] = Absent /\ stage[t][s] = Absent
      <4>1. {stage[t][s], tombstone[t][s], recovery[t][s], backup[t][s]} = {Absent}
        BY <1>0 DEF Untouched
      <4> QED  BY <4>1
    <3> QED  BY <3>1, <3>2, Layouts, SameLayout
  <2>2. stage'[t] = Empty
    BY <1>0, <2>1 DEF Untouched, Swept
  <2>3. \A s \in Slot : stage'[t][s] = Absent
    BY <2>2, Layouts
  <2>4. OfSlots(t, plan)'
    BY <1>0, <2>1, <2>3 DEF OfSlots, Same
  <2>5. OfJournals(t, plan)'
    BY <1>0, <1>1, <1>3, <1>7, <1>9, <1>10 DEF OfJournals, Untouched
  <2>6. OfState(plan)'
    BY <1>0, <1>3 DEF OfState, Before, Forward
  <2>7. plan.kind # "delete" => Managed(plan, Effective(plan))
    BY AcceptedManaged
  <2>8. Plain' => BaseRight(plan)
    BY <1>0, <1>7 DEF Plain, Calm, HomeInv, OfFiles, OfHome, Settled, HomeRight, BaseRight
  <2> QED  BY <1>0, <1>3, <2>4, <2>5, <2>6, <2>7, <2>8 DEF Work
<1>15. Working'
  BY <1>3, <1>14 DEF Working
<1> QED  BY <1>5, <1>6, <1>11, <1>12, <1>13, <1>15 DEF HomeInv, OfFiles, OfOwner

\* A switch begins with a plan from the State and the home it read.
LEMMA SwitchInv ==
    ASSUME HomeInv, NEW p \in Proc, NEW t \in Tx, NEW a \in Account, NEW mode \in Modes, Switch(p, t, a, mode)
    PROVE  HomeInv'
<1> DEFINE plan == Plan("switch", a, mode, Owned[a], a)
<1>1. /\ a \in state.accounts /\ Accepts(plan) /\ Begin(p, t, plan, "stage") /\ stage' = Swept
      /\ UNCHANGED cjournal
  BY DEF Switch
<1>2. /\ plan \in Plans /\ plan.kind = "switch" /\ plan.account = a /\ plan.base = state.gen
      /\ plan.before = state.profile /\ plan.after = a /\ plan.baseline = home /\ plan.target = Owned[a]
  BY <1>1, PlanIs, Layouts DEF Begin, HomeInv
<1> HIDE DEF plan
<1>3. PlanOK(plan)
  BY <1>2 DEF PlanOK
<1> QED  BY <1>1, <1>2, <1>3, BeginInv

\* A removal begins as a switch to no account, or as a deletion alone.
LEMMA RemoveInv ==
    ASSUME HomeInv, NEW p \in Proc, NEW t \in Tx, NEW a \in Account, Remove(p, t, a)
    PROVE  HomeInv'
<1> DEFINE plan == Plan("remove", a, "strict", Empty, NoProfile)
           only == Plan("delete", a, "strict", Empty, state.profile)
           current == state.profile = a
<1>0. "strict" \in Modes
  BY DEF Modes
<1>1. /\ a \in state.accounts /\ state.gen < MaxGen
      /\ cjournal' = [cjournal EXCEPT ![t] = [account |-> a, base |-> state.gen]]
      /\ \/ current /\ Accepts(plan) /\ Begin(p, t, plan, "stage") /\ stage' = Swept
         \/ /\ Begin(p, t, only, IF current THEN "refused" ELSE "delete")
            /\ stage' \in {stage, Swept}
  BY DEF Remove, Begin
<1>3. /\ plan \in Plans /\ plan.kind = "remove" /\ plan.account = a /\ plan.base = state.gen
      /\ plan.before = state.profile /\ plan.after = NoProfile /\ plan.baseline = home /\ plan.target = Empty
  BY <1>0, <1>1, PlanIs, Layouts DEF HomeInv
<1>4. state.profile \in Account \cup {NoProfile}
  BY DEF HomeInv, HomeTypeOK
<1>5. /\ only \in Plans /\ only.kind = "delete" /\ only.account = a /\ only.base = state.gen
      /\ only.before = state.profile /\ only.after = state.profile /\ only.baseline = home
  BY <1>0, <1>1, <1>4, PlanIs, Layouts DEF HomeInv
<1> HIDE DEF plan, only
<1>6. CASE current /\ Accepts(plan) /\ Begin(p, t, plan, "stage") /\ stage' = Swept
  <2>1. PlanOK(plan)
    BY <1>3, <1>6 DEF PlanOK
  <2>2. cjournal' = [cjournal EXCEPT ![t] = [account |-> plan.account, base |-> plan.base]]
    BY <1>1, <1>3
  <2> QED  BY <1>1, <1>3, <1>6, <2>1, <2>2, BeginInv
<1>7. CASE /\ Begin(p, t, only, IF current THEN "refused" ELSE "delete")
           /\ stage' \in {stage, Swept}
  <2>1. PlanOK(only)
    BY <1>5 DEF PlanOK
  <2>2. cjournal' = [cjournal EXCEPT ![t] = [account |-> only.account, base |-> only.base]]
    BY <1>1, <1>5
  <2>3. CASE current
    <3>1. Begin(p, t, only, "refused")
      BY <1>7, <2>3
    <3> QED  BY <1>1, <1>5, <1>7, <2>1, <2>2, <3>1, BeginInv
  <2>4. CASE ~current
    <3>1. Begin(p, t, only, "delete") /\ only.account # only.before
      BY <1>5, <1>7, <2>4
    <3> QED  BY <1>1, <1>5, <1>7, <2>1, <2>2, <3>1, BeginInv
  <2> QED  BY <2>3, <2>4
<1> QED  BY <1>1, <1>6, <1>7

---------------------------------------------------------------------------
(* Recovery decides, and agy writes.                                       *)

\* A deletion is decided by what State says of the account.
LEMMA DecideCredentialInv ==
    ASSUME HomeInv, NEW p \in Proc, NEW t \in Tx, DecideCredential(p, t) PROVE HomeInv'
<1> DEFINE a == cjournal[t].account
<1>0. /\ owner = p /\ step = "credentials" /\ t \in todo /\ todo' = todo \ {t}
      /\ cred' = [cred EXCEPT ![a] = CredentialDecision(t)]
      /\ cjournal' = [cjournal EXCEPT ![t] = NoJournal]
      /\ UNCHANGED <<home, evidence, journal, state, session, owner, step, job, history>>
      /\ CredentialDecision(t) # "stuck"
  BY DEF DecideCredential, At
<1>1. t \in CPending /\ a \in Account /\ job = NoJob
  <2>1. t \in CPending /\ job = NoJob
    BY <1>0 DEF HomeInv, OfOwner, Listed, Control
  <2> QED  BY <2>1, CredentialJournalType DEF HomeInv
<1>2. /\ CredentialDecision(t) \in {"live", "gone"}
      /\ (a \in state.accounts) = (CredentialDecision(t) = "live")
  BY <1>0 DEF CredentialDecision
<1> DEFINE verdict == CredentialDecision(t)
<1> HIDE DEF a, verdict
<1>3. /\ cred' \in [Account -> {"live", "gone"} \cup Tx] /\ cred'[a] = verdict
      /\ \A b \in Account : b # a => cred'[b] = cred[b]
      /\ cjournal' \in [Tx -> CredentialJournals \cup {NoJournal}]
      /\ \A u \in Tx : u # t => cjournal'[u] = cjournal[u]
      /\ CPending' = CPending \ {t} /\ Pending' = Pending
  BY <1>0, <1>1, <1>2 DEF a, verdict, HomeInv, HomeTypeOK, CPending, Pending
<1>4. HomeTypeOK'
  BY <1>0, <1>3 DEF HomeInv, HomeTypeOK, evidence, history
<1>5. OfHome'
  BY <1>0, HomeKept DEF HomeInv, OfFiles, evidence, history
<1>6. OfCredentials'
  <2>1. ~overlap' => CPending' = {}
    BY <1>0, <1>1, <1>3 DEF HomeInv, OfFiles, OfCredentials, Single, history
  <2>2. DeletionJournals' /\ Single'
    BY <1>0, <1>3, <2>1 DEF DeletionJournals, Single, HomeInv, OfFiles, OfCredentials, history
  <2>3. ASSUME ~doubt', ~overlap', NEW b \in Account
        PROVE  \/ (b \in state'.accounts) = (cred'[b] = "live")
               \/ \E u \in CPending' : cjournal'[u].account = b
    <3>1. CASE b = a
      BY <1>0, <1>2, <1>3, <3>1 DEF a, verdict
    <3>2. CASE b # a
      <4>1. \/ (b \in state.accounts) = (cred[b] = "live")
            \/ \E u \in CPending : u # t /\ cjournal[u].account = b
        BY <1>0, <2>3, <3>2 DEF a, HomeInv, OfFiles, OfCredentials, Credentials, history
      <4> QED  BY <1>0, <1>3, <3>2, <4>1 DEF CPending
    <3> QED  BY <3>1, <3>2
  <2>4. Credentials'
    BY <2>3 DEF Credentials
  <2> QED  BY <2>2, <2>4 DEF OfCredentials
<1>7. OfOwner'
  <2>1. todo' \subseteq CPending'
    BY <1>0, <1>3 DEF HomeInv, OfOwner, Listed
  <2> QED  BY <1>0, <1>1, <2>1, OwnerQuiet DEF HomeInv, OfOwner, Control
<1> QED  BY <1>4, <1>5, <1>6, <1>7 DEF HomeInv, OfFiles

\* What a decision rests on.
LEMMA DecisionIs ==
    ASSUME HomeTypeOK, NEW t \in Pending
    PROVE  LET plan == journal[t].plan
           IN  /\ Decision(t).to \in {"check", "finalize", "stuck"} /\ Decision(t).mode \in Modes
               /\ Decision(t).to = "check" =>
                    ~Sealed(t) \/ (state.gen = plan.base /\ state.profile = plan.before)
               /\ Decision(t).to = "finalize" =>
                    /\ Sealed(t) /\ state.gen = plan.base + 1 /\ state.profile = plan.after
                    /\ Decision(t).mode = plan.mode
<1> DEFINE plan == journal[t].plan
           clear == \A s \in Slot : Explained(plan, t, s)
           before == [revision |-> plan.base, profile |-> plan.before]
           after == [revision |-> plan.base + 1, profile |-> plan.after]
<1>1. plan.mode \in Modes
  BY JournalType, PlanType
<1>2. CASE ~Sealed(t)
  <2>1. Decision(t) = [to |-> "check", mode |-> "strict"]
    BY <1>2 DEF Decision, Sealed
  <2> QED  BY <1>2, <2>1 DEF Modes
<1>3. CASE Sealed(t) /\ clear /\ Authority = after
  <2>1. Decision(t) = [to |-> "finalize", mode |-> plan.mode]
    <3>1. Decision(t) =
            CASE ~Sealed(t) -> [to |-> "check", mode |-> "strict"]
              [] Sealed(t) /\ clear /\ Authority = after -> [to |-> "finalize", mode |-> plan.mode]
              [] Sealed(t) /\ clear /\ Authority = before ->
                    [to |-> "check", mode |-> IF plan.baseline = plan.target THEN "adopt" ELSE "takeover"]
              [] OTHER -> [to |-> "stuck", mode |-> "strict"]
      BY DEF Decision, Sealed
    <3>2. after # before
      <4>1. plan.base # plan.base + 1
        BY JournalType, PlanType
      <4> QED  BY <4>1
    <3> HIDE DEF clear, after, before, plan
    <3> QED  BY <1>3, <3>1, <3>2
  <2>2. state.gen = plan.base + 1 /\ state.profile = plan.after
    BY <1>3 DEF Authority
  <2> QED  BY <1>1, <1>3, <2>1, <2>2
<1>4. CASE Sealed(t) /\ clear /\ Authority # after /\ Authority = before
  <2>1. /\ Decision(t).to = "check" /\ Decision(t).mode \in {"adopt", "takeover"}
    BY <1>4 DEF Decision, Sealed
  <2>2. state.gen = plan.base /\ state.profile = plan.before
    BY <1>4 DEF Authority
  <2> QED  BY <2>1, <2>2 DEF Modes
<1>5. CASE Sealed(t) /\ ~(clear /\ Authority = after) /\ ~(clear /\ Authority = before)
  <2>1. Decision(t) = [to |-> "stuck", mode |-> "strict"]
    BY <1>5 DEF Decision, Sealed
  <2> QED  BY <2>1 DEF Modes
<1> QED  BY <1>2, <1>3, <1>4, <1>5

\* A plan whose mode is rewritten as it is stays the plan it is.
LEMMA SamePlan == ASSUME NEW plan \in Plans PROVE [plan EXCEPT !.mode = plan.mode] = plan
BY DEF Plans

\* A journal is taken: State decides which way.
LEMMA TakeJournalInv ==
    ASSUME HomeInv, NEW p \in Proc, NEW t \in Tx, TakeJournal(p, t) PROVE HomeInv'
<1>0. /\ owner = p /\ step = "journals" /\ t \in todo /\ Decision(t).to # "stuck"
      /\ step' = Decision(t).to /\ job' = Journalled(t) /\ stage' = Swept
      /\ UNCHANGED <<home, tombstone, recovery, backup, journal, credentials, state, session, owner,
                     todo, history>>
  BY DEF TakeJournal, At
<1>1. t \in Pending /\ p # Nobody /\ todo \subseteq Pending
  BY <1>0, ActiveHomeConstants DEF HomeInv, OfOwner, Listed
<1>2. PICK plan \in Plans : plan = journal[t].plan
  BY <1>1, JournalType DEF HomeInv
<1>3. /\ step' \in {"check", "finalize"} /\ Decision(t).mode \in Modes
      /\ step' = "check" => ~Sealed(t) \/ (state.gen = plan.base /\ state.profile = plan.before)
      /\ step' = "finalize" => /\ Sealed(t) /\ state.gen = plan.base + 1 /\ state.profile = plan.after
                               /\ Decision(t).mode = plan.mode
  BY <1>0, <1>1, <1>2, DecisionIs DEF HomeInv
<1>4. /\ job' \in Jobs /\ job' # NoJob /\ job'.tx = t /\ job'.plan = plan
      /\ job'.mode = Decision(t).mode /\ job'.route = "recover"
  <2>1. Effective(plan) \in Modes
    BY PlanType DEF Effective, Modes
  <2>2. Job(t, plan) \in Jobs /\ Job(t, plan).tx = t /\ Job(t, plan).plan = plan
    BY <2>1, Layouts DEF Job, Jobs, Slot
  <2>3. job' = [Job(t, plan) EXCEPT !.route = "recover", !.mode = Decision(t).mode]
    BY <1>0, <1>2 DEF Journalled
  <2>5. PICK j \in Jobs : j = Job(t, plan)
    BY <2>2
  <2>6. PICK m \in Modes : m = Decision(t).mode
    BY <1>3
  <2>7. job' = [j EXCEPT !.route = "recover", !.mode = m]
    BY <2>3, <2>5, <2>6
  <2>8. job' \in Jobs /\ job'.tx = j.tx /\ job'.plan = j.plan /\ job'.mode = m /\ job'.route = "recover"
    BY <2>7 DEF Jobs
  <2> QED  BY <2>2, <2>5, <2>6, <2>8, ActiveHomeConstants
<1>5. HomeTypeOK'
  BY <1>0, <1>3, <1>4, SweptType DEF HomeInv, HomeTypeOK, credentials, history
<1>6. OfFiles'
  BY <1>0, FilesKept DEF HomeInv, credentials, history
<1>7. JournalOK(t, plan)
  BY <1>1, <1>2 DEF HomeInv, OfFiles, OfHome, HomeJournals
<1>8. Pending' = Pending /\ CPending' = CPending
  BY <1>0 DEF Pending, CPending, credentials
<1>9. Control' /\ Listed' /\ Alone'
  BY <1>0, <1>1, <1>3, <1>4, <1>7, <1>8 DEF Control, Forward, Backward, Listed, Alone, JournalOK,
       HomeInv, OfFiles, OfCredentials, Single, history
<1>10. Work(t, plan)'
  <2>1. OfState(plan)'
    BY <1>0, <1>3, <1>4, <1>7 DEF OfState, JournalOK, Backward, history
  <2>2. OfJournals(t, plan)'
    <3>1. journal'[t].plan = [plan EXCEPT !.mode = journal'[t].plan.mode]
      BY <1>0, <1>2, SamePlan
    <3>2. plan.kind # "delete"
      BY <1>7 DEF JournalOK
    <3> QED  BY <1>0, <1>1, <1>3, <1>4, <1>8, <3>1, <3>2 DEF OfJournals, Sealed
  <2>3. OfSlots(t, plan)'
    <3>1. (step' = "check" /\ Calm) => \A s \in Slot : Whole(t, plan, s)
      <4>1. plan.base \in Nat /\ state.gen \in Nat
        BY PlanType DEF HomeInv, HomeTypeOK
      <4> QED  BY <1>3, <1>7, <4>1 DEF JournalOK
    <3>2. (step' = "check" /\ Calm') => \A s \in Slot : Whole(t, plan, s)'
      BY <1>0, <3>1 DEF Calm, Whole, history
    <3> QED  BY <1>3, <3>2 DEF OfSlots
  <2>4. (Plain' => BaseRight(plan)) /\ (step' = "finalize" => Managed(plan, job'.mode))
    BY <1>0, <1>3, <1>4, <1>7 DEF JournalOK, Plain, Calm, history
  <2> QED  BY <1>3, <1>4, <1>7, <2>1, <2>2, <2>3, <2>4 DEF Work, JournalOK
<1>11. Working'
  BY <1>4, <1>10 DEF Working
<1> QED  BY <1>5, <1>6, <1>9, <1>11 DEF HomeInv, OfOwner

\* No step loses what sagy did not write, unless agy had its hands on it.
Keeps == \A c \in Wild : Kept(c) => Kept(c)' \/ c \in waived'

\* A copy keeps its original through a step that loses nothing.
LEMMA CopiesKept ==
    ASSUME Copies, Keeps, waived \subseteq waived',
           \A t \in Tx, s \in Slot : recovery'[t][s] \in {recovery[t][s], Absent}
    PROVE  Copies'
<1> SUFFICES ASSUME NEW t \in Tx, NEW s \in Slot, recovery'[t][s] \in Wild \ waived'
             PROVE  Kept(recovery[t][s])'
  BY WildContent DEF Copies
<1>1. recovery'[t][s] = recovery[t][s]
  BY WildContent
<1>2. PICK c : c = recovery[t][s]
  OBVIOUS
<1>3. Kept(c) /\ c \in Wild
  BY <1>1, <1>2 DEF Copies
<1>4. Kept(c)'
  BY <1>1, <1>2, <1>3 DEF Keeps
<1> QED  BY <1>1, <1>2, <1>4

\* What agy writes: it had its hands on what was there, and on what it wrote
\* while a command was at work.
LEMMA ForeignWriteInv ==
    ASSUME HomeInv, NEW s \in Slot, NEW c \in Foreign[s] \cup {Absent}, ForeignWrite(s, c)
    PROVE  HomeInv' /\ Keeps
<1>0. /\ failures + writes < MaxFaults /\ home' = [home EXCEPT ![s] = c] /\ writes' = writes + 1
      /\ waived' = waived \cup {home[s]} \cup (IF owner = Nobody THEN {} ELSE {c})
      /\ UNCHANGED <<evidence, journal, credentials, state, control, failures, doubt, bumped, overlap>>
  BY DEF ForeignWrite
<1>1. /\ home' \in Layout /\ home'[s] = c /\ \A u \in Slot : u # s => home'[u] = home[u]
      /\ c \in Content /\ home[s] \in Content
  BY <1>0, SlotWritten, WildContent DEF HomeInv, HomeTypeOK, Layout
<1>2. writes' \in Nat /\ writes' # 0 /\ failures' + writes' <= MaxFaults
  BY <1>0, ActiveHomeConstants DEF HomeInv, HomeTypeOK
<1>3. ~Calm' /\ ~Plain' /\ waived \subseteq waived' /\ home[s] \in waived'
  BY <1>0, <1>2 DEF Calm, Plain
<1>4. HomeTypeOK'
  BY <1>0, <1>1, <1>2 DEF HomeInv, HomeTypeOK, evidence, credentials, control
<1>5. \A u \in Slot, x \in Content : Same(home[u], x) /\ owner # Nobody => Same(home[u], x)'
  BY <1>0, <1>1, <1>3 DEF Same
<1>6. \A x, y \in Content : Same(x, y) => Same(x, y)'
  BY <1>3 DEF Same
<1>7. Pending' = Pending /\ CPending' = CPending
  BY <1>0 DEF Pending, CPending, credentials
<1>8. Keeps
  BY <1>0, <1>1, <1>3 DEF Keeps, Kept, evidence
<1>9. OfHome'
  <2>1. ASSUME NEW t \in Pending PROVE JournalOK(t, journal[t].plan)'
    <3>1. JournalOK(t, journal[t].plan)
      BY DEF HomeInv, OfFiles, OfHome, HomeJournals
    <3> QED  BY <1>0, <1>3, <3>1 DEF JournalOK, Sealed, Same, evidence
  <2>2. HomeJournals'
    BY <1>7, <2>1 DEF HomeJournals
  <2>3. Copies'
    BY <1>0, <1>3, <1>8, CopiesKept DEF HomeInv, OfFiles, OfHome, evidence
  <2> QED  BY <1>0, <1>2, <1>3, <2>2, <2>3 DEF HomeInv, OfFiles, OfHome, Current, Settled, Untouching
<1>10. OfCredentials'
  BY <1>0, <1>7, CredentialsKept DEF HomeInv, OfFiles, credentials
<1>11. Control' /\ Listed' /\ Alone'
  BY <1>0, <1>7 DEF HomeInv, OfOwner, Control, Listed, Alone, control
<1>12. ASSUME NEW t \in Tx, NEW plan \in Plans, job.tx = t, job.plan = plan, job # NoJob, Work(t, plan)
       PROVE  Work(t, plan)'
  <2>1. owner # Nobody /\ job \in Jobs
    BY <1>12, JobType DEF HomeInv, OfOwner, Control
  <2>2. OfState(plan)' /\ OfJournals(t, plan)'
    BY <1>0, <1>7, <1>12 DEF Work, OfState, OfJournals, Before, After, Sealed, control, credentials
  <2>3. OfSlots(t, plan)'
    <3>1. \A u \in Slot : plan.baseline[u] \in Content /\ plan.target[u] \in Content /\ job.seen[u] \in Content
      BY <1>12, PlanType, JobType DEF HomeInv, Layout
    <3>2. job' = job /\ step' = step /\ tombstone' = tombstone /\ backup' = backup /\ stage' = stage /\ owner' = owner
      BY <1>0 DEF control, evidence
    <3>3. job.slot \in Slot /\ "document" \in Slot
      BY <1>12, JobType, Slots DEF HomeInv
    <3>4. \A u \in Slot : Same(home[u], plan.baseline[u]) => Same(home[u], plan.baseline[u])'
      BY <1>5, <2>1, <3>1
    <3>5. \A u \in Slot : Same(home[u], plan.target[u]) => Same(home[u], plan.target[u])'
      BY <1>5, <2>1, <3>1
    <3>6. \A u \in Slot : Same(home[u], job.seen[u]) => Same(home[u], job.seen[u])'
      BY <1>5, <2>1, <3>1, <3>2 DEF Same
    <3>7. OfSlots(t, plan)
      BY <1>12 DEF Work
    <3> QED  BY <1>3, <3>2, <3>3, <3>4, <3>5, <3>6, <3>7 DEF OfSlots
  <2>4. PlanOK(plan) /\ (plan.kind # "delete" /\ (job.route = "commit" \/ step \in {"finalize", "clean"}) => Managed(plan, job.mode))
    BY <1>12 DEF Work
  <2> QED  BY <1>0, <1>3, <2>2, <2>3, <2>4 DEF Work, control
<1>13. Working'
  BY <1>0, <1>12 DEF HomeInv, OfOwner, Working, control
<1> QED  BY <1>4, <1>8, <1>9, <1>10, <1>11, <1>13 DEF HomeInv, OfFiles, OfOwner

---------------------------------------------------------------------------
(* Preparing and publishing.                                               *)

\* Steps that change neither State nor who holds the lock.
LEMMA StageWritten ==
    ASSUME HomeInv, NEW t \in Tx, NEW s \in Slot, NEW c \in Content, job.tx = t, job # NoJob,
           stage' = [stage EXCEPT ![t][s] = c],
           step \in {"stage", "clean"}, step = "stage" => c = job.plan.target[s],
           UNCHANGED <<home, tombstone, recovery, backup, journal, credentials, state, control, history>>
    PROVE  HomeInv'
<1>1. stage' \in [Tx -> Layout] /\ stage'[t][s] = c /\ \A u \in Slot : u # s => stage'[t][u] = stage[t][u]
  <2>1. stage \in [Tx -> Layout]
    BY DEF HomeInv, HomeTypeOK
  <2>2. stage' \in [Tx -> Layout]
    BY <2>1, FileWritten
  <2>3. stage'[t][s] = c
    BY <2>1 DEF Layout
  <2>4. \A v \in Tx, u \in Slot : v # t \/ u # s => stage'[v][u] = stage[v][u]
    BY <2>1, FileWritten
  <2> QED  BY <2>2, <2>3, <2>4
<1>2. HomeTypeOK'
  BY <1>1 DEF HomeInv, HomeTypeOK, credentials, control, history
<1>3. OfFiles'
  BY FilesKept DEF HomeInv, credentials, history
<1>4. Pending' = Pending /\ CPending' = CPending
  BY DEF Pending, CPending, credentials
<1>5. Control' /\ Listed' /\ Alone'
  BY <1>4 DEF HomeInv, OfOwner, Control, Listed, Alone, control, history
<1>6. PICK plan \in Plans : job.plan = plan /\ Work(t, plan)
  BY JobIs
<1>7. Work(t, plan)'
  <2>1. OfState(plan)' /\ OfJournals(t, plan)'
    BY <1>4, <1>6 DEF Work, OfState, OfJournals, Before, After, Sealed, control, credentials, history
  <2>2. OfSlots(t, plan)'
    BY <1>1, <1>6 DEF Work, OfSlots, Same, control, history
  <2> QED  BY <1>6, <2>1, <2>2 DEF Work, Plain, Calm, control, history
<1>8. Working'
  BY <1>6, <1>7 DEF Working, control
<1> QED  BY <1>2, <1>3, <1>5, <1>8 DEF HomeInv, OfOwner

\* Stages are written before the journal, and cleaned after it is decided.
LEMMA WriteStageInv ==
    ASSUME HomeInv, NEW p \in Proc, NEW s \in Slot, WriteStage(p, s) PROVE HomeInv'
<1>1. step = "stage" /\ job # NoJob
  BY DEF WriteStage, At, HomeInv, OfOwner, Control
<1>2. job.tx \in Tx /\ job.plan.target[s] \in Content
  BY <1>1, JobType, PlanType DEF HomeInv
<1>3. PICK t \in Tx : t = job.tx
  BY <1>2
<1>4. PICK c \in Content : c = job.plan.target[s]
  BY <1>2
<1>5. /\ stage' = [stage EXCEPT ![t][s] = c]
      /\ UNCHANGED <<home, tombstone, recovery, backup, journal, credentials, state, control, history>>
  BY <1>3, <1>4 DEF WriteStage
<1> QED  BY <1>1, <1>3, <1>4, <1>5, StageWritten
LEMMA CleanStageInv == ASSUME HomeInv, NEW p \in Proc, CleanStage(p) PROVE HomeInv'
<1>1. step = "clean" /\ job # NoJob
  BY DEF CleanStage, At, HomeInv, OfOwner, Control
<1>2. PICK t \in Tx, s \in Slot : t = job.tx /\ s = job.slot
  BY <1>1, JobType DEF HomeInv
<1>3. /\ stage' = [stage EXCEPT ![t][s] = Absent]
      /\ UNCHANGED <<home, tombstone, recovery, backup, journal, credentials, state, control, history>>
  BY <1>2 DEF CleanStage
<1> QED  BY <1>1, <1>2, <1>3, StageWritten, WildContent

\* A phase is written down: the journal of the transaction says its plan.
LEMMA PhaseWritten ==
    ASSUME HomeInv, NEW t \in Tx, NEW plan \in Plans, job.tx = t, job.plan = plan, job # NoJob,
           NEW phase \in {"prepared", "publishing", "published"}, SetPhase(phase),
           step \in Forward, plan.kind # "delete", Calm => \A s \in Slot : Whole(t, plan, s),
           \A s \in Slot : tombstone[t][s] # Absent =>
                Same(tombstone[t][s], plan.baseline[s]) /\ backup[t][s] = Absent,
           UNCHANGED <<home, evidence, credentials, state, job, history>>
    PROVE  /\ journal' \in [Tx -> Journals \cup {NoJournal}]
           /\ Pending' = Pending \cup {t} /\ CPending' = CPending /\ OfFiles'
           /\ journal'[t].plan = [plan EXCEPT !.mode = journal'[t].plan.mode]
           /\ journal'[t].phase = phase
<1>0. Work(t, plan) /\ job.route = "commit"
  BY JobIs DEF HomeInv, OfOwner, Working, Control
<1>1. PICK told \in Plans : told = [plan EXCEPT !.mode = job.mode]
  BY JobType, PlanType DEF HomeInv
<1>2. /\ told.kind = plan.kind /\ told.account = plan.account /\ told.mode = job.mode /\ told.base = plan.base
      /\ told.before = plan.before /\ told.after = plan.after /\ told.baseline = plan.baseline
      /\ told.target = plan.target
  BY <1>1 DEF Plans
<1>3. PICK entry \in Journals : entry = [plan |-> told, phase |-> phase]
  BY DEF Journals
<1>4. entry.plan = told /\ entry.phase = phase /\ entry # NoJournal
  BY <1>3, ActiveHomeConstants
<1>5. journal' = [journal EXCEPT ![t] = entry]
  BY <1>1, <1>3 DEF SetPhase
<1>6. /\ journal' \in [Tx -> Journals \cup {NoJournal}] /\ journal'[t] = entry
      /\ \A u \in Tx : u # t => journal'[u] = journal[u]
  BY <1>5 DEF HomeInv, HomeTypeOK
<1>7. Pending' = Pending \cup {t} /\ CPending' = CPending
  BY <1>4, <1>6 DEF Pending, CPending, credentials
<1>8. entry.plan = [plan EXCEPT !.mode = entry.plan.mode]
  BY <1>1, <1>2, <1>4
<1>9. JournalOK(t, told)'
  <2>1. PlanOK(told) /\ told.kind # "delete" /\ Managed(told, told.mode)
    BY <1>0, <1>2 DEF Work, PlanOK, Managed
  <2>2. state'.gen = told.base /\ state'.profile = told.before
    BY <1>0, <1>2 DEF Work, OfState, Before
  <2>3. Calm' => \A s \in Slot : Whole(t, told, s)'
    BY <1>2 DEF Calm, Whole, evidence, history
  <2>4. Plain' => BaseRight(told)
    BY <1>0, <1>2 DEF Work, BaseRight, Plain, Calm, history
  <2>5. \A s \in Slot : tombstone'[t][s] # Absent =>
            Same(tombstone[t][s], told.baseline[s])' /\ backup'[t][s] = Absent
    BY <1>2 DEF Same, evidence, history
  <2> QED  BY <2>1, <2>2, <2>3, <2>4, <2>5 DEF JournalOK
<1>10. ASSUME NEW u \in Pending, u # t PROVE JournalOK(u, journal[u].plan)'
  <2>1. JournalOK(u, journal[u].plan) /\ journal'[u] = journal[u]
    BY <1>6, <1>10 DEF HomeInv, OfFiles, OfHome, HomeJournals, Pending
  <2> QED  BY <2>1 DEF JournalOK, Sealed, Whole, Same, Plain, Calm, evidence, history
<1>11. HomeJournals'
  BY <1>4, <1>6, <1>7, <1>9, <1>10 DEF HomeJournals
<1>12. OfHome'
  <2>1. Copies'
    BY DEF HomeInv, OfFiles, OfHome, Copies, Kept, evidence, history
  <2> QED  BY <1>7, <1>11, <2>1 DEF HomeInv, OfFiles, OfHome, Current, Settled, Untouching, history
<1>13. OfCredentials'
  <2>1. Single'
    BY <1>0, <1>7 DEF HomeInv, OfOwner, Alone, OfFiles, OfCredentials, Single, history
  <2> QED  BY <1>7, <2>1 DEF HomeInv, OfFiles, OfCredentials, DeletionJournals, CredentialJournalOK,
            Credentials, credentials, history
<1> QED  BY <1>4, <1>6, <1>7, <1>8, <1>12, <1>13 DEF OfFiles

\* The journal is written `prepared` once every stage is.
LEMMA WriteJournalInv == ASSUME HomeInv, NEW p \in Proc, WriteJournal(p) PROVE HomeInv'
<1>0. /\ step = "stage" /\ SetPhase("prepared") /\ step \in Forward /\ job # NoJob /\ job.plan.kind # "delete"
      /\ step' = IF job.plan.kind = "remove" THEN "delete" ELSE "publish"
      /\ UNCHANGED <<home, evidence, credentials, state, session, owner, job, todo, history>>
  BY DEF WriteJournal, At, HomeInv, OfOwner, Control, Forward
<1>1. PICK t \in Tx, plan \in Plans : job.tx = t /\ job.plan = plan /\ Work(t, plan)
  BY <1>0, JobIs
<1>2. tombstone[t] = Empty /\ \A s \in Slot : Same(home[s], plan.baseline[s])
  BY <1>0, <1>1 DEF Work, OfSlots
<1>3. \A s \in Slot : tombstone[t][s] = Absent
  BY <1>2, Layouts
<1>4. Calm => \A s \in Slot : Whole(t, plan, s)
  BY <1>2, <1>3 DEF Whole, Same, Calm, HomeInv, OfFiles, OfHome, Untouching
<1>5. /\ journal' \in [Tx -> Journals \cup {NoJournal}]
      /\ Pending' = Pending \cup {t} /\ CPending' = CPending /\ OfFiles'
      /\ journal'[t].plan = [plan EXCEPT !.mode = journal'[t].plan.mode]
  BY <1>0, <1>1, <1>3, <1>4, PhaseWritten
<1>6. HomeTypeOK'
  BY <1>0, <1>5 DEF HomeInv, HomeTypeOK, evidence, credentials, history
<1>7. plan.kind \in {"switch", "remove"} /\ job.route = "commit" /\ step' \in {"delete", "publish"}
      /\ (step' = "publish" => plan.kind = "switch") /\ (step' = "delete" => plan.kind = "remove")
  BY <1>0, <1>1, PlanType DEF HomeInv, OfOwner, Control
<1>8. Control' /\ Listed' /\ Alone'
  BY <1>0, <1>1, <1>5, <1>7 DEF HomeInv, OfOwner, Control, Listed, Alone, Forward, Backward, history
<1>9. Work(t, plan)'
  <2>1. OfState(plan)'
    BY <1>0, <1>1, <1>7 DEF Work, OfState, Before, Forward
  <2>2. OfJournals(t, plan)'
    BY <1>0, <1>1, <1>5, <1>7 DEF Work, OfJournals, credentials
  <2>3. OfSlots(t, plan)'
    BY <1>0, <1>1, <1>7 DEF Work, OfSlots, Same, evidence, history
  <2> QED  BY <1>0, <1>1, <1>7, <2>1, <2>2, <2>3 DEF Work, Plain, Calm, history
<1>10. Working'
  BY <1>0, <1>1, <1>9 DEF Working
<1> QED  BY <1>5, <1>6, <1>8, <1>10 DEF HomeInv, OfOwner

\* The account's files are moved aside, and its journal tells by which id.
LEMMA MoveCredentialInv == ASSUME HomeInv, NEW p \in Proc, MoveCredential(p) PROVE HomeInv'
<1>0. /\ step = "delete" /\ job # NoJob /\ job.plan.kind # "switch" /\ job.route = "commit"
      /\ cred' = [cred EXCEPT ![job.plan.account] = job.tx]
      /\ step' = IF job.plan.kind = "remove" THEN "publish" ELSE "commit"
      /\ UNCHANGED <<home, evidence, journal, cjournal, state, session, owner, job, todo, history>>
  BY DEF MoveCredential, At, HomeInv, OfOwner, Control, Forward
<1>1. PICK t \in Tx, plan \in Plans : job.tx = t /\ job.plan = plan /\ Work(t, plan)
  BY <1>0, JobIs
<1>2. plan.account \in Account /\ plan.kind \in {"remove", "delete"} /\ t \notin {"live", "gone"}
  BY <1>0, <1>1, PlanType, ActiveHomeConstants
<1>3. /\ cred' \in [Account -> {"live", "gone"} \cup Tx] /\ cred'[plan.account] = t
      /\ \A a \in Account : a # plan.account => cred'[a] = cred[a]
  BY <1>0, <1>1, <1>2 DEF HomeInv, HomeTypeOK
<1>4. Pending' = Pending /\ CPending' = CPending
  BY <1>0 DEF Pending, CPending
<1>5. HomeTypeOK'
  BY <1>0, <1>3 DEF HomeInv, HomeTypeOK, evidence, history
<1>6. OfHome'
  BY <1>0, HomeKept DEF HomeInv, OfFiles, evidence, history
<1>7. cjournal[t] = [account |-> plan.account, base |-> plan.base] /\ t \in CPending
  <2>1. cjournal[t] = [account |-> plan.account, base |-> plan.base]
    BY <1>0, <1>1 DEF Work, OfJournals
  <2>2. cjournal[t] \in CredentialJournals
    BY <1>2, <2>1, PlanType DEF CredentialJournals
  <2> QED  BY <2>1, <2>2, ActiveHomeConstants DEF CPending
<1>8. OfCredentials'
  <2>1. ASSUME NEW u \in CPending, CredentialJournalOK(cjournal[u].account, cjournal[u].base)
        PROVE  CredentialJournalOK(cjournal[u].account, cjournal[u].base)'
    BY <1>0, <1>2, <1>3, <2>1, CredentialJournalType DEF CredentialJournalOK, HomeInv
  <2>2. DeletionJournals'
    BY <1>0, <1>4, <2>1 DEF DeletionJournals, HomeInv, OfFiles, OfCredentials, history
  <2>3. Credentials'
    BY <1>0, <1>3, <1>4, <1>7 DEF Credentials, HomeInv, OfFiles, OfCredentials, history
  <2> QED  BY <1>0, <1>4, <2>2, <2>3 DEF Single, HomeInv, OfFiles, OfCredentials, history
<1>9. Control' /\ Listed' /\ Alone'
  BY <1>0, <1>1, <1>2, <1>4 DEF HomeInv, OfOwner, Control, Listed, Alone, Forward, Backward, history
<1>10. Work(t, plan)'
  <2>1. OfState(plan)'
    BY <1>0, <1>1 DEF Work, OfState, Before, Forward
  <2>2. OfJournals(t, plan)'
    BY <1>0, <1>1, <1>2, <1>3, <1>4 DEF Work, OfJournals
  <2>3. OfSlots(t, plan)'
    BY <1>0, <1>1 DEF Work, OfSlots, Same, evidence, history
  <2> QED  BY <1>0, <1>1, <2>1, <2>2, <2>3 DEF Work, Plain, Calm, history
<1>11. Working'
  BY <1>0, <1>1, <1>10 DEF Working
<1> QED  BY <1>5, <1>6, <1>8, <1>9, <1>11 DEF HomeInv, OfFiles, OfOwner

\* The home is what it was: it may be published to, or adopted as it is.
LEMMA PublishInv == ASSUME HomeInv, NEW p \in Proc, Publish(p) PROVE HomeInv'
<1>0. /\ step = "publish" /\ step \in Forward /\ job # NoJob /\ job.plan.kind # "delete" /\ job.route = "commit"
      /\ UNCHANGED <<home, evidence, credentials, state, session, owner, job, todo, history>>
      /\ \/ step' = "seal" /\ UNCHANGED journal
         \/ step' = "aside" /\ SetPhase("publishing")
  <2>1. /\ step = "publish"
        /\ UNCHANGED <<home, evidence, credentials, state, session, owner, job, todo, history>>
        /\ \/ step' = "seal" /\ UNCHANGED journal
           \/ step' = "aside" /\ SetPhase("publishing")
    BY DEF Publish, At
  <2> QED  BY <2>1 DEF HomeInv, OfOwner, Control, Forward
<1>1. PICK t \in Tx, plan \in Plans : job.tx = t /\ job.plan = plan /\ Work(t, plan)
  BY <1>0, JobIs
<1>2. tombstone[t] = Empty /\ \A s \in Slot : Same(home[s], plan.baseline[s])
  BY <1>0, <1>1 DEF Work, OfSlots
<1>3. \A s \in Slot : tombstone[t][s] = Absent
  BY <1>2, Layouts
<1>4. Calm => \A s \in Slot : Whole(t, plan, s)
  BY <1>2, <1>3 DEF Whole, Same, Calm, HomeInv, OfFiles, OfHome, Untouching
<1>5. t \in Pending /\ journal[t].plan = [plan EXCEPT !.mode = journal[t].plan.mode]
  BY <1>0, <1>1 DEF Work, OfJournals
<1>6. /\ journal' \in [Tx -> Journals \cup {NoJournal}]
      /\ Pending' = Pending /\ CPending' = CPending /\ OfFiles'
      /\ journal'[t].plan = [plan EXCEPT !.mode = journal'[t].plan.mode]
  <2>1. CASE UNCHANGED journal
    <3>1. OfFiles'
      BY <1>0, <2>1, FilesKept DEF HomeInv, evidence, credentials, history
    <3> QED  BY <1>0, <1>5, <2>1, <3>1 DEF Pending, CPending, HomeInv, HomeTypeOK, credentials
  <2>2. CASE SetPhase("publishing")
    <3>1. "publishing" \in {"prepared", "publishing", "published"}
      OBVIOUS
    <3>2. /\ journal' \in [Tx -> Journals \cup {NoJournal}]
          /\ Pending' = Pending \cup {t} /\ CPending' = CPending /\ OfFiles'
          /\ journal'[t].plan = [plan EXCEPT !.mode = journal'[t].plan.mode]
      BY <1>0, <1>1, <1>3, <1>4, <2>2, <3>1, PhaseWritten
    <3> QED  BY <1>5, <3>2
  <2> QED  BY <1>0, <2>1, <2>2
<1>7. HomeTypeOK'
  BY <1>0, <1>6 DEF HomeInv, HomeTypeOK, evidence, credentials, history
<1>8. Control' /\ Listed' /\ Alone'
  BY <1>0, <1>1, <1>6 DEF HomeInv, OfOwner, Control, Listed, Alone, Forward, Backward, history
<1>9. Work(t, plan)'
  <2>1. OfState(plan)'
    BY <1>0, <1>1 DEF Work, OfState, Before, Forward
  <2>2. OfJournals(t, plan)'
    BY <1>0, <1>1, <1>5, <1>6 DEF Work, OfJournals, credentials
  <2>3. OfSlots(t, plan)'
    BY <1>0, <1>1, <1>2, <1>3 DEF Work, OfSlots, Same, evidence, history
  <2> QED  BY <1>0, <1>1, <2>1, <2>2, <2>3 DEF Work, Plain, Calm, history
<1>10. Working'
  BY <1>0, <1>1, <1>9 DEF Working
<1> QED  BY <1>6, <1>7, <1>8, <1>10 DEF HomeInv, OfOwner

\* The home is published, and the journal says so before State does.
LEMMA SealInv == ASSUME HomeInv, NEW p \in Proc, Seal(p) PROVE HomeInv'
<1>0. /\ step \in {"seal", "aside"} /\ step \in Forward /\ job # NoJob /\ job.plan.kind # "delete"
      /\ job.route = "commit" /\ step' = "commit" /\ SetPhase("published")
      /\ UNCHANGED <<home, evidence, credentials, state, session, owner, job, todo, history>>
  BY DEF Seal, At, HomeInv, OfOwner, Control, Forward
<1>1. PICK t \in Tx, plan \in Plans : job.tx = t /\ job.plan = plan /\ Work(t, plan)
  BY <1>0, JobIs
<1>2. t \in Pending /\ journal[t].plan = [plan EXCEPT !.mode = journal[t].plan.mode]
      /\ state.gen = plan.base
  BY <1>0, <1>1 DEF Work, OfJournals, OfState, Before, Forward
<1>3. PICK told \in Plans : told = journal[t].plan
  BY <1>2, JournalType DEF HomeInv
<1>4. told.baseline = plan.baseline /\ told.target = plan.target /\ told.base = plan.base /\ JournalOK(t, told)
  BY <1>2, <1>3 DEF Plans, HomeInv, OfFiles, OfHome, HomeJournals
<1>5. Calm => \A s \in Slot : Whole(t, plan, s)
  BY <1>2, <1>4, PlanType DEF JournalOK, Whole
<1>6. \A s \in Slot : tombstone[t][s] # Absent =>
            Same(tombstone[t][s], plan.baseline[s]) /\ backup[t][s] = Absent
  BY <1>4 DEF JournalOK
<1>7. "published" \in {"prepared", "publishing", "published"}
  OBVIOUS
<1>8. /\ journal' \in [Tx -> Journals \cup {NoJournal}]
      /\ Pending' = Pending \cup {t} /\ CPending' = CPending /\ OfFiles'
      /\ journal'[t].plan = [plan EXCEPT !.mode = journal'[t].plan.mode] /\ Sealed(t)'
  BY <1>0, <1>1, <1>5, <1>6, <1>7, PhaseWritten DEF Sealed
<1>9. HomeTypeOK'
  BY <1>0, <1>8 DEF HomeInv, HomeTypeOK, evidence, credentials, history
<1>10. Control' /\ Listed' /\ Alone'
  BY <1>0, <1>1, <1>2, <1>8 DEF HomeInv, OfOwner, Control, Listed, Alone, Forward, Backward, history
<1>11. Work(t, plan)'
  <2>1. OfState(plan)'
    BY <1>0, <1>1 DEF Work, OfState, Before, Forward
  <2>2. OfJournals(t, plan)'
    BY <1>0, <1>1, <1>2, <1>8 DEF Work, OfJournals, credentials
  <2>3. OfSlots(t, plan)'
    BY <1>0 DEF OfSlots
  <2> QED  BY <1>0, <1>1, <2>1, <2>2, <2>3 DEF Work, Plain, Calm, history
<1>12. Working'
  BY <1>0, <1>1, <1>11 DEF Working
<1> QED  BY <1>8, <1>9, <1>10, <1>12 DEF HomeInv, OfOwner

\* The journal of the transaction under way tells its plan.
LEMMA JournalOf ==
    ASSUME HomeInv, job # NoJob, NEW t \in Tx, NEW plan \in Plans, job.tx = t, job.plan = plan,
           plan.kind # "delete", step \notin {"stage", "purge", "undelete"}
    PROVE  /\ t \in Pending /\ Work(t, plan)
           /\ \E told \in Plans :
                /\ told = journal[t].plan /\ told.base = plan.base /\ told.before = plan.before
                /\ told.baseline = plan.baseline /\ told.target = plan.target /\ JournalOK(t, told)
<1>1. Work(t, plan)
  BY DEF HomeInv, OfOwner, Working
<1>2. t \in Pending /\ journal[t].plan = [plan EXCEPT !.mode = journal[t].plan.mode]
  BY <1>1 DEF Work, OfJournals
<1>3. PICK told \in Plans : told = journal[t].plan
  BY <1>2, JournalType DEF HomeInv
<1>4. /\ told.baseline = plan.baseline /\ told.target = plan.target /\ told.base = plan.base
      /\ told.before = plan.before /\ JournalOK(t, told)
  BY <1>2, <1>3 DEF Plans, HomeInv, OfFiles, OfHome, HomeJournals
<1> QED  BY <1>1, <1>2, <1>3, <1>4

\* A transaction moves its files about; no other journal is there to mind,
\* unless one was begun over it.
LEMMA FilesMoved ==
    ASSUME HomeInv, job # NoJob, NEW t \in Pending, job.tx = t,
           NEW told \in Plans, told = journal[t].plan,
           UNCHANGED <<journal, credentials, state, history>>,
           \A u \in Tx : u # t => tombstone'[u] = tombstone[u] /\ backup'[u] = backup[u],
           Calm => \A s \in Slot :
                Whole(t, told, s)' \/ (Sealed(t) /\ state.gen > told.base /\ home'[s] = told.target[s]),
           \A s \in Slot : tombstone'[t][s] # Absent =>
                Same(tombstone'[t][s], told.baseline[s]) /\ backup'[t][s] = Absent,
           Copies'
    PROVE  OfFiles' /\ Pending' = Pending /\ CPending' = CPending
<1>1. Pending' = Pending /\ CPending' = CPending /\ Calm' = Calm /\ Plain' = Plain
  BY DEF Pending, CPending, Calm, Plain, credentials, history
<1>2. ASSUME NEW u \in Pending PROVE JournalOK(u, journal[u].plan)'
  <2>1. JournalOK(u, journal[u].plan)
    BY DEF HomeInv, OfFiles, OfHome, HomeJournals
  <2>2. Calm => u = t
    BY DEF HomeInv, OfOwner, Alone, Calm
  <2>3. CASE u = t
    <3>1. \A s \in Slot : tombstone'[t][s] # Absent =>
            Same(tombstone[t][s], told.baseline[s])' /\ backup'[t][s] = Absent
      BY DEF Same, history
    <3>2. JournalOK(t, told)
      BY <2>1, <2>3
    <3>3. JournalOK(t, told)'
      BY <1>1, <3>1, <3>2 DEF JournalOK, Sealed, history
    <3> QED  BY <2>3, <3>3
  <2>4. CASE u # t
    <3>1. \A s \in Slot : tombstone'[u][s] = tombstone[u][s] /\ backup'[u][s] = backup[u][s]
      BY <2>4 DEF Pending
    <3> QED  BY <1>1, <2>1, <2>2, <2>4, <3>1 DEF JournalOK, Sealed, Same, history
  <2> QED  BY <2>3, <2>4
<1>3. HomeJournals'
  BY <1>1, <1>2 DEF HomeJournals
<1>4. OfHome'
  BY <1>1, <1>3 DEF HomeInv, OfFiles, OfHome, Current, Settled, Untouching, history
<1>5. OfCredentials'
  BY <1>1, CredentialsKept DEF HomeInv, OfFiles, credentials, history
<1> QED  BY <1>1, <1>4, <1>5 DEF OfFiles

\* The old file of a slot moves aside.
LEMMA MoveAsideInv ==
    ASSUME HomeInv, NEW p \in Proc, NEW s \in Slot, MoveAside(p, s) PROVE HomeInv' /\ Keeps
<1>0. /\ step = "aside" /\ job # NoJob /\ job.plan.kind # "delete" /\ job.route = "commit"
      /\ s \in ToMove /\ home[s] # Absent /\ home' = [home EXCEPT ![s] = Absent]
      /\ tombstone' = [tombstone EXCEPT ![job.tx][s] = home[s]]
      /\ UNCHANGED <<stage, recovery, backup, journal, credentials, state, control, history>>
  BY DEF MoveAside, At, HomeInv, OfOwner, Control, Forward
<1>1. PICK t \in Tx, plan \in Plans : job.tx = t /\ job.plan = plan /\ Work(t, plan)
  BY <1>0, JobIs
<1>2. PICK old \in Content : old = home[s]
  BY DEF HomeInv, HomeTypeOK, Layout
<1>3. tombstone' = [tombstone EXCEPT ![t][s] = old] /\ tombstone \in [Tx -> Layout] /\ Absent \in Content
      /\ home \in Layout
  BY <1>0, <1>1, <1>2, WildContent DEF HomeInv, HomeTypeOK
<1>4. /\ home' \in Layout /\ home'[s] = Absent /\ \A u \in Slot : u # s => home'[u] = home[u]
  BY <1>0, <1>3 DEF Layout
<1>5. /\ tombstone' \in [Tx -> Layout]
      /\ \A v \in Tx, u \in Slot : v # t \/ u # s => tombstone'[v][u] = tombstone[v][u]
      /\ \A v \in Tx : v # t => tombstone'[v] = tombstone[v]
  BY <1>3 DEF Layout
<1>6. tombstone'[t][s] = old
  BY <1>3 DEF Layout
<1>7. plan.baseline[s] # Absent /\ tombstone[t][s] = Absent /\ Same(old, plan.baseline[s])
  BY <1>0, <1>1, <1>2 DEF ToMove, Work, OfSlots
<1>8. Keeps
  BY <1>0, <1>2, <1>4, <1>5, <1>6, <1>7, WildContent DEF Keeps, Kept
<1>9. Copies'
  BY <1>0, <1>8, CopiesKept DEF HomeInv, OfFiles, OfHome, history
<1>10. PICK told \in Plans :
           /\ told = journal[t].plan /\ told.baseline = plan.baseline /\ told.target = plan.target
           /\ JournalOK(t, told) /\ t \in Pending /\ state.gen = told.base
  BY <1>0, <1>1, JournalOf DEF Work, OfState, Before, Forward
<1>11. OfFiles' /\ Pending' = Pending /\ CPending' = CPending
  <2>1. Calm => \A u \in Slot : Whole(t, told, u)
    BY <1>10, PlanType DEF JournalOK
  <2>2. Calm => \A u \in Slot : Whole(t, told, u)'
    BY <1>0, <1>2, <1>4, <1>5, <1>6, <2>1 DEF Whole
  <2>3. \A u \in Slot : tombstone'[t][u] # Absent =>
            Same(tombstone'[t][u], told.baseline[u]) /\ backup'[t][u] = Absent
    <3>1. backup' = backup /\ backup[t][s] = Absent
      BY <1>0, <1>1, Layouts DEF Work, OfSlots
    <3>2. ASSUME NEW u \in Slot, u # s, tombstone'[t][u] # Absent
          PROVE  Same(tombstone'[t][u], told.baseline[u]) /\ backup'[t][u] = Absent
      BY <1>5, <1>10, <3>1, <3>2 DEF JournalOK
    <3> QED  BY <1>6, <1>7, <1>10, <3>1, <3>2
  <2> QED  BY <1>0, <1>1, <1>5, <1>9, <1>10, <2>2, <2>3, FilesMoved
<1>12. HomeTypeOK'
  BY <1>0, <1>4, <1>5 DEF HomeInv, HomeTypeOK, credentials, control, history
<1>13. Control' /\ Listed' /\ Alone'
  BY <1>0, <1>11 DEF HomeInv, OfOwner, Control, Listed, Alone, control, history
<1>14. Work(t, plan)'
  <2>1. OfState(plan)' /\ OfJournals(t, plan)'
    BY <1>0, <1>1, <1>11 DEF Work, OfState, OfJournals, Before, After, Sealed, control, credentials, history
  <2>2. step' = "aside" /\ job' = job
    BY <1>0 DEF control
  <2>3. OfSlots(t, plan)'
    BY <1>0, <1>1, <1>4, <1>5, <1>6, <1>7, <2>2 DEF Work, OfSlots, Same, history
  <2> QED  BY <1>0, <1>1, <2>1, <2>2, <2>3 DEF Work, Plain, Calm, control, history
<1>15. Working'
  BY <1>0, <1>1, <1>14 DEF Working, control
<1> QED  BY <1>8, <1>11, <1>12, <1>13, <1>15 DEF HomeInv, OfOwner

\* A staged file moves into a slot that is empty.
LEMMA PlaceInv ==
    ASSUME HomeInv, NEW p \in Proc, NEW s \in Slot, Place(p, s) PROVE HomeInv' /\ Keeps
<1>0. /\ step = "aside" /\ job # NoJob /\ job.plan.kind # "delete" /\ job.route = "commit"
      /\ ToMove = {} /\ home[s] = Absent /\ home' = [home EXCEPT ![s] = stage[job.tx][s]]
      /\ stage' = [stage EXCEPT ![job.tx][s] = Absent] /\ stage[job.tx][s] # Absent
      /\ UNCHANGED <<tombstone, recovery, backup, journal, credentials, state, control, history>>
  BY DEF Place, At, HomeInv, OfOwner, Control, Forward
<1>1. PICK t \in Tx, plan \in Plans : job.tx = t /\ job.plan = plan /\ Work(t, plan)
  BY <1>0, JobIs
<1>2. PICK new \in Content : new = stage[t][s]
  BY DEF HomeInv, HomeTypeOK, Layout
<1>3. /\ stage' = [stage EXCEPT ![t][s] = Absent] /\ stage \in [Tx -> Layout] /\ Absent \in Content
      /\ home \in Layout /\ home' = [home EXCEPT ![s] = new] /\ new = plan.target[s]
  BY <1>0, <1>1, <1>2, WildContent DEF HomeInv, HomeTypeOK, Work, OfSlots
<1>4. /\ home' \in Layout /\ home'[s] = new /\ \A u \in Slot : u # s => home'[u] = home[u]
  BY <1>3 DEF Layout
<1>5. /\ stage' \in [Tx -> Layout]
      /\ \A v \in Tx, u \in Slot : v # t \/ u # s => stage'[v][u] = stage[v][u]
  BY <1>3 DEF Layout
<1>6. stage'[t][s] = Absent
  BY <1>3 DEF Layout
<1>7. \A u \in Slot : plan.baseline[u] = Absent \/ tombstone[t][u] # Absent
  BY <1>0, <1>1 DEF ToMove
<1>8. Keeps
  BY <1>0, <1>4, WildContent DEF Keeps, Kept
<1>9. Copies'
  BY <1>0, <1>8, CopiesKept DEF HomeInv, OfFiles, OfHome, history
<1>10. PICK told \in Plans :
           /\ told = journal[t].plan /\ told.baseline = plan.baseline /\ told.target = plan.target
           /\ JournalOK(t, told) /\ t \in Pending /\ state.gen = told.base
  BY <1>0, <1>1, JournalOf DEF Work, OfState, Before, Forward
<1>11. OfFiles' /\ Pending' = Pending /\ CPending' = CPending
  <2>1. Calm => \A u \in Slot : Whole(t, told, u)
    BY <1>10, PlanType DEF JournalOK
  <2>2. Calm => \A u \in Slot : Whole(t, told, u)'
    BY <1>0, <1>3, <1>4, <1>7, <1>10, <2>1 DEF Whole
  <2> QED  BY <1>0, <1>1, <1>9, <1>10, <2>2, FilesMoved DEF JournalOK
<1>12. HomeTypeOK'
  BY <1>0, <1>4, <1>5 DEF HomeInv, HomeTypeOK, credentials, control, history
<1>13. Control' /\ Listed' /\ Alone'
  BY <1>0, <1>11 DEF HomeInv, OfOwner, Control, Listed, Alone, control, history
<1>14. Work(t, plan)'
  <2>1. OfState(plan)' /\ OfJournals(t, plan)'
    BY <1>0, <1>1, <1>11 DEF Work, OfState, OfJournals, Before, After, Sealed, control, credentials, history
  <2>2. step' = "aside" /\ job' = job
    BY <1>0 DEF control
  <2>3. OfSlots(t, plan)'
    BY <1>0, <1>1, <1>4, <1>5, <1>6, <1>7, <2>2 DEF Work, OfSlots, Same, history
  <2> QED  BY <1>0, <1>1, <2>1, <2>2, <2>3 DEF Work, Plain, Calm, control, history
<1>15. Working'
  BY <1>0, <1>1, <1>14 DEF Working, control
<1> QED  BY <1>8, <1>11, <1>12, <1>13, <1>15 DEF HomeInv, OfOwner

---------------------------------------------------------------------------
(* The commit of State, and the rollback when it fails.                    *)

\* What the commit of State makes of State, of the journals and of the files.
LEMMA CommittedFiles ==
    ASSUME HomeInv, step = "commit", NEW t \in Tx, NEW plan \in Plans, job.tx = t, job.plan = plan,
           state' = Committed, doubt' \in {doubt, TRUE},
           UNCHANGED <<home, evidence, journal, credentials, writes, waived, bumped, overlap>>
    PROVE  /\ OfFiles' /\ After(plan)' /\ Pending' = Pending /\ CPending' = CPending
           /\ state' \in [gen : 1 .. MaxGen, accounts : SUBSET Account, profile : Account \cup {NoProfile}]
<1>1. Work(t, plan) /\ job # NoJob /\ job.route = "commit"
  BY DEF HomeInv, OfOwner, Working, Control, Forward
<1>2. /\ Before(plan) /\ (plan.kind = "delete" => plan.account # plan.before) /\ PlanOK(plan)
      /\ plan.kind # "delete" => t \in Pending /\ Sealed(t)
      /\ plan.kind # "delete" => journal[t].plan = [plan EXCEPT !.mode = journal[t].plan.mode]
      /\ plan.kind = "delete" => t \notin Pending
      /\ plan.kind = "switch" => t \notin CPending
      /\ plan.kind # "switch" => /\ cjournal[t] = [account |-> plan.account, base |-> plan.base]
                                 /\ cred[plan.account] = t
  BY <1>1 DEF Work, OfState, OfJournals, Forward
<1>3. /\ plan.base \in 1 .. MaxGen - 1 /\ plan.account \in Account /\ plan.after \in Account \cup {NoProfile}
      /\ plan.kind \in {"switch", "remove", "delete"} /\ MaxGen \in Nat /\ t \notin {"live", "gone"}
      /\ plan.base \in Nat
  BY PlanType, ActiveHomeConstants
<1>4. /\ state'.gen = plan.base + 1 /\ state'.profile = plan.after
      /\ state'.accounts = IF plan.kind = "switch" THEN state.accounts ELSE state.accounts \ {plan.account}
      /\ state.accounts \subseteq Account /\ state.gen = plan.base /\ state.profile = plan.before
      /\ plan.account \in state.accounts
  BY <1>2 DEF Committed, Before, HomeInv, HomeTypeOK
<1>5. state' \in [gen : 1 .. MaxGen, accounts : SUBSET Account, profile : Account \cup {NoProfile}]
  <2>1. state' = [gen |-> state'.gen, accounts |-> state'.accounts, profile |-> state'.profile]
    BY DEF Committed
  <2>2. state'.gen \in 1 .. MaxGen /\ state'.accounts \subseteq Account /\ state'.profile \in Account \cup {NoProfile}
    BY <1>3, <1>4
  <2> QED  BY <2>1, <2>2
<1>6. After(plan)'
  BY <1>4 DEF After
<1>7. Pending' = Pending /\ CPending' = CPending /\ (Calm' <=> Calm) /\ (Plain' => Plain)
  <2>1. ~doubt' => ~doubt
    OBVIOUS
  <2> QED  BY <2>1 DEF Pending, CPending, Calm, Plain, credentials
<1>8. ~overlap => (\A u \in Pending \cup CPending : u = t)
  BY <1>1 DEF HomeInv, OfOwner, Alone
<1>9. ASSUME NEW u \in Pending PROVE JournalOK(u, journal[u].plan)'
  <2>1. JournalOK(u, journal[u].plan) /\ journal'[u].plan = journal[u].plan /\ Sealed(u)' = Sealed(u)
    BY DEF HomeInv, OfFiles, OfHome, HomeJournals, Sealed
  <2>2. PICK told \in Plans : told = journal[u].plan
    BY JournalType DEF HomeInv
  <2>3. JournalOK(u, told) /\ told.base \in Nat
    BY <2>1, <2>2, PlanType
  <2>4. ~overlap => /\ u = t /\ Sealed(u) /\ told.base = plan.base /\ told.after = plan.after
    BY <1>2, <1>8, <1>9, <2>2 DEF Plans
  <2>5. \A s \in Slot : Whole(u, told, s)' = Whole(u, told, s)
    BY DEF Whole, evidence
  <2>6. JournalOK(u, told)'
    BY <1>3, <1>4, <1>7, <2>1, <2>3, <2>4, <2>5 DEF JournalOK, Calm, Same, evidence
  <2> QED  BY <2>1, <2>2, <2>6
<1>10. OfHome'
  <2>1. HomeJournals'
    BY <1>7, <1>9 DEF HomeJournals
  <2>2. Current'
    BY <1>2, <1>3, <1>4 DEF PlanOK, HomeInv, OfFiles, OfHome, Current
  <2>3. Settled'
    BY <1>2, <1>4, <1>7 DEF PlanOK, HomeInv, OfFiles, OfHome, Settled, HomeRight
  <2>4. Copies' /\ Untouching'
    BY DEF HomeInv, OfFiles, OfHome, Copies, Untouching, Kept, evidence
  <2> QED  BY <2>1, <2>2, <2>3, <2>4 DEF OfHome
<1>11. OfCredentials'
  <2>1. DeletionJournals'
    <3>1. ASSUME NEW u \in CPending, ~overlap
          PROVE  CredentialJournalOK(cjournal[u].account, cjournal[u].base)'
      <4>1. /\ u = t /\ cjournal[t] = [account |-> plan.account, base |-> plan.base]
            /\ cred[plan.account] = t /\ plan.kind # "switch"
        BY <1>2, <1>8, <3>1
      <4> QED  BY <1>3, <1>4, <4>1 DEF CredentialJournalOK, credentials
    <3> QED  BY <1>7, <3>1 DEF DeletionJournals, credentials
  <2>2. Credentials'
    <3>1. ASSUME NEW a \in Account, ~doubt', ~overlap
          PROVE  \/ (a \in state'.accounts) = (cred[a] = "live")
                 \/ \E u \in CPending : cjournal[u].account = a
      <4>0. ~doubt
        BY <3>1
      <4>1. CASE plan.kind = "switch" \/ a # plan.account
        BY <1>4, <3>1, <4>0, <4>1 DEF HomeInv, OfFiles, OfCredentials, Credentials
      <4>2. CASE plan.kind # "switch" /\ a = plan.account
        <5>1. a \notin state'.accounts /\ cred[a] # "live"
          BY <1>2, <1>3, <1>4, <4>2
        <5> QED  BY <5>1
      <4> QED  BY <4>1, <4>2
    <3> QED  BY <1>7, <3>1 DEF Credentials, credentials
  <2>3. Single'
    BY <1>7 DEF HomeInv, OfFiles, OfCredentials, Single
  <2> QED  BY <2>1, <2>2, <2>3 DEF OfCredentials
<1> QED  BY <1>5, <1>6, <1>7, <1>10, <1>11 DEF OfFiles

\* State follows once the home is in place: the journal is `published`.
LEMMA CommitInv == ASSUME HomeInv, NEW p \in Proc, Commit(p) PROVE HomeInv'
<1>0. /\ step = "commit" /\ job # NoJob /\ job.route = "commit" /\ state' = Committed
      /\ session' \in [Proc -> {"out", "recovered", "ready", "saved"}]
      /\ step' = IF job.plan.kind = "delete" THEN "purge" ELSE "finalize"
      /\ UNCHANGED <<home, evidence, journal, credentials, owner, job, todo, history>>
  <2>1. session' \in [Proc -> {"out", "recovered", "ready", "saved"}]
    BY DEF Commit, Superseded, HomeInv, HomeTypeOK
  <2> QED  BY <2>1 DEF Commit, At, HomeInv, OfOwner, Control, Forward
<1>1. PICK t \in Tx, plan \in Plans : job.tx = t /\ job.plan = plan /\ Work(t, plan)
  BY <1>0, JobIs
<1>2. /\ OfFiles' /\ After(plan)' /\ Pending' = Pending /\ CPending' = CPending
      /\ state' \in [gen : 1 .. MaxGen, accounts : SUBSET Account, profile : Account \cup {NoProfile}]
  BY <1>0, <1>1, CommittedFiles DEF history
<1>3. HomeTypeOK'
  BY <1>0, <1>2 DEF HomeInv, HomeTypeOK, evidence, credentials, history
<1>4. Control' /\ Listed' /\ Alone'
  BY <1>0, <1>1, <1>2 DEF HomeInv, OfOwner, Control, Listed, Alone, Forward, Backward, history
<1>5. Work(t, plan)'
  <2>1. OfState(plan)'
    BY <1>0, <1>1, <1>2 DEF OfState, Forward
  <2>2. OfJournals(t, plan)'
    BY <1>0, <1>1, <1>2 DEF Work, OfJournals, Sealed, credentials
  <2>3. OfSlots(t, plan)'
    BY <1>0 DEF OfSlots
  <2> QED  BY <1>0, <1>1, <2>1, <2>2, <2>3 DEF Work, Plain, Calm, history
<1>6. Working'
  BY <1>0, <1>1, <1>5 DEF Working
<1> QED  BY <1>2, <1>3, <1>4, <1>6 DEF HomeInv, OfOwner

\* What failed before the end is rolled back, whatever State says by now.
LEMMA RollBackInv ==
    ASSUME HomeInv, step \in {"publish", "aside", "seal", "commit"}, RollBack,
           NEW t \in Tx, NEW plan \in Plans, job.tx = t, job.plan = plan,
           Before(plan)' \/ (doubt' /\ After(plan)'),
           OfFiles',
           UNCHANGED <<home, evidence, journal, credentials, writes, waived, overlap>>,
           doubt' \in {doubt, TRUE},
           state' \in [gen : 1 .. MaxGen, accounts : SUBSET Account, profile : Account \cup {NoProfile}],
           session' \in [Proc -> {"out", "recovered", "ready", "saved"}],
           failures' = failures \/ (failures + writes < MaxFaults /\ failures' = failures + 1),
           bumped' = bumped
    PROVE  HomeInv'
<1>0. /\ job # NoJob /\ job.route = "commit" /\ step \in Forward /\ Work(t, plan) /\ job \in Jobs
      /\ UNCHANGED <<owner, todo>>
  BY JobType DEF HomeInv, OfOwner, Working, Control, Forward, RollBack
<1>1. PICK j \in Jobs : j = [job EXCEPT !.route = "rollback"]
  BY <1>0, JobChanges
<1>2. /\ job' \in Jobs /\ job' # NoJob /\ job'.tx = t /\ job'.plan = plan /\ job'.route = "rollback"
      /\ job'.slot = job.slot /\ job'.seen = job.seen
      /\ step' = IF plan.kind = "delete" THEN "undelete" ELSE "check"
  <2>1. j.tx = job.tx /\ j.plan = job.plan /\ j.route = "rollback" /\ j.slot = job.slot /\ j.seen = job.seen
    BY <1>0, <1>1, JobChanges
  <2> QED  BY <1>1, <2>1, ActiveHomeConstants DEF RollBack
<1>3. HomeTypeOK'
  <2>1. failures' \in Nat /\ writes' \in Nat /\ failures' + writes' <= MaxFaults
    BY ActiveHomeConstants DEF HomeInv, HomeTypeOK
  <2>2. step' \in {"undelete", "check"} /\ doubt' \in BOOLEAN
    BY <1>2 DEF HomeInv, HomeTypeOK
  <2> QED  BY <1>0, <1>2, <2>1, <2>2 DEF HomeInv, HomeTypeOK, evidence, credentials
<1>4. Pending' = Pending /\ CPending' = CPending
  BY DEF Pending, CPending, credentials
<1>5. plan.kind \in {"switch", "remove", "delete"}
  BY PlanType
<1>6. Control' /\ Listed' /\ Alone'
  BY <1>0, <1>2, <1>4, <1>5 DEF HomeInv, OfOwner, Control, Listed, Alone, Forward, Backward
<1>7. Work(t, plan)'
  <2>1. OfState(plan)'
    BY <1>2 DEF OfState, Forward
  <2>2. OfJournals(t, plan)'
    BY <1>0, <1>2, <1>4 DEF Work, OfJournals, Sealed, credentials
  <2>3. plan.kind # "delete" /\ Calm => \A s \in Slot : Whole(t, plan, s)
    <3> SUFFICES ASSUME plan.kind # "delete", Calm, NEW s \in Slot PROVE Whole(t, plan, s)
      OBVIOUS
    <3>1. PICK told \in Plans : /\ told.base = plan.base /\ told.baseline = plan.baseline
                                /\ told.target = plan.target /\ JournalOK(t, told)
      BY <1>0, JournalOf
    <3>2. state.gen = told.base /\ told.base \in Nat
      BY <1>0, <3>1, PlanType DEF Work, OfState, Before
    <3>3. Whole(t, told, s)
      BY <3>1, <3>2 DEF JournalOK
    <3> QED  BY <3>1, <3>3 DEF Whole
  <2>4. OfSlots(t, plan)'
    BY <1>2, <2>3 DEF OfSlots, Whole, Calm, evidence
  <2>5. PlanOK(plan) /\ (Plain' => BaseRight(plan))
    BY <1>0 DEF Work, Plain, Calm
  <2> QED  BY <1>2, <2>1, <2>2, <2>4, <2>5 DEF Work
<1>8. Working'
  BY <1>2, <1>7 DEF Working
<1> QED  BY <1>3, <1>6, <1>8 DEF HomeInv, OfOwner

\* A commit that fails is rolled back, whether it took effect or not.
LEMMA CommitFailsInv == ASSUME HomeInv, NEW p \in Proc, CommitFails(p) PROVE HomeInv'
<1>0. /\ step = "commit" /\ job # NoJob /\ RollBack /\ failures + writes < MaxFaults
      /\ failures' = failures + 1
      /\ \/ UNCHANGED <<state, doubt, session>>
         \/ state' = Committed /\ doubt' = TRUE /\ Superseded(p, session[p])
      /\ UNCHANGED <<home, evidence, journal, credentials, writes, waived, bumped, overlap>>
  BY DEF CommitFails, At, HomeInv, OfOwner, Control
<1>1. PICK t \in Tx, plan \in Plans : job.tx = t /\ job.plan = plan /\ Work(t, plan)
  BY <1>0, JobIs
<1>2. CASE UNCHANGED <<state, doubt, session>>
  <2>1. OfFiles'
    BY <1>0, <1>2, FilesKept DEF HomeInv, evidence, credentials
  <2>2. Before(plan)'
    BY <1>0, <1>1, <1>2 DEF HomeInv, OfOwner, Control, Work, OfState, Before, Forward
  <2>3. /\ state' \in [gen : 1 .. MaxGen, accounts : SUBSET Account, profile : Account \cup {NoProfile}]
        /\ session' \in [Proc -> {"out", "recovered", "ready", "saved"}]
    BY <1>2 DEF HomeInv, HomeTypeOK
  <2> QED  BY <1>0, <1>1, <1>2, <2>1, <2>2, <2>3, RollBackInv
<1>3. CASE state' = Committed /\ doubt' = TRUE /\ Superseded(p, session[p])
  <2>1. /\ OfFiles' /\ After(plan)'
        /\ state' \in [gen : 1 .. MaxGen, accounts : SUBSET Account, profile : Account \cup {NoProfile}]
    BY <1>0, <1>1, <1>3, CommittedFiles
  <2>2. session' \in [Proc -> {"out", "recovered", "ready", "saved"}]
    BY <1>3 DEF Superseded, HomeInv, HomeTypeOK
  <2> QED  BY <1>0, <1>1, <1>3, <2>1, <2>2, RollBackInv
<1> QED  BY <1>0, <1>2, <1>3

---------------------------------------------------------------------------
(* Leaving the home part of a transaction, well or not.                    *)

LEMMA LeaveInv ==
    ASSUME HomeInv, NEW p \in Proc, NEW well \in BOOLEAN, Leave(p, well),
           step \in Backward \cup {"finalize", "clean", "discard"},
           UNCHANGED <<home, evidence, credentials, state, writes, waived, doubt, bumped, overlap>>,
           failures' = failures \/ (failures + writes < MaxFaults /\ failures' = failures + 1),
           OfFiles', journal' \in [Tx -> Journals \cup {NoJournal}],
           Pending' \subseteq Pending, well => Pending' = Pending \ {job.tx}
    PROVE  HomeInv'
<1>1. /\ job # NoJob /\ step \notin Forward /\ owner # Nobody /\ CPending' = CPending
      /\ job.plan.kind # "delete"
  BY DEF HomeInv, OfOwner, Control, Forward, Backward, CPending, credentials
<1>2. PICK t \in Tx, plan \in Plans : job.tx = t /\ job.plan = plan /\ Work(t, plan)
  BY <1>1, JobIs
<1>3. failures' \in Nat /\ writes' \in Nat /\ failures' + writes' <= MaxFaults
  BY ActiveHomeConstants DEF HomeInv, HomeTypeOK
<1>4. \/ /\ job.route = "recover" /\ well /\ step' = "journals" /\ todo' = todo \ {job.tx}
         /\ job' = NoJob /\ UNCHANGED <<session, owner>>
      \/ /\ job.route # "recover" /\ job.plan.kind = "remove"
         /\ step' = IF job.route = "commit" THEN "purge" ELSE "undelete"
         /\ UNCHANGED <<session, owner, job, todo>>
      \/ Release(p, "out")
  BY DEF Leave
<1>5. CASE /\ job.route = "recover" /\ well /\ step' = "journals" /\ todo' = todo \ {job.tx}
           /\ job' = NoJob /\ UNCHANGED <<session, owner>>
  <2>1. todo' \subseteq Pending'
    BY <1>1, <1>5 DEF HomeInv, OfOwner, Listed
  <2>2. OfOwner'
    BY <1>1, <1>5, <2>1, OwnerQuiet
  <2>3. HomeTypeOK'
    BY <1>3, <1>5 DEF HomeInv, HomeTypeOK, evidence, credentials
  <2> QED  BY <2>2, <2>3 DEF HomeInv
<1>6. CASE /\ job.route # "recover" /\ job.plan.kind = "remove"
           /\ step' = IF job.route = "commit" THEN "purge" ELSE "undelete"
           /\ UNCHANGED <<session, owner, job, todo>>
  <2>1. HomeTypeOK'
    <3>1. step' \in {"purge", "undelete"}
      BY <1>6
    <3> QED  BY <1>3, <1>6, <3>1 DEF HomeInv, HomeTypeOK, evidence, credentials
  <2>2. job.route \in {"commit", "rollback"}
    BY <1>1, <1>6, JobType DEF HomeInv
  <2>3. Control' /\ Listed' /\ Alone'
    BY <1>1, <1>6, <2>2 DEF HomeInv, OfOwner, Control, Listed, Alone, Forward, Backward
  <2>4. Work(t, plan)'
    <3>1. OfState(plan)'
      BY <1>1, <1>2, <1>6, <2>2 DEF Work, OfState, Before, After, Forward
    <3>2. OfJournals(t, plan)'
      BY <1>1, <1>2, <1>6 DEF Work, OfJournals, credentials, Forward
    <3>3. OfSlots(t, plan)'
      BY <1>6 DEF OfSlots
    <3> QED  BY <1>2, <1>6, <3>1, <3>2, <3>3 DEF Work, Plain, Calm
  <2>5. Working'
    BY <1>2, <1>6, <2>4 DEF Working
  <2> QED  BY <2>1, <2>3, <2>5 DEF HomeInv, OfOwner
<1>7. CASE Release(p, "out")
  <2>1. HomeTypeOK'
    BY <1>3, <1>7, ReleaseIs DEF HomeInv, HomeTypeOK, evidence, credentials
  <2> QED  BY <1>7, <2>1, ReleaseIs DEF HomeInv
<1> QED  BY <1>4, <1>5, <1>6, <1>7

\* A refusal, and a call that fails: back, or out.
LEMMA FailInv ==
    ASSUME HomeInv, NEW p \in Proc, Fail(p),
           step \in {"publish", "aside", "seal", "commit"} \cup Backward \cup {"finalize", "clean", "discard"},
           UNCHANGED <<home, evidence, journal, credentials, state, writes, waived, doubt, bumped, overlap>>,
           failures' = failures \/ (failures + writes < MaxFaults /\ failures' = failures + 1)
    PROVE  HomeInv'
<1>1. OfFiles' /\ Pending' = Pending /\ journal' \in [Tx -> Journals \cup {NoJournal}]
  BY FilesKept DEF HomeInv, HomeTypeOK, evidence, credentials, Pending
<1>2. CASE step \in {"publish", "aside", "seal", "commit"}
  <2>1. RollBack /\ UNCHANGED session
    BY <1>2 DEF Fail
  <2>2. job # NoJob /\ job.route = "commit" /\ step \in Forward
    BY <1>2 DEF HomeInv, OfOwner, Control, Forward
  <2>3. PICK t \in Tx, plan \in Plans : job.tx = t /\ job.plan = plan /\ Work(t, plan)
    BY <2>2, JobIs
  <2>4. Before(plan)'
    BY <2>2, <2>3 DEF Work, OfState, Before
  <2>5. /\ state' \in [gen : 1 .. MaxGen, accounts : SUBSET Account, profile : Account \cup {NoProfile}]
        /\ session' \in [Proc -> {"out", "recovered", "ready", "saved"}]
    BY <2>1 DEF HomeInv, HomeTypeOK
  <2> QED  BY <1>1, <1>2, <2>1, <2>3, <2>4, <2>5, RollBackInv
<1>3. CASE step \notin {"publish", "aside", "seal", "commit"}
  <2>1. Leave(p, FALSE) /\ step \in Backward \cup {"finalize", "clean", "discard"}
    BY <1>3 DEF Fail
  <2> QED  BY <1>1, <2>1, LeaveInv
<1> QED  BY <1>2, <1>3

\* A refusal and a failing call are handled alike at every step.
LEMMA RefuseInv == ASSUME HomeInv, NEW p \in Proc, Refuse(p) PROVE HomeInv'
<1>1. step \in {"publish", "aside", "seal", "commit"} \cup Backward \cup {"finalize", "clean", "discard"}
  BY DEF Refuse, Refuses, Backward
<1> QED  BY <1>1, FailInv DEF Refuse, history
LEMMA CallFailsInv == ASSUME HomeInv, NEW p \in Proc, CallFails(p) PROVE HomeInv'
<1>1. step \in {"publish", "aside", "seal", "commit"} \cup Backward \cup {"finalize", "clean", "discard"}
  BY DEF CallFails, Backward
<1> QED  BY <1>1, FailInv DEF CallFails

\* The journal of a transaction goes last.
LEMMA RemoveJournalInv == ASSUME HomeInv, NEW p \in Proc, RemoveJournal(p) PROVE HomeInv'
<1>0. /\ step = "discard" /\ job # NoJob /\ journal' = [journal EXCEPT ![job.tx] = NoJournal]
      /\ Leave(p, TRUE)
      /\ UNCHANGED <<home, evidence, credentials, state, history>>
  BY DEF RemoveJournal, At, HomeInv, OfOwner, Control
<1>1. PICK t \in Tx, plan \in Plans : job.tx = t /\ job.plan = plan /\ Work(t, plan)
  BY <1>0, JobIs
<1>2. /\ journal' \in [Tx -> Journals \cup {NoJournal}] /\ journal'[t] = NoJournal
      /\ \A u \in Tx : u # t => journal'[u] = journal[u]
  BY <1>0, <1>1 DEF HomeInv, HomeTypeOK
<1>3. Pending' = Pending \ {t} /\ CPending' = CPending
  BY <1>0, <1>2 DEF Pending, CPending, credentials
<1>4. ASSUME NEW u \in Pending, u # t PROVE JournalOK(u, journal[u].plan)'
  <2>1. JournalOK(u, journal[u].plan) /\ journal'[u] = journal[u]
    BY <1>2, <1>4 DEF HomeInv, OfFiles, OfHome, HomeJournals, Pending
  <2> QED  BY <1>0, <2>1 DEF JournalOK, Sealed, Whole, Same, Plain, Calm, evidence, history
<1>5. OfHome'
  <2>1. HomeJournals'
    BY <1>3, <1>4 DEF HomeJournals
  <2>2. Plain => HomeRight
    BY <1>0, <1>1 DEF Work, OfSlots
  <2>3. Settled'
    BY <1>0, <2>2 DEF Settled, Plain, Calm, HomeRight, history
  <2>4. Copies'
    BY <1>0 DEF HomeInv, OfFiles, OfHome, Copies, Kept, evidence, history
  <2> QED  BY <1>0, <2>1, <2>3, <2>4 DEF HomeInv, OfFiles, OfHome, Current, Untouching, history
<1>6. OfCredentials'
  <2>1. Single'
    BY <1>0, <1>3 DEF HomeInv, OfFiles, OfCredentials, Single, history
  <2> QED  BY <1>0, <1>3, <2>1 DEF HomeInv, OfFiles, OfCredentials, DeletionJournals, CredentialJournalOK,
            Credentials, credentials, history
<1>7. OfFiles' /\ TRUE \in BOOLEAN /\ (Pending' \subseteq Pending) /\ Pending' = Pending \ {job.tx}
  BY <1>1, <1>3, <1>5, <1>6 DEF OfFiles
<1> QED  BY <1>0, <1>2, <1>7, LeaveInv DEF history

---------------------------------------------------------------------------
(* Rolling the home back.                                                  *)

\* Where a rollback of the home stands: it has a journal, and is not forward.
LEMMA BackwardIs ==
    ASSUME HomeInv, step \in Backward \cup {"finalize", "clean", "discard"}
    PROVE  /\ job # NoJob /\ job.plan.kind # "delete" /\ step \notin Forward /\ job \in Jobs
           /\ step \in Backward => job.route # "commit"
           /\ step \in {"finalize", "clean"} => job.route # "rollback"
           /\ owner # Nobody
BY JobType DEF HomeInv, OfOwner, Control, Forward, Backward

\* A rollback first checks that it can explain every slot.
LEMMA CheckInv == ASSUME HomeInv, NEW p \in Proc, Check(p) PROVE HomeInv'
<1>0. /\ step = "check" /\ step' = "keep" /\ \A s \in Slot : Explained(job.plan, job.tx, s)
      /\ job' = [job EXCEPT !.seen = home, !.slot = "token"]
      /\ UNCHANGED <<home, evidence, journal, credentials, state, session, owner, todo, history>>
      /\ job # NoJob /\ job.plan.kind # "delete" /\ job \in Jobs /\ job.route # "commit" /\ home \in Layout
  BY BackwardIs DEF Check, At, Backward, HomeInv, HomeTypeOK
<1>1. PICK t \in Tx, plan \in Plans : job.tx = t /\ job.plan = plan /\ Work(t, plan)
  BY <1>0, JobIs
<1>2. /\ job' \in Jobs /\ job' # NoJob /\ job'.tx = t /\ job'.plan = plan /\ job'.mode = job.mode
      /\ job'.route = job.route /\ job'.slot = "token" /\ job'.seen = home
  BY <1>0, <1>1, Slots, ActiveHomeConstants DEF Jobs
<1>3. HomeTypeOK'
  BY <1>0, <1>2 DEF HomeInv, HomeTypeOK, evidence, credentials, history
<1>4. OfFiles' /\ Pending' = Pending /\ CPending' = CPending
  BY <1>0, FilesKept DEF HomeInv, evidence, credentials, history, Pending, CPending
<1>5. Control' /\ Listed' /\ Alone'
  BY <1>0, <1>1, <1>2, <1>4 DEF HomeInv, OfOwner, Control, Listed, Alone, Forward, Backward, history
<1>6. Work(t, plan)'
  <2>1. OfState(plan)'
    BY <1>0, <1>1, <1>2 DEF Work, OfState, Before, After, Forward, Backward, history
  <2>2. OfJournals(t, plan)'
    BY <1>0, <1>1, <1>2, <1>4 DEF Work, OfJournals, Sealed, credentials
  <2>3. \A s \in Slot : home[s] \in {plan.baseline[s], plan.target[s], Absent}
    BY <1>0, <1>1 DEF Explained
  <2>4. Calm' => \A s \in Slot : Whole(t, plan, s)'
    BY <1>0, <1>1 DEF Work, OfSlots, Whole, Calm, evidence, history
  <2>5. OfSlots(t, plan)'
    BY <1>0, <1>2, <2>3, <2>4 DEF OfSlots, Same
  <2> QED  BY <1>0, <1>1, <1>2, <2>1, <2>2, <2>5 DEF Work, Plain, Calm, history
<1>7. Working'
  BY <1>2, <1>6 DEF Working
<1> QED  BY <1>3, <1>4, <1>5, <1>7 DEF HomeInv, OfOwner

\* The live file makes way: it is a copy of one that stays, or not agy's.
LEMMA KeepLiveInv == ASSUME HomeInv, NEW p \in Proc, KeepLive(p) PROVE HomeInv' /\ Keeps
<1>0. /\ step = "keep" /\ step' = "back" /\ job # NoJob /\ job.plan.kind # "delete" /\ job \in Jobs
      /\ job.route # "commit" /\ home \in Layout /\ recovery \in [Tx -> Layout]
      /\ UNCHANGED <<stage, tombstone, backup, journal, credentials, state, session, owner, todo, history>>
  BY BackwardIs DEF KeepLive, At, Backward, HomeInv, HomeTypeOK
<1>1. PICK t \in Tx, plan \in Plans : job.tx = t /\ job.plan = plan /\ Work(t, plan)
  BY <1>0, JobIs
<1>2. PICK s \in Slot : s = job.slot
  BY <1>0, JobType DEF HomeInv
<1>3. PICK old \in Content : old = home[s]
  BY <1>0 DEF Layout
<1>4. /\ job.seen[s] \in {plan.baseline[s], plan.target[s], Absent} /\ Same(old, job.seen[s])
      /\ s = "token" => Same(home["document"], job.seen["document"])
      /\ \A u \in Slot : job.seen[u] \in {plan.baseline[u], plan.target[u], Absent}
      /\ Calm => \A u \in Slot : Whole(t, plan, u)
  BY <1>0, <1>1, <1>2, <1>3 DEF Work, OfSlots
<1>5. PICK told \in Plans :
          /\ told = journal[t].plan /\ told.baseline = plan.baseline /\ told.target = plan.target
          /\ JournalOK(t, told) /\ t \in Pending
  BY <1>0, <1>1, JournalOf
<1>6. plan.target[s] \notin Wild /\ Absent \notin Wild
  BY <1>0, <1>1, TargetOwned, WildContent DEF Work
<1>7. \/ Displaced(s) /\ recovery' = [recovery EXCEPT ![t][s] = old] /\ home' = [home EXCEPT ![s] = Absent]
         /\ job' = [job EXCEPT !.moved = job.moved \cup {s}]
      \/ UNCHANGED <<recovery, home, job>>
  BY <1>1, <1>2, <1>3 DEF KeepLive
<1>8. /\ home' \in Layout /\ \A u \in Slot : u # s => home'[u] = home[u]
      /\ recovery' \in [Tx -> Layout]
      /\ \A v \in Tx, u \in Slot : v # t \/ u # s => recovery'[v][u] = recovery[v][u]
  <2>1. CASE recovery' = [recovery EXCEPT ![t][s] = old] /\ home' = [home EXCEPT ![s] = Absent]
    BY <1>0, <2>1, WildContent DEF Layout
  <2>2. CASE UNCHANGED <<recovery, home, job>>
    BY <1>0, <2>2
  <2> QED  BY <1>7, <2>1, <2>2
<1>9. /\ job' \in Jobs /\ job' # NoJob /\ job'.tx = t /\ job'.plan = plan /\ job'.mode = job.mode
      /\ job'.route = job.route /\ job'.slot = s /\ job'.seen = job.seen
  <2>1. CASE job' = [job EXCEPT !.moved = job.moved \cup {s}]
    BY <1>0, <1>1, <1>2, <2>1, ActiveHomeConstants DEF Jobs
  <2>2. CASE UNCHANGED job
    BY <1>0, <1>1, <1>2, <2>2
  <2> QED  BY <1>7, <2>1, <2>2
<1>10. ASSUME Displaced(s), old \in Wild \ waived PROVE tombstone[t][s] = old
  <2>1. job.seen[s] = old /\ plan.baseline[s] = old
    BY <1>4, <1>6, <1>10 DEF Same
  <2>2. tombstone[t][s] # Absent
    BY <1>1, <1>10, <2>1 DEF Displaced
  <2> QED  BY <1>5, <1>10, <2>1, <2>2 DEF JournalOK, Same
<1>11. Keeps
  <2>1. CASE Displaced(s) /\ recovery' = [recovery EXCEPT ![t][s] = old] /\ home' = [home EXCEPT ![s] = Absent]
    <3>1. ASSUME NEW c \in Wild, Kept(c), c \notin waived PROVE Kept(c)'
      <4>1. CASE c = old
        BY <1>0, <1>10, <2>1, <3>1, <4>1 DEF Kept
      <4>2. CASE c # old
        BY <1>0, <1>3, <1>8, <3>1, <4>2 DEF Kept
      <4> QED  BY <4>1, <4>2
    <3> QED  BY <1>0, <3>1 DEF Keeps, history
  <2>2. CASE UNCHANGED <<recovery, home, job>>
    BY <1>0, <2>2 DEF Keeps, Kept
  <2> QED  BY <1>7, <2>1, <2>2
<1>12. Copies'
  <2>1. CASE Displaced(s) /\ recovery' = [recovery EXCEPT ![t][s] = old]
    <3> SUFFICES ASSUME NEW v \in Tx, NEW u \in Slot, recovery'[v][u] \in Wild \ waived'
                 PROVE  Kept(recovery[v][u])'
      BY DEF Copies
    <3>1. CASE v = t /\ u = s
      <4>1. recovery'[v][u] = old
        BY <1>0, <2>1, <3>1 DEF Layout
      <4>2. tombstone'[t][s] = old
        BY <1>0, <1>10, <2>1, <4>1 DEF history
      <4> QED  BY <4>1, <4>2 DEF Kept
    <3>2. CASE v # t \/ u # s
      <4>1. PICK c : c = recovery[v][u]
        OBVIOUS
      <4>2. recovery'[v][u] = c
        BY <1>8, <3>2, <4>1
      <4>3. Kept(c) /\ c \in Wild \ waived'
        BY <1>0, <4>1, <4>2 DEF HomeInv, OfFiles, OfHome, Copies, history
      <4>4. Kept(c)'
        BY <1>11, <4>3 DEF Keeps
      <4> QED  BY <4>2, <4>4
    <3> QED  BY <3>1, <3>2
  <2>2. CASE UNCHANGED <<recovery, home, job>>
    BY <1>0, <1>11, <2>2, CopiesKept DEF HomeInv, OfFiles, OfHome, history
  <2> QED  BY <1>7, <2>1, <2>2
<1>13. Calm => \A u \in Slot : Whole(t, plan, u)'
  <2>1. ASSUME Calm, NEW u \in Slot PROVE Whole(t, plan, u)'
    <3>1. Whole(t, plan, u) /\ tombstone'[t][u] = tombstone[t][u]
      BY <1>0, <1>4, <2>1
    <3>2. CASE u # s \/ UNCHANGED home
      BY <1>8, <3>1, <3>2 DEF Whole
    <3>3. CASE u = s /\ Displaced(s) /\ home' = [home EXCEPT ![s] = Absent]
      <4>1. home'[s] = Absent
        BY <1>0, <3>3 DEF Layout
      <4>2. old = job.seen[s]
        BY <1>4, <2>1 DEF Same, Calm, HomeInv, OfFiles, OfHome, Untouching
      <4>3. tombstone[t][s] = Absent => plan.baseline[s] = Absent
        BY <1>1, <1>3, <3>1, <3>3, <4>2 DEF Displaced, Whole
      <4> QED  BY <3>1, <3>3, <4>1, <4>3 DEF Whole
    <3> QED  BY <1>7, <3>2, <3>3
  <2> QED  BY <2>1
<1>14. OfFiles' /\ Pending' = Pending /\ CPending' = CPending
  <2>1. Calm => \A u \in Slot : Whole(t, told, u)'
    BY <1>5, <1>13 DEF Whole
  <2> QED  BY <1>0, <1>1, <1>5, <1>12, <2>1, FilesMoved DEF JournalOK
<1>15. HomeTypeOK'
  BY <1>0, <1>8, <1>9 DEF HomeInv, HomeTypeOK, credentials, history
<1>16. Control' /\ Listed' /\ Alone'
  BY <1>0, <1>1, <1>9, <1>14 DEF HomeInv, OfOwner, Control, Listed, Alone, Forward, Backward, history
<1>17. Work(t, plan)'
  <2>1. OfState(plan)'
    BY <1>0, <1>1, <1>9 DEF Work, OfState, Before, After, Forward, Backward, history
  <2>2. OfJournals(t, plan)'
    BY <1>0, <1>1, <1>9, <1>14 DEF Work, OfJournals, Sealed, credentials
  <2>3. s = "token" => Same(home["document"], job.seen["document"])'
    BY <1>0, <1>4, <1>8, <1>9, Slots DEF Same, history
  <2>4. OfSlots(t, plan)'
    BY <1>0, <1>4, <1>9, <1>13, <2>3 DEF OfSlots, Calm, history
  <2> QED  BY <1>0, <1>1, <1>9, <2>1, <2>2, <2>4 DEF Work, Plain, Calm, history
<1>18. Working'
  BY <1>9, <1>17 DEF Working
<1> QED  BY <1>11, <1>14, <1>15, <1>16, <1>18 DEF HomeInv, OfOwner

\* The old file moves back into its slot.
LEMMA PutBackInv == ASSUME HomeInv, NEW p \in Proc, PutBack(p) PROVE HomeInv' /\ Keeps
<1>0. /\ step = "back" /\ job # NoJob /\ job.plan.kind # "delete" /\ job \in Jobs
      /\ job.route # "commit" /\ home \in Layout /\ tombstone \in [Tx -> Layout]
      /\ UNCHANGED <<stage, recovery, backup, journal, credentials, state, control, history>>
  BY BackwardIs DEF PutBack, At, Backward, HomeInv, HomeTypeOK
<1>1. PICK t \in Tx, plan \in Plans : job.tx = t /\ job.plan = plan /\ Work(t, plan)
  BY <1>0, JobIs
<1>2. PICK s \in Slot : s = job.slot
  BY <1>0, JobType DEF HomeInv
<1>3. PICK old \in Content : old = tombstone[t][s]
  BY <1>0 DEF Layout
<1>4. /\ old # Absent /\ home[s] = Absent /\ home' = [home EXCEPT ![s] = old]
      /\ tombstone' = [tombstone EXCEPT ![t][s] = Absent]
  BY <1>1, <1>2, <1>3 DEF PutBack
<1>5. /\ home' \in Layout /\ \A u \in Slot : u # s => home'[u] = home[u]
      /\ tombstone' \in [Tx -> Layout]
      /\ \A v \in Tx, u \in Slot : v # t \/ u # s => tombstone'[v][u] = tombstone[v][u]
      /\ \A v \in Tx : v # t => tombstone'[v] = tombstone[v]
  BY <1>0, <1>4, WildContent DEF Layout
<1>6. home'[s] = old /\ tombstone'[t][s] = Absent
  BY <1>0, <1>4 DEF Layout
<1>7. PICK told \in Plans :
          /\ told = journal[t].plan /\ told.baseline = plan.baseline /\ told.target = plan.target
          /\ JournalOK(t, told) /\ t \in Pending
  BY <1>0, <1>1, JournalOf
<1>8. Keeps
  BY <1>0, <1>3, <1>4, <1>5, <1>6, WildContent DEF Keeps, Kept
<1>9. Copies'
  BY <1>0, <1>8, CopiesKept DEF HomeInv, OfFiles, OfHome, history
<1>10. Calm => \A u \in Slot : Whole(t, plan, u)'
  <2>1. Calm => \A u \in Slot : Whole(t, plan, u)
    BY <1>0, <1>1 DEF Work, OfSlots
  <2>2. Calm => old = plan.baseline[s]
    BY <1>3, <1>4, <1>7 DEF JournalOK, Same, Calm, HomeInv, OfFiles, OfHome, Untouching
  <2> QED  BY <1>5, <1>6, <2>1, <2>2 DEF Whole
<1>11. OfFiles' /\ Pending' = Pending /\ CPending' = CPending
  <2>1. Calm => \A u \in Slot : Whole(t, told, u)'
    BY <1>7, <1>10 DEF Whole
  <2>2. \A u \in Slot : tombstone'[t][u] # Absent =>
            Same(tombstone'[t][u], told.baseline[u]) /\ backup'[t][u] = Absent
    BY <1>0, <1>5, <1>6, <1>7 DEF JournalOK
  <2> QED  BY <1>0, <1>1, <1>5, <1>7, <1>9, <2>1, <2>2, FilesMoved
<1>12. HomeTypeOK'
  BY <1>0, <1>5 DEF HomeInv, HomeTypeOK, credentials, control, history
<1>13. Control' /\ Listed' /\ Alone'
  BY <1>0, <1>11 DEF HomeInv, OfOwner, Control, Listed, Alone, control, history
<1>14. Work(t, plan)'
  <2>1. OfState(plan)' /\ OfJournals(t, plan)'
    BY <1>0, <1>1, <1>11 DEF Work, OfState, OfJournals, Before, After, Sealed, control, credentials, history
  <2>2. step' = "back" /\ job' = job
    BY <1>0 DEF control
  <2>3. s = "token" => Same(home["document"], job.seen["document"])'
    BY <1>0, <1>1, <1>2, <1>5, <2>2, Slots DEF Work, OfSlots, Same, history
  <2>4. OfSlots(t, plan)'
    BY <1>0, <1>1, <1>2, <1>10, <2>2, <2>3 DEF Work, OfSlots, Calm, history
  <2> QED  BY <1>0, <1>1, <2>1, <2>2, <2>4 DEF Work, Plain, Calm, history
<1>15. Working'
  BY <1>0, <1>1, <1>14 DEF Working, control
<1> QED  BY <1>8, <1>11, <1>12, <1>13, <1>15 DEF HomeInv, OfOwner

---------------------------------------------------------------------------
(* Steps that go on in the same direction, and touch no file that counts.  *)

LEMMA GoesOn ==
    ASSUME HomeInv, step \in Backward \cup {"finalize", "clean", "discard"},
           step' \in Backward \cup {"finalize", "clean", "discard"},
           step' \in Backward => step \in Backward,
           step' \in {"finalize", "clean"} => step \in {"finalize", "clean"},
           NEW t \in Tx, NEW plan \in Plans, job.tx = t, job.plan = plan,
           job' \in Jobs, job'.tx = t, job'.plan = plan, job'.mode = job.mode, job'.route = job.route,
           UNCHANGED <<home, tombstone, backup, journal, credentials, state, session, owner, todo, history>>,
           stage' \in [Tx -> Layout], recovery' \in [Tx -> Layout],
           \A v \in Tx, u \in Slot : recovery'[v][u] \in {recovery[v][u], Absent},
           Work(t, plan) => OfSlots(t, plan)'
    PROVE  HomeInv'
<1>1. /\ job # NoJob /\ job' # NoJob /\ plan.kind # "delete" /\ step \notin Forward /\ step' \notin Forward
      /\ Work(t, plan)
  BY BackwardIs, ActiveHomeConstants DEF Backward, Forward, HomeInv, OfOwner, Working
<1>2. HomeTypeOK'
  BY DEF HomeInv, HomeTypeOK, Backward, credentials, history
<1>3. Pending' = Pending /\ CPending' = CPending
  BY DEF Pending, CPending, credentials
<1>4. OfFiles'
  <2>1. OfHome'
    BY HomeCopied DEF HomeInv, OfFiles, history
  <2>2. OfCredentials'
    BY <1>3, CredentialsKept DEF HomeInv, OfFiles, credentials, history
  <2> QED  BY <2>1, <2>2 DEF OfFiles
<1>5. Control' /\ Listed' /\ Alone'
  BY <1>1, <1>3, BackwardIs DEF HomeInv, OfOwner, Control, Listed, Alone, Forward, Backward, history
<1>6. Work(t, plan)'
  <2>1. OfState(plan)'
    BY <1>1 DEF Work, OfState, Before, After, Forward, Backward, history
  <2>2. OfJournals(t, plan)'
    BY <1>1, <1>3 DEF Work, OfJournals, Sealed, Forward, Backward, credentials
  <2>3. PlanOK(plan) /\ (Plain' => BaseRight(plan))
    BY <1>1 DEF Work, Plain, Calm, history
  <2>4. job.route = "commit" \/ step' \in {"finalize", "clean"} => Managed(plan, job.mode)
    BY <1>1 DEF Work
  <2> QED  BY <1>1, <2>1, <2>2, <2>3, <2>4 DEF Work
<1>7. Working'
  BY <1>6 DEF Working
<1> QED  BY <1>2, <1>4, <1>5, <1>7 DEF HomeInv, OfOwner

\* The next slot, the token before the document.
LEMMA NextSlotIs ==
    ASSUME HomeInv, job # NoJob, NEW steps, NEW done, NextSlot(steps, done)
    PROVE  /\ job' \in Jobs /\ job'.tx = job.tx /\ job'.plan = job.plan /\ job'.mode = job.mode
           /\ job'.route = job.route /\ job'.seen = job.seen
           /\ \/ job.slot = "token" /\ job'.slot = "document" /\ step' = steps
              \/ job.slot = "document" /\ job'.slot = "document" /\ step' = done
<1>1. job \in Jobs /\ job.slot \in {"token", "document"}
  BY JobType DEF HomeInv, Slot
<1>2. CASE job.slot = "token"
  BY <1>1, <1>2, Slots DEF NextSlot, Jobs
<1>3. CASE job.slot = "document"
  BY <1>1, <1>3 DEF NextSlot
<1> QED  BY <1>1, <1>2, <1>3

\* A slot that is put back loses its stage, and the next one is taken.
LEMMA UnstageInv == ASSUME HomeInv, NEW p \in Proc, Unstage(p) PROVE HomeInv'
<1>0. /\ step = "back" /\ job # NoJob /\ NextSlot("keep", "verify")
      /\ stage' = [stage EXCEPT ![job.tx][job.slot] = Absent]
      /\ UNCHANGED <<home, tombstone, recovery, backup, journal, credentials, state, session, owner,
                     todo, history>>
  BY BackwardIs DEF Unstage, At, Backward
<1>1. PICK t \in Tx, plan \in Plans : job.tx = t /\ job.plan = plan /\ Work(t, plan)
  BY <1>0, JobIs
<1>2. PICK s \in Slot : s = job.slot
  BY <1>0, JobType DEF HomeInv
<1>3. stage' \in [Tx -> Layout]
  BY <1>0, <1>1, <1>2, WildContent DEF HomeInv, HomeTypeOK, Layout
<1>4. /\ job' \in Jobs /\ job'.tx = t /\ job'.plan = plan /\ job'.mode = job.mode
      /\ job'.route = job.route /\ job'.seen = job.seen
      /\ \/ job.slot = "token" /\ job'.slot = "document" /\ step' = "keep"
         \/ job.slot = "document" /\ job'.slot = "document" /\ step' = "verify"
  BY <1>0, <1>1, NextSlotIs
<1>5. OfSlots(t, plan)'
  <2>1. Calm' => \A u \in Slot : Whole(t, plan, u)'
    BY <1>0, <1>1 DEF Work, OfSlots, Whole, Calm, history
  <2> QED  BY <1>0, <1>1, <1>4, <2>1 DEF Work, OfSlots, Same, history
<1>6. recovery' \in [Tx -> Layout]
  BY <1>0 DEF HomeInv, HomeTypeOK
<1> QED  BY <1>0, <1>1, <1>3, <1>4, <1>5, <1>6, GoesOn DEF Backward

\* The home is back: and with it, what State says.
LEMMA VerifyInv == ASSUME HomeInv, NEW p \in Proc, Verify(p) PROVE HomeInv'
<1>0. /\ step = "verify" /\ job # NoJob /\ home = job.plan.baseline /\ step' = "discard" /\ job \in Jobs
      /\ job.route # "commit"
      /\ UNCHANGED <<home, evidence, journal, credentials, state, session, owner, job, todo, history>>
  BY BackwardIs DEF Verify, At, Backward
<1>1. PICK t \in Tx, plan \in Plans : job.tx = t /\ job.plan = plan /\ Work(t, plan)
  BY <1>0, JobIs
<1>2. OfSlots(t, plan)'
  <2>1. Plain' => BaseRight(plan) /\ state.profile = plan.before /\ home = plan.baseline
    BY <1>0, <1>1, JobType DEF Work, OfState, Before, Backward, Plain, Calm, HomeInv, history
  <2> QED  BY <1>0, <2>1 DEF OfSlots, HomeRight, BaseRight
<1>3. stage' \in [Tx -> Layout] /\ recovery' \in [Tx -> Layout]
  BY <1>0 DEF HomeInv, HomeTypeOK, evidence
<1> QED  BY <1>0, <1>1, <1>2, <1>3, GoesOn DEF Backward, evidence

\* The copies a pass put away are dropped before its journal.
LEMMA DiscardInv == ASSUME HomeInv, NEW p \in Proc, NEW s \in Slot, Discard(p, s) PROVE HomeInv'
<1>0. /\ step = "discard" /\ job # NoJob /\ job \in Jobs
      /\ recovery' = [recovery EXCEPT ![job.tx][s] = Absent]
      /\ job' = [job EXCEPT !.moved = job.moved \ {s}]
      /\ UNCHANGED <<home, stage, tombstone, backup, journal, credentials, state, session, owner,
                     step, todo, history>>
  BY BackwardIs DEF Discard, At
<1>1. PICK t \in Tx, plan \in Plans : job.tx = t /\ job.plan = plan /\ Work(t, plan)
  BY <1>0, JobIs
<1>2. /\ job' \in Jobs /\ job'.tx = t /\ job'.plan = plan /\ job'.mode = job.mode /\ job'.route = job.route
  BY <1>0, <1>1 DEF Jobs
<1>3. OfSlots(t, plan)'
  BY <1>0, <1>1 DEF Work, OfSlots, Plain, Calm, HomeRight, history
<1>4. /\ stage' \in [Tx -> Layout] /\ recovery' \in [Tx -> Layout]
      /\ \A v \in Tx, u \in Slot : recovery'[v][u] \in {recovery[v][u], Absent}
  BY <1>0, <1>1, WildContent DEF HomeInv, HomeTypeOK, Layout
<1> QED  BY <1>0, <1>1, <1>2, <1>3, <1>4, GoesOn

---------------------------------------------------------------------------
(* Finishing.                                                              *)

\* What a finished transaction leaves in the home is what State says.
LEMMA TargetRight ==
    ASSUME HomeInv, step \in {"finalize", "clean"}, NEW t \in Tx, NEW plan \in Plans,
           job.tx = t, job.plan = plan
    PROVE  /\ Work(t, plan) /\ plan.kind # "delete" /\ Sealed(t) /\ Managed(plan, job.mode)
           /\ state.gen = plan.base + 1 /\ state.profile = plan.after /\ plan.base \in Nat
           /\ HomeOf(plan.after) = plan.target \/ plan.after = NoProfile
<1>1. Work(t, plan) /\ plan.kind # "delete" /\ job.route \in {"commit", "recover"} /\ step \notin Forward
  BY BackwardIs, JobType DEF HomeInv, OfOwner, Working, Backward
<1>2. Sealed(t) /\ Managed(plan, job.mode) /\ PlanOK(plan)
  BY <1>1 DEF Work, OfJournals
<1>3. state.gen = plan.base + 1 /\ state.profile = plan.after
  BY <1>1 DEF Work, OfState, After
<1>4. HomeOf(plan.after) = plan.target \/ plan.after = NoProfile
  BY <1>1, <1>2, PlanType, ActiveHomeConstants DEF PlanOK, HomeOf
<1> QED  BY <1>1, <1>2, <1>3, <1>4, PlanType

\* What was committed is finalized once the home is seen to be the target.
LEMMA FinalizeInv == ASSUME HomeInv, NEW p \in Proc, Finalize(p) PROVE HomeInv'
<1>0. /\ step = "finalize" /\ job # NoJob /\ job \in Jobs /\ home = job.plan.target
      /\ step' = "clean" /\ job' = [job EXCEPT !.slot = "token"]
      /\ UNCHANGED <<home, evidence, journal, credentials, state, session, owner, todo, history>>
  BY BackwardIs DEF Finalize, At
<1>1. PICK t \in Tx, plan \in Plans : job.tx = t /\ job.plan = plan /\ Work(t, plan)
  BY <1>0, JobIs
<1>2. /\ job' \in Jobs /\ job'.tx = t /\ job'.plan = plan /\ job'.mode = job.mode /\ job'.route = job.route
  BY <1>0, <1>1, Slots DEF Jobs
<1>3. OfSlots(t, plan)'
  BY <1>0, <1>1 DEF OfSlots, Same
<1>4. stage' \in [Tx -> Layout] /\ recovery' \in [Tx -> Layout]
  BY <1>0 DEF HomeInv, HomeTypeOK, evidence
<1> QED  BY <1>0, <1>1, <1>2, <1>3, <1>4, GoesOn DEF Backward, evidence

\* A tombstone is dropped, or kept as the backup of a takeover.
LEMMA CleanSlotInv == ASSUME HomeInv, NEW p \in Proc, CleanSlot(p) PROVE HomeInv'
<1>0. /\ step = "clean" /\ job # NoJob /\ NextSlot("clean", "discard")
      /\ recovery' = [recovery EXCEPT ![job.tx][job.slot] = Absent]
      /\ UNCHANGED <<home, stage, tombstone, backup, journal, credentials, state, session, owner,
                     todo, history>>
  BY BackwardIs DEF CleanSlot, At
<1>1. PICK t \in Tx, plan \in Plans : job.tx = t /\ job.plan = plan /\ Work(t, plan)
  BY <1>0, JobIs
<1>2. PICK s \in Slot : s = job.slot
  BY <1>0, JobType DEF HomeInv
<1>3. /\ stage' \in [Tx -> Layout] /\ recovery' \in [Tx -> Layout]
      /\ \A v \in Tx, u \in Slot : recovery'[v][u] \in {recovery[v][u], Absent}
  BY <1>0, <1>1, <1>2, WildContent DEF HomeInv, HomeTypeOK, Layout
<1>4. /\ job' \in Jobs /\ job'.tx = t /\ job'.plan = plan /\ job'.mode = job.mode
      /\ job'.route = job.route /\ step' \in {"clean", "discard"}
  BY <1>0, <1>1, NextSlotIs
<1>5. OfSlots(t, plan)'
  <2>1. \A u \in Slot : Same(home[u], plan.target[u])
    BY <1>0, <1>1 DEF Work, OfSlots
  <2>2. Plain => home = plan.target
    <3>1. Plain => \A u \in Slot : home[u] = plan.target[u]
      BY <2>1 DEF Same, Plain, Calm, HomeInv, OfFiles, OfHome, Untouching
    <3> QED  BY <3>1, PlanType, SameLayout DEF HomeInv, HomeTypeOK
  <2>3. Plain' => HomeRight'
    BY <1>0, <1>1, <2>2, TargetRight DEF Plain, Calm, HomeRight, history
  <2> QED  BY <1>0, <1>4, <2>1, <2>3 DEF OfSlots, Same, history
<1> QED  BY <1>0, <1>1, <1>3, <1>4, <1>5, GoesOn DEF Backward

\* An old file is deleted, or becomes the backup of a takeover.
LEMMA CleanTombstoneInv == ASSUME HomeInv, NEW p \in Proc, CleanTombstone(p) PROVE HomeInv' /\ Keeps
<1>0. /\ step = "clean" /\ job # NoJob /\ job \in Jobs
      /\ tombstone \in [Tx -> Layout] /\ backup \in [Tx -> Layout]
      /\ UNCHANGED <<home, stage, recovery, journal, credentials, state, control, history>>
  BY BackwardIs DEF CleanTombstone, At, HomeInv, HomeTypeOK
<1>1. PICK t \in Tx, plan \in Plans : job.tx = t /\ job.plan = plan /\ Work(t, plan)
  BY <1>0, JobIs
<1>2. PICK s \in Slot : s = job.slot
  BY <1>0, JobType DEF HomeInv
<1>3. PICK old \in Content : old = tombstone[t][s]
  BY <1>0 DEF Layout
<1>4. /\ old # Absent /\ tombstone' = [tombstone EXCEPT ![t][s] = Absent]
      /\ backup' = IF job.mode = "takeover" THEN [backup EXCEPT ![t][s] = old] ELSE backup
  BY <1>1, <1>2, <1>3 DEF CleanTombstone
<1>5. /\ plan.kind # "delete" /\ Sealed(t) /\ Managed(plan, job.mode) /\ state.gen = plan.base + 1
      /\ plan.base \in Nat
  BY <1>0, <1>1, TargetRight
<1>6. /\ tombstone' \in [Tx -> Layout] /\ tombstone'[t][s] = Absent
      /\ \A v \in Tx, u \in Slot : v # t \/ u # s => tombstone'[v][u] = tombstone[v][u]
      /\ \A v \in Tx : v # t => tombstone'[v] = tombstone[v]
  BY <1>0, <1>4, WildContent DEF Layout
<1>7. /\ backup' \in [Tx -> Layout]
      /\ \A v \in Tx, u \in Slot : v # t \/ u # s => backup'[v][u] = backup[v][u]
      /\ \A v \in Tx : v # t => backup'[v] = backup[v]
      /\ job.mode = "takeover" => backup'[t][s] = old
  <2>1. CASE job.mode = "takeover"
    BY <1>0, <1>4, <2>1 DEF Layout
  <2>2. CASE job.mode # "takeover"
    BY <1>0, <1>4, <2>2
  <2> QED  BY <2>1, <2>2
<1>8. PICK told \in Plans :
          /\ told = journal[t].plan /\ told.baseline = plan.baseline /\ told.target = plan.target
          /\ told.base = plan.base /\ JournalOK(t, told) /\ t \in Pending
  BY <1>0, <1>1, <1>5, JournalOf
<1>9. Same(old, plan.baseline[s]) /\ backup[t][s] = Absent
  BY <1>3, <1>4, <1>8 DEF JournalOK
<1>10. Keeps
  <2> SUFFICES ASSUME NEW c \in Wild, Kept(c), c \notin waived PROVE Kept(c)'
    BY <1>0 DEF Keeps, history
  <2>1. CASE c = old
    <3>1. job.mode = "takeover"
      BY <1>5, <1>9, <2>1 DEF Managed, Same
    <3> QED  BY <1>7, <2>1, <3>1 DEF Kept
  <2>2. CASE c # old
    <3>1. PICK u \in Slot : home[u] = c \/ \E v \in Tx : c \in {tombstone[v][u], backup[v][u]}
      BY DEF Kept
    <3>2. CASE home[u] = c
      BY <1>0, <3>2 DEF Kept
    <3>3. ASSUME NEW v \in Tx, c \in {tombstone[v][u], backup[v][u]}
          PROVE  c \in {tombstone'[v][u], backup'[v][u]}
      <4>1. ~(v = t /\ u = s)
        BY <1>3, <1>9, <2>2, <3>3, WildContent
      <4> QED  BY <1>6, <1>7, <3>3, <4>1
    <3> QED  BY <3>1, <3>2, <3>3 DEF Kept
  <2> QED  BY <2>1, <2>2
<1>11. Copies'
  BY <1>0, <1>10, CopiesKept DEF HomeInv, OfFiles, OfHome, history
<1>12. OfFiles' /\ Pending' = Pending /\ CPending' = CPending
  <2>1. Calm => \A u \in Slot : Sealed(t) /\ state.gen > told.base /\ home'[u] = told.target[u]
    BY <1>0, <1>1, <1>5, <1>8 DEF Work, OfSlots, Same, Calm, HomeInv, OfFiles, OfHome, Untouching
  <2>2. \A u \in Slot : tombstone'[t][u] # Absent =>
            Same(tombstone'[t][u], told.baseline[u]) /\ backup'[t][u] = Absent
    BY <1>6, <1>7, <1>8 DEF JournalOK
  <2> QED  BY <1>0, <1>1, <1>6, <1>7, <1>8, <1>11, <2>1, <2>2, FilesMoved
<1>13. HomeTypeOK'
  BY <1>0, <1>6, <1>7 DEF HomeInv, HomeTypeOK, credentials, control, history
<1>14. Control' /\ Listed' /\ Alone'
  BY <1>0, <1>12 DEF HomeInv, OfOwner, Control, Listed, Alone, control, history
<1>15. Work(t, plan)'
  <2>1. OfState(plan)' /\ OfJournals(t, plan)'
    BY <1>0, <1>1, <1>12 DEF Work, OfState, OfJournals, Before, After, Sealed, control, credentials, history
  <2>2. step' = "clean" /\ job' = job
    BY <1>0 DEF control
  <2>3. OfSlots(t, plan)'
    BY <1>0, <1>1, <2>2 DEF Work, OfSlots, Same, history
  <2> QED  BY <1>0, <1>1, <2>1, <2>2, <2>3 DEF Work, Plain, Calm, control, history
<1>16. Working'
  BY <1>0, <1>1, <1>15 DEF Working, control
<1> QED  BY <1>10, <1>12, <1>13, <1>14, <1>16 DEF HomeInv, OfOwner

\* The credential half of a removal ends as State says.
LEMMA DeletedInv == ASSUME HomeInv, NEW p \in Proc, Purge(p) \/ Undelete(p) PROVE HomeInv'
<1>0. /\ step \in {"purge", "undelete"} /\ job # NoJob /\ job.plan.kind # "switch" /\ Release(p, "out")
      /\ step = "purge" => job.route = "commit" /\ cred' = [cred EXCEPT ![job.plan.account] = "gone"]
      /\ step = "undelete" => job.route = "rollback" /\ cred' = [cred EXCEPT ![job.plan.account] = "live"]
      /\ cjournal' = [cjournal EXCEPT ![job.tx] = NoJournal]
      /\ UNCHANGED <<home, evidence, journal, state, history>>
  <2>1. CASE Purge(p)
    BY <2>1 DEF Purge, At, HomeInv, OfOwner, Control
  <2>2. CASE Undelete(p)
    BY <2>2 DEF Undelete, At, HomeInv, OfOwner, Control
  <2> QED  BY <2>1, <2>2
<1>1. PICK t \in Tx, plan \in Plans : job.tx = t /\ job.plan = plan /\ Work(t, plan)
  BY <1>0, JobIs
<1>2. PICK a \in Account : a = plan.account
  BY PlanType
<1>3. /\ cred' \in [Account -> {"live", "gone"} \cup Tx]
      /\ cred'[a] = IF step = "purge" THEN "gone" ELSE "live"
      /\ \A b \in Account : b # a => cred'[b] = cred[b]
  BY <1>0, <1>1, <1>2 DEF HomeInv, HomeTypeOK
<1>4. /\ cjournal' \in [Tx -> CredentialJournals \cup {NoJournal}] /\ cjournal'[t] = NoJournal
      /\ \A u \in Tx : u # t => cjournal'[u] = cjournal[u]
  BY <1>0, <1>1 DEF HomeInv, HomeTypeOK
<1>5. Pending' = Pending /\ CPending' = CPending \ {t}
  BY <1>0, <1>4 DEF Pending, CPending
<1>6. cjournal[t].account = a
  BY <1>0, <1>1, <1>2 DEF Work, OfJournals
<1>7. ~doubt => (a \in state.accounts) = (cred'[a] = "live")
  <2>1. CASE step = "purge"
    BY <1>0, <1>1, <1>2, <1>3, <2>1 DEF Work, OfState, After, Forward
  <2>2. CASE step = "undelete"
    BY <1>0, <1>1, <1>2, <1>3, <2>2 DEF Work, OfState, Before
  <2> QED  BY <1>0, <2>1, <2>2
<1>8. HomeTypeOK'
  BY <1>0, <1>3, <1>4, ReleaseIs DEF HomeInv, HomeTypeOK, evidence, history
<1>9. OfHome'
  BY <1>0, HomeKept DEF HomeInv, OfFiles, evidence, history
<1>10. OfCredentials'
  <2>1. ~overlap => CPending' = {}
    BY <1>0, <1>1, <1>5 DEF HomeInv, OfOwner, Alone
  <2>2. DeletionJournals' /\ Single'
    BY <1>0, <1>5, <2>1 DEF HomeInv, OfFiles, OfCredentials, DeletionJournals, Single, history
  <2>3. ASSUME NEW b \in Account, ~doubt, ~overlap PROVE (b \in state.accounts) = (cred'[b] = "live")
    <3>1. CASE b = a
      BY <1>7, <2>3, <3>1
    <3>2. CASE b # a
      <4>1. ~(\E u \in CPending : cjournal[u].account = b)
        BY <1>5, <1>6, <2>1, <2>3, <3>2
      <4> QED  BY <1>3, <2>3, <3>2, <4>1 DEF HomeInv, OfFiles, OfCredentials, Credentials
    <3> QED  BY <3>1, <3>2
  <2>4. Credentials'
    BY <1>0, <2>3 DEF Credentials, history
  <2> QED  BY <2>2, <2>4 DEF OfCredentials
<1> QED  BY <1>0, <1>8, <1>9, <1>10, ReleaseIs DEF HomeInv, OfFiles

---------------------------------------------------------------------------
(* The theorems.                                                           *)

LEMMA HomeInit == Init => HomeInv
<1> SUFFICES ASSUME Init PROVE HomeInv
  OBVIOUS
<1>1. /\ Pending = {} /\ CPending = {}
      /\ stage = [t \in Tx |-> Empty] /\ tombstone = stage /\ recovery = stage /\ backup = stage
      /\ owner = Nobody /\ step = "idle" /\ job = NoJob /\ todo = {}
      /\ failures = 0 /\ writes = 0 /\ waived = {} /\ doubt = FALSE /\ bumped = FALSE /\ overlap = FALSE
  BY DEF Init, Pending, CPending
<1>2. /\ state \in [gen : {1}, accounts : {Account}, profile : Account \cup {NoProfile}]
      /\ state.accounts = Account /\ state.profile \in Account \cup {NoProfile}
      /\ \A a \in Account : cred[a] = "live"
  BY DEF Init
<1>3. home \in Layout /\ HomeRight
  <2>1. home \in IF state.profile # NoProfile THEN {HomeOf(state.profile)}
                 ELSE {Owned[a] : a \in Account}
                      \cup {l \in Layout : \A s \in Slot : l[s] \in Foreign[s] \cup {Absent}}
    BY DEF Init
  <2>2. CASE state.profile # NoProfile
    BY <1>2, <2>1, <2>2, Layouts DEF HomeRight
  <2>3. CASE state.profile = NoProfile
    BY <2>1, <2>3, Layouts DEF HomeRight
  <2> QED  BY <2>2, <2>3
<1>4. HomeTypeOK
  <2>1. stage \in [Tx -> Layout]
    BY <1>1, Layouts
  <2>2. state \in [gen : 1 .. MaxGen, accounts : SUBSET Account, profile : Account \cup {NoProfile}]
    <3>1. 1 \in 1 .. MaxGen
      BY ActiveHomeConstants
    <3> QED  BY <1>2, <3>1
  <2>3. /\ journal \in [Tx -> Journals \cup {NoJournal}]
        /\ cjournal \in [Tx -> CredentialJournals \cup {NoJournal}]
        /\ cred \in [Account -> {"live", "gone"} \cup Tx]
        /\ session \in [Proc -> {"out", "recovered", "ready", "saved"}]
    BY DEF Init
  <2>4. failures \in Nat /\ writes \in Nat /\ failures + writes <= MaxFaults
    BY <1>1, ActiveHomeConstants
  <2> QED  BY <1>1, <1>3, <2>1, <2>2, <2>3, <2>4 DEF HomeTypeOK
<1>5. OfHome
  <2>1. Copies
    BY <1>1, Layouts, WildContent DEF Copies
  <2> QED  BY <1>1, <1>2, <1>3, <2>1 DEF OfHome, HomeJournals, Current, Settled, Untouching
<1>6. OfCredentials
  BY <1>1, <1>2 DEF OfCredentials, DeletionJournals, Credentials, Single
<1>7. OfOwner
  BY <1>1 DEF OfOwner, Control, Listed, Alone, Working
<1> QED  BY <1>4, <1>5, <1>6, <1>7 DEF HomeInv, OfFiles

\* A step that touches neither the home nor what was moved aside keeps all.
LEMMA KeepsAll == ASSUME UNCHANGED <<home, tombstone, backup>> PROVE Keeps
BY DEF Keeps, Kept

\* Every step keeps the invariant, and what sagy did not write.
LEMMA HomeStep == HomeInv /\ [Next]_vars => HomeInv' /\ Keeps
<1> SUFFICES ASSUME HomeInv, [Next]_vars PROVE HomeInv' /\ Keeps
  OBVIOUS
<1>1. CASE UNCHANGED vars
  <2>1. HomeTypeOK'
    BY <1>1 DEF HomeInv, HomeTypeOK, vars, evidence, credentials, control, history
  <2>2. OfFiles'
    BY <1>1, FilesKept DEF HomeInv, vars, evidence, credentials, history
  <2>3. Control' /\ Listed' /\ Alone'
    BY <1>1 DEF HomeInv, OfOwner, Control, Listed, Alone, Pending, CPending, vars, credentials, control, history
  <2>4. ASSUME NEW t \in Tx, NEW plan \in Plans, Work(t, plan) PROVE Work(t, plan)'
    BY <1>1, <2>4 DEF Work, OfState, OfJournals, OfSlots, Plain, Calm, Before, After, Pending, CPending,
         Sealed, Same, Whole, HomeRight, BaseRight, vars, evidence, credentials, control, history
  <2>5. Working'
    BY <1>1, <2>4 DEF HomeInv, OfOwner, Working, vars, control
  <2>6. Keeps
    BY <1>1, KeepsAll DEF vars, evidence
  <2> QED  BY <2>1, <2>2, <2>3, <2>5, <2>6 DEF HomeInv, OfOwner
<1>2. ASSUME NEW s \in Slot, NEW c \in Foreign[s] \cup {Absent}, ForeignWrite(s, c)
      PROVE  HomeInv' /\ Keeps
  BY <1>2, ForeignWriteInv
<1>3. ASSUME NEW p \in Proc, Close(p) \/ OrdinaryCommit(p) PROVE HomeInv' /\ Keeps
  BY <1>3, CloseInv, OrdinaryCommitInv, KeepsAll DEF Close, OrdinaryCommit, evidence
<1>4. ASSUME NEW p \in Proc, NEW t \in Tx, NEW a \in Account, Remove(p, t, a) PROVE HomeInv' /\ Keeps
  <2>1. UNCHANGED <<home, tombstone, backup>>
    BY <1>4 DEF Remove, Begin
  <2> QED  BY <1>4, <2>1, RemoveInv, KeepsAll
<1>5. ASSUME NEW p \in Proc, NEW a \in Account, NEW mode \in {"adopt", "takeover"},
             SwitchRefused(p, a, mode) \/ \E t \in Tx : Switch(p, t, a, mode)
      PROVE  HomeInv' /\ Keeps
  <2>1. mode \in Modes
    BY DEF Modes
  <2>2. UNCHANGED <<home, tombstone, backup>>
    BY <1>5 DEF Switch, SwitchRefused, Begin
  <2> QED  BY <1>5, <2>1, <2>2, SwitchInv, SwitchRefusedInv, KeepsAll
<1>6. ASSUME NEW p \in Proc, Refused(p) \/ WriteJournal(p) \/ MoveCredential(p) \/ Publish(p) \/ Seal(p)
      PROVE  HomeInv' /\ Keeps
  <2>1. UNCHANGED <<home, tombstone, backup>>
    BY <1>6 DEF Refused, WriteJournal, MoveCredential, Publish, Seal, evidence
  <2> QED  BY <1>6, <2>1, RefusedInv, WriteJournalInv, MoveCredentialInv, PublishInv, SealInv, KeepsAll
<1>7. ASSUME NEW p \in Proc, NEW s \in Slot, WriteStage(p, s) \/ MoveAside(p, s) \/ Place(p, s) \/ Discard(p, s)
      PROVE  HomeInv' /\ Keeps
  <2>1. CASE WriteStage(p, s) \/ Discard(p, s)
    <3>1. UNCHANGED <<home, tombstone, backup>>
      BY <2>1 DEF WriteStage, Discard
    <3> QED  BY <2>1, <3>1, WriteStageInv, DiscardInv, KeepsAll
  <2> QED  BY <1>7, <2>1, MoveAsideInv, PlaceInv
<1>8. ASSUME NEW p \in Proc, Commit(p) \/ CommitFails(p) \/ Check(p) \/ Unstage(p) \/ Verify(p)
      PROVE  HomeInv' /\ Keeps
  <2>1. UNCHANGED <<home, tombstone, backup>>
    BY <1>8 DEF Commit, CommitFails, Check, Unstage, Verify, evidence
  <2> QED  BY <1>8, <2>1, CommitInv, CommitFailsInv, CheckInv, UnstageInv, VerifyInv, KeepsAll
<1>9. ASSUME NEW p \in Proc, KeepLive(p) \/ PutBack(p) \/ CleanTombstone(p) PROVE HomeInv' /\ Keeps
  BY <1>9, KeepLiveInv, PutBackInv, CleanTombstoneInv
<1>10. ASSUME NEW p \in Proc, RemoveJournal(p) \/ Finalize(p) \/ CleanStage(p) \/ CleanSlot(p) \/ Purge(p) \/ Undelete(p)
       PROVE  HomeInv' /\ Keeps
  <2>1. UNCHANGED <<home, tombstone, backup>>
    BY <1>10 DEF RemoveJournal, Finalize, CleanStage, CleanSlot, Purge, Undelete, evidence
  <2> QED  BY <1>10, <2>1, RemoveJournalInv, FinalizeInv, CleanStageInv, CleanSlotInv, DeletedInv, KeepsAll
<1>11. ASSUME NEW p \in Proc, RecoverHome(p) \/ HomeRecovered(p) \/ RecoverCredentials(p) \/ CredentialsRecovered(p)
       PROVE  HomeInv' /\ Keeps
  <2>1. UNCHANGED <<home, tombstone, backup>>
    BY <1>11 DEF RecoverHome, HomeRecovered, RecoverCredentials, CredentialsRecovered, evidence
  <2> QED  BY <1>11, <2>1, RecoverInv, HomeRecoveredInv, CredentialsRecoveredInv, KeepsAll
<1>12. ASSUME NEW p \in Proc, NEW t \in Tx, TakeJournal(p, t) \/ DecideCredential(p, t) PROVE HomeInv' /\ Keeps
  <2>1. UNCHANGED <<home, tombstone, backup>>
    BY <1>12 DEF TakeJournal, DecideCredential, evidence
  <2> QED  BY <1>12, <2>1, TakeJournalInv, DecideCredentialInv, KeepsAll
<1>13. ASSUME NEW p \in Proc, Refuse(p) \/ CallFails(p) \/ Stuck(p) \/ Kill(p) PROVE HomeInv' /\ Keeps
  <2>1. UNCHANGED <<home, tombstone, backup>>
    BY <1>13 DEF Refuse, CallFails, Stuck, Kill, evidence
  <2> QED  BY <1>13, <2>1, RefuseInv, CallFailsInv, StuckInv, KillInv, KeepsAll
<1> QED  BY <1>1, <1>2, <1>3, <1>4, <1>5, <1>6, <1>7, <1>8, <1>9, <1>10, <1>11, <1>12, <1>13 DEF Next

\* The inductive invariant holds, whatever is killed, fails or is written by agy.
THEOREM HomeInvariant == Spec => []HomeInv
<1>1. Init => HomeInv
  BY HomeInit
<1>2. HomeInv /\ [Next]_vars => HomeInv'
  BY HomeStep
<1> QED  BY <1>1, <1>2, PTL DEF Spec

\* Every variable keeps its type, and every journal is whole.
THEOREM HomeTypes == Spec => []HomeTypeOK
<1>1. HomeInv => HomeTypeOK
  BY DEF HomeInv
<1> QED  BY <1>1, HomeInvariant, PTL

\* Once nothing is under way and no journal is left, home, State and the
\* credential files tell the same story.
THEOREM HomesAgree == Spec => []HomeAgrees
<1>1. HomeInv => HomeAgrees
  <2> SUFFICES ASSUME HomeInv, owner = Nobody, Pending \cup CPending = {}, writes = 0, ~doubt, ~overlap
               PROVE  Agreed
    BY DEF HomeAgrees
  <2>1. state.profile # NoProfile => state.profile \in state.accounts
    BY DEF HomeInv, OfFiles, OfHome, Current
  <2>2. \A a \in Account : (a \in state.accounts) = (cred[a] = "live")
    BY DEF HomeInv, OfFiles, OfCredentials, Credentials
  <2>3. HomeRight
    BY DEF HomeInv, OfFiles, OfHome, Settled, Plain, Calm
  <2> QED  BY <2>1, <2>2, <2>3 DEF Agreed, HomeRight
<1> QED  BY <1>1, HomeInvariant, PTL

\* Every journal a kill leaves behind can be decided by the next command.
THEOREM JournalsDecided == Spec => []PendingDecided
<1>1. HomeInv => PendingDecided
  <2> SUFFICES ASSUME HomeInv, owner = Nobody, writes = 0, ~bumped, ~overlap
               PROVE  /\ \A t \in Pending : Decision(t).to # "stuck"
                      /\ \A t \in Pending, s \in Slot : Explained(journal[t].plan, t, s)
                      /\ \A t \in CPending : CredentialDecision(t) # "stuck"
    BY DEF PendingDecided
  <2>1. ASSUME NEW t \in Pending PROVE \A s \in Slot : Explained(journal[t].plan, t, s)
    <3>1. JournalOK(t, journal[t].plan)
      BY DEF HomeInv, OfFiles, OfHome, HomeJournals
    <3> QED  BY <3>1 DEF JournalOK, Calm, Whole, Explained
  <2>2. ASSUME NEW t \in Pending PROVE Decision(t).to # "stuck"
    <3> DEFINE plan == journal[t].plan
               clear == \A s \in Slot : Explained(plan, t, s)
               before == [revision |-> plan.base, profile |-> plan.before]
               after == [revision |-> plan.base + 1, profile |-> plan.after]
    <3>1. Decision(t) =
            CASE ~Sealed(t) -> [to |-> "check", mode |-> "strict"]
              [] Sealed(t) /\ clear /\ Authority = after -> [to |-> "finalize", mode |-> plan.mode]
              [] Sealed(t) /\ clear /\ Authority = before ->
                    [to |-> "check", mode |-> IF plan.baseline = plan.target THEN "adopt" ELSE "takeover"]
              [] OTHER -> [to |-> "stuck", mode |-> "strict"]
      BY DEF Decision, Sealed
    <3>2. clear
      BY <2>1
    <3>3. Authority = before \/ (Sealed(t) /\ Authority = after)
      BY DEF HomeInv, OfFiles, OfHome, HomeJournals, JournalOK, Authority
    <3>4. after # before
      <4>1. plan.base # plan.base + 1
        BY JournalType, PlanType DEF HomeInv
      <4> QED  BY <4>1
    <3> HIDE DEF clear, before, after, plan
    <3> QED  BY <3>1, <3>2, <3>3, <3>4
  <2>3. ASSUME NEW t \in CPending PROVE CredentialDecision(t) # "stuck"
    <3> DEFINE a == cjournal[t].account
               base == cjournal[t].base
    <3>1. \/ state.gen = base /\ a \in state.accounts
          \/ state.gen = base + 1 /\ a \notin state.accounts /\ cred[a] # "live"
      BY DEF HomeInv, OfFiles, OfCredentials, DeletionJournals, CredentialJournalOK
    <3> QED  BY <3>1 DEF CredentialDecision
  <2> QED  BY <2>1, <2>2, <2>3
<1> QED  BY <1>1, HomeInvariant, PTL

\* No step of sagy destroys a credential it did not write.
THEOREM ForeignsKept == Spec => ForeignKept
<1>1. HomeInv /\ [Next]_vars =>
        [\A c \in UNION {Foreign[s] : s \in Slot} :
            Somewhere(c) /\ writes' = writes => Somewhere(c)' \/ c \in waived]_vars
  <2> SUFFICES ASSUME HomeInv, [Next]_vars, NEW c \in Wild, Somewhere(c), writes' = writes, c \notin waived
               PROVE  Somewhere(c)'
    BY DEF Wild
  <2>1. waived' = waived
    <3>1. writes + 1 # writes
      BY DEF HomeInv, HomeTypeOK
    <3>2. \A s \in Slot : \A d \in Foreign[s] \cup {Absent} : ~ForeignWrite(s, d)
      BY <3>1 DEF ForeignWrite
    <3>3. ASSUME NEW p \in Proc, NEW t \in Tx, NEW a \in Account,
                 \/ Remove(p, t, a)
                 \/ \E mode \in {"adopt", "takeover"} : Switch(p, t, a, mode)
          PROVE  waived' = waived
      BY <3>3 DEF history, Remove, Begin, Switch
    <3>10. ASSUME NEW p \in Proc, NEW t \in Tx, TakeJournal(p, t) \/ DecideCredential(p, t)
           PROVE  waived' = waived
      BY <3>10 DEF history, TakeJournal, DecideCredential
    <3>4. ASSUME NEW p \in Proc, NEW a \in Account, NEW mode \in {"adopt", "takeover"}, SwitchRefused(p, a, mode)
          PROVE  waived' = waived
      BY <3>4 DEF history, SwitchRefused
    <3>5. ASSUME NEW p \in Proc, NEW s \in Slot,
                 WriteStage(p, s) \/ MoveAside(p, s) \/ Place(p, s) \/ Discard(p, s)
          PROVE  waived' = waived
      BY <3>5 DEF history, WriteStage, MoveAside, Place, Discard
    <3>6. ASSUME NEW p \in Proc,
                 \/ Close(p) \/ OrdinaryCommit(p) \/ Refused(p) \/ WriteJournal(p) \/ MoveCredential(p)
                 \/ Publish(p) \/ Seal(p) \/ Commit(p) \/ CommitFails(p) \/ Check(p) \/ KeepLive(p)
          PROVE  waived' = waived
      BY <3>6 DEF history, Close, OrdinaryCommit, Refused, WriteJournal, MoveCredential, Publish, Seal,
           Commit, CommitFails, Check, KeepLive
    <3>7. ASSUME NEW p \in Proc,
                 \/ PutBack(p) \/ Unstage(p) \/ Verify(p) \/ RemoveJournal(p) \/ Finalize(p)
                 \/ CleanStage(p) \/ CleanTombstone(p) \/ CleanSlot(p) \/ Purge(p) \/ Undelete(p)
          PROVE  waived' = waived
      BY <3>7 DEF history, PutBack, Unstage, Verify, RemoveJournal, Finalize, CleanStage, CleanTombstone,
           CleanSlot, Purge, Undelete
    <3>8. ASSUME NEW p \in Proc,
                 \/ RecoverHome(p) \/ HomeRecovered(p) \/ RecoverCredentials(p) \/ CredentialsRecovered(p)
                 \/ Refuse(p) \/ CallFails(p) \/ Stuck(p) \/ Kill(p)
          PROVE  waived' = waived
      BY <3>8 DEF history, RecoverHome, HomeRecovered, RecoverCredentials, CredentialsRecovered, Refuse,
           CallFails, Stuck, Kill
    <3>9. UNCHANGED vars => waived' = waived
      BY DEF vars, history
    <3> QED  BY <3>2, <3>3, <3>4, <3>5, <3>6, <3>7, <3>8, <3>9, <3>10 DEF Next
  <2>2. Kept(c)
    <3>1. \E s \in Slot : home[s] = c \/ \E t \in Tx : c \in {tombstone[t][s], backup[t][s], recovery[t][s]}
      BY DEF Somewhere
    <3> QED  BY <3>1 DEF Kept, HomeInv, OfFiles, OfHome, Copies
  <2>3. Kept(c)'
    BY <2>1, <2>2, HomeStep DEF Keeps
  <2> QED  BY <2>3 DEF Kept, Somewhere
<1> QED  BY <1>1, HomeInvariant, PTL DEF ForeignKept, Spec

=============================================================================
