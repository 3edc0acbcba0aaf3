------------------------ MODULE CredentialStoreProofs ------------------------
(***************************************************************************)
(* That a credential transaction keeps the files of an account and its     *)
(* State together, for every number of commands, transactions, commits,    *)
(* kills and kinds of material.  What a drift may look like depends on how *)
(* far the job of the lock's holder is, so CredInv says it per step.       *)
(***************************************************************************)
EXTENDS CredentialStore, FiniteSetTheorems, TLAPS

(***************************************************************************)
(* The inductive invariant.                                                *)
(***************************************************************************)

\* What a plan is, whenever it was made: an import leaves one slot, a plan of v2
\* starts from the layout State names, an empty transaction of v1 from nothing.
PlanOK(plan) ==
    /\ plan.afterRef = LayoutRef(plan.after) /\ plan.base < MaxGen
    /\ plan.after = Empty \/ \E m \in Material : plan.after = Only(m)
    /\ (plan.after["token"] # Absent) => plan.before["document"] = Absent
    /\ plan.base > 0 => /\ plan.beforeRef = LayoutRef(plan.before)
                        /\ \E s \in Slot : plan.before[s] = Absent
    /\ plan.base = 0 => /\ plan.beforeRef = NoRef
                        /\ Deleting(plan) => plan.before = Empty

Plain == \A t \in Tx : Written(t) => PlanOK(Plan(t))

\* Where the holder of the lock is, and what it holds.
Quiet == {"idle", "updates", "journals"}
Control ==
    /\ owner = Nobody <=> step = "idle"
    /\ job = NoJob <=> step \in Quiet
    /\ job # NoJob =>
        /\ step \in {"quarantine", "stage", "move", "replace", "commit"} => job.route = "commit"
        /\ step \in Slot => job.route # "commit" /\ job.phase = "restored"
        /\ step = "phase" => job.phase # "prepared" /\ (job.phase = "restored" <=> job.route # "commit")

\* An update is the owner's own; recovery has removed the others.
Updates ==
    /\ step = "journals" => \A t \in Tx : update[t] = Absent
    /\ job # NoJob =>
        /\ step # "phase" => update[job.tx] = Absent
        /\ step = "phase" => update[job.tx] \in {Absent, [plan |-> job.plan, phase |-> job.phase]}
        /\ job.route = "recover" => \A t \in Tx : t # job.tx => update[t] = Absent

\* A recovery knows every journal, and no stage is left without one.
Listed ==
    step = "journals" \/ (job # NoJob /\ job.route = "recover") =>
        \A t \in Tx :
            /\ journal[t] # Absent => t \in todo \/ (job # NoJob /\ t = job.tx)
            /\ journal[t] = Absent => evidence[t]["stage"] = Absent

\* State has the reference from before the transaction, as far as it says one.
Reverted(plan) == state.gen = 0 \/ doubt \/ state.ref = plan.beforeRef
Within(plan, s) == live[s] \in {plan.before[s], plan.after[s]}
MovedAside(t, plan) ==
    plan.before[Leaving(plan)] # Absent =>
        evidence[t][Tombstone[Leaving(plan)]] = plan.before[Leaving(plan)]
InPhase(phase) == step = "phase" /\ job.phase = phase

Work(t, plan) ==
    /\ PlanOK(plan)
    /\ IF step \in {"quarantine", "stage"}
       THEN journal[t] = Absent /\ \A k \in Evidence : evidence[t][k] \in {Absent, Staged(plan)[k]}
       ELSE Written(t) /\ Plan(t) = plan
    /\ job.route = "commit" /\ step # "clean" => state.gen = plan.base /\ state.ref = plan.beforeRef
    /\ step = "quarantine" => state.gen = 0 /\ plan.before = Empty /\ plan.after = Empty
    /\ step \in {"stage", "move"} => live = plan.before
    /\ step = "move" => evidence[t] = Staged(plan)
    /\ step = "replace" \/ InPhase("opposite_moved") =>
        /\ ~Deleting(plan) /\ plan.before[Leaving(plan)] # Absent
        /\ live = [plan.before EXCEPT ![Leaving(plan)] = Absent]
        /\ evidence[t] = [Staged(plan) EXCEPT ![Tombstone[Leaving(plan)]] = plan.before[Leaving(plan)]]
    /\ step = "commit" \/ InPhase("published") =>
        live = plan.after /\ Rebuilds(t) /\ MovedAside(t, plan)
    /\ step = "token" => Rebuilds(t) /\ (\A s \in Slot : Within(plan, s)) /\ Reverted(plan)
    /\ step = "document" => live["token"] = plan.before["token"] /\ Within(plan, "document") /\ Reverted(plan)
    /\ InPhase("restored") => live = plan.before /\ Reverted(plan)
    /\ step = "clean" => \/ live = plan.before /\ Reverted(plan)
                         \/ live = plan.after /\ state.gen > 0 /\ state.ref = plan.afterRef

Working ==
    \A t \in Tx, plan \in Plans :
        (job # NoJob /\ job.tx = t /\ job.plan = plan) => Work(t, plan)

\* Without overlap there is one journal at most, that of the job under way.
Single ==
    ~overlap => /\ \A t, u \in Tx : journal[t] # Absent /\ journal[u] # Absent => t = u
                /\ job # NoJob => \A t \in Tx : journal[t] # Absent => t = job.tx

Backed(t) == \A s \in Slot : Plan(t).before[s] # Absent => evidence[t][Backup[s]] = Plan(t).before[s]

\* ReferencedKept, and what holds the credential.
Shown(ref) == \E s \in Slot : live[s] # Absent /\ Ref(live[s]) = ref
Safe ==
    (state.gen > 0 /\ state.ref # NoRef /\ ~doubt) =>
        \/ Shown(state.ref)
        \/ \E t \in Tx : Written(t) /\ Plan(t).beforeRef = state.ref /\ Backed(t) /\ Plan(t).base > 0

\* DriftIsJournalled, at every instant.
Rest ==
    (state.gen > 0 /\ ~doubt /\ ~overlap) =>
        \/ LayoutRef(live) = state.ref
        \/ \E t \in Tx : /\ Written(t) /\ Rebuilds(t)
                         /\ state.ref \in {Plan(t).beforeRef, Plan(t).afterRef}

\* A token that was moved away is in its tombstone as long as its backup is there.
Moved ==
    ~overlap => \A t \in Tx :
        (/\ Written(t) /\ Backed(t) /\ Plan(t).after["document"] # Absent
         /\ Plan(t).before["token"] # Absent /\ live["token"] = Absent) =>
            evidence[t]["token_tombstone"] = Plan(t).before["token"]

\* A v1 account's journal that outlives v1 is that of the commit that made it v2.
Upgraded ==
    (state.gen > 0 /\ ~doubt /\ ~overlap) =>
        \A t \in Tx : Written(t) /\ Plan(t).base = 0 => state.ref = Plan(t).afterRef

Agreed(l) == \A s \in Slot : l[s] = original[s] \/ original[s] \in aside
Legacy ==
    /\ state.gen = 0 => state.ref = NoRef
    /\ (state.gen = 0 /\ ~overlap) =>
        /\ (\A t \in Tx : ~Written(t)) => Agreed(live)
        /\ \A t \in Tx : Written(t) =>
            /\ Agreed(Plan(t).before)
            /\ \A s \in Slot : Plan(t).before[s] # Absent =>
                Plan(t).before[s] \in {live[s], evidence[t][Backup[s]]}

CredInv ==
    /\ CredTypeOK /\ Plain /\ Control /\ Updates /\ Listed /\ Working /\ Single
    /\ Safe /\ Rest /\ Moved /\ Upgraded /\ Legacy

-----------------------------------------------------------------------------
(* Layouts, references and plans.                                          *)

\* The two slots of a layout, each with its own kind of file or none.
LEMMA LayoutValue ==
    ASSUME NEW l \in Layout
    PROVE  /\ l \in [Slot -> Material \cup {Absent}]
           /\ l["token"] \in Material \cup {Absent} /\ l["document"] \in Material \cup {Absent}
           /\ \A s \in Slot : l[s] # Absent => l[s].slot = s
BY DEF Layout, Slot

\* A layout is what its two slots hold.
LEMMA SameLayout ==
    ASSUME NEW l \in Layout, NEW m \in Layout,
           l["token"] = m["token"], l["document"] = m["document"]
    PROVE  l = m
BY LayoutValue DEF Slot

\* The layout without files.
LEMMA EmptyLayout == Empty \in Layout /\ Empty["token"] = Absent /\ Empty["document"] = Absent
BY DEF Empty, Layout, Slot

\* The layout an import leaves: one file, in the slot of its kind.
LEMMA OnlyLayout ==
    ASSUME NEW m \in Material
    PROVE  /\ Only(m) \in Layout /\ Only(m)[m.slot] = m /\ m \in Material /\ m # Absent
           /\ \A s \in Slot : s # m.slot => Only(m)[s] = Absent
BY CredentialConstants DEF Only, Empty, Layout, Slot

\* A layout with one file has its reference, any other none.
LEMMA LayoutRefIs ==
    ASSUME NEW l \in Layout
    PROVE  /\ l["token"] # Absent /\ l["document"] = Absent => LayoutRef(l) = Ref(l["token"])
           /\ l["document"] # Absent /\ l["token"] = Absent => LayoutRef(l) = Ref(l["document"])
           /\ l["token"] = Absent /\ l["document"] = Absent => LayoutRef(l) = NoRef
           /\ l["token"] # Absent /\ l["document"] # Absent => LayoutRef(l) = NoRef
<1> DEFINE S == {s \in Slot : l[s] # Absent}
<1>0. LayoutRef(l) = IF Cardinality(S) = 1 THEN Ref(l[CHOOSE s \in Slot : l[s] # Absent]) ELSE NoRef
  BY DEF LayoutRef
<1>1. CASE l["token"] # Absent /\ l["document"] = Absent
  <2>1. S = {"token"} /\ (CHOOSE s \in Slot : l[s] # Absent) = "token"
    BY <1>1 DEF Slot
  <2> QED  BY <1>0, <1>1, <2>1, FS_Singleton
<1>2. CASE l["document"] # Absent /\ l["token"] = Absent
  <2>1. S = {"document"} /\ (CHOOSE s \in Slot : l[s] # Absent) = "document"
    BY <1>2 DEF Slot
  <2> QED  BY <1>0, <1>2, <2>1, FS_Singleton
<1>3. CASE l["token"] = Absent /\ l["document"] = Absent
  <2>1. S = {}
    BY <1>3 DEF Slot
  <2> QED  BY <1>0, <1>3, <2>1, FS_EmptySet
<1>4. CASE l["token"] # Absent /\ l["document"] # Absent
  <2>1. S = {"token"} \cup {"document"} /\ "document" \notin {"token"}
    BY <1>4 DEF Slot
  <2>2. IsFiniteSet({"token"}) /\ Cardinality({"token"}) = 1
    BY FS_Singleton
  <2>3. Cardinality({"token"} \cup {"document"}) = 1 + 1
    BY <2>1, <2>2, FS_AddElement
  <2> QED  BY <1>0, <1>4, <2>1, <2>3
<1> QED  BY <1>1, <1>2, <1>3, <1>4

\* A reference is that of a slot whose opposite is empty.
LEMMA LayoutRefType ==
    ASSUME NEW l \in Layout
    PROVE  /\ LayoutRef(l) \in Refs
           /\ LayoutRef(l) # NoRef =>
                \E s \in Slot : l[s] # Absent /\ Ref(l[s]) = LayoutRef(l) /\ l[Opposite[s]] = Absent
<1>1. /\ l["token"] \in Material \cup {Absent} /\ l["document"] \in Material \cup {Absent}
      /\ Opposite["token"] = "document" /\ Opposite["document"] = "token"
  BY LayoutValue DEF Opposite
<1> QED  BY <1>1, LayoutRefIs DEF Refs, Slot

\* One file alone always has a reference.
LEMMA NonemptyLayoutRef ==
    ASSUME NEW l \in Layout, l # Empty, NEW o \in Slot, l[o] = Absent
    PROVE  LayoutRef(l) # NoRef
<1>1. l["token"] \in Material \cup {Absent} /\ l["document"] \in Material \cup {Absent}
  BY LayoutValue
<1>2. ~(l["token"] = Absent /\ l["document"] = Absent)
  BY SameLayout, EmptyLayout
<1> QED  BY <1>1, <1>2, LayoutRefIs, CredentialConstants DEF Slot

\* The five kinds of plans: an import of a document, of a token, a removal of
\* either, and one of nothing.
IsImport(plan, s, o) ==
    /\ plan.after[s] # Absent /\ plan.after[o] = Absent
    /\ ~Deleting(plan) /\ Target(plan) = s /\ Leaving(plan) = o
    /\ s = "token" => plan.before[o] = Absent
IsRemoval(plan, s, o) ==
    /\ plan.after[s] = Absent /\ plan.after[o] = Absent
    /\ plan.before[s] # Absent /\ plan.before[o] = Absent
    /\ Deleting(plan) /\ ~Purging(plan) /\ Target(plan) = s /\ Leaving(plan) = s
IsPurge(plan, s, o) ==
    /\ plan.after[s] = Absent /\ plan.after[o] = Absent
    /\ plan.before[s] = Absent /\ plan.before[o] = Absent
    /\ Deleting(plan) /\ Purging(plan) /\ Target(plan) = s /\ Leaving(plan) = s
Kind(plan, s, o) == IsImport(plan, s, o) \/ IsRemoval(plan, s, o) \/ IsPurge(plan, s, o)

\* Every plan is of one of these kinds, and its kind decides which slot is the
\* target and which one is moved away.
LEMMA PlanKind ==
    ASSUME NEW plan \in Plans, PlanOK(plan)
    PROVE  Kind(plan, "token", "document") \/ Kind(plan, "document", "token")
<1>1. plan.before \in Layout /\ plan.after \in Layout /\ plan.base \in Nat
  BY DEF Plans
<1>2. Opposite["token"] = "document" /\ Opposite["document"] = "token"
  BY DEF Opposite
<1>3. CASE plan.after = Empty
  <2>1. Deleting(plan) /\ plan.after["token"] = Absent /\ plan.after["document"] = Absent
    BY <1>3, EmptyLayout DEF Deleting
  <2>2. plan.before["token"] = Absent \/ plan.before["document"] = Absent
    BY <1>1, <2>1, EmptyLayout DEF PlanOK, Slot
  <2>3. CASE plan.before["document"] # Absent
    <3>1. Target(plan) = "document" /\ Leaving(plan) = "document" /\ ~Purging(plan)
      BY <2>1, <2>3, EmptyLayout DEF Target, Leaving, Purging
    <3> QED  BY <2>1, <2>2, <2>3, <3>1 DEF Kind, IsRemoval
  <2>4. CASE plan.before["document"] = Absent /\ plan.before["token"] # Absent
    <3>1. Target(plan) = "token" /\ Leaving(plan) = "token" /\ ~Purging(plan)
      BY <2>1, <2>4, EmptyLayout DEF Target, Leaving, Purging
    <3> QED  BY <2>1, <2>4, <3>1 DEF Kind, IsRemoval
  <2>5. CASE plan.before["document"] = Absent /\ plan.before["token"] = Absent
    <3>1. plan.before = Empty
      BY <1>1, <2>5, EmptyLayout, SameLayout
    <3>2. Target(plan) = "token" /\ Leaving(plan) = "token" /\ Purging(plan)
      BY <1>3, <2>1, <2>5, <3>1 DEF Target, Leaving, Purging
    <3> QED  BY <2>1, <2>5, <3>2 DEF Kind, IsPurge
  <2> QED  BY <2>3, <2>4, <2>5
<1>4. CASE plan.after # Empty
  <2>0. PICK m \in Material : plan.after = Only(m)
    BY <1>4 DEF PlanOK
  <2>1. ~Deleting(plan) /\ m.slot \in Slot /\ ~Purging(plan)
    BY <1>4, CredentialConstants DEF Deleting, Purging
  <2>2. CASE m.slot = "document"
    <3>1. plan.after["document"] # Absent /\ plan.after["token"] = Absent
      BY <2>0, <2>2, OnlyLayout DEF Slot
    <3>2. Target(plan) = "document" /\ Leaving(plan) = "token"
      BY <1>2, <2>1, <3>1 DEF Target, Leaving
    <3> QED  BY <2>1, <3>1, <3>2 DEF Kind, IsImport
  <2>3. CASE m.slot = "token"
    <3>1. plan.after["token"] # Absent /\ plan.after["document"] = Absent
      BY <2>0, <2>3, OnlyLayout DEF Slot
    <3>2. Target(plan) = "token" /\ Leaving(plan) = "document" /\ plan.before["document"] = Absent
      BY <1>2, <2>1, <3>1 DEF Target, Leaving, PlanOK
    <3> QED  BY <2>1, <3>1, <3>2 DEF Kind, IsImport
  <2> QED  BY <2>1, <2>2, <2>3 DEF Slot
<1> QED  BY <1>3, <1>4

\* The files a plan stages, one by one.
LEMMA StagedIs ==
    ASSUME NEW plan
    PROVE  /\ Staged(plan)["stage"] = IF Deleting(plan) THEN plan.before[Target(plan)]
                                                        ELSE plan.after[Target(plan)]
           /\ Staged(plan)["token_backup"] = plan.before["token"]
           /\ Staged(plan)["document_backup"] = plan.before["document"]
           /\ Staged(plan)["token_tombstone"] = Absent /\ Staged(plan)["document_tombstone"] = Absent
BY DEF Staged, Evidence

\* The staged files and the slots of a plan.
LEMMA StagedType ==
    ASSUME NEW plan \in Plans, PlanOK(plan)
    PROVE  /\ Staged(plan) \in [Evidence -> Material \cup {Absent}]
           /\ Target(plan) \in Slot /\ Leaving(plan) \in Slot
<1>1. plan.before \in Layout /\ plan.after \in Layout
  BY DEF Plans
<1>2. Target(plan) \in Slot /\ Leaving(plan) \in Slot
  BY PlanKind DEF Kind, IsImport, IsRemoval, IsPurge, Slot
<1> QED  BY <1>1, <1>2, LayoutValue DEF Staged, Evidence, Slot

\* The next file to write and the next to remove.
LEMMA FirstStaged ==
    ASSUME NEW plan, NEW ks \in SUBSET DOMAIN StageRank(plan), ks # {}
    PROVE  First(ks, StageRank(plan)) \in ks
<1>1. /\ DOMAIN StageRank(plan) = {"stage", "token_backup", "document_backup"}
      /\ \A k \in DOMAIN StageRank(plan) : StageRank(plan)[k] \in 1..3
  BY DEF StageRank
<1>2. \E k \in ks : \A l \in ks : StageRank(plan)[k] <= StageRank(plan)[l]
  BY <1>1
<1> QED  BY <1>2 DEF First

\* Evidence is removed in the order of its rank: what goes is the least of what is left.
LEMMA FirstKept ==
    ASSUME NEW ks \in SUBSET Evidence, ks # {}
    PROVE  /\ First(ks, CleanRank) \in ks
           /\ \A k \in ks : CleanRank[First(ks, CleanRank)] <= CleanRank[k]
<1>1. /\ CleanRank["stage"] = 1 /\ CleanRank["token_backup"] = 2 /\ CleanRank["document_backup"] = 3
      /\ CleanRank["token_tombstone"] = 4 /\ CleanRank["document_tombstone"] = 5
  BY DEF CleanRank
<1>2. \E k \in ks : \A l \in ks : CleanRank[k] <= CleanRank[l]
  <2>1. CASE "stage" \in ks
    <3>1. \A l \in ks : CleanRank["stage"] <= CleanRank[l]
      BY <1>1 DEF Evidence
    <3> QED  BY <2>1, <3>1
  <2>2. CASE "stage" \notin ks /\ "token_backup" \in ks
    <3>1. \A l \in ks : CleanRank["token_backup"] <= CleanRank[l]
      BY <1>1, <2>2 DEF Evidence
    <3> QED  BY <2>2, <3>1
  <2>3. CASE {"stage", "token_backup"} \cap ks = {} /\ "document_backup" \in ks
    <3>1. \A l \in ks : CleanRank["document_backup"] <= CleanRank[l]
      BY <1>1, <2>3 DEF Evidence
    <3> QED  BY <2>3, <3>1
  <2>4. CASE {"stage", "token_backup", "document_backup"} \cap ks = {} /\ "token_tombstone" \in ks
    <3>1. \A l \in ks : CleanRank["token_tombstone"] <= CleanRank[l]
      BY <1>1, <2>4 DEF Evidence
    <3> QED  BY <2>4, <3>1
  <2>5. CASE ks = {"document_tombstone"}
    BY <1>1, <2>5
  <2> QED  BY <2>1, <2>2, <2>3, <2>4, <2>5 DEF Evidence
<1> QED  BY <1>2 DEF First

\* The files of a slot.
LEMMA EvidenceNames ==
    /\ \A s \in Slot : Backup[s] \in Evidence /\ Tombstone[s] \in Evidence /\ Opposite[s] \in Slot
    /\ Backup["token"] = "token_backup" /\ Backup["document"] = "document_backup"
    /\ Tombstone["token"] = "token_tombstone" /\ Tombstone["document"] = "document_tombstone"
    /\ Opposite["token"] = "document" /\ Opposite["document"] = "token"
    /\ "stage" \in Evidence
BY DEF Backup, Tombstone, Opposite, Evidence, Slot

-----------------------------------------------------------------------------
(* Types.                                                                  *)

\* A transaction starts under the lock, with an identifier that no file has.
LEMMA BeginType ==
    ASSUME CredTypeOK, NEW p \in Proc, NEW first, NEW plan \in Plans, Begin(p, first, plan)
    PROVE  /\ owner = Nobody /\ owner' = p /\ step' = first
           /\ \E t \in Tx : /\ Fresh(t)
                            /\ job' = [tx |-> t, plan |-> plan, route |-> "commit", phase |-> "prepared"]
           /\ job' \in Jobs /\ overlap' \in BOOLEAN
           /\ overlap' <=> (overlap \/ \E t \in Tx : journal[t] # Absent)
           /\ UNCHANGED <<files, state, session, todo, failures, original, doubt>>
<1>1. PICK t \in Tx : Fresh(t) /\ job' = [tx |-> t, plan |-> plan, route |-> "commit", phase |-> "prepared"]
  BY DEF Begin
<1>2. job' \in Jobs
  BY <1>1 DEF Jobs, Routes, Phases
<1> QED  BY <1>1, <1>2 DEF Begin, Lock, CredTypeOK

\* The plan of each mutation.
LEMMA ImportPlan ==
    ASSUME CredTypeOK, Legacy, NEW p \in Proc, NEW m \in Material, Import(p, m)
    PROVE  PlanTo(Only(m)) \in Plans /\ PlanOK(PlanTo(Only(m)))
<1>1. /\ state.gen \in 0..MaxGen /\ state.gen < MaxGen /\ state.ref \in Refs
      /\ live \in Layout /\ Only(m) \in Layout
  BY OnlyLayout DEF Import, CredTypeOK
<1>2. PlanTo(Only(m)) = [base |-> state.gen, before |-> live, after |-> Only(m),
                         beforeRef |-> state.ref, afterRef |-> LayoutRef(Only(m))]
  BY DEF PlanTo, Permit
<1>3. Only(m)["token"] # Absent => live["document"] = Absent
  BY OnlyLayout DEF Import, Mergeable, Slot
<1>4. ~Deleting(PlanTo(Only(m)))
  BY <1>2, OnlyLayout, EmptyLayout, CredentialConstants DEF Deleting, Slot
<1>5. state.gen > 0 => state.ref = LayoutRef(live) /\ \E s \in Slot : live[s] = Absent
  BY DEF Import
<1>6. state.gen = 0 => state.ref = NoRef
  BY DEF Legacy
<1>7. PlanTo(Only(m)) \in Plans
  BY <1>1, <1>2, LayoutRefType DEF Plans
<1> QED  BY <1>1, <1>2, <1>3, <1>4, <1>5, <1>6, <1>7 DEF PlanOK

\* Carrying a legacy credential over starts from a v1 account.
LEMMA MigratePlan ==
    ASSUME CredTypeOK, Legacy, NEW p \in Proc, NEW m \in Material, Migrate(p, m)
    PROVE  PlanTo(Only(m)) \in Plans /\ PlanOK(PlanTo(Only(m)))
<1>1. /\ state.gen = 0 /\ 0 < MaxGen /\ state.ref = NoRef /\ state.ref \in Refs
      /\ live \in Layout /\ Only(m) \in Layout
  BY OnlyLayout, CredentialConstants DEF Migrate, CredTypeOK, Legacy
<1>2. PlanTo(Only(m)) = [base |-> 0, before |-> live, after |-> Only(m),
                         beforeRef |-> state.ref, afterRef |-> LayoutRef(Only(m))]
  BY <1>1 DEF PlanTo, Permit
<1>3. Only(m)["token"] # Absent => live["document"] = Absent
  BY OnlyLayout, CredentialConstants DEF Migrate, Carried, Slot
<1>4. ~Deleting(PlanTo(Only(m)))
  BY <1>2, OnlyLayout, EmptyLayout, CredentialConstants DEF Deleting, Slot
<1>7. PlanTo(Only(m)) \in Plans
  BY <1>1, <1>2, LayoutRefType, CredentialConstants DEF Plans
<1> QED  BY <1>1, <1>2, <1>3, <1>4, <1>7 DEF PlanOK

\* A removal starts from the layout that State refers to.
LEMMA RemovePlan ==
    ASSUME CredTypeOK, Legacy, NEW p \in Proc, Remove(p)
    PROVE  PlanTo(Empty) \in Plans /\ PlanOK(PlanTo(Empty)) /\ state.gen > 0
<1>1. /\ state.gen \in 1..MaxGen-1 /\ state.gen \in 0..MaxGen /\ MaxGen \in Nat
      /\ state.ref # NoRef /\ state.ref \in Refs
      /\ live \in Layout /\ Empty \in Layout /\ LayoutRef(live) = state.ref
  BY EmptyLayout, CredentialConstants DEF Remove, CredTypeOK
<1>2. PlanTo(Empty) = [base |-> state.gen, before |-> live, after |-> Empty,
                       beforeRef |-> state.ref, afterRef |-> LayoutRef(Empty)]
  BY DEF PlanTo, Permit
<1>3. \E s \in Slot : live[s] = Absent
  BY <1>1, LayoutRefIs DEF Slot
<1>7. PlanTo(Empty) \in Plans
  BY <1>1, <1>2, LayoutRefType DEF Plans
<1> QED  BY <1>1, <1>2, <1>3, <1>7, EmptyLayout DEF PlanOK

\* Retiring a v1 account plans from an empty layout: its files are quarantined first.
LEMMA RetirePlan ==
    ASSUME CredTypeOK, Legacy, NEW p \in Proc, Retire(p), NEW plan,
           plan = [PlanTo(Empty) EXCEPT !.before = Empty]
    PROVE  plan \in Plans /\ PlanOK(plan) /\ plan.before = Empty /\ plan.after = Empty /\ state.gen = 0
<1>1. /\ state.gen = 0 /\ 0 < MaxGen /\ state.ref = NoRef /\ state.ref \in Refs
      /\ state.gen \in 0..MaxGen /\ Empty \in Layout
  BY EmptyLayout, CredentialConstants DEF Retire, CredTypeOK, Legacy
<1>2. plan = [base |-> state.gen, before |-> Empty, after |-> Empty,
              beforeRef |-> state.ref, afterRef |-> LayoutRef(Empty)]
  BY DEF PlanTo, Permit
<1>3. LayoutRef(Empty) \in Refs
  BY <1>1, LayoutRefType
<1>4. [base |-> state.gen, before |-> Empty, after |-> Empty,
       beforeRef |-> state.ref, afterRef |-> LayoutRef(Empty)] \in Plans
  BY <1>1, <1>3 DEF Plans
<1>7. plan \in Plans
  BY <1>2, <1>4
<1> QED  BY <1>1, <1>2, <1>7, EmptyLayout DEF PlanOK

\* The parts of the job under way.
LEMMA JobType ==
    ASSUME CredTypeOK, job # NoJob
    PROVE  /\ job \in Jobs /\ job.tx \in Tx /\ job.route \in Routes /\ job.phase \in Phases
           /\ job.plan \in Plans /\ job.plan.base \in 0..MaxGen
           /\ job.plan.before \in Layout /\ job.plan.after \in Layout
           /\ job.plan.beforeRef \in Refs /\ job.plan.afterRef \in Refs
BY DEF CredTypeOK, Jobs, Plans

\* The parts of a journal that was written completely.
LEMMA JournalType ==
    ASSUME CredTypeOK, NEW t \in Tx, Written(t)
    PROVE  /\ journal[t] \in Journals /\ Plan(t) \in Plans /\ Plan(t).base \in 0..MaxGen
           /\ Plan(t).before \in Layout /\ Plan(t).after \in Layout
           /\ Plan(t).beforeRef \in Refs /\ Plan(t).afterRef \in Refs
BY DEF CredTypeOK, Written, Plan, Journals, Plans

\* Writing one file of a transaction, and one slot.
LEMMA EvidenceType ==
    ASSUME CredTypeOK, NEW t \in Tx, NEW k \in Evidence, NEW x \in Contents
    PROVE  /\ [evidence EXCEPT ![t][k] = x] \in [Tx -> [Evidence -> Contents]]
           /\ evidence[t] \in [Evidence -> Contents]
BY DEF CredTypeOK

\* Putting a file of its kind into a slot leaves the other slot alone.
LEMMA SlotType ==
    ASSUME NEW l \in Layout, NEW s \in Slot, NEW x \in Material \cup {Absent}, x # Absent => x.slot = s
    PROVE  /\ [l EXCEPT ![s] = x] \in Layout
           /\ [l EXCEPT ![s] = x][s] = x
           /\ \A o \in Slot : o # s => [l EXCEPT ![s] = x][o] = l[o]
BY DEF Layout

\* Giving the lock back ends the job.
LEMMA ReleaseType ==
    ASSUME CredTypeOK, NEW p \in Proc, NEW at \in {"closed", "recovered", "committed"}, Release(p, at)
    PROVE  /\ owner' = Nobody /\ step' = "idle" /\ job' = NoJob /\ todo' = {}
           /\ session' \in [Proc -> [at : {"closed", "recovered", "committed"}, rev : 0 .. MaxGen]]
<1>1. 0 \in 0..MaxGen /\ state.gen \in 0..MaxGen
  BY CredentialConstants DEF CredTypeOK
<1> QED  BY <1>1 DEF Release, CredTypeOK

\* Only the phase of the job moves on.
LEMMA PhaseType ==
    ASSUME CredTypeOK, job # NoJob, NEW phase \in Phases, job' = [job EXCEPT !.phase = phase]
    PROVE  /\ job' \in Jobs /\ job' # NoJob /\ job'.phase = phase
           /\ job'.tx = job.tx /\ job'.plan = job.plan /\ job'.route = job.route
BY JobType, CredentialConstants DEF Jobs

-----------------------------------------------------------------------------
(* Steps that leave the files, and the control of the owner, alone.        *)

\* What is said of files and State only.
OfFiles == Plain /\ Safe /\ Rest /\ Moved /\ Upgraded /\ Legacy
\* What is said of the owner of the lock.
OfOwner == Control /\ Updates /\ Listed /\ Working /\ Single

\* A step that leaves files and State alone keeps all that is said of them.
LEMMA FilesKept ==
    ASSUME OfFiles, overlap => overlap',
           UNCHANGED <<live, evidence, journal, aside, state, original, doubt>>
    PROVE  OfFiles'
<1>1. /\ \A t \in Tx : (Written(t)' <=> Written(t)) /\ Plan(t)' = Plan(t)
      /\ \A t \in Tx : (Rebuilds(t)' <=> Rebuilds(t)) /\ (Backed(t)' <=> Backed(t))
      /\ \A r : Shown(r)' <=> Shown(r)
      /\ \A l : Agreed(l)' <=> Agreed(l)
  BY DEF Written, Plan, Rebuilds, Backed, Shown, Agreed
<1>2. Plain' /\ Safe'
  BY <1>1 DEF OfFiles, Plain, Safe
<1>3. Rest' /\ Moved'
  BY <1>1 DEF OfFiles, Rest, Moved
<1>4. Upgraded' /\ Legacy'
  BY <1>1 DEF OfFiles, Upgraded, Legacy
<1> QED  BY <1>2, <1>3, <1>4 DEF OfFiles

\* So does a commit of State that does not change the reference.
LEMMA FilesKeptCommit ==
    ASSUME OfFiles, CredTypeOK, state.gen > 0, state'.gen > 0, state'.ref = state.ref,
           UNCHANGED <<live, evidence, journal, aside, original, doubt, overlap>>
    PROVE  OfFiles'
<1>1. /\ \A t \in Tx : (Written(t)' <=> Written(t)) /\ Plan(t)' = Plan(t)
      /\ \A t \in Tx : (Rebuilds(t)' <=> Rebuilds(t)) /\ (Backed(t)' <=> Backed(t))
      /\ \A r : Shown(r)' <=> Shown(r)
  BY DEF Written, Plan, Rebuilds, Backed, Shown
<1>0. state.gen # 0 /\ state'.gen # 0
  BY DEF CredTypeOK
<1>2. Plain' /\ Safe'
  BY <1>1 DEF OfFiles, Plain, Safe
<1>3. Rest' /\ Moved'
  BY <1>1 DEF OfFiles, Rest, Moved
<1>4. Upgraded' /\ Legacy'
  BY <1>0, <1>1 DEF OfFiles, Upgraded, Legacy
<1> QED  BY <1>2, <1>3, <1>4 DEF OfFiles

\* Nobody is at work, or the owner has no transaction yet.
LEMMA OwnerQuiet ==
    ASSUME OfOwner, job' = NoJob, step' \in {"idle", "updates"},
           owner' = Nobody <=> step' = "idle",
           ~overlap' => \A t, u \in Tx : journal'[t] # Absent /\ journal'[u] # Absent => t = u
    PROVE  OfOwner'
<1>1. Control'
  BY DEF Control, Quiet
<1>2. Updates' /\ Listed' /\ Working'
  BY DEF Updates, Listed, Working
<1>3. Single'
  BY DEF Single
<1> QED  BY <1>1, <1>2, <1>3 DEF OfOwner

\* A session closes.
LEMMA CloseInv ==
    ASSUME CredInv, NEW p \in Proc, Close(p) PROVE CredInv'
<1>1. CredTypeOK'
  <2>1. 0 \in 0..MaxGen
    BY CredentialConstants
  <2> QED  BY <2>1 DEF CredInv, Close, files, history, CredTypeOK
<1>2. OfFiles'
  BY FilesKept DEF CredInv, OfFiles, Close, files, history
<1>3. OfOwner'
  <2>0. UNCHANGED <<live, evidence, journal, update, aside, state, owner, step, job, todo, doubt, overlap>>
    BY DEF Close, files, history
  <2>1. Control' /\ Updates' /\ Listed' /\ Single'
    BY <2>0 DEF CredInv, Control, Updates, Listed, Single
  <2>2. Working'
    BY <2>0 DEF CredInv, Working, Work, Written, Plan, Rebuilds, InPhase, MovedAside, Within, Reverted
  <2> QED  BY <2>1, <2>2 DEF OfOwner
<1> QED  BY <1>1, <1>2, <1>3 DEF CredInv, OfFiles, OfOwner

\* A commit of State that is not about credentials keeps the reference.
LEMMA OrdinaryCommitInv ==
    ASSUME CredInv, NEW p \in Proc, OrdinaryCommit(p) PROVE CredInv'
<1>0. /\ state' = [state EXCEPT !.gen = @ + 1] /\ state.gen \in 1 .. MaxGen - 1 /\ owner = Nobody
      /\ session' = [session EXCEPT ![p] = [at |-> "committed", rev |-> state.gen + 1]]
      /\ UNCHANGED <<live, evidence, journal, update, aside, owner, step, job, todo,
                     failures, original, doubt, overlap>>
  BY DEF OrdinaryCommit, files, history
<1>1. state'.gen = state.gen + 1 /\ state'.ref = state.ref /\ state'.gen \in 1..MaxGen
      /\ state' \in [gen : 0 .. MaxGen, ref : Refs] /\ state.gen + 1 \in 0..MaxGen
  BY <1>0, CredentialConstants DEF CredInv, CredTypeOK
<1>2. CredTypeOK'
  BY <1>0, <1>1 DEF CredInv, CredTypeOK
<1>3. OfFiles'
  BY <1>0, <1>1, FilesKeptCommit DEF CredInv, OfFiles
<1>4. step = "idle" /\ job = NoJob
  BY <1>0 DEF CredInv, Control, Quiet
<1>5. OfOwner'
  BY <1>0, <1>4, OwnerQuiet DEF CredInv, OfOwner, Single
<1> QED  BY <1>2, <1>3, <1>5 DEF CredInv, OfFiles, OfOwner

\* Recovery takes the lock.
LEMMA RecoverInv ==
    ASSUME CredInv, NEW p \in Proc, Recover(p) PROVE CredInv'
<1>0. /\ owner = Nobody /\ owner' = p /\ step' = "updates" /\ p # Nobody
      /\ session' = [session EXCEPT ![p].rev = state.gen]
      /\ UNCHANGED <<live, evidence, journal, update, aside, state, job, todo,
                     failures, original, doubt, overlap>>
  BY CredentialConstants DEF Recover, Lock, files, history
<1>1. CredTypeOK'
  BY <1>0 DEF CredInv, CredTypeOK
<1>2. OfFiles'
  BY <1>0, FilesKept DEF CredInv, OfFiles
<1>3. job = NoJob
  BY <1>0 DEF CredInv, Control, Quiet
<1>4. OfOwner'
  BY <1>0, <1>3, OwnerQuiet DEF CredInv, OfOwner, Single
<1> QED  BY <1>1, <1>2, <1>4 DEF CredInv, OfFiles, OfOwner

\* A command that ends without touching a file.
LEMMA ReleaseInv ==
    ASSUME CredInv, NEW p \in Proc, NEW at \in {"closed", "recovered", "committed"}, Release(p, at),
           UNCHANGED <<files, state, history>>
    PROVE  CredInv'
<1>0. /\ UNCHANGED <<live, evidence, journal, update, aside, state, failures, original, doubt, overlap>>
      /\ CredTypeOK
  BY DEF files, history, CredInv
<1>1. /\ owner' = Nobody /\ step' = "idle" /\ job' = NoJob /\ todo' = {}
      /\ session' \in [Proc -> [at : {"closed", "recovered", "committed"}, rev : 0 .. MaxGen]]
  BY <1>0, ReleaseType
<1>2. CredTypeOK'
  BY <1>0, <1>1 DEF CredTypeOK
<1>3. OfFiles'
  BY <1>0, FilesKept DEF CredInv, OfFiles
<1>4. OfOwner'
  BY <1>0, <1>1, OwnerQuiet DEF CredInv, OfOwner, Single
<1> QED  BY <1>2, <1>3, <1>4 DEF CredInv, OfFiles, OfOwner

\* Recovery ends when no journal is left.
LEMMA RecoveredInv ==
    ASSUME CredInv, NEW p \in Proc, Recovered(p) PROVE CredInv'
BY ReleaseInv DEF Recovered

\* A conflict leaves every file as it is.
LEMMA GiveUpInv ==
    ASSUME CredInv, NEW p \in Proc, GiveUp(p) PROVE CredInv'
BY ReleaseInv DEF GiveUp

-----------------------------------------------------------------------------
(* Recovery up to its decision, and the begin of a transaction.            *)

\* Nothing is said of a transaction that has no complete journal.
LEMMA FilesStaged ==
    ASSUME OfFiles, NEW t \in Tx, ~Written(t), ~Written(t)',
           \A u \in Tx : u # t => evidence'[u] = evidence[u] /\ journal'[u] = journal[u],
           UNCHANGED <<live, aside, state, original, doubt, overlap>>
    PROVE  OfFiles'
<1>1. /\ \A u \in Tx : Written(u)' <=> Written(u)
      /\ \A u \in Tx : Written(u) => /\ Plan(u)' = Plan(u)
                                     /\ Rebuilds(u)' <=> Rebuilds(u)
                                     /\ Backed(u)' <=> Backed(u)
                                     /\ evidence'[u] = evidence[u]
      /\ \A r : Shown(r)' <=> Shown(r)
      /\ \A l : Agreed(l)' <=> Agreed(l)
  <2>1. ASSUME NEW u \in Tx, u # t
        PROVE  /\ (Written(u)' <=> Written(u)) /\ Plan(u)' = Plan(u) /\ evidence'[u] = evidence[u]
               /\ (Rebuilds(u)' <=> Rebuilds(u)) /\ (Backed(u)' <=> Backed(u))
    BY <2>1 DEF Written, Plan, Rebuilds, Backed
  <2>2. (\A r : Shown(r)' <=> Shown(r)) /\ (\A l : Agreed(l)' <=> Agreed(l))
    BY DEF Shown, Agreed
  <2> QED  BY <2>1, <2>2
<1>2. Plain' /\ Safe'
  BY <1>1 DEF OfFiles, Plain, Safe
<1>3. Rest' /\ Moved'
  BY <1>1 DEF OfFiles, Rest, Moved
<1>4. Upgraded' /\ Legacy'
  BY <1>1 DEF OfFiles, Upgraded, Legacy
<1> QED  BY <1>2, <1>3, <1>4 DEF OfFiles

\* Recovery removes an update that lost its owner, or a stage without a journal.
LEMMA CleanOrphanInv ==
    ASSUME CredInv, NEW p \in Proc, CleanOrphan(p) PROVE CredInv'
<1>0. PICK t \in Tx : journal[t] = Absent /\ evidence' = [evidence EXCEPT ![t]["stage"] = Absent]
  BY DEF CleanOrphan
<1>1. /\ owner = p /\ step = "updates" /\ p # Nobody
      /\ UNCHANGED <<live, journal, update, aside, state, session, owner, step, job, todo,
                     failures, original, doubt, overlap>>
  BY CredentialConstants DEF CleanOrphan, history
<1>2. CredTypeOK'
  <2>1. evidence' \in [Tx -> [Evidence -> Contents]]
    BY <1>0, EvidenceType DEF CredInv, Evidence, Contents
  <2> QED  BY <1>1, <2>1 DEF CredInv, CredTypeOK
<1>3. OfFiles'
  <2>1. ~Written(t) /\ ~Written(t)'
    BY <1>0, <1>1 DEF Written
  <2>2. \A u \in Tx : u # t => evidence'[u] = evidence[u] /\ journal'[u] = journal[u]
    BY <1>0, <1>1 DEF CredInv, CredTypeOK
  <2> QED  BY <1>1, <2>1, <2>2, FilesStaged DEF CredInv, OfFiles
<1>4. OfOwner'
  BY <1>1, OwnerQuiet DEF CredInv, OfOwner, Single, Control, Quiet
<1> QED  BY <1>2, <1>3, <1>4 DEF CredInv, OfFiles, OfOwner

\* Recovery lists the journals there are.
LEMMA ListJournalsInv ==
    ASSUME CredInv, NEW p \in Proc, ListJournals(p) PROVE CredInv'
<1>1. /\ owner = p /\ step = "updates" /\ p # Nobody /\ step' = "journals"
      /\ \A t \in Tx : journal[t] = Absent => evidence[t]["stage"] = Absent
      /\ update' = [t \in Tx |-> Absent] /\ todo' = {t \in Tx : journal[t] # Absent}
      /\ UNCHANGED <<live, evidence, journal, aside, state, session, owner, job,
                     failures, original, doubt, overlap>>
  BY CredentialConstants DEF ListJournals, history
<1>2. CredTypeOK'
  BY <1>1 DEF CredInv, CredTypeOK
<1>3. OfFiles'
  BY <1>1, FilesKept DEF CredInv, OfFiles
<1>4. job = NoJob
  BY <1>1 DEF CredInv, Control, Quiet
<1>5. Control' /\ Updates' /\ Working' /\ Single'
  BY <1>1, <1>4 DEF CredInv, Control, Quiet, Updates, Working, Single
<1>6. Listed'
  BY <1>1 DEF Listed
<1> QED  BY <1>2, <1>3, <1>5, <1>6 DEF CredInv, OfFiles, OfOwner

\* Recovery takes a journal that it can decide: to finish it, or to take it back.
LEMMA TakeJournalInv ==
    ASSUME CredInv, NEW p \in Proc, TakeJournal(p) PROVE CredInv'
<1>0. PICK t \in todo : /\ \/ Decided(t, "restore") /\ step' = "token"
                           \/ Decided(t, "finalize") /\ step' = "clean"
                        /\ job' = [tx |-> t, plan |-> Plan(t), route |-> "recover", phase |-> "restored"]
                        /\ todo' = todo \ {t}
  BY DEF TakeJournal
<1>1. /\ owner = p /\ step = "journals" /\ p # Nobody /\ t \in Tx /\ Written(t) /\ Rebuilds(t)
      /\ UNCHANGED <<live, evidence, journal, update, aside, state, session, owner,
                     failures, original, doubt, overlap>>
  BY <1>0, CredentialConstants DEF TakeJournal, Decided, files, history, CredInv, CredTypeOK
<1>2. Plan(t) \in Plans /\ PlanOK(Plan(t)) /\ Plan(t).before \in Layout /\ Plan(t).after \in Layout
  BY <1>1, JournalType DEF CredInv, Plain
<1>3. job' \in Jobs /\ job' # NoJob
  BY <1>0, <1>1, <1>2, CredentialConstants DEF Jobs, Routes, Phases
<1>4. CredTypeOK'
  BY <1>0, <1>1, <1>3 DEF CredInv, CredTypeOK
<1>5. OfFiles'
  BY <1>1, FilesKept DEF CredInv, OfFiles
<1>6. Control' /\ Updates' /\ Listed' /\ Single'
  <2>0. job = NoJob
    BY <1>1 DEF CredInv, Control, Quiet
  <2>1. Control'
    BY <1>0, <1>1, <1>3 DEF Control, Quiet, Slot
  <2>2. Updates'
    BY <1>0, <1>1 DEF CredInv, Updates
  <2>3. Listed'
    BY <1>0, <1>1, <1>3, <2>0 DEF CredInv, Listed
  <2>4. Single'
    BY <1>0, <1>1 DEF CredInv, Single, Written
  <2> QED  BY <2>1, <2>2, <2>3, <2>4
<1>7. /\ Decided(t, "restore") => (\A s \in Slot : Within(Plan(t), s)) /\ Reverted(Plan(t))
      /\ Decided(t, "finalize") => live = Plan(t).after /\ state.gen > 0 /\ state.ref = Plan(t).afterRef
  <2> DEFINE plan == Plan(t)
  <2>1. ASSUME Decision(t) = "restore"
        PROVE  Known(live, plan) /\ (~Current \/ state.ref = plan.beforeRef)
    BY <2>1 DEF Decision, Known
  <2>2. ASSUME Decision(t) = "finalize" PROVE live = plan.after /\ Current /\ state.ref = plan.afterRef
    BY <2>2 DEF Decision
  <2>3. ASSUME Known(live, plan) PROVE \A s \in Slot : Within(plan, s)
    BY <1>2, <2>3, PlanKind, EvidenceNames DEF Known, Within, Slot, Kind, IsImport, IsRemoval, IsPurge
  <2>4. ASSUME ~Current PROVE state.gen = 0
    BY <2>4 DEF Current, CredInv, CredTypeOK
  <2> QED  BY <2>1, <2>2, <2>3, <2>4 DEF Decided, Reverted, Current
<1>8. Working'
  <2> SUFFICES ASSUME NEW u \in Tx, NEW plan \in Plans, job'.tx = u, job'.plan = plan
               PROVE  Work(u, plan)'
    BY DEF Working
  <2>1. step' \in {"token", "clean"} /\ u = t /\ plan = Plan(t) /\ job'.route = "recover"
    BY <1>0
  <2>2. PlanOK(plan) /\ Written(t)' /\ Plan(t)' = plan /\ (step' = "token" => Rebuilds(t)')
    BY <1>1, <1>2, <2>1 DEF Written, Plan, Rebuilds
  <2>3. step' = "token" => (\A s \in Slot : Within(plan, s)') /\ Reverted(plan)'
    BY <1>0, <1>1, <1>7, <2>1, CredentialConstants DEF Within, Reverted
  <2>4. step' = "clean" => live' = plan.after /\ state'.gen > 0 /\ state'.ref = plan.afterRef
    BY <1>0, <1>1, <1>7, <2>1
  <2> QED  BY <2>1, <2>2, <2>3, <2>4 DEF Work, InPhase
<1> QED  BY <1>4, <1>5, <1>6, <1>8 DEF CredInv, OfFiles, OfOwner

\* A mutation starts from the live layout, or a v1 account empties itself.
LEMMA BeginInv ==
    ASSUME CredInv, NEW p \in Proc, NEW first \in {"quarantine", "stage"},
           NEW plan \in Plans, Begin(p, first, plan),
           PlanOK(plan), plan.base = state.gen, plan.beforeRef = state.ref,
           first = "stage" => plan.before = live,
           first = "quarantine" => state.gen = 0 /\ plan.before = Empty /\ plan.after = Empty
    PROVE  CredInv'
<1>1. /\ owner = Nobody /\ owner' = p /\ step' = first /\ p # Nobody
      /\ job' \in Jobs /\ job' # NoJob /\ overlap' \in BOOLEAN
      /\ overlap' <=> (overlap \/ \E u \in Tx : journal[u] # Absent)
      /\ UNCHANGED <<live, evidence, journal, update, aside, state, session, todo,
                     failures, original, doubt>>
  BY BeginType, CredentialConstants DEF CredInv, files
<1>2. PICK t \in Tx : /\ Fresh(t)
                      /\ job' = [tx |-> t, plan |-> plan, route |-> "commit", phase |-> "prepared"]
  BY DEF Begin
<1>3. CredTypeOK'
  BY <1>1 DEF CredInv, CredTypeOK
<1>4. OfFiles'
  BY <1>1, FilesKept DEF CredInv, OfFiles
<1>5. /\ journal[t] = Absent /\ update[t] = Absent /\ \A k \in Evidence : evidence[t][k] = Absent
  BY <1>2 DEF Fresh, Kept
<1>6. Control' /\ Updates' /\ Listed' /\ Single'
  <2>1. Control'
    BY <1>1, <1>2 DEF Control, Quiet, Slot
  <2>2. Updates' /\ Listed' /\ Single'
    BY <1>1, <1>2, <1>5 DEF Updates, Listed, Single
  <2> QED  BY <2>1, <2>2
<1>7. Working'
  <2> SUFFICES ASSUME NEW u \in Tx, NEW now \in Plans, job'.tx = u, job'.plan = now
               PROVE  Work(u, now)'
    BY DEF Working
  <2>1. u = t /\ now = plan /\ job'.route = "commit" /\ job'.phase = "prepared"
    BY <1>2
  <2>2. journal'[t] = Absent /\ \A k \in Evidence : evidence'[t][k] \in {Absent, Staged(plan)[k]}
    BY <1>1, <1>5
  <2> QED  BY <1>1, <2>1, <2>2 DEF Work, InPhase
<1> QED  BY <1>3, <1>4, <1>6, <1>7 DEF CredInv, OfFiles, OfOwner

\* An import starts.
LEMMA ImportInv ==
    ASSUME CredInv, NEW p \in Proc, NEW m \in Material, Import(p, m) PROVE CredInv'
<1>1. PlanTo(Only(m)) \in Plans /\ PlanOK(PlanTo(Only(m)))
  BY ImportPlan DEF CredInv
<1>2. /\ PlanTo(Only(m)).base = state.gen /\ PlanTo(Only(m)).beforeRef = state.ref
      /\ PlanTo(Only(m)).before = live
  BY DEF PlanTo, Permit
<1> QED  BY <1>1, <1>2, BeginInv DEF Import

\* A legacy credential starts to be carried over.
LEMMA MigrateInv ==
    ASSUME CredInv, NEW p \in Proc, NEW m \in Material, Migrate(p, m) PROVE CredInv'
<1>1. PlanTo(Only(m)) \in Plans /\ PlanOK(PlanTo(Only(m)))
  BY MigratePlan DEF CredInv
<1>2. /\ PlanTo(Only(m)).base = state.gen /\ PlanTo(Only(m)).beforeRef = state.ref
      /\ PlanTo(Only(m)).before = live
  BY DEF PlanTo, Permit
<1> QED  BY <1>1, <1>2, BeginInv DEF Migrate

\* A removal starts.
LEMMA RemoveInv ==
    ASSUME CredInv, NEW p \in Proc, Remove(p) PROVE CredInv'
<1>1. PlanTo(Empty) \in Plans /\ PlanOK(PlanTo(Empty))
  BY RemovePlan DEF CredInv
<1>2. /\ PlanTo(Empty).base = state.gen /\ PlanTo(Empty).beforeRef = state.ref
      /\ PlanTo(Empty).before = live
  BY DEF PlanTo, Permit
<1> QED  BY <1>1, <1>2, BeginInv DEF Remove

\* A v1 account starts to be retired.
LEMMA RetireInv ==
    ASSUME CredInv, NEW p \in Proc, Retire(p) PROVE CredInv'
<1> DEFINE plan == [PlanTo(Empty) EXCEPT !.before = Empty]
<1>1. plan \in Plans /\ PlanOK(plan) /\ plan.before = Empty /\ plan.after = Empty
  BY RetirePlan DEF CredInv
<1>0. state.gen = 0
  BY DEF Retire
<1>2. plan.base = state.gen /\ plan.beforeRef = state.ref
  BY DEF PlanTo, Permit
<1>3. Begin(p, "quarantine", plan)
  BY DEF Retire
<1> HIDE DEF plan
<1> QED  BY <1>0, <1>1, <1>2, <1>3, BeginInv

-----------------------------------------------------------------------------
(* Quarantine and staging.                                                 *)

\* The job under way, by names that a step does not change.
LEMMA JobIs ==
    ASSUME CredInv, job # NoJob
    PROVE  /\ job.tx \in Tx /\ job.plan \in Plans /\ Work(job.tx, job.plan) /\ PlanOK(job.plan)
           /\ job.plan.before \in Layout /\ job.plan.after \in Layout
           /\ ~(step \in Quiet) /\ owner # Nobody
<1>1. job.tx \in Tx /\ job.plan \in Plans /\ job.plan.before \in Layout /\ job.plan.after \in Layout
  BY JobType DEF CredInv
<1>2. Work(job.tx, job.plan)
  BY <1>1 DEF CredInv, Working
<1>3. PlanOK(job.plan)
  BY <1>2 DEF Work
<1> QED  BY <1>1, <1>2, <1>3 DEF CredInv, Control, Quiet

\* A file of a retired v1 account is set aside, not removed.
LEMMA QuarantineInv ==
    ASSUME CredInv, NEW p \in Proc, Quarantine(p) PROVE CredInv'
<1>1. PICK s \in Slot : /\ live[s] # Absent
                        /\ live' = [live EXCEPT ![s] = Absent]
                        /\ aside' = aside \cup {live[s]}
  BY DEF Quarantine
<1>2. /\ owner = p /\ step = "quarantine"
      /\ UNCHANGED <<evidence, journal, update, state, session, owner, step, job, todo,
                     failures, original, doubt, overlap>>
  BY DEF Quarantine, history
<1>3. /\ job # NoJob /\ job.route = "commit" /\ live \in Layout
      /\ live[s] \in Material
  BY <1>1, <1>2, LayoutValue DEF CredInv, CredTypeOK, Control, Quiet, Slot
<1>4. /\ job.tx \in Tx /\ job.plan \in Plans /\ Work(job.tx, job.plan)
      /\ journal[job.tx] = Absent /\ state.gen = 0 /\ job.plan.after = Empty /\ job.plan.before = Empty
  BY <1>2, <1>3, JobIs DEF Work
<1>5. live' \in Layout
  BY <1>1, <1>3, SlotType
<1>6. CredTypeOK'
  BY <1>1, <1>2, <1>3, <1>5 DEF CredInv, CredTypeOK
<1>7. Control' /\ Updates' /\ Listed' /\ Single'
  BY <1>2 DEF CredInv, Control, Updates, Listed, Single
<1>8. Working'
  <2> SUFFICES ASSUME NEW t \in Tx, NEW plan \in Plans, job'.tx = t, job'.plan = plan
               PROVE  Work(t, plan)'
    BY DEF Working
  <2>1. Work(t, plan)
    BY <1>2, <1>4
  <2> QED  BY <1>2, <1>3, <2>1 DEF Work, InPhase
<1>9. OfFiles'
  <2>1. ~(state'.gen > 0) /\ state'.gen = 0
    BY <1>2, <1>4
  <2>2. Plain'
    BY <1>2 DEF CredInv, Plain, Written, Plan
  <2>3. Safe' /\ Rest' /\ Upgraded'
    BY <2>1 DEF Safe, Rest, Upgraded
  <2>4. ~overlap' => \A t \in Tx : ~Written(t)' /\ ~Written(t)
    BY <1>2, <1>3, <1>4 DEF CredInv, Single, Written
  <2>5. Moved'
    BY <2>4 DEF Moved
  <2>6. Agreed(live) => Agreed(live)'
    BY <1>1, <1>2, <1>3 DEF Agreed, CredInv, CredTypeOK
  <2>7. UNCHANGED original
    BY <1>2
  <2>8. Legacy'
    BY <1>2, <1>4, <2>4, <2>6 DEF CredInv, Legacy
  <2> QED  BY <2>2, <2>3, <2>5, <2>8 DEF OfFiles
<1> QED  BY <1>6, <1>7, <1>8, <1>9 DEF CredInv, OfFiles, OfOwner

\* Every file is set aside: the transaction stages nothing.
LEMMA QuarantinedInv ==
    ASSUME CredInv, NEW p \in Proc, Quarantined(p) PROVE CredInv'
<1>1. /\ owner = p /\ step = "quarantine" /\ step' = "stage" /\ live = Empty
      /\ UNCHANGED <<live, evidence, journal, update, aside, state, session, owner, job, todo,
                     failures, original, doubt, overlap>>
  BY DEF Quarantined, files, history
<1>2. job # NoJob
  BY <1>1 DEF CredInv, Control, Quiet
<1>3. CredTypeOK'
  BY <1>1 DEF CredInv, CredTypeOK
<1>4. OfFiles'
  BY <1>1, FilesKept DEF CredInv, OfFiles
<1>5. Control' /\ Updates' /\ Listed' /\ Single'
  BY <1>1, <1>2 DEF CredInv, Control, Quiet, Slot, Updates, Listed, Single
<1>6. Working'
  <2> SUFFICES ASSUME NEW t \in Tx, NEW plan \in Plans, job'.tx = t, job'.plan = plan
               PROVE  Work(t, plan)'
    BY DEF Working
  <2>1. Work(t, plan)
    BY <1>1, <1>2, JobIs
  <2> QED  BY <1>1, <2>1 DEF Work, InPhase
<1> QED  BY <1>3, <1>4, <1>5, <1>6 DEF CredInv, OfFiles, OfOwner

\* A staged file is written before the journal that speaks of it.
LEMMA WriteEvidenceInv ==
    ASSUME CredInv, NEW p \in Proc, WriteEvidence(p) PROVE CredInv'
<1>1. /\ owner = p /\ step = "stage"
      /\ UNCHANGED <<live, journal, update, aside, state, session, owner, step, job, todo,
                     failures, original, doubt, overlap>>
  BY DEF WriteEvidence, history
<1>2. job # NoJob
  BY <1>1 DEF CredInv, Control, Quiet
<1>3. job.tx \in Tx /\ job.plan \in Plans /\ Work(job.tx, job.plan) /\ PlanOK(job.plan)
  BY <1>2, JobIs
<1>4. PICK k \in Evidence : evidence' = [evidence EXCEPT ![job.tx][k] = Staged(job.plan)[k]]
  <2> DEFINE missing == Unstaged(job.tx, job.plan)
             k == First(missing, StageRank(job.plan))
  <2>1. missing # {} /\ missing \in SUBSET DOMAIN StageRank(job.plan)
    BY DEF WriteEvidence, Unstaged
  <2>2. k \in missing
    BY <2>1, FirstStaged
  <2>3. k \in Evidence
    BY <2>1, <2>2 DEF StageRank, Evidence
  <2>4. evidence' = [evidence EXCEPT ![job.tx][k] = Staged(job.plan)[k]]
    BY DEF WriteEvidence
  <2> QED  BY <2>3, <2>4
<1>5. evidence' \in [Tx -> [Evidence -> Contents]]
  <2>1. Staged(job.plan)[k] \in Contents
    BY <1>3, StagedType DEF Contents
  <2> QED  BY <1>3, <1>4, <2>1, EvidenceType DEF CredInv
<1>6. CredTypeOK'
  BY <1>1, <1>5 DEF CredInv, CredTypeOK
<1>7. journal[job.tx] = Absent
  BY <1>1, <1>3 DEF Work
<1>8. OfFiles'
  <2>1. ~Written(job.tx) /\ ~Written(job.tx)'
    BY <1>1, <1>7 DEF Written
  <2>2. \A u \in Tx : u # job.tx => evidence'[u] = evidence[u] /\ journal'[u] = journal[u]
    BY <1>1, <1>4 DEF CredInv, CredTypeOK
  <2>3. \E t \in Tx : /\ ~Written(t) /\ ~Written(t)'
                      /\ \A u \in Tx : u # t => evidence'[u] = evidence[u] /\ journal'[u] = journal[u]
    BY <1>1, <1>3, <2>1, <2>2
  <2> QED  BY <1>1, <2>3, FilesStaged DEF CredInv, OfFiles
<1>9. Control' /\ Updates' /\ Listed' /\ Single'
  BY <1>1, <1>2 DEF CredInv, Control, Quiet, Slot, Updates, Listed, Single
<1>10. Working'
  <2> SUFFICES ASSUME NEW t \in Tx, NEW plan \in Plans, job'.tx = t, job'.plan = plan
               PROVE  Work(t, plan)'
    BY DEF Working
  <2>1. Work(t, plan) /\ t = job.tx /\ plan = job.plan
    BY <1>1, <1>3
  <2>2. \A l \in Evidence : evidence'[t][l] \in {Absent, Staged(plan)[l]}
    BY <1>1, <1>3, <1>4, <2>1 DEF Work, CredInv, CredTypeOK
  <2> QED  BY <1>1, <2>1, <2>2 DEF Work, InPhase
<1> QED  BY <1>6, <1>8, <1>9, <1>10 DEF CredInv, OfFiles, OfOwner

\* Without overlap there is no journal but the one of the job.
LEMMA OnlyJob ==
    ASSUME CredInv, job # NoJob, ~overlap, NEW t \in Tx, t # job.tx
    PROVE  journal[t] = Absent /\ ~Written(t)
BY DEF CredInv, Single, Written

\* The journal is written when every staged file is in place.
LEMMA WriteJournalInv ==
    ASSUME CredInv, NEW p \in Proc, WriteJournal(p) PROVE CredInv'
<1>1. /\ owner = p /\ step = "stage" /\ step' = "move" /\ Unstaged(job.tx, job.plan) = {}
      /\ journal' = [journal EXCEPT ![job.tx] = [plan |-> job.plan, phase |-> "prepared"]]
      /\ UNCHANGED <<live, evidence, update, aside, state, session, owner, job, todo,
                     failures, original, doubt, overlap>>
  BY DEF WriteJournal, history
<1>2. job # NoJob
  BY <1>1 DEF CredInv, Control, Quiet
<1>3. PICK t \in Tx, plan \in Plans :
        /\ job.tx = t /\ job.plan = plan /\ Work(t, plan) /\ PlanOK(plan)
        /\ plan.before \in Layout /\ plan.after \in Layout
  BY <1>2, JobIs
<1>4. /\ journal[t] = Absent /\ ~Written(t) /\ live = plan.before /\ job.route = "commit"
      /\ \A k \in Evidence : evidence[t][k] \in {Absent, Staged(plan)[k]}
      /\ state.gen = plan.base /\ state.ref = plan.beforeRef
  BY <1>1, <1>2, <1>3 DEF Work, Written, CredInv, Control
<1>5. [plan |-> plan, phase |-> "prepared"] \in Journals
  BY <1>3 DEF Journals, Phases
<1>6. CredTypeOK'
  BY <1>1, <1>3, <1>5 DEF CredInv, CredTypeOK
<1>7. /\ journal'[t] = [plan |-> plan, phase |-> "prepared"] /\ Written(t)' /\ Plan(t)' = plan
      /\ \A u \in Tx : u # t => journal'[u] = journal[u] /\ Plan(u)' = Plan(u) /\ (Written(u)' <=> Written(u))
  BY <1>1, <1>3, <1>5, CredentialConstants DEF CredInv, CredTypeOK, Written, Plan
<1>8. evidence[t] = Staged(plan)
  <2>0. DOMAIN StageRank(plan) = {"stage", "token_backup", "document_backup"}
    BY DEF StageRank
  <2>1. ASSUME NEW k \in Evidence PROVE evidence[t][k] = Staged(plan)[k]
    <3>1. CASE k \in {"token_tombstone", "document_tombstone"}
      BY <1>4, <3>1, StagedIs
    <3>2. CASE k \in DOMAIN StageRank(plan)
      <4>1. Staged(plan)[k] = Absent \/ evidence[t][k] # Absent
        BY <1>1, <1>3, <3>2 DEF Unstaged
      <4> QED  BY <1>4, <4>1
    <3> QED  BY <2>0, <3>1, <3>2 DEF Evidence
  <2>2. evidence[t] \in [Evidence -> Contents] /\ Staged(plan) \in [Evidence -> Material \cup {Absent}]
    BY <1>3, StagedType DEF CredInv, CredTypeOK
  <2> QED  BY <2>1, <2>2
<1>9. Control' /\ Updates' /\ Listed' /\ Single'
  <2>1. Control'
    BY <1>1, <1>2, <1>4 DEF CredInv, Control, Quiet, Slot
  <2>2. Updates'
    BY <1>1, <1>2 DEF CredInv, Updates
  <2>3. Listed'
    BY <1>1, <1>2, <1>4 DEF Listed
  <2>4. Single'
    BY <1>1, <1>2, <1>3, <1>7, OnlyJob DEF Single
  <2> QED  BY <2>1, <2>2, <2>3, <2>4
<1>10. Working'
  <2> SUFFICES ASSUME NEW u \in Tx, NEW now \in Plans, job'.tx = u, job'.plan = now
               PROVE  Work(u, now)'
    BY DEF Working
  <2>1. u = t /\ now = plan
    BY <1>1, <1>3
  <2> QED  BY <1>1, <1>3, <1>4, <1>7, <1>8, <2>1 DEF Work, InPhase
<1>11. OfFiles'
  <2>1. \A u \in Tx : Written(u) => u # t /\ (Rebuilds(u)' <=> Rebuilds(u)) /\ (Backed(u)' <=> Backed(u))
    BY <1>1, <1>4, <1>7 DEF Rebuilds, Backed
  <2>2. ~overlap => \A u \in Tx : ~Written(u) /\ (Written(u)' => u = t)
    BY <1>2, <1>3, <1>4, <1>7, OnlyJob
  <2>3. Plain'
    BY <1>3, <1>7 DEF CredInv, Plain
  <2>4. \A r : Shown(r)' <=> Shown(r)
    BY <1>1 DEF Shown
  <2>5. Safe'
    BY <1>1, <1>7, <2>1, <2>4 DEF CredInv, Safe
  <2>6. Rest'
    BY <1>1, <1>7, <2>1 DEF CredInv, Rest
  <2>7. Moved'
    BY <1>1, <1>4, <1>7, <2>2 DEF Moved
  <2>8. Upgraded'
    <3>1. plan.base \in 0..MaxGen
      BY <1>3 DEF Plans
    <3> QED  BY <1>1, <1>4, <1>7, <2>2, <3>1 DEF Upgraded
  <2>9. Legacy'
    <3>1. \A l : Agreed(l)' <=> Agreed(l)
      BY <1>1 DEF Agreed
    <3>2. state.gen = 0 => state.ref = NoRef
      BY DEF CredInv, Legacy
    <3>3. (state.gen = 0 /\ ~overlap) => Agreed(plan.before)
      BY <1>4, <2>2 DEF CredInv, Legacy
    <3> QED  BY <1>1, <1>4, <1>7, <2>2, <3>1, <3>2, <3>3 DEF Legacy
  <2> QED  BY <2>3, <2>5, <2>6, <2>7, <2>8, <2>9 DEF OfFiles
<1> QED  BY <1>6, <1>9, <1>10, <1>11 DEF CredInv, OfFiles, OfOwner

-----------------------------------------------------------------------------
(* Publishing.                                                             *)

\* The job under way with its journal written.
LEMMA JournalOfJob ==
    ASSUME CredInv, job # NoJob, step \notin {"quarantine", "stage"}
    PROVE  \E t \in Tx, plan \in Plans :
             /\ job.tx = t /\ job.plan = plan /\ Work(t, plan) /\ PlanOK(plan)
             /\ plan.before \in Layout /\ plan.after \in Layout /\ plan.base \in 0..MaxGen
             /\ Written(t) /\ Plan(t) = plan /\ journal[t] \in Journals
<1>1. job.tx \in Tx /\ job.plan \in Plans /\ Work(job.tx, job.plan) /\ PlanOK(job.plan)
  BY JobIs
<1>2. Written(job.tx) /\ Plan(job.tx) = job.plan
  BY <1>1 DEF Work
<1>3. journal[job.tx] \in Journals
  BY <1>1, <1>2, JournalType DEF CredInv
<1> QED  BY <1>1, <1>2, <1>3 DEF Plans

\* Before the commit the journal and the backups speak for the old layout.
LEMMA FilesPublished ==
    ASSUME CredInv, job # NoJob, NEW t \in Tx, NEW plan \in Plans,
           job.tx = t, PlanOK(plan), Written(t), Plan(t) = plan,
           state.gen = plan.base, state.ref = plan.beforeRef,
           \A u \in Tx : u # t => evidence'[u] = evidence[u],
           UNCHANGED <<journal, aside, state, original, doubt, overlap>>,
           Rebuilds(t)',
           (plan.after["document"] # Absent /\ plan.before["token"] # Absent /\ live'["token"] = Absent) =>
               evidence'[t]["token_tombstone"] = plan.before["token"]
    PROVE  OfFiles'
<1>0. plan.base \in Nat /\ (\A u \in Tx : Plan(u)' = Plan(u) /\ (Written(u)' <=> Written(u)))
  BY DEF Plan, Written, Plans
<1>1. Backed(t)'
  BY DEF Backed, Rebuilds
<1>2. ~overlap => \A u \in Tx : Written(u) => u = t
  BY OnlyJob
<1>3. Plain'
  BY <1>0 DEF CredInv, Plain
<1>4. Safe' /\ Rest'
  BY <1>0, <1>1 DEF Safe, Rest
<1>5. Moved'
  BY <1>0, <1>2 DEF Moved
<1>6. Upgraded'
  BY <1>0, <1>2 DEF Upgraded
<1>7. Legacy'
  <2>1. \A l : Agreed(l)' <=> Agreed(l)
    BY DEF Agreed
  <2>2. \A s \in Slot : plan.before[s] # Absent => plan.before[s] \in {live'[s], evidence'[t][Backup[s]]}
    BY <1>0, <1>1 DEF Backed
  <2> QED  BY <1>0, <1>2, <2>1, <2>2 DEF CredInv, Legacy
<1> QED  BY <1>3, <1>4, <1>5, <1>6, <1>7 DEF OfFiles

\* The leaving slot moves to its tombstone; its backup stays.
LEMMA MoveAwayInv ==
    ASSUME CredInv, NEW p \in Proc, MoveAway(p) PROVE CredInv'
<1>1. job # NoJob /\ step = "move" /\ owner = p
  BY DEF MoveAway, CredInv, Control, Quiet
<1>2. PICK t \in Tx, plan \in Plans :
             /\ job.tx = t /\ job.plan = plan /\ Work(t, plan) /\ PlanOK(plan)
             /\ plan.before \in Layout /\ plan.after \in Layout /\ plan.base \in 0..MaxGen
             /\ Written(t) /\ Plan(t) = plan /\ journal[t] \in Journals
  BY <1>1, JournalOfJob
<1>3. PICK s \in Slot : s = Leaving(plan)
  BY <1>2, StagedType
<1>4. /\ live[s] # Absent /\ live' = [live EXCEPT ![s] = Absent]
      /\ evidence' = [evidence EXCEPT ![t][Tombstone[s]] = live[s]]
      /\ job' = [job EXCEPT !.phase = IF Deleting(plan) THEN "published" ELSE "opposite_moved"]
      /\ step' = "phase"
      /\ UNCHANGED <<journal, update, aside, state, session, owner, todo,
                     failures, original, doubt, overlap>>
  BY <1>2, <1>3 DEF MoveAway, EnterPhase, history
<1>5. /\ job.route = "commit" /\ state.gen = plan.base /\ state.ref = plan.beforeRef
      /\ live = plan.before /\ evidence[t] = Staged(plan) /\ update[t] = Absent
  BY <1>1, <1>2 DEF Work, CredInv, Control, Updates
<1>6. live' \in Layout /\ live'[s] = Absent /\ \A o \in Slot : o # s => live'[o] = plan.before[o]
  BY <1>2, <1>4, <1>5, SlotType
<1>7. /\ evidence' \in [Tx -> [Evidence -> Contents]]
      /\ evidence'[t] = [Staged(plan) EXCEPT ![Tombstone[s]] = plan.before[s]]
      /\ \A u \in Tx : u # t => evidence'[u] = evidence[u]
  <2>1. live[s] \in Contents /\ Tombstone[s] \in Evidence
    BY <1>2, <1>5, LayoutValue, EvidenceNames DEF Slot, Contents
  <2> QED  BY <1>4, <1>5, <2>1, EvidenceType DEF CredInv, CredTypeOK
<1>8. /\ job' \in Jobs /\ job' # NoJob /\ job'.phase = IF Deleting(plan) THEN "published" ELSE "opposite_moved"
      /\ job'.tx = t /\ job'.plan = plan /\ job'.route = "commit"
  BY <1>1, <1>2, <1>4, <1>5, PhaseType DEF CredInv, Phases
<1>9. CredTypeOK'
  BY <1>4, <1>6, <1>7, <1>8 DEF CredInv, CredTypeOK
<1>10. /\ Rebuilds(t)'
       /\ evidence'[t][Tombstone[s]] = plan.before[s]
       /\ Deleting(plan) => live' = plan.after
  <2>1. /\ evidence'[t]["stage"] = IF Deleting(plan) THEN plan.before[Target(plan)] ELSE plan.after[Target(plan)]
        /\ evidence'[t]["token_backup"] = plan.before["token"]
        /\ evidence'[t]["document_backup"] = plan.before["document"]
        /\ evidence'[t][Tombstone[s]] = plan.before[s]
    BY <1>2, <1>7, StagedIs, StagedType, EvidenceNames DEF Evidence, Slot
  <2>2. Plan(t)' = plan
    BY <1>2, <1>4 DEF Plan
  <2>3. ~Deleting(plan) => plan.after[Target(plan)] # Absent
    BY <1>2, PlanKind DEF Kind, IsImport, IsRemoval, IsPurge
  <2>4. Rebuilds(t)'
    BY <2>1, <2>2, <2>3, EvidenceNames DEF Rebuilds, Slot
  <2>5. Deleting(plan) => live' = plan.after
    <3>1. Deleting(plan) => \A o \in Slot : plan.after[o] = Absent /\ live'[o] = Absent
      BY <1>2, <1>3, <1>4, <1>5, <1>6, PlanKind DEF Kind, IsImport, IsRemoval, IsPurge, Slot
    <3> QED  BY <1>2, <1>6, <3>1, SameLayout DEF Slot
  <2> QED  BY <2>1, <2>4, <2>5
<1>11. Control' /\ Updates' /\ Listed' /\ Single'
  <2>1. Control'
    BY <1>1, <1>4, <1>8 DEF CredInv, Control, Quiet, Slot
  <2>2. Updates'
    BY <1>4, <1>5, <1>8 DEF Updates
  <2>3. Listed'
    BY <1>4, <1>8 DEF Listed
  <2>4. Single'
    BY <1>1, <1>2, <1>4, <1>8 DEF CredInv, Single
  <2> QED  BY <2>1, <2>2, <2>3, <2>4
<1>12. Working'
  <2> SUFFICES ASSUME NEW u \in Tx, NEW now \in Plans, job'.tx = u, job'.plan = now
               PROVE  Work(u, now)'
    BY DEF Working
  <2>1. u = t /\ now = plan
    BY <1>8
  <2>2. Written(t)' /\ Plan(t)' = plan /\ MovedAside(t, plan)' /\ plan.before[s] # Absent
    BY <1>2, <1>3, <1>4, <1>5, <1>10 DEF Written, Plan, MovedAside
  <2>3. live' = [plan.before EXCEPT ![s] = Absent]
    BY <1>4, <1>5
  <2> QED  BY <1>2, <1>3, <1>4, <1>5, <1>7, <1>8, <1>10, <2>1, <2>2, <2>3 DEF Work, InPhase
<1>13. OfFiles'
  <2>1. (plan.after["document"] # Absent /\ plan.before["token"] # Absent) => s = "token"
    BY <1>2, <1>3, PlanKind DEF Kind, IsImport, IsRemoval, IsPurge
  <2>2. (plan.after["document"] # Absent /\ plan.before["token"] # Absent /\ live'["token"] = Absent) =>
               evidence'[t]["token_tombstone"] = plan.before["token"]
    BY <1>10, <2>1, EvidenceNames
  <2> QED  BY <1>1, <1>2, <1>4, <1>5, <1>7, <1>10, <2>2, FilesPublished
<1> QED  BY <1>9, <1>11, <1>12, <1>13 DEF CredInv, OfFiles, OfOwner

\* The stage takes the place of the target slot.
LEMMA ReplaceInv ==
    ASSUME CredInv, NEW p \in Proc, Replace(p) PROVE CredInv'
<1>1. job # NoJob /\ step \in {"move", "replace"} /\ owner = p
  BY DEF Replace, CredInv, Control, Quiet
<1>2. PICK t \in Tx, plan \in Plans :
             /\ job.tx = t /\ job.plan = plan /\ Work(t, plan) /\ PlanOK(plan)
             /\ plan.before \in Layout /\ plan.after \in Layout /\ plan.base \in 0..MaxGen
             /\ Written(t) /\ Plan(t) = plan /\ journal[t] \in Journals
  BY <1>1, JournalOfJob
<1>3. PICK s \in Slot, o \in Slot :
        /\ s = Target(plan) /\ o = Leaving(plan) /\ s # o /\ ~Deleting(plan)
        /\ plan.after[s] # Absent /\ plan.after[o] = Absent
        /\ plan.after["document"] # Absent => o = "token"
        /\ \A x \in Slot : x = s \/ x = o
  <2>1. ~Deleting(plan)
    BY <1>2 DEF Replace
  <2> QED  BY <1>2, <2>1, PlanKind DEF Kind, IsImport, IsRemoval, IsPurge, Slot
<1>4. /\ step = "move" => live[o] = Absent
      /\ live' = [live EXCEPT ![s] = evidence[t]["stage"]]
      /\ evidence' = [evidence EXCEPT ![t]["stage"] = Absent]
      /\ job' = [job EXCEPT !.phase = "published"]
      /\ step' = "phase"
      /\ UNCHANGED <<journal, update, aside, state, session, owner, todo,
                     failures, original, doubt, overlap>>
  BY <1>2, <1>3 DEF Replace, EnterPhase, history
<1>5. /\ job.route = "commit" /\ state.gen = plan.base /\ state.ref = plan.beforeRef /\ update[t] = Absent
  BY <1>1, <1>2 DEF Work, CredInv, Control, Updates
<1>6. /\ evidence[t]["stage"] = plan.after[s] /\ live[o] = Absent
      /\ evidence[t]["token_backup"] = plan.before["token"]
      /\ evidence[t]["document_backup"] = plan.before["document"]
      /\ plan.before[o] # Absent => evidence[t][Tombstone[o]] = plan.before[o]
  <2>0. Tombstone[o] \in {"token_tombstone", "document_tombstone"}
    BY EvidenceNames DEF Slot
  <2>1. CASE step = "move"
    <3>1. live = plan.before /\ evidence[t] = Staged(plan)
      BY <1>2, <2>1 DEF Work
    <3> QED  BY <1>3, <1>4, <2>1, <3>1, StagedIs
  <2>2. CASE step = "replace"
    <3>1. /\ live = [plan.before EXCEPT ![o] = Absent]
          /\ evidence[t] = [Staged(plan) EXCEPT ![Tombstone[o]] = plan.before[o]]
      BY <1>2, <1>3, <2>2 DEF Work
    <3>2. live[o] = Absent
      BY <1>2, <3>1, LayoutValue
    <3>3. Staged(plan) \in [Evidence -> Material \cup {Absent}]
      BY <1>2, StagedType
    <3> QED  BY <1>3, <2>0, <3>1, <3>2, <3>3, StagedIs DEF Evidence
  <2> QED  BY <1>1, <2>1, <2>2
<1>7. live' = plan.after /\ live' \in Layout
  <2>1. plan.after[s] \in Material /\ plan.after[s].slot = s /\ live \in Layout
    BY <1>2, <1>3, LayoutValue DEF Slot, CredInv, CredTypeOK
  <2>3. live' = [live EXCEPT ![s] = plan.after[s]] /\ plan.after[s] \in Material \cup {Absent}
    BY <1>4, <1>6, <2>1
  <2> DEFINE m == plan.after[s]
  <2>4. m \in Material \cup {Absent} /\ (m # Absent => m.slot = s)
    BY <2>1, <2>3
  <2> HIDE DEF m
  <2>5. /\ [live EXCEPT ![s] = m] \in Layout /\ [live EXCEPT ![s] = m][s] = m
        /\ [live EXCEPT ![s] = m][o] = live[o]
    BY <1>3, <2>1, <2>4, SlotType
  <2>2. live' \in Layout /\ live'[s] = plan.after[s] /\ live'[o] = live[o]
    BY <2>3, <2>5 DEF m
  <2> QED  BY <1>2, <1>3, <1>6, <2>2, SameLayout DEF Slot
<1>8. /\ evidence' \in [Tx -> [Evidence -> Contents]]
      /\ evidence'[t]["stage"] = Absent /\ \A k \in Evidence : k # "stage" => evidence'[t][k] = evidence[t][k]
      /\ \A u \in Tx : u # t => evidence'[u] = evidence[u]
  <2>1. Absent \in Contents /\ "stage" \in Evidence
    BY DEF Contents, Evidence
  <2> QED  BY <1>4, <2>1, EvidenceType DEF CredInv, CredTypeOK
<1>9. /\ job' \in Jobs /\ job' # NoJob /\ job'.phase = "published"
      /\ job'.tx = t /\ job'.plan = plan /\ job'.route = "commit"
  BY <1>1, <1>2, <1>4, <1>5, PhaseType DEF CredInv, Phases
<1>10. CredTypeOK'
  BY <1>4, <1>7, <1>8, <1>9 DEF CredInv, CredTypeOK
<1>11. /\ Rebuilds(t)'
       /\ plan.before[o] # Absent => evidence'[t][Tombstone[o]] = plan.before[o]
  <2>1. Plan(t)' = plan
    BY <1>2, <1>4 DEF Plan
  <2>2. /\ evidence'[t]["token_backup"] = plan.before["token"]
        /\ evidence'[t]["document_backup"] = plan.before["document"]
        /\ plan.before[o] # Absent => evidence'[t][Tombstone[o]] = plan.before[o]
    BY <1>6, <1>8, EvidenceNames DEF Evidence, Slot
  <2> QED  BY <1>3, <1>7, <1>8, <2>1, <2>2, EvidenceNames DEF Rebuilds, Slot
<1>12. Control' /\ Updates' /\ Listed' /\ Single'
  <2>1. Control'
    BY <1>1, <1>4, <1>9 DEF CredInv, Control, Quiet, Slot
  <2>2. Updates'
    BY <1>4, <1>5, <1>9 DEF Updates
  <2>3. Listed'
    BY <1>4, <1>9 DEF Listed
  <2>4. Single'
    BY <1>1, <1>2, <1>4, <1>9 DEF CredInv, Single
  <2> QED  BY <2>1, <2>2, <2>3, <2>4
<1>13. Working'
  <2> SUFFICES ASSUME NEW u \in Tx, NEW now \in Plans, job'.tx = u, job'.plan = now
               PROVE  Work(u, now)'
    BY DEF Working
  <2>1. u = t /\ now = plan
    BY <1>9
  <2>2. Written(t)' /\ Plan(t)' = plan /\ MovedAside(t, plan)'
    BY <1>2, <1>3, <1>4, <1>11 DEF Written, Plan, MovedAside
  <2> QED  BY <1>2, <1>4, <1>5, <1>7, <1>9, <1>11, <2>1, <2>2 DEF Work, InPhase
<1>14. OfFiles'
  <2>2. (plan.after["document"] # Absent /\ plan.before["token"] # Absent /\ live'["token"] = Absent) =>
               evidence'[t]["token_tombstone"] = plan.before["token"]
    BY <1>3, <1>11, EvidenceNames
  <2> QED  BY <1>1, <1>2, <1>4, <1>5, <1>8, <1>11, <2>2, FilesPublished
<1> QED  BY <1>10, <1>12, <1>13, <1>14 DEF CredInv, OfFiles, OfOwner

\* A transaction of nothing has nothing to move: its layout is published as it is.
LEMMA PublishPurgeInv ==
    ASSUME CredInv, NEW p \in Proc, PublishPurge(p) PROVE CredInv'
<1>1. job # NoJob /\ step = "move" /\ owner = p
  BY DEF PublishPurge, CredInv, Control, Quiet
<1>2. PICK t \in Tx, plan \in Plans :
             /\ job.tx = t /\ job.plan = plan /\ Work(t, plan) /\ PlanOK(plan)
             /\ plan.before \in Layout /\ plan.after \in Layout /\ plan.base \in 0..MaxGen
             /\ Written(t) /\ Plan(t) = plan /\ journal[t] \in Journals
  BY <1>1, JournalOfJob
<1>3. /\ plan.after = Empty /\ plan.before = Empty
      /\ job' = [job EXCEPT !.phase = "published"] /\ step' = "phase"
      /\ UNCHANGED <<live, evidence, journal, update, aside, state, session, owner, todo,
                     failures, original, doubt, overlap>>
  BY <1>2 DEF PublishPurge, EnterPhase, Purging, files, history
<1>4. /\ job.route = "commit" /\ state.gen = plan.base /\ state.ref = plan.beforeRef /\ update[t] = Absent
      /\ live = plan.before
  BY <1>1, <1>2 DEF Work, CredInv, Control, Updates
<1>5. /\ job' \in Jobs /\ job' # NoJob /\ job'.phase = "published"
      /\ job'.tx = t /\ job'.plan = plan /\ job'.route = "commit"
  BY <1>1, <1>2, <1>3, <1>4, PhaseType DEF CredInv, Phases
<1>6. CredTypeOK'
  BY <1>3, <1>5 DEF CredInv, CredTypeOK
<1>7. OfFiles'
  BY <1>3, FilesKept DEF CredInv, OfFiles
<1>8. Control' /\ Updates' /\ Listed' /\ Single'
  <2>1. Control'
    BY <1>1, <1>3, <1>5 DEF CredInv, Control, Quiet, Slot
  <2>2. Updates'
    BY <1>3, <1>4, <1>5 DEF Updates
  <2>3. Listed'
    BY <1>3, <1>5 DEF Listed
  <2>4. Single'
    BY <1>1, <1>2, <1>3, <1>5 DEF CredInv, Single
  <2> QED  BY <2>1, <2>2, <2>3, <2>4
<1>9. Working'
  <2> SUFFICES ASSUME NEW u \in Tx, NEW now \in Plans, job'.tx = u, job'.plan = now
               PROVE  Work(u, now)'
    BY DEF Working
  <2>1. u = t /\ now = plan
    BY <1>5
  <2>2. Written(t)' /\ Plan(t)' = plan
    BY <1>2, <1>3 DEF Written, Plan
  <2>3. \A s \in Slot : plan.before[s] = Absent
    BY <1>3, EmptyLayout DEF Slot
  <2>4. Rebuilds(t)' /\ MovedAside(t, plan)'
    BY <1>2, <1>3, <2>2, <2>3, StagedType DEF Rebuilds, MovedAside, Deleting
  <2> QED  BY <1>2, <1>3, <1>4, <1>5, <2>1, <2>2, <2>4 DEF Work, InPhase
<1> QED  BY <1>6, <1>7, <1>8, <1>9 DEF CredInv, OfFiles, OfOwner

\* The next phase of the journal is written next to it.
LEMMA WriteUpdateInv ==
    ASSUME CredInv, NEW p \in Proc, WriteUpdate(p) PROVE CredInv'
<1>1. job # NoJob /\ step = "phase" /\ owner = p
  BY DEF WriteUpdate, CredInv, Control, Quiet
<1>2. PICK t \in Tx, plan \in Plans :
             /\ job.tx = t /\ job.plan = plan /\ Work(t, plan) /\ PlanOK(plan)
             /\ plan.before \in Layout /\ plan.after \in Layout /\ plan.base \in 0..MaxGen
             /\ Written(t) /\ Plan(t) = plan /\ journal[t] \in Journals
  BY <1>1, JournalOfJob
<1>3. /\ update' = [update EXCEPT ![t] = [plan |-> plan, phase |-> job.phase]]
      /\ UNCHANGED <<live, evidence, journal, aside, state, session, owner, step, job, todo,
                     failures, original, doubt, overlap>>
  BY <1>2 DEF WriteUpdate, history
<1>4. [plan |-> plan, phase |-> job.phase] \in Journals
  BY <1>1, <1>2, JobType DEF Journals, CredInv
<1>5. CredTypeOK'
  BY <1>3, <1>4 DEF CredInv, CredTypeOK
<1>6. OfFiles'
  BY <1>3, FilesKept DEF CredInv, OfFiles
<1>7. Control' /\ Updates' /\ Listed' /\ Single'
  <2>1. Control' /\ Listed' /\ Single'
    BY <1>3 DEF CredInv, Control, Listed, Single
  <2>2. Updates'
    BY <1>1, <1>2, <1>3 DEF CredInv, CredTypeOK, Updates
  <2> QED  BY <2>1, <2>2
<1>8. Working'
  <2> SUFFICES ASSUME NEW u \in Tx, NEW now \in Plans, job'.tx = u, job'.plan = now
               PROVE  Work(u, now)'
    BY DEF Working
  <2>1. Work(u, now)
    BY <1>2, <1>3
  <2> QED  BY <1>1, <1>3, <2>1 DEF Work, InPhase, Written, Plan, Rebuilds, MovedAside, Reverted
<1> QED  BY <1>5, <1>6, <1>7, <1>8 DEF CredInv, OfFiles, OfOwner

\* The written phase takes the place of the journal.
LEMMA ReplaceJournalInv ==
    ASSUME CredInv, NEW p \in Proc, ReplaceJournal(p) PROVE CredInv'
<1>1. job # NoJob /\ step = "phase" /\ owner = p
  BY DEF ReplaceJournal, CredInv, Control, Quiet
<1>2. PICK t \in Tx, plan \in Plans :
             /\ job.tx = t /\ job.plan = plan /\ Work(t, plan) /\ PlanOK(plan)
             /\ plan.before \in Layout /\ plan.after \in Layout /\ plan.base \in 0..MaxGen
             /\ Written(t) /\ Plan(t) = plan /\ journal[t] \in Journals
  BY <1>1, JournalOfJob
<1>3. /\ update[t] = [plan |-> plan, phase |-> job.phase]
      /\ journal' = [journal EXCEPT ![t] = update[t]]
      /\ update' = [update EXCEPT ![t] = Absent]
      /\ step' = CASE job.phase = "opposite_moved" -> "replace"
                   [] job.phase = "published" -> "commit"
                   [] job.phase = "restored" -> "clean"
      /\ UNCHANGED <<live, evidence, aside, state, session, owner, job, todo,
                     failures, original, doubt, overlap>>
  BY <1>1, <1>2 DEF ReplaceJournal, history, CredInv, Updates
<1>4. \/ job.phase = "opposite_moved" /\ step' = "replace" /\ job.route = "commit"
      \/ job.phase = "published" /\ step' = "commit" /\ job.route = "commit"
      \/ job.phase = "restored" /\ step' = "clean" /\ job.route # "commit"
  <2>1. job.phase \in {"opposite_moved", "published", "restored"}
    BY <1>1, JobType DEF CredInv, Control, Phases
  <2>2. job.phase = "restored" <=> job.route # "commit"
    BY <1>1 DEF CredInv, Control
  <2> QED  BY <1>3, <2>1, <2>2
<1>5. [plan |-> plan, phase |-> job.phase] \in Journals
  BY <1>1, <1>2, JobType DEF Journals, CredInv
<1>6. CredTypeOK'
  BY <1>3, <1>4, <1>5 DEF CredInv, CredTypeOK
<1>7. /\ Written(t)' /\ Plan(t)' = plan
      /\ \A u \in Tx : (Written(u)' <=> Written(u)) /\ (Written(u) => Plan(u)' = Plan(u))
      /\ \A u \in Tx : journal'[u] = Absent <=> journal[u] = Absent
  BY <1>2, <1>3, <1>5, CredentialConstants DEF CredInv, CredTypeOK, Written, Plan
<1>8. OfFiles'
  <2>1. \A u \in Tx : Written(u) => (Rebuilds(u)' <=> Rebuilds(u)) /\ (Backed(u)' <=> Backed(u))
    BY <1>3, <1>7 DEF Rebuilds, Backed
  <2>2. (\A r : Shown(r)' <=> Shown(r)) /\ (\A l : Agreed(l)' <=> Agreed(l))
    BY <1>3 DEF Shown, Agreed
  <2>3. Plain' /\ Safe'
    BY <1>3, <1>7, <2>1, <2>2 DEF CredInv, Plain, Safe
  <2>4. Rest' /\ Moved'
    BY <1>3, <1>7, <2>1 DEF CredInv, Rest, Moved
  <2>5. Upgraded' /\ Legacy'
    BY <1>3, <1>7, <2>2 DEF CredInv, Upgraded, Legacy
  <2> QED  BY <2>3, <2>4, <2>5 DEF OfFiles
<1>9. Control' /\ Updates' /\ Listed' /\ Single'
  <2>1. Control'
    BY <1>1, <1>3, <1>4 DEF CredInv, Control, Quiet, Slot
  <2>2. Updates'
    BY <1>1, <1>2, <1>3, <1>4 DEF CredInv, CredTypeOK, Updates
  <2>3. Listed'
    BY <1>1, <1>3, <1>4, <1>7 DEF CredInv, Listed
  <2>4. Single'
    BY <1>3, <1>7 DEF CredInv, Single
  <2> QED  BY <2>1, <2>2, <2>3, <2>4
<1>10. Working'
  <2> SUFFICES ASSUME NEW u \in Tx, NEW now \in Plans, job'.tx = u, job'.plan = now
               PROVE  Work(u, now)'
    BY DEF Working
  <2>1. u = t /\ now = plan
    BY <1>2, <1>3
  <2>2. (Rebuilds(t)' <=> Rebuilds(t)) /\ (MovedAside(t, plan)' <=> MovedAside(t, plan))
    BY <1>2, <1>3, <1>7 DEF Rebuilds, MovedAside
  <2>3. Reverted(plan)' <=> Reverted(plan)
    BY <1>3 DEF Reverted
  <2> QED  BY <1>1, <1>2, <1>3, <1>4, <1>7, <2>1, <2>2, <2>3 DEF Work, InPhase
<1> QED  BY <1>6, <1>8, <1>9, <1>10 DEF CredInv, OfFiles, OfOwner

-----------------------------------------------------------------------------
(* The commit of State.                                                    *)

\* State is committed with the new reference, exactly at the published layout.
LEMMA CommitInv ==
    ASSUME CredInv, NEW p \in Proc, Commit(p) PROVE CredInv'
<1>1. job # NoJob /\ step = "commit" /\ owner = p
  BY DEF Commit, CredInv, Control, Quiet
<1>2. PICK t \in Tx, plan \in Plans :
             /\ job.tx = t /\ job.plan = plan /\ Work(t, plan) /\ PlanOK(plan)
             /\ plan.before \in Layout /\ plan.after \in Layout /\ plan.base \in 0..MaxGen
             /\ Written(t) /\ Plan(t) = plan /\ journal[t] \in Journals
  BY <1>1, JournalOfJob
<1>3. /\ state' = [gen |-> state.gen + 1, ref |-> plan.afterRef] /\ step' = "clean"
      /\ UNCHANGED <<live, evidence, journal, update, aside, session, owner, job, todo,
                     failures, original, doubt, overlap>>
  BY <1>2 DEF Commit, files, history
<1>4. /\ job.route = "commit" /\ state.gen = plan.base /\ live = plan.after
      /\ plan.afterRef = LayoutRef(live) /\ plan.base < MaxGen /\ update[t] = Absent
  BY <1>1, <1>2 DEF Work, PlanOK, CredInv, Control, Updates
<1>5. state'.gen = plan.base + 1 /\ state'.gen > 0 /\ state'.gen # 0 /\ state'.ref = plan.afterRef
      /\ state' \in [gen : 0 .. MaxGen, ref : Refs]
  <2>1. plan.base + 1 \in 0..MaxGen /\ plan.afterRef \in Refs
    BY <1>2, <1>4, CredentialConstants DEF Plans
  <2> QED  BY <1>2, <1>3, <1>4, <2>1
<1>6. CredTypeOK'
  BY <1>3, <1>5 DEF CredInv, CredTypeOK
<1>7. Control' /\ Updates' /\ Listed' /\ Single'
  <2>1. Control'
    BY <1>1, <1>3 DEF CredInv, Control, Quiet, Slot
  <2>2. Updates'
    BY <1>1, <1>2, <1>3, <1>4 DEF CredInv, Updates
  <2>3. Listed' /\ Single'
    BY <1>1, <1>3 DEF CredInv, Listed, Single
  <2> QED  BY <2>1, <2>2, <2>3
<1>8. Working'
  <2> SUFFICES ASSUME NEW u \in Tx, NEW now \in Plans, job'.tx = u, job'.plan = now
               PROVE  Work(u, now)'
    BY DEF Working
  <2>1. u = t /\ now = plan
    BY <1>2, <1>3
  <2>2. Written(t)' /\ Plan(t)' = plan
    BY <1>2, <1>3 DEF Written, Plan
  <2> QED  BY <1>2, <1>3, <1>4, <1>5, <2>1, <2>2 DEF Work, InPhase
<1>9. OfFiles'
  <2>1. /\ \A u \in Tx : (Written(u)' <=> Written(u)) /\ Plan(u)' = Plan(u) /\ (Backed(u)' <=> Backed(u))
        /\ LayoutRef(live)' = plan.afterRef
    BY <1>3, <1>4 DEF Written, Plan, Backed, LayoutRef
  <2>2. Plain'
    BY <2>1 DEF CredInv, Plain
  <2>3. Safe'
    <3>1. plan.afterRef # NoRef => Shown(plan.afterRef)'
      BY <1>3, <1>4, LayoutRefType DEF Shown, CredInv, CredTypeOK
    <3> QED  BY <1>5, <3>1 DEF Safe
  <2>4. Rest'
    BY <1>5, <2>1 DEF Rest
  <2>5. Moved'
    BY <1>3, <2>1 DEF CredInv, Moved
  <2>6. Upgraded'
    BY <1>1, <1>2, <1>3, <1>5, <2>1, OnlyJob DEF Upgraded
  <2>7. Legacy'
    BY <1>5 DEF Legacy
  <2> QED  BY <2>2, <2>3, <2>4, <2>5, <2>6, <2>7 DEF OfFiles
<1> QED  BY <1>6, <1>7, <1>8, <1>9 DEF CredInv, OfFiles, OfOwner

\* A commit that is refused, or whose outcome is in doubt, is rolled back.
LEMMA CommitFailsInv ==
    ASSUME CredInv, NEW p \in Proc, CommitFails(p) PROVE CredInv'
<1>1. job # NoJob /\ step = "commit" /\ owner = p
  BY DEF CommitFails, CredInv, Control, Quiet
<1>2. PICK t \in Tx, plan \in Plans :
             /\ job.tx = t /\ job.plan = plan /\ Work(t, plan) /\ PlanOK(plan)
             /\ plan.before \in Layout /\ plan.after \in Layout /\ plan.base \in 0..MaxGen
             /\ Written(t) /\ Plan(t) = plan /\ journal[t] \in Journals
  BY <1>1, JournalOfJob
<1>3. /\ failures < MaxFailures /\ failures' = failures + 1
      /\ \/ UNCHANGED <<state, doubt>>
         \/ state' = [gen |-> state.gen + 1, ref |-> plan.afterRef] /\ doubt' = TRUE
      /\ job' = [job EXCEPT !.route = "rollback", !.phase = "restored"] /\ step' = "token"
      /\ UNCHANGED <<live, evidence, journal, update, aside, session, owner, todo, original, overlap>>
  BY <1>2 DEF CommitFails, files
<1>4. /\ job.route = "commit" /\ state.gen = plan.base /\ state.ref = plan.beforeRef /\ live = plan.after
      /\ Rebuilds(t) /\ plan.base < MaxGen /\ update[t] = Absent
  BY <1>1, <1>2 DEF Work, PlanOK, CredInv, Control, Updates
<1>5. /\ job' \in Jobs /\ job' # NoJob /\ job'.tx = t /\ job'.plan = plan
      /\ job'.route = "rollback" /\ job'.phase = "restored"
  <2>1. job \in Jobs
    BY <1>1, JobType DEF CredInv
  <2> QED  BY <1>2, <1>3, <2>1, CredentialConstants DEF Jobs, Routes, Phases
<1>6. state' \in [gen : 0 .. MaxGen, ref : Refs] /\ doubt' \in BOOLEAN /\ failures' \in 0..MaxFailures
  <2>1. plan.base + 1 \in 0..MaxGen /\ plan.afterRef \in Refs
    BY <1>2, <1>4, CredentialConstants DEF Plans
  <2>2. state' \in [gen : 0 .. MaxGen, ref : Refs]
    <3>1. CASE UNCHANGED <<state, doubt>>
      BY <3>1 DEF CredInv, CredTypeOK
    <3>2. CASE state' = [gen |-> state.gen + 1, ref |-> plan.afterRef]
      BY <1>4, <2>1, <3>2
    <3> QED  BY <1>3, <3>1, <3>2
  <2>3. doubt' \in BOOLEAN
    BY <1>3 DEF CredInv, CredTypeOK
  <2>4. failures' \in 0..MaxFailures
    BY <1>3, CredentialConstants DEF CredInv, CredTypeOK
  <2> QED  BY <2>2, <2>3, <2>4
<1>7. CredTypeOK'
  BY <1>3, <1>5, <1>6 DEF CredInv, CredTypeOK
<1>8. Control' /\ Updates' /\ Listed' /\ Single'
  <2>1. Control'
    BY <1>1, <1>3, <1>5 DEF CredInv, Control, Quiet, Slot
  <2>2. Updates'
    BY <1>3, <1>4, <1>5 DEF Updates
  <2>3. Listed'
    BY <1>3, <1>5 DEF Listed
  <2>4. Single'
    BY <1>1, <1>2, <1>3, <1>5 DEF CredInv, Single
  <2> QED  BY <2>1, <2>2, <2>3, <2>4
<1>9. Working'
  <2> SUFFICES ASSUME NEW u \in Tx, NEW now \in Plans, job'.tx = u, job'.plan = now
               PROVE  Work(u, now)'
    BY DEF Working
  <2>1. u = t /\ now = plan
    BY <1>5
  <2>2. Written(t)' /\ Plan(t)' = plan /\ Rebuilds(t)'
    BY <1>2, <1>3, <1>4 DEF Written, Plan, Rebuilds
  <2>3. (\A s \in Slot : Within(plan, s)') /\ Reverted(plan)'
    BY <1>3, <1>4 DEF Within, Reverted
  <2> QED  BY <1>2, <1>3, <1>5, <2>1, <2>2, <2>3 DEF Work, InPhase
<1>10. OfFiles'
  <2>1. CASE UNCHANGED <<state, doubt>>
    BY <1>3, <2>1, FilesKept DEF CredInv, OfFiles
  <2>2. CASE state' = [gen |-> state.gen + 1, ref |-> plan.afterRef] /\ doubt' = TRUE
    <3>1. state'.gen # 0 /\ doubt'
      BY <1>2, <1>4, <2>2
    <3>2. \A u \in Tx : (Written(u)' <=> Written(u)) /\ Plan(u)' = Plan(u) /\ (Backed(u)' <=> Backed(u))
      BY <1>3 DEF Written, Plan, Backed
    <3>3. Plain' /\ Moved'
      BY <1>3, <3>2 DEF CredInv, Plain, Moved
    <3>4. Safe' /\ Rest' /\ Upgraded' /\ Legacy'
      BY <3>1 DEF Safe, Rest, Upgraded, Legacy
    <3> QED  BY <3>3, <3>4 DEF OfFiles
  <2> QED  BY <1>3, <2>1, <2>2
<1> QED  BY <1>7, <1>8, <1>9, <1>10 DEF CredInv, OfFiles, OfOwner

-----------------------------------------------------------------------------
(* Rollback.                                                               *)

\* When a layout is back, State refers to it again, unless its commit is in doubt.
LEMMA RevertedAgrees ==
    ASSUME CredInv, NEW t \in Tx, NEW plan \in Plans, PlanOK(plan), Written(t), Plan(t) = plan,
           Reverted(plan), state.gen > 0, ~doubt, state.ref # NoRef \/ ~overlap
    PROVE  LayoutRef(plan.before) = state.ref
<1>1. plan.base \in 0..MaxGen /\ plan.before \in Layout /\ plan.after \in Layout /\ state.gen \in 0..MaxGen
  BY DEF Plans, CredInv, CredTypeOK
<1>2. state.ref = plan.beforeRef
  BY <1>1 DEF Reverted
<1>3. CASE plan.base > 0
  BY <1>2, <1>3 DEF PlanOK
<1>4. CASE plan.base = 0
  <2>1. state.ref = NoRef /\ state.ref = plan.afterRef
    BY <1>2, <1>4 DEF PlanOK, CredInv, Upgraded
  <2>2. \E o \in Slot : plan.after[o] = Absent
    BY PlanKind DEF Kind, IsImport, IsRemoval, IsPurge, Slot
  <2>3. plan.after = Empty
    BY <1>1, <2>1, <2>2, NonemptyLayoutRef DEF PlanOK
  <2>4. plan.before = Empty
    BY <1>4, <2>3 DEF PlanOK, Deleting
  <2> QED  BY <2>1, <2>4, EmptyLayout, LayoutRefIs
<1> QED  BY <1>1, <1>3, <1>4

\* What one slot's restoration does.
LEMMA RestoreSlotIs ==
    ASSUME CredInv, NEW p \in Proc, NEW s \in Slot, RestoreSlot(p, s)
    PROVE  \E t \in Tx, plan \in Plans :
             /\ job # NoJob /\ step = s /\ owner = p /\ job.route # "commit" /\ job.phase = "restored"
             /\ job.tx = t /\ job.plan = plan /\ Work(t, plan) /\ PlanOK(plan)
             /\ plan.before \in Layout /\ plan.after \in Layout /\ plan.base \in 0..MaxGen
             /\ Written(t) /\ Plan(t) = plan /\ journal[t] \in Journals /\ update[t] = Absent
             /\ Within(plan, s) /\ Reverted(plan)
             /\ live' \in Layout /\ live'[s] = plan.before[s] /\ live'[Opposite[s]] = live[Opposite[s]]
             /\ evidence' \in [Tx -> [Evidence -> Contents]]
             /\ \A u \in Tx : u # t => evidence'[u] = evidence[u]
             /\ plan.before[s] \in {Absent, live[s]} => evidence' = evidence
             /\ \A k \in Evidence \ {Source(t, s)} : evidence'[t][k] = evidence[t][k]
             /\ step' = IF s = "token" THEN "document" ELSE "phase"
             /\ UNCHANGED <<journal, update, aside, state, session, owner, job, todo,
                            failures, original, doubt, overlap>>
<1>1. /\ step = s /\ owner = p /\ step' = (IF s = "token" THEN "document" ELSE "phase")
      /\ UNCHANGED <<journal, update, aside, state, session, owner, job, todo,
                     failures, original, doubt, overlap>>
  BY DEF RestoreSlot, history
<1>2. job # NoJob /\ job.route # "commit" /\ job.phase = "restored" /\ step \notin {"quarantine", "stage"}
  BY <1>1 DEF CredInv, Control, Quiet, Slot
<1>3. PICK t \in Tx, plan \in Plans :
             /\ job.tx = t /\ job.plan = plan /\ Work(t, plan) /\ PlanOK(plan)
             /\ plan.before \in Layout /\ plan.after \in Layout /\ plan.base \in 0..MaxGen
             /\ Written(t) /\ Plan(t) = plan /\ journal[t] \in Journals
  BY <1>2, JournalOfJob
<1>4. Within(plan, s) /\ Reverted(plan) /\ update[t] = Absent
  BY <1>1, <1>2, <1>3 DEF Work, Slot, CredInv, Updates
<1>5. /\ live' = IF plan.before[s] = Absent /\ plan.after[s] = Absent THEN live
                 ELSE [live EXCEPT ![s] = plan.before[s]]
      /\ evidence' = IF plan.before[s] \in {Absent, live[s]} THEN evidence
                     ELSE [evidence EXCEPT ![t][Source(t, s)] = Absent]
  BY <1>3 DEF RestoreSlot
<1>6. live \in Layout /\ plan.before[s] \in Material \cup {Absent} /\ (plan.before[s] # Absent => plan.before[s].slot = s)
  BY <1>3, LayoutValue DEF CredInv, CredTypeOK, Slot
<1>7. live' \in Layout /\ live'[s] = plan.before[s] /\ live'[Opposite[s]] = live[Opposite[s]]
  <2>1. Opposite[s] \in Slot /\ Opposite[s] # s
    BY EvidenceNames DEF Slot
  <2>2. CASE plan.before[s] = Absent /\ plan.after[s] = Absent
    BY <1>4, <1>5, <1>6, <2>2 DEF Within
  <2>3. CASE ~(plan.before[s] = Absent /\ plan.after[s] = Absent)
    <3> DEFINE m == plan.before[s]
    <3>1. live' = [live EXCEPT ![s] = m]
      BY <1>5, <2>3
    <3>2. m \in Material \cup {Absent} /\ (m # Absent => m.slot = s)
      BY <1>6
    <3> HIDE DEF m
    <3>3. /\ [live EXCEPT ![s] = m] \in Layout /\ [live EXCEPT ![s] = m][s] = m
          /\ [live EXCEPT ![s] = m][Opposite[s]] = live[Opposite[s]]
      BY <1>6, <2>1, <3>2, SlotType
    <3> QED  BY <3>1, <3>3 DEF m
  <2> QED  BY <2>2, <2>3
<1>8. /\ evidence' \in [Tx -> [Evidence -> Contents]]
      /\ \A u \in Tx : u # t => evidence'[u] = evidence[u]
      /\ plan.before[s] \in {Absent, live[s]} => evidence' = evidence
      /\ \A k \in Evidence \ {Source(t, s)} : evidence'[t][k] = evidence[t][k]
  <2>1. Source(t, s) \in Evidence /\ Absent \in Contents /\ evidence \in [Tx -> [Evidence -> Contents]]
    BY EvidenceNames DEF Source, Contents, CredInv, CredTypeOK
  <2>2. CASE plan.before[s] \in {Absent, live[s]}
    BY <1>5, <2>1, <2>2
  <2>3. CASE plan.before[s] \notin {Absent, live[s]}
    <3>1. evidence' = [evidence EXCEPT ![t][Source(t, s)] = Absent]
      BY <1>5, <2>3
    <3> QED  BY <2>1, <2>3, <3>1
  <2> QED  BY <2>2, <2>3
<1> QED  BY <1>1, <1>2, <1>3, <1>4, <1>7, <1>8

\* A slot comes back from its tombstone or its backup; the token is first.
LEMMA RestoreSlotInv ==
    ASSUME CredInv, NEW p \in Proc, NEW s \in Slot, RestoreSlot(p, s) PROVE CredInv'
<1>1. PICK t \in Tx, plan \in Plans :
             /\ job # NoJob /\ step = s /\ owner = p /\ job.route # "commit" /\ job.phase = "restored"
             /\ job.tx = t /\ job.plan = plan /\ Work(t, plan) /\ PlanOK(plan)
             /\ plan.before \in Layout /\ plan.after \in Layout /\ plan.base \in 0..MaxGen
             /\ Written(t) /\ Plan(t) = plan /\ journal[t] \in Journals /\ update[t] = Absent
             /\ Within(plan, s) /\ Reverted(plan)
             /\ live' \in Layout /\ live'[s] = plan.before[s] /\ live'[Opposite[s]] = live[Opposite[s]]
             /\ evidence' \in [Tx -> [Evidence -> Contents]]
             /\ \A u \in Tx : u # t => evidence'[u] = evidence[u]
             /\ plan.before[s] \in {Absent, live[s]} => evidence' = evidence
             /\ \A k \in Evidence \ {Source(t, s)} : evidence'[t][k] = evidence[t][k]
             /\ step' = IF s = "token" THEN "document" ELSE "phase"
             /\ UNCHANGED <<journal, update, aside, state, session, owner, job, todo,
                            failures, original, doubt, overlap>>
  BY RestoreSlotIs
<1>2. CredTypeOK'
  BY <1>1 DEF CredInv, CredTypeOK
<1>3. Control' /\ Updates' /\ Listed' /\ Single'
  <2>1. Control'
    BY <1>1 DEF CredInv, Control, Quiet, Slot
  <2>2. Updates'
    BY <1>1 DEF CredInv, Updates, Slot
  <2>3. Listed'
    <3>1. \A u \in Tx : journal[u] = Absent => u # t
      BY <1>1 DEF Written
    <3> QED  BY <1>1, <3>1 DEF CredInv, Listed
  <2>4. Single'
    BY <1>1 DEF CredInv, Single
  <2> QED  BY <2>1, <2>2, <2>3, <2>4
<1>4. /\ s = "token" => /\ live'["token"] = plan.before["token"] /\ live'["document"] = live["document"]
                        /\ Rebuilds(t) /\ Within(plan, "document") /\ Within(plan, "token")
      /\ s = "document" => live' = plan.before
      /\ Written(t)' /\ Plan(t)' = plan /\ (Reverted(plan)' <=> Reverted(plan))
  <2>1. s = "token" => Rebuilds(t) /\ Within(plan, "document") /\ Within(plan, "token")
    BY <1>1 DEF Work, Slot
  <2>2. s = "document" => live["token"] = plan.before["token"]
    BY <1>1 DEF Work
  <2>3. s = "document" => live' = plan.before
    BY <1>1, <2>2, EvidenceNames, SameLayout DEF Slot
  <2> QED  BY <1>1, <2>1, <2>3, EvidenceNames DEF Written, Plan, Reverted
<1>5. Working'
  <2> SUFFICES ASSUME NEW u \in Tx, NEW now \in Plans, job'.tx = u, job'.plan = now
               PROVE  Work(u, now)'
    BY DEF Working
  <2>1. u = t /\ now = plan
    BY <1>1
  <2>2. s = "token" => Within(plan, "document")'
    BY <1>4 DEF Within
  <2> QED  BY <1>1, <1>4, <2>1, <2>2 DEF Work, InPhase, Slot
\* Either the old layout is back or the journal still proves both.
<1>6. ASSUME ~overlap PROVE live' = plan.before \/ Rebuilds(t)'
  <2>1. CASE s = "document"
    BY <1>4, <2>1
  <2>2. CASE s = "token" /\ live["document"] = plan.before["document"]
    BY <1>1, <1>4, <2>2, SameLayout
  <2>3. CASE s = "token" /\ live["document"] # plan.before["document"]
    <3>1. plan.after["document"] # plan.before["document"]
      BY <1>4, <2>3 DEF Within
    <3>2. Kind(plan, "document", "token")
      <4>1. ~Kind(plan, "token", "document")
        BY <1>4, <2>3 DEF Within, Kind, IsImport, IsRemoval, IsPurge
      <4> QED  BY <4>1, <1>1, PlanKind
    <3>3. Target(plan) = "document" /\ plan.after["token"] = Absent
      BY <3>2 DEF Kind, IsImport, IsRemoval, IsPurge
    <3>4. "stage" # Source(t, s) /\ "document_backup" # Source(t, s)
      BY <2>3, EvidenceNames DEF Source
    <3>5. evidence'[t]["stage"] = evidence[t]["stage"] /\ evidence'[t]["document_backup"] = evidence[t]["document_backup"]
      BY <1>1, <3>4 DEF Evidence
    <3>6. plan.before["token"] # Absent => evidence'[t]["token_backup"] = plan.before["token"]
      <4> SUFFICES ASSUME plan.before["token"] # Absent PROVE evidence'[t]["token_backup"] = plan.before["token"]
        OBVIOUS
      <4>1. Backed(t) /\ evidence[t]["token_backup"] = plan.before["token"]
        BY <1>1, <1>4, <2>3, EvidenceNames DEF Rebuilds, Backed, Slot
      <4>2. CASE live["token"] = plan.before["token"]
        BY <1>1, <2>3, <4>1, <4>2
      <4>3. CASE live["token"] # plan.before["token"]
        <5>1. live["token"] = Absent
          BY <1>4, <2>3, <3>3, <4>3 DEF Within
        <5>2. plan.after["document"] # Absent
          BY <3>2 DEF Kind, IsImport, IsRemoval, IsPurge
        <5>3. evidence[t]["token_tombstone"] = plan.before["token"]
          BY <1>1, <1>6, <4>1, <5>1, <5>2 DEF CredInv, Moved
        <5>4. Source(t, s) = "token_tombstone"
          BY <2>3, <5>3, EvidenceNames DEF Source
        <5> QED  BY <1>1, <4>1, <5>4 DEF Evidence
      <4> QED  BY <4>2, <4>3
    <3>7. /\ Deleting(plan) \/ (IF evidence[t]["stage"] # Absent THEN evidence[t]["stage"] ELSE live["document"]) = plan.after["document"]
          /\ plan.before["document"] # Absent => evidence[t]["document_backup"] = plan.before["document"]
      BY <1>1, <1>4, <2>3, <3>3, EvidenceNames DEF Rebuilds, Slot
    <3> QED  BY <1>4, <2>3, <3>3, <3>5, <3>6, <3>7, EvidenceNames DEF Rebuilds, Slot
  <2> QED  BY <2>1, <2>2, <2>3 DEF Slot
<1>7. OfFiles'
  <2>0. /\ \A u \in Tx : Plan(u)' = Plan(u) /\ (Written(u)' <=> Written(u))
        /\ ~overlap => \A u \in Tx : Written(u) => u = t
    BY <1>1, OnlyJob DEF Plan, Written
  <2>1. Plain'
    BY <2>0 DEF CredInv, Plain
  <2>2. Safe'
    <3> SUFFICES ASSUME state.gen > 0, state.ref # NoRef, ~doubt
                 PROVE  \/ Shown(state.ref)'
                        \/ Written(t)' /\ plan.beforeRef = state.ref /\ Backed(t)' /\ plan.base > 0
      BY <1>1, <1>4 DEF Safe
    <3>1. LayoutRef(plan.before) = state.ref
      BY <1>1, RevertedAgrees
    <3>2. PICK x \in Slot : plan.before[x] # Absent /\ Ref(plan.before[x]) = state.ref
                            /\ plan.before[Opposite[x]] = Absent
      BY <1>1, <3>1, LayoutRefType
    <3>3. CASE x = s \/ s = "document"
      BY <1>1, <1>4, <3>2, <3>3 DEF Shown
    <3>4. CASE x # s /\ s = "token"
      <4>1. plan.before[s] = Absent
        BY <3>2, <3>4, EvidenceNames DEF Slot
      <4>2. evidence' = evidence /\ Backed(t)'
        BY <1>1, <1>4, <3>4, <4>1 DEF Rebuilds, Backed
      <4>3. plan.beforeRef = state.ref /\ plan.base > 0
        <5>1. state.gen # 0 /\ plan.base # 0 => plan.base > 0
          BY <1>1
        <5> QED  BY <1>1, <5>1 DEF Reverted, PlanOK
      <4> QED  BY <1>4, <4>2, <4>3
    <3> QED  BY <3>3, <3>4 DEF Slot
  <2>3. Rest'
    <3> SUFFICES ASSUME state.gen > 0, ~doubt, ~overlap
                 PROVE  \/ LayoutRef(live)' = state.ref
                        \/ Written(t)' /\ Rebuilds(t)' /\ state.ref = plan.beforeRef
      BY <1>1, <1>4 DEF Rest
    <3>1. LayoutRef(plan.before) = state.ref /\ state.ref = plan.beforeRef
      BY <1>1, RevertedAgrees DEF Reverted
    <3>2. live' = plan.before => LayoutRef(live)' = state.ref
      BY <3>1 DEF LayoutRef
    <3> QED  BY <1>4, <1>6, <3>1, <3>2
  <2>4. Moved'
    <3>1. live'["token"] = plan.before["token"]
      BY <1>4 DEF Slot
    <3> QED  BY <1>1, <1>4, <2>0, <3>1 DEF Moved
  <2>5. Upgraded'
    BY <1>1, <2>0 DEF CredInv, Upgraded
  <2>6. Legacy'
    <3>1. (\A l : Agreed(l)' <=> Agreed(l)) /\ (state.gen = 0 => state.ref = NoRef)
      BY <1>1 DEF Agreed, CredInv, Legacy
    <3>2. ASSUME state.gen = 0, ~overlap, NEW x \in Slot, plan.before[x] # Absent
          PROVE  plan.before[x] \in {live'[x], evidence'[t][Backup[x]]}
      <4>1. CASE x = s
        BY <1>1, <4>1
      <4>2. CASE x # s
        <5>1. Opposite[s] = x /\ Backup[x] # Source(t, s) /\ Backup[x] \in Evidence
          BY <4>2, EvidenceNames DEF Source, Slot
        <5>2. plan.before[x] \in {live[x], evidence[t][Backup[x]]}
          BY <1>1, <3>2 DEF CredInv, Legacy
        <5> QED  BY <1>1, <5>1, <5>2
      <4> QED  BY <4>1, <4>2
    <3> QED  BY <1>1, <1>4, <2>0, <3>1, <3>2 DEF CredInv, Legacy
  <2> QED  BY <2>1, <2>2, <2>3, <2>4, <2>5, <2>6 DEF OfFiles
<1> QED  BY <1>2, <1>3, <1>5, <1>7 DEF CredInv, OfFiles, OfOwner

-----------------------------------------------------------------------------
(* Cleanup and kills.                                                      *)

\* When evidence goes, what is live is what State refers to.
LEMMA CleanAgrees ==
    ASSUME CredInv, step = "clean", NEW t \in Tx, NEW plan \in Plans, Work(t, plan),
           PlanOK(plan), Written(t), Plan(t) = plan
    PROVE  /\ (state.gen > 0 /\ ~doubt /\ (state.ref # NoRef \/ ~overlap)) => LayoutRef(live) = state.ref
           /\ (state.gen > 0 /\ ~doubt /\ state.ref # NoRef) => Shown(state.ref)
           /\ state.gen = 0 => live = plan.before
<1>1. \/ live = plan.before /\ Reverted(plan)
      \/ live = plan.after /\ state.gen > 0 /\ state.ref = plan.afterRef
  BY DEF Work
<1>2. (state.gen > 0 /\ ~doubt /\ (state.ref # NoRef \/ ~overlap)) => LayoutRef(live) = state.ref
  BY <1>1, RevertedAgrees DEF PlanOK
<1>3. (LayoutRef(live) = state.ref /\ state.ref # NoRef) => Shown(state.ref)
  BY LayoutRefType DEF Shown, CredInv, CredTypeOK
<1>4. state.gen = 0 => live = plan.before
  BY <1>1
<1> QED  BY <1>2, <1>3, <1>4

\* Evidence is removed once the layout and State agree.
LEMMA DiscardInv ==
    ASSUME CredInv, NEW p \in Proc, Discard(p) PROVE CredInv'
<1>1. job # NoJob /\ step = "clean" /\ owner = p
  BY DEF Discard, CredInv, Control, Quiet
<1>2. PICK t \in Tx, plan \in Plans :
             /\ job.tx = t /\ job.plan = plan /\ Work(t, plan) /\ PlanOK(plan)
             /\ plan.before \in Layout /\ plan.after \in Layout /\ plan.base \in 0..MaxGen
             /\ Written(t) /\ Plan(t) = plan /\ journal[t] \in Journals
  BY <1>1, JournalOfJob
<1>3. PICK k \in Evidence : /\ evidence' = [evidence EXCEPT ![t][k] = Absent]
                            /\ \A l \in Kept(t) : CleanRank[k] <= CleanRank[l]
  <2>1. Kept(t) # {} /\ Kept(t) \in SUBSET Evidence
    BY <1>2 DEF Discard, Kept
  <2> DEFINE k == First(Kept(t), CleanRank)
  <2>2. k \in Kept(t) /\ \A l \in Kept(t) : CleanRank[k] <= CleanRank[l]
    BY <2>1, FirstKept
  <2>3. evidence' = [evidence EXCEPT ![t][k] = Absent]
    BY <1>2 DEF Discard
  <2> QED  BY <2>1, <2>2, <2>3
<1>4. UNCHANGED <<live, journal, update, aside, state, session, owner, step, job, todo,
                  failures, original, doubt, overlap>>
  BY DEF Discard, history
<1>5. /\ evidence' \in [Tx -> [Evidence -> Contents]]
      /\ evidence'[t][k] = Absent /\ \A l \in Evidence : l # k => evidence'[t][l] = evidence[t][l]
      /\ \A u \in Tx : u # t => evidence'[u] = evidence[u]
  <2>1. Absent \in Contents
    BY DEF Contents
  <2> QED  BY <1>3, <2>1, EvidenceType DEF CredInv, CredTypeOK
<1>6. CredTypeOK'
  BY <1>4, <1>5 DEF CredInv, CredTypeOK
<1>7. Control' /\ Updates' /\ Listed' /\ Single'
  <2>1. Control' /\ Updates' /\ Single'
    BY <1>4 DEF CredInv, Control, Updates, Single
  <2>2. \A u \in Tx : journal[u] = Absent => u # t
    BY <1>2 DEF Written
  <2>3. Listed'
    BY <1>4, <1>5, <2>2 DEF CredInv, Listed
  <2> QED  BY <2>1, <2>3
<1>8. Working'
  <2> SUFFICES ASSUME NEW u \in Tx, NEW now \in Plans, job'.tx = u, job'.plan = now
               PROVE  Work(u, now)'
    BY DEF Working
  <2>1. u = t /\ now = plan
    BY <1>2, <1>4
  <2>2. Written(t)' /\ Plan(t)' = plan /\ (Reverted(plan)' <=> Reverted(plan))
    BY <1>2, <1>4 DEF Written, Plan, Reverted
  <2> QED  BY <1>1, <1>2, <1>4, <2>1, <2>2 DEF Work, InPhase
<1>9. OfFiles'
  <2>0. /\ \A u \in Tx : Plan(u)' = Plan(u) /\ (Written(u)' <=> Written(u))
        /\ ~overlap => \A u \in Tx : Written(u) => u = t
    BY <1>1, <1>2, <1>4, OnlyJob DEF Plan, Written
  <2>1. /\ (state.gen > 0 /\ ~doubt /\ ~overlap) => LayoutRef(live)' = state.ref
        /\ (state.gen > 0 /\ ~doubt /\ state.ref # NoRef) => Shown(state.ref)'
        /\ state.gen = 0 => live' = plan.before
    BY <1>1, <1>2, <1>4, CleanAgrees DEF LayoutRef, Shown
  <2>2. Plain' /\ Upgraded'
    BY <1>4, <2>0 DEF CredInv, Plain, Upgraded
  <2>3. Safe' /\ Rest'
    BY <1>4, <2>1 DEF Safe, Rest
  <2>4. Moved'
    <3> SUFFICES ASSUME ~overlap, Backed(t)', plan.after["document"] # Absent,
                        plan.before["token"] # Absent, live["token"] = Absent
                 PROVE  evidence'[t]["token_tombstone"] = plan.before["token"]
      BY <1>2, <1>4, <2>0 DEF Moved
    <3>1. evidence'[t]["token_backup"] = plan.before["token"]
      BY <1>2, <2>0, EvidenceNames DEF Backed, Slot
    <3>2. Backed(t) /\ "token_backup" \in Kept(t) /\ k # "token_backup"
      <4>1. plan.before["document"] # Absent => evidence'[t]["document_backup"] = plan.before["document"]
        BY <1>2, <2>0, EvidenceNames DEF Backed, Slot
      <4>2. k # "token_backup" /\ (plan.before["document"] # Absent => k # "document_backup")
        BY <1>5, <3>1, <4>1
      <4>3. evidence[t]["token_backup"] = plan.before["token"]
        BY <1>5, <3>1, <4>2 DEF Evidence
      <4>4. plan.before["document"] # Absent => evidence[t]["document_backup"] = plan.before["document"]
        BY <1>5, <4>1, <4>2 DEF Evidence
      <4> QED  BY <1>2, <4>2, <4>3, <4>4, EvidenceNames DEF Backed, Slot, Kept, Evidence
    <3>3. k # "token_tombstone"
      BY <1>3, <3>2 DEF CleanRank
    <3>4. evidence[t]["token_tombstone"] = plan.before["token"]
      BY <1>2, <3>2 DEF CredInv, Moved
    <3> QED  BY <1>5, <3>3, <3>4 DEF Evidence
  <2>5. Legacy'
    <3>1. (\A l : Agreed(l)' <=> Agreed(l)) /\ (state.gen = 0 => state.ref = NoRef)
      BY <1>4 DEF Agreed, CredInv, Legacy
    <3>2. state.gen = 0 => \A s \in Slot : plan.before[s] = live'[s]
      BY <2>1
    <3> QED  BY <1>2, <1>4, <2>0, <3>1, <3>2 DEF CredInv, Legacy
  <2> QED  BY <2>2, <2>3, <2>4, <2>5 DEF OfFiles
<1> QED  BY <1>6, <1>7, <1>8, <1>9 DEF CredInv, OfFiles, OfOwner

\* The journal goes last.
LEMMA RemoveJournalInv ==
    ASSUME CredInv, NEW p \in Proc, RemoveJournal(p) PROVE CredInv'
<1>1. job # NoJob /\ step = "clean" /\ owner = p
  BY DEF RemoveJournal, CredInv, Control, Quiet
<1>2. PICK t \in Tx, plan \in Plans :
             /\ job.tx = t /\ job.plan = plan /\ Work(t, plan) /\ PlanOK(plan)
             /\ plan.before \in Layout /\ plan.after \in Layout /\ plan.base \in 0..MaxGen
             /\ Written(t) /\ Plan(t) = plan /\ journal[t] \in Journals
  BY <1>1, JournalOfJob
<1>3. /\ evidence[t]["stage"] = Absent
      /\ update' = [u \in Tx |-> Absent]
      /\ journal' = [journal EXCEPT ![t] = Absent]
      /\ UNCHANGED <<live, evidence, aside, state, failures, original, doubt, overlap>>
  BY <1>2 DEF RemoveJournal, Kept, Evidence, history
<1>4. /\ journal' \in [Tx -> Journals \cup {Absent, Torn}] /\ journal'[t] = Absent
      /\ \A u \in Tx : u # t => journal'[u] = journal[u]
  BY <1>2, <1>3 DEF CredInv, CredTypeOK
<1>5. CredTypeOK' /\ OfOwner'
  <2>1. CASE /\ job.route = "recover" /\ job' = NoJob /\ step' = "journals"
             /\ UNCHANGED <<session, owner, todo>>
    <3>1. CredTypeOK'
      BY <1>3, <1>4, <2>1 DEF CredInv, CredTypeOK
    <3>2. Control' /\ Updates' /\ Working'
      BY <1>1, <1>3, <2>1, CredentialConstants DEF Control, Quiet, Updates, Working
    <3>3. Listed'
      <4>1. \A u \in Tx : u # t => /\ journal[u] # Absent => u \in todo
                                   /\ journal[u] = Absent => evidence[u]["stage"] = Absent
        BY <1>1, <1>2, <2>1 DEF CredInv, Listed
      <4> QED  BY <1>3, <1>4, <2>1, <4>1 DEF Listed
    <3>4. Single'
      BY <1>3, <1>4, <2>1 DEF CredInv, Single
    <3> QED  BY <3>1, <3>2, <3>3, <3>4 DEF OfOwner
  <2>2. CASE job.route # "recover" /\ Release(p, IF job.route = "commit" THEN "committed" ELSE "closed")
    <3>1. /\ owner' = Nobody /\ step' = "idle" /\ job' = NoJob /\ todo' = {}
          /\ session' \in [Proc -> [at : {"closed", "recovered", "committed"}, rev : 0 .. MaxGen]]
      BY <2>2, ReleaseType DEF CredInv
    <3>2. CredTypeOK'
      BY <1>3, <1>4, <3>1 DEF CredInv, CredTypeOK
    <3>3. ~overlap' => \A u, v \in Tx : journal'[u] # Absent /\ journal'[v] # Absent => u = v
      BY <1>3, <1>4 DEF CredInv, Single
    <3> QED  BY <3>1, <3>2, <3>3, OwnerQuiet DEF CredInv, OfOwner
  <2> QED  BY <2>1, <2>2 DEF RemoveJournal
<1>6. OfFiles'
  <2>0. /\ ~Written(t)' /\ \A u \in Tx : u # t => Plan(u)' = Plan(u) /\ (Written(u)' <=> Written(u))
        /\ ~overlap => \A u \in Tx : ~Written(u)'
    <3>1. ~Written(t)' /\ \A u \in Tx : u # t => Plan(u)' = Plan(u) /\ (Written(u)' <=> Written(u))
      BY <1>4 DEF Written, Plan
    <3>2. ~overlap => \A u \in Tx : Written(u) => u = t
      BY <1>1, <1>2, OnlyJob
    <3> QED  BY <3>1, <3>2
  <2>1. /\ (state.gen > 0 /\ ~doubt /\ ~overlap) => LayoutRef(live)' = state.ref
        /\ (state.gen > 0 /\ ~doubt /\ state.ref # NoRef) => Shown(state.ref)'
        /\ state.gen = 0 => live' = plan.before
    BY <1>1, <1>2, <1>3, CleanAgrees DEF LayoutRef, Shown
  <2>2. Plain'
    BY <2>0 DEF CredInv, Plain
  <2>3. Safe' /\ Rest'
    BY <1>3, <2>1 DEF Safe, Rest
  <2>4. Moved' /\ Upgraded'
    BY <1>3, <2>0 DEF Moved, Upgraded
  <2>5. Legacy'
    <3>1. (\A l : Agreed(l)' <=> Agreed(l)) /\ (state.gen = 0 => state.ref = NoRef)
      BY <1>3 DEF Agreed, CredInv, Legacy
    <3>2. (state.gen = 0 /\ ~overlap) => Agreed(plan.before)
      BY <1>2 DEF CredInv, Legacy
    <3> QED  BY <1>3, <2>0, <2>1, <3>1, <3>2 DEF Legacy
  <2> QED  BY <2>2, <2>3, <2>4, <2>5 DEF OfFiles
<1> QED  BY <1>5, <1>6 DEF CredInv, OfFiles, OfOwner

\* A kill leaves a torn file at most, which no complete journal speaks of.
LEMMA KillInv ==
    ASSUME CredInv, NEW p \in Proc, Kill(p) PROVE CredInv'
<1>1. /\ owner = p /\ failures < MaxFailures /\ failures' = failures + 1 /\ Release(p, "closed")
      /\ UNCHANGED <<live, aside, state, original, doubt, overlap>>
  BY DEF Kill
<1>2. /\ owner' = Nobody /\ step' = "idle" /\ job' = NoJob /\ todo' = {}
      /\ session' \in [Proc -> [at : {"closed", "recovered", "committed"}, rev : 0 .. MaxGen]]
  BY <1>1, ReleaseType DEF CredInv
<1>3. failures' \in 0..MaxFailures
  BY <1>1, CredentialConstants DEF CredInv, CredTypeOK
<1>4. CASE UNCHANGED <<evidence, journal, update>>
  <2>1. CredTypeOK'
    BY <1>1, <1>2, <1>3, <1>4 DEF CredInv, CredTypeOK
  <2>2. OfFiles'
    BY <1>1, <1>4, FilesKept DEF CredInv, OfFiles
  <2>3. OfOwner'
    BY <1>1, <1>2, <1>4, OwnerQuiet DEF CredInv, OfOwner, Single
  <2> QED  BY <2>1, <2>2, <2>3 DEF CredInv, OfFiles, OfOwner
<1>5. CASE /\ step = "stage" /\ Unstaged(job.tx, job.plan) # {}
           /\ LET k == First(Unstaged(job.tx, job.plan), StageRank(job.plan))
              IN  evidence' = [evidence EXCEPT ![job.tx][k] = Torn]
           /\ UNCHANGED <<journal, update>>
  <2>1. job # NoJob
    BY <1>5 DEF CredInv, Control, Quiet
  <2>2. PICK t \in Tx : t = job.tx /\ journal[t] = Absent
    BY <1>5, <2>1, JobIs DEF Work
  <2>3. PICK k \in Evidence : evidence' = [evidence EXCEPT ![t][k] = Torn]
    <3> DEFINE missing == Unstaged(job.tx, job.plan)
               k == First(missing, StageRank(job.plan))
    <3>1. missing # {} /\ missing \in SUBSET DOMAIN StageRank(job.plan)
      BY <1>5 DEF Unstaged
    <3>2. k \in missing
      BY <3>1, FirstStaged
    <3>3. k \in Evidence
      BY <3>1, <3>2 DEF StageRank, Evidence
    <3>4. evidence' = [evidence EXCEPT ![t][k] = Torn]
      BY <1>5, <2>2
    <3> QED  BY <3>3, <3>4
  <2>4. /\ evidence' \in [Tx -> [Evidence -> Contents]]
        /\ \A u \in Tx : u # t => evidence'[u] = evidence[u] /\ journal'[u] = journal[u]
    <3>1. Torn \in Contents
      BY DEF Contents
    <3>2. journal' = journal
      BY <1>5
    <3>3. evidence' \in [Tx -> [Evidence -> Contents]]
      BY <2>3, <3>1, EvidenceType DEF CredInv
    <3>4. \A u \in Tx : u # t => evidence'[u] = evidence[u]
      BY <2>3 DEF CredInv, CredTypeOK
    <3> QED  BY <3>2, <3>3, <3>4
  <2>5. CredTypeOK'
    BY <1>1, <1>2, <1>3, <1>5, <2>4 DEF CredInv, CredTypeOK
  <2>6. OfFiles'
    <3>1. ~Written(t) /\ ~Written(t)'
      BY <1>5, <2>2 DEF Written
    <3> QED  BY <1>1, <2>4, <3>1, FilesStaged DEF CredInv, OfFiles
  <2>7. OfOwner'
    BY <1>1, <1>2, <1>5, OwnerQuiet DEF CredInv, OfOwner, Single
  <2> QED  BY <2>5, <2>6, <2>7 DEF CredInv, OfFiles, OfOwner
<1>6. CASE /\ step = "stage" /\ journal' = [journal EXCEPT ![job.tx] = Torn]
           /\ UNCHANGED <<evidence, update>>
  <2>1. job # NoJob
    BY <1>6 DEF CredInv, Control, Quiet
  <2>2. PICK t \in Tx : t = job.tx /\ journal[t] = Absent
    BY <1>6, <2>1, JobIs DEF Work
  <2>3. /\ journal' \in [Tx -> Journals \cup {Absent, Torn}] /\ journal'[t] = Torn
        /\ \A u \in Tx : u # t => evidence'[u] = evidence[u] /\ journal'[u] = journal[u]
    BY <1>6, <2>2 DEF CredInv, CredTypeOK
  <2>4. CredTypeOK'
    BY <1>1, <1>2, <1>3, <1>6, <2>3 DEF CredInv, CredTypeOK
  <2>5. OfFiles'
    <3>1. ~Written(t) /\ ~Written(t)'
      BY <2>2, <2>3 DEF Written
    <3> QED  BY <1>1, <2>3, <3>1, FilesStaged DEF CredInv, OfFiles
  <2>6. OfOwner'
    <3>1. ~overlap' => \A u, v \in Tx : journal'[u] # Absent /\ journal'[v] # Absent => u = v
      BY <1>1, <2>1, <2>2, <2>3, OnlyJob
    <3> QED  BY <1>2, <3>1, OwnerQuiet DEF CredInv, OfOwner
  <2> QED  BY <2>4, <2>5, <2>6 DEF CredInv, OfFiles, OfOwner
<1>7. CASE /\ step = "phase" /\ update' = [update EXCEPT ![job.tx] = Torn]
           /\ UNCHANGED <<evidence, journal>>
  <2>1. CredTypeOK'
    BY <1>1, <1>2, <1>3, <1>7 DEF CredInv, CredTypeOK
  <2>2. OfFiles'
    BY <1>1, <1>7, FilesKept DEF CredInv, OfFiles
  <2>3. OfOwner'
    BY <1>1, <1>2, <1>7, OwnerQuiet DEF CredInv, OfOwner, Single
  <2> QED  BY <2>1, <2>2, <2>3 DEF CredInv, OfFiles, OfOwner
<1> QED  BY <1>4, <1>5, <1>6, <1>7 DEF Kill

-----------------------------------------------------------------------------
(* The theorems.                                                           *)

\* A v1 account starts with whatever files it has and no transaction.
LEMMA CredInit == Init => CredInv
<1> SUFFICES ASSUME Init PROVE CredInv
  OBVIOUS
<1>1. CredTypeOK
  <2>1. 0 \in 0..MaxGen /\ 0 \in 0..MaxFailures /\ NoRef \in Refs /\ Absent \in Contents
    BY CredentialConstants DEF Refs, Contents
  <2> QED  BY <2>1 DEF Init, CredTypeOK
<1>2. \A t \in Tx : journal[t] = Absent /\ update[t] = Absent /\ ~Written(t)
  BY DEF Init, Written
<1>3. state.gen = 0 /\ state.ref = NoRef /\ job = NoJob /\ step = "idle" /\ owner = Nobody /\ original = live
  BY DEF Init
<1>4. Plain /\ Safe /\ Rest /\ Moved /\ Upgraded
  BY <1>2, <1>3 DEF Plain, Safe, Rest, Moved, Upgraded
<1>5. Legacy
  BY <1>2, <1>3 DEF Legacy, Agreed
<1>6. Control /\ Updates /\ Listed /\ Working /\ Single
  BY <1>2, <1>3 DEF Control, Quiet, Updates, Listed, Working, Single
<1> QED  BY <1>1, <1>4, <1>5, <1>6 DEF CredInv

\* Every step of every command keeps the invariant.
LEMMA CredStep == CredInv /\ [Next]_vars => CredInv'
<1> SUFFICES ASSUME CredInv, [Next]_vars PROVE CredInv'
  OBVIOUS
<1>1. ASSUME UNCHANGED vars PROVE CredInv'
  <2>0. UNCHANGED <<live, evidence, journal, update, aside, state, session, owner, step, job, todo,
                    failures, original, doubt, overlap>>
    BY <1>1 DEF vars, files, history
  <2>1. CredTypeOK' /\ OfFiles'
    BY <2>0, FilesKept DEF CredInv, OfFiles, CredTypeOK
  <2>2. Control' /\ Updates' /\ Listed' /\ Single'
    BY <2>0 DEF CredInv, Control, Updates, Listed, Single
  <2>3. Working'
    BY <2>0 DEF CredInv, Working, Work, Written, Plan, Rebuilds, InPhase, MovedAside, Within, Reverted
  <2> QED  BY <2>1, <2>2, <2>3 DEF CredInv, OfFiles
<1>2. ASSUME NEW p \in Proc, Step(p) PROVE CredInv'
  <2>1. CASE Close(p) \/ OrdinaryCommit(p) \/ Recover(p) \/ CleanOrphan(p) \/ ListJournals(p)
    BY <2>1, CloseInv, OrdinaryCommitInv, RecoverInv, CleanOrphanInv, ListJournalsInv
  <2>2. CASE TakeJournal(p) \/ Recovered(p) \/ Remove(p) \/ Retire(p) \/ Quarantine(p) \/ Quarantined(p)
    BY <2>2, TakeJournalInv, RecoveredInv, RemoveInv, RetireInv, QuarantineInv, QuarantinedInv
  <2>3. CASE \E m \in Material : Import(p, m) \/ Migrate(p, m)
    BY <2>3, ImportInv, MigrateInv
  <2>4. CASE WriteEvidence(p) \/ WriteJournal(p) \/ MoveAway(p) \/ PublishPurge(p) \/ Replace(p)
    BY <2>4, WriteEvidenceInv, WriteJournalInv, MoveAwayInv, PublishPurgeInv, ReplaceInv
  <2>5. CASE WriteUpdate(p) \/ ReplaceJournal(p) \/ Commit(p) \/ CommitFails(p)
    BY <2>5, WriteUpdateInv, ReplaceJournalInv, CommitInv, CommitFailsInv
  <2>6. CASE \E s \in Slot : RestoreSlot(p, s)
    BY <2>6, RestoreSlotInv
  <2>7. CASE Discard(p) \/ RemoveJournal(p) \/ GiveUp(p) \/ Kill(p)
    BY <2>7, DiscardInv, RemoveJournalInv, GiveUpInv, KillInv
  <2> QED  BY <1>2, <2>1, <2>2, <2>3, <2>4, <2>5, <2>6, <2>7 DEF Step
<1> QED  BY <1>1, <1>2 DEF Next

\* The inductive invariant holds in every behaviour, for any numbers of commands,
\* transactions, kinds of material, commits and kills.
THEOREM CredentialInvariant == Spec => []CredInv
BY CredInit, CredStep, PTL DEF Spec

\* The type invariant.
THEOREM CredentialTypes == Spec => []CredTypeOK
<1>1. CredInv => CredTypeOK
  BY DEF CredInv
<1> QED  BY <1>1, CredentialInvariant, PTL

\* Whenever the layout of an account is not the one State refers to, a journal
\* whose evidence proves both of its layouts is there: no kill between two steps
\* of a commit or a recovery leaves a drift that recovery cannot decide.
THEOREM DriftJournalled == Spec => []DriftIsJournalled
<1>1. CredInv => DriftIsJournalled
  BY DEF CredInv, Rest, DriftIsJournalled
<1> QED  BY <1>1, CredentialInvariant, PTL

\* The credential that State refers to is always in some file: in its slot or in
\* the evidence of a transaction, also when journals overlap.
THEOREM ReferencesKept == Spec => []ReferencedKept
<1>1. ASSUME CredInv PROVE ReferencedKept
  <2> SUFFICES ASSUME state.gen > 0, state.ref # NoRef, ~doubt PROVE Holding(state.ref)
    BY DEF ReferencedKept
  <2>1. CASE Shown(state.ref)
    BY <2>1 DEF Shown, Holding
  <2>2. ASSUME NEW t \in Tx, Written(t), Plan(t).beforeRef = state.ref, Backed(t), Plan(t).base > 0
        PROVE  Holding(state.ref)
    <3>1. Plan(t).before \in Layout /\ LayoutRef(Plan(t).before) = state.ref
      BY <1>1, <2>2, JournalType DEF CredInv, Plain, PlanOK
    <3>2. PICK s \in Slot : Plan(t).before[s] # Absent /\ Ref(Plan(t).before[s]) = state.ref
      BY <3>1, LayoutRefType
    <3>3. Plan(t).before[s] \in Material /\ evidence[t][Backup[s]] = Plan(t).before[s] /\ Backup[s] \in Evidence
      BY <2>2, <3>1, <3>2, LayoutValue, EvidenceNames DEF Backed, Slot
    <3> QED  BY <3>2, <3>3 DEF Holding
  <2> QED  BY <1>1, <2>1, <2>2 DEF CredInv, Safe
<1> QED  BY <1>1, CredentialInvariant, PTL

\* A v1 account never loses a file it had: it is live, in the evidence of a
\* transaction, or in quarantine.
THEOREM LegacyKept == Spec => []LegacySurvives
<1>1. ASSUME CredInv PROVE LegacySurvives
  <2> SUFFICES ASSUME state.gen = 0, ~overlap, NEW s \in Slot, original[s] # Absent, original[s] \notin aside
               PROVE  \/ \E x \in Slot : live[x] = original[s]
                      \/ \E t \in Tx, k \in Evidence : evidence[t][k] = original[s]
    BY DEF LegacySurvives
  <2>1. CASE \A t \in Tx : ~Written(t)
    BY <1>1, <2>1 DEF CredInv, Legacy, Agreed
  <2>2. ASSUME NEW t \in Tx, Written(t)
        PROVE  original[s] = live[s] \/ original[s] = evidence[t][Backup[s]]
    BY <1>1, <2>2 DEF CredInv, Legacy, Agreed
  <2> QED  BY <2>1, <2>2, EvidenceNames
<1> QED  BY <1>1, CredentialInvariant, PTL

\* Only a recovery that found nothing left to decide says that it succeeded.
LEMMA OnlyRecovered ==
    ASSUME CredInv, [Next]_vars, NEW p \in Proc, owner = p,
           session[p].at # "recovered", session'[p].at = "recovered"
    PROVE  Recovered(p)
<1>0. p # Nobody /\ session \in [Proc -> [at : {"closed", "recovered", "committed"}, rev : 0 .. MaxGen]]
  BY CredentialConstants DEF CredInv, CredTypeOK
<1>1. PICK q \in Proc : Step(q)
  BY DEF Next, vars
<1>2. ASSUME session' = session PROVE FALSE
  BY <1>2
<1>3. ~Close(q)
  BY <1>0 DEF Close
<1>4. ~OrdinaryCommit(q) /\ ~Recover(q)
  BY <1>0 DEF OrdinaryCommit, Recover, Lock
<1>5. ASSUME NEW at \in {"closed", "committed"}, Release(q, at) PROVE FALSE
  BY <1>0, <1>5 DEF Release
<1>6. Recovered(q) => q = p
  BY DEF Recovered
<1>7. ~(CleanOrphan(q) \/ ListJournals(q) \/ TakeJournal(q))
  BY <1>2 DEF CleanOrphan, ListJournals, TakeJournal
<1>8. ~((\E m \in Material : Import(q, m) \/ Migrate(q, m)) \/ Remove(q) \/ Retire(q))
  BY <1>2 DEF Import, Migrate, Remove, Retire, Begin
<1>9. ~(Quarantine(q) \/ Quarantined(q) \/ WriteEvidence(q) \/ WriteJournal(q) \/ MoveAway(q))
  BY <1>2 DEF Quarantine, Quarantined, WriteEvidence, WriteJournal, MoveAway
<1>10. ~(PublishPurge(q) \/ Replace(q) \/ WriteUpdate(q) \/ ReplaceJournal(q) \/ Commit(q) \/ CommitFails(q))
  BY <1>2 DEF PublishPurge, Replace, WriteUpdate, ReplaceJournal, Commit, CommitFails
<1>11. ~((\E s \in Slot : RestoreSlot(q, s)) \/ Discard(q))
  BY <1>2 DEF RestoreSlot, Discard
<1>12. ~(RemoveJournal(q) \/ GiveUp(q) \/ Kill(q))
  BY <1>2, <1>5 DEF RemoveJournal, GiveUp, Kill
<1> QED  BY <1>1, <1>3, <1>4, <1>6, <1>7, <1>8, <1>9, <1>10, <1>11, <1>12 DEF Step

\* A recovery that reports success leaves no journal, no update and no stage, and
\* the layout that State refers to, or for a v1 account the original one.
THEOREM RecoveriesConverge == Spec => RecoveryConverges
<1> DEFINE Converges(p) ==
      (owner = p /\ session[p].at # "recovered" /\ session'[p].at = "recovered") =>
            /\ \A t \in Tx : journal'[t] = Absent /\ update'[t] = Absent
                             /\ evidence'[t]["stage"] = Absent
            /\ (state'.gen > 0 /\ ~doubt' /\ ~overlap') => LayoutRef(live') = state'.ref
            /\ (state'.gen = 0 /\ ~overlap') =>
                 \A s \in Slot : live'[s] = original[s] \/ original[s] \in aside'
<1>1. ASSUME CredInv, [Next]_vars, NEW p \in Proc PROVE Converges(p)
  <2> SUFFICES ASSUME owner = p, session[p].at # "recovered", session'[p].at = "recovered"
               PROVE  /\ \A t \in Tx : journal'[t] = Absent /\ update'[t] = Absent
                                       /\ evidence'[t]["stage"] = Absent
                      /\ (state'.gen > 0 /\ ~doubt' /\ ~overlap') => LayoutRef(live') = state'.ref
                      /\ (state'.gen = 0 /\ ~overlap') =>
                           \A s \in Slot : live'[s] = original[s] \/ original[s] \in aside'
    OBVIOUS
  <2>1. Recovered(p)
    BY <1>1, OnlyRecovered
  <2>2. /\ step = "journals" /\ todo = {} /\ job = NoJob
        /\ UNCHANGED <<live, evidence, journal, update, aside, state, doubt, overlap>>
    BY <1>1, <2>1 DEF Recovered, files, history, CredInv, Control, Quiet
  <2>3. \A t \in Tx : journal[t] = Absent /\ update[t] = Absent /\ evidence[t]["stage"] = Absent /\ ~Written(t)
    BY <1>1, <2>2 DEF CredInv, Listed, Updates, Written
  <2>4. (state.gen > 0 /\ ~doubt /\ ~overlap) => LayoutRef(live) = state.ref
    BY <1>1, <2>3 DEF CredInv, Rest
  <2>5. (state.gen = 0 /\ ~overlap) => Agreed(live)
    BY <1>1, <2>3 DEF CredInv, Legacy
  <2> QED  BY <2>2, <2>3, <2>4, <2>5 DEF Agreed
<1>2. CredInv /\ [Next]_vars => [\A p \in Proc : Converges(p)]_vars
  BY <1>1
<1> QED  BY <1>2, CredentialInvariant, PTL DEF Spec, RecoveryConverges

=============================================================================
