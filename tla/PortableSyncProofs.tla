------------------------- MODULE PortableSyncProofs -------------------------
(***************************************************************************)
(* Theorems about PortableSync, for any number of machines, commands,      *)
(* accounts and credentials.  SyncInv is inductive.  Its parts are         *)
(* predicates of values: of w, what the machines share and what is known   *)
(* of it, of h, what one machine has, and of c, a command.  So the copy of *)
(* State that a command has read is told of in the words that tell of      *)
(* State, and a lemma about values serves every action.                    *)
(***************************************************************************)
EXTENDS PortableSync, TLAPS

---------------------------------------------------------------------------
(* The inductive invariant.                                                *)

Shared  == [branch |-> remote, issued |-> issued, removed |-> removed, deleted |-> deleted, clock |-> clock]
Site(m) == [state |-> local[m], broken |-> broken[m], seen |-> merged[m]]

Branches  == [head : Nat, bundle : Bundles \cup {NoBundle}]
Issues    == Table(Issue)
Deleted   == [id : Id, cred : Cred, at : Times]
SharedSet == [branch : Branches, issued : Issues, removed : SUBSET Id, deleted : SUBSET Deleted,
              clock : 1..MaxClock]
Sites     == [state : States, broken : SUBSET Id, seen : SUBSET Nat]

\* The marks say that b has been seen.
Current(marks, b) == b # NoBundle /\ GenOf(MarkFor(marks, b)) = b.gen

\* Marks are of the branch r, or of something older; whoever has the mark of
\* the bundle itself has taken in (seen) the commit it is in.
Marked(marks, r, seen) == \A k \in Pool : marks[k] # NoMark =>
    /\ r.bundle # NoBundle /\ marks[k].gen <= r.bundle.gen
    /\ marks[k].gen = r.bundle.gen => marks[k] = Mark(r.bundle) /\ r.head \in seen

\* Who has seen b has its accounts, but for those that users removed.
Held(state, b, gone) ==
    Current(state.marks, b) => DOMAIN b.accounts \subseteq DOMAIN state.accounts \cup gone

\* Accounts and tombstones are of accounts that were issued.
Copies(accounts, iss) == \A id \in DOMAIN accounts :
    /\ id \in DOMAIN iss
    /\ accounts[id].added = iss[id].added /\ accounts[id].cred \in iss[id].creds

Stones(tombs, iss) == \A id \in DOMAIN tombs : id \in DOMAIN iss /\ tombs[id].cred \in iss[id].creds

Good(b, iss) == WellFormed(b) /\ Copies(b.accounts, iss) /\ Stones(b.tombs, iss)

Record(b, id) == [id |-> id, cred |-> b.tombs[id].cred, at |-> b.tombs[id].at]
Recorded(b, dels) == \A id \in DOMAIN b.tombs : Record(b, id) \in dels

\* b deletes the account, whose one credential was the one b speaks of; no
\* account of the table is such, unless its file cannot be read.
Dead(b, id, iss) ==
    id \in DOMAIN b.tombs /\ iss[id].creds = {b.tombs[id].cred} /\ iss[id].added <= b.tombs[id].at

Clean(accounts, b, iss, bad) == \A id \in DOMAIN accounts : Dead(b, id, iss) => id \in bad

\* A deletion that still counts, and tombstones that still tell it.
Live(d, iss, now) == iss[d.id].creds = {d.cred} /\ iss[d.id].added <= d.at /\ now - d.at <= Ttl
Told(d, tombs) == d.id \in DOMAIN tombs /\ d.at <= tombs[d.id].at
AllTold(b, w) == \A d \in w.deleted : Live(d, w.issued, w.clock) => b # NoBundle /\ Told(d, b.tombs)

Published(w) ==
    /\ w.branch.bundle # NoBundle =>
         Good(w.branch.bundle, w.issued) /\ Recorded(w.branch.bundle, w.deleted)
    /\ \A d \in w.deleted : d.id \in DOMAIN w.issued /\ d.cred \in w.issued[d.id].creds
    /\ AllTold(w.branch.bundle, w)

\* What holds of State, and of any copy of it.
Synced(state, w, seen) ==
    /\ Marked(state.marks, w.branch, seen)
    /\ Held(state, w.branch.bundle, w.removed)
    /\ Copies(state.accounts, w.issued)

Kept(w, h) ==
    /\ Synced(h.state, w, h.seen)
    /\ Current(h.state.marks, w.branch.bundle) =>
         Clean(h.state.accounts, w.branch.bundle, w.issued, h.broken)

\* What command c knows of State of its machine.
Read(c, w, h) ==
    /\ Synced(c.state, w, h.seen)
    /\ c.fresh => c.state = h.state
    /\ Current(c.state.marks, w.branch.bundle) => Current(h.state.marks, w.branch.bundle)

\* It exports all it can read, and nothing that the pool it has seen deletes.
Pushing(c, w, h) == c.step = "push" =>
    /\ c.exported \subseteq DOMAIN c.state.accounts
    /\ c.fresh => DOMAIN c.state.accounts \ c.exported \subseteq h.broken
    /\ Current(c.state.marks, w.branch.bundle) =>
         \A id \in c.exported : ~Dead(w.branch.bundle, id, w.issued)

\* What new replaces old with: a later generation, that drops only what users
\* removed or what is there under another id.
Replaces(old, new, gone) ==
    /\ old.gen < new.gen
    /\ \A id \in DOMAIN old.accounts \ DOMAIN new.accounts :
         id \in gone \/ old.accounts[id].cred \in Creds(new.accounts)

\* While the branch is as it was, the bundle of c may replace it.
Sending(c, w, h) == c.step = "send" =>
    /\ c.base <= w.branch.head /\ c.bundle # NoBundle /\ Good(c.bundle, w.issued)
    /\ DOMAIN c.bundle.accounts \subseteq DOMAIN c.state.accounts
    /\ c.fresh => Clean(c.state.accounts, c.bundle, w.issued, h.broken)
    /\ c.base = w.branch.head =>
         /\ w.branch.bundle # NoBundle =>
              w.branch.head \in h.seen /\ Replaces(w.branch.bundle, c.bundle, w.removed)
         /\ AllTold(c.bundle, w)

\* c has the bundle of the branch, or an older one.
Taking(c, w) == c.step \in {"mark", "release", "merge"} =>
    /\ w.branch.bundle # NoBundle /\ c.bundle # NoBundle
    /\ \/ c.base = w.branch.head /\ c.bundle = w.branch.bundle
       \/ c.base < w.branch.head /\ c.bundle.gen < w.branch.bundle.gen
    /\ Good(c.bundle, w.issued) /\ Recorded(c.bundle, w.deleted)
    /\ \A k \in Pool : c.state.marks[k] # NoMark => c.state.marks[k].gen <= c.bundle.gen

Marking(c, w, h) == c.step = "mark" =>
    /\ DOMAIN c.bundle.accounts \subseteq DOMAIN c.state.accounts \cup w.removed
    /\ c.fresh => Clean(c.state.accounts, c.bundle, w.issued, h.broken)

Merging(c) == c.step \in {"release", "merge"} =>
    /\ Newer(c.state.marks, c.bundle)
    /\ c.step = "release" <=> DeletesCurrent(c.state, c.bundle)

Working(c, w, h) ==
    /\ Read(c, w, h) /\ Pushing(c, w, h) /\ Sending(c, w, h)
    /\ Taking(c, w) /\ Marking(c, w, h) /\ Merging(c)

SyncInv ==
    /\ SyncTypeOK
    /\ Published(Shared)
    /\ \A m \in Machine : Kept(Shared, Site(m))
    /\ \A p \in Proc : cmd[p] # NoCmd => Working(cmd[p], Shared, Site(Host[p]))

---------------------------------------------------------------------------
(* Tables of accounts and of tombstones.                                   *)

LEMMA TableIs ==
    ASSUME NEW S, NEW f
    PROVE  f \in Table(S) <=> \E ids \in SUBSET Id : f \in [ids -> S]
BY DEF Table

LEMMA TableHas ==
    ASSUME NEW S, NEW f \in Table(S)
    PROVE  /\ DOMAIN f \subseteq Id /\ f \in [DOMAIN f -> S]
           /\ \A id \in DOMAIN f : f[id] \in S
<1>1. PICK ids \in SUBSET Id : f \in [ids -> S] BY TableIs
<1> QED BY <1>1

LEMMA OverTable ==
    ASSUME NEW S, NEW f \in Table(S), NEW g \in Table(S)
    PROVE  Over(f, g) \in Table(S)
<1>1. Over(f, g) \in [DOMAIN f \cup DOMAIN g -> S] BY TableHas DEF Over
<1>2. DOMAIN f \cup DOMAIN g \in SUBSET Id BY TableHas
<1> QED BY <1>1, <1>2, TableIs

LEMMA RestrictTable ==
    ASSUME NEW S, NEW f \in Table(S), NEW T \in SUBSET DOMAIN f
    PROVE  /\ Restrict(f, T) \in Table(S)
           /\ DOMAIN Restrict(f, T) = T
           /\ \A id \in T : Restrict(f, T)[id] = f[id]
<1>1. Restrict(f, T) \in [T -> S] BY TableHas DEF Restrict
<1>2. T \in SUBSET Id BY TableHas
<1>3. Restrict(f, T) \in Table(S) BY <1>1, <1>2, TableIs
<1> QED BY <1>3 DEF Restrict

LEMMA OnlyTable ==
    ASSUME NEW S, NEW id \in Id, NEW entry \in S
    PROVE  /\ Only(id, entry) \in Table(S)
           /\ DOMAIN Only(id, entry) = {id} /\ Only(id, entry)[id] = entry
<1>1. Only(id, entry) \in [{id} -> S] /\ {id} \in SUBSET Id BY DEF Only
<1>2. Only(id, entry) \in Table(S) BY <1>1, TableIs
<1> QED BY <1>2 DEF Only

LEMMA NoTable ==
    ASSUME NEW S
    PROVE  NoAccounts \in Table(S) /\ DOMAIN NoAccounts = {}
<1>1. NoAccounts \in [{} -> S] /\ {} \in SUBSET Id BY DEF NoAccounts
<1>2. NoAccounts \in Table(S) BY <1>1, TableIs
<1> QED BY <1>2 DEF NoAccounts

---------------------------------------------------------------------------
(* Marks.                                                                  *)

MarksSet == [Pool -> Watermarks \cup {NoMark}]

LEMMA Constants ==
    /\ Host \in [Proc -> Machine] /\ NoId \notin Id
    /\ NoBundle \notin Bundles /\ NoMark \notin Watermarks
    /\ NoCmd \notin Commands /\ NoCmd \notin Proc
    /\ Ttl \in Nat /\ Skew \in Nat
    /\ MaxClock \in Nat \ {0} /\ MaxGen \in Nat \ {0} /\ MaxEdits \in Nat \ {0}
BY PortableSyncConstants

LEMMA BundleHas ==
    ASSUME NEW b \in Bundles
    PROVE  /\ b # NoBundle
           /\ b.pool \in Pool /\ b.gen \in 1..MaxGen /\ b.gen \in Nat /\ b.gen > 0
           /\ b.accounts \in Accounts /\ b.tombs \in Tombstones
           /\ PoolOf(b) \in Pool
<1>1. b.pool \in Pool /\ b.gen \in 1..MaxGen /\ b.accounts \in Accounts /\ b.tombs \in Tombstones
  BY DEF Bundles
<1> QED BY <1>1, Constants DEF PoolOf, Pool

LEMMA MarkOf ==
    ASSUME NEW b \in Bundles
    PROVE  Mark(b) \in Watermarks /\ Mark(b) # NoMark /\ Mark(b).gen = b.gen
                 /\ Mark(b).hash = SemanticOf(b) /\ GenOf(Mark(b)) = b.gen
<1>1. Mark(b) \in Watermarks BY BundleHas DEF Mark, Watermarks, SemanticOf, Semantic
<1>2. Mark(b) # NoMark BY <1>1, Constants
<1> QED BY <1>1, <1>2 DEF Mark, GenOf

\* The mark for a bundle is one of the marks.
LEMMA MarkForIs ==
    ASSUME NEW marks \in MarksSet, NEW b \in Bundles \cup {NoBundle}
    PROVE  /\ \E k \in Pool : MarkFor(marks, b) = marks[k]
           /\ GenOf(MarkFor(marks, b)) \in Nat
<1>1. PoolOf(b) \in Pool BY BundleHas DEF PoolOf, Pool
<1>2. PICK k \in Pool : MarkFor(marks, b) = marks[k] BY <1>1 DEF MarkFor, Pool
<1>3. marks[k] = NoMark \/ marks[k].gen \in Nat BY Constants DEF MarksSet, Watermarks
<1> QED BY <1>2, <1>3 DEF GenOf

\* Marks that are all older than a bundle do not say that it was seen.
LEMMA OlderNotCurrent ==
    ASSUME NEW marks \in MarksSet, NEW b \in Bundles,
           \A k \in Pool : marks[k] # NoMark => marks[k].gen < b.gen
    PROVE  ~Current(marks, b)
<1>1. PICK k \in Pool : MarkFor(marks, b) = marks[k] BY MarkForIs
<1>2. marks[k] = NoMark \/ marks[k] \in Watermarks BY DEF MarksSet
<1>3. marks[k] # NoMark => marks[k].gen \in Nat BY <1>2, Constants DEF Watermarks
<1> QED BY <1>1, <1>3, BundleHas DEF Current, GenOf

LEMMA NewerNotCurrent ==
    ASSUME NEW marks \in MarksSet, NEW b \in Bundles, Newer(marks, b)
    PROVE  ~Current(marks, b)
BY BundleHas, MarkForIs DEF Current, Newer

\* Remembering a bundle makes its mark the mark for every bundle.
LEMMA Rekeyed ==
    ASSUME NEW marks \in MarksSet, NEW b \in Bundles, NEW pool \in Pool
    PROVE  /\ Rekey(marks, pool, Mark(b)) \in MarksSet
           /\ \A k \in Pool : Rekey(marks, pool, Mark(b))[k] \in {Mark(b), NoMark, marks[k]}
           /\ \A any : MarkFor(Rekey(marks, pool, Mark(b)), any) = Mark(b)
<1> DEFINE new == Rekey(marks, pool, Mark(b))
<1>1. new["canonical"] = Mark(b) BY DEF Rekey, Pool
<1>2. \A k \in Pool : new[k] \in {Mark(b), NoMark, marks[k]} BY DEF Rekey, Pool
<1>3. new \in MarksSet BY <1>2, MarkOf DEF MarksSet, Rekey
<1>4. \A any : MarkFor(new, any) = Mark(b) BY <1>1, MarkOf DEF MarkFor
<1> QED BY <1>2, <1>3, <1>4

---------------------------------------------------------------------------
(* Steps that leave the branch alone: more is issued and removed, and time *)
(* passes.                                                                 *)

Grown(iss, iss2) == \A id \in DOMAIN iss :
    /\ id \in DOMAIN iss2
    /\ iss2[id].added = iss[id].added /\ iss[id].creds \subseteq iss2[id].creds

Grew(w, w2) ==
    /\ w2.branch = w.branch /\ w2.deleted = w.deleted
    /\ w.clock <= w2.clock /\ w.removed \subseteq w2.removed
    /\ Grown(w.issued, w2.issued)

LEMMA DeadGrows ==
    ASSUME NEW b, NEW iss, NEW iss2, Grown(iss, iss2), Stones(b.tombs, iss), NEW id, Dead(b, id, iss2)
    PROVE  Dead(b, id, iss)
BY DEF Dead, Stones, Grown

LEMMA CopiesGrows ==
    ASSUME NEW accounts, NEW iss, NEW iss2, Grown(iss, iss2), Copies(accounts, iss)
    PROVE  Copies(accounts, iss2)
BY DEF Copies, Grown

LEMMA GoodGrows ==
    ASSUME NEW b, NEW iss, NEW iss2, Grown(iss, iss2), Good(b, iss)
    PROVE  Good(b, iss2)
<1>1. Stones(b.tombs, iss2) BY DEF Good, Stones, Grown
<1> QED BY <1>1, CopiesGrows DEF Good

LEMMA AllToldGrows ==
    ASSUME NEW w \in SharedSet, NEW w2 \in SharedSet, Grew(w, w2), Published(w),
           NEW b, AllTold(b, w)
    PROVE  AllTold(b, w2)
<1> SUFFICES ASSUME NEW d \in w2.deleted, Live(d, w2.issued, w2.clock)
             PROVE  Live(d, w.issued, w.clock) /\ d \in w.deleted
  BY DEF AllTold
<1>1. d \in w.deleted /\ d \in Deleted BY DEF Grew, SharedSet
<1>2. d.id \in DOMAIN w.issued /\ d.cred \in w.issued[d.id].creds BY <1>1 DEF Published
<1>3. w.clock \in Nat /\ w2.clock \in Nat /\ d.at \in Nat /\ w.clock <= w2.clock
  BY <1>1, Constants DEF SharedSet, Deleted, Times, Grew
<1>4. w.clock - d.at <= Ttl BY <1>3, Constants DEF Live
<1>5. w.issued[d.id].creds = {d.cred} /\ w.issued[d.id].added <= d.at
  BY <1>2 DEF Live, Grew, Grown
<1> QED BY <1>1, <1>4, <1>5 DEF Live

LEMMA PublishedGrows ==
    ASSUME NEW w \in SharedSet, NEW w2 \in SharedSet, Grew(w, w2), Published(w)
    PROVE  Published(w2)
<1>1. w2.branch.bundle # NoBundle =>
        Good(w2.branch.bundle, w2.issued) /\ Recorded(w2.branch.bundle, w2.deleted)
  BY GoodGrows DEF Published, Grew
<1>2. \A d \in w2.deleted : d.id \in DOMAIN w2.issued /\ d.cred \in w2.issued[d.id].creds
  BY DEF Published, Grew, Grown
<1>3. AllTold(w2.branch.bundle, w2) BY AllToldGrows DEF Published, Grew
<1> QED BY <1>1, <1>2, <1>3 DEF Published

LEMMA SyncedGrows ==
    ASSUME NEW w \in SharedSet, NEW w2 \in SharedSet, Grew(w, w2),
           NEW state, NEW seen, NEW seen2, seen \subseteq seen2, Synced(state, w, seen)
    PROVE  Synced(state, w2, seen2)
<1>1. Marked(state.marks, w2.branch, seen2) BY DEF Synced, Marked, Grew
<1>2. Held(state, w2.branch.bundle, w2.removed) BY DEF Synced, Held, Grew
<1>3. Copies(state.accounts, w2.issued) BY CopiesGrows DEF Synced, Grew
<1> QED BY <1>1, <1>2, <1>3 DEF Synced

LEMMA CleanGrows ==
    ASSUME NEW accounts, NEW b, NEW iss, NEW iss2, NEW bad, NEW bad2,
           Grown(iss, iss2), Stones(b.tombs, iss), bad \subseteq bad2, Clean(accounts, b, iss, bad)
    PROVE  Clean(accounts, b, iss2, bad2)
BY DeadGrows DEF Clean

LEMMA KeptGrows ==
    ASSUME NEW w \in SharedSet, NEW w2 \in SharedSet, Grew(w, w2), Published(w),
           NEW h, NEW h2, h2.state = h.state, h.seen \subseteq h2.seen, h.broken \subseteq h2.broken,
           Kept(w, h)
    PROVE  Kept(w2, h2)
<1>1. Synced(h2.state, w2, h2.seen) BY SyncedGrows DEF Kept
<1>2. ASSUME Current(h2.state.marks, w2.branch.bundle)
      PROVE  Clean(h2.state.accounts, w2.branch.bundle, w2.issued, h2.broken)
  <2>1. w.branch.bundle # NoBundle /\ w2.branch = w.branch BY <1>2 DEF Current, Grew
  <2>2. Stones(w.branch.bundle.tombs, w.issued) BY <2>1 DEF Published, Good
  <2>3. Clean(h.state.accounts, w.branch.bundle, w.issued, h.broken) BY <1>2, <2>1 DEF Kept
  <2> QED BY <2>1, <2>2, <2>3, CleanGrows DEF Grew
<1> QED BY <1>1, <1>2 DEF Kept

\* c2 is c, but may have been told that State has moved.
Outdates(c, c2) ==
    /\ c2.step = c.step /\ c2.state = c.state /\ c2.exported = c.exported
    /\ c2.base = c.base /\ c2.bundle = c.bundle
    /\ c2.fresh => c.fresh

LEMMA WorkingGrows ==
    ASSUME NEW w \in SharedSet, NEW w2 \in SharedSet, Grew(w, w2), Published(w),
           NEW h, NEW h2, NEW c, NEW c2, Outdates(c, c2),
           h.seen \subseteq h2.seen,
           c2.fresh => h2.state = h.state /\ h.broken \subseteq h2.broken,
           Current(h.state.marks, w.branch.bundle) => Current(h2.state.marks, w.branch.bundle),
           Working(c, w, h)
    PROVE  Working(c2, w2, h2)
<1> USE DEF Outdates
<1>0. w2.branch = w.branch /\ Grown(w.issued, w2.issued) BY DEF Grew
<1>1. Read(c2, w2, h2)
  <2>1. Synced(c2.state, w2, h2.seen) BY SyncedGrows DEF Working, Read
  <2> QED BY <2>1, <1>0 DEF Working, Read
<1>2. Pushing(c2, w2, h2)
  <2> SUFFICES ASSUME c2.step = "push" PROVE Pushing(c2, w2, h2)
    BY DEF Pushing
  <2>1. /\ c2.exported \subseteq DOMAIN c2.state.accounts
        /\ c2.fresh => DOMAIN c2.state.accounts \ c2.exported \subseteq h2.broken
    BY DEF Working, Pushing
  <2>2. ASSUME Current(c2.state.marks, w2.branch.bundle), NEW id \in c2.exported
        PROVE  ~Dead(w2.branch.bundle, id, w2.issued)
    <3>1. ~Dead(w.branch.bundle, id, w.issued) BY <1>0, <2>2 DEF Working, Pushing
    <3>2. Stones(w.branch.bundle.tombs, w.issued) BY <1>0, <2>2 DEF Current, Published, Good
    <3> QED BY <1>0, <3>1, <3>2, DeadGrows
  <2> QED BY <2>1, <2>2 DEF Pushing
<1>3. Sending(c2, w2, h2)
  <2> SUFFICES ASSUME c2.step = "send" PROVE Sending(c2, w2, h2)
    BY DEF Sending
  <2>1. Sending(c, w, h) /\ c.step = "send" BY DEF Working
  <2>2. Good(c2.bundle, w2.issued) BY <1>0, <2>1, GoodGrows DEF Sending
  <2>3. c2.fresh => Clean(c2.state.accounts, c2.bundle, w2.issued, h2.broken)
    BY <1>0, <2>1, CleanGrows DEF Sending, Good
  <2>4. c2.base = w2.branch.head => AllTold(c2.bundle, w2)
    BY <1>0, <2>1, AllToldGrows DEF Sending
  <2>5. c2.base = w2.branch.head /\ w2.branch.bundle # NoBundle =>
          w2.branch.head \in h2.seen /\ Replaces(w2.branch.bundle, c2.bundle, w2.removed)
    BY <1>0, <2>1 DEF Sending, Replaces, Grew
  <2> QED BY <1>0, <2>1, <2>2, <2>3, <2>4, <2>5 DEF Sending
<1>4. Taking(c2, w2)
  BY <1>0, GoodGrows DEF Working, Taking, Grew
<1>5. Marking(c2, w2, h2)
  <2> SUFFICES ASSUME c2.step = "mark" PROVE Marking(c2, w2, h2)
    BY DEF Marking
  <2>1. Marking(c, w, h) /\ Good(c.bundle, w.issued) BY DEF Working, Taking
  <2>2. c2.fresh => Clean(c2.state.accounts, c2.bundle, w2.issued, h2.broken)
    BY <1>0, <2>1, CleanGrows DEF Marking, Good
  <2> QED BY <2>1, <2>2 DEF Marking, Grew
<1>6. Merging(c2)
  BY DEF Working, Merging
<1> QED BY <1>1, <1>2, <1>3, <1>4, <1>5, <1>6 DEF Working

---------------------------------------------------------------------------
(* Steps that replace the bundle of the branch with a later one, b.        *)

Moves(w, w2, b) ==
    /\ w2.branch = [head |-> w.branch.head + 1, bundle |-> b]
    /\ w2.deleted = w.deleted \cup {Record(b, id) : id \in DOMAIN b.tombs}
    /\ w2.issued = w.issued /\ w2.removed = w.removed /\ w2.clock = w.clock

MayFollow(b, w) ==
    /\ Good(b, w.issued) /\ AllTold(b, w)
    /\ w.branch.bundle # NoBundle => w.branch.bundle.gen < b.gen

LEMMA PublishedMoves ==
    ASSUME NEW w \in SharedSet, NEW w2 \in SharedSet, NEW b \in Bundles,
           Moves(w, w2, b), MayFollow(b, w), Published(w)
    PROVE  Published(w2)
<1>1. Good(w2.branch.bundle, w2.issued) /\ Recorded(w2.branch.bundle, w2.deleted)
  BY DEF Moves, MayFollow, Recorded
<1>2. ASSUME NEW d \in w2.deleted
      PROVE  /\ d.id \in DOMAIN w2.issued /\ d.cred \in w2.issued[d.id].creds
             /\ Live(d, w2.issued, w2.clock) => Told(d, b.tombs)
  <2>1. CASE d \in w.deleted BY <2>1 DEF Moves, Published, MayFollow, AllTold
  <2>2. ASSUME NEW id \in DOMAIN b.tombs, d = Record(b, id)
        PROVE  <1>2!2
    <3>1. b.tombs \in Tombstones BY BundleHas
    <3>2. b.tombs[id] \in Tombstone BY <3>1, TableHas DEF Tombstones
    <3>3. d.id = id /\ d.cred = b.tombs[id].cred /\ d.at = b.tombs[id].at /\ d.at \in Nat
      BY <2>2, <3>2, Constants DEF Record, Times, Tombstone
    <3> QED BY <3>3 DEF Told, Moves, MayFollow, Good, Stones
  <2> QED BY <2>1, <2>2 DEF Moves
<1>3. AllTold(w2.branch.bundle, w2) BY <1>2, BundleHas DEF AllTold, Moves
<1> QED BY <1>1, <1>2, <1>3 DEF Published

LEMMA SyncedMoves ==
    ASSUME NEW w \in SharedSet, NEW w2 \in SharedSet, NEW b \in Bundles,
           Moves(w, w2, b), MayFollow(b, w), NEW seen,
           NEW state \in States, Synced(state, w, seen)
    PROVE  Synced(state, w2, seen) /\ ~Current(state.marks, w2.branch.bundle)
<1>1. state.marks \in MarksSet BY DEF States, MarksSet
<1>2. ASSUME NEW k \in Pool, state.marks[k] # NoMark PROVE state.marks[k].gen < b.gen
  <2>1. w.branch.bundle # NoBundle /\ state.marks[k].gen <= w.branch.bundle.gen
    BY <1>2 DEF Synced, Marked
  <2>2. w.branch.bundle \in Bundles BY <2>1 DEF SharedSet, Branches
  <2>3. state.marks[k].gen \in Nat BY <1>1, <1>2, Constants DEF MarksSet, Watermarks
  <2> QED BY <2>1, <2>2, <2>3, BundleHas DEF MayFollow
<1>3. w2.branch.bundle = b BY DEF Moves
<1>4. ~Current(state.marks, b) BY <1>1, <1>2, OlderNotCurrent
<1>5. Marked(state.marks, w2.branch, seen)
  <2> SUFFICES ASSUME NEW k \in Pool, state.marks[k] # NoMark
               PROVE  b # NoBundle /\ state.marks[k].gen <= b.gen /\ state.marks[k].gen # b.gen
    BY <1>3 DEF Marked
  <2>1. state.marks[k].gen \in Nat BY <1>1, Constants DEF MarksSet, Watermarks
  <2> QED BY <1>2, <2>1, BundleHas
<1> QED BY <1>3, <1>4, <1>5 DEF Synced, Held, Moves

LEMMA KeptMoves ==
    ASSUME NEW w \in SharedSet, NEW w2 \in SharedSet, NEW b \in Bundles,
           Moves(w, w2, b), MayFollow(b, w), NEW h \in Sites, Kept(w, h)
    PROVE  Kept(w2, h)
BY SyncedMoves DEF Kept, Sites

LEMMA WorkingMoves ==
    ASSUME NEW w \in SharedSet, NEW w2 \in SharedSet, NEW b \in Bundles,
           Moves(w, w2, b), MayFollow(b, w), NEW h \in Sites, NEW c \in Commands, Working(c, w, h)
    PROVE  Working(c, w2, h)
<1>0. c.state \in States /\ c.base \in Nat /\ w.branch.head \in Nat
  BY DEF Commands, SharedSet, Branches
<1>1. Synced(c.state, w2, h.seen) /\ ~Current(c.state.marks, w2.branch.bundle)
  BY <1>0, SyncedMoves DEF Working, Read
<1>2. Read(c, w2, h) BY <1>1 DEF Working, Read
<1>3. Pushing(c, w2, h) BY <1>1 DEF Working, Pushing
<1>4. w2.branch.head = w.branch.head + 1 /\ w2.branch.bundle = b /\ b # NoBundle
  BY BundleHas DEF Moves
<1>5. Sending(c, w2, h)
  <2> SUFFICES ASSUME c.step = "send" PROVE Sending(c, w2, h)
    BY DEF Sending
  <2>1. Sending(c, w, h) BY DEF Working
  <2>2. c.base <= w2.branch.head /\ c.base # w2.branch.head BY <1>0, <1>4, <2>1 DEF Sending
  <2> QED BY <2>1, <2>2 DEF Sending, Moves
<1>6. Taking(c, w2)
  <2> SUFFICES ASSUME c.step \in {"mark", "release", "merge"} PROVE Taking(c, w2)
    BY DEF Taking
  <2>1. Taking(c, w) BY DEF Working
  <2>2. w.branch.bundle \in Bundles /\ c.bundle \in Bundles
    BY <2>1 DEF Taking, SharedSet, Branches, Commands
  <2>3. c.bundle.gen \in Nat /\ w.branch.bundle.gen \in Nat /\ b.gen \in Nat BY <2>2, BundleHas
  <2>4. c.base < w2.branch.head /\ c.bundle.gen < w2.branch.bundle.gen
    BY <1>0, <1>4, <2>1, <2>2, <2>3 DEF Taking, MayFollow
  <2>5. Recorded(c.bundle, w2.deleted) BY <2>1 DEF Taking, Recorded, Moves
  <2> QED BY <1>4, <2>1, <2>4, <2>5 DEF Taking, Moves
<1>7. Marking(c, w2, h) BY DEF Working, Marking, Moves
<1>8. Merging(c) BY DEF Working
<1> QED BY <1>2, <1>3, <1>5, <1>6, <1>7, <1>8 DEF Working

---------------------------------------------------------------------------
(* What a push makes of the accounts it can export and of the bundle b.    *)

LEMMA CommandHas ==
    ASSUME NEW c \in Commands
    PROVE  /\ c.step \in Steps /\ c.fresh \in BOOLEAN /\ c.exported \in SUBSET Id
           /\ c.base \in Nat /\ c.bundle \in Bundles \cup {NoBundle} /\ c.pool \in Pool
           /\ c.state \in States /\ c.state.accounts \in Accounts
           /\ c.state.marks \in MarksSet /\ c.state.current \in Id \cup {NoId}
           /\ c # NoCmd
<1>1. c.state \in States BY DEF Commands
<1> QED BY <1>1, Constants DEF Commands, States, MarksSet

LEMMA ExportsAre ==
    ASSUME NEW c \in Commands, c.exported \subseteq DOMAIN c.state.accounts,
           NEW b \in Bundles \cup {NoBundle}
    PROVE  LET all == Exports(c, b) IN
           /\ all \in Accounts
           /\ c.exported \subseteq DOMAIN all /\ DOMAIN all \subseteq DOMAIN c.state.accounts
           /\ \A id \in c.exported : all[id] = c.state.accounts[id]
           /\ \A id \in DOMAIN all \ c.exported :
                b # NoBundle /\ id \in DOMAIN b.accounts /\ all[id] = b.accounts[id]
           /\ b # NoBundle => \A id \in DOMAIN b.accounts \cap DOMAIN c.state.accounts :
                id \in DOMAIN all \/ b.accounts[id].cred \in Creds(all)
<1> DEFINE mine == Restrict(c.state.accounts, c.exported)
           kept == Retained(c, b)
           all  == Exports(c, b)
<1>1. mine \in Accounts /\ DOMAIN mine = c.exported /\ \A id \in c.exported : mine[id] = c.state.accounts[id]
  BY CommandHas, RestrictTable DEF Accounts
<1>2. kept \in Accounts /\ \A id \in DOMAIN kept :
        /\ b # NoBundle /\ id \in DOMAIN b.accounts /\ kept[id] = b.accounts[id]
        /\ id \in DOMAIN c.state.accounts \ c.exported
  <2>1. CASE b = NoBundle BY <2>1, NoTable DEF Retained, Accounts
  <2>2. CASE b # NoBundle
    <3> DEFINE T == {id \in DOMAIN b.accounts \cap (DOMAIN c.state.accounts \ c.exported) :
                        b.accounts[id].cred \notin Creds(mine)}
    <3>1. kept = Restrict(b.accounts, T) BY <2>2 DEF Retained
    <3>2. b.accounts \in Accounts BY <2>2, BundleHas
    <3>3. kept \in Accounts /\ DOMAIN kept = T /\ \A id \in T : kept[id] = b.accounts[id]
      BY <3>1, <3>2, RestrictTable DEF Accounts
    <3> QED BY <2>2, <3>3
  <2> QED BY <2>1, <2>2
<1>3. /\ all \in Accounts /\ DOMAIN all = DOMAIN mine \cup DOMAIN kept
      /\ \A id \in DOMAIN mine : all[id] = mine[id]
      /\ \A id \in DOMAIN kept \ DOMAIN mine : all[id] = kept[id]
  <2>1. all = Over(mine, kept) BY DEF Exports
  <2> HIDE DEF mine, kept, all
  <2>2. all \in Accounts BY <1>1, <1>2, <2>1, OverTable DEF Accounts
  <2> QED BY <2>1, <2>2 DEF Over
<1>4. ASSUME b # NoBundle, NEW id \in DOMAIN b.accounts \cap DOMAIN c.state.accounts, id \notin DOMAIN all
      PROVE  b.accounts[id].cred \in Creds(all)
  <2>1. id \notin c.exported /\ id \notin DOMAIN kept BY <1>1, <1>3, <1>4
  <2>2. b.accounts[id].cred \in Creds(mine)
    <3>1. SUFFICES ASSUME b.accounts[id].cred \notin Creds(mine) PROVE id \in DOMAIN kept
      BY <2>1
    <3> QED BY <1>4, <2>1, <3>1 DEF Retained, Restrict
  <2>3. PICK i \in DOMAIN mine : mine[i].cred = b.accounts[id].cred BY <2>2 DEF Creds
  <2>4. i \in DOMAIN all /\ all[i].cred = b.accounts[id].cred BY <1>3, <2>3
  <2> QED BY <2>4 DEF Creds
<1> QED BY <1>1, <1>2, <1>3, <1>4

LEMMA CarriedAre ==
    ASSUME NEW b \in Bundles \cup {NoBundle}, NEW exports
    PROVE  LET carried == Carried(b, exports) IN
           /\ carried \in Tombstones
           /\ \A id \in DOMAIN carried :
                /\ b # NoBundle /\ id \in DOMAIN b.tombs \ DOMAIN exports
                /\ carried[id] = b.tombs[id]
           /\ b # NoBundle => \A id \in DOMAIN b.tombs \ DOMAIN exports :
                clock - b.tombs[id].at <= Ttl => id \in DOMAIN carried
<1>1. CASE b = NoBundle BY <1>1, NoTable DEF Carried, Tombstones
<1>2. CASE b # NoBundle
  <2> DEFINE T == {id \in DOMAIN b.tombs \ DOMAIN exports : clock - b.tombs[id].at <= Ttl}
  <2>1. Carried(b, exports) = Restrict(b.tombs, T) BY <1>2 DEF Carried
  <2>2. b.tombs \in Tombstones BY <1>2, BundleHas
  <2>3. /\ Restrict(b.tombs, T) \in Tombstones /\ DOMAIN Restrict(b.tombs, T) = T
        /\ \A id \in T : Restrict(b.tombs, T)[id] = b.tombs[id]
    BY <2>2, RestrictTable DEF Tombstones
  <2> QED BY <1>2, <2>1, <2>3
<1> QED BY <1>1, <1>2

LEMMA DeletionsAre ==
    ASSUME clock \in 1..MaxClock, NEW c, NEW b \in Bundles \cup {NoBundle}, NEW carried
    PROVE  LET gone == Deletions(c, b, carried) IN
           /\ gone \in Tombstones
           /\ \A id \in DOMAIN gone :
                b # NoBundle /\ id \in DOMAIN b.accounts /\ gone[id].cred = b.accounts[id].cred
<1>1. CASE b = NoBundle BY <1>1, NoTable DEF Deletions, Tombstones
<1>2. CASE b # NoBundle
  <2> DEFINE T == DOMAIN b.accounts \ (DOMAIN c.state.accounts \cup DOMAIN carried)
             gone == [id \in T |-> [cred |-> b.accounts[id].cred, at |-> clock]]
  <2>1. Deletions(c, b, carried) = gone BY <1>2 DEF Deletions
  <2>2. b.accounts \in Accounts BY <1>2, BundleHas
  <2>3. T \in SUBSET Id /\ \A id \in T : b.accounts[id] \in Account
    BY <2>2, TableHas DEF Accounts
  <2>4. clock \in Times BY Constants DEF Times
  <2>5. gone \in [T -> Tombstone] BY <2>3, <2>4 DEF Account, Tombstone
  <2>6. gone \in Tombstones BY <2>3, <2>5, TableIs DEF Tombstones
  <2> QED BY <1>2, <2>1, <2>6
<1> QED BY <1>1, <1>2

\* The bundle a push would write.
LEMMA NewBundleIs ==
    ASSUME clock \in 1..MaxClock, NEW c \in Commands, c.exported \subseteq DOMAIN c.state.accounts,
           NEW b \in Bundles \cup {NoBundle}, NewBundle(c, b).gen <= MaxGen
    PROVE  LET new == NewBundle(c, b)  carried == Carried(b, Exports(c, b)) IN
           /\ new \in Bundles /\ new.accounts = Exports(c, b)
           /\ b # NoBundle => b.gen < new.gen
           /\ DOMAIN carried \subseteq DOMAIN new.tombs
           /\ \A id \in DOMAIN carried : new.tombs[id] = carried[id]
           /\ \A id \in DOMAIN new.tombs \ DOMAIN carried :
                b # NoBundle /\ id \in DOMAIN b.accounts /\ new.tombs[id].cred = b.accounts[id].cred
<1> DEFINE new == NewBundle(c, b)
           carried == Carried(b, Exports(c, b))
           gone == Deletions(c, b, carried)
<1>1. /\ new.pool = "canonical" /\ new.gen = NextGen(c.state.marks, b)
      /\ new.accounts = Exports(c, b) /\ new.tombs = Over(carried, gone)
      /\ new = [pool |-> new.pool, gen |-> new.gen, accounts |-> new.accounts, tombs |-> new.tombs]
  BY DEF NewBundle
<1>2. carried \in Tombstones /\ gone \in Tombstones BY CarriedAre, DeletionsAre
<1>3. /\ new.tombs \in Tombstones /\ DOMAIN new.tombs = DOMAIN carried \cup DOMAIN gone
      /\ \A id \in DOMAIN carried : new.tombs[id] = carried[id]
      /\ \A id \in DOMAIN gone \ DOMAIN carried : new.tombs[id] = gone[id]
  <2>1. new.tombs = Over(carried, gone) BY <1>1
  <2> HIDE DEF new, carried, gone
  <2>2. new.tombs \in Tombstones BY <1>2, <2>1, OverTable DEF Tombstones
  <2> QED BY <2>1, <2>2 DEF Over
<1>4. /\ new.gen \in Nat /\ new.gen > 0
      /\ b # NoBundle => b.gen < new.gen
  <2>1. GenOf(MarkFor(c.state.marks, b)) \in Nat BY CommandHas, MarkForIs
  <2>2. b # NoBundle => b.gen \in Nat BY BundleHas
  <2> QED BY <1>1, <2>1, <2>2 DEF NextGen
<1>5. new.gen \in 1..MaxGen BY <1>4, Constants
<1>6. new.accounts \in Accounts BY <1>1, ExportsAre
<1>7. new \in Bundles BY <1>1, <1>3, <1>5, <1>6 DEF Bundles, Pool
<1> QED BY <1>1, <1>3, <1>4, <1>7, DeletionsAre

---------------------------------------------------------------------------
(* Commands that clone the branch.                                         *)

LEMMA Types ==
    ASSUME SyncTypeOK
    PROVE  /\ Shared \in SharedSet
           /\ \A m \in Machine : Site(m) \in Sites
           /\ \A p \in Proc : Host[p] \in Machine /\ cmd[p] \in Commands \cup {NoCmd}
<1>1. Shared \in SharedSet BY DEF SyncTypeOK, Shared, SharedSet, Branches, Issues, Deleted
<1>2. ASSUME NEW m \in Machine PROVE Site(m) \in Sites BY DEF SyncTypeOK, Site, Sites
<1>3. ASSUME NEW p \in Proc PROVE Host[p] \in Machine /\ cmd[p] \in Commands \cup {NoCmd}
  BY Constants DEF SyncTypeOK
<1> QED BY <1>1, <1>2, <1>3

LEMMA TypesNext ==
    ASSUME SyncTypeOK'
    PROVE  /\ Shared' \in SharedSet
           /\ \A m \in Machine : Site(m)' \in Sites
<1>1. Shared' \in SharedSet BY DEF SyncTypeOK, Shared, SharedSet, Branches, Issues, Deleted
<1>2. ASSUME NEW m \in Machine PROVE Site(m)' \in Sites BY DEF SyncTypeOK, Site, Sites
<1> QED BY <1>1, <1>2

\* Who is not behind has taken in the commit that has the bundle.
LEMMA NotBehind ==
    ASSUME NEW marks \in MarksSet, NEW r \in Branches, NEW seen, Marked(marks, r, seen),
           r.bundle # NoBundle, ~Behind(marks, r.bundle)
    PROVE  r.head \in seen /\ Current(marks, r.bundle)
<1>1. r.bundle \in Bundles BY DEF Branches
<1>2. PICK k \in Pool : MarkFor(marks, r.bundle) = marks[k] BY <1>1, MarkForIs
<1>3. GenOf(marks[k]) \in Nat /\ r.bundle.gen \in Nat /\ r.bundle.gen > 0
  BY <1>1, <1>2, MarkForIs, BundleHas
<1>4. r.bundle.gen <= GenOf(marks[k]) BY <1>1, <1>2, <1>3 DEF Behind
<1>5. marks[k] # NoMark /\ GenOf(marks[k]) = marks[k].gen BY <1>3, <1>4 DEF GenOf
<1>6. marks[k].gen = r.bundle.gen /\ r.head \in seen BY <1>3, <1>4, <1>5 DEF Marked
<1> QED BY <1>2, <1>5, <1>6 DEF Current

\* What a push that is not refused would write may replace what is there.
LEMMA NewBundleReplaces ==
    ASSUME SyncInv, NEW p \in Proc, At(p, "push"),
           ~Behind(cmd[p].state.marks, remote.bundle),
           WellFormed(NewBundle(cmd[p], remote.bundle)),
           NewBundle(cmd[p], remote.bundle).gen <= MaxGen
    PROVE  LET c == cmd[p]  b == remote.bundle  new == NewBundle(c, b) IN
           /\ new \in Bundles /\ Good(new, issued) /\ AllTold(new, Shared)
           /\ b # NoBundle => remote.head \in merged[Host[p]] /\ Replaces(b, new, removed)
           /\ DOMAIN new.accounts \subseteq DOMAIN c.state.accounts
           /\ c.fresh => Clean(c.state.accounts, new, issued, broken[Host[p]])
<1> DEFINE c == cmd[p]
           b == remote.bundle
           new == NewBundle(c, b)
           m == Host[p]
           carried == Carried(b, Exports(c, b))
<1>1. c \in Commands /\ c.step = "push" /\ m \in Machine /\ b \in Bundles \cup {NoBundle}
      /\ remote \in Branches /\ clock \in 1..MaxClock
  BY Types DEF At, SyncInv, SyncTypeOK, Branches
<1>2. Working(c, Shared, Site(m)) BY <1>1, CommandHas DEF SyncInv, At
<1>3. /\ Marked(c.state.marks, remote, merged[m]) /\ Held(c.state, b, removed)
      /\ Copies(c.state.accounts, issued) /\ c.exported \subseteq DOMAIN c.state.accounts
      /\ c.fresh => DOMAIN c.state.accounts \ c.exported \subseteq broken[m]
      /\ Current(c.state.marks, b) => \A id \in c.exported : ~Dead(b, id, issued)
  BY <1>1, <1>2 DEF Working, Read, Synced, Pushing, Shared, Site
<1>4. b # NoBundle => /\ Good(b, issued) /\ Recorded(b, deleted)
                      /\ remote.head \in merged[m] /\ Current(c.state.marks, b)
  BY <1>1, <1>3, NotBehind, CommandHas DEF SyncInv, Published, Shared
<1>5. /\ new \in Bundles /\ new.accounts = Exports(c, b)
      /\ b # NoBundle => b.gen < new.gen
      /\ DOMAIN carried \subseteq DOMAIN new.tombs
      /\ \A id \in DOMAIN carried : new.tombs[id] = carried[id]
      /\ \A id \in DOMAIN new.tombs \ DOMAIN carried :
           b # NoBundle /\ id \in DOMAIN b.accounts /\ new.tombs[id].cred = b.accounts[id].cred
  BY <1>1, <1>3, NewBundleIs
<1>6. /\ c.exported \subseteq DOMAIN new.accounts /\ DOMAIN new.accounts \subseteq DOMAIN c.state.accounts
      /\ \A id \in c.exported : new.accounts[id] = c.state.accounts[id]
      /\ \A id \in DOMAIN new.accounts \ c.exported :
           b # NoBundle /\ id \in DOMAIN b.accounts /\ new.accounts[id] = b.accounts[id]
      /\ b # NoBundle => \A id \in DOMAIN b.accounts \cap DOMAIN c.state.accounts :
           id \in DOMAIN new.accounts \/ b.accounts[id].cred \in Creds(new.accounts)
  BY <1>1, <1>3, <1>5, ExportsAre
<1>7. /\ \A id \in DOMAIN carried :
           /\ b # NoBundle /\ id \in DOMAIN b.tombs \ DOMAIN new.accounts
           /\ carried[id] = b.tombs[id]
      /\ b # NoBundle => \A id \in DOMAIN b.tombs \ DOMAIN new.accounts :
           clock - b.tombs[id].at <= Ttl => id \in DOMAIN carried
  BY <1>1, <1>5, CarriedAre
<1> HIDE DEF c, b, new, m, carried
<1>8. Good(new, issued)
  <2>1. Copies(new.accounts, issued) BY <1>3, <1>4, <1>6 DEF Copies, Good
  <2>2. Stones(new.tombs, issued) BY <1>4, <1>5, <1>7 DEF Stones, Good, Copies
  <2> QED BY <2>1, <2>2 DEF Good, new, c, b
<1>9. b # NoBundle => Replaces(b, new, removed)
  BY <1>3, <1>4, <1>5, <1>6 DEF Replaces, Held
<1>10. c.fresh => Clean(c.state.accounts, new, issued, broken[m])
  <2> SUFFICES ASSUME c.fresh, NEW id \in DOMAIN c.state.accounts, Dead(new, id, issued)
               PROVE  id \in broken[m]
    BY DEF Clean
  <2>1. id \in DOMAIN new.tombs BY DEF Dead
  <2>2. id \notin DOMAIN new.accounts BY <2>1, <1>8 DEF Good, WellFormed
  <2> QED BY <2>2, <1>3, <1>6
<1>11. AllTold(new, Shared)
  <2> SUFFICES ASSUME NEW d \in deleted, Live(d, issued, clock)
               PROVE  new # NoBundle /\ Told(d, new.tombs)
    BY DEF AllTold, Shared
  <2>1. b # NoBundle /\ Told(d, b.tombs) /\ d.id \in DOMAIN issued
    BY DEF SyncInv, Published, AllTold, Shared, b
  <2>2. b \in Bundles /\ b.tombs \in Tombstones BY <2>1, <1>1, BundleHas
  <2>3. d.id \in DOMAIN b.tombs /\ d.at <= b.tombs[d.id].at BY <2>1 DEF Told
  <2>4. b.tombs[d.id] \in Tombstone BY <2>2, <2>3, TableHas DEF Tombstones
  <2>5. b.tombs[d.id].at \in Nat /\ d.at \in Nat /\ clock \in Nat
    <3>1. d \in Deleted BY DEF SyncInv, SyncTypeOK, Deleted
    <3> QED BY <3>1, <2>4, <1>1, Constants DEF Deleted, Tombstone, Times
  <2>6. clock - b.tombs[d.id].at <= Ttl BY <2>3, <2>5, Constants DEF Live
  <2>7. Dead(b, d.id, issued)
    <3>1. b.tombs[d.id].cred \in issued[d.id].creds BY <2>1, <2>3, <1>4 DEF Good, Stones
    <3>2. issued[d.id].added \in Nat
      <4>1. issued \in Issues BY DEF SyncInv, SyncTypeOK, Issues
      <4>2. issued[d.id] \in Issue BY <4>1, <2>1, TableHas DEF Issues
      <4> QED BY <4>2, Constants DEF Issue, Times
    <3> QED BY <3>1, <3>2, <2>3, <2>5 DEF Dead, Live
  <2>8. d.id \notin c.exported BY <2>1, <2>7, <1>3, <1>4
  <2>9. d.id \notin DOMAIN new.accounts
    <3>1. d.id \notin DOMAIN b.accounts BY <2>1, <2>3, <1>4 DEF Good, WellFormed
    <3> QED BY <3>1, <2>8, <1>6
  <2>10. d.id \in DOMAIN carried BY <2>1, <2>3, <2>6, <2>9, <1>7
  <2> QED BY <2>3, <2>10, <1>5, <1>7, BundleHas DEF Told
<1> QED BY <1>4, <1>5, <1>6, <1>8, <1>9, <1>10, <1>11 DEF c, b, new, m

\* A step that changes nothing but what its command knows.
LEMMA Quiet ==
    ASSUME SyncInv, NEW p \in Proc, NEW c2 \in Commands \cup {NoCmd},
           cmd' = [cmd EXCEPT ![p] = c2], UNCHANGED <<remote, local, broken, counters, history>>,
           c2 # NoCmd => Working(c2, Shared, Site(Host[p]))
    PROVE  SyncInv'
<1>1. SyncTypeOK' BY DEF SyncInv, SyncTypeOK, counters, history
<1>2. Shared' = Shared /\ \A m \in Machine : Site(m)' = Site(m)
  BY DEF Shared, Site, counters, history
<1>3. ASSUME NEW q \in Proc, cmd'[q] # NoCmd PROVE Working(cmd'[q], Shared, Site(Host[q]))
  BY <1>3 DEF SyncInv, SyncTypeOK
<1>4. \A q \in Proc : Host[q] \in Machine BY Constants
<1> QED BY <1>1, <1>2, <1>3, <1>4 DEF SyncInv

LEMMA EndKeeps ==
    ASSUME SyncInv, NEW p \in Proc, End(p), UNCHANGED <<remote, local, broken, counters, history>>
    PROVE  SyncInv'
BY Quiet DEF End

LEMMA BeginsKeeps ==
    ASSUME SyncInv, NEW p \in Proc, NEW step \in {"export", "pull"}, Begins(p, step)
    PROVE  SyncInv'
<1> DEFINE m == Host[p]
           c2 == [step |-> step, fresh |-> TRUE, state |-> local[m], exported |-> {}, base |-> 0,
                  bundle |-> NoBundle, pool |-> "canonical"]
<1>1. m \in Machine /\ local[m] \in States BY Constants DEF SyncInv, SyncTypeOK
<1>2. c2 \in Commands BY <1>1 DEF Commands, Steps, Pool
<1>3. Kept(Shared, Site(m)) BY <1>1 DEF SyncInv
<1>4. Working(c2, Shared, Site(m))
  <2>1. Read(c2, Shared, Site(m)) BY <1>3 DEF Kept, Read, Site
  <2> QED BY <2>1 DEF Working, Pushing, Sending, Taking, Marking, Merging
<1> HIDE DEF c2
<1>5. cmd' = [cmd EXCEPT ![p] = c2] /\ UNCHANGED <<remote, local, broken, counters, history>>
  BY DEF Begins, c2
<1> QED BY <1>2, <1>4, <1>5, Quiet

LEMMA ExportKeeps ==
    ASSUME SyncInv, NEW p \in Proc, Export(p)
    PROVE  SyncInv'
<1> DEFINE c == cmd[p]
           m == Host[p]
           exported == Exportable(m, c.state.accounts)
           c2 == [c EXCEPT !.step = "push", !.exported = exported]
<1>1. c \in Commands /\ c.step = "export" /\ m \in Machine /\ Site(m) \in Sites
  BY Types DEF SyncInv, Export, At
<1>2. UNCHANGED <<remote, local, broken, counters, history>> BY DEF Export
<1>3. CASE End(p) BY <1>2, <1>3, EndKeeps
<1>4. CASE cmd' = [cmd EXCEPT ![p].step = "push", ![p].exported = exported]
  <2>1. cmd' = [cmd EXCEPT ![p] = c2] BY <1>4 DEF SyncInv, SyncTypeOK
  <2>2. exported \subseteq DOMAIN c.state.accounts BY DEF Exportable
  <2>3. exported \subseteq Id
    BY <1>1, <2>2, CommandHas, TableHas DEF Accounts
  <2>4. /\ c2 \in Commands /\ c2.step = "push" /\ c2.exported = exported
        /\ c2.state = c.state /\ c2.fresh = c.fresh
    BY <1>1, <2>3 DEF Commands, Steps
  <2>5. Working(c, Shared, Site(m)) /\ Kept(Shared, Site(m)) BY <1>1, CommandHas DEF SyncInv
  <2>6. Read(c2, Shared, Site(m)) BY <2>2, <2>4, <2>5 DEF Working, Read
  <2>7. Pushing(c2, Shared, Site(m))
    <3>1. c2.fresh => DOMAIN c2.state.accounts \ exported \subseteq broken[m]
      BY <2>4, <2>5 DEF Working, Read, Site, Exportable
    <3>2. ASSUME Current(c2.state.marks, remote.bundle), NEW id \in exported
          PROVE  ~Dead(remote.bundle, id, issued)
      <4>1. id \in DOMAIN local[m].accounts /\ id \notin broken[m] BY DEF Exportable
      <4>2. Current(local[m].marks, remote.bundle)
        BY <2>4, <2>5, <3>2 DEF Working, Read, Shared, Site
      <4> QED BY <2>5, <4>1, <4>2 DEF Kept, Clean, Shared, Site
    <3> HIDE DEF c2, exported
    <3> QED BY <2>2, <2>4, <3>1, <3>2 DEF Pushing, Shared, Site
  <2> HIDE DEF c2
  <2>8. Working(c2, Shared, Site(m))
    BY <2>4, <2>6, <2>7 DEF Working, Sending, Taking, Marking, Merging
  <2> QED BY <1>2, <2>1, <2>4, <2>8, Quiet
<1> QED BY <1>3, <1>4 DEF Export

\* Its branches: the mark is all that is left to do, or a bundle is to be sent.
LEMMA PrepareMarks ==
    ASSUME SyncInv, NEW p \in Proc, At(p, "push"), Unchanged(cmd[p], remote.bundle),
           UNCHANGED <<remote, local, broken, counters, history>>,
           cmd' = [cmd EXCEPT ![p] = [Clone(cmd[p]) EXCEPT !.step = "mark", !.bundle = remote.bundle]]
    PROVE  SyncInv'
<1> DEFINE c == cmd[p]
           m == Host[p]
           b == remote.bundle
           all == Exports(c, b)
           c2 == [Clone(c) EXCEPT !.step = "mark", !.bundle = b]
<1>1. c \in Commands /\ c.step = "push" /\ m \in Machine /\ remote \in Branches
  BY Types DEF SyncInv, SyncTypeOK, At, Branches
<1>2. Working(c, Shared, Site(m)) BY <1>1, CommandHas DEF SyncInv
<1>3. b \in Bundles /\ b # NoBundle BY <1>1 DEF Unchanged, Branches
<1>4. b.accounts = all /\ b.tombs = Carried(b, all)
  BY DEF Unchanged, SemanticOf, Semantic
<1>5. remote.head \in Nat /\ PoolOf(b) \in Pool BY <1>1, <1>3, BundleHas DEF Branches
<1>6. /\ c2 \in Commands /\ c2.step = "mark" /\ c2.state = c.state /\ c2.fresh = c.fresh
      /\ c2.exported = c.exported /\ c2.base = remote.head /\ c2.bundle = b
  BY <1>1, <1>3, <1>5 DEF Clone, Commands, Steps
<1>7. Read(c2, Shared, Site(m)) BY <1>2, <1>6 DEF Working, Read
<1>8. Taking(c2, Shared)
  <2>1. Good(b, issued) /\ Recorded(b, deleted) BY <1>3 DEF SyncInv, Published, Shared
  <2>2. \A k \in Pool : c.state.marks[k] # NoMark => c.state.marks[k].gen <= b.gen
    BY <1>2 DEF Working, Read, Synced, Marked, Shared
  <2> HIDE DEF c2
  <2> QED BY <1>3, <1>6, <2>1, <2>2 DEF Taking, Shared
<1>9. Marking(c2, Shared, Site(m))
  <2>1. c.exported \subseteq DOMAIN c.state.accounts BY <1>1, <1>2 DEF Working, Pushing
  <2>2. c.exported \subseteq DOMAIN b.accounts /\ DOMAIN b.accounts \subseteq DOMAIN c.state.accounts
    BY <1>1, <1>3, <1>4, <2>1, ExportsAre
  <2>3. DOMAIN b.tombs \cap DOMAIN b.accounts = {} BY <1>3, <1>4, CarriedAre
  <2>4. c.fresh => DOMAIN c.state.accounts \ c.exported \subseteq broken[m]
    BY <1>1, <1>2 DEF Working, Pushing, Site
  <2>5. c.fresh => Clean(c.state.accounts, b, issued, broken[m])
    BY <2>2, <2>3, <2>4 DEF Clean, Dead
  <2> HIDE DEF c2
  <2> QED BY <1>6, <2>2, <2>5 DEF Marking, Shared, Site
<1> HIDE DEF c2
<1>10. Working(c2, Shared, Site(m))
  BY <1>6, <1>7, <1>8, <1>9 DEF Working, Pushing, Sending, Merging
<1>11. cmd' = [cmd EXCEPT ![p] = c2] BY DEF c2
<1> QED BY <1>6, <1>10, <1>11, Quiet

LEMMA PrepareSends ==
    ASSUME SyncInv, NEW p \in Proc, At(p, "push"), UNCHANGED <<remote, local, broken, counters, history>>,
           ~Behind(cmd[p].state.marks, remote.bundle),
           WellFormed(NewBundle(cmd[p], remote.bundle)),
           NewBundle(cmd[p], remote.bundle).gen <= MaxGen,
           cmd' = [cmd EXCEPT ![p] = [Clone(cmd[p]) EXCEPT !.step = "send",
                                         !.bundle = NewBundle(cmd[p], remote.bundle)]]
    PROVE  SyncInv'
<1> DEFINE c == cmd[p]
           m == Host[p]
           b == remote.bundle
           new == NewBundle(c, b)
           c2 == [Clone(c) EXCEPT !.step = "send", !.bundle = new]
<1>1. c \in Commands /\ c.step = "push" /\ m \in Machine /\ remote \in Branches
  BY Types DEF SyncInv, SyncTypeOK, At, Branches
<1>2. Working(c, Shared, Site(m)) BY <1>1, CommandHas DEF SyncInv
<1>3. /\ new \in Bundles /\ Good(new, issued) /\ AllTold(new, Shared)
      /\ b # NoBundle => remote.head \in merged[m] /\ Replaces(b, new, removed)
      /\ DOMAIN new.accounts \subseteq DOMAIN c.state.accounts
      /\ c.fresh => Clean(c.state.accounts, new, issued, broken[m])
  BY NewBundleReplaces
<1> HIDE DEF new
<1>5. remote.head \in Nat /\ PoolOf(b) \in Pool BY <1>1, BundleHas DEF Branches, PoolOf, Pool
<1>6. /\ c2 \in Commands /\ c2.step = "send" /\ c2.state = c.state /\ c2.fresh = c.fresh
      /\ c2.exported = c.exported /\ c2.base = remote.head /\ c2.bundle = new
  BY <1>1, <1>3, <1>5 DEF Clone, Commands, Steps
<1>7. cmd' = [cmd EXCEPT ![p] = c2] BY DEF new
<1>8. Read(c2, Shared, Site(m)) BY <1>2, <1>6 DEF Working, Read
<1> HIDE DEF c2
<1>9. Sending(c2, Shared, Site(m)) BY <1>3, <1>5, <1>6, BundleHas DEF Sending, Shared, Site
<1>10. Working(c2, Shared, Site(m))
  BY <1>6, <1>8, <1>9 DEF Working, Pushing, Taking, Marking, Merging
<1> QED BY <1>6, <1>7, <1>10, Quiet

LEMMA PrepareKeeps ==
    ASSUME SyncInv, NEW p \in Proc, Prepare(p)
    PROVE  SyncInv'
<1>1. At(p, "push") /\ UNCHANGED <<remote, local, broken, counters, history>> BY DEF Prepare
<1>2. CASE End(p) BY <1>1, <1>2, EndKeeps
<1>3. CASE Unchanged(cmd[p], remote.bundle) /\ ~End(p)
  BY <1>1, <1>3, PrepareMarks DEF Prepare
<1>4. CASE ~Unchanged(cmd[p], remote.bundle) /\ ~End(p)
  BY <1>1, <1>4, PrepareSends DEF Prepare
<1> QED BY <1>2, <1>3, <1>4

LEMMA FetchKeeps ==
    ASSUME SyncInv, NEW p \in Proc, Fetch(p)
    PROVE  SyncInv'
<1> DEFINE c == cmd[p]
           m == Host[p]
           b == remote.bundle
           step == IF DeletesCurrent(c.state, b) THEN "release" ELSE "merge"
           c2 == [Clone(c) EXCEPT !.bundle = b, !.step = step]
<1>1. c \in Commands /\ m \in Machine /\ remote \in Branches
  BY Types DEF SyncInv, SyncTypeOK, Fetch, At, Branches
<1>2. UNCHANGED <<remote, local, broken, counters, history>> BY DEF Fetch
<1>3. CASE End(p) BY <1>2, <1>3, EndKeeps
<1>4. CASE Newer(c.state.marks, b) /\ cmd' = [cmd EXCEPT ![p] = c2]
  <2>1. b \in Bundles /\ b # NoBundle BY <1>1, <1>4 DEF Newer, Branches
  <2>2. Working(c, Shared, Site(m)) BY <1>1, CommandHas DEF SyncInv
  <2>3. remote.head \in Nat /\ PoolOf(b) \in Pool BY <1>1, <2>1, BundleHas DEF Branches
  <2>4. /\ c2 \in Commands /\ c2.step = step /\ c2.state = c.state /\ c2.fresh = c.fresh
        /\ c2.exported = c.exported /\ c2.base = remote.head /\ c2.bundle = b
    BY <1>1, <2>1, <2>3 DEF Clone, Commands, Steps
  <2>5. Read(c2, Shared, Site(m)) BY <2>2, <2>4 DEF Working, Read
  <2>6. Taking(c2, Shared)
    <3>1. Good(b, issued) /\ Recorded(b, deleted) BY <2>1 DEF SyncInv, Published, Shared
    <3>2. \A k \in Pool : c.state.marks[k] # NoMark => c.state.marks[k].gen <= b.gen
      BY <2>2 DEF Working, Read, Synced, Marked, Shared
    <3> HIDE DEF c2
    <3> QED BY <2>1, <2>4, <3>1, <3>2 DEF Taking, Shared
  <2>7. Merging(c2)
    <3> HIDE DEF c2
    <3> QED BY <1>4, <2>4 DEF Merging
  <2>8. step \notin {"push", "send", "mark"} OBVIOUS
  <2> HIDE DEF c2
  <2>9. Working(c2, Shared, Site(m))
    BY <2>4, <2>5, <2>6, <2>7, <2>8 DEF Working, Pushing, Sending, Marking
  <2> QED BY <1>2, <1>4, <2>4, <2>9, Quiet
<1> QED BY <1>3, <1>4 DEF Fetch

LEMMA KillKeeps ==
    ASSUME SyncInv, NEW p \in Proc, Kill(p)
    PROVE  SyncInv'
BY EndKeeps DEF Kill

---------------------------------------------------------------------------
(* The push itself.                                                        *)

LEMMA PushedKeeps ==
    ASSUME SyncInv, NEW p \in Proc, At(p, "send"), remote.head = cmd[p].base, Replace(cmd[p].bundle),
           UNCHANGED <<local, broken, counters, issued, removed, merged>>,
           \/ cmd' = [cmd EXCEPT ![p] = NoCmd]
           \/ cmd' = [cmd EXCEPT ![p] = [cmd[p] EXCEPT !.step = "mark", !.base = @ + 1]]
    PROVE  SyncInv'
<1> DEFINE c == cmd[p]
           m == Host[p]
           b == c.bundle
           c2 == [c EXCEPT !.step = "mark", !.base = @ + 1]
<1>1. c \in Commands /\ c.step = "send" /\ m \in Machine /\ remote \in Branches /\ Shared \in SharedSet
      /\ \A k \in Machine : Site(k) \in Sites
  BY Types DEF SyncInv, SyncTypeOK, At, Branches
<1>2. Working(c, Shared, Site(m)) BY <1>1, CommandHas DEF SyncInv
<1>3. Sending(c, Shared, Site(m)) BY <1>2 DEF Working
<1>4. b \in Bundles BY <1>1, <1>3, CommandHas DEF Sending
<1>5. MayFollow(b, Shared)
  BY <1>1, <1>3 DEF Sending, MayFollow, Shared, Replaces
<1>6. /\ c2 \in Commands /\ c2.step = "mark" /\ c2.state = c.state /\ c2.fresh = c.fresh
      /\ c2.exported = c.exported /\ c2.base = c.base + 1 /\ c2.bundle = b
  <2> DEFINE next == c.base + 1
  <2>1. next \in Nat BY <1>1, CommandHas
  <2>2. c2 = [c EXCEPT !.step = "mark", !.base = next] OBVIOUS
  <2> HIDE DEF next
  <2>3. /\ c2 \in Commands /\ c2.step = "mark" /\ c2.state = c.state /\ c2.fresh = c.fresh
        /\ c2.exported = c.exported /\ c2.base = next /\ c2.bundle = b
    BY <1>1, <2>1, <2>2 DEF Commands, Steps
  <2> QED BY <2>3 DEF next
<1>7. SyncTypeOK'
  <2>1. remote' \in Branches BY <1>1, <1>4 DEF Replace, Branches
  <2>2. deleted' \subseteq Deleted
    <3> SUFFICES ASSUME NEW id \in DOMAIN b.tombs PROVE Record(b, id) \in Deleted
      BY DEF Replace, SyncInv, SyncTypeOK, Deleted, Record
    <3>1. b.tombs \in Tombstones BY <1>4, BundleHas
    <3>2. id \in Id /\ b.tombs[id] \in Tombstone BY <3>1, TableHas DEF Tombstones
    <3> QED BY <3>2 DEF Record, Deleted, Tombstone
  <2>3. cmd' \in [Proc -> Commands \cup {NoCmd}] BY <1>6 DEF SyncInv, SyncTypeOK
  <2> QED BY <2>1, <2>2, <2>3 DEF SyncInv, SyncTypeOK, Branches, Deleted, counters
<1>8. Shared' \in SharedSet BY <1>7, TypesNext
<1>9. Moves(Shared, Shared', b) BY DEF Moves, Shared, Replace, Record, counters
<1>10. \A k \in Machine : Site(k)' = Site(k) BY DEF Site
<1>11. Published(Shared)' BY <1>1, <1>4, <1>5, <1>8, <1>9, PublishedMoves DEF SyncInv
<1>12. ASSUME NEW k \in Machine PROVE Kept(Shared, Site(k))'
  BY <1>1, <1>4, <1>5, <1>8, <1>9, <1>10, KeptMoves DEF SyncInv
<1>13. Working(c2, Shared', Site(m))
  <2>1. Synced(c.state, Shared', Site(m).seen) /\ ~Current(c.state.marks, Shared'.branch.bundle)
    BY <1>1, <1>2, <1>4, <1>5, <1>8, <1>9, CommandHas, SyncedMoves DEF Working, Read
  <2>2. /\ Shared'.branch.head = remote.head + 1 /\ Shared'.branch.bundle = b
        /\ Shared'.issued = issued /\ Shared'.removed = removed
    BY <1>9 DEF Moves, Shared
  <2>3. Read(c2, Shared', Site(m)) BY <1>2, <1>6, <2>1 DEF Working, Read
  <2>4. Taking(c2, Shared')
    <3>1. Good(b, issued) /\ b # NoBundle BY <1>1, <1>3 DEF Sending, Shared
    <3>2. Recorded(b, Shared'.deleted) BY <1>9 DEF Recorded, Moves
    <3>3. \A k \in Pool : c.state.marks[k] # NoMark => c.state.marks[k].gen <= b.gen
      BY <2>1, <2>2 DEF Synced, Marked
    <3> HIDE DEF c2
    <3> QED BY <1>6, <2>2, <3>1, <3>2, <3>3 DEF Taking
  <2>5. Marking(c2, Shared', Site(m))
    <3>1. DOMAIN b.accounts \subseteq DOMAIN c.state.accounts
          /\ (c.fresh => Clean(c.state.accounts, b, issued, Site(m).broken))
      BY <1>1, <1>3 DEF Sending, Shared
    <3> HIDE DEF c2
    <3> QED BY <1>6, <2>2, <3>1 DEF Marking
  <2> HIDE DEF c2
  <2> QED BY <1>6, <2>3, <2>4, <2>5 DEF Working, Pushing, Sending, Merging
<1>14. ASSUME NEW q \in Proc, cmd'[q] # NoCmd PROVE Working(cmd'[q], Shared', Site(Host[q]))
  <2>1. CASE q = p
    <3>1. cmd'[p] = c2 BY <1>14, <2>1 DEF SyncInv, SyncTypeOK
    <3> HIDE DEF c2
    <3> QED BY <1>13, <2>1, <3>1
  <2>2. CASE q # p
    <3>1. cmd'[q] = cmd[q] BY <2>2 DEF SyncInv, SyncTypeOK
    <3>2. cmd[q] \in Commands /\ Host[q] \in Machine /\ Working(cmd[q], Shared, Site(Host[q]))
      BY <1>14, <3>1, Types DEF SyncInv
    <3> QED BY <1>1, <1>4, <1>5, <1>8, <1>9, <3>1, <3>2, WorkingMoves
  <2> QED BY <2>1, <2>2
<1>15. \A q \in Proc : Host[q] \in Machine BY Constants
<1> QED BY <1>7, <1>10, <1>11, <1>12, <1>14, <1>15 DEF SyncInv

LEMMA SendKeeps ==
    ASSUME SyncInv, NEW p \in Proc, Send(p) \/ AnswerLost(p)
    PROVE  SyncInv'
<1>1. ASSUME remote.head = cmd[p].base, Replace(cmd[p].bundle) PROVE SyncInv'
  <2>1. \/ cmd' = [cmd EXCEPT ![p] = NoCmd]
        \/ cmd' = [cmd EXCEPT ![p] = [cmd[p] EXCEPT !.step = "mark", !.base = @ + 1]]
    BY <1>1 DEF Send, AnswerLost, End, SyncInv, SyncTypeOK
  <2> QED BY <1>1, <2>1, PushedKeeps DEF Send, AnswerLost
<1>2. CASE End(p) /\ UNCHANGED <<remote, deleted>>
  BY <1>2, EndKeeps DEF Send, AnswerLost, history
<1> QED BY <1>1, <1>2 DEF Send, AnswerLost

---------------------------------------------------------------------------
(* Steps that change State of machine m, and tell all commands of m but    *)
(* the one that takes the step.                                            *)

LEMMA SupersededIs ==
    ASSUME SyncTypeOK, NEW m, NEW except, NEW q \in Proc
    PROVE  LET c2 == Superseded(m, except)[q] IN
           /\ c2 \in Commands \cup {NoCmd}
           /\ c2 # NoCmd => cmd[q] # NoCmd /\ Outdates(cmd[q], c2)
           /\ c2 # NoCmd /\ Host[q] = m /\ q # except => ~c2.fresh
<1> DEFINE c == cmd[q]
           c2 == Superseded(m, except)[q]
<1>1. c \in Commands \cup {NoCmd} BY DEF SyncTypeOK
<1>2. CASE c # NoCmd /\ Host[q] = m /\ q # except
  <2>1. c2 = [c EXCEPT !.fresh = FALSE] BY <1>2 DEF Superseded
  <2>2. c2 \in Commands /\ Outdates(c, c2) /\ ~c2.fresh
    BY <1>1, <1>2, <2>1 DEF Commands, Outdates
  <2> QED BY <1>2, <2>2
<1>3. CASE ~(c # NoCmd /\ Host[q] = m /\ q # except)
  <2>1. c2 = c BY <1>3 DEF Superseded
  <2> QED BY <1>1, <1>3, <2>1 DEF Outdates
<1> QED BY <1>2, <1>3

LEMMA StateChanges ==
    ASSUME SyncInv, SyncTypeOK', NEW m \in Machine, NEW except,
           Grew(Shared, Shared'), remote' = remote,
           \A k \in Machine \ {m} : Site(k)' = Site(k),
           merged[m] \subseteq merged'[m],
           Current(local[m].marks, remote.bundle) => Current(local'[m].marks, remote.bundle),
           Kept(Shared, Site(m))',
           \A q \in Proc \ {except} : cmd'[q] = Superseded(m, except)[q],
           except \in Proc /\ cmd'[except] # NoCmd =>
             Working(cmd'[except], Shared', Site(Host[except])')
    PROVE  SyncInv'
<1>1. Shared \in SharedSet /\ Shared' \in SharedSet BY Types, TypesNext DEF SyncInv
<1>2. Published(Shared) BY DEF SyncInv
<1>3. Published(Shared)' BY <1>1, <1>2, PublishedGrows
<1>4. ASSUME NEW k \in Machine PROVE Kept(Shared, Site(k))'
  <2>1. CASE k = m BY <2>1
  <2>2. CASE k # m
    <3>1. Kept(Shared, Site(k)) /\ Site(k)' = Site(k) BY <2>2 DEF SyncInv
    <3> QED BY <1>1, <1>2, <3>1, KeptGrows
  <2> QED BY <2>1, <2>2
<1>5. ASSUME NEW q \in Proc, cmd'[q] # NoCmd PROVE Working(cmd'[q], Shared', Site(Host[q])')
  <2>1. CASE q = except BY <1>5, <2>1
  <2>2. CASE q # except
    <3> DEFINE k == Host[q]
    <3>1. k \in Machine BY Constants
    <3>2. /\ cmd[q] # NoCmd /\ Outdates(cmd[q], cmd'[q]) /\ (k = m => ~cmd'[q].fresh)
      BY <1>5, <2>2, SupersededIs DEF SyncInv
    <3>3. Working(cmd[q], Shared, Site(k)) BY <3>2 DEF SyncInv
    <3>4. Site(k).seen \subseteq Site(k)'.seen BY <3>1 DEF Site
    <3>5. k # m => Site(k)' = Site(k) BY <3>1
    <3>6. Current(Site(k).state.marks, Shared.branch.bundle)
            => Current(Site(k)'.state.marks, Shared.branch.bundle)
      BY <3>5 DEF Site, Shared
    <3>7. cmd'[q].fresh =>
            Site(k)'.state = Site(k).state /\ Site(k).broken \subseteq Site(k)'.broken
      BY <3>2, <3>5
    <3> QED BY <1>1, <1>2, <3>2, <3>3, <3>4, <3>6, <3>7, WorkingGrows
  <2> QED BY <2>1, <2>2
<1> QED BY <1>3, <1>4, <1>5 DEF SyncInv

\* An edit is such a step, of no command.
LEMMA EditKeeps ==
    ASSUME SyncInv, NEW m \in Machine, NEW state \in States, Edit(m, state),
           state.marks = local[m].marks,
           broken' \in [Machine -> SUBSET Id], \A k \in Machine \ {m} : broken'[k] = broken[k],
           issued' \in Issues, Grown(issued, issued'),
           removed' \subseteq Id, removed \subseteq removed',
           Kept(Shared', [state |-> state, broken |-> broken'[m], seen |-> merged[m]])
    PROVE  SyncInv'
<1>1. /\ edits' \in 0..MaxEdits /\ local' = [local EXCEPT ![m] = state]
      /\ cmd' = Superseded(m, NoCmd) /\ UNCHANGED <<remote, clock, deleted, merged>>
  <2>1. edits \in 0..MaxEdits BY DEF SyncInv, SyncTypeOK
  <2> QED BY <2>1, Constants DEF Edit
<1>2. SyncTypeOK'
  <2>1. \A q \in Proc : cmd'[q] \in Commands \cup {NoCmd} BY <1>1, SupersededIs DEF SyncInv
  <2>2. cmd' \in [Proc -> Commands \cup {NoCmd}] BY <1>1, <2>1 DEF Superseded
  <2> QED BY <1>1, <2>2 DEF SyncInv, SyncTypeOK, Issues
<1>3. local'[m] = state BY <1>1 DEF SyncInv, SyncTypeOK
<1>4. Kept(Shared, Site(m))' BY <1>1, <1>3 DEF Site
<1>5. Grew(Shared, Shared')
  <2>1. clock <= clock' BY <1>1 DEF SyncInv, SyncTypeOK
  <2> QED BY <1>1, <2>1 DEF Grew, Shared
<1>6. \A k \in Machine \ {m} : Site(k)' = Site(k)
  BY <1>1 DEF Site, SyncInv, SyncTypeOK
<1>7. NoCmd \notin Proc BY Constants
<1> QED BY <1>1, <1>2, <1>3, <1>4, <1>5, <1>6, <1>7, StateChanges

---------------------------------------------------------------------------
(* The edits.                                                              *)

\* What an edit of machine m starts from.
LEMMA SiteHas ==
    ASSUME SyncInv, NEW m \in Machine
    PROVE  /\ local[m] \in States /\ local[m].accounts \in Accounts
           /\ local[m].marks \in MarksSet /\ local[m].current \in Id \cup {NoId}
           /\ broken[m] \in SUBSET Id /\ issued \in Issues
           /\ Marked(local[m].marks, remote, merged[m])
           /\ Held(local[m], remote.bundle, removed)
           /\ Copies(local[m].accounts, issued)
           /\ Current(local[m].marks, remote.bundle) =>
                /\ Good(remote.bundle, issued)
                /\ Clean(local[m].accounts, remote.bundle, issued, broken[m])
<1>1. local[m] \in States /\ broken[m] \in SUBSET Id /\ issued \in Issues
  BY DEF SyncInv, SyncTypeOK, Issues
<1>2. Kept(Shared, Site(m)) BY DEF SyncInv
<1>3. Current(local[m].marks, remote.bundle) => Good(remote.bundle, issued)
  BY DEF SyncInv, Published, Shared, Current
<1> QED BY <1>1, <1>2, <1>3 DEF Kept, Synced, Shared, Site, States, MarksSet

LEMMA AddKeeps ==
    ASSUME SyncInv, NEW m \in Machine, NEW id \in Id, NEW cr \in Cred, NEW ahead \in 0..Skew,
           Add(m, id, cr, ahead)
    PROVE  SyncInv'
<1> DEFINE b == remote.bundle
           entry == [cred |-> cr, added |-> clock + ahead]
           issue == [added |-> clock + ahead, creds |-> {cr}]
           mine == Over(local[m].accounts, Only(id, entry))
           state == [local[m] EXCEPT !.accounts = mine]
           iss2 == Over(issued, Only(id, issue))
           h2 == [state |-> state, broken |-> broken'[m], seen |-> merged[m]]
<1>1. id \notin DOMAIN issued /\ Edit(m, state) /\ issued' = iss2 /\ broken' = broken /\ removed' = removed
  BY DEF Add
<1>2. entry \in Account /\ issue \in Issue
  <2>1. clock \in 1..MaxClock BY DEF SyncInv, SyncTypeOK
  <2>2. clock + ahead \in Times BY <2>1, Constants DEF Times
  <2> QED BY <2>2 DEF Account, Issue
<1> HIDE DEF entry, issue
<1>3. mine \in Accounts /\ iss2 \in Issues
  BY <1>2, SiteHas, OnlyTable, OverTable DEF Accounts, Issues
<1>4. /\ DOMAIN mine = DOMAIN local[m].accounts \cup {id}
      /\ \A i \in DOMAIN local[m].accounts : mine[i] = local[m].accounts[i]
      /\ id \notin DOMAIN local[m].accounts /\ mine[id] = entry
  <2>1. id \notin DOMAIN local[m].accounts BY <1>1, SiteHas DEF Copies
  <2> QED BY <2>1 DEF Over, Only
<1>5. /\ DOMAIN iss2 = DOMAIN issued \cup {id} /\ iss2[id] = issue
      /\ \A i \in DOMAIN issued : iss2[i] = issued[i]
  BY <1>1 DEF Over, Only
<1> HIDE DEF mine, iss2
<1>6. state \in States /\ state.accounts = mine /\ state.marks = local[m].marks
  BY <1>3, SiteHas DEF States
<1> HIDE DEF state
<1>7. Grown(issued, iss2) BY <1>5 DEF Grown
<1>8. Kept(Shared', h2)
  <2>1. remote' = remote /\ issued' = iss2 /\ removed' = removed BY <1>1 DEF Edit
  <2>2. Copies(mine, iss2)
    <3>1. \A i \in DOMAIN local[m].accounts : i \in DOMAIN issued
            /\ mine[i].added = issued[i].added /\ mine[i].cred \in issued[i].creds
      BY <1>4, SiteHas DEF Copies
    <3>2. mine[id].added = iss2[id].added /\ mine[id].cred \in iss2[id].creds
      BY <1>4, <1>5 DEF entry, issue
    <3> QED BY <3>1, <3>2, <1>4, <1>5 DEF Copies
  <2>3. Held(state, b, removed) BY <1>4, <1>6, SiteHas DEF Held
  <2>4. ASSUME Current(state.marks, b) PROVE Clean(mine, b, iss2, broken[m])
    <3>1. Stones(b.tombs, issued) /\ Clean(local[m].accounts, b, issued, broken[m])
      BY <1>6, <2>4, SiteHas DEF Good
    <3>2. ~Dead(b, id, iss2) BY <1>1, <3>1 DEF Dead, Stones
    <3>3. Clean(local[m].accounts, b, iss2, broken[m]) BY <1>7, <3>1, CleanGrows
    <3> QED BY <1>4, <3>2, <3>3 DEF Clean
  <2> QED BY <1>1, <1>6, <2>1, <2>2, <2>3, <2>4, SiteHas DEF Kept, Synced, Shared
<1>9. broken' \in [Machine -> SUBSET Id] /\ removed' \subseteq Id
  BY <1>1 DEF SyncInv, SyncTypeOK
<1> QED BY <1>1, <1>3, <1>6, <1>7, <1>8, <1>9, EditKeeps

LEMMA ImportAgainKeeps ==
    ASSUME SyncInv, NEW m \in Machine, NEW id \in Id, NEW cr \in Cred, ImportAgain(m, id, cr)
    PROVE  SyncInv'
<1> DEFINE b == remote.bundle
           mine == [local[m].accounts EXCEPT ![id].cred = cr]
           state == [local[m] EXCEPT !.accounts[id].cred = cr]
           iss2 == [issued EXCEPT ![id].creds = @ \cup {cr}]
           h2 == [state |-> state, broken |-> broken'[m], seen |-> merged[m]]
<1>1. /\ id \in DOMAIN local[m].accounts /\ cr \notin Creds(local[m].accounts)
      /\ Edit(m, state) /\ issued' = iss2 /\ removed' = removed
      /\ broken' = [broken EXCEPT ![m] = @ \ {id}]
  BY DEF ImportAgain
<1>2. id \in DOMAIN issued BY <1>1, SiteHas DEF Copies
<1>3. local[m].accounts[id] \in Account /\ issued[id] \in Issue
  BY <1>1, <1>2, SiteHas, TableHas DEF Accounts, Issues
<1>4. /\ mine \in Accounts /\ DOMAIN mine = DOMAIN local[m].accounts
      /\ mine[id].cred = cr /\ mine[id].added = local[m].accounts[id].added
      /\ \A i \in DOMAIN mine \ {id} : mine[i] = local[m].accounts[i]
  <2>1. local[m].accounts \in [DOMAIN local[m].accounts -> Account] /\ DOMAIN local[m].accounts \in SUBSET Id
    BY SiteHas, TableHas DEF Accounts
  <2>2. mine \in [DOMAIN local[m].accounts -> Account] BY <1>1, <1>3, <2>1 DEF Account
  <2>3. mine \in Accounts BY <2>1, <2>2, TableIs DEF Accounts
  <2>4. mine[id] = [local[m].accounts[id] EXCEPT !.cred = cr] BY <1>1, <2>1
  <2> QED BY <1>1, <1>3, <2>1, <2>3, <2>4 DEF Account
<1>5. /\ iss2 \in Issues /\ DOMAIN iss2 = DOMAIN issued
      /\ iss2[id].creds = issued[id].creds \cup {cr} /\ iss2[id].added = issued[id].added
      /\ \A i \in DOMAIN issued \ {id} : iss2[i] = issued[i]
  <2>1. issued \in [DOMAIN issued -> Issue] /\ DOMAIN issued \in SUBSET Id
    BY SiteHas, TableHas DEF Issues
  <2>2. iss2[id] = [issued[id] EXCEPT !.creds = @ \cup {cr}] BY <1>2, <2>1
  <2>3. iss2[id] \in Issue /\ iss2[id].creds = issued[id].creds \cup {cr} /\ iss2[id].added = issued[id].added
    BY <1>3, <2>2 DEF Issue
  <2>4. DOMAIN iss2 = DOMAIN issued /\ \A i \in DOMAIN issued \ {id} : iss2[i] = issued[i]
    BY <2>1
  <2>5. iss2 \in [DOMAIN issued -> Issue] BY <2>1, <2>3, <2>4
  <2>6. iss2 \in Issues BY <2>1, <2>5, TableIs DEF Issues
  <2> QED BY <2>3, <2>4, <2>6
<1>6. state \in States /\ state.accounts = mine /\ state.marks = local[m].marks
  <2>1. state = [local[m] EXCEPT !.accounts = mine] BY SiteHas DEF States
  <2> HIDE DEF mine
  <2> QED BY <1>4, <2>1, SiteHas DEF States
<1> HIDE DEF mine, state, iss2
<1>7. Grown(issued, iss2) BY <1>5 DEF Grown
<1>8. broken' \in [Machine -> SUBSET Id] /\ broken'[m] = broken[m] \ {id} /\ removed' \subseteq Id
      /\ \A k \in Machine \ {m} : broken'[k] = broken[k]
  BY <1>1 DEF SyncInv, SyncTypeOK
<1>9. Kept(Shared', h2)
  <2>1. remote' = remote /\ issued' = iss2 /\ removed' = removed BY <1>1 DEF Edit
  <2>2. Copies(mine, iss2)
    <3>1. Copies(local[m].accounts, issued) BY SiteHas
    <3>2. \A i \in DOMAIN mine \ {id} : i \in DOMAIN iss2
            /\ mine[i].added = iss2[i].added /\ mine[i].cred \in iss2[i].creds
      BY <1>4, <1>5, <3>1 DEF Copies
    <3>3. id \in DOMAIN iss2 /\ mine[id].added = iss2[id].added /\ mine[id].cred \in iss2[id].creds
      BY <1>1, <1>2, <1>4, <1>5, <3>1 DEF Copies
    <3> QED BY <3>2, <3>3 DEF Copies
  <2>3. Held(state, b, removed) BY <1>4, <1>6, SiteHas DEF Held
  <2>4. ASSUME Current(state.marks, b) PROVE Clean(mine, b, iss2, broken'[m])
    <3>1. Stones(b.tombs, issued) /\ Clean(local[m].accounts, b, issued, broken[m])
      BY <1>6, <2>4, SiteHas DEF Good
    <3>2. ~Dead(b, id, iss2)
      <4> SUFFICES ASSUME id \in DOMAIN b.tombs, iss2[id].creds = {b.tombs[id].cred} PROVE FALSE
        BY DEF Dead
      <4>1. local[m].accounts[id].cred \in issued[id].creds BY <1>1, SiteHas DEF Copies
      <4>2. local[m].accounts[id].cred = cr BY <1>5, <4>1
      <4> QED BY <1>1, <4>2 DEF Creds
    <3>3. Clean(local[m].accounts, b, iss2, broken[m]) BY <1>7, <3>1, CleanGrows
    <3> QED BY <1>4, <1>8, <3>2, <3>3 DEF Clean
  <2> QED BY <1>6, <2>1, <2>2, <2>3, <2>4, SiteHas DEF Kept, Synced, Shared
<1> QED BY <1>1, <1>5, <1>6, <1>7, <1>8, <1>9, EditKeeps

LEMMA DropIs ==
    ASSUME NEW state \in States, NEW ids
    PROVE  LET left == Drop(state, ids) IN
           /\ left \in States /\ left.marks = state.marks
           /\ DOMAIN left.accounts = DOMAIN state.accounts \ ids
           /\ \A id \in DOMAIN left.accounts : left.accounts[id] = state.accounts[id]
           /\ left.current = IF state.current \in ids THEN NoId ELSE state.current
<1> DEFINE rest == Restrict(state.accounts, DOMAIN state.accounts \ ids)
           current == IF state.current \in ids THEN NoId ELSE state.current
<1>1. state.accounts \in Accounts /\ state.current \in Id \cup {NoId} BY DEF States
<1>2. /\ rest \in Accounts /\ DOMAIN rest = DOMAIN state.accounts \ ids
      /\ \A id \in DOMAIN rest : rest[id] = state.accounts[id]
  BY <1>1, RestrictTable DEF Accounts
<1>3. Drop(state, ids) = [state EXCEPT !.accounts = rest, !.current = current] BY DEF Drop
<1>4. current \in Id \cup {NoId} BY <1>1
<1> HIDE DEF rest, current
<1>5. /\ Drop(state, ids) \in States /\ Drop(state, ids).accounts = rest
      /\ Drop(state, ids).marks = state.marks /\ Drop(state, ids).current = current
  BY <1>2, <1>3, <1>4 DEF States
<1> QED BY <1>2, <1>5 DEF current

LEMMA RemoveKeeps ==
    ASSUME SyncInv, NEW m \in Machine, NEW id \in Id, Remove(m, id)
    PROVE  SyncInv'
<1> DEFINE b == remote.bundle
           state == Drop(local[m], {id})
           h2 == [state |-> state, broken |-> broken'[m], seen |-> merged[m]]
<1>1. Edit(m, state) /\ issued' = issued /\ broken' = broken /\ removed' = removed \cup {id}
  BY DEF Remove
<1>2. /\ state \in States /\ state.marks = local[m].marks
      /\ DOMAIN state.accounts = DOMAIN local[m].accounts \ {id}
      /\ \A i \in DOMAIN state.accounts : state.accounts[i] = local[m].accounts[i]
  BY SiteHas, DropIs
<1> HIDE DEF state
<1>3. Kept(Shared', h2)
  <2>1. remote' = remote /\ issued' = issued /\ removed' = removed \cup {id} BY <1>1 DEF Edit
  <2>2. Copies(state.accounts, issued) BY <1>2, SiteHas DEF Copies
  <2>3. Held(state, b, removed \cup {id}) BY <1>2, SiteHas DEF Held
  <2>4. ASSUME Current(state.marks, b) PROVE Clean(state.accounts, b, issued, broken[m])
    BY <1>2, <2>4, SiteHas DEF Clean
  <2> QED BY <1>1, <1>2, <2>1, <2>2, <2>3, <2>4, SiteHas DEF Kept, Synced, Shared
<1>4. broken' \in [Machine -> SUBSET Id] /\ removed' \subseteq Id /\ issued' \in Issues
  BY <1>1 DEF SyncInv, SyncTypeOK, Issues
<1>5. Grown(issued, issued') BY <1>1 DEF Grown
<1> QED BY <1>1, <1>2, <1>3, <1>4, <1>5, EditKeeps

LEMMA UseKeeps ==
    ASSUME SyncInv, NEW m \in Machine, NEW id \in Id, Use(m, id)
    PROVE  SyncInv'
<1> DEFINE state == [local[m] EXCEPT !.current = id]
           h2 == [state |-> state, broken |-> broken'[m], seen |-> merged[m]]
<1>1. Edit(m, state) /\ issued' = issued /\ broken' = broken /\ removed' = removed
  BY DEF Use
<1>2. state \in States /\ state.marks = local[m].marks /\ state.accounts = local[m].accounts
  BY SiteHas DEF States
<1> HIDE DEF state
<1>3. Kept(Shared', h2)
  <2>1. remote' = remote /\ issued' = issued /\ removed' = removed BY <1>1 DEF Edit
  <2> QED BY <1>1, <1>2, <2>1, SiteHas DEF Kept, Synced, Shared, Held
<1>4. broken' \in [Machine -> SUBSET Id] /\ removed' \subseteq Id /\ issued' \in Issues
  BY <1>1 DEF SyncInv, SyncTypeOK, Issues
<1>5. Grown(issued, issued') BY <1>1 DEF Grown
<1> QED BY <1>1, <1>2, <1>3, <1>4, <1>5, EditKeeps

\* Files are lost and time passes: no command is told.
LEMMA AroundKeeps ==
    ASSUME SyncInv, SyncTypeOK', UNCHANGED <<remote, local, cmd, history>>, clock <= clock',
           \A m \in Machine : broken[m] \subseteq broken'[m]
    PROVE  SyncInv'
<1>1. Shared \in SharedSet /\ Shared' \in SharedSet /\ Published(Shared)
  BY Types, TypesNext DEF SyncInv
<1>2. Grew(Shared, Shared') BY DEF Grew, Shared, Grown, history
<1>3. \A m \in Machine : /\ Site(m)'.state = Site(m).state /\ Site(m)'.seen = Site(m).seen
                         /\ Site(m).broken \subseteq Site(m)'.broken
  BY DEF Site, history
<1>4. Published(Shared)' BY <1>1, <1>2, PublishedGrows
<1>5. ASSUME NEW m \in Machine PROVE Kept(Shared, Site(m))'
  <2>1. Kept(Shared, Site(m)) BY DEF SyncInv
  <2> QED BY <1>1, <1>2, <1>3, <2>1, KeptGrows
<1>6. ASSUME NEW p \in Proc, cmd'[p] # NoCmd PROVE Working(cmd'[p], Shared', Site(Host[p])')
  <2>1. Host[p] \in Machine /\ Working(cmd[p], Shared, Site(Host[p])) /\ cmd'[p] = cmd[p]
    BY <1>6, Constants DEF SyncInv
  <2>2. Outdates(cmd[p], cmd'[p]) BY <2>1 DEF Outdates
  <2> QED BY <1>1, <1>2, <1>3, <2>1, <2>2, WorkingGrows
<1> QED BY <1>4, <1>5, <1>6 DEF SyncInv

LEMMA BreakKeeps ==
    ASSUME SyncInv, NEW m \in Machine, NEW id \in Id, Break(m, id)
    PROVE  SyncInv'
<1>1. SyncTypeOK'
  <2>1. edits \in 0..MaxEdits BY DEF SyncInv, SyncTypeOK
  <2>2. edits' \in 0..MaxEdits BY <2>1, Constants DEF Break
  <2>3. broken' \in [Machine -> SUBSET Id] BY DEF Break, SyncInv, SyncTypeOK
  <2> QED BY <2>2, <2>3 DEF Break, SyncInv, SyncTypeOK, history
<1>2. \A k \in Machine : broken[k] \subseteq broken'[k] BY DEF Break, SyncInv, SyncTypeOK
<1>3. clock <= clock' BY DEF Break, SyncInv, SyncTypeOK
<1> QED BY <1>1, <1>2, <1>3, AroundKeeps DEF Break

LEMMA TickKeeps ==
    ASSUME SyncInv, Tick
    PROVE  SyncInv'
<1>1. clock \in 1..MaxClock BY DEF SyncInv, SyncTypeOK
<1>2. clock' \in 1..MaxClock /\ clock <= clock' BY <1>1, Constants DEF Tick
<1>3. SyncTypeOK' BY <1>2 DEF Tick, SyncInv, SyncTypeOK, history
<1> QED BY <1>2, <1>3, AroundKeeps DEF Tick

---------------------------------------------------------------------------
(* The commits of pushes and pulls.                                        *)

LEMMA CommitKeeps ==
    ASSUME SyncInv, NEW p \in Proc, NEW state \in States, NEW next \in Commands \cup {NoCmd},
           Commit(p, state, next), UNCHANGED <<remote, counters, issued, removed, deleted>>,
           NEW bad \in SUBSET Id, broken' = [broken EXCEPT ![Host[p]] = bad],
           NEW seen \in SUBSET Nat, merged' = [merged EXCEPT ![Host[p]] = seen],
           merged[Host[p]] \subseteq seen,
           Current(local[Host[p]].marks, remote.bundle) => Current(state.marks, remote.bundle),
           Kept(Shared, [state |-> state, broken |-> bad, seen |-> seen]),
           next # NoCmd => Working(next, Shared, [state |-> state, broken |-> bad, seen |-> seen])
    PROVE  SyncInv'
<1> DEFINE m == Host[p]
           h2 == [state |-> state, broken |-> bad, seen |-> seen]
<1>1. m \in Machine BY Constants
<1>2. /\ local' = [local EXCEPT ![m] = state]
      /\ cmd' = [Superseded(m, p) EXCEPT ![p] = next]
  BY DEF Commit
<1>3. \A q \in Proc : Superseded(m, p)[q] \in Commands \cup {NoCmd} BY SupersededIs DEF SyncInv
<1>4. /\ cmd' \in [Proc -> Commands \cup {NoCmd}] /\ cmd'[p] = next
      /\ \A q \in Proc \ {p} : cmd'[q] = Superseded(m, p)[q]
  BY <1>2, <1>3 DEF Superseded
<1>5. SyncTypeOK' BY <1>1, <1>2, <1>4 DEF SyncInv, SyncTypeOK, counters
<1>6. Shared' = Shared BY DEF Shared, counters
<1>7. Grew(Shared, Shared')
  <2>1. clock <= clock BY DEF SyncInv, SyncTypeOK
  <2> QED BY <1>6, <2>1 DEF Grew, Grown, Shared
<1>8. Site(m)' = h2 BY <1>1, <1>2 DEF Site, SyncInv, SyncTypeOK
<1>9. \A k \in Machine \ {m} : Site(k)' = Site(k)
  BY <1>1, <1>2 DEF Site, SyncInv, SyncTypeOK
<1>10. local'[m] = state /\ merged'[m] = seen BY <1>1, <1>2 DEF SyncInv, SyncTypeOK
<1>11. Kept(Shared, Site(m))' BY <1>6, <1>8
<1>12. p \in Proc /\ cmd'[p] # NoCmd => Working(cmd'[p], Shared', Site(Host[p])')
  BY <1>4, <1>6, <1>8
<1> HIDE DEF m
<1> QED BY <1>1, <1>4, <1>5, <1>7, <1>9, <1>10, <1>11, <1>12, StateChanges DEF m

\* What a command at the end of its work brings.
LEMMA TakingHas ==
    ASSUME SyncInv, NEW p \in Proc, cmd[p] # NoCmd, cmd[p].step \in {"mark", "release", "merge"}
    PROVE  LET c == cmd[p]  b == c.bundle IN
           /\ c \in Commands /\ Host[p] \in Machine /\ Shared \in SharedSet
           /\ remote \in Branches /\ remote.bundle \in Bundles /\ b \in Bundles
           /\ Working(c, Shared, Site(Host[p]))
           /\ \/ c.base = remote.head /\ b = remote.bundle
              \/ c.base < remote.head /\ b.gen < remote.bundle.gen
           /\ Good(b, issued) /\ Recorded(b, deleted)
           /\ Marked(c.state.marks, remote, merged[Host[p]])
           /\ Copies(c.state.accounts, issued)
           /\ \A k \in Pool : c.state.marks[k] # NoMark => c.state.marks[k].gen <= b.gen
           /\ c.fresh => c.state = local[Host[p]]
<1> DEFINE c == cmd[p]
<1>1. c \in Commands /\ Host[p] \in Machine /\ remote \in Branches /\ Shared \in SharedSet
  BY Types DEF SyncInv, SyncTypeOK, Branches
<1>2. Working(c, Shared, Site(Host[p])) BY DEF SyncInv
<1>3. Taking(c, Shared) /\ Read(c, Shared, Site(Host[p])) BY <1>2 DEF Working
<1> QED BY <1>1, <1>2, <1>3, CommandHas DEF Taking, Read, Synced, Shared, Site, Branches

\* The marks after a bundle of the branch, now or before, was taken.
LEMMA MarksAfter ==
    ASSUME NEW marks \in MarksSet, NEW r \in Branches, r.bundle \in Bundles, NEW seen,
           Marked(marks, r, seen), NEW b \in Bundles, NEW base,
           \/ base = r.head /\ b = r.bundle
           \/ base < r.head /\ b.gen < r.bundle.gen,
           \A k \in Pool : marks[k] # NoMark => marks[k].gen <= b.gen,
           NEW pool \in Pool
    PROVE  LET new == Rekey(marks, pool, Mark(b)) IN
           /\ new \in MarksSet /\ Marked(new, r, seen \cup {base})
           /\ Current(new, r.bundle) => b = r.bundle
           /\ Current(marks, r.bundle) => Current(new, r.bundle)
<1> DEFINE new == Rekey(marks, pool, Mark(b))
<1>1. /\ new \in MarksSet /\ \A k \in Pool : new[k] \in {Mark(b), NoMark, marks[k]}
      /\ MarkFor(new, r.bundle) = Mark(b)
  BY Rekeyed
<1> HIDE DEF new
<1>2. b.gen \in Nat /\ r.bundle.gen \in Nat /\ r.bundle # NoBundle BY BundleHas
<1>3. Marked(new, r, seen \cup {base})
  <2> SUFFICES ASSUME NEW k \in Pool, new[k] # NoMark
               PROVE  /\ new[k].gen <= r.bundle.gen
                      /\ new[k].gen = r.bundle.gen => new[k] = Mark(r.bundle) /\ r.head \in seen \cup {base}
    BY <1>2 DEF Marked
  <2>1. CASE new[k] = Mark(b) BY <1>2, <2>1, MarkOf
  <2>2. CASE new[k] = marks[k] BY <2>2 DEF Marked
  <2> QED BY <1>1, <2>1, <2>2
<1>4. Current(new, r.bundle) => b = r.bundle BY <1>1, <1>2, MarkOf DEF Current
<1>5. Current(marks, r.bundle) => Current(new, r.bundle)
  <2>1. CASE b = r.bundle BY <1>1, <1>2, <2>1, MarkOf DEF Current
  <2>2. CASE b.gen < r.bundle.gen
    <3>1. ASSUME NEW k \in Pool, marks[k] # NoMark PROVE marks[k].gen < r.bundle.gen
      <4>1. marks[k].gen \in Nat BY <3>1, Constants DEF MarksSet, Watermarks
      <4> QED BY <1>2, <2>2, <3>1, <4>1
    <3> QED BY <3>1, OlderNotCurrent
  <2> QED BY <2>1, <2>2
<1> QED BY <1>1, <1>3, <1>4, <1>5 DEF new

\* While a pull has a bundle to take, its machine has not seen the branch.
LEMMA StillOlder ==
    ASSUME NEW marks \in MarksSet, NEW r \in Branches, r.bundle \in Bundles,
           NEW b \in Bundles, b = r.bundle \/ b.gen < r.bundle.gen,
           \A k \in Pool : marks[k] # NoMark => marks[k].gen <= b.gen, Newer(marks, b)
    PROVE  ~Current(marks, r.bundle)
<1>1. CASE b = r.bundle BY <1>1, NewerNotCurrent
<1>2. CASE b.gen < r.bundle.gen
  <2>1. ASSUME NEW k \in Pool, marks[k] # NoMark PROVE marks[k].gen < r.bundle.gen
    <3>1. marks[k].gen \in Nat BY <2>1, Constants DEF MarksSet, Watermarks
    <3> QED BY <1>2, <2>1, <3>1, BundleHas
  <2> QED BY <2>1, OlderNotCurrent
<1> QED BY <1>1, <1>2

LEMMA ConflictKeeps ==
    ASSUME SyncInv, NEW p \in Proc, Conflict(p), UNCHANGED <<remote, counters, issued, removed, deleted>>
    PROVE  SyncInv'
BY EndKeeps DEF Conflict, history

LEMMA RememberKeeps ==
    ASSUME SyncInv, NEW p \in Proc, Remember(p)
    PROVE  SyncInv'
<1> DEFINE c == cmd[p]
           m == Host[p]
           b == c.bundle
           marks == Rekey(c.state.marks, c.pool, Mark(b))
           state == [c.state EXCEPT !.marks = marks]
           seen == merged[m] \cup {c.base}
           h2 == [state |-> state, broken |-> broken[m], seen |-> seen]
<1>1. c # NoCmd /\ c.step = "mark" /\ UNCHANGED <<remote, counters, issued, removed, deleted>>
  BY DEF Remember, At
<1>2. CASE Conflict(p) BY <1>1, <1>2, ConflictKeeps
<1>3. CASE Commit(p, [c.state EXCEPT !.marks = Rekey(@, c.pool, Mark(b))], NoCmd)
           /\ merged' = [merged EXCEPT ![m] = @ \cup {c.base}] /\ UNCHANGED broken
  <2>1. /\ c \in Commands /\ m \in Machine /\ remote \in Branches /\ remote.bundle \in Bundles /\ b \in Bundles
        /\ Working(c, Shared, Site(m)) /\ c.state = local[m]
        /\ \/ c.base = remote.head /\ b = remote.bundle
           \/ c.base < remote.head /\ b.gen < remote.bundle.gen
        /\ Marked(c.state.marks, remote, merged[m]) /\ Copies(c.state.accounts, issued)
        /\ \A k \in Pool : c.state.marks[k] # NoMark => c.state.marks[k].gen <= b.gen
    BY <1>1, <1>3, TakingHas DEF Commit
  <2>2. /\ marks \in MarksSet /\ Marked(marks, remote, seen)
        /\ Current(marks, remote.bundle) => b = remote.bundle
        /\ Current(c.state.marks, remote.bundle) => Current(marks, remote.bundle)
    BY <2>1, CommandHas, MarksAfter
  <2>3. /\ DOMAIN b.accounts \subseteq DOMAIN c.state.accounts \cup removed
        /\ Clean(c.state.accounts, b, issued, broken[m])
    BY <1>1, <1>3, <2>1 DEF Working, Marking, Shared, Site, Commit
  <2>4. Commit(p, state, NoCmd) BY <1>3, <2>1 DEF Commands, States
  <2> HIDE DEF marks
  <2>5. state \in States /\ state.marks = marks /\ state.accounts = c.state.accounts
    BY <2>1, <2>2, CommandHas DEF States, MarksSet
  <2>6. seen \in SUBSET Nat /\ broken[m] \in SUBSET Id
    BY <2>1, CommandHas DEF SyncInv, SyncTypeOK
  <2> HIDE DEF state
  <2>7. Kept(Shared, h2)
    BY <2>1, <2>2, <2>3, <2>5 DEF Kept, Synced, Held, Shared
  <2>8. broken' = [broken EXCEPT ![m] = broken[m]] /\ merged' = [merged EXCEPT ![m] = seen]
    BY <1>3 DEF SyncInv, SyncTypeOK
  <2>9. merged[m] \subseteq seen OBVIOUS
  <2>10. Current(local[m].marks, remote.bundle) => Current(state.marks, remote.bundle)
    BY <2>1, <2>2, <2>5
  <2> HIDE DEF seen
  <2> QED BY <1>1, <2>4, <2>5, <2>6, <2>7, <2>8, <2>9, <2>10, CommitKeeps
<1> QED BY <1>2, <1>3 DEF Remember

LEMMA ReleaseKeeps ==
    ASSUME SyncInv, NEW p \in Proc, Release(p)
    PROVE  SyncInv'
<1> DEFINE c == cmd[p]
           m == Host[p]
           b == c.bundle
           id == c.state.current
           left == Drop(c.state, {id})
           next == [c EXCEPT !.step = "merge", !.state = left]
           bad == broken[m] \ {id}
           seen == merged[m]
           h2 == [state |-> left, broken |-> bad, seen |-> seen]
<1>1. c # NoCmd /\ c.step = "release" /\ UNCHANGED <<remote, counters, issued, removed, deleted>>
  BY DEF Release, At
<1>2. CASE Conflict(p) BY <1>1, <1>2, ConflictKeeps
<1>3. CASE Commit(p, left, next) /\ broken' = [broken EXCEPT ![m] = @ \ {id}] /\ UNCHANGED merged
  <2>1. /\ c \in Commands /\ m \in Machine /\ remote \in Branches /\ remote.bundle \in Bundles /\ b \in Bundles
        /\ Working(c, Shared, Site(m)) /\ c.state = local[m]
        /\ b = remote.bundle \/ b.gen < remote.bundle.gen
        /\ Marked(c.state.marks, remote, merged[m]) /\ Copies(c.state.accounts, issued)
        /\ \A k \in Pool : c.state.marks[k] # NoMark => c.state.marks[k].gen <= b.gen
    BY <1>1, <1>3, TakingHas DEF Commit
  <2>2. Newer(c.state.marks, b) BY <1>1, <2>1 DEF Working, Merging
  <2>3. ~Current(c.state.marks, remote.bundle) BY <2>1, <2>2, CommandHas, StillOlder
  <2>4. /\ left \in States /\ left.marks = c.state.marks
        /\ DOMAIN left.accounts \subseteq DOMAIN c.state.accounts
        /\ \A i \in DOMAIN left.accounts : left.accounts[i] = c.state.accounts[i]
        /\ left.current = NoId
    BY <2>1, CommandHas, DropIs
  <2> HIDE DEF left
  <2>5. Copies(left.accounts, issued) BY <2>1, <2>4 DEF Copies
  <2>6. Synced(left, Shared, seen) BY <2>1, <2>3, <2>4, <2>5 DEF Synced, Held, Shared
  <2>7. Kept(Shared, h2) BY <2>3, <2>4, <2>6 DEF Kept, Shared
  <2>8. /\ next \in Commands /\ next.step = "merge" /\ next.state = left /\ next.bundle = b
        /\ next.base = c.base /\ next.exported = c.exported
    BY <2>1, <2>4 DEF Commands, Steps
  <2> HIDE DEF next
  <2>9. Working(next, Shared, h2)
    <3>1. Read(next, Shared, h2) BY <2>3, <2>4, <2>6, <2>8 DEF Read, Shared
    <3>2. Taking(next, Shared) BY <1>1, <2>1, <2>4, <2>8 DEF Working, Taking
    <3>3. Merging(next) BY <2>2, <2>4, <2>8 DEF Merging, Newer, DeletesCurrent
    <3> QED BY <2>8, <3>1, <3>2, <3>3 DEF Working, Pushing, Sending, Marking
  <2>10. bad \in SUBSET Id /\ seen \in SUBSET Nat /\ broken' = [broken EXCEPT ![m] = bad]
         /\ merged' = [merged EXCEPT ![m] = seen]
    BY <1>3, <2>1 DEF SyncInv, SyncTypeOK
  <2>11. Current(local[m].marks, remote.bundle) => Current(left.marks, remote.bundle)
    BY <2>1, <2>4
  <2> HIDE DEF bad, seen
  <2>12. merged[m] \subseteq seen BY DEF seen
  <2> QED BY <1>1, <1>3, <2>4, <2>7, <2>8, <2>9, <2>10, <2>11, <2>12, CommitKeeps
<1> QED BY <1>2, <1>3 DEF Release

\* What a merge makes of State, and what it takes from it.
LEMMA MergedIs ==
    ASSUME NEW c \in Commands, c.bundle \in Bundles, WellFormed(c.bundle)
    PROVE  LET b == c.bundle  after == Merged(c) IN
           /\ after \in States /\ after.current = c.state.current
           /\ after.marks = Rekey(c.state.marks, c.pool, Mark(b))
           /\ DOMAIN b.accounts \subseteq DOMAIN after.accounts
           /\ \A id \in DOMAIN b.accounts : after.accounts[id] = b.accounts[id]
           /\ \A id \in DOMAIN after.accounts \ DOMAIN b.accounts :
                /\ id \in DOMAIN c.state.accounts /\ after.accounts[id] = c.state.accounts[id]
                /\ id = c.state.current \/ ~Applies(c.state, b, id)
           /\ \A id \in DOMAIN c.state.accounts \ DOMAIN after.accounts :
                \/ Applies(c.state, b, id)
                \/ c.state.accounts[id].cred \in Creds(after.accounts)
<1> DEFINE b == c.bundle
           T == {id \in DOMAIN c.state.accounts : id = c.state.current \/ ~Applies(c.state, b, id)}
           rest == Survivors(c.state, b)
           all == Over(b.accounts, rest)
           kept == Restrict(all, DOMAIN all \ Duplicates(all, b))
           marks == Rekey(c.state.marks, c.pool, Mark(b))
           after == Merged(c)
<1>1. c.state.accounts \in Accounts /\ c.state.marks \in MarksSet /\ c.pool \in Pool
      /\ c.state.current \in Id \cup {NoId} /\ b.accounts \in Accounts
  BY CommandHas, BundleHas
<1>2. rest \in Accounts /\ DOMAIN rest = T /\ \A id \in T : rest[id] = c.state.accounts[id]
  BY <1>1, RestrictTable DEF Survivors, Accounts
<1>3. all \in Accounts BY <1>1, <1>2, OverTable DEF Accounts
<1>4. /\ DOMAIN all = DOMAIN b.accounts \cup T
      /\ \A id \in DOMAIN b.accounts : all[id] = b.accounts[id]
      /\ \A id \in T \ DOMAIN b.accounts : all[id] = c.state.accounts[id]
  BY <1>2 DEF Over
<1>5. after = [accounts |-> kept, current |-> c.state.current, marks |-> marks]
  BY DEF Merged
<1> HIDE DEF T, rest, all
<1>6. /\ kept \in Accounts /\ DOMAIN kept = DOMAIN all \ Duplicates(all, b)
      /\ \A id \in DOMAIN kept : kept[id] = all[id]
  BY <1>3, RestrictTable DEF Accounts
<1>7. marks \in MarksSet BY <1>1, Rekeyed
<1> HIDE DEF kept, marks
<1>8. after \in States /\ after.accounts = kept /\ after.marks = marks /\ after.current = c.state.current
  BY <1>1, <1>5, <1>6, <1>7 DEF States, MarksSet
<1>9. \A id \in DOMAIN b.accounts : id \notin Duplicates(all, b)
  BY <1>4 DEF Duplicates, WellFormed, IsInjective
<1>10. \A id \in DOMAIN b.accounts : id \in DOMAIN kept /\ kept[id] = b.accounts[id]
  BY <1>4, <1>6, <1>9
<1>11. ASSUME NEW id \in DOMAIN kept \ DOMAIN b.accounts
       PROVE  /\ id \in DOMAIN c.state.accounts /\ kept[id] = c.state.accounts[id]
              /\ id = c.state.current \/ ~Applies(c.state, b, id)
  BY <1>4, <1>6 DEF T
<1>12. ASSUME NEW id \in DOMAIN c.state.accounts \ DOMAIN kept, ~Applies(c.state, b, id)
       PROVE  c.state.accounts[id].cred \in Creds(kept)
  <2>1. id \in T /\ id \notin DOMAIN b.accounts BY <1>10, <1>12 DEF T
  <2>2. id \in Duplicates(all, b) /\ all[id] = c.state.accounts[id] BY <1>4, <1>6, <1>12, <2>1
  <2>3. PICK i \in DOMAIN b.accounts : all[id].cred = b.accounts[i].cred
    BY <2>2 DEF Duplicates
  <2> QED BY <1>10, <2>2, <2>3 DEF Creds
<1> HIDE DEF after
<1> QED BY <1>8, <1>10, <1>11, <1>12 DEF marks, after

LEMMA MergeKeeps ==
    ASSUME SyncInv, NEW p \in Proc, Merge(p)
    PROVE  SyncInv'
<1> DEFINE c == cmd[p]
           m == Host[p]
           b == c.bundle
           state == Merged(c)
           bad == Unreadable(m, c)
           seen == merged[m] \cup {c.base}
           h2 == [state |-> state, broken |-> bad, seen |-> seen]
<1>1. c # NoCmd /\ c.step = "merge" /\ UNCHANGED <<remote, counters, issued, removed, deleted>>
  BY DEF Merge, At
<1>2. CASE Conflict(p) BY <1>1, <1>2, ConflictKeeps
<1>3. CASE End(p) /\ UNCHANGED <<local, broken, merged>>
  BY <1>1, <1>3, EndKeeps DEF history
<1>4. CASE Commit(p, state, NoCmd) /\ broken' = [broken EXCEPT ![m] = bad]
           /\ merged' = [merged EXCEPT ![m] = @ \cup {c.base}]
  <2>1. /\ c \in Commands /\ m \in Machine /\ remote \in Branches /\ remote.bundle \in Bundles /\ b \in Bundles
        /\ Working(c, Shared, Site(m)) /\ c.state = local[m]
        /\ \/ c.base = remote.head /\ b = remote.bundle
           \/ c.base < remote.head /\ b.gen < remote.bundle.gen
        /\ Good(b, issued)
        /\ Marked(c.state.marks, remote, merged[m]) /\ Copies(c.state.accounts, issued)
        /\ \A k \in Pool : c.state.marks[k] # NoMark => c.state.marks[k].gen <= b.gen
    BY <1>1, <1>4, TakingHas DEF Commit
  <2>2. ~DeletesCurrent(c.state, b) BY <1>1, <2>1 DEF Working, Merging
  <2>3. /\ state \in States /\ state.marks = Rekey(c.state.marks, c.pool, Mark(b))
        /\ DOMAIN b.accounts \subseteq DOMAIN state.accounts
        /\ \A id \in DOMAIN b.accounts : state.accounts[id] = b.accounts[id]
        /\ \A id \in DOMAIN state.accounts \ DOMAIN b.accounts :
             /\ id \in DOMAIN c.state.accounts /\ state.accounts[id] = c.state.accounts[id]
             /\ id = c.state.current \/ ~Applies(c.state, b, id)
    BY <2>1, MergedIs DEF Good
  <2>4. /\ Marked(state.marks, remote, seen)
        /\ Current(state.marks, remote.bundle) => b = remote.bundle
        /\ Current(c.state.marks, remote.bundle) => Current(state.marks, remote.bundle)
    <3> DEFINE marks == Rekey(c.state.marks, c.pool, Mark(b))
    <3>1. /\ Marked(marks, remote, seen)
          /\ Current(marks, remote.bundle) => b = remote.bundle
          /\ Current(c.state.marks, remote.bundle) => Current(marks, remote.bundle)
      BY <2>1, CommandHas, MarksAfter
    <3>2. state.marks = marks BY <2>3
    <3> HIDE DEF marks, state
    <3> QED BY <3>1, <3>2
  <2> HIDE DEF state
  <2>5. Copies(state.accounts, issued)
    <3>1. Copies(b.accounts, issued) BY <2>1 DEF Good
    <3> QED BY <2>1, <2>3, <3>1 DEF Copies
  <2>6. ASSUME NEW id \in DOMAIN state.accounts PROVE ~Dead(b, id, issued)
    <3> SUFFICES ASSUME id \in DOMAIN b.tombs, issued[id].creds = {b.tombs[id].cred},
                        issued[id].added <= b.tombs[id].at
                 PROVE  FALSE
      BY DEF Dead
    <3>1. id \notin DOMAIN b.accounts BY <2>1 DEF Good, WellFormed
    <3>2. id \in DOMAIN c.state.accounts /\ (id = c.state.current \/ ~Applies(c.state, b, id))
      BY <2>3, <3>1
    <3>3. Applies(c.state, b, id) BY <2>1, <3>1, <3>2 DEF Applies, Copies
    <3>4. id = c.state.current BY <3>2, <3>3
    <3>5. id \in Id BY <2>1, <3>2, CommandHas, TableHas DEF Accounts
    <3> QED BY <2>2, <3>3, <3>4, <3>5, Constants DEF DeletesCurrent
  <2>7. Kept(Shared, h2)
    BY <2>3, <2>4, <2>5, <2>6 DEF Kept, Synced, Held, Clean, Shared
  <2>8. bad \in SUBSET Id /\ seen \in SUBSET Nat /\ merged' = [merged EXCEPT ![m] = seen]
    BY <1>4, <2>1, CommandHas DEF SyncInv, SyncTypeOK, Unreadable
  <2>9. merged[m] \subseteq seen OBVIOUS
  <2>10. Current(local[m].marks, remote.bundle) => Current(state.marks, remote.bundle)
    BY <2>1, <2>4
  <2> HIDE DEF seen, bad
  <2> QED BY <1>1, <1>4, <2>3, <2>7, <2>8, <2>9, <2>10, CommitKeeps
<1> QED BY <1>2, <1>3, <1>4 DEF Merge

---------------------------------------------------------------------------
(* SyncInv holds in every state.                                           *)

LEMMA InitKeeps ==
    ASSUME Init
    PROVE  SyncInv
<1>1. /\ broken = [m \in Machine |-> {}] /\ cmd = [p \in Proc |-> NoCmd] /\ clock = 1 /\ edits = 0
      /\ removed = {} /\ deleted = {}
  BY DEF Init
<1>2. clock \in 1..MaxClock /\ edits \in 0..MaxEdits /\ 1 \in Times /\ 1 \in 1..MaxGen
  BY <1>1, Constants DEF Times
<1>3. NoAccounts \in Accounts /\ NoAccounts \in Tombstones /\ NoAccounts \in Issues /\ DOMAIN NoAccounts = {}
  BY NoTable DEF Accounts, Tombstones, Issues
<1>4. Unsynced \in MarksSet /\ \A k \in Pool : Unsynced[k] = NoMark BY DEF Unsynced, MarksSet
<1>5. ASSUME NEW accounts \in Accounts, NEW marks \in MarksSet, NEW state \in Machines(accounts, marks)
      PROVE  state \in States /\ state.accounts = accounts /\ state.marks = marks
  <2>1. PICK i \in DOMAIN accounts \cup {NoId} :
          state = [accounts |-> accounts, current |-> i, marks |-> marks]
    BY <1>5 DEF Machines
  <2>2. i \in Id \cup {NoId} BY TableHas DEF Accounts
  <2> QED BY <2>1, <2>2 DEF States, MarksSet
<1>6. \A p \in Proc : cmd[p] = NoCmd BY <1>1
<1>7. CASE /\ remote = [head |-> 0, bundle |-> NoBundle]
           /\ local \in [Machine -> Machines(NoAccounts, Unsynced)]
           /\ merged = [m \in Machine |-> {}] /\ issued = NoAccounts
  <2>1. ASSUME NEW m \in Machine
        PROVE  local[m] \in States /\ local[m].accounts = NoAccounts /\ local[m].marks = Unsynced
    <3>1. local[m] \in Machines(NoAccounts, Unsynced) BY <1>7
    <3> QED BY <1>3, <1>4, <1>5, <3>1
  <2>2. local \in [Machine -> States] BY <1>7, <2>1
  <2>3. SyncTypeOK BY <1>1, <1>2, <1>3, <1>7, <2>2 DEF SyncTypeOK, Issues
  <2>4. Published(Shared) BY <1>1, <1>7 DEF Published, AllTold, Shared
  <2>5. ASSUME NEW m \in Machine PROVE Kept(Shared, Site(m))
    BY <1>3, <1>4, <1>7, <2>1 DEF Kept, Synced, Marked, Held, Copies, Current, Shared, Site
  <2> QED BY <1>6, <2>3, <2>4, <2>5 DEF SyncInv
<1>8. ASSUME NEW id \in Id, NEW cr \in Cred,
             LET old == [pool |-> "legacy", gen |-> 1,
                         accounts |-> Only(id, [cred |-> cr, added |-> 1]), tombs |-> NoAccounts]
                 seen == [Unsynced EXCEPT !["legacy"] = Mark(old)]
             IN  /\ remote = [head |-> 1, bundle |-> old]
                 /\ local \in [Machine -> Machines(NoAccounts, Unsynced) \cup Machines(old.accounts, seen)]
                 /\ merged = [m \in Machine |-> IF local[m].marks = seen THEN {1} ELSE {}]
                 /\ issued = Only(id, [added |-> 1, creds |-> {cr}])
      PROVE  SyncInv
  <2> DEFINE entry == [cred |-> cr, added |-> 1]
             issue == [added |-> 1, creds |-> {cr}]
             table == Only(id, entry)
             old == [pool |-> "legacy", gen |-> 1, accounts |-> table, tombs |-> NoAccounts]
             seen == [Unsynced EXCEPT !["legacy"] = Mark(old)]
  <2>1. entry \in Account /\ issue \in Issue BY <1>2 DEF Account, Issue
  <2>2. /\ table \in Accounts /\ DOMAIN table = {id} /\ table[id] = entry
        /\ issued \in Issues /\ DOMAIN issued = {id} /\ issued[id] = issue
    <3> HIDE DEF entry, issue
    <3>1. table \in Accounts /\ DOMAIN table = {id} /\ table[id] = entry
      BY <2>1, OnlyTable DEF Accounts
    <3>2. issued = Only(id, issue) BY <1>8 DEF issue
    <3> QED BY <2>1, <3>1, <3>2, OnlyTable DEF Issues
  <2>3. remote = [head |-> 1, bundle |-> old] BY <1>8
  <2>4. local \in [Machine -> Machines(NoAccounts, Unsynced) \cup Machines(table, seen)] BY <1>8
  <2>5. merged = [m \in Machine |-> IF local[m].marks = seen THEN {1} ELSE {}] BY <1>8
  <2> HIDE DEF table
  <2>6. old \in Bundles BY <1>2, <1>3, <2>2 DEF Bundles, Pool
  <2>7. old.pool = "legacy" /\ old.gen = 1 /\ old.accounts = table /\ old.tombs = NoAccounts OBVIOUS
  <2> HIDE DEF old
  <2>8. seen \in MarksSet /\ seen["legacy"] = Mark(old) /\ seen["canonical"] = NoMark
    BY <1>4, <2>6, MarkOf DEF MarksSet, Pool
  <2> HIDE DEF seen
  <2>9. old # NoBundle /\ Mark(old).gen = 1 BY <2>6, <2>7, MarkOf, BundleHas
  <2>10. ASSUME NEW m \in Machine
         PROVE  /\ local[m] \in States
                /\ \/ local[m].accounts = NoAccounts /\ local[m].marks = Unsynced
                   \/ local[m].accounts = table /\ local[m].marks = seen
    <3>1. CASE local[m] \in Machines(NoAccounts, Unsynced) BY <1>3, <1>4, <1>5, <3>1
    <3>2. CASE local[m] \in Machines(table, seen) BY <1>5, <2>2, <2>8, <3>2
    <3> QED BY <2>4, <3>1, <3>2
  <2>11. local \in [Machine -> States] /\ merged \in [Machine -> SUBSET Nat]
    BY <2>4, <2>5, <2>10
  <2>12. remote \in Branches /\ remote.bundle = old /\ remote.head = 1 BY <2>3, <2>6 DEF Branches
  <2>13. SyncTypeOK
    BY <1>1, <1>2, <2>2, <2>11, <2>12 DEF SyncTypeOK, Issues, Branches
  <2>14. /\ Copies(table, issued) /\ Copies(NoAccounts, issued) /\ Stones(NoAccounts, issued)
         /\ \A i : ~Dead(old, i, issued)
    BY <1>3, <2>2, <2>7 DEF Copies, Stones, Dead
  <2>15. Good(old, issued)
    <3>1. WellFormed(old) BY <1>3, <2>2, <2>7 DEF WellFormed, IsInjective
    <3> QED BY <2>7, <2>14, <3>1 DEF Good
  <2>16. Published(Shared)
    BY <1>1, <1>3, <2>7, <2>12, <2>15 DEF Published, AllTold, Shared, Recorded
  <2>17. ASSUME NEW m \in Machine PROVE Kept(Shared, Site(m))
    <3>1. Marked(local[m].marks, remote, merged[m])
      <4>1. CASE local[m].marks = Unsynced BY <1>4, <4>1 DEF Marked
      <4>2. CASE local[m].marks = seen
        <5>1. merged[m] = {1} BY <2>5, <4>2
        <5> QED BY <2>8, <2>9, <2>7, <2>12, <4>2, <5>1 DEF Marked, Pool
      <4> QED BY <2>10, <4>1, <4>2
    <3>2. Held(local[m], old, removed)
      <4>1. CASE local[m].accounts = table BY <2>7, <4>1 DEF Held
      <4>2. CASE local[m].marks = Unsynced
        <5>1. ~Current(Unsynced, old) BY <1>4, <2>6, OlderNotCurrent
        <5> QED BY <4>2, <5>1 DEF Held
      <4> QED BY <2>10, <4>1, <4>2
    <3>3. Copies(local[m].accounts, issued) BY <2>10, <2>14
    <3> QED BY <2>12, <2>14, <3>1, <3>2, <3>3 DEF Kept, Synced, Clean, Shared, Site
  <2> QED BY <1>6, <2>13, <2>16, <2>17 DEF SyncInv
<1> QED BY <1>7, <1>8 DEF Init

LEMMA NextKeeps ==
    ASSUME SyncInv, [Next]_vars
    PROVE  SyncInv'
<1>1. ASSUME NEW m \in Machine, NEW id \in Id,
             \/ \E c \in Cred : (\E ahead \in 0..Skew : Add(m, id, c, ahead)) \/ ImportAgain(m, id, c)
             \/ Remove(m, id) \/ Use(m, id) \/ Break(m, id)
      PROVE  SyncInv'
  BY <1>1, AddKeeps, ImportAgainKeeps, RemoveKeeps, UseKeeps, BreakKeeps
<1>2. CASE Tick BY <1>2, TickKeeps
<1>3. ASSUME NEW p \in Proc, PushBegins(p) \/ PullBegins(p)
      PROVE  SyncInv'
  BY <1>3, BeginsKeeps DEF PushBegins, PullBegins
<1>4. ASSUME NEW p \in Proc, Export(p) \/ Prepare(p) \/ Fetch(p) \/ Kill(p)
      PROVE  SyncInv'
  BY <1>4, ExportKeeps, PrepareKeeps, FetchKeeps, KillKeeps
<1>5. ASSUME NEW p \in Proc, Send(p) \/ AnswerLost(p) \/ Remember(p) \/ Release(p) \/ Merge(p)
      PROVE  SyncInv'
  BY <1>5, SendKeeps, RememberKeeps, ReleaseKeeps, MergeKeeps
<1>6. CASE UNCHANGED vars
  BY <1>6, AroundKeeps DEF vars, counters, history, SyncInv, SyncTypeOK
<1> QED BY <1>1, <1>2, <1>3, <1>4, <1>5, <1>6 DEF Next

\* The invariant of a pool that several machines push to and pull from.
THEOREM SyncInvariant == Spec => []SyncInv
<1>1. Init => SyncInv BY InitKeeps
<1>2. SyncInv /\ [Next]_vars => SyncInv' BY NextKeeps
<1> QED BY <1>1, <1>2, PTL DEF Spec

\* What the code passes around has the shape its records say it has.
THEOREM SyncTypeCorrect == Spec => []SyncTypeOK
<1>1. SyncInv => SyncTypeOK BY DEF SyncInv
<1> QED BY <1>1, SyncInvariant, PTL

---------------------------------------------------------------------------
(* What follows from it.                                                   *)

\* A push that is told to pull first can: a machine is behind the bundle only
\* if its mark is older, for the mark of the same generation is of that bundle.
THEOREM RefusedPushesCanPull == Spec => []RefusedPushCanPull
<1>1. ASSUME SyncInv, NEW m \in Machine, Behind(local[m].marks, remote.bundle)
      PROVE  Newer(local[m].marks, remote.bundle)
  <2> DEFINE b == remote.bundle
             marks == local[m].marks
  <2>1. b # NoBundle BY <1>1 DEF Behind
  <2>2. remote \in Branches /\ b \in Bundles BY <1>1, <2>1 DEF SyncInv, SyncTypeOK, Branches
  <2>3. marks \in MarksSet /\ Marked(marks, remote, merged[m]) BY <1>1, SiteHas
  <2>4. PICK k \in Pool : MarkFor(marks, b) = marks[k] BY <2>2, <2>3, MarkForIs
  <2>5. GenOf(marks[k]) \in Nat /\ b.gen \in Nat /\ b.gen > 0
    BY <2>2, <2>3, <2>4, MarkForIs, BundleHas
  <2>6. GenOf(marks[k]) < b.gen
    <3> SUFFICES ASSUME GenOf(marks[k]) = b.gen, marks[k].hash # SemanticOf(b) PROVE FALSE
      BY <1>1, <2>4 DEF Behind
    <3>1. marks[k] # NoMark /\ marks[k].gen = b.gen BY <2>5 DEF GenOf
    <3>2. marks[k] = Mark(b) BY <2>3, <3>1 DEF Marked
    <3> QED BY <2>2, <3>2, MarkOf
  <2> QED BY <2>1, <2>4, <2>6 DEF Newer
<1>2. SyncInv => RefusedPushCanPull BY <1>1 DEF RefusedPushCanPull
<1> QED BY <1>2, SyncInvariant, PTL

\* A live deletion is in the tombstones of the bundle, whatever was pushed since.
THEOREM DeletionsHold == Spec => []DeletionHolds
<1>1. ASSUME SyncInv, NEW d \in deleted, remote.bundle # NoBundle, issued[d.id].creds = {d.cred},
             d.id \in DOMAIN remote.bundle.accounts
      PROVE  remote.bundle.accounts[d.id].added > d.at \/ clock - d.at > Ttl
  <2> DEFINE b == remote.bundle
  <2>1. Good(b, issued) BY <1>1 DEF SyncInv, Published, Shared
  <2>2. b \in Bundles /\ d \in Deleted /\ clock \in 1..MaxClock
    BY <1>1 DEF SyncInv, SyncTypeOK, Deleted
  <2>3. b.accounts[d.id] \in Account BY <1>1, <2>2, BundleHas, TableHas DEF Accounts
  <2>4. b.accounts[d.id].added \in Nat /\ d.at \in Nat /\ clock \in Nat /\ Ttl \in Nat
    BY <2>2, <2>3, Constants DEF Account, Deleted, Times
  <2>5. b.accounts[d.id].added = issued[d.id].added BY <1>1, <2>1 DEF Good, Copies
  <2>6. ~Live(d, issued, clock)
    <3>1. Live(d, issued, clock) => d.id \in DOMAIN b.tombs
      BY <1>1 DEF SyncInv, Published, AllTold, Told, Shared
    <3> QED BY <1>1, <2>1, <3>1 DEF Good, WellFormed
  <2> QED BY <1>1, <2>4, <2>5, <2>6 DEF Live
<1>2. SyncInv => DeletionHolds BY <1>1 DEF DeletionHolds
<1> QED BY <1>2, SyncInvariant, PTL

\* Only a push whose clone is the branch as it is replaces the bundle.
LEMMA BranchChanges ==
    ASSUME SyncInv, [Next]_vars, remote' # remote
    PROVE  \E p \in Proc :
             /\ At(p, "send") /\ remote.head = cmd[p].base /\ remote'.bundle = cmd[p].bundle
             /\ \A q \in Proc \ {p} : cmd'[q] = cmd[q]
<1>1. PICK p \in Proc : Send(p) \/ AnswerLost(p)
  <2>1. ASSUME NEW m \in Machine, NEW id \in Id,
               \/ \E c \in Cred : (\E ahead \in 0..Skew : Add(m, id, c, ahead)) \/ ImportAgain(m, id, c)
               \/ Remove(m, id) \/ Use(m, id) \/ Break(m, id)
        PROVE  remote' = remote
    BY <2>1 DEF Add, ImportAgain, Remove, Use, Edit, Break
  <2>2. Tick \/ UNCHANGED vars => remote' = remote BY DEF Tick, vars
  <2>3. ASSUME NEW p \in Proc,
               \/ PushBegins(p) \/ Export(p) \/ Prepare(p) \/ Remember(p) \/ PullBegins(p)
               \/ Fetch(p) \/ Release(p) \/ Merge(p) \/ Kill(p)
        PROVE  remote' = remote
    BY <2>3 DEF PushBegins, PullBegins, Begins, Export, Prepare, Remember, Fetch, Release, Merge, Kill
  <2> QED BY <2>1, <2>2, <2>3 DEF Next
<1>2. At(p, "send") /\ remote.head = cmd[p].base /\ Replace(cmd[p].bundle)
  BY <1>1 DEF Send, AnswerLost
<1>3. \A q \in Proc \ {p} : cmd'[q] = cmd[q]
  BY <1>1 DEF Send, AnswerLost, End, SyncInv, SyncTypeOK
<1> QED BY <1>2, <1>3 DEF Replace

LEMMA SenderKnows ==
    ASSUME SyncInv, NEW p \in Proc, At(p, "send"), remote.head = cmd[p].base, remote.bundle # NoBundle
    PROVE  remote.head \in merged[Host[p]] /\ Replaces(remote.bundle, cmd[p].bundle, removed)
<1>1. Sending(cmd[p], Shared, Site(Host[p])) BY DEF SyncInv, Working, At
<1> QED BY <1>1 DEF Sending, Shared, Site, At

\* A push replaces only a bundle that the State of its machine has taken in:
\* the check of push against the watermark is of a clone that is still current
\* when git accepts the push.
THEOREM ReplacedOnlySeen == Spec => SeenBeforeReplaced
<1> DEFINE Seen == \A p \in Proc :
             remote' # remote /\ At(p, "send") /\ cmd'[p] # cmd[p] /\ remote.bundle # NoBundle
               => remote.head \in merged[Host[p]]
<1>1. SyncInv /\ [Next]_vars => Seen
  <2> SUFFICES ASSUME SyncInv, [Next]_vars, NEW p \in Proc, remote' # remote, cmd'[p] # cmd[p],
                      remote.bundle # NoBundle
               PROVE  remote.head \in merged[Host[p]]
    OBVIOUS
  <2>1. At(p, "send") /\ remote.head = cmd[p].base BY BranchChanges
  <2> QED BY <2>1, SenderKnows
<1>2. SyncInv /\ [Next]_vars => [Seen]_vars BY <1>1
<1> QED BY <1>2, SyncInvariant, PTL DEF Spec, SeenBeforeReplaced

\* State changes without an edit only at the commit of a push or pull.
LEMMA CommitsAre ==
    ASSUME SyncInv, [Next]_vars, edits' = edits, local' # local
    PROVE  \E p \in Proc : \E state, next :
             /\ cmd[p] # NoCmd /\ Commit(p, state, next)
             /\ \/ Remember(p) /\ state = [cmd[p].state EXCEPT !.marks = Rekey(@, cmd[p].pool, Mark(cmd[p].bundle))]
                \/ Release(p) /\ state = Drop(cmd[p].state, {cmd[p].state.current})
                \/ Merge(p) /\ state = Merged(cmd[p])
<1>1. edits \in Nat BY DEF SyncInv, SyncTypeOK
<1>2. edits + 1 # edits BY <1>1
<1>3. PICK p \in Proc : Remember(p) \/ Release(p) \/ Merge(p)
  <2>1. ASSUME NEW m \in Machine, NEW id \in Id,
               \/ \E c \in Cred : (\E ahead \in 0..Skew : Add(m, id, c, ahead)) \/ ImportAgain(m, id, c)
               \/ Remove(m, id) \/ Use(m, id) \/ Break(m, id)
        PROVE  FALSE
    BY <1>2, <2>1 DEF Add, ImportAgain, Remove, Use, Edit, Break
  <2>2. Tick \/ UNCHANGED vars => local' = local BY DEF Tick, vars
  <2>3. ASSUME NEW p \in Proc,
               \/ PushBegins(p) \/ Export(p) \/ Prepare(p) \/ Send(p) \/ AnswerLost(p)
               \/ PullBegins(p) \/ Fetch(p) \/ Kill(p)
        PROVE  local' = local
    BY <2>3 DEF PushBegins, PullBegins, Begins, Export, Prepare, Send, AnswerLost, Fetch, Kill
  <2> QED BY <2>1, <2>2, <2>3 DEF Next
<1>4. CASE Remember(p) BY <1>4 DEF Remember, Conflict, At
<1>5. CASE Release(p) BY <1>5 DEF Release, Conflict, At
<1>6. CASE Merge(p) BY <1>6 DEF Merge, Conflict, At
<1> QED BY <1>3, <1>4, <1>5, <1>6

\* Pulls remove only what the pool deleted or has under another id, and pushes
\* drop only what a user removed: a push that goes through has seen the bundle
\* it replaces, so what it has not was removed on purpose.
THEOREM AccountsAreKept == Spec => AccountsKept
<1> DEFINE Step ==
       /\ edits' = edits =>
             \A m \in Machine : \A id \in DOMAIN local[m].accounts \ DOMAIN local'[m].accounts :
                LET gone == local[m].accounts[id]
                IN  \/ gone.cred \in Creds(local'[m].accounts)
                    \/ \E d \in deleted : d.id = id /\ d.cred = gone.cred /\ gone.added <= d.at
       /\ remote.bundle # NoBundle /\ remote'.bundle # NoBundle =>
             \A id \in DOMAIN remote.bundle.accounts \ DOMAIN remote'.bundle.accounts :
                id \in removed \/ remote.bundle.accounts[id].cred \in Creds(remote'.bundle.accounts)
<1>1. ASSUME SyncInv, [Next]_vars, edits' = edits, NEW m \in Machine,
             NEW id \in DOMAIN local[m].accounts \ DOMAIN local'[m].accounts
      PROVE  \/ local[m].accounts[id].cred \in Creds(local'[m].accounts)
             \/ \E d \in deleted : /\ d.id = id /\ d.cred = local[m].accounts[id].cred
                                  /\ local[m].accounts[id].added <= d.at
  <2>1. local' # local BY <1>1
  <2>2. PICK p \in Proc : \E state, next :
             /\ cmd[p] # NoCmd /\ Commit(p, state, next)
             /\ \/ Remember(p) /\ state = [cmd[p].state EXCEPT !.marks = Rekey(@, cmd[p].pool, Mark(cmd[p].bundle))]
                \/ Release(p) /\ state = Drop(cmd[p].state, {cmd[p].state.current})
                \/ Merge(p) /\ state = Merged(cmd[p])
    BY <1>1, <2>1, CommitsAre
  <2> DEFINE c == cmd[p]
             b == c.bundle
  <2>3. PICK state, next :
             /\ c # NoCmd /\ Commit(p, state, next)
             /\ \/ Remember(p) /\ state = [c.state EXCEPT !.marks = Rekey(@, c.pool, Mark(b))]
                \/ Release(p) /\ state = Drop(c.state, {c.state.current})
                \/ Merge(p) /\ state = Merged(c)
    BY <2>2
  <2>4. c.step \in {"mark", "release", "merge"} BY <2>3 DEF Remember, Release, Merge, At
  <2>5. /\ c \in Commands /\ b \in Bundles /\ Good(b, issued) /\ Recorded(b, deleted)
        /\ Working(c, Shared, Site(Host[p])) /\ c.state = local[Host[p]]
    BY <1>1, <2>3, <2>4, TakingHas DEF Commit
  <2>6. m = Host[p] /\ local'[m] = state
    BY <1>1, <2>3 DEF Commit, SyncInv, SyncTypeOK
  <2>7. c.state \in States /\ local[m] = c.state BY <2>5, <2>6, CommandHas
  <2>8. id \in DOMAIN c.state.accounts \ DOMAIN state.accounts BY <2>6, <2>7
  <2>9. Applies(c.state, b, id) \/ c.state.accounts[id].cred \in Creds(state.accounts)
    <3>1. CASE Remember(p) /\ state = [c.state EXCEPT !.marks = Rekey(@, c.pool, Mark(b))]
      <4>1. state.accounts = c.state.accounts BY <2>7, <3>1 DEF States
      <4> QED BY <2>8, <4>1
    <3>2. CASE Release(p) /\ state = Drop(c.state, {c.state.current})
      <4>1. id = c.state.current BY <2>7, <2>8, <3>2, DropIs
      <4>2. DeletesCurrent(c.state, b) BY <2>5, <3>2 DEF Working, Merging, Release, At
      <4> QED BY <4>1, <4>2 DEF DeletesCurrent
    <3>3. CASE Merge(p) /\ state = Merged(c)
      <4> HIDE DEF c
      <4> QED BY <2>5, <2>8, <3>3, MergedIs DEF Good
    <3> QED BY <2>3, <3>1, <3>2, <3>3
  <2>10. ASSUME Applies(c.state, b, id)
         PROVE  \E d \in deleted : d.id = id /\ d.cred = c.state.accounts[id].cred /\ c.state.accounts[id].added <= d.at
    <3>1. Record(b, id) \in deleted BY <2>5, <2>10 DEF Recorded, Applies
    <3>2. /\ Record(b, id).id = id /\ Record(b, id).cred = c.state.accounts[id].cred
          /\ c.state.accounts[id].added <= Record(b, id).at
      BY <2>10 DEF Record, Applies
    <3> QED BY <3>1, <3>2
  <2> QED BY <2>6, <2>7, <2>9, <2>10
<1>2. ASSUME SyncInv, [Next]_vars, remote.bundle # NoBundle,
             NEW id \in DOMAIN remote.bundle.accounts \ DOMAIN remote'.bundle.accounts
      PROVE  id \in removed \/ remote.bundle.accounts[id].cred \in Creds(remote'.bundle.accounts)
  <2>1. CASE remote' = remote BY <2>1
  <2>2. CASE remote' # remote
    <3>1. PICK p \in Proc : At(p, "send") /\ remote.head = cmd[p].base /\ remote'.bundle = cmd[p].bundle
      BY <1>2, <2>2, BranchChanges
    <3>2. Replaces(remote.bundle, remote'.bundle, removed) BY <1>2, <3>1, SenderKnows
    <3> QED BY <3>2 DEF Replaces
  <2> QED BY <2>1, <2>2
<1>3. SyncInv /\ [Next]_vars => Step BY <1>1, <1>2
<1>4. SyncInv /\ [Next]_vars => [Step]_vars BY <1>3
<1> QED BY <1>4, SyncInvariant, PTL DEF Spec, AccountsKept

=============================================================================
