------------------------- MODULE ProfileQuotaProofs -------------------------
(***************************************************************************)
(* Theorems about ProfileQuota, for any number of processes, directories   *)
(* for imports, commands and turns.                                        *)
(***************************************************************************)
EXTENDS ProfileQuota, FiniteSetTheorems, WellFoundedInduction, TLAPS

---------------------------------------------------------------------------
(* The inductive invariant.                                                *)

LoginSteps == {"reset", "signin", "register"}
Holding    == LoginSteps \cup InSession \cup {"exit", "probing", "measuring"}
Uses       == Holding \cup {"measure", "lease", "record"}
ImportHeld == {"stage", "move", "commit", "forget"}
SyncSteps  == ImportHeld \cup {"push", "export", "clone", "publish", "pull", "fetch", "import",
                               "cleanup"}

\* What is measured, or about to be merged, by p itself and by its worker.
Measured == {"probing", "measuring", "record"}

\* Locks: who has begun something has them, and nothing else is going on below.
LocksHeld(p) ==
    /\ pc[p] \in Uses => job[p].dir \in Dir
    /\ pc[p] \in Holding => lease[job[p].dir] = p
    /\ pc[p] = "rm" => removal # None /\ lease[removal.dir] = p
    /\ pc[p] \in ImportHeld \cup {"rm"} => registryLock = p
    /\ pc[p] \in ImportHeld => removal = None
    /\ pc[p] \in SyncSteps => syncLock = p

\* Whose directory the label stands for while a command works on it.
Registered(p) ==
    /\ pc[p] \in LoginSteps =>
         /\ Present(job[p].dir) /\ registry \in {None, job[p].dir}
         /\ job[p].dir = Own \/ registry = job[p].dir
    /\ pc[p] = "register" => HasLogin(job[p].dir)
    /\ pc[p] \in InSession \cup {"exit", "probing"} => registry = job[p].dir
    /\ pc[p] \in {"fetch", "import", "export", "clone", "publish"} => import = None
    /\ pc[p] \in ImportHeld => import = job[p].dir /\ import \in used
    /\ pc[p] \in {"import", "stage"} => job[p].got # 0
    /\ pc[p] \in {"stage", "move", "commit"} => registry = None /\ place[Own] = "absent"
    /\ pc[p] \in {"move", "commit"} => HasLogin(job[p].dir)
    /\ pc[p] = "commit" => Present(job[p].dir)
    /\ pc[p] = "forget" => registry = job[p].dir

Registry ==
    /\ removal # None => registry = removal.dir
    /\ registry \in {None, Own} \cup used
    /\ ImportResolvable

\* The label's entry says that an attempt for d that began at t is too old.
Stale(e, d, t) ==
    e # NoEntry /\ IF e.dir = d THEN t < e.reset ELSE t < Later(e.attempted, e.reset)

\* It began before the barrier of d, or where that barrier could not be written.
Late(d, t) == Stale(entry, d, t) \/ t <= unreset[d]

\* A measurement shows what its directory still holds, or is too late, or the
\* directory holds nothing any more.
Honest(d, t, got) == got # 0 => got = login[d] \/ login[d] = 0 \/ Late(d, t)

Truthful ==
    /\ entry # NoEntry /\ entry.sample # 0 =>
         \/ entry.sample = login[entry.dir] \/ login[entry.dir] = 0
         \/ entry.started <= unreset[entry.dir]
    /\ \A p \in Proc : pc[p] \in Measured => Honest(job[p].dir, job[p].at, job[p].got)
    /\ \A p \in Proc : pc[p] \in InSession => Honest(job[p].dir, flight.at, flight.got)
    /\ \A p \in Proc : pc[p] \in {"measure", "lease"} => job[p].got = 0

\* What was measured, or is going to be, has the time it began.
Timed ==
    /\ \A p \in Proc : pc[p] \in Measured \cup {"lease"} => job[p].at > 0
    /\ flight.got # 0 => flight.at > 0

\* Before somebody signs in, whatever was measured in the directory is too old,
\* or began before the reset that could not be written.
Barred(p) == pc[p] = "signin" /\ job[p].got = 0 =>
    /\ entry # NoEntry /\ entry.dir = job[p].dir /\ entry.sample # 0 =>
         entry.started <= unreset[job[p].dir]
    /\ \A q \in Proc : /\ pc[q] \in Measured /\ job[q].dir = job[p].dir /\ job[q].got # 0
                       => Late(job[q].dir, job[q].at)

\* Nothing is known of a directory yet.
Unseen(d) ==
    /\ registry # d
    /\ entry # NoEntry => entry.dir # d
    /\ \A q \in Proc : pc[q] \in Uses => job[q].dir # d

Fresh ==
    /\ \A d \in Imports \ used : Unseen(d)
    /\ \A p \in Proc : pc[p] = "stage" => Unseen(job[p].dir)

QuotaInv ==
    /\ QuotaTypeOK
    /\ \A p \in Proc : LocksHeld(p) /\ Registered(p) /\ Barred(p)
    /\ Registry /\ Timed /\ Truthful /\ Fresh

---------------------------------------------------------------------------
(* The clock and fresh identities.                                         *)

HasMax(S) == \E m \in S : \A x \in S : m >= x

\* A finite set of numbers has a greatest one: among its subsets without, there
\* is a smallest, and one number less would have had one.
LEMMA FiniteNatMax ==
    ASSUME NEW S \in SUBSET Nat, IsFiniteSet(S), S # {} PROVE HasMax(S)
<1> DEFINE T == {U \in FiniteSubsetsOf(S) : U # {} /\ ~HasMax(U)}
<1>1. SUFFICES ASSUME ~HasMax(S) PROVE FALSE
  OBVIOUS
<1>2. S \in T
  BY <1>1 DEF FiniteSubsetsOf
<1>3. PICK U \in T : \A V \in T : ~ (<<V, U>> \in StrictSubsetOrdering(S))
  <2>1. T \subseteq FiniteSubsetsOf(S) /\ T # {}
    BY <1>2
  <2> HIDE DEF T
  <2> QED
    BY <2>1, FS_StrictSubsetOrderingWellFounded, WFMin
<1>4. U \in SUBSET S /\ IsFiniteSet(U) /\ U # {} /\ ~HasMax(U)
  BY <1>3 DEF FiniteSubsetsOf
<1>5. PICK x \in U : TRUE
  BY <1>4
<1> DEFINE V == U \ {x}
<1>6. IsFiniteSet(V) /\ V \in SUBSET S /\ V # U
  BY <1>4, <1>5, FS_RemoveElement
<1>7. V \notin T
  BY <1>3, <1>6, <1>4 DEF StrictSubsetOrdering
<1>8. V = {} \/ HasMax(V)
  BY <1>6, <1>7 DEF FiniteSubsetsOf
<1>9. CASE V = {}
  BY <1>9, <1>4, <1>5 DEF HasMax
<1>10. CASE HasMax(V)
  <2>1. PICK y \in V : \A z \in V : y >= z
    BY <1>10 DEF HasMax
  <2>2. x \in Nat /\ y \in Nat /\ U = V \cup {x}
    BY <1>4, <1>5, <2>1
  <2>3. \A z \in U : z \in Nat /\ (y >= z \/ z = x)
    BY <1>4, <2>1, <2>2
  <2>4. CASE y >= x
    BY <2>1, <2>2, <2>3, <2>4, <1>4 DEF HasMax
  <2>5. CASE x > y
    <3>1. \A z \in U : x >= z
      BY <2>2, <2>3, <2>5
    <3> QED
      BY <3>1, <1>4, <1>5 DEF HasMax
  <2> QED
    BY <2>2, <2>4, <2>5
<1> QED
  BY <1>8, <1>9, <1>10

LEMMA MaxOfFinite ==
    ASSUME NEW S \in SUBSET Nat, IsFiniteSet(S), S # {}
    PROVE  Max(S) \in S /\ \A x \in S : Max(S) >= x
<1>1. \E m \in S : \A x \in S : m >= x
  BY FiniteNatMax DEF HasMax
<1> QED
  BY <1>1 DEF Max

\* A finite set leaves out one of the numbers up to its size and one more.
LEMMA NumberLeft ==
    ASSUME NEW S, IsFiniteSet(S)
    PROVE  \E n \in 1..(Cardinality(S) + 1) : n \notin S
<1> DEFINE c == Cardinality(S)
<1>1. c \in Nat
  BY FS_CardinalityType
<1>2. SUFFICES ASSUME \A n \in 1..(c + 1) : n \in S PROVE FALSE
  OBVIOUS
<1>3. 1..(c + 1) \subseteq S
  BY <1>2
<1>4. Cardinality(1..(c + 1)) <= c
  BY <1>3, FS_Subset
<1>5. Cardinality(1..(c + 1)) = c + 1
  BY <1>1, FS_Interval
<1> QED
  BY <1>1, <1>4, <1>5

\* What somebody remembers of the clock, and of identities.
Readings == {job[p].at : p \in Proc} \cup {flight.at} \cup {unreset[d] : d \in Dir}
            \cup (IF removal = None THEN {} ELSE {removal.at})
            \cup (IF entry = NoEntry THEN {} ELSE {entry.started, entry.reset, entry.attempted})
Identities == {login[d] : d \in Dir} \cup {job[p].got : p \in Proc} \cup {remote, flight.got}
              \cup (IF entry = NoEntry THEN {} ELSE {entry.sample})

LEMMA FiniteImage ==
    ASSUME NEW S, IsFiniteSet(S), NEW f, f = [x \in S |-> f[x]]
    PROVE  IsFiniteSet({f[x] : x \in S})
<1> DEFINE T == {f[x] : x \in S}
<1>1. f \in Surjection(S, T)
  BY DEF Surjection
<1> QED
  BY <1>1, FS_Surjection

LEMMA FiniteDir == IsFiniteSet(Dir)
  BY QuotaAssumption, FS_AddElement, FS_Singleton, FS_Union DEF Dir

\* now() is later than every reading that still counts.
LEMMA NowIsLater ==
    ASSUME QuotaTypeOK
    PROVE  /\ Now \in Nat
           /\ \A p \in Proc : job[p].at < Now
           /\ flight.at < Now
           /\ removal # None => removal.at < Now
           /\ entry # NoEntry =>
                entry.started < Now /\ entry.reset < Now /\ entry.attempted < Now
<1>1. Now = 1 + Max(Readings)
  BY DEF Now, Readings
<1>2. /\ \A p \in Proc : job[p].at \in Nat
      /\ flight.at \in Nat
      /\ removal # None => removal.at \in Nat
      /\ entry # NoEntry =>
           entry.started \in Nat /\ entry.reset \in Nat /\ entry.attempted \in Nat
      /\ \A d \in Dir : unreset[d] \in Nat
  BY DEF QuotaTypeOK, Jobs, Flights, Removals, Entries
<1>3. Readings \in SUBSET Nat /\ Readings # {}
  BY <1>2 DEF Readings
<1>4. IsFiniteSet(Readings)
  <2>1. IsFiniteSet({job[p].at : p \in Proc})
    <3> DEFINE f == [p \in Proc |-> job[p].at]
    <3>1. IsFiniteSet({f[p] : p \in Proc})
      BY QuotaAssumption, FiniteImage
    <3> QED
      BY <3>1
  <2>2. /\ IsFiniteSet({flight.at}) /\ IsFiniteSet({removal.at})
        /\ IsFiniteSet({entry.started, entry.reset, entry.attempted})
    <3> DEFINE a == entry.started
               b == entry.reset
               c == entry.attempted
    <3> HIDE DEF a, b, c
    <3>1. IsFiniteSet({a}) /\ IsFiniteSet({b}) /\ IsFiniteSet({c})
      BY FS_Singleton
    <3>2. IsFiniteSet({a} \cup {b})
      BY <3>1, FS_Union
    <3>3. IsFiniteSet(({a} \cup {b}) \cup {c})
      BY <3>1, <3>2, FS_Union
    <3>4. ({a} \cup {b}) \cup {c} = {a, b, c}
      OBVIOUS
    <3>5. IsFiniteSet({a, b, c})
      BY <3>3, <3>4
    <3> QED
      BY <3>5, FS_Singleton DEF a, b, c
  <2>3. IsFiniteSet({unreset[d] : d \in Dir})
    <3>1. unreset = [d \in Dir |-> unreset[d]]
      BY DEF QuotaTypeOK
    <3> QED
      BY <3>1, FiniteDir, FiniteImage
  <2>4. /\ IsFiniteSet(IF removal = None THEN {} ELSE {removal.at})
        /\ IsFiniteSet(IF entry = NoEntry THEN {}
                       ELSE {entry.started, entry.reset, entry.attempted})
    BY <2>2, FS_EmptySet
  <2> QED
    BY <2>1, <2>2, <2>3, <2>4, FS_Union DEF Readings
<1>5. Max(Readings) \in Nat /\ \A x \in Readings : Max(Readings) >= x
  BY <1>3, <1>4, MaxOfFinite
<1> DEFINE m == Max(Readings)
<1>6. m \in Nat /\ Now = 1 + m /\ \A x \in Readings : m >= x
  BY <1>1, <1>5
<1> HIDE DEF m
<1>7. /\ \A p \in Proc : job[p].at \in Readings
      /\ flight.at \in Readings
      /\ removal # None => removal.at \in Readings
      /\ entry # NoEntry => /\ entry.started \in Readings /\ entry.reset \in Readings
                            /\ entry.attempted \in Readings
  BY DEF Readings
<1>8. \A x \in Readings : x < Now
  BY <1>3, <1>6
<1> QED
  BY <1>6, <1>7, <1>8

\* agy signs in, and the other machine logs in, as somebody.
LEMMA NewLoginType == NewLogin \in Nat /\ NewLogin # 0
<1>1. NewLogin = CHOOSE n \in 1..(Cardinality(Identities) + 1) : n \notin Identities
  BY DEF NewLogin, Identities
<1>2. IsFiniteSet(Identities)
  <2>1. IsFiniteSet({login[d] : d \in Dir}) /\ IsFiniteSet({job[p].got : p \in Proc})
    <3> DEFINE f == [d \in Dir |-> login[d]]
               g == [p \in Proc |-> job[p].got]
    <3>1. IsFiniteSet({f[d] : d \in Dir}) /\ IsFiniteSet({g[p] : p \in Proc})
      BY QuotaAssumption, FiniteDir, FiniteImage
    <3> QED
      BY <3>1
  <2>2. {remote, flight.got} = {remote} \cup {flight.got}
    OBVIOUS
  <2>3. IsFiniteSet({remote, flight.got})
    <3>1. IsFiniteSet({remote}) /\ IsFiniteSet({flight.got})
      BY FS_Singleton
    <3> QED
      BY <2>2, <3>1, FS_Union
  <2>4. IsFiniteSet(IF entry = NoEntry THEN {} ELSE {entry.sample})
    BY FS_Singleton, FS_EmptySet
  <2> QED
    BY <2>1, <2>3, <2>4, FS_Union DEF Identities
<1>3. NewLogin \in 1..(Cardinality(Identities) + 1)
  BY <1>1, <1>2, NumberLeft
<1> QED
  BY <1>2, <1>3, FS_CardinalityType

---------------------------------------------------------------------------
(* cache::merge.                                                           *)

\* What the merge of an attempt leaves.
LEMMA MergedType ==
    ASSUME NEW e \in Entries \cup {NoEntry}, NEW d \in Dir, NEW s \in Nat, NEW t \in Nat,
           NEW r \in Outcomes,
           e # NoEntry => ValidEntry(e), s # 0 => t > 0
    PROVE  /\ Merged(e, Update(d, s, t, r)) \in Entries
           /\ ValidEntry(Merged(e, Update(d, s, t, r)))
<1> DEFINE u == Update(d, s, t, r)
           f == IF e = NoEntry THEN Entry(d, 0, 0, 0, 0) ELSE e
           g == Moved(f, u)
           h == Dropped(g, u)
           i == Sampled(h, u)
<1>1. f \in Entries /\ ValidEntry(f)
  BY DEF Entries, Entry, ValidEntry
<1>2. g \in Entries /\ ValidEntry(g)
  BY <1>1 DEF Entries, Entry, ValidEntry, Moved, Update
<1>3. h \in Entries /\ ValidEntry(h)
  BY <1>2 DEF Entries, ValidEntry, Dropped, Later, Update
<1>4. i \in Entries /\ ValidEntry(i)
  BY <1>3 DEF Entries, ValidEntry, Sampled, Update
<1>5. Attempted(i, u) \in Entries /\ ValidEntry(Attempted(i, u))
  BY <1>4 DEF Entries, ValidEntry, Attempted, Later, Update
<1>6. Merged(e, Update(d, s, t, r)) \in {f, Attempted(i, u)}
  <2>1. u.dir = d
    BY DEF Update
  <2> QED
    BY <2>1 DEF Merged
<1> HIDE DEF f, i, u
<1> QED
  BY <1>1, <1>5, <1>6

\* The entry tells of the attempt's directory or of the one it told of.
LEMMA MergedDir ==
    ASSUME NEW e \in Entries \cup {NoEntry}, NEW d \in Dir, NEW s \in Nat, NEW t \in Nat,
           NEW r \in Outcomes
    PROVE  LET m == Merged(e, Update(d, s, t, r)) IN
           m.dir = d \/ (e # NoEntry /\ m.dir = e.dir)
  BY DEF Merged, Update, Entries, Entry, Outdated, Moved, Dropped, Sampled, Attempted

\* A sample in it was there before, or came with an attempt that was not too old.
LEMMA MergedSample ==
    ASSUME NEW e \in Entries \cup {NoEntry}, NEW d \in Dir, NEW s \in Nat, NEW t \in Nat,
           NEW r \in Outcomes, Merged(e, Update(d, s, t, r)).sample # 0
    PROVE  LET m == Merged(e, Update(d, s, t, r)) IN
           \/ e # NoEntry /\ m.dir = e.dir /\ m.sample = e.sample /\ m.started = e.started
           \/ m.dir = d /\ m.sample = s /\ m.started = t /\ ~Stale(e, d, t)
<1> DEFINE u == Update(d, s, t, r)
           f == IF e = NoEntry THEN Entry(u.dir, 0, 0, 0, 0) ELSE e
           g == Moved(f, u)
           h == Dropped(g, u)
           i == Sampled(h, u)
           m == Merged(e, u)
<1>0. u.dir = d /\ u.sample = s /\ u.at = t /\ u.result = r
  BY DEF Update
<1>1. f \in Entries
  BY <1>0 DEF Entries, Entry
<1>2. CASE Outdated(f, u)
  <2>1. m = f /\ e # NoEntry
    BY <1>0, <1>2 DEF Merged, Outdated, Entry
  <2> QED
    BY <2>1
<1>3. CASE ~Outdated(f, u)
  <2>1. m = Attempted(i, u)
    BY <1>3 DEF Merged
  <2> HIDE DEF u, m
  <2>2. g \in Entries /\ g.dir = d /\ (g.sample # 0 => g = e /\ e # NoEntry)
    BY <1>0, <1>1 DEF Moved, Entries, Entry
  <2> HIDE DEF g
  <2>3. h \in Entries /\ h.dir = d /\ (h.sample # 0 => h = g)
    BY <1>0, <2>2 DEF Dropped, Entries, Later
  <2>4. h.reset >= g.reset
    <3>1. g.reset \in Nat /\ g.started \in Nat
      BY <2>2 DEF Entries
    <3>2. CASE r = "reset"
      <4>1. h.reset = Later(Later(g.reset, g.started), t)
        BY <1>0, <2>2, <3>2 DEF Dropped, Entries
      <4> QED
        BY <3>1, <4>1 DEF Later
    <3>3. CASE r # "reset"
      BY <1>0, <3>1, <3>3 DEF Dropped
    <3> QED
      BY <3>2, <3>3
  <2> HIDE DEF h
  <2>5. /\ i \in Entries /\ i.dir = d
        /\ i = h \/ (i.sample = s /\ i.started = t /\ t >= h.reset)
    BY <1>0, <2>3 DEF Sampled, Entries
  <2> HIDE DEF i
  <2>6. m.dir = d /\ m.sample = i.sample /\ m.started = i.started
    BY <2>1, <2>5 DEF Attempted, Entries
  <2>7. CASE i = h
    BY <2>2, <2>3, <2>6, <2>7 DEF m, u
  <2>8. CASE i.sample = s /\ i.started = t /\ t >= h.reset
    <3>1. ~Stale(e, d, t)
      <4>1. e.dir = d /\ e # NoEntry => g.reset = e.reset
        BY <1>0 DEF g, Moved
      <4>2. e # NoEntry /\ e.dir # d => ~(t < Later(e.attempted, e.reset))
        BY <1>0, <1>3 DEF Outdated
      <4>3. g.reset \in Nat /\ h.reset \in Nat
        BY <2>2, <2>3 DEF Entries
      <4> QED
        BY <2>4, <2>8, <4>1, <4>2, <4>3 DEF Stale
    <3> QED
      BY <2>6, <2>8, <3>1 DEF m, u
  <2> QED
    BY <2>5, <2>7, <2>8
<1> QED
  BY <1>2, <1>3

\* The times in it only grow, and bar what an attempt made later has seen.
LEMMA MergedTimes ==
    ASSUME NEW e \in Entries, NEW d \in Dir, NEW s \in Nat, NEW t \in Nat, NEW r \in Outcomes
    PROVE  LET m == Merged(e, Update(d, s, t, r)) IN
           \/ m = e /\ e.dir # d /\ t < Later(e.attempted, e.reset)
           \/ /\ m.dir = d /\ m.attempted >= e.attempted /\ m.attempted >= t
              /\ e.dir = d => m.reset >= e.reset
              /\ e.dir # d => m.reset >= t /\ t >= e.attempted /\ t >= e.reset
              /\ r = "reset" => m.reset >= t /\ m.sample = 0
<1> DEFINE u == Update(d, s, t, r)
           g == Moved(e, u)
           h == Dropped(g, u)
           i == Sampled(h, u)
           m == Attempted(i, u)
<1>1. CASE Outdated(e, u)
  <2>1. Merged(e, u) = e
    BY <1>1, QuotaAssumption DEF Merged
  <2> QED
    BY <1>1, <2>1 DEF Outdated, Update
<1>2. CASE ~Outdated(e, u)
  <2>1. Merged(e, u) = m
    BY <1>2, QuotaAssumption DEF Merged
  <2>2. e.dir # d => t >= e.attempted /\ t >= e.reset
    BY <1>2 DEF Outdated, Update, Later, Entries
  <2>3. /\ g \in Entries /\ g.dir = d /\ g.attempted = e.attempted
        /\ e.dir = d => g.reset = e.reset
        /\ e.dir # d => g.reset = t
    BY DEF Moved, Entry, Entries, Update
  <2>4. /\ h \in Entries /\ h.dir = d /\ h.attempted = e.attempted /\ h.reset >= g.reset
        /\ r = "reset" => h.reset >= t /\ h.sample = 0
    <3>0. g.dir \in Dir /\ g.sample \in Nat /\ g.started \in Nat /\ g.reset \in Nat
          /\ g.attempted \in Nat
      BY <2>3 DEF Entries
    <3>1. CASE r # "reset"
      <4>1. h = g
        BY <3>1 DEF Dropped, Update
      <4> HIDE DEF g, h
      <4> QED
        BY <2>3, <3>0, <3>1, <4>1
    <3>2. CASE r = "reset"
      <4> DEFINE n == Later(Later(g.reset, g.started), t)
      <4>1. h = [g EXCEPT !.sample = 0, !.started = 0, !.reset = n]
        BY <3>2 DEF Dropped, Update
      <4>2. n \in Nat /\ n >= g.reset /\ n >= t
        BY <3>0 DEF Later
      <4> HIDE DEF g, h, n
      <4> QED
        BY <2>3, <4>1, <4>2 DEF Entries
    <3> QED
      BY <3>1, <3>2
  <2>5. /\ i \in Entries /\ i.dir = d /\ i.attempted = e.attempted /\ i.reset = h.reset
        /\ r = "reset" => i.sample = h.sample
    BY <2>4 DEF Sampled, Entries, Update
  <2>6. /\ m.dir = d /\ m.attempted >= e.attempted /\ m.attempted >= t
        /\ m.reset = i.reset /\ m.sample = i.sample
    BY <2>5 DEF Attempted, Later, Entries, Update
  <2> HIDE DEF g, h, i, m
  <2>7. g.reset \in Nat /\ h.reset \in Nat /\ e.reset \in Nat
    BY <2>3, <2>4 DEF Entries
  <2> QED
    BY <2>1, <2>2, <2>3, <2>4, <2>5, <2>6, <2>7
<1> QED
  BY <1>1, <1>2

\* What is too old stays too old.
LEMMA MergedStale ==
    ASSUME NEW e \in Entries \cup {NoEntry}, NEW d \in Dir, NEW s \in Nat, NEW t \in Nat,
           NEW r \in Outcomes, NEW d2 \in Dir, NEW t2 \in Nat, Stale(e, d2, t2),
           ValidEntry(e), s # 0 => t > 0
    PROVE  Stale(Merged(e, Update(d, s, t, r)), d2, t2)
<1> DEFINE m == Merged(e, Update(d, s, t, r))
<1>1. e \in Entries /\ m \in Entries /\ m # NoEntry
  BY MergedType, QuotaAssumption DEF Stale
<1>2. \/ m = e
      \/ /\ m.dir = d /\ m.attempted >= e.attempted /\ m.attempted >= t
         /\ e.dir = d => m.reset >= e.reset
         /\ e.dir # d => m.reset >= t /\ t >= e.attempted /\ t >= e.reset
  BY <1>1, MergedTimes
<1> HIDE DEF m
<1>3. /\ e.attempted \in Nat /\ e.reset \in Nat
      /\ m.attempted \in Nat /\ m.reset \in Nat
  BY <1>1 DEF Entries
<1>4. Stale(m, d2, t2)
  BY <1>1, <1>2, <1>3 DEF Stale, Later
<1> QED
  BY <1>4 DEF m

\* A reset later than all that happened drops the sample and bars what was
\* measured in the directory before.
LEMMA MergedReset ==
    ASSUME NEW e \in Entries \cup {NoEntry}, NEW d \in Dir, NEW t \in Nat,
           e # NoEntry =>
             ValidEntry(e) /\ e.started < t /\ e.reset < t /\ e.attempted < t
    PROVE  LET m == Merged(e, Update(d, 0, t, "reset")) IN
           /\ m.dir = d /\ m.sample = 0 /\ m # NoEntry
           /\ \A t2 \in Nat : t2 < t => Stale(m, d, t2)
<1> DEFINE f == IF e = NoEntry THEN Entry(d, 0, 0, 0, 0) ELSE e
           m == Merged(f, Update(d, 0, t, "reset"))
<1>1. f \in Entries /\ ValidEntry(f) /\ ~(f.dir # d /\ t < Later(f.attempted, f.reset))
  BY DEF Entries, Entry, Later, ValidEntry
<1>2. Merged(e, Update(d, 0, t, "reset")) = m
  BY QuotaAssumption, <1>1 DEF Merged, Update
<1>3. m \in Entries /\ m # NoEntry
  BY <1>1, MergedType, QuotaAssumption DEF Outcomes
<1> HIDE DEF f
<1>4. m.dir = d /\ m.reset >= t /\ m.sample = 0
  BY <1>1, MergedTimes DEF Outcomes
<1> HIDE DEF m
<1>5. \A t2 \in Nat : t2 < t => Stale(m, d, t2)
  BY <1>3, <1>4 DEF Stale, Entries
<1> QED
  BY <1>2, <1>3, <1>4, <1>5

---------------------------------------------------------------------------
(* Jobs, flights, and who touches what.                                    *)

LEMMA JobTypes ==
    ASSUME NEW j \in Jobs
    PROVE  j.at \in Nat /\ j.got \in Nat /\ j.dir \in Dir \cup {None} /\ j.result \in Outcomes
  BY DEF Jobs

LEMMA NoJobType == NoJob \in Jobs /\ NoJob.dir = None /\ NoJob.at = 0 /\ NoJob.got = 0
  BY DEF NoJob, Jobs, Outcomes

\* What p works on, after a step that says so.
Works(p, d, t, n) ==
    job' \in [Proc -> Jobs] /\ job'[p].dir = d /\ job'[p].at = t /\ job'[p].got = n

LEMMA WorkNew ==
    ASSUME QuotaTypeOK, NEW p \in Proc, NEW d \in Dir, Work(p, [NoJob EXCEPT !.dir = d])
    PROVE  Works(p, d, 0, 0)
<1> DEFINE k == [NoJob EXCEPT !.dir = d]
<1>1. k \in Jobs /\ k.dir = d /\ k.at = 0 /\ k.got = 0
  BY DEF NoJob, Jobs, Outcomes
<1>2. job \in [Proc -> Jobs] /\ job' = [job EXCEPT ![p] = k]
  BY DEF QuotaTypeOK, Work
<1> HIDE DEF k
<1> QED
  BY <1>1, <1>2 DEF Works

LEMMA WorkDir ==
    ASSUME QuotaTypeOK, NEW p \in Proc, NEW d \in Dir, Work(p, [job[p] EXCEPT !.dir = d])
    PROVE  Works(p, d, job[p].at, job[p].got)
<1> DEFINE j == job[p]
           k == [j EXCEPT !.dir = d]
<1>1. job \in [Proc -> Jobs] /\ job' = [job EXCEPT ![p] = k] /\ j \in Jobs
  BY DEF QuotaTypeOK, Work
<1> HIDE DEF j
<1>2. k \in Jobs /\ k.dir = d /\ k.at = j.at /\ k.got = j.got
  BY <1>1 DEF Jobs
<1> HIDE DEF k
<1> QED
  BY <1>1, <1>2 DEF Works, j

LEMMA WorkGot ==
    ASSUME QuotaTypeOK, NEW p \in Proc, NEW n \in Nat, Work(p, [job[p] EXCEPT !.got = n])
    PROVE  Works(p, job[p].dir, job[p].at, n)
<1> DEFINE j == job[p]
           k == [j EXCEPT !.got = n]
<1>1. job \in [Proc -> Jobs] /\ job' = [job EXCEPT ![p] = k] /\ j \in Jobs
  BY DEF QuotaTypeOK, Work
<1> HIDE DEF j
<1>2. k \in Jobs /\ k.dir = j.dir /\ k.at = j.at /\ k.got = n
  BY <1>1 DEF Jobs
<1> HIDE DEF k
<1> QED
  BY <1>1, <1>2 DEF Works, j

LEMMA WorkAt ==
    ASSUME QuotaTypeOK, NEW p \in Proc, NEW t \in Nat, Work(p, [job[p] EXCEPT !.at = t])
    PROVE  Works(p, job[p].dir, t, job[p].got)
<1> DEFINE j == job[p]
           k == [j EXCEPT !.at = t]
<1>1. job \in [Proc -> Jobs] /\ job' = [job EXCEPT ![p] = k] /\ j \in Jobs
  BY DEF QuotaTypeOK, Work
<1> HIDE DEF j
<1>2. k \in Jobs /\ k.dir = j.dir /\ k.at = t /\ k.got = j.got
  BY <1>1 DEF Jobs
<1> HIDE DEF k
<1> QED
  BY <1>1, <1>2 DEF Works, j

LEMMA WorkProbe ==
    ASSUME QuotaTypeOK, NEW p \in Proc, NEW t \in Nat, NEW n \in Nat,
           Work(p, [job[p] EXCEPT !.at = t, !.got = n])
    PROVE  Works(p, job[p].dir, t, n)
<1> DEFINE j == job[p]
           k == [j EXCEPT !.at = t, !.got = n]
<1>1. job \in [Proc -> Jobs] /\ job' = [job EXCEPT ![p] = k] /\ j \in Jobs
  BY DEF QuotaTypeOK, Work
<1> HIDE DEF j
<1>2. k \in Jobs /\ k.dir = j.dir /\ k.at = t /\ k.got = n
  BY <1>1 DEF Jobs
<1> HIDE DEF k
<1> QED
  BY <1>1, <1>2 DEF Works, j

LEMMA WorkResult ==
    ASSUME QuotaTypeOK, NEW p \in Proc, NEW r \in Outcomes,
           Work(p, [job[p] EXCEPT !.result = r])
    PROVE  Works(p, job[p].dir, job[p].at, job[p].got)
<1> DEFINE j == job[p]
           k == [j EXCEPT !.result = r]
<1>1. job \in [Proc -> Jobs] /\ job' = [job EXCEPT ![p] = k] /\ j \in Jobs
  BY DEF QuotaTypeOK, Work
<1> HIDE DEF j
<1>2. k \in Jobs /\ k.dir = j.dir /\ k.at = j.at /\ k.got = j.got
  BY <1>1 DEF Jobs
<1> HIDE DEF k
<1> QED
  BY <1>1, <1>2 DEF Works, j

LEMMA WorkSeen ==
    ASSUME QuotaTypeOK, NEW p \in Proc, NEW ok \in BOOLEAN,
           Work(p, [job[p] EXCEPT !.got = Seen(ok, @), !.result = Ready(ok)])
    PROVE  \E n \in {0, job[p].got} : Works(p, job[p].dir, job[p].at, n)
<1> DEFINE j == job[p]
           k == [j EXCEPT !.got = Seen(ok, @), !.result = Ready(ok)]
<1>1. job \in [Proc -> Jobs] /\ job' = [job EXCEPT ![p] = k] /\ j \in Jobs
  BY DEF QuotaTypeOK, Work
<1> HIDE DEF j
<1>2. k \in Jobs /\ k.dir = j.dir /\ k.at = j.at /\ k.got \in {0, j.got}
  BY <1>1 DEF Jobs, Seen, Ready, Outcomes
<1> HIDE DEF k
<1> QED
  BY <1>1, <1>2 DEF Works, j

LEMMA FlightTypes ==
    /\ NoFlight \in Flights /\ NoFlight.at = 0 /\ NoFlight.got = 0 /\ NoFlight.stage = "none"
    /\ \A s \in {"none", "started", "probing", "done"} :
         LET f == [NoFlight EXCEPT !.stage = s] IN
         f \in Flights /\ f.stage = s /\ f.at = 0 /\ f.got = 0
    /\ \A f \in Flights :
         /\ f.at \in Nat /\ f.got \in Nat
         /\ \A n \in Nat : LET g == [f EXCEPT !.stage = "done", !.got = n] IN
              g \in Flights /\ g.stage = "done" /\ g.at = f.at /\ g.got = n
  BY DEF NoFlight, Flights

Step(p) == Login(p) \/ Session(p) \/ Refresh(p) \/ Rm(p) \/ Sync(p) \/ Kill(p)
Outer   == Helper \/ FlightEnds \/ AgyEnds \/ Interrupt \/ OtherMachine

\* The end of a command, on the locks.
LEMMA EndsLocks ==
    ASSUME QuotaTypeOK, NEW p \in Proc, Ends(p)
    PROVE  /\ pc' = [pc EXCEPT ![p] = "idle"] /\ job' = [job EXCEPT ![p] = NoJob]
           /\ pc'[p] = "idle" /\ job'[p] = NoJob
           /\ \A q \in Proc : q # p => pc'[q] = pc[q] /\ job'[q] = job[q]
           /\ lease' \in [Dir -> Proc \cup {Nobody}]
           /\ \A d \in Dir : lease'[d] = IF lease[d] = p THEN Nobody ELSE lease[d]
           /\ registryLock' = IF registryLock = p THEN Nobody ELSE registryLock
           /\ syncLock' = IF syncLock = p THEN Nobody ELSE syncLock
<1>1. /\ pc' = [pc EXCEPT ![p] = "idle"] /\ job' = [job EXCEPT ![p] = NoJob]
      /\ lease' = [d \in Dir |-> IF lease[d] = p THEN Nobody ELSE lease[d]]
      /\ registryLock' = IF registryLock = p THEN Nobody ELSE registryLock
      /\ syncLock' = IF syncLock = p THEN Nobody ELSE syncLock
  BY DEF Ends, Goto, Work, Without
<1>2. pc \in [Proc -> Steps] /\ job \in [Proc -> Jobs] /\ lease \in [Dir -> Proc \cup {Nobody}]
  BY DEF QuotaTypeOK
<1>3. \A d \in Dir : lease'[d] = IF lease[d] = p THEN Nobody ELSE lease[d]
  BY <1>1, <1>2
<1>4. lease' \in [Dir -> Proc \cup {Nobody}]
  BY <1>1, <1>2
<1>5. pc'[p] = "idle" /\ job'[p] = NoJob
  BY <1>1, <1>2
<1>6. \A q \in Proc : q # p => pc'[q] = pc[q] /\ job'[q] = job[q]
  BY <1>1, <1>2
<1> QED
  BY <1>1, <1>3, <1>4, <1>5, <1>6


\* A process moves itself alone, takes only what is free, and lets go only of
\* what it has.
Apart(p) == \A q \in Proc : q # p =>
    /\ pc'[q] = pc[q] /\ job'[q] = job[q]
    /\ \A d \in Dir : lease[d] = q => lease'[d] = q
    /\ registryLock = q => registryLock' = q /\ removal' = removal
    /\ syncLock = q => syncLock' = q

LEMMA EndsApart ==
    ASSUME QuotaTypeOK, NEW p \in Proc, Ends(p), registryLock = p \/ removal' = removal
    PROVE  Apart(p)
  BY EndsLocks, QuotaAssumption DEF Apart

LEMMA StepsApart ==
    ASSUME QuotaTypeOK, NEW p \in Proc, LocksHeld(p), Step(p)
    PROVE  Apart(p)
<1> USE QuotaAssumption DEF Goto, Work, Free, Lease, Begin, Unlocked, MeasureFrame, SessionFrame,
        SyncFrame
<1>0. /\ pc \in [Proc -> Steps] /\ job \in [Proc -> Jobs]
      /\ lease \in [Dir -> Proc \cup {Nobody}]
  BY DEF QuotaTypeOK
<1>1. CASE Ends(p) /\ (registryLock = p \/ removal' = removal)
  BY <1>1, EndsApart
<1>2. CASE Login(p)
  BY <1>0, <1>1, <1>2 DEF Apart, Login, LoginBegins, LoginResets, SignsIn, LoginSucceeds,
     LoginFails, Registers, ExitProbes, ExitMerges, locks, registryVars
<1>3. CASE Session(p)
  <2>1. CASE Leaves(p)
    BY <1>0, <1>1, <2>1 DEF Apart, Leaves, locks, registryVars
  <2>2. CASE ~Leaves(p)
    BY <1>0, <1>3, <2>2 DEF Apart, Session, Bridge, RunBegins, Polls, PollFails, FlightProbes,
       StopsAgy, Closes, Joins, locks, registryVars
  <2> QED
    BY <2>1, <2>2
<1>4. CASE Refresh(p)
  BY <1>0, <1>1, <1>4 DEF Apart, Refresh, RefreshBegins, MeasureBegins, Unmeasured, Measures,
     MeasureEnds, Records, Without, locks, registryVars
<1>5. CASE Rm(p)
  <2>1. CASE RmBegins(p)
    BY <1>0, <2>1 DEF Apart, RmBegins
  <2>2. CASE RmFinishes(p)
    <3>1. registryLock = p
      BY <2>2 DEF RmFinishes, LocksHeld
    <3> QED
      BY <1>1, <2>2, <3>1 DEF RmFinishes
  <2>3. CASE RecoversRemoval(p)
    BY <1>0, <2>3 DEF Apart, RecoversRemoval, locks
  <2>4. CASE RecoveryFails(p)
    BY <1>1, <2>4 DEF RecoveryFails, registryVars
  <2> QED
    BY <1>5, <2>1, <2>2, <2>3, <2>4 DEF Rm
<1>6. CASE Sync(p)
  <2>1. removal' = removal
    BY <1>6 DEF Sync, SyncBegins, RecoversImport, Exports, Clones, Publishes, Fetches,
       KeepsLabel, PlansImport, Stages, CommitsImport, ForgetsImport, ImportFails, registryVars
  <2>2. CASE ~Ends(p) /\ ~ImportFails(p)
    <3>1. CASE SyncBegins(p)
      BY <1>0, <2>1, <3>1 DEF Apart, SyncBegins
    <3>2. CASE RecoversImport(p)
      BY <1>0, <2>1, <2>2, <3>2 DEF Apart, RecoversImport, locks
    <3>3. CASE Exports(p) \/ Clones(p) \/ Fetches(p)
      BY <1>0, <2>1, <2>2, <3>3 DEF Apart, Exports, Clones, Fetches, locks
    <3>4. CASE PlansImport(p)
      BY <1>0, <2>1, <3>4 DEF Apart, PlansImport
    <3>5. CASE Stages(p) \/ CommitsImport(p)
      BY <1>0, <2>1, <3>5 DEF Apart, Stages, CommitsImport, locks
    <3> QED
      BY <1>6, <2>2, <3>1, <3>2, <3>3, <3>4, <3>5 DEF Sync, Publishes, KeepsLabel, ForgetsImport
  <2>3. CASE ImportFails(p)
    <3>1. registryLock = p
      BY <2>3 DEF ImportFails, LocksHeld, ImportHeld
    <3> QED
      BY <1>0, <2>3, <3>1 DEF Apart, ImportFails
  <2> QED
    BY <1>1, <2>1, <2>2, <2>3
<1>7. CASE Kill(p)
  BY <1>1, <1>7 DEF Kill, registryVars
<1> QED
  BY <1>2, <1>3, <1>4, <1>5, <1>6, <1>7 DEF Step

\* What nobody does by a step of his own touches no process and no directory.
LEMMA OuterFrame ==
    ASSUME Outer
    PROVE  UNCHANGED <<registryVars, dirs, entry, locks, pc, job, unreset>>
  BY DEF past, Outer, Helper, FlightEnds, AgyEnds, Interrupt, OtherMachine, SessionFrame, SyncFrame,
     registryVars

\* One process has a session: it leases the directory of the label.
LEMMA OneSession ==
    ASSUME QuotaInv, NEW p \in Proc, NEW q \in Proc,
           pc[p] \in InSession, pc[q] \in InSession \cup {"exit", "probing"}
    PROVE  p = q
  BY DEF QuotaInv, LocksHeld, Registered, InSession, Holding


\* Where a process is, and what it works on, after a step that says so.
LEMMA Moves ==
    ASSUME QuotaTypeOK, NEW p \in Proc
    PROVE  /\ \A s : Goto(p, s) => pc'[p] = s
           /\ \A j : Work(p, j) => job'[p] = j
           /\ job[p] \in Jobs
           /\ \A d \in Dir : Lease(p, d) => lease[d] = Nobody /\ lease'[d] = p
  BY DEF QuotaTypeOK, Goto, Work, Lease, Free

---------------------------------------------------------------------------
(* Locks.                                                                  *)

LEMMA IdleSafe ==
    ASSUME NEW p \in Proc, pc'[p] = "idle"
    PROVE  LocksHeld(p)' /\ Registered(p)' /\ Barred(p)'
  BY DEF LocksHeld, Registered, Barred, Uses, Holding, LoginSteps, InSession, ImportHeld,
     SyncSteps

LEMMA EndsSafe ==
    ASSUME QuotaTypeOK, NEW p \in Proc, Ends(p)
    PROVE  LocksHeld(p)' /\ Registered(p)' /\ Barred(p)'
  BY EndsLocks, IdleSafe

\* What there is to show, by the kind of the next step.
LEMMA HeldSafe ==
    ASSUME NEW p \in Proc,
           \/ /\ pc'[p] \in Holding
              /\ job'[p].dir \in Dir /\ lease'[job'[p].dir] = p
           \/ pc'[p] \in {"measure", "lease", "record"} /\ job'[p].dir \in Dir
           \/ pc'[p] \in SyncSteps \ ImportHeld /\ syncLock' = p
           \/ /\ pc'[p] \in ImportHeld
              /\ syncLock' = p /\ registryLock' = p /\ removal' = None
    PROVE  LocksHeld(p)'
  BY DEF LocksHeld, Uses, Holding, LoginSteps, InSession, ImportHeld, SyncSteps

LEMMA LocksSelf ==
    ASSUME QuotaInv, NEW p \in Proc, Step(p)
    PROVE  LocksHeld(p)'
<1>0. QuotaTypeOK /\ LocksHeld(p) /\ Registered(p) /\ Registry
  BY DEF QuotaInv
<1>1. CASE Ends(p)
  BY <1>0, <1>1, EndsSafe
<1>a. /\ pc[p] \in Uses => job[p].dir \in Dir
      /\ pc[p] \in Holding => lease[job[p].dir] = p /\ job[p].dir \in Dir
      /\ pc[p] \in SyncSteps => syncLock = p
      /\ pc[p] \in ImportHeld => registryLock = p /\ removal = None
  BY <1>0 DEF LocksHeld, Uses
<1>b. job[p] \in Jobs /\ registry \in Dir \cup {None} /\ \A d \in Dir : login[d] \in Nat
  BY <1>0, Moves DEF QuotaTypeOK
<1> USE DEF Uses, Holding, LoginSteps, InSession, ImportHeld, SyncSteps
<1>2. CASE Login(p)
  <2>1. CASE LoginBegins(p)
    <3> DEFINE d == IF registry = None THEN Own ELSE registry
    <3>1. d \in Dir
      BY <1>0 DEF Dir, QuotaTypeOK
    <3>2. pc'[p] = "reset" /\ Work(p, [NoJob EXCEPT !.dir = d]) /\ lease'[d] = p
      BY <1>0, Moves, <2>1, <3>1 DEF LoginBegins
    <3> HIDE DEF d
    <3>3. job'[p].dir = d
      BY <1>0, <3>1, <3>2, WorkNew DEF Works
    <3> QED
      BY <3>1, <3>2, <3>3, HeldSafe
  <2>2. CASE LoginResets(p) \/ LoginSucceeds(p) \/ Registers(p)
    <3>1. pc'[p] \in Holding /\ pc[p] \in Holding /\ UNCHANGED <<lease, job>>
      BY <1>0, Moves, <2>2 DEF LoginResets, LoginSucceeds, Registers, locks
    <3> QED
      BY <1>a, <3>1, HeldSafe
  <2>3. CASE SignsIn(p)
    <3>1. pc'[p] = "signin" /\ pc[p] = "signin" /\ lease' = lease
      BY <1>0, Moves, <2>3 DEF SignsIn, locks
    <3>2. job'[p].dir = job[p].dir
      BY <1>0, <2>3, NewLoginType, WorkGot DEF SignsIn, Works
    <3> QED
      BY <1>a, <3>1, <3>2, HeldSafe
  <2>4. CASE ExitProbes(p)
    <3>1. pc'[p] = "probing" /\ pc[p] = "exit" /\ lease' = lease
      BY <1>0, Moves, <2>4 DEF ExitProbes, locks
    <3>2. job'[p].dir = job[p].dir
      BY <1>0, <1>a, <1>b, <2>4, <3>1, NowIsLater, WorkProbe DEF ExitProbes, Works
    <3> QED
      BY <1>a, <3>1, <3>2, HeldSafe
  <2> QED
    BY <1>1, <1>2, <2>1, <2>2, <2>3, <2>4 DEF Login, LoginFails, ExitMerges
<1>3. CASE Session(p)
  <2>1. CASE RunBegins(p)
    <3>1. pc'[p] = "session" /\ registry \in Dir /\ lease'[registry] = p
      BY <1>0, Moves, <2>1 DEF RunBegins
    <3>2. job'[p].dir = registry
      BY <1>0, <2>1, <3>1, WorkNew DEF RunBegins, Works
    <3> QED
      BY <3>1, <3>2, HeldSafe
  <2>2. CASE ~RunBegins(p) /\ ~Ends(p)
    <3>1. pc'[p] \in {"session", "joining", "exit"} /\ pc[p] \in {"session", "joining"}
          /\ UNCHANGED <<lease, job>>
      BY <1>0, Moves, <1>3, <2>2 DEF Session, Bridge, Polls, PollFails, FlightProbes, StopsAgy,
         Closes, Joins, Leaves, locks, SessionFrame, QuotaTypeOK
    <3> QED
      BY <1>a, <3>1, HeldSafe
  <2> QED
    BY <1>1, <2>1, <2>2
<1>4. CASE Refresh(p)
  <2>1. CASE RefreshBegins(p)
    <3>1. pc'[p] = "measure" /\ registry \in Dir
      BY <1>0, <1>b, Moves, <2>1 DEF RefreshBegins
    <3>2. job'[p].dir = registry
      BY <1>0, <2>1, <3>1, WorkNew DEF RefreshBegins, Works
    <3> QED
      BY <3>1, <3>2, HeldSafe
  <2>2. CASE MeasureBegins(p)
    <3>1. pc[p] = "measure" /\ pc'[p] = "lease"
      BY <1>0, Moves, <2>2 DEF MeasureBegins
    <3>2. job'[p].dir = job[p].dir
      BY <1>0, <2>2, NowIsLater, WorkAt DEF MeasureBegins, Works
    <3> QED
      BY <1>a, <3>1, <3>2, HeldSafe
  <2>3. CASE Unmeasured(p)
    <3>1. pc[p] = "lease" /\ pc'[p] = "record"
      BY <1>0, Moves, <2>3 DEF Unmeasured
    <3>2. PICK r \in Outcomes : Work(p, [job[p] EXCEPT !.result = r])
      BY <2>3 DEF Unmeasured, Outcomes
    <3>3. job'[p].dir = job[p].dir
      BY <1>0, <3>2, WorkResult DEF Works
    <3> QED
      BY <1>a, <3>1, <3>3, HeldSafe
  <2>4. CASE Measures(p)
    <3>1. pc[p] = "lease" /\ pc'[p] = "measuring" /\ lease'[job[p].dir] = p
          /\ job[p].dir \in Dir
      BY <1>0, <1>a, Moves, <2>4 DEF Measures
    <3>2. job'[p].dir = job[p].dir
      BY <1>0, <1>b, <2>4, <3>1, WorkGot DEF Measures, Works
    <3> QED
      BY <3>1, <3>2, HeldSafe
  <2>5. CASE MeasureEnds(p)
    <3>1. PICK ok \in BOOLEAN :
            Work(p, [job[p] EXCEPT !.got = Seen(ok, @), !.result = Ready(ok)])
      BY <2>5 DEF MeasureEnds
    <3>2. pc[p] = "measuring" /\ pc'[p] = "record"
      BY <1>0, Moves, <2>5 DEF MeasureEnds
    <3>3. job'[p].dir = job[p].dir
      BY <1>0, <3>1, WorkSeen DEF Works
    <3> QED
      BY <1>a, <3>2, <3>3, HeldSafe
  <2> QED
    BY <1>1, <1>4, <2>1, <2>2, <2>3, <2>4, <2>5 DEF Refresh, Records
<1>5. CASE Rm(p)
  <2>1. CASE RmBegins(p)
    <3>1. registry \in Dir /\ pc'[p] = "rm" /\ lease'[registry] = p /\ registryLock' = p
          /\ removal' = [dir |-> registry, at |-> Now] /\ removal' \in Removals
      BY <1>0, <1>b, Moves, <2>1, NowIsLater DEF RmBegins, Removals
    <3>2. removal' # None /\ removal'.dir = registry
      BY <3>1, QuotaAssumption
    <3> QED
      BY <3>1, <3>2 DEF LocksHeld
  <2>2. CASE RecoversRemoval(p)
    <3>1. UNCHANGED <<locks, pc, job>> /\ pc[p] \in Locking /\ registryLock = Nobody
      BY <2>2 DEF RecoversRemoval
    <3>2. pc[p] \notin ImportHeld \cup {"rm"}
      BY <3>1 DEF Locking
    <3> QED
      BY <1>0, <3>1, <3>2 DEF LocksHeld, locks
  <2> QED
    BY <1>1, <1>5, <2>1, <2>2 DEF Rm, RmFinishes, RecoveryFails
<1>6. CASE Sync(p)
  <2>1. removal' = removal
    BY <1>6 DEF Sync, SyncBegins, RecoversImport, Exports, Clones, Publishes, Fetches,
       KeepsLabel, PlansImport, Stages, CommitsImport, ForgetsImport, ImportFails, registryVars,
       SyncFrame
  <2>2. CASE SyncBegins(p)
    <3>1. pc'[p] \in {"push", "pull"} /\ syncLock' = p
      BY <1>0, <2>2 DEF SyncBegins, QuotaTypeOK
    <3> QED
      BY <3>1, HeldSafe
  <2>3. CASE RecoversImport(p) \/ Exports(p) \/ Clones(p) \/ Fetches(p)
    <3>1. CASE ~Ends(p)
      <4>1. pc[p] \in SyncSteps /\ pc'[p] \in SyncSteps \ ImportHeld /\ syncLock' = syncLock
        BY <1>0, Moves, <2>3, <3>1 DEF RecoversImport, Exports, Clones, Fetches, locks
      <4> QED
        BY <1>a, <4>1, HeldSafe
    <3> QED
      BY <1>1, <3>1
  <2>4. CASE PlansImport(p)
    <3>1. pc[p] = "import" /\ pc'[p] = "stage" /\ syncLock' = syncLock /\ registryLock' = p
          /\ removal = None
      BY <1>0, Moves, <2>4 DEF PlansImport, Unlocked
    <3> QED
      BY <1>a, <2>1, <3>1, HeldSafe
  <2>5. CASE Stages(p) \/ CommitsImport(p)
    <3>1. pc[p] \in ImportHeld /\ pc'[p] \in ImportHeld /\ UNCHANGED locks
      BY <1>0, Moves, <2>5 DEF Stages, CommitsImport
    <3> QED
      BY <1>a, <2>1, <3>1, HeldSafe DEF locks
  <2>6. CASE ImportFails(p)
    <3>1. pc[p] \in ImportHeld /\ pc'[p] = "cleanup" /\ syncLock' = syncLock
      BY <1>0, Moves, <2>6 DEF ImportFails
    <3> QED
      BY <1>a, <3>1, HeldSafe
  <2> QED
    BY <1>1, <1>6, <2>2, <2>3, <2>4, <2>5, <2>6
    DEF Sync, Publishes, KeepsLabel, ForgetsImport
<1>7. CASE Kill(p)
  BY <1>1, <1>7 DEF Kill
<1> QED
  BY <1>2, <1>3, <1>4, <1>5, <1>6, <1>7 DEF Step

LEMMA LocksOthers ==
    ASSUME QuotaInv, NEW p \in Proc, Step(p), NEW q \in Proc, q # p
    PROVE  LocksHeld(q)'
<1>1. QuotaTypeOK /\ LocksHeld(p) /\ LocksHeld(q)
  BY DEF QuotaInv
<1>2. Apart(p)
  BY <1>1, StepsApart
<1>3. /\ pc'[q] = pc[q] /\ job'[q] = job[q]
      /\ \A d \in Dir : lease[d] = q => lease'[d] = q
      /\ registryLock = q => registryLock' = q /\ removal' = removal
      /\ syncLock = q => syncLock' = q
  BY <1>2 DEF Apart
<1>4. removal # None => removal.dir \in Dir
  BY <1>1 DEF QuotaTypeOK, Removals
<1>5. pc[q] \in Holding => job[q].dir \in Dir
  BY <1>1 DEF LocksHeld, Uses
<1> QED
  BY <1>1, <1>3, <1>4, <1>5 DEF LocksHeld


---------------------------------------------------------------------------
(* The registry and the directories.                                       *)

\* The steps that change them.
Tracked == <<registry, import, place, login, used>>
Writes(p) ==
    \/ LoginBegins(p) \/ SignsIn(p) \/ Registers(p) \/ RmFinishes(p) \/ RecoversRemoval(p)
    \/ RecoversImport(p) \/ PlansImport(p) \/ Stages(p) \/ CommitsImport(p) \/ ForgetsImport(p)
    \/ ImportFails(p)

LEMMA OnlyWrites ==
    ASSUME NEW p \in Proc, Step(p), ~Writes(p)
    PROVE  UNCHANGED Tracked
<1> USE DEF Writes, Tracked, registryVars, dirs, SessionFrame, MeasureFrame, SyncFrame
<1>1. CASE Login(p)
  BY <1>1 DEF Login, LoginResets, LoginSucceeds, LoginFails, ExitProbes, ExitMerges
<1>2. CASE Session(p)
  BY <1>2 DEF Session, Bridge, RunBegins, Polls, PollFails, FlightProbes, StopsAgy, Closes,
     Joins, Leaves
<1>3. CASE Refresh(p)
  BY <1>3 DEF Refresh, RefreshBegins, MeasureBegins, Unmeasured, Measures, MeasureEnds, Records
<1>4. CASE Rm(p)
  BY <1>4 DEF Rm, RmBegins, RecoveryFails
<1>5. CASE Sync(p)
  BY <1>5 DEF Sync, SyncBegins, Exports, Clones, Publishes, Fetches, KeepsLabel
<1>6. CASE Kill(p)
  BY <1>6 DEF Kill
<1> QED
  BY <1>1, <1>2, <1>3, <1>4, <1>5, <1>6 DEF Step

\* The parts of the invariant on them, for one process and for all.
LEMMA WritersKnow ==
    ASSUME QuotaInv, NEW p \in Proc
    PROVE  /\ registry \in Dir \cup {None} /\ import \in Imports \cup {None}
           /\ place \in [Dir -> {"absent", "staged", "present"}] /\ login \in [Dir -> Nat]
           /\ used \subseteq Imports /\ Imports \subseteq Dir /\ Own \in Dir /\ Own \notin Imports
           /\ None \notin Dir
           /\ removal # None => registry = removal.dir /\ registry \in Dir
           /\ registry # None => place[registry] = "present" /\ login[registry] # 0
           /\ registry \in {None, Own} \cup used
           /\ \A d \in Imports : place[d] # "absent" => d \in {registry, import}
           /\ pc[p] \in LoginSteps =>
                /\ job[p].dir \in Dir /\ lease[job[p].dir] = p
                /\ place[job[p].dir] = "present" /\ registry \in {None, job[p].dir}
                /\ job[p].dir = Own \/ registry = job[p].dir
           /\ pc[p] = "register" => login[job[p].dir] # 0
           /\ pc[p] \in InSession \cup {"exit", "probing"} =>
                job[p].dir \in Dir /\ lease[job[p].dir] = p /\ registry = job[p].dir
           /\ pc[p] \in ImportHeld =>
                /\ removal = None /\ registryLock = p /\ syncLock = p
                /\ import = job[p].dir /\ import \in used
<1>1. QuotaTypeOK /\ LocksHeld(p) /\ Registered(p) /\ Registry
  BY DEF QuotaInv
<1>2. /\ registry \in Dir \cup {None} /\ import \in Imports \cup {None}
      /\ place \in [Dir -> {"absent", "staged", "present"}] /\ login \in [Dir -> Nat]
      /\ used \subseteq Imports /\ Imports \subseteq Dir /\ Own \in Dir /\ Own \notin Imports
      /\ None \notin Dir
      /\ removal # None => removal.dir \in Dir
  BY <1>1, QuotaAssumption DEF QuotaTypeOK, Dir, Removals
<1>3. /\ removal # None => registry = removal.dir
      /\ registry # None => place[registry] = "present" /\ login[registry] # 0
      /\ registry \in {None, Own} \cup used
      /\ \A d \in Imports : place[d] # "absent" => d \in {registry, import}
  BY <1>1 DEF Registry, ImportResolvable, Present, HasLogin
<1>4. /\ pc[p] \in LoginSteps =>
                /\ job[p].dir \in Dir /\ lease[job[p].dir] = p
                /\ place[job[p].dir] = "present" /\ registry \in {None, job[p].dir}
                /\ job[p].dir = Own \/ registry = job[p].dir
      /\ pc[p] = "register" => login[job[p].dir] # 0
      /\ pc[p] \in InSession \cup {"exit", "probing"} =>
            job[p].dir \in Dir /\ lease[job[p].dir] = p /\ registry = job[p].dir
  BY <1>1 DEF LocksHeld, Registered, Present, HasLogin, Holding, Uses
<1>5. /\ pc[p] \in ImportHeld =>
                /\ removal = None /\ registryLock = p /\ syncLock = p
                /\ import = job[p].dir /\ import \in used
  BY <1>1 DEF LocksHeld, Registered, SyncSteps
<1> QED
  BY <1>2, <1>3, <1>4, <1>5

LEMMA RegistryKept ==
    ASSUME QuotaInv, NEW p \in Proc, Step(p)
    PROVE  Registry'
<1>0. /\ QuotaTypeOK /\ LocksHeld(p) /\ Registered(p) /\ Registry
      /\ pc[p] \in Steps
  BY DEF QuotaInv, QuotaTypeOK
<1> USE WritersKnow DEF Present, HasLogin, Unlocked, Registry, ImportResolvable
<1>1. CASE ~Writes(p)
  <2>1. UNCHANGED <<registry, import, place, login, used>>
    BY <1>1, OnlyWrites DEF Tracked
  <2>2. removal' = removal \/ RmBegins(p)
    BY <1>1 DEF Step, Login, Session, Bridge, Refresh, Rm, Sync, Writes, LoginResets,
       LoginSucceeds, LoginFails, ExitProbes, ExitMerges, RunBegins, Polls, PollFails,
       FlightProbes, StopsAgy, Closes, Joins, Leaves, RefreshBegins, MeasureBegins, Unmeasured,
       Measures, MeasureEnds, Records, RecoveryFails, SyncBegins, Exports, Clones, Publishes,
       Fetches, KeepsLabel, Kill, registryVars, SessionFrame, MeasureFrame, SyncFrame
  <2>3. removal' # None => registry' = removal'.dir
    <3>1. CASE removal' = removal
      BY <2>1, <3>1
    <3>2. CASE RmBegins(p)
      BY <2>1, <3>2 DEF RmBegins
    <3> QED
      BY <2>2, <3>1, <3>2
  <2> QED
    BY <2>1, <2>3
<1>2. CASE LoginBegins(p)
  BY <1>2 DEF LoginBegins, registryVars
<1>3. CASE SignsIn(p)
  BY <1>3, NewLoginType DEF SignsIn, registryVars
<1>4. CASE Registers(p)
  BY <1>4 DEF Registers, dirs, LoginSteps
<1>5. CASE Removed /\ removal # None
  <2>1. /\ place' = [place EXCEPT ![registry] = "absent"] /\ registry' = None
        /\ removal' = None /\ UNCHANGED <<import, used>>
    BY <1>5 DEF Removed
  <2> QED
    BY <1>5, <2>1
<1>6. CASE RecoversImport(p)
  BY <1>6 DEF RecoversImport, Cleans, SyncFrame
<1>7. CASE PlansImport(p)
  <2>1. import = None
    BY <1>0, <1>7 DEF PlansImport, Registered
  <2> QED
    BY <2>1, <1>7 DEF PlansImport, SyncFrame
<1>8. CASE Stages(p)
  <2>1. pc[p] \in {"stage", "move"} /\ registry = None /\ job[p].dir = import
        /\ import \in Imports
    BY <1>0, <1>8 DEF Stages, Registered, ImportHeld
  <2>2. removal' = removal /\ UNCHANGED <<registry, import, used>>
    BY <1>8 DEF Stages, SyncFrame
  <2>3. \A d \in Dir \ {import} : place'[d] = place[d]
    BY <1>8, <2>1 DEF Stages
  <2> QED
    BY <2>1, <2>2, <2>3
<1>9. CASE CommitsImport(p) \/ ImportFails(p)
  <2>1. removal' = None /\ UNCHANGED <<import, place, login, used>>
    BY <1>9 DEF CommitsImport, ImportFails, ImportHeld, SyncFrame, dirs
  <2>2. \/ registry' = registry
        \/ pc[p] = "commit" /\ registry' = job[p].dir
    BY <1>9 DEF CommitsImport, ImportFails
  <2>3. pc[p] = "commit" =>
          /\ registry = None /\ login[job[p].dir] # 0 /\ place[job[p].dir] = "present"
          /\ import = job[p].dir /\ import \in used
    BY <1>0 DEF Registered, ImportHeld
  <2> QED
    BY <2>1, <2>2, <2>3
<1>10. CASE ForgetsImport(p)
  <2>1. registry = import
    BY <1>0, <1>10 DEF ForgetsImport, Registered, ImportHeld
  <2> QED
    BY <2>1, <1>10 DEF ForgetsImport, SyncFrame, dirs
<1>11. RmFinishes(p) \/ RecoversRemoval(p) => Removed /\ removal # None
  BY <1>0 DEF RmFinishes, RecoversRemoval, LocksHeld
<1> QED
  BY <1>1, <1>2, <1>3, <1>4, <1>5, <1>6, <1>7, <1>8, <1>9, <1>10, <1>11 DEF Writes


LEMMA RegisteredOthers ==
    ASSUME QuotaInv, NEW p \in Proc, Step(p), NEW q \in Proc, q # p
    PROVE  Registered(q)'
<1>0. /\ QuotaTypeOK /\ LocksHeld(p) /\ Registered(p) /\ LocksHeld(q) /\ Registered(q)
      /\ pc'[q] = pc[q] /\ job'[q] = job[q] /\ p # Nobody /\ q # Nobody
  BY StepsApart, QuotaAssumption DEF QuotaInv, Apart
<1>a. /\ pc[p] \in SyncSteps => pc[q] \notin SyncSteps
      /\ pc[q] \in ImportHeld => registryLock = q
      /\ pc[q] \in {"fetch", "import", "export", "clone", "publish"} \cup ImportHeld =>
           pc[q] \in SyncSteps
  BY <1>0 DEF LocksHeld, SyncSteps, ImportHeld
<1>b. /\ pc[q] \in {"stage", "move", "commit"} => registry = None /\ place[Own] = "absent"
      /\ pc[q] \in {"move", "commit"} => login[job[q].dir] # 0
      /\ pc[q] = "commit" => place[job[q].dir] = "present"
      /\ pc[q] = "forget" => registry = job[q].dir
      /\ pc[q] \in {"import", "stage"} => job[q].got # 0
      /\ pc[q] \in {"fetch", "import", "export", "clone", "publish"} => import = None
  BY <1>0 DEF Registered, Present, HasLogin
<1>c. /\ pc[q] \in {"stage", "move", "commit", "forget"} => pc[q] \in ImportHeld
      /\ pc[q] = "register" => pc[q] \in LoginSteps
  BY DEF ImportHeld, LoginSteps
<1> DEFINE Know(r) ==
           /\ pc[r] \in LoginSteps =>
                /\ job[r].dir \in Dir /\ lease[job[r].dir] = r
                /\ place[job[r].dir] = "present" /\ registry \in {None, job[r].dir}
                /\ job[r].dir = Own \/ registry = job[r].dir
           /\ pc[r] = "register" => login[job[r].dir] # 0
           /\ pc[r] \in InSession \cup {"exit", "probing"} =>
                job[r].dir \in Dir /\ lease[job[r].dir] = r /\ registry = job[r].dir
           /\ pc[r] \in ImportHeld =>
                /\ removal = None /\ registryLock = r /\ syncLock = r
                /\ import = job[r].dir /\ import \in used
<1>d. /\ Know(p) /\ Know(q)
      /\ registry \in Dir \cup {None} /\ import \in Imports \cup {None}
      /\ place \in [Dir -> {"absent", "staged", "present"}] /\ login \in [Dir -> Nat]
      /\ used \subseteq Imports /\ Imports \subseteq Dir /\ Own \in Dir /\ Own \notin Imports
      /\ None \notin Dir
      /\ removal # None => registry = removal.dir /\ registry \in Dir
  BY WritersKnow
<1> USE <1>0, <1>b, <1>c, <1>d DEF Unlocked, Registered, Present, HasLogin
<1>1. CASE ~Writes(p)
  <2>1. UNCHANGED <<registry, import, place, login, used>>
    BY <1>1, OnlyWrites DEF Tracked
  <2> QED
    BY <2>1
<1>2. CASE LoginBegins(p)
  BY <1>2, <1>a DEF LoginBegins, registryVars
<1>3. CASE SignsIn(p)
  BY <1>3, NewLoginType DEF SignsIn, registryVars
<1>4. CASE Registers(p)
  BY <1>4, <1>a DEF Registers, dirs, LoginSteps
<1>5. CASE RmFinishes(p) \/ RecoversRemoval(p)
  <2>1. /\ registry \in Dir /\ lease[registry] # q /\ removal # None /\ registryLock # q
        /\ import' = import /\ used' = used
    BY <1>5 DEF RmFinishes, RecoversRemoval, LocksHeld, Free, Removed
  <2> QED
    BY <1>a, <2>1
<1>6. CASE RecoversImport(p)
  <2>1. pc[q] \notin SyncSteps
    BY <1>6, <1>a DEF RecoversImport, SyncSteps
  <2> QED
    BY <1>6, <1>a, <2>1 DEF RecoversImport, Cleans
<1>7. CASE PlansImport(p) \/ ForgetsImport(p)
  <2>1. pc[q] \notin SyncSteps /\ UNCHANGED <<registry, place, login>>
    BY <1>7, <1>a DEF PlansImport, ForgetsImport, SyncSteps, ImportHeld, dirs
  <2> QED
    BY <1>a, <2>1
<1>8. CASE Stages(p)
  <2>1. /\ pc[q] \notin SyncSteps /\ job[p].dir \in Imports /\ registry = None
        /\ registry' = registry
        /\ \A d \in Dir \ {job[p].dir} : place'[d] = place[d] /\ login'[d] = login[d]
    BY <1>8, <1>a DEF Stages, SyncSteps, ImportHeld
  <2> QED
    BY <1>a, <2>1
<1>9. CASE CommitsImport(p) \/ ImportFails(p)
  <2>1. pc[q] \notin SyncSteps /\ UNCHANGED <<place, login>>
    BY <1>9, <1>a DEF CommitsImport, ImportFails, SyncSteps, ImportHeld, dirs
  <2>2. \/ registry' = registry
        \/ registry = None /\ place[Own] = "absent" /\ registry' = job[p].dir
    BY <1>9 DEF CommitsImport, ImportFails
  <2> QED
    BY <1>a, <2>1, <2>2
<1> QED
  BY <1>1, <1>2, <1>3, <1>4, <1>5, <1>6, <1>7, <1>8, <1>9 DEF Writes

LEMMA RegisteredSelf ==
    ASSUME QuotaInv, NEW p \in Proc, Step(p)
    PROVE  Registered(p)'
<1>0. QuotaTypeOK /\ LocksHeld(p) /\ Registered(p) /\ Registry
  BY DEF QuotaInv
<1>1. CASE Ends(p)
  BY <1>0, <1>1, EndsSafe
<1> USE <1>0, WritersKnow DEF Registered, Present, HasLogin, LoginSteps, InSession, ImportHeld
<1>2. CASE Login(p)
  <2>1. CASE LoginBegins(p)
    <3> DEFINE d == IF registry = None THEN Own ELSE registry
    <3>1. d \in Dir /\ registry \in {None, d} /\ (d = Own \/ registry = d)
      OBVIOUS
    <3>2. pc'[p] = "reset" /\ Work(p, [NoJob EXCEPT !.dir = d]) /\ place'[d] = "present"
          /\ registry' = registry
      BY Moves, <2>1, <3>1 DEF LoginBegins, registryVars
    <3> HIDE DEF d
    <3>3. job'[p].dir = d
      BY <3>1, <3>2, WorkNew DEF Works
    <3> QED
      BY <3>1, <3>2, <3>3
  <2>2. CASE LoginResets(p) \/ LoginSucceeds(p)
    <3>1. /\ pc[p] \in {"reset", "signin"} /\ UNCHANGED <<registry, place, job>>
          /\ pc'[p] = "signin" \/ (pc'[p] = "register" /\ login'[job'[p].dir] # 0)
      BY Moves, <2>2 DEF LoginResets, LoginSucceeds, dirs, registryVars
    <3> QED
      BY <3>1
  <2>3. CASE SignsIn(p)
    <3>1. pc'[p] = "signin" /\ pc[p] = "signin" /\ UNCHANGED <<registry, place>>
      BY Moves, <2>3 DEF SignsIn, registryVars
    <3>2. job'[p].dir = job[p].dir
      BY <2>3, NewLoginType, WorkGot DEF SignsIn, Works
    <3> QED
      BY <3>1, <3>2
  <2>4. CASE Registers(p)
    <3>1. /\ pc'[p] = "exit" /\ pc[p] = "register" /\ job' = job
          /\ registry' = IF registry = None THEN Own ELSE registry
      BY Moves, <2>4 DEF Registers
    <3> QED
      BY <3>1
  <2>5. CASE ExitProbes(p)
    <3>1. pc'[p] = "probing" /\ pc[p] = "exit" /\ registry' = registry
      BY Moves, <2>5 DEF ExitProbes, registryVars
    <3>2. job'[p].dir = job[p].dir
      BY <2>5, <3>1, NowIsLater, WorkProbe DEF ExitProbes, Works
    <3> QED
      BY <3>1, <3>2
  <2> QED
    BY <1>1, <1>2, <2>1, <2>2, <2>3, <2>4, <2>5 DEF Login, LoginFails, ExitMerges
<1>3. CASE Session(p)
  <2>1. CASE RunBegins(p)
    <3>1. pc'[p] = "session" /\ registry \in Dir /\ registry' = registry
      BY Moves, <2>1 DEF RunBegins, registryVars
    <3>2. job'[p].dir = registry
      BY <2>1, <3>1, WorkNew DEF RunBegins, Works
    <3> QED
      BY <3>1, <3>2
  <2>2. CASE ~RunBegins(p) /\ ~Ends(p)
    <3>1. pc'[p] \in {"session", "joining", "exit"} /\ pc[p] \in {"session", "joining"}
          /\ UNCHANGED <<registry, job>>
      BY Moves, <1>3, <2>2 DEF Session, Bridge, Polls, PollFails, FlightProbes, StopsAgy,
         Closes, Joins, Leaves, locks, SessionFrame, registryVars, QuotaTypeOK
    <3> QED
      BY <3>1
  <2> QED
    BY <1>1, <2>1, <2>2
<1>4. CASE Refresh(p)
  <2>1. CASE ~Ends(p)
    <3>1. pc'[p] \in {"measure", "lease", "measuring", "record"}
      BY Moves, <1>4, <2>1 DEF Refresh, RefreshBegins, MeasureBegins, Unmeasured, Measures,
         MeasureEnds, Records
    <3> QED
      BY <3>1
  <2> QED
    BY <1>1, <2>1
<1>5. CASE Rm(p)
  <2>1. CASE RmBegins(p)
    <3>1. pc'[p] = "rm"
      BY Moves, <2>1 DEF RmBegins
    <3> QED
      BY <3>1
  <2>2. CASE RecoversRemoval(p)
    <3>1. /\ pc[p] \in Locking /\ registry \in Dir /\ lease[registry] # p
          /\ UNCHANGED <<pc, job, import>>
      BY <2>2, QuotaAssumption DEF RecoversRemoval, Removed, Free
    <3> QED
      BY <3>1 DEF Locking
  <2> QED
    BY <1>1, <1>5, <2>1, <2>2 DEF Rm, RmFinishes, RecoveryFails
<1>6. CASE Sync(p)
  <2>1. CASE SyncBegins(p)
    <3>1. pc'[p] \in {"push", "pull"}
      BY <2>1 DEF SyncBegins, QuotaTypeOK
    <3> QED
      BY <3>1
  <2>2. CASE RecoversImport(p) /\ ~Ends(p)
    <3>1. pc'[p] \in {"export", "fetch"} /\ import' = None
      BY Moves, <2>2 DEF RecoversImport, Cleans
    <3> QED
      BY <3>1
  <2>3. CASE (Exports(p) \/ Clones(p)) /\ ~Ends(p)
    <3>1. /\ pc[p] \in {"export", "clone"} /\ pc'[p] \in {"clone", "publish"}
          /\ import' = import
      BY Moves, <2>3 DEF Exports, Clones
    <3> QED
      BY <3>1
  <2>4. CASE Fetches(p) /\ ~Ends(p)
    <3>1. /\ pc[p] = "fetch" /\ pc'[p] = "import" /\ import' = import
          /\ Work(p, [job[p] EXCEPT !.got = remote]) /\ remote # 0
      BY Moves, <2>4 DEF Fetches, InPool
    <3>2. job'[p].got = remote
      BY <3>1, WorkGot DEF Works, QuotaTypeOK
    <3> QED
      BY <3>1, <3>2
  <2>5. CASE PlansImport(p)
    <3>1. PICK d \in Imports \ used :
            /\ import' = d /\ used' = used \cup {d} /\ Work(p, [job[p] EXCEPT !.dir = d])
      BY <2>5 DEF PlansImport
    <3>2. /\ pc[p] = "import" /\ pc'[p] = "stage" /\ UNCHANGED <<registry, place>>
          /\ registry = None /\ place[Own] = "absent"
      BY Moves, <2>5 DEF PlansImport
    <3>3. d \in Dir /\ d \in Imports
      BY <3>1
    <3>4. job'[p].dir = d /\ job'[p].got = job[p].got
      BY <3>1, <3>3, WorkDir DEF Works
    <3> QED
      BY <3>1, <3>2, <3>4
  <2>6. CASE Stages(p)
    <3>1. UNCHANGED <<registry, import, used, job>> /\ job[p].dir \in Dir /\ Own # job[p].dir
      BY <2>6 DEF Stages
    <3>2. \/ /\ pc[p] = "stage" /\ pc'[p] = "move" /\ place' = [place EXCEPT ![job[p].dir] = "staged"]
             /\ login' = [login EXCEPT ![job[p].dir] = job[p].got]
          \/ /\ pc[p] = "move" /\ pc'[p] = "commit"
             /\ place' = [place EXCEPT ![job[p].dir] = "present"] /\ login' = login
      BY Moves, <2>6 DEF Stages
    <3> QED
      BY <3>1, <3>2
  <2>7. CASE CommitsImport(p)
    <3>1. /\ pc[p] = "commit" /\ pc'[p] = "forget" /\ registry' = job[p].dir
          /\ UNCHANGED <<import, job, used>>
      BY Moves, <2>7 DEF CommitsImport, dirs
    <3> QED
      BY <3>1
  <2>8. CASE ImportFails(p)
    <3>1. pc'[p] = "cleanup"
      BY Moves, <2>8 DEF ImportFails
    <3> QED
      BY <3>1
  <2> QED
    BY <1>1, <1>6, <2>1, <2>2, <2>3, <2>4, <2>5, <2>6, <2>7, <2>8
    DEF Sync, Publishes, KeepsLabel, ForgetsImport
<1>7. CASE Kill(p)
  BY <1>1, <1>7 DEF Kill
<1> QED
  BY <1>2, <1>3, <1>4, <1>5, <1>6, <1>7 DEF Step


---------------------------------------------------------------------------
(* What a step does to a job, to the worker's flight, to the logins and to *)
(* the entry.                                                              *)

Worked(p) ==
    /\ job' \in [Proc -> Jobs]
    /\ pc'[p] \in Uses => \/ job'[p].dir \in {Own, registry}
                          \/ pc[p] \in Uses /\ job'[p].dir = job[p].dir
    /\ pc'[p] \in {"measure", "lease"} => job'[p].got = 0
    /\ pc'[p] \in Measured \cup {"lease"} => job'[p].at > 0
    /\ pc'[p] \in Measured =>
         \/ job'[p].got = 0
         \/ /\ pc[p] \in Measured
            /\ job'[p].dir = job[p].dir /\ job'[p].at = job[p].at /\ job'[p].got = job[p].got
         \/ /\ pc[p] \in {"exit", "lease"} /\ lease[job[p].dir] \in {p, Nobody}
            /\ job'[p].dir = job[p].dir /\ job'[p].got = login[job[p].dir] /\ login' = login

LEMMA JobMoves ==
    ASSUME QuotaInv, NEW p \in Proc, Step(p)
    PROVE  Worked(p)
<1>0. QuotaTypeOK /\ LocksHeld(p) /\ Registered(p) /\ Timed /\ Truthful
  BY DEF QuotaInv
<1>a. /\ job \in [Proc -> Jobs] /\ job[p] \in Jobs /\ job[p].at \in Nat /\ job[p].got \in Nat
      /\ registry \in Dir \cup {None} /\ login \in [Dir -> Nat] /\ Own \in Dir
  BY <1>0, Moves, JobTypes DEF QuotaTypeOK, Dir
<1>b. /\ pc[p] \in Measured \cup {"lease"} => job[p].at > 0
      /\ pc[p] \in {"measure", "lease"} => job[p].got = 0
      /\ pc[p] \in Uses => job[p].dir \in Dir
      /\ pc[p] \in Holding => lease[job[p].dir] = p
  BY <1>0 DEF Timed, Truthful, LocksHeld
<1>1. CASE Ends(p)
  <2>1. pc'[p] = "idle" /\ job' = [job EXCEPT ![p] = NoJob]
    BY <1>0, <1>1, EndsLocks
  <2>2. job' \in [Proc -> Jobs]
    BY <1>a, <2>1, NoJobType
  <2> QED
    BY <2>1, <2>2 DEF Worked, Uses, Holding, LoginSteps, InSession, Measured
<1> USE DEF Worked, Uses, Holding, LoginSteps, InSession, Measured
<1>x. CASE job' = job /\ pc'[p] \notin {"measure", "lease", "probing", "measuring", "record"}
           /\ (pc[p] \in Uses \/ pc'[p] \notin Uses)
  BY <1>a, <1>x
<1>2. CASE Login(p)
  <2>1. CASE LoginBegins(p)
    <3> DEFINE d == IF registry = None THEN Own ELSE registry
    <3>1. d \in Dir /\ d \in {Own, registry}
      BY <1>a
    <3>2. pc'[p] = "reset" /\ Work(p, [NoJob EXCEPT !.dir = d])
      BY <1>0, Moves, <2>1, <3>1 DEF LoginBegins
    <3> HIDE DEF d
    <3>3. Works(p, d, 0, 0)
      BY <1>0, <3>1, <3>2, WorkNew
    <3> QED
      BY <3>1, <3>2, <3>3 DEF Works
  <2>2. CASE LoginResets(p) \/ LoginSucceeds(p) \/ Registers(p)
    <3>1. /\ pc'[p] \in {"signin", "register", "exit"} /\ job' = job
          /\ pc[p] \in {"reset", "signin", "register"}
      BY <1>0, Moves, <2>2 DEF LoginResets, LoginSucceeds, Registers
    <3> QED
      BY <1>x, <3>1
  <2>3. CASE SignsIn(p)
    <3>1. pc'[p] = "signin" /\ pc[p] = "signin"
      BY <1>0, Moves, <2>3 DEF SignsIn
    <3>2. Works(p, job[p].dir, job[p].at, NewLogin)
      BY <1>0, <2>3, NewLoginType, WorkGot DEF SignsIn
    <3> QED
      BY <3>1, <3>2 DEF Works
  <2>4. CASE ExitProbes(p)
    <3>1. pc'[p] = "probing" /\ pc[p] = "exit" /\ login' = login
      BY <1>0, Moves, <2>4 DEF ExitProbes, dirs
    <3>2. Now \in Nat /\ Now > 0
      BY <1>0, <1>a, NowIsLater
    <3>3. Works(p, job[p].dir, Now, login[job[p].dir])
      BY <1>0, <1>a, <1>b, <2>4, <3>1, <3>2, WorkProbe DEF ExitProbes
    <3> QED
      BY <1>b, <3>1, <3>2, <3>3 DEF Works
  <2> QED
    BY <1>1, <1>2, <2>1, <2>2, <2>3, <2>4 DEF Login, LoginFails, ExitMerges
<1>3. CASE Session(p)
  <2>1. CASE RunBegins(p)
    <3>1. pc'[p] = "session" /\ registry \in Dir
      BY <1>0, Moves, <2>1 DEF RunBegins
    <3>2. Works(p, registry, 0, 0)
      BY <1>0, <2>1, <3>1, WorkNew DEF RunBegins
    <3> QED
      BY <3>1, <3>2 DEF Works
  <2>2. CASE ~RunBegins(p) /\ ~Ends(p)
    <3>1. pc'[p] \in {"session", "joining", "exit"} /\ pc[p] \in {"session", "joining"}
          /\ job' = job
      BY <1>0, Moves, <1>3, <2>2 DEF Session, Bridge, Polls, PollFails, FlightProbes, StopsAgy,
         Closes, Joins, Leaves, SessionFrame, QuotaTypeOK
    <3> QED
      BY <1>x, <3>1
  <2> QED
    BY <1>1, <2>1, <2>2
<1>4. CASE Refresh(p)
  <2>1. CASE RefreshBegins(p)
    <3>1. pc'[p] = "measure" /\ registry \in Dir
      BY <1>0, <1>a, Moves, <2>1 DEF RefreshBegins
    <3>2. Works(p, registry, 0, 0)
      BY <1>0, <2>1, <3>1, WorkNew DEF RefreshBegins
    <3> QED
      BY <3>1, <3>2 DEF Works
  <2>2. CASE MeasureBegins(p)
    <3>1. pc[p] = "measure" /\ pc'[p] = "lease"
      BY <1>0, Moves, <2>2 DEF MeasureBegins
    <3>2. Works(p, job[p].dir, Now, job[p].got) /\ Now > 0
      BY <1>0, <1>a, <2>2, NowIsLater, WorkAt DEF MeasureBegins
    <3> QED
      BY <1>b, <3>1, <3>2 DEF Works
  <2>3. CASE Unmeasured(p)
    <3>1. pc[p] = "lease" /\ pc'[p] = "record"
      BY <1>0, Moves, <2>3 DEF Unmeasured
    <3>2. PICK r \in Outcomes : Work(p, [job[p] EXCEPT !.result = r])
      BY <2>3 DEF Unmeasured, Outcomes
    <3>3. Works(p, job[p].dir, job[p].at, job[p].got)
      BY <1>0, <3>2, WorkResult
    <3> QED
      BY <1>b, <3>1, <3>3 DEF Works
  <2>4. CASE Measures(p)
    <3>1. pc[p] = "lease" /\ pc'[p] = "measuring" /\ lease[job[p].dir] = Nobody
          /\ login' = login
      BY <1>0, <1>b, Moves, <2>4 DEF Measures, MeasureFrame, dirs, Lease, Free
    <3>2. Works(p, job[p].dir, job[p].at, login[job[p].dir])
      BY <1>0, <1>a, <1>b, <2>4, <3>1, WorkGot DEF Measures
    <3> QED
      BY <1>b, <3>1, <3>2 DEF Works
  <2>5. CASE MeasureEnds(p)
    <3>1. PICK ok \in BOOLEAN :
            Work(p, [job[p] EXCEPT !.got = Seen(ok, @), !.result = Ready(ok)])
      BY <2>5 DEF MeasureEnds
    <3>2. pc[p] = "measuring" /\ pc'[p] = "record"
      BY <1>0, Moves, <2>5 DEF MeasureEnds
    <3>3. \E n \in {0, job[p].got} : Works(p, job[p].dir, job[p].at, n)
      BY <1>0, <3>1, WorkSeen
    <3> QED
      BY <1>b, <3>2, <3>3 DEF Works
  <2> QED
    BY <1>1, <1>4, <2>1, <2>2, <2>3, <2>4, <2>5 DEF Refresh, Records
<1>5. CASE Rm(p)
  <2>1. CASE RmBegins(p)
    <3>1. pc'[p] = "rm" /\ job' = job
      BY <1>0, Moves, <2>1 DEF RmBegins
    <3> QED
      BY <1>x, <3>1
  <2>2. CASE RecoversRemoval(p)
    <3>1. pc[p] \in Locking /\ pc' = pc /\ job' = job
      BY <2>2 DEF RecoversRemoval
    <3> QED
      BY <1>x, <3>1 DEF Locking
  <2> QED
    BY <1>1, <1>5, <2>1, <2>2 DEF Rm, RmFinishes, RecoveryFails
<1>6. CASE Sync(p)
  <2>1. CASE ~Ends(p)
    <3>1. pc'[p] \in SyncSteps
      <4>1. CASE SyncBegins(p)
        BY <1>0, <4>1 DEF SyncBegins, SyncSteps, QuotaTypeOK
      <4> QED
        BY <1>0, Moves, <1>6, <2>1, <4>1 DEF Sync, RecoversImport, Exports, Clones, Publishes,
           Fetches, KeepsLabel, PlansImport, Stages, CommitsImport, ForgetsImport, ImportFails,
           SyncSteps, ImportHeld
    <3>2. job' \in [Proc -> Jobs]
      <4>1. CASE job' = job
        BY <1>a, <4>1
      <4>2. CASE Exports(p) /\ job' # job
        <5>1. registry \in Dir /\ login[registry] \in Nat
              /\ Work(p, [job[p] EXCEPT !.got = login[registry]])
          BY <1>a, <2>1, <4>2 DEF Exports
        <5> QED
          BY <1>0, <5>1, WorkGot DEF Works
      <4>3. CASE Fetches(p) /\ job' # job
        <5>1. remote \in Nat /\ Work(p, [job[p] EXCEPT !.got = remote])
          BY <1>0, <2>1, <4>3 DEF Fetches, QuotaTypeOK
        <5> QED
          BY <1>0, <5>1, WorkGot DEF Works
      <4>4. CASE PlansImport(p)
        <5>1. PICK d \in Imports : Work(p, [job[p] EXCEPT !.dir = d])
          BY <4>4 DEF PlansImport
        <5>2. d \in Dir
          BY <5>1 DEF Dir
        <5> QED
          BY <1>0, <5>1, <5>2, WorkDir DEF Works
      <4> QED
        BY <1>6, <2>1, <4>1, <4>2, <4>3, <4>4 DEF Sync, SyncBegins, RecoversImport, Clones,
           Publishes, KeepsLabel, Stages, CommitsImport, ForgetsImport, ImportFails
    <3> QED
      BY <3>1, <3>2 DEF SyncSteps, ImportHeld
  <2> QED
    BY <1>1, <2>1
<1>7. CASE Kill(p)
  BY <1>1, <1>7 DEF Kill
<1> QED
  BY <1>2, <1>3, <1>4, <1>5, <1>6, <1>7 DEF Step


Flown(p) ==
    /\ flight' \in Flights
    /\ \/ flight' = flight
       \/ flight'.got = 0
       \/ /\ pc[p] = "session" /\ flight'.got = login[job[p].dir] /\ flight'.at > 0
          /\ login' = login
    /\ pc'[p] \in InSession =>
         flight'.got = 0 \/ (pc[p] \in InSession /\ job'[p] = job[p])

LEMMA FlightMoves ==
    ASSUME QuotaInv, NEW p \in Proc, Step(p)
    PROVE  Flown(p)
<1>0. /\ QuotaTypeOK /\ LocksHeld(p) /\ flight \in Flights /\ pc[p] \in Steps
      /\ pc \in [Proc -> Steps] /\ login \in [Dir -> Nat]
  BY DEF QuotaInv, QuotaTypeOK
<1>x. CASE flight' = flight /\ (pc'[p] \notin InSession \/ (pc[p] \in InSession /\ job' = job))
  BY <1>0, <1>x DEF Flown
<1>y. CASE flight' = NoFlight
  BY <1>y, FlightTypes DEF Flown
<1>1. CASE Ends(p) /\ flight' = flight
  <2>1. pc'[p] = "idle"
    BY <1>0, <1>1, EndsLocks
  <2> QED
    BY <1>x, <1>1, <2>1 DEF InSession
<1> USE DEF session, bridge
<1>2. CASE Login(p)
  <2>1. flight' = flight
    BY <1>2 DEF Login, LoginBegins, LoginResets, SignsIn, LoginSucceeds, LoginFails, Registers,
       ExitProbes, ExitMerges
  <2>2. CASE ~Ends(p)
    <3>1. pc'[p] \notin InSession
      BY <1>0, Moves, <1>2, <2>2 DEF InSession, Login, LoginBegins, LoginResets, SignsIn,
         LoginSucceeds, LoginFails, Registers, ExitProbes, ExitMerges
    <3> QED
      BY <1>x, <2>1, <3>1
  <2> QED
    BY <1>1, <2>1, <2>2
<1>3. CASE Session(p)
  <2>1. CASE RunBegins(p) \/ PollFails(p)
    BY <1>y, <2>1 DEF RunBegins, PollFails
  <2>2. CASE Polls(p)
    <3>1. /\ pc[p] = "session" /\ pc' = pc /\ job' = job
          /\ \/ flight' = flight
             \/ \E s \in {"none", "started"} : flight' = [NoFlight EXCEPT !.stage = s]
      BY <2>2 DEF Polls, SessionFrame
    <3>2. CASE flight' = flight
      BY <1>x, <3>1, <3>2 DEF InSession
    <3>3. CASE \E s \in {"none", "started"} : flight' = [NoFlight EXCEPT !.stage = s]
      <4>1. PICK s \in {"none", "started"} : flight' = [NoFlight EXCEPT !.stage = s]
        BY <3>3
      <4>2. flight' \in Flights /\ flight'.got = 0
        BY <4>1 DEF NoFlight, Flights
      <4> QED
        BY <4>2 DEF Flown
    <3> QED
      BY <3>1, <3>2, <3>3
  <2>3. CASE FlightProbes(p)
    <3> DEFINE t == Now
               n == login[job[p].dir]
    <3>1. /\ pc[p] = "session" /\ pc' = pc /\ job' = job /\ login' = login
          /\ flight' = [stage |-> "probing", at |-> t, got |-> n]
      BY <2>3 DEF FlightProbes, SessionFrame, dirs
    <3>2. job[p].dir \in Dir
      BY <1>0, <3>1 DEF LocksHeld, Uses, Holding, InSession
    <3>3. t \in Nat /\ t > 0 /\ n \in Nat
      <4>1. Now \in Nat /\ flight.at < Now /\ flight.at \in Nat
        BY <1>0, NowIsLater, FlightTypes
      <4> QED
        BY <1>0, <3>2, <4>1
    <3> HIDE DEF t, n
    <3>4. flight' \in Flights /\ flight'.got = n /\ flight'.at > 0
      BY <3>1, <3>3 DEF Flights
    <3> QED
      BY <3>1, <3>4 DEF Flown, InSession, n
  <2>4. CASE StopsAgy(p)
    BY <1>x, <2>4 DEF StopsAgy, SessionFrame, InSession
  <2>5. CASE Closes(p) \/ Joins(p)
    <3>1. CASE Leaves(p)
      BY <1>y, <3>1 DEF Leaves
    <3>2. CASE ~Leaves(p)
      BY <1>x, <2>5, <3>2 DEF Closes, Joins, SessionFrame, InSession
    <3> QED
      BY <3>1, <3>2
  <2> QED
    BY <1>3, <2>1, <2>2, <2>3, <2>4, <2>5 DEF Session, Bridge
<1>4. CASE Refresh(p) \/ Rm(p) \/ Sync(p)
  <2>1. flight' = flight
    <3>1. CASE Refresh(p)
      BY <3>1 DEF Refresh, RefreshBegins, MeasureBegins, Unmeasured, Measures,
         MeasureEnds, Records, MeasureFrame
    <3>2. CASE Rm(p)
      BY <3>2 DEF Rm, RmBegins, RmFinishes, RecoversRemoval, RecoveryFails, Removed
    <3>3. CASE Sync(p)
      BY <3>3 DEF Sync, SyncBegins, RecoversImport, Exports, Clones, Publishes, Fetches,
         KeepsLabel, PlansImport, Stages, CommitsImport, ForgetsImport, ImportFails, SyncFrame
    <3> QED
      BY <1>4, <3>1, <3>2, <3>3
  <2>2. CASE ~Ends(p)
    <3>1. pc'[p] \notin InSession
      <4>1. CASE Refresh(p)
        BY <1>0, Moves, <4>1, <2>2 DEF InSession, Refresh, RefreshBegins, MeasureBegins,
           Unmeasured, Measures, MeasureEnds, Records
      <4>2. CASE Rm(p)
        BY <1>0, Moves, <4>2, <2>2 DEF InSession, Rm, RmBegins, RmFinishes, RecoversRemoval,
           RecoveryFails, Locking
      <4>3. CASE SyncBegins(p)
        BY <1>0, <4>3 DEF SyncBegins, InSession
      <4>4. CASE Sync(p) /\ ~SyncBegins(p)
        BY <1>0, Moves, <4>4, <2>2 DEF Sync, RecoversImport, Exports, Clones, Publishes,
           Fetches, KeepsLabel, PlansImport, Stages, CommitsImport, ForgetsImport, ImportFails,
           InSession
      <4> QED
        BY <1>4, <4>1, <4>2, <4>3, <4>4
    <3> QED
      BY <1>x, <2>1, <3>1
  <2> QED
    BY <1>1, <2>1, <2>2
<1>5. CASE Kill(p)
  BY <1>1, <1>y, <1>5 DEF Kill
<1> QED
  BY <1>2, <1>3, <1>4, <1>5 DEF Step

\* An identity is signed in, imported into a directory of its own, or lost.
Logged(p) ==
    /\ login' \in [Dir -> Nat]
    /\ \/ \A d \in Dir : login'[d] \in {0, login[d]}
       \/ /\ pc[p] = "signin" /\ job[p].got = 0 /\ entry' = entry /\ pc' = pc
          /\ job[p].dir \in Dir /\ \A d \in Dir \ {job[p].dir} : login'[d] = login[d]
       \/ /\ pc[p] = "stage" /\ pc'[p] = "move" /\ entry' = entry
          /\ job[p].dir \in Dir /\ \A d \in Dir \ {job[p].dir} : login'[d] = login[d]

LEMMA LoginMoves ==
    ASSUME QuotaInv, NEW p \in Proc, Step(p)
    PROVE  Logged(p)
<1>0. QuotaTypeOK /\ LocksHeld(p) /\ Registered(p) /\ login \in [Dir -> Nat]
  BY DEF QuotaInv, QuotaTypeOK
<1>1. CASE login' = login
  BY <1>0, <1>1 DEF Logged
<1>2. CASE SignsIn(p)
  <2>1. /\ pc[p] = "signin" /\ job[p].got = 0 /\ entry' = entry /\ pc' = pc
        /\ login' = [login EXCEPT ![job[p].dir] = NewLogin]
    BY <1>2 DEF SignsIn
  <2>2. job[p].dir \in Dir
    BY <1>0, <2>1 DEF LocksHeld, Uses, Holding, LoginSteps
  <2> QED
    BY <1>0, <2>1, <2>2, NewLoginType DEF Logged
<1>3. CASE RmFinishes(p) \/ RecoversRemoval(p)
  BY <1>0, <1>3 DEF RmFinishes, RecoversRemoval, Removed, Logged
<1>4. CASE RecoversImport(p)
  BY <1>0, <1>4 DEF RecoversImport, Cleans, Logged
<1>5. CASE Stages(p) /\ login' # login
  <2>1. pc[p] = "stage" /\ pc'[p] = "move" /\ entry' = entry
        /\ login' = [login EXCEPT ![job[p].dir] = job[p].got]
    BY <1>0, Moves, <1>5 DEF Stages, SyncFrame
  <2>2. job[p].got \in Nat
    BY <1>0, Moves, JobTypes
  <2>3. job[p].dir \in Dir
    BY <2>1, WritersKnow DEF ImportHeld
  <2> QED
    BY <1>0, <2>1, <2>2, <2>3 DEF Logged
<1>6. CASE ~Writes(p)
  BY <1>1, <1>6, OnlyWrites DEF Tracked
<1> QED
  BY <1>1, <1>2, <1>3, <1>4, <1>5, <1>6 DEF Writes, LoginBegins, Registers, PlansImport,
     CommitsImport, ForgetsImport, ImportFails, dirs


\* What is merged into the entry was measured by p or by its worker.
Source(p, d, s, t) ==
    /\ d = registry \/ (pc[p] \in Uses /\ d = job[p].dir)
    /\ s # 0 =>
         /\ t > 0 /\ d = job[p].dir
         /\ \/ pc[p] \in Measured /\ t = job[p].at /\ s = job[p].got
            \/ pc[p] \in InSession /\ t = flight.at /\ s = flight.got

Merges(p) ==
    \/ entry' = entry
    \/ \E d \in Dir, s \in Nat, t \in Nat, r \in Outcomes :
           entry' = Merged(entry, Update(d, s, t, r)) /\ Source(p, d, s, t)

LEMMA EntryMoves ==
    ASSUME QuotaInv, NEW p \in Proc, Step(p)
    PROVE  Merges(p)
<1>0. QuotaTypeOK /\ LocksHeld(p) /\ Timed
  BY DEF QuotaInv
<1>a. /\ pc[p] \in Uses => job[p].dir \in Dir
      /\ job[p].at \in Nat /\ job[p].got \in Nat /\ job[p].result \in Outcomes
      /\ flight.at \in Nat /\ flight.got \in Nat
      /\ removal # None => removal.dir \in Dir /\ removal.at \in Nat /\ registry = removal.dir
      /\ pc[p] \in Measured => job[p].at > 0
      /\ flight.got # 0 => flight.at > 0
  BY <1>0, Moves, JobTypes DEF LocksHeld, QuotaTypeOK, Removals, Flights, Timed, QuotaInv,
     Registry
<1> USE DEF Merges, Merge, Source
<1>1. CASE entry' = entry
  BY <1>1
<1>2. CASE LoginResets(p) /\ entry' # entry
  <2>1. /\ pc[p] = "reset" /\ pc[p] \in Uses
        /\ entry' = Merged(entry, Update(job[p].dir, 0, Now, "reset"))
    BY <1>2 DEF LoginResets, Uses, Holding, LoginSteps
  <2>2. Now \in Nat /\ "reset" \in Outcomes /\ 0 \in Nat
    BY <1>0, NowIsLater DEF Outcomes
  <2> QED
    BY <1>a, <2>1, <2>2
<1>3. CASE ExitMerges(p) /\ entry' # entry
  <2>1. PICK ok \in BOOLEAN :
          entry' = Merged(entry, Update(job[p].dir, Seen(ok, job[p].got), job[p].at, Ready(ok)))
    BY <1>3 DEF ExitMerges
  <2>2. pc[p] \in Uses /\ pc[p] \in Measured
    BY <1>3 DEF ExitMerges, Uses, Holding, Measured
  <2>3. Seen(ok, job[p].got) \in Nat /\ Seen(ok, job[p].got) \in {0, job[p].got}
        /\ Ready(ok) \in Outcomes
    BY <1>a DEF Seen, Ready, Outcomes
  <2> QED
    BY <1>a, <2>1, <2>2, <2>3
<1>4. CASE (Polls(p) \/ PollFails(p) \/ Closes(p)) /\ entry' # entry
  <2>1. /\ entry' = Merged(entry, Update(job[p].dir, flight.got, flight.at, "ready"))
        /\ pc[p] \in InSession
    BY <1>4 DEF Polls, PollFails, Closes, Harvest, InSession
  <2>2. pc[p] \in Uses /\ "ready" \in Outcomes
    BY <2>1 DEF Uses, Holding, Outcomes
  <2> QED
    BY <1>a, <2>1, <2>2
<1>5. CASE Records(p) /\ entry' # entry
  <2>1. /\ entry' = Merged(entry, Update(job[p].dir, job[p].got, job[p].at, job[p].result))
        /\ pc[p] \in Uses /\ pc[p] \in Measured
    BY <1>5 DEF Records, Uses, Measured
  <2> QED
    BY <1>a, <2>1
<1>6. CASE RmFinishes(p) \/ RecoversRemoval(p)
  <2>1. /\ entry' = Merged(entry, Update(removal.dir, 0, removal.at, "reset"))
        /\ removal # None
    BY <1>0, <1>6 DEF RmFinishes, RecoversRemoval, Removed, LocksHeld
  <2>2. "reset" \in Outcomes /\ 0 \in Nat
    BY DEF Outcomes
  <2> QED
    BY <1>a, <2>1, <2>2
<1>7. CASE Login(p) /\ ~LoginResets(p) /\ ~ExitMerges(p)
  BY <1>1, <1>7 DEF Login, LoginBegins, SignsIn, LoginSucceeds, LoginFails, Registers,
     ExitProbes
<1>8. CASE Session(p) /\ ~Polls(p) /\ ~PollFails(p) /\ ~Closes(p)
  BY <1>1, <1>8 DEF Session, Bridge, RunBegins, FlightProbes, StopsAgy, Joins, SessionFrame
<1>9. CASE Refresh(p) /\ ~Records(p)
  BY <1>1, <1>9 DEF Refresh, RefreshBegins, MeasureBegins, Unmeasured, Measures, MeasureEnds
<1>10. CASE Rm(p) /\ ~RmFinishes(p) /\ ~RecoversRemoval(p)
  BY <1>1, <1>10 DEF Rm, RmBegins, RecoveryFails
<1>11. CASE Sync(p)
  BY <1>1, <1>11 DEF Sync, SyncBegins, RecoversImport, Exports, Clones, Publishes, Fetches,
     KeepsLabel, PlansImport, Stages, CommitsImport, ForgetsImport, ImportFails, SyncFrame
<1>12. CASE Kill(p)
  BY <1>1, <1>12 DEF Kill
<1> QED
  BY <1>1, <1>2, <1>3, <1>4, <1>5, <1>6, <1>7, <1>8, <1>9, <1>10, <1>11, <1>12 DEF Step

\* What follows from that for the entry.
LEMMA EntryKept ==
    ASSUME QuotaInv, NEW p \in Proc, Merges(p)
    PROVE  /\ entry' \in {e \in Entries : ValidEntry(e)} \cup {NoEntry}
           /\ \A d \in Dir, t \in Nat : Stale(entry, d, t) => Stale(entry', d, t)
           /\ entry # NoEntry => entry' # NoEntry
<1>1. entry \in {e \in Entries : ValidEntry(e)} \cup {NoEntry} /\ NoEntry \notin Entries
  BY QuotaAssumption DEF QuotaInv, QuotaTypeOK
<1>2. CASE entry' = entry
  BY <1>1, <1>2
<1>3. ASSUME NEW d \in Dir, NEW s \in Nat, NEW t \in Nat, NEW r \in Outcomes,
             entry' = Merged(entry, Update(d, s, t, r)), s # 0 => t > 0
      PROVE  /\ entry' \in {e \in Entries : ValidEntry(e)} \cup {NoEntry}
             /\ \A d2 \in Dir, t2 \in Nat : Stale(entry, d2, t2) => Stale(entry', d2, t2)
             /\ entry # NoEntry => entry' # NoEntry
  <2>1. entry' \in Entries /\ ValidEntry(entry')
    BY <1>1, <1>3, MergedType
  <2>2. ASSUME NEW d2 \in Dir, NEW t2 \in Nat, Stale(entry, d2, t2)
        PROVE  Stale(entry', d2, t2)
    <3>1. entry # NoEntry /\ ValidEntry(entry)
      BY <1>1, <2>2 DEF Stale
    <3> QED
      BY <1>1, <1>3, <2>2, <3>1, MergedStale
  <2> QED
    BY <1>1, <2>1, <2>2
<1> QED
  BY <1>2, <1>3 DEF Merges, Source


\* A barrier is noted as missing by who could not write it, before somebody
\* signs in; it is there again with the next one, or needed no more.
Resets(p) ==
    /\ unreset' \in [Dir -> Nat]
    /\ \A d \in Dir : unreset'[d] # unreset[d] =>
         /\ lease[d] \in {p, Nobody} /\ pc[p] \notin {"signin", "stage"} \cup Measured \cup InSession
         /\ \/ login'[d] = 0
            \/ entry' = entry /\ unreset'[d] = Now
            \/ /\ entry' # NoEntry /\ entry'.dir = d /\ entry'.sample = 0
               /\ \A t \in Nat : t < Now => Stale(entry', d, t)

LEMMA ResetMoves ==
    ASSUME QuotaInv, NEW p \in Proc, Step(p)
    PROVE  Resets(p)
<1>0. /\ QuotaTypeOK /\ LocksHeld(p) /\ entry \in Entries \cup {NoEntry}
      /\ entry # NoEntry => ValidEntry(entry)
      /\ unreset \in [Dir -> Nat] /\ login \in [Dir -> Nat]
      /\ removal \in Removals \cup {None}
  BY DEF QuotaInv, QuotaTypeOK
<1>1. CASE unreset' = unreset
  BY <1>0, <1>1 DEF Resets
<1>2. CASE LoginResets(p)
  <2> DEFINE d == job[p].dir
             u == Now
  <2>1. pc[p] = "reset" /\ d \in Dir /\ lease[d] = p
    BY <1>0, <1>2 DEF LoginResets, LocksHeld, Uses, Holding, LoginSteps
  <2>2. /\ u \in Nat
        /\ entry # NoEntry => entry.started < u /\ entry.reset < u /\ entry.attempted < u
    BY <1>0, NowIsLater
  <2>3. /\ unreset' \in [Dir -> Nat]
        /\ \A x \in Dir : unreset'[x] # unreset[x] => x = d
    BY <1>0, <1>2, <2>1, <2>2 DEF LoginResets
  <2>4. \/ entry' = entry /\ unreset'[d] = u
        \/ entry' = Merged(entry, Update(d, 0, u, "reset"))
    BY <1>0, <1>2, <2>1 DEF LoginResets, Merge
  <2>5. CASE entry' = Merged(entry, Update(d, 0, u, "reset"))
    <3>1. /\ entry'.dir = d /\ entry'.sample = 0 /\ entry' # NoEntry
          /\ \A t \in Nat : t < u => Stale(entry', d, t)
      BY <1>0, <2>1, <2>2, <2>5, MergedReset
    <3> QED
      BY <2>1, <2>3, <3>1 DEF Resets, Measured, InSession
  <2>6. CASE entry' = entry /\ unreset'[d] = u
    BY <2>1, <2>3, <2>6 DEF Resets, Measured, InSession
  <2> QED
    BY <2>4, <2>5, <2>6
<1>3. CASE RmFinishes(p) \/ RecoversRemoval(p)
  <2>1. /\ removal # None /\ removal.dir \in Dir
        /\ unreset' = [unreset EXCEPT ![removal.dir] = 0]
        /\ login' = [login EXCEPT ![removal.dir] = 0]
    BY <1>0, <1>3 DEF RmFinishes, RecoversRemoval, Removed, LocksHeld, Removals
  <2>2. /\ lease[removal.dir] \in {p, Nobody}
        /\ pc[p] \notin {"signin", "stage"} \cup Measured \cup InSession
    BY <1>0, <1>3 DEF RmFinishes, RecoversRemoval, LocksHeld, Free, Locking, Measured, InSession
  <2> QED
    BY <1>0, <2>1, <2>2 DEF Resets
<1> USE DEF past, Begin
<1>4. CASE Login(p) /\ ~LoginResets(p)
  BY <1>1, <1>4 DEF Login, LoginBegins, SignsIn, LoginSucceeds, LoginFails, Registers,
     ExitProbes, ExitMerges
<1>5. CASE Session(p)
  BY <1>1, <1>5 DEF Session, Bridge, RunBegins, Polls, PollFails, FlightProbes, StopsAgy, Closes,
     Joins, Leaves, SessionFrame
<1>6. CASE Refresh(p)
  BY <1>1, <1>6 DEF Refresh, RefreshBegins, MeasureBegins, Unmeasured, Measures, MeasureEnds,
     Records, MeasureFrame
<1>7. CASE Rm(p) /\ ~RmFinishes(p) /\ ~RecoversRemoval(p)
  BY <1>1, <1>7 DEF Rm, RmBegins, RecoveryFails
<1>8. CASE Sync(p)
  BY <1>1, <1>8 DEF Sync, SyncBegins, RecoversImport, Exports, Clones, Publishes, Fetches,
     KeepsLabel, PlansImport, Stages, CommitsImport, ForgetsImport, ImportFails, SyncFrame
<1>9. CASE Kill(p)
  BY <1>1, <1>9 DEF Kill
<1> QED
  BY <1>2, <1>3, <1>4, <1>5, <1>6, <1>7, <1>8, <1>9 DEF Step

\* What is too old stays so, as long as somebody has a login to mistake it for.
LEMMA LateKept ==
    ASSUME QuotaInv, NEW p \in Proc, Merges(p), Resets(p), NEW d \in Dir, NEW t \in Nat,
           t < Now, Late(d, t)
    PROVE  Late(d, t)' \/ login'[d] = 0
<1>1. Stale(entry, d, t) => Stale(entry', d, t)
  BY EntryKept
<1>2. Now \in Nat
  BY NowIsLater DEF QuotaInv
<1>3. CASE unreset'[d] = unreset[d]
  BY <1>1, <1>3 DEF Late
<1>4. CASE unreset'[d] # unreset[d]
  <2> DEFINE u == Now
  <2>1. \/ login'[d] = 0
        \/ unreset'[d] = u
        \/ Stale(entry', d, t)
    BY <1>4 DEF Resets
  <2>2. u \in Nat /\ t < u
    BY <1>2
  <2> HIDE DEF u
  <2>3. CASE unreset'[d] = u
    <3>1. t <= unreset'[d]
      BY <2>2, <2>3
    <3> QED
      BY <3>1 DEF Late
  <2> QED
    BY <2>1, <2>3 DEF Late
<1> QED
  BY <1>3, <1>4

---------------------------------------------------------------------------
(* Fresh directories, times, truthful samples and the barrier.             *)

LEMMA UnseenKept ==
    ASSUME QuotaInv, NEW p \in Proc, Step(p), NEW d \in Imports, Unseen(d),
           registry' # d
    PROVE  Unseen(d)'
<1>0. LocksHeld(p) /\ entry \in Entries \cup {NoEntry}
  BY DEF QuotaInv, QuotaTypeOK
<1>1. Worked(p) /\ Merges(p) /\ Apart(p)
  BY JobMoves, EntryMoves, StepsApart DEF QuotaInv
<1>2. d # Own /\ d # registry /\ d \in Dir /\ (entry # NoEntry => entry.dir # d)
  BY QuotaAssumption DEF Unseen, Dir
<1>3. \A q \in Proc : pc[q] \in Uses => job[q].dir # d
  BY DEF Unseen
<1>4. ASSUME NEW q \in Proc, pc'[q] \in Uses PROVE job'[q].dir # d
  <2>1. CASE q = p
    BY <1>1, <1>2, <1>3, <1>4, <2>1 DEF Worked
  <2>2. CASE q # p
    BY <1>1, <1>3, <1>4, <2>2 DEF Apart
  <2> QED
    BY <2>1, <2>2
<1>5. entry' # NoEntry => entry'.dir # d
  <2>1. CASE entry' = entry
    BY <1>2, <2>1
  <2>2. ASSUME NEW d2 \in Dir, NEW s \in Nat, NEW t \in Nat, NEW r \in Outcomes,
               entry' = Merged(entry, Update(d2, s, t, r)), Source(p, d2, s, t)
        PROVE  entry'.dir # d
    <3>1. d2 # d
      BY <1>2, <1>3, <2>2 DEF Source
    <3>2. entry'.dir = d2 \/ (entry # NoEntry /\ entry'.dir = entry.dir)
      BY <1>0, <2>2, MergedDir
    <3> QED
      BY <1>2, <3>1, <3>2
  <2> QED
    BY <1>1, <2>1, <2>2 DEF Merges
<1> QED
  BY <1>4, <1>5 DEF Unseen

LEMMA FreshKept ==
    ASSUME QuotaInv, NEW p \in Proc, Step(p)
    PROVE  Fresh'
<1>0. /\ QuotaTypeOK /\ Fresh /\ \A q \in Proc : LocksHeld(q) /\ Registered(q)
      /\ pc[p] \in Steps
  BY DEF QuotaInv, QuotaTypeOK
<1>1. Apart(p)
  BY <1>0, StepsApart
<1> DEFINE U(d) == d \in Imports /\ (d \notin used \/ \E q \in Proc : pc[q] = "stage" /\ job[q].dir = d)
<1>2. \A d : U(d) => Unseen(d) /\ d \in Imports
  BY <1>0 DEF Fresh
<1>3. \A q \in Proc : pc[q] = "stage" => job[q].dir \in Imports
  BY WritersKnow DEF ImportHeld
\* Nothing becomes unseen, but that a directory is planned with.
<1>4. used \subseteq used'
  <2>1. CASE Writes(p)
    BY <2>1 DEF Writes, LoginBegins, SignsIn, Registers, RmFinishes, RecoversRemoval, Removed,
       RecoversImport, PlansImport, Stages, CommitsImport, ForgetsImport, ImportFails, dirs
  <2> QED
    BY <2>1, OnlyWrites DEF Tracked
<1>5. pc'[p] = "stage" => job'[p].dir \in Imports \ used
  <2>1. CASE Ends(p)
    <3>1. pc'[p] = "idle"
      BY <1>0, <2>1, EndsLocks
    <3> QED
      BY <3>1
  <2>2. CASE PlansImport(p)
    <3>1. PICK d \in Imports \ used : Work(p, [job[p] EXCEPT !.dir = d])
      BY <2>2 DEF PlansImport
    <3>2. d \in Dir
      BY <3>1 DEF Dir
    <3> QED
      BY <1>0, <3>1, <3>2, WorkDir DEF Works
  <2>3. CASE ~Ends(p) /\ ~PlansImport(p)
    <3>1. pc'[p] # "stage"
      <4>1. CASE Login(p)
        BY <1>0, Moves, <2>3, <4>1 DEF Login, LoginBegins, LoginResets, SignsIn, LoginSucceeds,
           LoginFails, Registers, ExitProbes, ExitMerges
      <4>2. CASE Session(p)
        BY <1>0, Moves, <2>3, <4>2 DEF Session, Bridge, RunBegins, Polls, PollFails,
           FlightProbes, StopsAgy, Closes, Joins, Leaves, SessionFrame
      <4>3. CASE Refresh(p)
        BY <1>0, Moves, <2>3, <4>3 DEF Refresh, RefreshBegins, MeasureBegins, Unmeasured,
           Measures, MeasureEnds, Records
      <4>4. CASE Rm(p)
        BY <1>0, Moves, <2>3, <4>4 DEF Rm, RmBegins, RmFinishes, RecoversRemoval, RecoveryFails,
           Locking
      <4>5. CASE SyncBegins(p)
        BY <1>0, <4>5 DEF SyncBegins, QuotaTypeOK
      <4>6. CASE Sync(p) /\ ~SyncBegins(p)
        BY <1>0, Moves, <4>6, <2>3 DEF Sync, RecoversImport, Exports, Clones, Publishes,
           Fetches, KeepsLabel, Stages, CommitsImport, ForgetsImport, ImportFails
      <4>7. CASE Kill(p)
        BY <2>3, <4>7 DEF Kill
      <4> QED
        BY <4>1, <4>2, <4>3, <4>4, <4>5, <4>6, <4>7 DEF Step
    <3> QED
      BY <3>1
  <2> QED
    BY <2>1, <2>2, <2>3
<1>6. \A d : U(d)' => U(d)
  BY <1>1, <1>3, <1>4, <1>5 DEF Apart
\* The label goes to one only by a commit, and that one is seen.
<1>7. \A d : U(d)' => registry' # d
  <2> SUFFICES ASSUME NEW d, U(d)' PROVE registry' # d
    OBVIOUS
  <2>1. U(d) /\ registry # d /\ d # Own /\ d # None /\ d \in Imports
    BY <1>2, <1>6, QuotaAssumption DEF Unseen, Dir
  <2>2. registry' \in {registry, Own, None} \/ (pc[p] = "commit" /\ registry' = job[p].dir)
    <3>1. CASE Writes(p)
      BY <3>1 DEF Writes, LoginBegins, SignsIn, Registers, RmFinishes, RecoversRemoval, Removed,
         RecoversImport, PlansImport, Stages, CommitsImport, ForgetsImport, ImportFails,
         registryVars
    <3> QED
      BY <3>1, OnlyWrites DEF Tracked
  <2>3. CASE pc[p] = "commit"
    <3>1. job[p].dir \in used /\ syncLock = p
      BY <2>3, WritersKnow DEF ImportHeld
    <3>2. \A q \in Proc : pc[q] = "stage" => q = p
      <4> SUFFICES ASSUME NEW q \in Proc, pc[q] = "stage" PROVE q = p
        OBVIOUS
      <4>1. syncLock = q
        BY WritersKnow DEF ImportHeld
      <4> QED
        BY <3>1, <4>1
    <3>3. \A q \in Proc : pc[q] # "stage"
      BY <2>3, <3>2
    <3> QED
      BY <2>1, <2>2, <3>1, <3>3
  <2> QED
    BY <2>1, <2>2, <2>3
<1>8. \A d : U(d)' => Unseen(d)'
  <2> SUFFICES ASSUME NEW d, U(d)' PROVE Unseen(d)'
    OBVIOUS
  <2>1. d \in Imports /\ Unseen(d) /\ registry' # d
    BY <1>2, <1>6, <1>7
  <2> QED
    BY <2>1, UnseenKept
<1>9. \A q \in Proc : pc'[q] = "stage" => job'[q].dir \in Imports
  BY <1>1, <1>3, <1>5 DEF Apart
<1> QED
  BY <1>8, <1>9 DEF Fresh

LEMMA TimedKept ==
    ASSUME QuotaInv, NEW p \in Proc, Step(p)
    PROVE  Timed'
<1>1. Worked(p) /\ Flown(p) /\ Apart(p) /\ Timed
  BY JobMoves, FlightMoves, StepsApart DEF QuotaInv
<1>2. ASSUME NEW q \in Proc, pc'[q] \in Measured \cup {"lease"} PROVE job'[q].at > 0
  <2>1. CASE q = p
    BY <1>1, <1>2, <2>1 DEF Worked
  <2>2. CASE q # p
    BY <1>1, <1>2, <2>2 DEF Apart, Timed
  <2> QED
    BY <2>1, <2>2
<1>3. flight'.got # 0 => flight'.at > 0
  BY <1>1 DEF Flown, Timed
<1> QED
  BY <1>2, <1>3 DEF Timed


\* A reset bars whatever was measured in the directory, or is noted as missing.
LEMMA ResetBars ==
    ASSUME QuotaInv, NEW p \in Proc, LoginResets(p)
    PROVE  Barred(p)'
<1> DEFINE d == job[p].dir
           u == Now
<1>0. /\ QuotaTypeOK /\ LocksHeld(p) /\ entry \in Entries \cup {NoEntry}
      /\ entry # NoEntry => ValidEntry(entry)
      /\ unreset \in [Dir -> Nat]
  BY DEF QuotaInv, QuotaTypeOK
<1>1. pc[p] = "reset" /\ job' = job
  BY DEF LoginResets
<1>x. pc' = [pc EXCEPT ![p] = "signin"]
  BY DEF LoginResets, Goto
<1>2. d \in Dir
  BY <1>0, <1>1 DEF LocksHeld, Uses, Holding, LoginSteps
<1>3. /\ u \in Nat /\ \A q \in Proc : job[q].at < u /\ job[q].at \in Nat
      /\ entry # NoEntry => entry.started < u /\ entry.reset < u /\ entry.attempted < u
  BY <1>0, NowIsLater, Moves, JobTypes
<1>4. \/ entry' = entry /\ unreset' = [unreset EXCEPT ![d] = u]
      \/ entry' = Merged(entry, Update(d, 0, u, "reset"))
  BY DEF LoginResets, Merge
<1>y. \A q \in Proc : pc'[q] \in Measured => pc[q] \in Measured
  BY <1>0, <1>x DEF QuotaTypeOK, Measured
<1>5. CASE entry' = Merged(entry, Update(d, 0, u, "reset"))
  <2>1. /\ entry'.dir = d /\ entry'.sample = 0 /\ entry' # NoEntry
        /\ \A t \in Nat : t < u => Stale(entry', d, t)
    BY <1>0, <1>2, <1>3, <1>5, MergedReset
  <2>2. \A q \in Proc : job[q].dir = d => Stale(entry', job[q].dir, job[q].at)
    BY <1>3, <2>1
  <2> QED
    BY <1>1, <2>1, <2>2 DEF Barred, Late
<1>6. CASE entry' = entry /\ unreset' = [unreset EXCEPT ![d] = u]
  <2>1. unreset'[d] = u
    BY <1>0, <1>2, <1>6
  <2>2. entry # NoEntry => entry.started \in Nat
    BY <1>0 DEF Entries
  <2> HIDE DEF u
  <2>3. /\ entry # NoEntry => entry.started <= unreset'[d]
        /\ \A q \in Proc : job[q].at <= unreset'[d]
    BY <1>3, <2>1, <2>2
  <2> QED
    BY <1>1, <1>6, <2>3 DEF Barred, Late
<1> QED
  BY <1>4, <1>5, <1>6

\* A barrier stays until its process signs in.
LEMMA BarrierKept ==
    ASSUME QuotaInv, NEW p \in Proc, Step(p), NEW q \in Proc,
           pc[q] = "signin", job[q].got = 0, pc'[q] = "signin", job'[q].dir = job[q].dir
    PROVE  Barred(q)'
<1>0. QuotaTypeOK /\ LocksHeld(p) /\ LocksHeld(q) /\ Barred(q) /\ Truthful
      /\ entry \in Entries \cup {NoEntry} /\ NoEntry \notin Entries
      /\ \A r \in Proc : job[r].at \in Nat
      /\ unreset \in [Dir -> Nat]
  BY QuotaAssumption, Moves, JobTypes DEF QuotaInv, QuotaTypeOK
<1>1. Worked(p) /\ Merges(p) /\ Apart(p) /\ Resets(p)
  BY <1>0, JobMoves, EntryMoves, StepsApart, ResetMoves
<1> DEFINE d == job[q].dir
<1>2. d \in Dir /\ lease[d] = q /\ q # Nobody
  BY <1>0, QuotaAssumption DEF LocksHeld, Uses, Holding, LoginSteps
<1>3. /\ entry # NoEntry /\ entry.dir = d /\ entry.sample # 0 => entry.started <= unreset[d]
      /\ \A r \in Proc : pc[r] \in Measured /\ job[r].dir = d /\ job[r].got # 0 =>
           Late(d, job[r].at)
  BY <1>0 DEF Barred
<1>r. unreset'[d] = unreset[d]
  BY <1>1, <1>2 DEF Resets
<1>4. \A t \in Nat : Late(d, t) => Late(d, t)'
  <2>1. \A t \in Nat : Stale(entry, d, t) => Stale(entry', d, t)
    BY <1>1, <1>2, EntryKept
  <2> QED
    BY <1>r, <2>1 DEF Late
<1>5. entry' # NoEntry /\ entry'.dir = d /\ entry'.sample # 0 => entry'.started <= unreset'[d]
  <2>1. CASE entry' = entry
    BY <1>3, <1>r, <2>1
  <2>2. ASSUME NEW d2 \in Dir, NEW s \in Nat, NEW t \in Nat, NEW r \in Outcomes,
               entry' = Merged(entry, Update(d2, s, t, r)), Source(p, d2, s, t),
               entry'.dir = d, entry'.sample # 0
        PROVE  entry'.started <= unreset'[d]
    <3>1. \/ /\ entry # NoEntry /\ entry'.dir = entry.dir /\ entry'.sample = entry.sample
             /\ entry'.started = entry.started
          \/ entry'.dir = d2 /\ entry'.sample = s /\ entry'.started = t /\ ~Stale(entry, d2, t)
      <4> DEFINE m == Merged(entry, Update(d2, s, t, r))
      <4>1. m.sample # 0 /\ entry' = m
        BY <2>2
      <4>2. \/ /\ entry # NoEntry /\ m.dir = entry.dir /\ m.sample = entry.sample
               /\ m.started = entry.started
            \/ m.dir = d2 /\ m.sample = s /\ m.started = t /\ ~Stale(entry, d2, t)
        BY <1>0, <4>1, MergedSample
      <4> HIDE DEF m
      <4> QED
        BY <4>1, <4>2
    <3>5. CASE /\ entry # NoEntry /\ entry'.dir = entry.dir /\ entry'.sample = entry.sample
               /\ entry'.started = entry.started
      BY <1>3, <1>r, <2>2, <3>5
    <3>6. SUFFICES ASSUME d2 = d, s # 0, entry'.started = t, ~Stale(entry, d, t)
                   PROVE  entry'.started <= unreset'[d]
      BY <2>2, <3>1, <3>5
    <3>2. d2 = d /\ s # 0 /\ ~Stale(entry, d, t)
      BY <3>6
    <3>3. CASE pc[p] \in Measured /\ t = job[p].at /\ s = job[p].got /\ d = job[p].dir
      BY <1>3, <1>r, <3>2, <3>3, <3>6 DEF Late
    <3>4. CASE pc[p] \in InSession /\ d = job[p].dir
      <4>1. lease[d] = p
        BY <1>0, <3>4 DEF LocksHeld, Holding
      <4>2. p = q
        BY <1>2, <4>1
      <4> QED
        BY <3>4, <4>2 DEF InSession
    <3> QED
      BY <2>2, <3>2, <3>3, <3>4 DEF Source
  <2> QED
    BY <1>1, <2>1, <2>2 DEF Merges
<1>6. ASSUME NEW r \in Proc, pc'[r] \in Measured, job'[r].dir = d, job'[r].got # 0
      PROVE  Late(d, job[r].at)'
  <2>1. CASE pc[r] \in Measured /\ job'[r] = job[r]
    BY <1>0, <1>3, <1>4, <1>6, <2>1
  <2>2. CASE r # p
    BY <1>1, <1>6, <2>1, <2>2 DEF Apart
  <2>3. CASE r = p
    <3>1. CASE /\ pc[p] \in Measured
               /\ job'[p].dir = job[p].dir /\ job'[p].at = job[p].at /\ job'[p].got = job[p].got
      BY <1>0, <1>3, <1>4, <1>6, <2>3, <3>1
    <3>2. CASE /\ pc[p] \in {"exit", "lease"} /\ lease[job[p].dir] \in {p, Nobody}
               /\ job'[p].dir = job[p].dir
      <4>1. p = q
        BY <1>2, <1>6, <2>3, <3>2
      <4> QED
        BY <3>2, <4>1
    <3> QED
      BY <1>1, <1>6, <2>3, <3>1, <3>2 DEF Worked
  <2> QED
    BY <2>2, <2>3
<1> HIDE DEF d
<1> QED
  BY <1>5, <1>6 DEF Barred, d

LEMMA BarredSelf ==
    ASSUME QuotaInv, NEW p \in Proc, Step(p)
    PROVE  Barred(p)'
<1>0. QuotaTypeOK
  BY DEF QuotaInv
<1>1. CASE LoginResets(p)
  BY <1>1, ResetBars
<1>2. CASE pc[p] = "signin" /\ ~Ends(p)
  <2>1. SignsIn(p) \/ LoginSucceeds(p)
    BY <1>2 DEF Step, Login, LoginBegins, LoginResets, LoginFails, Registers, ExitProbes,
       ExitMerges, Session, Bridge, RunBegins, Polls, PollFails, FlightProbes, StopsAgy, Closes,
       Joins, Refresh, RefreshBegins, MeasureBegins, Unmeasured, Measures, MeasureEnds, Records,
       Rm, RmBegins, RmFinishes, RecoversRemoval, RecoveryFails, Locking, Sync, SyncBegins,
       RecoversImport, Exports, Clones, Publishes, Fetches, KeepsLabel, PlansImport, Stages,
       CommitsImport, ForgetsImport, ImportFails, Kill, Begin
  <2>2. CASE SignsIn(p)
    <3>1. job'[p].got # 0
      BY <1>0, <2>2, NewLoginType, WorkGot DEF SignsIn, Works
    <3> QED
      BY <3>1 DEF Barred
  <2>3. CASE LoginSucceeds(p)
    <3>1. pc'[p] = "register"
      BY <1>0, <2>3, Moves DEF LoginSucceeds
    <3> QED
      BY <3>1 DEF Barred
  <2> QED
    BY <2>1, <2>2, <2>3
<1>3. CASE Ends(p)
  BY <1>0, <1>3, EndsSafe
<1>4. CASE ~LoginResets(p) /\ pc[p] # "signin" /\ ~Ends(p)
  <2>1. pc'[p] # "signin"
    <3>1. CASE Login(p)
      BY <1>0, Moves, <1>4, <3>1 DEF Login, LoginBegins, SignsIn, LoginSucceeds, LoginFails,
         Registers, ExitProbes, ExitMerges
    <3>2. CASE Session(p)
      BY <1>0, Moves, <1>4, <3>2 DEF Session, Bridge, RunBegins, Polls, PollFails,
         FlightProbes, StopsAgy, Closes, Joins, Leaves, SessionFrame
    <3>3. CASE Refresh(p)
      BY <1>0, Moves, <1>4, <3>3 DEF Refresh, RefreshBegins, MeasureBegins, Unmeasured,
         Measures, MeasureEnds, Records
    <3>4. CASE Rm(p)
      BY <1>0, Moves, <1>4, <3>4 DEF Rm, RmBegins, RmFinishes, RecoversRemoval, RecoveryFails
    <3>5. CASE SyncBegins(p)
      BY <1>0, <3>5 DEF SyncBegins, QuotaTypeOK
    <3>6. CASE Sync(p) /\ ~SyncBegins(p)
      BY <1>0, Moves, <1>4, <3>6 DEF Sync, RecoversImport, Exports, Clones, Publishes,
         Fetches, KeepsLabel, PlansImport, Stages, CommitsImport, ForgetsImport, ImportFails
    <3>7. CASE Kill(p)
      BY <1>4, <3>7 DEF Kill
    <3> QED
      BY <3>1, <3>2, <3>3, <3>4, <3>5, <3>6, <3>7 DEF Step
  <2> QED
    BY <2>1 DEF Barred
<1> QED
  BY <1>1, <1>2, <1>3, <1>4

LEMMA BarredOthers ==
    ASSUME QuotaInv, NEW p \in Proc, Step(p), NEW q \in Proc, q # p
    PROVE  Barred(q)'
<1>1. Apart(p)
  BY StepsApart DEF QuotaInv
<1>2. pc'[q] = pc[q] /\ job'[q] = job[q]
  BY <1>1 DEF Apart
<1>3. CASE pc[q] = "signin" /\ job[q].got = 0
  BY <1>2, <1>3, BarrierKept
<1> QED
  BY <1>2, <1>3 DEF Barred

\* A measurement stays honest as long as its directory gets no other identity.
LEMMA HonestKept ==
    ASSUME QuotaInv, NEW p \in Proc, Merges(p), Resets(p), NEW d \in Dir, NEW t \in Nat,
           NEW n \in Nat, t < Now, Honest(d, t, n), login'[d] \in {0, login[d]}
    PROVE  n # 0 => n = login'[d] \/ login'[d] = 0 \/ Late(d, t)'
<1>1. Late(d, t) => Late(d, t)' \/ login'[d] = 0
  BY LateKept
<1> QED
  BY <1>1 DEF Honest

LEMMA TruthfulKept ==
    ASSUME QuotaInv, NEW p \in Proc, Step(p)
    PROVE  Truthful'
<1>0. /\ QuotaTypeOK /\ LocksHeld(p) /\ Barred(p) /\ Truthful /\ Fresh
      /\ entry \in Entries \cup {NoEntry} /\ NoEntry \notin Entries
      /\ \A r \in Proc : job[r] \in Jobs /\ job[r].at \in Nat /\ job[r].got \in Nat
      /\ flight \in Flights /\ flight.at \in Nat /\ flight.got \in Nat
      /\ login \in [Dir -> Nat] /\ unreset \in [Dir -> Nat]
  BY QuotaAssumption, Moves, JobTypes, FlightTypes DEF QuotaInv, QuotaTypeOK
<1>1. Worked(p) /\ Merges(p) /\ Apart(p) /\ Flown(p) /\ Logged(p) /\ Resets(p)
  BY <1>0, JobMoves, EntryMoves, StepsApart, FlightMoves, LoginMoves, ResetMoves
<1>2. /\ \A r \in Proc : job[r].at < Now
      /\ flight.at < Now
      /\ entry # NoEntry => entry.started < Now
  BY <1>0, NowIsLater
<1> DEFINE Shows == \/ entry'.sample = login'[entry'.dir] \/ login'[entry'.dir] = 0
                     \/ entry'.started <= unreset'[entry'.dir]
<1> HIDE DEF Shows
<1>u. \A r \in Proc : pc[r] \in Uses => job[r].dir \in Dir
  BY DEF QuotaInv, LocksHeld
\* Who gets an identity: nothing but stale measurements are of that directory.
<1>3. ASSUME NEW d \in Dir, login'[d] \notin {0, login[d]}
      PROVE  /\ entry' = entry /\ pc[p] \notin InSession /\ pc'[p] \notin Measured \cup InSession
             /\ entry # NoEntry /\ entry.dir = d /\ entry.sample # 0 => entry.started <= unreset[d]
             /\ \A r \in Proc : /\ pc[r] \in Measured /\ job[r].dir = d /\ job[r].got # 0
                                => Late(d, job[r].at)
             /\ unreset'[d] = unreset[d]
             /\ \A r \in Proc : pc[r] \in InSession => job[r].dir # d
  <2>1. CASE /\ pc[p] = "signin" /\ job[p].got = 0 /\ entry' = entry /\ pc' = pc
             /\ job[p].dir = d
    <3>1. /\ entry # NoEntry /\ entry.dir = d /\ entry.sample # 0 => entry.started <= unreset[d]
          /\ \A r \in Proc : /\ pc[r] \in Measured /\ job[r].dir = d /\ job[r].got # 0
                             => Late(d, job[r].at)
          /\ unreset'[d] = unreset[d]
      BY <1>0, <1>1, <2>1 DEF Barred, Resets
    <3>2. lease[d] = p /\ p # Nobody
      BY <1>0, <2>1, QuotaAssumption DEF LocksHeld, Holding, LoginSteps
    <3>3. ASSUME NEW r \in Proc, pc[r] \in InSession PROVE job[r].dir # d
      <4>1. lease[job[r].dir] = r
        BY <3>3 DEF QuotaInv, LocksHeld, Holding
      <4> QED
        BY <2>1, <3>2, <3>3, <4>1 DEF InSession
    <3> QED
      BY <2>1, <3>1, <3>3 DEF InSession, Measured
  <2>2. CASE pc[p] = "stage" /\ pc'[p] = "move" /\ entry' = entry /\ job[p].dir = d
    <3>1. Unseen(d) /\ unreset'[d] = unreset[d]
      BY <1>0, <1>1, <2>2 DEF Fresh, Resets
    <3> QED
      BY <2>2, <3>1 DEF Unseen, Uses, Holding, Measured, InSession
  <2> QED
    BY <1>1, <1>3, <2>1, <2>2 DEF Logged
<1>4. entry' # NoEntry /\ entry'.sample # 0 => Shows
  <2> SUFFICES ASSUME entry' # NoEntry, entry'.sample # 0
               PROVE  Shows
    OBVIOUS
  <2>0. entry' \in Entries /\ entry'.dir \in Dir
    BY <1>1, EntryKept DEF Entries
  <2>2. CASE /\ entry # NoEntry /\ entry'.dir = entry.dir /\ entry'.sample = entry.sample
             /\ entry'.started = entry.started
    <3> DEFINE d == entry.dir
               u == Now
    <3>0. d \in Dir /\ entry.started \in Nat /\ unreset[d] \in Nat /\ u \in Nat
          /\ entry.started < u
      BY <1>0, <1>2, <2>0, <2>2, NowIsLater DEF Entries
    <3>1. entry.sample = login[d] \/ login[d] = 0 \/ entry.started <= unreset[d]
      BY <1>0, <2>2 DEF Truthful
    <3>2. entry.sample = login'[d] \/ login'[d] = 0 \/ entry.started <= unreset[d]
      <4>1. CASE login'[d] \in {0, login[d]}
        BY <3>1, <4>1
      <4>2. CASE login'[d] \notin {0, login[d]}
        BY <1>3, <2>2, <3>0, <4>2
      <4> QED
        BY <4>1, <4>2
    <3>3. \/ unreset'[d] = unreset[d] \/ login'[d] = 0
          \/ unreset'[d] = u
      BY <1>1, <2>2, <3>0 DEF Resets
    <3> HIDE DEF u
    <3>4. unreset'[d] = u => entry.started <= unreset'[d]
      BY <3>0
    <3> QED
      BY <2>2, <3>2, <3>3, <3>4 DEF Shows
  <2>3. ASSUME NEW d \in Dir, NEW s \in Nat, NEW t \in Nat, NEW r \in Outcomes,
               entry' = Merged(entry, Update(d, s, t, r)), Source(p, d, s, t),
               entry'.dir = d, entry'.sample = s, entry'.started = t, ~Stale(entry, d, t)
        PROVE  Shows
    <3>1. Honest(d, t, s)
      BY <1>0, <2>3 DEF Source, Truthful
    <3>2. pc[p] \in Measured \cup InSession
      BY <2>3 DEF Source
    <3>3. unreset'[d] = unreset[d]
      BY <1>1, <3>2 DEF Resets
    <3>4. s = login[d] \/ login[d] = 0 \/ t <= unreset[d]
      BY <2>3, <3>1 DEF Honest, Late
    <3>5. login'[d] \in {0, login[d]} \/ entry' = entry
      BY <1>3
    <3>6. CASE login'[d] \in {0, login[d]}
      BY <2>3, <3>3, <3>4, <3>6 DEF Shows
    <3>7. CASE entry' = entry
      BY <2>2, <3>7
    <3> QED
      BY <3>5, <3>6, <3>7
  <2>4. ASSUME NEW d \in Dir, NEW s \in Nat, NEW t \in Nat, NEW r \in Outcomes,
               entry' = Merged(entry, Update(d, s, t, r)), Source(p, d, s, t)
        PROVE  Shows
    <3>1. \/ /\ entry # NoEntry /\ entry'.dir = entry.dir /\ entry'.sample = entry.sample
             /\ entry'.started = entry.started
          \/ entry'.dir = d /\ entry'.sample = s /\ entry'.started = t /\ ~Stale(entry, d, t)
      BY <1>0, <2>4, MergedSample
    <3> QED
      BY <2>2, <2>3, <2>4, <3>1
  <2> QED
    BY <1>1, <2>2, <2>4 DEF Merges
<1>5. ASSUME NEW r \in Proc, pc'[r] \in Measured
      PROVE  Honest(job[r].dir, job[r].at, job[r].got)'
  <2>1. ASSUME pc[r] \in Measured, job'[r].dir = job[r].dir, job'[r].at = job[r].at,
               job'[r].got = job[r].got, job[r].got # 0
        PROVE  \/ job[r].got = login'[job[r].dir] \/ login'[job[r].dir] = 0
               \/ Stale(entry', job[r].dir, job[r].at) \/ job[r].at <= unreset'[job[r].dir]
    <3>1. job[r].dir \in Dir /\ Honest(job[r].dir, job[r].at, job[r].got)
      BY <1>0, <1>u, <2>1 DEF Truthful, Uses, Holding, Measured
    <3>2. CASE login'[job[r].dir] \in {0, login[job[r].dir]}
      BY <1>0, <1>1, <1>2, <2>1, <3>1, <3>2, HonestKept DEF Late
    <3>3. CASE login'[job[r].dir] \notin {0, login[job[r].dir]}
      BY <1>0, <1>3, <2>1, <3>1, <3>3 DEF Late
    <3> QED
      BY <3>2, <3>3
  <2>2. CASE r # p
    BY <1>1, <1>5, <2>1, <2>2 DEF Apart, Honest, Late
  <2>3. CASE r = p
    BY <1>1, <1>5, <2>1, <2>3 DEF Worked, Honest, Late
  <2> QED
    BY <2>2, <2>3
<1>6. ASSUME NEW r \in Proc, pc'[r] \in InSession
      PROVE  Honest(job[r].dir, flight.at, flight.got)'
  <2>1. CASE flight'.got = 0
    BY <2>1 DEF Honest
  <2>2. CASE flight'.got # 0
    <3>1. pc[r] \in InSession /\ job'[r] = job[r]
      BY <1>1, <1>6, <2>2 DEF Apart, Flown
    <3>2. job[r].dir \in Dir /\ Honest(job[r].dir, flight.at, flight.got)
      BY <1>0, <1>u, <3>1 DEF Truthful, Uses, Holding
    <3>3. login'[job[r].dir] \in {0, login[job[r].dir]}
      BY <1>3, <3>1, <3>2
    <3>4. CASE flight' = flight
      <4>1. \/ flight.got = login'[job[r].dir] \/ login'[job[r].dir] = 0
            \/ Stale(entry', job[r].dir, flight.at) \/ flight.at <= unreset'[job[r].dir]
        BY <1>0, <1>1, <1>2, <2>2, <3>2, <3>3, <3>4, HonestKept DEF Late
      <4> QED
        BY <3>1, <3>4, <4>1 DEF Honest, Late
    <3>5. CASE pc[p] = "session" /\ flight'.got = login[job[p].dir] /\ login' = login
      <4>1. r = p
        BY <3>1, <3>5, OneSession DEF InSession
      <4> QED
        BY <3>1, <3>5, <4>1 DEF Honest
    <3> QED
      BY <1>1, <2>2, <3>4, <3>5 DEF Flown
  <2> QED
    BY <2>1, <2>2
<1>7. ASSUME NEW r \in Proc, pc'[r] \in {"measure", "lease"} PROVE job'[r].got = 0
  <2>1. CASE r = p
    BY <1>1, <1>7, <2>1 DEF Worked
  <2>2. CASE r # p
    BY <1>0, <1>1, <1>7, <2>2 DEF Apart, Truthful
  <2> QED
    BY <2>1, <2>2
<1> QED
  BY <1>4, <1>5, <1>6, <1>7 DEF Truthful, Shows


---------------------------------------------------------------------------
(* Types.                                                                  *)

SessionType ==
    /\ agy \in {"none", "running", "ended", "killed"}
    /\ interrupted \in BOOLEAN /\ pending \in BOOLEAN
    /\ event \in 0..MaxTurns /\ previous \in 0..event /\ probed \in 0..event

\* A step leaves the session alone, goes on with it, begins it or ends it.
Continues(p) ==
    \/ UNCHANGED session /\ (pc'[p] \in InSession <=> pc[p] \in InSession)
    \/ pc[p] \in InSession /\ pc'[p] \in InSession /\ agy' # "none"
    \/ pc'[p] \in InSession /\ agy' = "running" /\ flight' = NoFlight
    \/ pc[p] \in InSession /\ pc'[p] \notin InSession /\ agy' = "none" /\ flight' = NoFlight

\* Before and after every session.
LEMMA NewSession ==
    ASSUME agy' \in {"none", "running"}, interrupted' = FALSE, pending' \in BOOLEAN,
           event' = 0, previous' = 0, probed' = 0
    PROVE  SessionType'
<1>1. 0 \in 0..MaxTurns /\ 0 \in 0..0
  BY QuotaAssumption
<1>2. event' \in 0..MaxTurns /\ previous' \in 0..event' /\ probed' \in 0..event'
  BY <1>1
<1> QED
  BY <1>2 DEF SessionType

LEMMA SessionMoves ==
    ASSUME QuotaInv, NEW p \in Proc, Step(p)
    PROVE  SessionType' /\ Continues(p)
<1>0. /\ QuotaTypeOK /\ SessionType /\ MaxTurns \in Nat
      /\ event \in Nat /\ previous \in Nat /\ probed \in Nat /\ event <= MaxTurns
      /\ previous <= event /\ probed <= event
      /\ pc[p] \in Steps /\ (pc[p] \in InSession => agy # "none") /\ pc \in [Proc -> Steps]
  BY QuotaAssumption DEF QuotaInv, QuotaTypeOK, SessionType
<1>x. CASE UNCHANGED session /\ (pc'[p] \in InSession <=> pc[p] \in InSession)
  BY <1>0, <1>x DEF SessionType, session, bridge, Continues
<1>1. CASE Ends(p) /\ UNCHANGED session /\ pc[p] \notin InSession
  <2>1. pc'[p] = "idle"
    BY <1>0, <1>1, EndsLocks
  <2> QED
    BY <1>x, <1>1, <2>1 DEF InSession
<1>2. CASE Login(p)
  <2>1. UNCHANGED session /\ pc[p] \notin InSession
    BY <1>2 DEF Login, LoginBegins, LoginResets, SignsIn, LoginSucceeds, LoginFails, Registers,
       ExitProbes, ExitMerges, InSession, Begin
  <2>2. CASE ~Ends(p)
    <3>1. pc'[p] \notin InSession
      BY <1>0, Moves, <1>2, <2>2 DEF InSession, Login, LoginBegins, LoginResets, SignsIn,
         LoginSucceeds, LoginFails, Registers, ExitProbes, ExitMerges
    <3> QED
      BY <1>x, <2>1, <3>1
  <2> QED
    BY <1>1, <2>1, <2>2
<1>3. CASE Session(p)
  <2>1. CASE RunBegins(p)
    <3>1. pc'[p] = "session" /\ agy' = "running" /\ interrupted' = FALSE
          /\ event' = 0 /\ previous' = 0 /\ pending' = FALSE /\ flight' = NoFlight
          /\ probed' = 0
      BY <1>0, Moves, <2>1 DEF RunBegins
    <3>2. Continues(p)
      BY <3>1 DEF Continues, InSession
    <3> QED
      BY <3>1, <3>2, NewSession
  <2>2. CASE Polls(p)
    <3>1. /\ pc[p] = "session" /\ pc' = pc
          /\ agy' = agy /\ interrupted' = interrupted /\ event' = event /\ previous' = event
          /\ pending' \in BOOLEAN /\ probed' \in {event, probed}
      BY <2>2 DEF Polls
    <3> QED
      BY <1>0, <3>1 DEF SessionType, Continues, InSession
  <2>3. CASE PollFails(p) \/ FlightProbes(p)
    <3>1. /\ pc[p] = "session" /\ pc' = pc
          /\ UNCHANGED <<agy, interrupted, event, previous, pending, probed>>
      BY <2>3 DEF PollFails, FlightProbes
    <3> QED
      BY <1>0, <3>1 DEF SessionType, Continues, InSession
  <2>4. CASE StopsAgy(p)
    <3>1. /\ pc[p] = "session" /\ pc' = pc /\ agy' \in {"ended", "killed"}
          /\ interrupted' = FALSE /\ UNCHANGED <<event, previous, pending, probed>>
      BY <2>4 DEF StopsAgy, bridge
    <3> QED
      BY <1>0, <3>1 DEF SessionType, Continues, InSession
  <2>5. CASE Closes(p) \/ Joins(p)
    <3>0. /\ pc[p] \in InSession /\ pending' \in BOOLEAN /\ interrupted' \in BOOLEAN
          /\ \/ event' = 0 /\ previous' = 0 /\ probed' = 0
             \/ UNCHANGED <<event, previous, probed>>
      BY <1>0, <2>5 DEF Closes, Joins, InSession, SessionType
    <3>1. agy' \in {agy, "none"} => SessionType'
      <4>1. 0 \in 0..MaxTurns /\ 0 \in 0..0
        BY <1>0
      <4>2. event' \in 0..MaxTurns /\ previous' \in 0..event' /\ probed' \in 0..event'
        BY <1>0, <3>0, <4>1 DEF SessionType
      <4> QED
        BY <1>0, <3>0, <4>2 DEF SessionType
    <3>2. CASE Leaves(p)
      <4>1. pc'[p] \in {"exit", "idle"} /\ agy' = "none" /\ flight' = NoFlight
        BY <1>0, Moves, EndsLocks, <3>2 DEF Leaves
      <4> QED
        BY <3>0, <3>1, <4>1 DEF Continues, InSession
    <3>3. CASE ~Leaves(p)
      <4>1. pc'[p] = "joining" /\ agy' = agy
        BY <1>0, Moves, <2>5, <3>3 DEF Closes, Joins
      <4> QED
        BY <1>0, <3>0, <3>1, <4>1 DEF Continues, InSession
    <3> QED
      BY <3>2, <3>3
  <2> QED
    BY <1>3, <2>1, <2>2, <2>3, <2>4, <2>5 DEF Session, Bridge
<1>4. CASE Refresh(p)
  <2>1. UNCHANGED session /\ pc[p] \notin InSession
    BY <1>4 DEF Refresh, RefreshBegins, MeasureBegins, Unmeasured, Measures,
       MeasureEnds, Records, MeasureFrame, InSession, Begin
  <2>2. CASE ~Ends(p)
    <3>1. pc'[p] \notin InSession
      BY <1>0, Moves, <1>4, <2>2 DEF InSession, Refresh, RefreshBegins, MeasureBegins,
         Unmeasured, Measures, MeasureEnds, Records
    <3> QED
      BY <1>x, <2>1, <3>1
  <2> QED
    BY <1>1, <2>1, <2>2
<1>5. CASE Rm(p)
  <2>1. UNCHANGED session /\ pc[p] \notin InSession
    BY <1>5 DEF Rm, RmBegins, RmFinishes, RecoversRemoval, RecoveryFails, Removed, InSession,
       Begin, Locking
  <2>2. CASE ~Ends(p)
    <3>1. pc'[p] \notin InSession
      BY <1>0, Moves, <1>5, <2>2 DEF InSession, Rm, RmBegins, RmFinishes, RecoversRemoval,
         RecoveryFails, Locking
    <3> QED
      BY <1>x, <2>1, <3>1
  <2> QED
    BY <1>1, <2>1, <2>2
<1>6. CASE Sync(p)
  <2>1. UNCHANGED session /\ pc[p] \notin InSession
    BY <1>6 DEF Sync, SyncBegins, RecoversImport, Exports, Clones, Publishes, Fetches,
       KeepsLabel, PlansImport, Stages, CommitsImport, ForgetsImport, ImportFails, SyncFrame,
       InSession, Begin
  <2>2. CASE ~Ends(p)
    <3>1. pc'[p] \notin InSession
      <4>1. CASE SyncBegins(p)
        BY <1>0, <4>1 DEF SyncBegins, InSession
      <4>2. CASE ~SyncBegins(p)
        BY <1>0, Moves, <1>6, <4>2, <2>2 DEF Sync, RecoversImport, Exports, Clones, Publishes,
           Fetches, KeepsLabel, PlansImport, Stages, CommitsImport, ForgetsImport, ImportFails,
           InSession
      <4> QED
        BY <4>1, <4>2
    <3> QED
      BY <1>x, <2>1, <3>1
  <2> QED
    BY <1>1, <2>1, <2>2
<1>7. CASE Kill(p)
  <2>1. CASE pc[p] \in InSession
    <3>1. /\ agy' = "none" /\ interrupted' = FALSE /\ event' = 0
          /\ previous' = 0 /\ pending' = FALSE /\ flight' = NoFlight /\ probed' = 0
          /\ pc'[p] = "idle"
      BY <1>0, EndsLocks, <1>7, <2>1 DEF Kill
    <3>2. Continues(p)
      BY <2>1, <3>1 DEF Continues, InSession
    <3> QED
      BY <3>1, <3>2, NewSession
  <2>2. CASE pc[p] \notin InSession
    BY <1>1, <1>7, <2>2 DEF Kill
  <2> QED
    BY <2>1, <2>2
<1> QED
  BY <1>2, <1>3, <1>4, <1>5, <1>6, <1>7 DEF Step

\* Locks and steps.
LEMMA LockTypes ==
    ASSUME QuotaInv, NEW p \in Proc, Step(p)
    PROVE  /\ pc' \in [Proc -> Steps]
           /\ lease' \in [Dir -> Proc \cup {Nobody}]
           /\ {registryLock', syncLock'} \subseteq Proc \cup {Nobody}
<1>0. /\ QuotaTypeOK
      /\ pc \in [Proc -> Steps] /\ lease \in [Dir -> Proc \cup {Nobody}]
      /\ {registryLock, syncLock} \subseteq Proc \cup {Nobody}
  BY DEF QuotaInv, QuotaTypeOK
<1>1. CASE Ends(p)
  <2>1. pc' = [pc EXCEPT ![p] = "idle"]
    BY <1>0, <1>1, EndsLocks
  <2> QED
    BY <1>0, <1>1, <2>1, EndsLocks DEF Steps
<1> USE <1>0 DEF Goto, Steps, Lease
<1>2. CASE Login(p)
  BY <1>1, <1>2 DEF Login, LoginBegins, LoginResets, SignsIn,
     LoginSucceeds, LoginFails, Registers, ExitProbes, ExitMerges, locks
<1>3. CASE Session(p)
  BY <1>1, <1>3 DEF Session, Bridge, RunBegins, Polls, PollFails,
     FlightProbes, StopsAgy, Closes, Joins, Leaves, SessionFrame, locks
<1>4. CASE Refresh(p)
  BY <1>1, <1>4 DEF Refresh, RefreshBegins, MeasureBegins, Unmeasured,
     Measures, MeasureEnds, Records, MeasureFrame, Without, locks
<1>5. CASE Rm(p)
  BY <1>1, <1>5 DEF Rm, RmBegins, RmFinishes, RecoversRemoval, RecoveryFails, locks
<1>6. CASE Sync(p)
  BY <1>1, <1>6 DEF Sync, SyncBegins, RecoversImport, Exports, Clones, Publishes,
     Fetches, KeepsLabel, PlansImport, Stages, CommitsImport, ForgetsImport, ImportFails, locks
<1>7. CASE Kill(p)
  BY <1>1, <1>7 DEF Kill
<1> QED
  BY <1>2, <1>3, <1>4, <1>5, <1>6, <1>7 DEF Step

\* The registry, its manifests, the directories and the remote pool.
LEMMA PoolTypes ==
    ASSUME QuotaInv, NEW p \in Proc, Step(p)
    PROVE  /\ registry' \in Dir \cup {None} /\ import' \in Imports \cup {None}
           /\ removal' \in Removals \cup {None}
           /\ place' \in [Dir -> {"absent", "staged", "present"}]
           /\ used' \subseteq Imports /\ remote' \in Nat
<1>0. /\ QuotaTypeOK /\ LocksHeld(p)
      /\ registry \in Dir \cup {None} /\ import \in Imports \cup {None}
      /\ removal \in Removals \cup {None}
      /\ place \in [Dir -> {"absent", "staged", "present"}]
      /\ used \subseteq Imports /\ remote \in Nat /\ job[p].got \in Nat
      /\ Own \in Dir /\ Imports \subseteq Dir
  BY Moves, JobTypes DEF QuotaInv, QuotaTypeOK, Dir
<1>1. /\ registry' \in Dir \cup {None} /\ import' \in Imports \cup {None}
      /\ place' \in [Dir -> {"absent", "staged", "present"}] /\ used' \subseteq Imports
  <2>1. CASE ~Writes(p)
    BY <1>0, <2>1, OnlyWrites DEF Tracked
  <2>2. CASE LoginBegins(p) \/ SignsIn(p) \/ Registers(p)
    BY <1>0, <2>2 DEF LoginBegins, SignsIn, Registers, registryVars, dirs
  <2>3. CASE RmFinishes(p) \/ RecoversRemoval(p)
    BY <1>0, <2>3 DEF RmFinishes, RecoversRemoval, Removed
  <2>4. CASE RecoversImport(p)
    BY <1>0, <2>4 DEF RecoversImport, Cleans
  <2>5. CASE PlansImport(p)
    BY <1>0, <2>5 DEF PlansImport
  <2>6. CASE Stages(p)
    BY <1>0, <2>6 DEF Stages
  <2>7. CASE CommitsImport(p) \/ ForgetsImport(p) \/ ImportFails(p)
    <3>1. pc[p] \in ImportHeld => job[p].dir = import /\ import \in Imports
      BY WritersKnow
    <3> QED
      BY <1>0, <2>7, <3>1 DEF CommitsImport, ForgetsImport, ImportFails, ImportHeld, dirs
  <2> QED
    BY <2>1, <2>2, <2>3, <2>4, <2>5, <2>6, <2>7 DEF Writes
<1>2. removal' \in Removals \cup {None}
  <2>1. CASE RmBegins(p)
    <3>1. Now \in Nat /\ registry \in Dir
      BY <1>0, <2>1, NowIsLater DEF RmBegins
    <3> QED
      BY <2>1, <3>1 DEF RmBegins, Removals
  <2>2. CASE removal' \in {removal, None}
    BY <1>0, <2>2
  <2> QED
    BY <2>1, <2>2 DEF Step, Login, Session, Bridge, Refresh, Rm, Sync, LoginBegins, LoginResets,
       SignsIn, LoginSucceeds, LoginFails, Registers, ExitProbes, ExitMerges, RunBegins, Polls,
       PollFails, FlightProbes, StopsAgy, Closes, Joins, Leaves, RefreshBegins, MeasureBegins,
       Unmeasured, Measures, MeasureEnds, Records, RmFinishes, RecoversRemoval, Removed,
       RecoveryFails, SyncBegins, RecoversImport, Exports, Clones, Publishes, Fetches,
       KeepsLabel, PlansImport, Stages, CommitsImport, ForgetsImport, ImportFails, Kill,
       registryVars, SessionFrame, MeasureFrame, SyncFrame
<1>3. remote' \in {remote, job[p].got}
  BY DEF Step, Login, Session, Bridge, Refresh, Rm, Sync, LoginBegins, LoginResets,
       SignsIn, LoginSucceeds, LoginFails, Registers, ExitProbes, ExitMerges, RunBegins, Polls,
       PollFails, FlightProbes, StopsAgy, Closes, Joins, Leaves, RefreshBegins, MeasureBegins,
       Unmeasured, Measures, MeasureEnds, Records, RmBegins, RmFinishes, RecoversRemoval, Removed,
       RecoveryFails, SyncBegins, RecoversImport, Exports, Clones, Publishes, Fetches,
       KeepsLabel, PlansImport, Stages, CommitsImport, ForgetsImport, ImportFails, Kill,
       SessionFrame, MeasureFrame
<1> QED
  BY <1>0, <1>1, <1>2, <1>3


LEMMA TypeKept ==
    ASSUME QuotaInv, NEW p \in Proc, Step(p)
    PROVE  QuotaTypeOK'
<1>0. QuotaTypeOK /\ \A q \in Proc : LocksHeld(q)'
  BY LocksSelf, LocksOthers DEF QuotaInv
<1>1. Worked(p) /\ Merges(p) /\ Apart(p) /\ Flown(p) /\ Logged(p)
  BY JobMoves, EntryMoves, StepsApart, FlightMoves, LoginMoves DEF QuotaInv
<1>2. SessionType' /\ Continues(p)
  BY SessionMoves
<1>3. \A q \in Proc : pc[q] \in InSession => \A r \in Proc : pc[r] \in InSession => q = r
  BY OneSession
<1>4. /\ agy # "none" <=> \E q \in Proc : pc[q] \in InSession
      /\ flight # NoFlight => agy # "none"
  BY <1>0 DEF QuotaTypeOK
<1>5. \A q \in Proc : q # p => pc'[q] = pc[q]
  BY <1>1 DEF Apart
<1>6. agy' # "none" <=> \E q \in Proc : pc'[q] \in InSession
  <2>1. CASE UNCHANGED session /\ (pc'[p] \in InSession <=> pc[p] \in InSession)
    <3>1. \A q \in Proc : pc'[q] \in InSession <=> pc[q] \in InSession
      BY <1>5, <2>1
    <3> QED
      BY <1>4, <2>1, <3>1 DEF session
  <2>2. CASE pc'[p] \in InSession /\ agy' # "none"
    BY <2>2
  <2>3. CASE pc[p] \in InSession /\ pc'[p] \notin InSession /\ agy' = "none"
    <3>1. \A q \in Proc : pc'[q] \notin InSession
      BY <1>3, <1>5, <2>3
    <3> QED
      BY <2>3, <3>1
  <2> QED
    BY <1>2, <2>1, <2>2, <2>3 DEF Continues
<1>7. flight' # NoFlight => agy' # "none"
  BY <1>2, <1>4 DEF Continues, session, bridge
<1>8. \A q \in Proc : pc'[q] \in InSession => lease'[job'[q].dir] = q
  BY <1>0 DEF LocksHeld, Holding
<1>9. /\ registry' \in Dir \cup {None} /\ import' \in Imports \cup {None}
      /\ removal' \in Removals \cup {None}
      /\ place' \in [Dir -> {"absent", "staged", "present"}]
      /\ used' \subseteq Imports /\ remote' \in Nat
  BY PoolTypes
<1>10. /\ pc' \in [Proc -> Steps] /\ lease' \in [Dir -> Proc \cup {Nobody}]
       /\ {registryLock', syncLock'} \subseteq Proc \cup {Nobody}
  BY LockTypes
<1>11. entry' \in {e \in Entries : ValidEntry(e)} \cup {NoEntry}
  BY <1>1, EntryKept
<1>12. /\ job' \in [Proc -> Jobs] /\ flight' \in Flights /\ login' \in [Dir -> Nat]
       /\ unreset' \in [Dir -> Nat]
  BY <1>1, ResetMoves DEF Worked, Flown, Logged, Resets
<1>13. /\ agy' \in {"none", "running", "ended", "killed"}
       /\ interrupted' \in BOOLEAN /\ pending' \in BOOLEAN
       /\ event' \in 0..MaxTurns /\ previous' \in 0..event' /\ probed' \in 0..event'
  BY <1>2 DEF SessionType
<1> QED
  BY <1>6, <1>7, <1>8, <1>9, <1>10, <1>11, <1>12, <1>13 DEF QuotaTypeOK

---------------------------------------------------------------------------
(* The invariant holds.                                                    *)

LEMMA StepKept ==
    ASSUME QuotaInv, NEW p \in Proc, Step(p)
    PROVE  QuotaInv'
<1>1. \A q \in Proc : LocksHeld(q)' /\ Registered(q)' /\ Barred(q)'
  BY LocksSelf, LocksOthers, RegisteredSelf, RegisteredOthers, BarredSelf, BarredOthers
<1> QED
  BY <1>1, TypeKept, RegistryKept, TimedKept, TruthfulKept, FreshKept DEF QuotaInv

\* agy, its helpers, a worker's answer, SIGINT and another machine.
LEMMA OuterKept ==
    ASSUME QuotaInv, Outer
    PROVE  QuotaInv'
<1>1. UNCHANGED <<registry, removal, import, place, login, used, entry, lease, registryLock,
                  syncLock, pc, job, unreset>>
  BY OuterFrame DEF registryVars, dirs, locks
<1>a. /\ QuotaTypeOK /\ Truthful /\ Timed /\ SessionType /\ MaxTurns \in Nat
      /\ remote \in Nat /\ flight \in Flights /\ (flight # NoFlight => agy # "none")
  BY QuotaAssumption DEF QuotaInv, QuotaTypeOK, SessionType
<1>b. /\ event \in Nat /\ previous \in Nat /\ probed \in Nat /\ event <= MaxTurns
      /\ previous <= event /\ probed <= event
  BY <1>a DEF SessionType
<1>0. /\ QuotaTypeOK /\ Truthful /\ Timed /\ SessionType /\ MaxTurns \in Nat
      /\ event \in Nat /\ previous \in Nat /\ probed \in Nat /\ event <= MaxTurns
      /\ previous <= event /\ probed <= event /\ remote \in Nat /\ flight \in Flights
      /\ flight.got \in Nat /\ (flight # NoFlight => agy # "none")
  BY <1>a, <1>b, FlightTypes
<1>2. /\ flight' \in Flights /\ (flight' # NoFlight => flight # NoFlight)
      /\ flight'.at = flight.at /\ flight'.got \in {0, flight.got}
  <2>1. CASE FlightEnds
    <3>1. flight # NoFlight
      BY <2>1, FlightTypes DEF FlightEnds
    <3>2. PICK ok \in BOOLEAN :
            flight' = [flight EXCEPT !.stage = "done", !.got = Seen(ok, flight.got)]
      BY <2>1 DEF FlightEnds
    <3>3. Seen(ok, flight.got) \in Nat /\ Seen(ok, flight.got) \in {0, flight.got}
      BY <1>0 DEF Seen
    <3> QED
      BY <1>0, <3>1, <3>2, <3>3, FlightTypes
  <2>2. CASE flight' = flight
    BY <1>0, <2>2
  <2> QED
    BY <2>1, <2>2 DEF Outer, Helper, AgyEnds, Interrupt, OtherMachine, bridge, SyncFrame,
       session
<1>3. SessionType' /\ (agy' # "none" <=> agy # "none")
  <2>1. CASE Helper
    <3>1. /\ event' \in (event + 1)..MaxTurns
          /\ UNCHANGED <<agy, interrupted, previous, pending, probed>>
      BY <2>1 DEF Helper, bridge
    <3> QED
      BY <1>0, <3>1 DEF SessionType
  <2>2. CASE AgyEnds
    BY <1>0, <2>2 DEF AgyEnds, SessionType, bridge
  <2>3. CASE Interrupt
    BY <1>0, <2>3 DEF Interrupt, SessionType, bridge
  <2>4. CASE FlightEnds \/ OtherMachine
    <3>1. UNCHANGED <<agy, interrupted, event, previous, pending, probed>>
      BY <2>4 DEF FlightEnds, OtherMachine, SyncFrame, session, bridge
    <3> QED
      BY <1>0, <3>1 DEF SessionType
  <2> QED
    BY <2>1, <2>2, <2>3, <2>4 DEF Outer
<1>4. remote' \in Nat
  BY <1>0, NewLoginType DEF Outer, Helper, FlightEnds, AgyEnds, Interrupt, OtherMachine,
     SessionFrame
<1>5. QuotaTypeOK'
  BY <1>0, <1>1, <1>2, <1>3, <1>4 DEF QuotaTypeOK, SessionType
<1>6. Truthful'
  <2>1. \A p \in Proc : pc[p] \in InSession => Honest(job[p].dir, flight'.at, flight'.got)
    BY <1>0, <1>2 DEF Truthful, Honest
  <2> QED
    BY <1>0, <1>1, <2>1 DEF Truthful, Honest, Late
<1>7. Timed'
  BY <1>0, <1>1, <1>2 DEF Timed
<1>8. (\A p \in Proc : LocksHeld(p) /\ Registered(p) /\ Barred(p))'
  BY <1>1 DEF QuotaInv, LocksHeld, Registered, Barred, Late, Present, HasLogin
<1>9. Registry' /\ Fresh'
  BY <1>1 DEF QuotaInv, Registry, ImportResolvable, Present, HasLogin, Fresh, Unseen
<1> QED
  BY <1>5, <1>6, <1>7, <1>8, <1>9 DEF QuotaInv

LEMMA InitQuota ==
    ASSUME Init PROVE QuotaInv
<1> USE QuotaAssumption DEF Init
<1>1. /\ \A p \in Proc : pc[p] = "idle" /\ job[p] = NoJob
      /\ \A d \in Dir : lease[d] = Nobody
      /\ Own \in Dir /\ Imports \subseteq Dir
  BY DEF Dir
<1>2. QuotaTypeOK
  <2>1. /\ registry \in Dir \cup {None} /\ import \in Imports \cup {None}
        /\ removal \in Removals \cup {None}
        /\ place \in [Dir -> {"absent", "staged", "present"}]
        /\ login \in [Dir -> Nat] /\ used \subseteq Imports /\ remote \in Nat
    BY <1>1
  <2>2. /\ lease \in [Dir -> Proc \cup {Nobody}]
        /\ {registryLock, syncLock} \subseteq Proc \cup {Nobody}
        /\ pc \in [Proc -> Steps]
    BY DEF Steps
  <2>3. job \in [Proc -> Jobs] /\ flight \in Flights
    BY NoJobType, FlightTypes
  <2>4. event \in 0..MaxTurns /\ previous \in 0..event /\ probed \in 0..event
    <3>1. 0 \in 0..MaxTurns /\ 0 \in 0..0
      OBVIOUS
    <3> QED
      BY <3>1
  <2> QED
    BY <1>1, <2>1, <2>2, <2>3, <2>4 DEF QuotaTypeOK, InSession
<1>3. \A p \in Proc : LocksHeld(p) /\ Registered(p) /\ Barred(p)
  BY <1>1 DEF LocksHeld, Registered, Barred, Uses, Holding, LoginSteps, InSession, ImportHeld,
     SyncSteps
<1>4. Registry
  BY <1>1 DEF Registry, ImportResolvable, Present, HasLogin
<1>5. Timed /\ Truthful
  <2>1. flight.got = 0
    BY FlightTypes
  <2> QED
    BY <1>1, <2>1 DEF Timed, Truthful, Measured, InSession
<1>6. Fresh
  <2>1. \A d \in Imports : registry # d /\ entry = NoEntry
    BY <1>1
  <2>2. \A p \in Proc : pc[p] \notin Uses /\ pc[p] # "stage"
    BY <1>1 DEF Uses, Holding, LoginSteps, InSession
  <2> QED
    BY <2>1, <2>2 DEF Fresh, Unseen
<1> QED
  BY <1>2, <1>3, <1>4, <1>5, <1>6 DEF QuotaInv

LEMMA QuotaKept == QuotaInv /\ [Next]_vars => QuotaInv'
<1> SUFFICES ASSUME QuotaInv, [Next]_vars PROVE QuotaInv'
  OBVIOUS
<1>1. CASE \E p \in Proc : Step(p)
  BY <1>1, StepKept
<1>2. CASE Outer
  BY <1>2, OuterKept
<1>3. CASE UNCHANGED vars
  <2>1. UNCHANGED <<registry, removal, import, place, login, used, entry, remote, lease,
                    registryLock, syncLock, pc, job, agy, interrupted, event, previous, pending,
                    flight, probed, unreset>>
    BY <1>3 DEF vars, registryVars, dirs, locks, session, bridge, past
  <2>2. QuotaTypeOK'
    BY <2>1 DEF QuotaInv, QuotaTypeOK
  <2>3. Timed' /\ Truthful'
    BY <2>1 DEF QuotaInv, Timed, Truthful, Honest, Late
  <2>4. (\A p \in Proc : LocksHeld(p) /\ Registered(p) /\ Barred(p))'
    BY <2>1 DEF QuotaInv, LocksHeld, Registered, Barred, Late, Present, HasLogin
  <2>5. Registry' /\ Fresh'
    BY <2>1 DEF QuotaInv, Registry, ImportResolvable, Present, HasLogin, Fresh, Unseen
  <2> QED
    BY <2>2, <2>3, <2>4, <2>5 DEF QuotaInv
<1> QED
  BY <1>1, <1>2, <1>3 DEF Next, Step, Outer

\* Who works on the label has the locks for it; what was measured shows what its
\* directory holds, or is too late to be merged, or began before a reset that
\* could not be written; and nobody signs in before that is so: the invariant
\* the others follow from.
THEOREM QuotaInvariant == Spec => []QuotaInv
  BY InitQuota, QuotaKept, PTL DEF Spec

\* The state has its type: one session at a time, under the lease of the
\* directory it runs in, and no worker without a session.
THEOREM QuotaTypeCorrect == Spec => []QuotaTypeOK
<1>1. QuotaInv => QuotaTypeOK
  BY DEF QuotaInv
<1> QED
  BY <1>1, QuotaInvariant, PTL

\* A registered label has its directory and a login in it; an imported directory
\* is registered or named by the manifest of its import (recover_import).
THEOREM ImportsResolvable == Spec => []ImportResolvable
<1>1. QuotaInv => ImportResolvable
  BY DEF QuotaInv, Registry
<1> QED
  BY <1>1, QuotaInvariant, PTL

\* A quota shown for the label was measured with the identity its directory
\* holds now, however late it was merged (cache::merge), unless it began before
\* a reset that could not be written (profile/mod.rs:63).
THEOREM ShownQuotaCurrent == Spec => []ShownIsCurrent
<1>1. QuotaInv => ShownIsCurrent
  BY DEF QuotaInv, Truthful, Registry, ImportResolvable, HasLogin, Shown, ShownIsCurrent
<1> QED
  BY <1>1, QuotaInvariant, PTL

\* The login published for a label is never replaced (merge_push, and git's
\* refusal of a push over an unseen commit).
THEOREM RemoteLoginKept == Spec => RemoteKept
<1> DEFINE Kept == InPool => remote' = remote
<1>1. [Next]_vars => [Kept]_vars
  <2> SUFFICES ASSUME Next, InPool PROVE remote' = remote
    BY DEF vars
  <2>1. CASE \E p \in Proc : Login(p) \/ Session(p)
    BY <2>1 DEF Login, Session, Bridge, LoginBegins, LoginResets,
       SignsIn, LoginSucceeds, LoginFails, Registers, ExitProbes, ExitMerges, RunBegins, Polls,
       PollFails, FlightProbes, StopsAgy, Closes, Joins, Leaves, SessionFrame
  <2>2. CASE \E p \in Proc : Refresh(p) \/ Rm(p) \/ Kill(p)
    BY <2>2 DEF Refresh, Rm, RefreshBegins, MeasureBegins,
       Unmeasured, Measures, MeasureEnds, Records, RmBegins, RmFinishes, RecoversRemoval,
       Removed, RecoveryFails, Kill, MeasureFrame
  <2>3. CASE \E p \in Proc : Sync(p)
    BY <2>3 DEF Sync, SyncBegins, RecoversImport, Exports, Clones, Publishes, Fetches,
       KeepsLabel, PlansImport, Stages, CommitsImport, ForgetsImport, ImportFails
  <2>4. CASE Outer
    BY <2>4 DEF Outer, Helper, FlightEnds, AgyEnds, Interrupt, OtherMachine, SessionFrame
  <2> QED
    BY <2>1, <2>2, <2>3, <2>4 DEF Next, Outer
<1> QED
  BY <1>1, PTL DEF Spec, RemoteKept

=============================================================================
