------------------------- MODULE AccountUsageProofs -------------------------
(***************************************************************************)
(* The properties of AccountUsage, for every value of the constants: for   *)
(* every length of the probe cache, backoff and cooldown windows that      *)
(* HealthAssumption allows, and every set of clock readings.               *)
(***************************************************************************)
EXTENDS AccountUsage, TLAPS

\* A snapshot this code leaves: State accepts it, and only a 429 owns a window.
Coherent(u) ==
    /\ u \in Usage
    /\ Storable(u)
    /\ u.cooldown # None => u.lastError = "rate_limited"

Bounded(u) ==
    u.cooldown # None => u.cooldown.until - u.cooldown.started \in 1..MaxRetry

\* Lemma: a normalised window is no window, or one that has started, is not
\* over, is at most MaxRetry long and ends no later than the stored one.
LEMMA NormalWindow ==
    ASSUME NEW c \in Cooldown \cup {None}, NEW now \in Int
    PROVE  LET n == NormalCooldown(c, now) IN
           /\ n \in Cooldown \cup {None}
           /\ n # None => /\ c # None
                          /\ n.started = c.started /\ n.started <= now
                          /\ n.until > now /\ n.until <= c.until
                          /\ n.until - n.started \in 1..MaxRetry
           /\ NormalCooldown(n, now) = n
<1>1. CASE NormalCooldown(c, now) = None
  BY <1>1 DEF NormalCooldown
<1>2. CASE NormalCooldown(c, now) # None
  <2>1. c \in Cooldown
    BY <1>2 DEF NormalCooldown
  <2>2. NormalCooldown(c, now) =
          [started |-> c.started, until |-> Lower(c.until, c.started + MaxRetry),
           evidence |-> Upper(c.evidence, c.started)]
    BY <1>2 DEF NormalCooldown
  <2>3. /\ c.started <= now /\ c.evidence <= now /\ c.until > c.started
        /\ Lower(c.until, c.started + MaxRetry) > now
    BY <1>2, <2>1, HealthAssumption DEF NormalCooldown, Cooldown, Lower
  <2>4. NormalCooldown(c, now) \in Cooldown
    BY <2>1, <2>2, HealthAssumption DEF Cooldown, Lower, Upper
  <2> DEFINE n == NormalCooldown(c, now)
  <2>5. /\ n.started = c.started /\ n.until = Lower(c.until, c.started + MaxRetry)
        /\ n.evidence = Upper(c.evidence, c.started)
    BY <2>2
  <2>6. /\ n.started <= now /\ n.until > now /\ n.until <= c.until
        /\ n.until - n.started \in 1..MaxRetry
    BY <2>1, <2>3, <2>5, HealthAssumption DEF Cooldown, Lower
  <2>7. NormalCooldown(n, now) = n
    <3>1. /\ n # None /\ n.evidence <= now /\ n.until > n.started
          /\ Lower(n.until, n.started + MaxRetry) = n.until
          /\ Upper(n.evidence, n.started) = n.evidence
      BY <1>2, <2>1, <2>3, <2>5, HealthAssumption DEF Cooldown, Lower, Upper
    <3> HIDE DEF n
    <3>2. NormalCooldown(n, now) = [started |-> n.started, until |-> n.until,
                                    evidence |-> n.evidence]
      BY <2>4, <2>6, <3>1 DEF NormalCooldown, Cooldown, n
    <3> QED
      BY <2>4, <3>2 DEF Cooldown, n
  <2> QED
    BY <1>2, <2>1, <2>4, <2>5, <2>6, <2>7, HealthAssumption
<1> QED
  BY <1>1, <1>2

\* Lemma: normalising keeps a snapshot coherent, bounds its window, and takes
\* only the verdict of a rate limit away.
LEMMA NormalSnapshot ==
    ASSUME NEW u, Coherent(u), NEW now \in Int
    PROVE  LET n == Normalized(u, now) IN
           /\ Coherent(n) /\ Bounded(n)
           /\ n.cooldown = NormalCooldown(u.cooldown, now)
           /\ n.lastProbe = None \/ (n.lastProbe = u.lastProbe /\ n.lastProbe <= now)
           /\ n.health \in {u.health, "unverified"}
           /\ n.health # u.health => u.health = "rate_limited"
           /\ u.cooldown = None => n.lastError = u.lastError
           /\ u.cooldown # None /\ n.cooldown = None => n.health = "unverified"
           /\ u.lastProbe # None /\ u.lastProbe <= now => n.lastProbe = u.lastProbe
           /\ u.health # "rate_limited" => n.health = u.health
<1> DEFINE c == NormalCooldown(u.cooldown, now)
           n == Normalized(u, now)
           probed == IF u.lastProbe # None /\ u.lastProbe > now THEN None ELSE u.lastProbe
<1>1. /\ u \in Usage /\ u.cooldown \in Cooldown \cup {None}
      /\ u.lastProbe \in Int \cup {None}
  BY DEF Coherent, Usage
<1>2. c \in Cooldown \cup {None} /\ (c # None => u.cooldown # None /\ c.until - c.started \in 1..MaxRetry)
  BY <1>1, NormalWindow
<1>3. /\ probed \in Int \cup {None}
      /\ probed = None \/ (probed = u.lastProbe /\ probed <= now)
      /\ u.lastProbe # None /\ u.lastProbe <= now => probed = u.lastProbe
  BY <1>1
<1> HIDE DEF c, probed
<1>4. CASE u.health = "rate_limited" /\ u.cooldown # None /\ c = None
  <2>1. n = [health |-> "unverified", cooldown |-> c, quota |-> "none",
             lastProbe |-> probed, lastError |-> "none"]
    BY <1>1, <1>4 DEF Normalized, c, probed, Usage
  <2>2. n \in Usage
    BY <1>2, <1>3, <2>1 DEF Usage, Statuses, Quotas, ErrorKinds
  <2> QED
    BY <1>2, <1>3, <1>4, <2>1, <2>2 DEF Coherent, Storable, Bounded, c, Rejections
<1>5. CASE ~(u.health = "rate_limited" /\ u.cooldown # None /\ c = None)
  <2>1. n = [health |-> u.health, cooldown |-> c, quota |-> u.quota,
             lastProbe |-> probed, lastError |-> u.lastError]
    BY <1>1, <1>5 DEF Normalized, c, probed, Usage
  <2>2. n \in Usage
    BY <1>1, <1>2, <1>3, <2>1 DEF Usage
  <2> QED
    BY <1>2, <1>3, <1>5, <2>1, <2>2 DEF Coherent, Storable, Bounded, c
<1> QED
  BY <1>4, <1>5

\* Lemma: a window a 429 starts is between 1 and MaxRetry long.
LEMMA FreshWindow ==
    ASSUME NEW at \in Int, NEW retry \in Int \cup {None}
    PROVE  LET w == NewCooldown(at, retry) IN
           /\ w \in Cooldown /\ w # None
           /\ w.until - w.started \in 1..MaxRetry
<1>1. ClampRetry(retry) \in 1..MaxRetry
  BY HealthAssumption DEF ClampRetry, Upper, Lower
<1> QED
  BY <1>1, HealthAssumption DEF NewCooldown, Cooldown

\* Lemma: what an observation makes of a snapshot without an active window.
\* Each outcome leaves a coherent snapshot; only a 429 leaves a window; only
\* an accepted probe leaves a Ready account.
LEMMA VerdictSound ==
    ASSUME NEW u, Coherent(u), u.cooldown = None,
           NEW previous, previous.health \in Statuses,
           NEW s \in Subjects, NEW o \in Outcome, NEW at \in Int, NEW now \in Int
    PROVE  LET v == Verdict(u, previous, s, o, at, now) IN
           /\ Coherent(v) /\ Bounded(v)
           /\ v.lastProbe = u.lastProbe
           /\ v.health = "ready" => o.kind = "ok"
           /\ v.cooldown # None => v.cooldown = NewCooldown(at, o.retry)
           /\ o.kind = "transport" /\ previous.health \in Rejections =>
                v.health \in Rejections
           /\ Refuses(o.kind, s) => v.health \in Rejections
<1> DEFINE v == Verdict(u, previous, s, o, at, now)
<1>1. /\ u \in Usage /\ u.lastProbe \in Int \cup {None} /\ o.retry \in Int \cup {None}
      /\ u = [health |-> u.health, cooldown |-> None, quota |-> u.quota,
              lastProbe |-> u.lastProbe, lastError |-> u.lastError]
  BY DEF Coherent, Usage, Outcome
<1>2. ASSUME NEW h, NEW e PROVE
        Judged(u, h, e, now) = [health |-> h, cooldown |-> None, quota |-> "none",
                                lastProbe |-> u.lastProbe, lastError |-> e]
  <2>1. Judged(u, h, e, now) = [u EXCEPT !.health = h, !.quota = "none",
                                         !.lastError = e, !.cooldown = None]
    BY DEF Judged
  <2> QED
    BY <1>1, <2>1
<1>3. ASSUME NEW h \in Statuses \ {"rate_limited"}, NEW e \in ErrorKinds
      PROVE  Coherent(Judged(u, h, e, now)) /\ Bounded(Judged(u, h, e, now))
  BY <1>1, <1>2 DEF Coherent, Bounded, Storable, Usage, Quotas
<1>4. CASE o.kind = "ok"
  <2>1. v = [health |-> "ready", cooldown |-> None, quota |-> "none",
             lastProbe |-> u.lastProbe, lastError |-> "none"]
    BY <1>1, <1>4 DEF Verdict, Accepted
  <2> HIDE DEF v
  <2> QED
    BY <1>1, <1>4, <2>1
    DEF v, Coherent, Bounded, Storable, Usage, Quotas, Statuses, ErrorKinds, Rejections,
        Refuses
<1>5. CASE o.kind = "http429"
  <2> DEFINE w == NewCooldown(at, o.retry)
  <2>1. /\ w \in Cooldown /\ w # None /\ w.until - w.started \in 1..MaxRetry
    BY <1>1, FreshWindow
  <2>2. v = IF w.until > now
            THEN [health |-> "rate_limited", cooldown |-> w, quota |-> "none",
                  lastProbe |-> u.lastProbe, lastError |-> "rate_limited"]
            ELSE [health |-> "unverified", cooldown |-> None, quota |-> "none",
                  lastProbe |-> u.lastProbe, lastError |-> "none"]
    <3>1. v = RateLimited(u, o.retry, at, now)
      BY <1>5 DEF Verdict
    <3> HIDE DEF v, w
    <3>2. RateLimited(u, o.retry, at, now) =
            IF w.until > now
            THEN [[u EXCEPT !.quota = "none"] EXCEPT !.health = "rate_limited",
                     !.cooldown = w, !.lastError = "rate_limited"]
            ELSE [[u EXCEPT !.quota = "none"] EXCEPT !.health = "unverified",
                     !.cooldown = None, !.lastError = "none"]
      BY DEF RateLimited, w
    <3>3. [u EXCEPT !.quota = "none"] =
            [health |-> u.health, cooldown |-> None, quota |-> "none",
             lastProbe |-> u.lastProbe, lastError |-> u.lastError]
      BY <1>1
    <3> QED
      BY <3>1, <3>2, <3>3
  <2> HIDE DEF v, w
  <2> QED
    BY <1>1, <1>5, <2>1, <2>2
    DEF v, w, Coherent, Bounded, Storable, Usage, Quotas, Statuses, ErrorKinds,
        Rejections, Refuses
<1>6. CASE o.kind \notin {"ok", "http429"}
  <2>1. PICK h \in Statuses \ {"rate_limited", "ready"}, e \in ErrorKinds :
          /\ v = Judged(u, h, e, now)
          /\ o.kind = "transport" /\ previous.health \in Rejections => h \in Rejections
          /\ Refuses(o.kind, s) => h \in Rejections
    BY <1>6 DEF Verdict, TransportHealth, Outcome, Statuses, Rejections, ErrorKinds, Refuses
  <2> HIDE DEF v
  <2>2. v = [health |-> h, cooldown |-> None, quota |-> "none",
             lastProbe |-> u.lastProbe, lastError |-> e]
    BY <1>2, <2>1
  <2>3. Coherent(v) /\ Bounded(v)
    BY <1>3, <2>1
  <2> QED
    BY <1>6, <2>1, <2>2, <2>3 DEF v
<1> QED
  BY <1>4, <1>5, <1>6

\* Lemma: an observation of a snapshot that is not cooling down.  It is either
\* superseded, or it is the account's last probe from now on.
LEMMA ReducedSound ==
    ASSUME NEW u, Coherent(u), NEW now \in Int, ~InCooldown(u, now),
           NEW s \in Subjects, NEW o \in Outcome, NEW at \in Int
    PROVE  LET r == Reduced(u, s, o, at, now) IN
           /\ Coherent(r) /\ Bounded(r)
           /\ Superseded(u, at, now) => r.health \in {u.health, "unverified"}
           /\ Superseded(u, at, now) /\ u.health \in Rejections => r.health = u.health
           /\ ~Superseded(u, at, now) =>
                /\ r.lastProbe = Lower(at, now)
                /\ r.health = "ready" => o.kind = "ok"
                /\ o.kind = "transport" /\ u.health \in Rejections =>
                     r.health \in Rejections
                /\ Refuses(o.kind, s) => r.health \in Rejections
<1> DEFINE n == Normalized(u, now)
           m == [n EXCEPT !.lastProbe = Lower(at, now)]
           r == Reduced(u, s, o, at, now)
<1>1. /\ Coherent(n) /\ Bounded(n) /\ n.cooldown = None
      /\ n.health \in {u.health, "unverified"}
      /\ u.health # "rate_limited" => n.health = u.health
  BY NormalSnapshot DEF InCooldown
<1>2. CASE Superseded(u, at, now)
  <2>1. r = n
    BY <1>2 DEF Reduced
  <2> HIDE DEF n, m, r
  <2> QED
    BY <1>1, <1>2, <2>1 DEF r, Rejections
<1>3. CASE ~Superseded(u, at, now)
  <2>1. r = Verdict(m, u, s, o, Lower(at, now), now)
    BY <1>3 DEF Reduced
  <2>2. Lower(at, now) \in Int
    BY DEF Lower
  <2> HIDE DEF n
  <2>3. /\ m = [health |-> n.health, cooldown |-> None, quota |-> n.quota,
                lastProbe |-> Lower(at, now), lastError |-> n.lastError]
        /\ n \in Usage
    BY <1>1 DEF Coherent, Usage
  <2> HIDE DEF m, r
  <2>4. Coherent(m) /\ m.cooldown = None /\ m.lastProbe = Lower(at, now)
    BY <1>1, <2>2, <2>3 DEF Coherent, Storable, Usage
  <2>5. u.health \in Statuses
    BY DEF Coherent, Usage
  <2> QED
    BY <1>3, <2>1, <2>2, <2>4, <2>5, VerdictSound DEF r
<1> QED
  BY <1>2, <1>3

\* Lemma: what a refresh that probes leaves.
LEMMA ProbedSound ==
    ASSUME NEW v, Coherent(v), NEW now \in Int, NEW force \in BOOLEAN,
           ProbeDecision(v, now, force) = "probe",
           NEW s \in Subjects, NEW o \in Outcome,
           NEW next \in Observed(Normalized(v, now), s, o, now)
    PROVE  /\ Coherent(next) /\ Bounded(next)
           /\ next.health = "ready" => next.lastProbe = now
           /\ s # "vertex" /\ o.kind = "transport" /\ v.health \in Rejections =>
                next.health \in Rejections
           /\ s # "vertex" /\ Refuses(o.kind, s) => next.health \in Rejections
<1> DEFINE u == Normalized(v, now)
           r == Reduced(u, s, o, now, now)
<1>1. /\ Coherent(u) /\ (u.lastProbe = None \/ u.lastProbe <= now)
      /\ v.health # "rate_limited" => u.health = v.health
  BY NormalSnapshot
<1>2. ~InCooldown(u, now)
  BY DEF ProbeDecision
<1> HIDE DEF u
<1>3. ~Superseded(u, now, now) /\ Lower(now, now) = now
  <2>1. u.lastProbe \in Int \cup {None}
    BY <1>1 DEF Coherent, Usage
  <2> QED
    BY <1>1, <2>1 DEF Superseded, Lower
<1>4. /\ Coherent(r) /\ Bounded(r) /\ r.lastProbe = now
      /\ o.kind = "transport" /\ u.health \in Rejections => r.health \in Rejections
      /\ Refuses(o.kind, s) => r.health \in Rejections
  BY <1>1, <1>2, <1>3, ReducedSound
<1> HIDE DEF r
<1>5. next \in Observed(u, s, o, now)
  BY DEF u
<1>6. CASE s = "vertex" /\ o.kind # "invalid_credential"
  <2>1. next = LocalVertex(now)
    BY <1>5, <1>6 DEF Observed
  <2> QED
    BY <1>6, <2>1, HealthAssumption
    DEF LocalVertex, Coherent, Bounded, Storable, Usage, Quotas, Statuses, ErrorKinds,
        Rejections
<1>7. CASE ~(s = "vertex" /\ o.kind # "invalid_credential") /\ r.health = "ready"
  <2>1. PICK q \in Quotas : next = [r EXCEPT !.quota = q]
    BY <1>5, <1>7 DEF Observed, r
  <2>2. /\ r \in Usage
        /\ next = [health |-> r.health, cooldown |-> r.cooldown, quota |-> q,
                   lastProbe |-> r.lastProbe, lastError |-> r.lastError]
    BY <1>4, <2>1 DEF Coherent, Usage
  <2> QED
    BY <1>1, <1>4, <1>7, <2>2 DEF Coherent, Bounded, Storable, Usage, Rejections
<1>8. CASE ~(s = "vertex" /\ o.kind # "invalid_credential") /\ r.health # "ready"
  <2>1. next = r
    BY <1>5, <1>8 DEF Observed, r
  <2> QED
    BY <1>1, <1>4, <1>8, <2>1 DEF Rejections
<1> QED
  BY <1>6, <1>7, <1>8

---------------------------------------------------------------------------
(* The inductive invariant.  A child runs only with an account that is not *)
(* cooling down, so its evidence never meets an active window; a rejection *)
(* that was the last answer is still the verdict.                          *)

Verdicts == {"none", "ok", "http400", "http401", "http403", "http429",
             "invalid_credential"}

UsageInv ==
    /\ subject \in Subjects /\ clock \in Time /\ launched \in Time \cup {None}
    /\ refreshed \in BOOLEAN /\ verdict \in Verdicts
    /\ Coherent(usage)
    /\ refreshed => Bounded(usage)
    /\ launched # None => refreshed /\ usage.cooldown = None
    /\ Rejected /\ subject # "vertex" => usage.health \in Rejections

\* Lemma: a fresh and a migrated snapshot satisfy the invariant.
LEMMA UsageInvInit == Init => UsageInv
<1> SUFFICES ASSUME Init PROVE UsageInv
  OBVIOUS
<1>1. CASE usage = DefaultUsage
  BY <1>1, HealthAssumption
  DEF Init, UsageInv, DefaultUsage, Verdicts, Coherent, Storable, Usage, Statuses,
      Quotas, ErrorKinds, Rejected, Refuses
<1>2. CASE usage \in Migrated
  <2>1. usage.cooldown \in Cooldown \cup {None}
    BY <1>2, UsageAssumption, HealthAssumption DEF Migrated, Cooldown
  <2>2. usage \in Usage
    BY <1>2, <2>1, UsageAssumption DEF Migrated, Usage
  <2>3. Storable(usage) /\ (usage.cooldown # None => usage.lastError = "rate_limited")
    BY <1>2 DEF Migrated, Storable, Rejections, MigratedError
  <2> QED
    BY <2>2, <2>3 DEF Init, UsageInv, Verdicts, Coherent, Rejected, Refuses
<1> QED
  BY <1>1, <1>2 DEF Init

\* Lemma: every outcome the model enumerates is one the operators accept.
LEMMA OutcomesTyped == Outcomes \subseteq Outcome
BY UsageAssumption DEF Outcomes, Outcome

\* Lemma: a refresh, whether it probes or not, keeps the invariant.
LEMMA RefreshKeepsInv ==
    ASSUME UsageInv, NEW force \in BOOLEAN, Refresh(force)
    PROVE  UsageInv'
<1> DEFINE u == Normalized(usage, clock)
<1>1. clock \in Int /\ Coherent(usage)
  BY UsageAssumption DEF UsageInv
<1>2. /\ Coherent(u) /\ Bounded(u)
      /\ usage.health # "rate_limited" => u.health = usage.health
  BY <1>1, NormalSnapshot
<1> HIDE DEF u
<1>3. /\ subject' = subject /\ clock' = clock /\ launched' = None /\ refreshed' = TRUE
  BY DEF Refresh
<1>4. CASE ProbeDecision(usage, clock, force) = "probe"
  <2>1. PICK o \in Outcomes :
          /\ usage' \in Observed(u, subject, o, clock)
          /\ verdict' = IF subject = "vertex" /\ o.kind # "invalid_credential"
                        THEN verdict ELSE Heard(o)
    BY <1>4 DEF Refresh, u
  <2>2. o \in Outcome /\ o.kind \in (Verdicts \ {"none"}) \cup {"transport"}
    BY OutcomesTyped DEF Outcomes, Verdicts
  <2>3. /\ Coherent(usage') /\ Bounded(usage')
        /\ subject # "vertex" /\ o.kind = "transport" /\ usage.health \in Rejections =>
             usage'.health \in Rejections
        /\ subject # "vertex" /\ Refuses(o.kind, subject) => usage'.health \in Rejections
    BY <1>1, <1>4, <2>1, <2>2, ProbedSound DEF u, UsageInv
  <2>4. verdict' \in Verdicts
    BY <2>1, <2>2 DEF Heard, UsageInv
  <2>5. Rejected' /\ subject' # "vertex" => usage'.health \in Rejections
    BY <1>3, <2>1, <2>3 DEF Heard, UsageInv, Rejected
  <2> QED
    BY <1>3, <2>3, <2>4, <2>5 DEF UsageInv
<1>5. CASE ProbeDecision(usage, clock, force) # "probe"
  <2>1. usage' = u /\ verdict' = verdict
    BY <1>5 DEF Refresh, u
  <2> QED
    BY <1>2, <1>3, <2>1 DEF UsageInv, Rejected, Rejections
<1> QED
  BY <1>4, <1>5

\* Lemma: what a failed child says keeps the invariant.
LEMMA EvidenceKeepsInv ==
    ASSUME UsageInv, NEW o \in Outcomes, Evidence(o)
    PROVE  UsageInv'
<1> DEFINE r == Reduced(usage, subject, o, launched, clock)
<1>1. /\ clock \in Int /\ launched \in Int /\ Coherent(usage) /\ o \in Outcome
      /\ subject \in Subjects
  BY UsageAssumption, OutcomesTyped DEF UsageInv, Evidence
<1>2. ~InCooldown(usage, clock)
  BY DEF UsageInv, Evidence, InCooldown, NormalCooldown
<1>3. /\ Coherent(r) /\ Bounded(r)
      /\ Superseded(usage, launched, clock) /\ usage.health \in Rejections =>
           r.health = usage.health
      /\ ~Superseded(usage, launched, clock) /\ Refuses(o.kind, subject) =>
           r.health \in Rejections
  BY <1>1, <1>2, ReducedSound
<1> HIDE DEF r
<1>4. /\ usage' = r /\ launched' = None /\ refreshed' = refreshed
      /\ clock' = clock /\ subject' = subject
      /\ verdict' = IF Superseded(usage, launched, clock) THEN verdict ELSE o.kind
      /\ o.kind \in {"http429", "http401", "http403"}
  BY DEF Evidence, r
<1> QED
  BY <1>3, <1>4 DEF UsageInv, Rejected, Verdicts

\* Lemma: every step keeps the invariant.
LEMMA UsageInvStep == UsageInv /\ [Next]_vars => UsageInv'
<1> SUFFICES ASSUME UsageInv, [Next]_vars PROVE UsageInv'
  OBVIOUS
<1>1. ASSUME NEW force \in BOOLEAN, Refresh(force) PROVE UsageInv'
  BY <1>1, RefreshKeepsInv
<1>2. CASE Launch
  <2>1. usage.health # "rate_limited"
    BY <1>2, HealthAssumption DEF Launch, Eligible, Rank, Tier
  <2>2. usage.cooldown = None
    BY <2>1 DEF UsageInv, Coherent, Storable
  <2> QED
    BY <1>2, <2>2 DEF Launch, UsageInv, Rejected
<1>3. ASSUME NEW o \in Outcomes, Evidence(o) PROVE UsageInv'
  BY <1>3, EvidenceKeepsInv
<1>4. CASE ChildForgotten
  BY <1>4 DEF ChildForgotten, UsageInv, Rejected
<1>5. CASE Tick
  BY <1>5 DEF Tick, UsageInv, Rejected
<1>6. CASE SetBack
  BY <1>6 DEF SetBack, UsageInv, Rejected
<1>7. CASE UNCHANGED vars
  BY <1>7 DEF vars, UsageInv, Rejected
<1> QED
  BY <1>1, <1>2, <1>3, <1>4, <1>5, <1>6, <1>7 DEF Next

\* Theorem: the invariant above holds throughout.
THEOREM UsageInvariant == Spec => []UsageInv
BY UsageInvInit, UsageInvStep, PTL DEF Spec

\* Theorem: UsageTypeOK.  Types, and windows no longer than MaxRetry.
THEOREM UsageTypeCorrect == Spec => []UsageTypeOK
<1>1. UsageInv => UsageTypeOK
  BY DEF UsageInv, UsageTypeOK, Coherent, Bounded, Verdicts
<1> QED
  BY <1>1, UsageInvariant, PTL

\* Theorem: no order of observations leaves a snapshot State would refuse.
THEOREM SnapshotsStorable == Spec => []AlwaysStorable
<1>1. UsageInv => AlwaysStorable
  BY DEF UsageInv, AlwaysStorable, Coherent
<1> QED
  BY <1>1, UsageInvariant, PTL

\* Theorem: an account whose window is over is due a probe, whatever the cache
\* holds.
THEOREM WindowsEnd == Spec => []RateLimitEnds
<1>1. ASSUME UsageInv, usage.cooldown # None, ~InCooldown(usage, clock)
      PROVE  ProbeDecision(usage, clock, FALSE) = "probe"
  <2> DEFINE u == Normalized(usage, clock)
  <2>1. Coherent(usage) /\ clock \in Int
    BY <1>1, UsageAssumption DEF UsageInv
  <2>2. NormalCooldown(usage.cooldown, clock) = None
    BY <1>1 DEF InCooldown
  <2>3. u.health = "unverified" /\ u.cooldown = None
    BY <1>1, <2>1, <2>2, NormalSnapshot
  <2> HIDE DEF u
  <2>4. ~InCooldown(u, clock)
    BY <2>3 DEF InCooldown, NormalCooldown
  <2> QED
    BY <2>3, <2>4 DEF ProbeDecision, u
<1>2. UsageInv => RateLimitEnds
  BY <1>1 DEF RateLimitEnds
<1> QED
  BY <1>2, UsageInvariant, PTL

\* Theorem: a probe without an answer is repeated after the short backoff, a
\* rejection that it left standing notwithstanding.
THEOREM TransportRetried == Spec => []RetriedAfterBackoff
<1>1. ASSUME UsageInv, usage.lastError = "transport", usage.lastProbe # None,
             clock - usage.lastProbe >= TransientBackoff
      PROVE  ProbeDecision(usage, clock, FALSE) = "probe"
  <2> DEFINE u == Normalized(usage, clock)
  <2>1. /\ Coherent(usage) /\ usage.cooldown = None /\ clock \in Int
        /\ usage.lastProbe \in Int
    BY <1>1, UsageAssumption DEF UsageInv, Coherent, Usage
  <2>2. usage.lastProbe <= clock
    BY <1>1, <2>1, HealthAssumption
  <2>3. NormalCooldown(usage.cooldown, clock) = None
    BY <2>1 DEF NormalCooldown
  <2>4. /\ u.cooldown = None /\ u.lastError = "transport"
        /\ u.lastProbe = usage.lastProbe
    BY <1>1, <2>1, <2>2, <2>3, NormalSnapshot
  <2> HIDE DEF u
  <2>5. ~InCooldown(u, clock) /\ CacheWindow(u) = TransientBackoff
    BY <2>4 DEF InCooldown, NormalCooldown, CacheWindow
  <2> QED
    BY <1>1, <2>4, <2>5 DEF ProbeDecision, u
<1>2. UsageInv => RetriedAfterBackoff
  BY <1>1 DEF RetriedAfterBackoff
<1> QED
  BY <1>2, UsageInvariant, PTL

\* Theorem: a rejected credential stays out of the selection until the
\* provider answers again (all kinds but service accounts).
THEOREM RejectionsKept == Spec => []RejectionKept
<1>1. UsageInv => RejectionKept
  BY DEF UsageInv, RejectionKept, Eligible, Rank, Tier, Rejections
<1> QED
  BY <1>1, UsageInvariant, PTL

\* Theorem: nothing lengthens an active window.
THEOREM WindowsNotExtended == Spec => WindowNeverExtended
<1> DEFINE Kept == InCooldown(usage, clock) /\ InCooldown(usage, clock)' =>
                     NormalCooldown(usage.cooldown, clock)'.until
                       <= NormalCooldown(usage.cooldown, clock).until
<1>1. ASSUME UsageInv, UsageInv', [Next]_vars,
             InCooldown(usage, clock), InCooldown(usage', clock')
      PROVE  NormalCooldown(usage'.cooldown, clock').until
               <= NormalCooldown(usage.cooldown, clock).until
  <2>1. /\ Coherent(usage) /\ usage.cooldown \in Cooldown /\ clock \in Int /\ clock' \in Int
    BY <1>1, UsageAssumption
    DEF UsageInv, Coherent, Usage, InCooldown, NormalCooldown
  <2>2. /\ NormalCooldown(usage.cooldown, clock).until
             = Lower(usage.cooldown.until, usage.cooldown.started + MaxRetry)
        /\ NormalCooldown(usage.cooldown, clock).until \in Int
    BY <1>1, <2>1, HealthAssumption DEF InCooldown, NormalCooldown, Cooldown, Lower
  <2>3. CASE usage' = usage
    <3>1. NormalCooldown(usage.cooldown, clock').until
            = Lower(usage.cooldown.until, usage.cooldown.started + MaxRetry)
      BY <1>1, <2>3 DEF InCooldown, NormalCooldown
    <3> QED
      BY <2>2, <2>3, <3>1
  <2>4. ASSUME NEW force \in BOOLEAN, Refresh(force)
        PROVE  NormalCooldown(usage'.cooldown, clock').until
                 <= NormalCooldown(usage.cooldown, clock).until
    <3> DEFINE u == Normalized(usage, clock)
    <3>1. u.cooldown = NormalCooldown(usage.cooldown, clock)
      BY <2>1, NormalSnapshot
    <3>2. NormalCooldown(u.cooldown, clock) = u.cooldown
      BY <2>1, <3>1, NormalWindow
    <3>3. InCooldown(u, clock)
      BY <1>1, <3>1, <3>2 DEF InCooldown
    <3>4. ProbeDecision(usage, clock, force) = "skip_cooldown"
      BY <3>3 DEF ProbeDecision
    <3>5. usage' = u /\ clock' = clock
      BY <2>4, <3>4 DEF Refresh
    <3> QED
      BY <2>2, <3>1, <3>2, <3>5
  <2>5. ASSUME NEW o \in Outcomes, Evidence(o) PROVE FALSE
    BY <1>1, <2>5 DEF UsageInv, Evidence, InCooldown, NormalCooldown
  <2> QED
    BY <1>1, <2>3, <2>4, <2>5 DEF Next, Launch, ChildForgotten, Tick, SetBack, vars
<1>2. UsageInv /\ UsageInv' /\ [Next]_vars => [Kept]_vars
  BY <1>1
<1> QED
  BY <1>2, UsageInvariant, PTL DEF Spec, WindowNeverExtended

\* Theorem: an account is Ready after a refresh only on evidence that is not
\* older than the TTL and not from the future.
THEOREM ReadyIsFresh == Spec => FreshAfterRefresh
<1> DEFINE Fresh == (\E force \in BOOLEAN : Refresh(force)) /\ usage'.health = "ready" =>
                      /\ usage'.lastProbe # None
                      /\ usage'.lastProbe <= clock /\ clock - usage'.lastProbe < ProbeTTL
<1>1. ASSUME UsageInv, NEW force \in BOOLEAN, Refresh(force), usage'.health = "ready"
      PROVE  /\ usage'.lastProbe # None
             /\ usage'.lastProbe <= clock /\ clock - usage'.lastProbe < ProbeTTL
  <2> DEFINE u == Normalized(usage, clock)
  <2>1. Coherent(usage) /\ clock \in Int /\ subject \in Subjects
    BY <1>1, UsageAssumption DEF UsageInv
  <2>2. CASE ProbeDecision(usage, clock, force) = "probe"
    <3>1. PICK o \in Outcomes : usage' \in Observed(u, subject, o, clock)
      BY <1>1, <2>2 DEF Refresh
    <3>2. usage'.lastProbe = clock
      BY <1>1, <2>1, <2>2, <3>1, OutcomesTyped, ProbedSound
    <3> QED
      BY <2>1, <3>2, HealthAssumption
  <2>3. CASE ProbeDecision(usage, clock, force) # "probe"
    <3>1. usage' = u
      BY <1>1, <2>3 DEF Refresh
    <3>2. /\ Coherent(u) /\ u.cooldown = NormalCooldown(usage.cooldown, clock)
          /\ u.lastProbe = None \/ u.lastProbe <= clock
      BY <2>1, NormalSnapshot
    <3> HIDE DEF u
    <3>3. u.cooldown = None /\ u.lastProbe \in Int \cup {None}
      BY <1>1, <3>1, <3>2 DEF Coherent, Storable, Usage
    <3>4. ~InCooldown(u, clock)
      BY <3>3 DEF InCooldown, NormalCooldown
    <3>5. u.lastProbe # None /\ ~(clock - u.lastProbe >= CacheWindow(u))
      BY <2>3, <3>4 DEF ProbeDecision, u
    <3>6. CacheWindow(u) \in Int /\ CacheWindow(u) <= ProbeTTL
      BY HealthAssumption DEF CacheWindow
    <3> QED
      BY <2>1, <3>1, <3>2, <3>3, <3>5, <3>6, HealthAssumption
  <2> QED
    BY <2>2, <2>3
<1>2. UsageInv /\ [Next]_vars => [Fresh]_vars
  BY <1>1
<1> QED
  BY <1>2, UsageInvariant, PTL DEF Spec, FreshAfterRefresh
============================================================================
