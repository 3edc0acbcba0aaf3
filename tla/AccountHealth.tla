--------------------------- MODULE AccountHealth ---------------------------
(***************************************************************************)
(* core/health.rs and core/policy.rs: what sagy remembers about one        *)
(* account (UsageSnapshot), how an observation changes it, when it is      *)
(* probed again and whether it may be selected.  Pure operators: time is   *)
(* an argument everywhere, as `now' is in the code.                        *)
(*                                                                         *)
(* Abstractions: the transport failures (timeout, network, gateway, 5xx)   *)
(* are one outcome and one error, since nothing tells them apart after     *)
(* is_transport_failure; likewise the three local credential failures.  A  *)
(* quota percentage is absent, zero or positive.  last_success_at,         *)
(* last_rate_limit_at and plan are left out: they are only displayed.      *)
(***************************************************************************)
EXTENDS Integers

CONSTANTS
    ProbeTTL,           \* PROBE_TTL_SECS
    TransientBackoff,   \* TRANSIENT_BACKOFF_SECS
    DefaultRetry,       \* DEFAULT_RETRY_SECS
    MinRetry,           \* MIN_RETRY_SECS
    MaxRetry,           \* MAX_RETRY_SECS
    None                \* Option::None

Cooldown == [started : Int, until : Int, evidence : Int]

ASSUME HealthAssumption ==
    /\ {ProbeTTL, TransientBackoff, DefaultRetry, MinRetry, MaxRetry} \subseteq Int
    /\ 0 < MinRetry /\ MinRetry <= DefaultRetry /\ DefaultRetry <= MaxRetry
    /\ 0 < TransientBackoff /\ TransientBackoff <= ProbeTTL
    /\ None \notin Int /\ None \notin Cooldown

Rejections == {"auth_invalid", "permission_denied", "invalid_credential"}
Statuses   == Rejections \cup {"unverified", "ready", "refresh_required",
                               "rate_limited", "transient_failure"}
ErrorKinds == {"none", "unauthorized", "permission_denied", "rate_limited",
               "transport", "invalid_credential", "unknown"}
Quotas     == {"none", "zero", "some"}
Subjects   == {"raw_token", "authorized_user", "api_key", "vertex"}

Usage == [health : Statuses, cooldown : Cooldown \cup {None}, quota : Quotas,
          lastProbe : Int \cup {None}, lastError : ErrorKinds]

DefaultUsage == [health |-> "unverified", cooldown |-> None, quota |-> "none",
                 lastProbe |-> None, lastError |-> "none"]

\* What a probe, or the parsed stderr of a failed child, says.
Outcome == [kind : {"ok", "http400", "http401", "http403", "http429",
                    "transport", "invalid_credential"},
            retry : Int \cup {None}]

Lower(a, b) == IF a < b THEN a ELSE b
Upper(a, b) == IF a < b THEN b ELSE a

---------------------------------------------------------------------------
(* Cooldown windows.                                                       *)

ClampRetry(retry) ==
    IF retry = None THEN DefaultRetry
                    ELSE Upper(MinRetry, Lower(MaxRetry, retry))

NewCooldown(at, retry) ==
    [started |-> at, until |-> at + ClampRetry(retry), evidence |-> at]

\* Seeded bug (the old code the comment of Cooldown::normalize describes): a
\* window from the future is started again from now.
NormalCooldownRestarted(c, now) ==
    IF c = None THEN None
    ELSE IF c.started > now THEN [started |-> now, until |-> now + MaxRetry, evidence |-> now]
    ELSE IF c.until <= now THEN None
    ELSE c

\* Not evidence: a window from the future, an empty one, one that is over.
NormalCooldown(c, now) ==
    IF \/ c = None
       \/ c.started > now \/ c.evidence > now
       \/ c.until <= c.started
       \/ Lower(c.until, c.started + MaxRetry) <= now
    THEN None
    ELSE [started  |-> c.started,
          until    |-> Lower(c.until, c.started + MaxRetry),
          evidence |-> Upper(c.evidence, c.started)]

InCooldown(u, now)  == NormalCooldown(u.cooldown, now) # None
Remaining(u, now)   == IF InCooldown(u, now)
                       THEN NormalCooldown(u.cooldown, now).until - now ELSE 0

\* Seeded bug: a verdict that a window carried outlives the window.
NormalizedKeepsVerdict(u, now) ==
    [u EXCEPT !.cooldown = NormalCooldown(@, now)]

\* UsageSnapshot::normalized: drop what is no evidence any more.
Normalized(u, now) ==
    LET kept == [u EXCEPT !.cooldown = NormalCooldown(@, now),
                          !.lastProbe = IF @ # None /\ @ > now THEN None ELSE @]
    IN  IF u.health = "rate_limited" /\ u.cooldown # None /\ kept.cooldown = None
        THEN [kept EXCEPT !.health = "unverified", !.quota = "none",
                          !.lastError = "none"]
        ELSE kept

---------------------------------------------------------------------------
(* When to probe.                                                          *)

\* How long the last observation stands for the next one.
CacheWindow(u) ==
    IF u.health = "transient_failure" \/ u.lastError = "transport"
    THEN TransientBackoff ELSE ProbeTTL

\* force goes past the cache, never past an active window.
ProbeDecision(usage, now, force) ==
    LET u   == Normalized(usage, now)
        due == \/ force
               \/ u.health = "unverified"
               \/ u.lastProbe = None
               \/ now - u.lastProbe >= CacheWindow(u)
    IN  IF InCooldown(u, now) THEN "skip_cooldown"
        ELSE IF due THEN "probe" ELSE "use_cached"

---------------------------------------------------------------------------
(* What an observation does: reduce_usage_observed.                        *)

\* apply_error
Judged(u, health, error, now) ==
    [u EXCEPT !.health = health, !.quota = "none", !.lastError = error,
              !.cooldown = IF @ # None /\ @.until > now THEN @ ELSE None]

Accepted(u) ==
    [u EXCEPT !.health = "ready", !.cooldown = None, !.quota = "none",
              !.lastError = "none"]

\* An active window is kept as it is; a window that would already be over is
\* no window, and no verdict either.
RateLimited(u, retry, at, now) ==
    LET window == IF u.cooldown # None /\ u.cooldown.until > now
                  THEN [u.cooldown EXCEPT !.evidence = Upper(@, at)]
                  ELSE NewCooldown(at, retry)
        limited == [u EXCEPT !.quota = "none"]
    IN  IF window.until > now
        THEN [limited EXCEPT !.health = "rate_limited", !.cooldown = window,
                             !.lastError = "rate_limited"]
        ELSE [limited EXCEPT !.health = "unverified", !.cooldown = None,
                             !.lastError = "none"]

\* Seeded bug: unplugging the network makes a rejected credential selectable.
TransportHealthForgets(health) == "transient_failure"

\* transport_failure_health: no answer never overturns a rejection.
TransportHealth(health) ==
    IF health \in Rejections THEN health ELSE "transient_failure"

Verdict(u, previous, subject, o, at, now) ==
    LET refreshable == subject = "authorized_user" IN
    CASE o.kind = "ok" -> Accepted(u)
      [] o.kind = "http401" ->
           Judged(u, IF refreshable THEN "refresh_required" ELSE "auth_invalid",
                  "unauthorized", now)
      [] o.kind = "http400" ->
           IF refreshable THEN Judged(u, "refresh_required", "unauthorized", now)
           ELSE Judged(u, "invalid_credential", "invalid_credential", now)
      [] o.kind = "http403" ->
           Judged(u, "permission_denied", "permission_denied", now)
      [] o.kind = "http429" -> RateLimited(u, o.retry, at, now)
      [] o.kind = "transport" ->
           Judged(u, TransportHealth(previous.health), "transport", now)
      [] OTHER -> Judged(u, "invalid_credential", "invalid_credential", now)

\* An observation older than the probe on record changes nothing.
Superseded(previous, observedAt, now) ==
    previous.lastProbe # None /\ previous.lastProbe > Lower(observedAt, now)

Reduced(previous, subject, o, observedAt, now) ==
    LET at == Lower(observedAt, now)
        u  == Normalized(previous, now)
    IN  IF Superseded(previous, observedAt, now) THEN u
        ELSE Verdict([u EXCEPT !.lastProbe = at], previous, subject, o, at, now)

---------------------------------------------------------------------------
(* refresh_account_usage: observe_and_reduce for an account due a probe.   *)

\* local_vertex_snapshot: a service account is not probed at all.
LocalVertex(now) ==
    [health |-> "unverified", cooldown |-> None, quota |-> "none",
     lastProbe |-> now, lastError |-> "none"]

\* Every snapshot a probe of u at now can leave.  A credential that cannot be
\* loaded is an invalid one; only an accepted probe may carry a quota.
Observed(u, subject, o, now) ==
    LET next == Reduced(u, subject, o, now, now) IN
    IF subject = "vertex" /\ o.kind # "invalid_credential" THEN {LocalVertex(now)}
    ELSE IF next.health = "ready" THEN {[next EXCEPT !.quota = q] : q \in Quotas}
    ELSE {next}

---------------------------------------------------------------------------
(* Who may be selected: policy::eligibility, 0 for Ineligible.  The local  *)
(* credential file is taken to be present and valid.                       *)

Tier(u, subject) ==
    CASE u.health = "ready" -> 4
      [] u.health = "refresh_required" /\ subject = "authorized_user" -> 3
      [] u.health = "unverified" -> 2
      [] u.health = "transient_failure" /\ u.lastError = "transport" -> 1
      [] OTHER -> 0

Rank(u, subject, now) ==
    IF u.quota = "zero" \/ InCooldown(u, now) THEN 0 ELSE Tier(u, subject)

Eligible(u, subject, now) == Rank(u, subject, now) > 0

\* validate_usage_snapshot: State refuses to store anything else.
Storable(u) ==
    /\ u.health \in Rejections \cup {"unverified", "transient_failure"}
         => u.quota = "none"
    /\ u.health = "rate_limited" => u.quota # "some"
    /\ u.cooldown # None => u.health = "rate_limited"
============================================================================
