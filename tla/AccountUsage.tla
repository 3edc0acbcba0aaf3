---------------------------- MODULE AccountUsage ----------------------------
(***************************************************************************)
(* The life of ONE account's UsageSnapshot in State: refreshes (forced or  *)
(* not), launches and the evidence a failed child leaves, on a wall clock  *)
(* that may also be set back.  A commit of State is one step here: it is   *)
(* exact (StateStore), so nothing else can have changed the snapshot       *)
(* between the read it started from and its write.                         *)
(***************************************************************************)
EXTENDS AccountHealth

CONSTANTS
    Time,       \* readings of the wall clock, in seconds
    Retries     \* retry hints of a 429 (None: no usable Retry-After)

ASSUME UsageAssumption ==
    /\ Time \subseteq Int /\ Time # {}
    /\ Retries \subseteq Int \cup {None} /\ Retries # {}

VARIABLES
    subject,    \* credential kind of the account, fixed
    usage,      \* its entry of State.usage_cache
    clock,
    launched,   \* observed_at of a child that runs with it, or None
    refreshed,  \* run_launch refreshes before it selects
    verdict     \* history: the provider's last answer that was recorded

vars == <<subject, usage, clock, launched, refreshed, verdict>>

Outcomes == {o \in [kind : {"ok", "http400", "http401", "http403", "http429",
                            "transport", "invalid_credential"},
                    retry : Retries \cup {None}] :
               o.kind # "http429" => o.retry = None}

\* A snapshot migrated from State v1: migrate_v1_usage.
MigratedError(health) ==
    CASE health = "auth_invalid"       -> "unauthorized"
      [] health = "transient_failure"  -> "unknown"
      [] health \in {"permission_denied", "invalid_credential", "rate_limited"} -> health
      [] OTHER -> "none"

Migrated ==
    {u \in [health : Statuses,
            cooldown : [started : Time \cup {0}, until : Time, evidence : Time \cup {0}]
                         \cup {None},
            quota : Quotas, lastProbe : Time \cup {None}, lastError : ErrorKinds] :
        /\ u.lastError = MigratedError(u.health)
        /\ u.quota # "none" => u.health \in {"ready", "refresh_required"}
        /\ u.cooldown # None =>
             /\ u.health = "rate_limited"
             /\ u.cooldown.started = IF u.lastProbe = None THEN 0 ELSE u.lastProbe
             /\ u.cooldown.evidence = u.cooldown.started}

Init ==
    /\ subject \in Subjects
    /\ usage \in Migrated \cup {DefaultUsage}
    /\ clock \in Time
    /\ launched = None /\ refreshed = FALSE /\ verdict = "none"

---------------------------------------------------------------------------

\* What the provider answered, as opposed to no answer at all.
Heard(o) == IF o.kind = "transport" THEN verdict ELSE o.kind

\* refresh_account_usage and its commit.  The evidence of a child that some
\* other sagy launched is then refused: its session is no longer exact.
Refresh(force) ==
    /\ LET u == Normalized(usage, clock) IN
       IF ProbeDecision(usage, clock, force) = "probe"
       THEN \E o \in Outcomes :
              /\ usage' \in Observed(u, subject, o, clock)
              /\ verdict' = IF subject = "vertex" /\ o.kind # "invalid_credential"
                            THEN verdict ELSE Heard(o)
       ELSE usage' = u /\ UNCHANGED verdict
    /\ launched' = None /\ refreshed' = TRUE
    /\ UNCHANGED <<subject, clock>>

\* run_launch takes observed_at just before it spawns the child.
Launch ==
    /\ refreshed /\ launched = None
    /\ Eligible(usage, subject, clock)
    /\ launched' = clock
    /\ UNCHANGED <<subject, usage, clock, refreshed, verdict>>

\* record_launch_diagnostic: the child failed and said why.
Evidence(o) ==
    /\ launched # None
    /\ o.kind \in {"http429", "http401", "http403"}
    /\ usage' = Reduced(usage, subject, o, launched, clock)
    /\ verdict' = IF Superseded(usage, launched, clock) THEN verdict ELSE o.kind
    /\ launched' = None
    /\ UNCHANGED <<subject, clock, refreshed>>

\* The child ended well, or its evidence was refused.
ChildForgotten ==
    /\ launched # None
    /\ launched' = None
    /\ UNCHANGED <<subject, usage, clock, refreshed, verdict>>

Tick ==
    /\ clock' \in {t \in Time : t > clock}
    /\ UNCHANGED <<subject, usage, launched, refreshed, verdict>>

SetBack ==
    /\ clock' \in {t \in Time : t < clock}
    /\ UNCHANGED <<subject, usage, launched, refreshed, verdict>>

Next ==
    \/ \E force \in BOOLEAN : Refresh(force)
    \/ Launch
    \/ \E o \in Outcomes : Evidence(o)
    \/ ChildForgotten
    \/ Tick
    \/ SetBack

Spec == Init /\ [][Next]_vars

---------------------------------------------------------------------------

\* A window that has been through a refresh is also bounded, whatever the
\* provider asked for and whatever State v1 held.
UsageTypeOK ==
    /\ subject \in Subjects /\ usage \in Usage /\ clock \in Time
    /\ launched \in Time \cup {None} /\ refreshed \in BOOLEAN
    /\ verdict \in {"none", "ok", "http400", "http401", "http403", "http429",
                    "invalid_credential"}
    /\ refreshed /\ usage.cooldown # None =>
         usage.cooldown.until - usage.cooldown.started \in 1..MaxRetry

(***************************************************************************)
(* Whatever observations arrive in whatever order, State accepts the       *)
(* snapshot they leave: validate_usage_snapshot refuses, among others, a   *)
(* window on anything but a rate-limited account, and a State it refuses   *)
(* can be committed by no command.  apply_error would leave such a         *)
(* snapshot if a probe or a child ever ran during a window.                *)
(***************************************************************************)
AlwaysStorable == Storable(usage)

(***************************************************************************)
(* As long as an account is cooling down, nothing moves the end of its     *)
(* window: not a repeated 429, not another read, not a clock that jumps    *)
(* (Cooldown::normalize; a window restarted at every read never ended).    *)
(***************************************************************************)
WindowNeverExtended ==
    [][InCooldown(usage, clock) /\ InCooldown(usage, clock)' =>
         NormalCooldown(usage.cooldown, clock)'.until
           <= NormalCooldown(usage.cooldown, clock).until]_vars

(***************************************************************************)
(* When a window is over the account is due a probe at once, whatever the  *)
(* probe cache says: the verdict the window carried went with it.          *)
(***************************************************************************)
RateLimitEnds ==
    usage.cooldown # None /\ ~InCooldown(usage, clock) =>
      ProbeDecision(usage, clock, FALSE) = "probe"

(***************************************************************************)
(* A probe that got no answer is repeated after TransientBackoff, also for *)
(* an account whose earlier rejection it left standing (probe_decision).   *)
(***************************************************************************)
RetriedAfterBackoff ==
    /\ usage.lastError = "transport" /\ usage.lastProbe # None
    /\ clock - usage.lastProbe >= TransientBackoff
    => ProbeDecision(usage, clock, FALSE) = "probe"

(***************************************************************************)
(* A refresh never leaves an account Ready on evidence older than the TTL, *)
(* or on evidence from the future: selection follows a refresh.            *)
(***************************************************************************)
FreshAfterRefresh ==
    [][(\E force \in BOOLEAN : Refresh(force)) /\ usage'.health = "ready" =>
         /\ usage'.lastProbe # None
         /\ usage'.lastProbe <= clock /\ clock - usage'.lastProbe < ProbeTTL]_vars

\* An answer that a credential of this kind is no good; an authorized user can
\* still refresh his.
Refuses(answer, s) ==
    \/ answer = "http403"
    \/ answer \in {"http400", "http401"} /\ s # "authorized_user"

Rejected == Refuses(verdict, subject)

(***************************************************************************)
(* Once the provider has rejected a credential, no failing probes, cache   *)
(* hits or clock jumps make the account selectable again: that takes       *)
(* another answer.  Service accounts are the exception: their verdict is   *)
(* replaced without a probe (local_vertex_snapshot).                       *)
(***************************************************************************)
RejectionKept ==
    Rejected /\ subject # "vertex" => ~Eligible(usage, subject, clock)

============================================================================
