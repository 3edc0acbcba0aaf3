--------------------------- MODULE QuotaSnapshot ---------------------------
(***************************************************************************)
(* profile/cache.rs: quota.json, the last quota seen of every profile.     *)
(* Nobody holds a lock while it measures, so updates arrive late and out   *)
(* of order; merge, under .quota.lock, decides by the time an attempt      *)
(* STARTED what may still be shown.  One entry is modelled, of one label:  *)
(* entries do not touch one another.  A sample stands for the identity it  *)
(* was measured with (0: no sample), times are readings of one clock.      *)
(* A snapshot that cannot be parsed counts as an empty one.                *)
(***************************************************************************)
EXTENDS Naturals

CONSTANT NoEntry

Outcomes == {"ready", "unavailable", "busy", "needs-login", "reset"}

Later(s, t) == IF s < t THEN t ELSE s

Entry(dir, sample, started, reset, attempted) ==
    [dir |-> dir, sample |-> sample, started |-> started, reset |-> reset,
     attempted |-> attempted]

\* What validate demands of an entry: windows only with a time they began.
ValidEntry(e) == e.sample # 0 => e.started > 0

Update(dir, sample, at, result) ==
    [dir |-> dir, sample |-> sample, at |-> at, result |-> result]

\* An attempt for another directory that began before the last one, or before
\* the identity was dropped, is about a directory the label has left.
Outdated(e, u) == e.dir # u.dir /\ u.at < Later(e.attempted, e.reset)

Moved(e, u) ==
    IF e.dir = u.dir THEN e ELSE Entry(u.dir, 0, 0, u.at, e.attempted)

\* Seeded bug: a reset drops the sample and leaves no barrier.
ForgottenBarrier(e, u) ==
    IF u.result = "reset" THEN [e EXCEPT !.sample = 0, !.started = 0] ELSE e

\* A new login or a removal: nothing measured before it may come back.
Dropped(e, u) ==
    IF u.result = "reset"
    THEN [e EXCEPT !.sample = 0, !.started = 0,
                   !.reset = Later(Later(e.reset, e.started), u.at)]
    ELSE e

Sampled(e, u) ==
    IF u.result = "ready" /\ u.at >= e.reset /\ u.at >= e.started
    THEN [e EXCEPT !.sample = u.sample, !.started = u.at] ELSE e

Attempted(e, u) == [e EXCEPT !.attempted = Later(e.attempted, u.at)]

Merged(entry, u) ==
    LET e == IF entry = NoEntry THEN Entry(u.dir, 0, 0, 0, 0) ELSE entry
    IN  IF Outdated(e, u) THEN e
        ELSE Attempted(Sampled(Dropped(Moved(e, u), u), u), u)
=============================================================================
