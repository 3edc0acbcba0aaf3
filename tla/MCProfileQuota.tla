--------------------------- MODULE MCProfileQuota ---------------------------
\* Two processes and some commands on one label.  p1 and p2 differ in nothing:
\* when both are idle, p1 is the one to begin.
EXTENDS ProfileQuota

CONSTANTS p1, p2

MCProc == {p1, p2}

\* Bound: a reset fails only where there is a sample that it would have dropped
\* or barred.
FailsInVain ==
    /\ \E d \in Dir : unreset'[d] > unreset[d]
    /\ entry # NoEntry => entry.sample = 0
    /\ \A p \in MCProc : pc[p] = "record" => job[p].got = 0

MCNext ==
    /\ Next /\ ~FailsInVain
    /\ pc[p1] = "idle" /\ pc[p2] = "idle" => pc'[p2] = "idle"
MCInit == Init /\ (registry = None => remote # 0)
MCSpec == MCInit /\ [][MCNext]_vars /\ Fairness
=============================================================================
