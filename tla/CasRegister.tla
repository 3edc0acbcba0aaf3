---------------------------- MODULE CasRegister ----------------------------
(***************************************************************************)
(* What AtomicStore promises its callers, and nothing about journals or    *)
(* stages: a register with an atomic compare-and-swap that survives power  *)
(* failures.  A call takes effect at most once, only while it is running,  *)
(* and only if the register holds the expected value; "committed" is       *)
(* answered when no power failure can undo the effect any more,            *)
(* "not_applied" and "conflict" only for a call without effect.  A call    *)
(* may also end "unresolved", or be cut off.                               *)
(***************************************************************************)

CONSTANTS Proc, Doc, Missing, NoCall

Value == Doc \cup {Missing}

VARIABLES
    doc,      \* the register
    exposed,  \* values a power failure may leave in it
    call,     \* the running call of each process
    reply     \* the answer to its last one

register == <<doc, exposed, call, reply>>

Init ==
    /\ doc \in Value
    /\ exposed = {doc}
    /\ call = [p \in Proc |-> NoCall]
    /\ reply = [p \in Proc |-> "none"]

Call(p, exp, new) ==
    /\ call[p] = NoCall
    /\ call' = [call EXCEPT ![p] = [exp |-> exp, new |-> new, taken |-> FALSE]]
    /\ reply' = [reply EXCEPT ![p] = "none"]
    /\ UNCHANGED <<doc, exposed>>

\* The swap itself; not durable yet.
Take(p) ==
    /\ call[p] # NoCall /\ ~call[p].taken /\ doc = call[p].exp
    /\ doc' = call[p].new
    /\ exposed' = exposed \cup {doc'}
    /\ call' = [call EXCEPT ![p].taken = TRUE]
    /\ UNCHANGED reply

\* The register reaches the medium.
Settle == exposed' = {doc} /\ UNCHANGED <<doc, call, reply>>

Justified(p, r) ==
    \/ /\ r = "committed"
       /\ doc = call[p].new /\ exposed = {doc}
       /\ call[p].taken \/ call[p].exp = call[p].new
    \/ /\ r = "not_applied"
       /\ ~call[p].taken /\ exposed = {call[p].exp}
    \/ r = "conflict" /\ ~call[p].taken /\ doc # call[p].exp
    \/ r = "unresolved"

Reply(p, r) ==
    /\ call[p] # NoCall /\ Justified(p, r)
    /\ call' = [call EXCEPT ![p] = NoCall]
    /\ reply' = [reply EXCEPT ![p] = r]
    /\ UNCHANGED <<doc, exposed>>

\* The caller reads its reply no more, or is killed in mid-call.
Leave(p) ==
    /\ call' = [call EXCEPT ![p] = NoCall]
    /\ reply' = [reply EXCEPT ![p] = "none"]
    /\ UNCHANGED <<doc, exposed>>

PowerFailure ==
    /\ doc' \in exposed /\ exposed' = {doc'}
    /\ call' = [p \in Proc |-> NoCall]
    /\ reply' = [p \in Proc |-> "none"]

Next ==
    \/ \E p \in Proc, exp \in Value, new \in Doc : Call(p, exp, new)
    \/ \E p \in Proc : Take(p) \/ Leave(p)
    \/ \E p \in Proc, r \in {"committed", "not_applied", "conflict", "unresolved"} :
         Reply(p, r)
    \/ Settle
    \/ PowerFailure

Spec == Init /\ [][Next]_register

=============================================================================
