----------------------- MODULE AtomicStoreRefinement -----------------------
(***************************************************************************)
(* AtomicStore implements CasRegister: the swap happens at the rename of   *)
(* the stage over the document, and the values exposed to a power failure  *)
(* are the documents of the surviving directory contents.                  *)
(***************************************************************************)
EXTENDS AtomicStore

CONSTANT NoCall  \* no call of the register runs

ASSUME NoCallAssumption ==
    NoCall \notin [exp : Value, new : Doc, taken : BOOLEAN]

AbstractCall(p) ==
    IF Committing(p)
    THEN [exp |-> job[p].exp, new |-> job[p].new, taken |-> applied[p]]
    ELSE NoCall

\* Only the answers of commit calls are replies of the register.
AbstractReply(p) ==
    IF pc[p] # "held" \/ ctx[p] = "recover" THEN "none"
    ELSE IF answer[p] \in Errors THEN "unresolved" ELSE answer[p]

Register == INSTANCE CasRegister WITH
    doc     <- disk.live,
    exposed <- {s.live : s \in survivors},
    call    <- [p \in Proc |-> AbstractCall(p)],
    reply   <- [p \in Proc |-> AbstractReply(p)]

\* As long as every writer takes the lock, the journaled store is a
\* compare-and-swap register: no commit is lost, half done, done twice or done
\* after it was refused, across every interleaving, kill and power failure.
ImplementsRegister == Register!Spec

=============================================================================
