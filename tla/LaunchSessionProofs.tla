------------------------ MODULE LaunchSessionProofs ------------------------
(***************************************************************************)
(* Proofs about a launch.  First about LaunchSession, for any number of    *)
(* accounts, launches and switches, and any bounds: the inductive          *)
(* invariant says which lock is held at which step of a command, and what  *)
(* the home and State are to one another while it is.                      *)
(*                                                                         *)
(* Then about ChildOutput, for all command lines, outputs, pipes and       *)
(* buffers: which words reach the agy that is started, and what is shown   *)
(* of what it prints.                                                      *)
(*                                                                         *)
(* Then about LaunchDiagnostics, for all texts: what the scan of a part of *)
(* a text says of the text, and so what the verdict on a child rests on.   *)
(***************************************************************************)
EXTENDS LaunchSession, ChildOutput, SequenceTheorems, WellFoundedInduction, TLAPS

StateSteps == {"visit", "credential", "home", "publish", "commit", "finalize"}
CredSteps  == {"home", "publish", "commit", "finalize", "lease_home", "reread",
               "running", "drop"}
HomeSteps  == {"publish", "commit", "finalize", "reread", "running", "drop"}
\* From the selection of an account to the start of its child.
PickSteps  == {"recover", "visit", "switch", "credential", "home", "publish",
               "commit", "finalize", "lease", "lease_home", "reread"}
Chosen     == (PickSteps \cup CredSteps \cup {"record"}) \ {"recover", "visit"}

\* Who holds a lock is told by the step it is at, and each lock has one holder.
LocksHeld ==
    /\ \A p \in Proc : stateLock = p <=> pc[p] \in StateSteps
    /\ \A p \in Proc, a \in Account :
         credLock[a] = p <=> chosen[p] = a /\ pc[p] \in CredSteps
    /\ \A p \in Proc : homeLock = p <=> pc[p] \in HomeSteps

\* Who holds the State lock is exact: nobody else can commit.
HolderExact == \A p \in Proc : pc[p] \in StateSteps => exact[p]

ChosenWhenNeeded ==
    \A p \in Proc : /\ pc[p] \in Chosen => chosen[p] \in Account
                    /\ pc[p] = "idle" => chosen[p] = NoAccount

ChildOfStep ==
    \A p \in Proc : /\ child[p] = "running" <=> pc[p] = "running"
                    /\ pc[p] \in {"drop", "record"} => child[p] \in Endings

\* The home follows State except between a publication and its commit.
HomeAndState ==
    /\ (\A p \in Proc : pc[p] # "commit") => home = state.current
    /\ \A p \in Proc : pc[p] = "commit" =>
         before[p] = state.current /\ home = chosen[p]
    /\ \A p \in Proc : pc[p] = "running" => home = chosen[p]

\* An account that was selected cools down only by a commit that is not exact
\* with the selection.
PickedUsable ==
    \A p \in Launchers :
        pc[p] \in PickSteps /\ chosen[p] # NoAccount /\ exact[p]
          => chosen[p] \notin state.cooling

Inv == /\ LaunchTypeOK /\ LocksHeld /\ HolderExact /\ ChosenWhenNeeded
       /\ ChildOfStep /\ HomeAndState /\ PickedUsable

\* Step p goes from one step to another; of each lock it holds what it has to.
Keeps(p, from, to, steps, lock, next) ==
    IF to \in steps THEN next = p /\ (from \in steps \/ lock = Nobody)
    ELSE next = IF from \in steps THEN Nobody ELSE lock

Moves(p, from, to) ==
    /\ pc[p] = from
    /\ pc' = [pc EXCEPT ![p] = to]
    /\ Keeps(p, from, to, StateSteps, stateLock, stateLock')
    /\ Keeps(p, from, to, HomeSteps, homeLock, homeLock')
    /\ \A q \in Proc \ {p} :
         chosen'[q] = chosen[q] /\ child'[q] = child[q] /\ before'[q] = before[q]
    /\ from \in CredSteps /\ to \in CredSteps => chosen'[p] = chosen[p]
    /\ \A a \in Account :
         Keeps(p, IF a = chosen[p] THEN from ELSE "idle",
               IF a = chosen'[p] THEN to ELSE "idle",
               CredSteps, credLock[a], credLock'[a])

LEMMA InvInit == Init => Inv
BY LaunchAssumption
DEF Init, Inv, LaunchTypeOK, LocksHeld, HolderExact, ChosenWhenNeeded, ChildOfStep,
    HomeAndState, PickedUsable, State, Steps, Children, Endings, StateSteps,
    CredSteps, HomeSteps, PickSteps, Chosen, Proc, Account, NoAccount

LEMMA MoveKeepsLocks ==
    ASSUME Inv, NEW p \in Proc, NEW from \in Steps, NEW to \in Steps, Moves(p, from, to)
    PROVE  LocksHeld'
<1>1. /\ pc \in [Proc -> Steps]
      /\ \A q \in Proc : pc'[q] = IF q = p THEN to ELSE pc[q]
      /\ Nobody \notin Proc
  BY LaunchAssumption DEF Inv, LaunchTypeOK, Moves
<1>2. \A q \in Proc : stateLock' = q <=> pc'[q] \in StateSteps
  BY <1>1 DEF Inv, LocksHeld, Moves, Keeps
<1>3. \A q \in Proc : homeLock' = q <=> pc'[q] \in HomeSteps
  BY <1>1 DEF Inv, LocksHeld, Moves, Keeps
<1>4. ASSUME NEW q \in Proc, NEW a \in Account
      PROVE  credLock'[a] = q <=> chosen'[q] = a /\ pc'[q] \in CredSteps
  <2>1. "idle" \notin CredSteps
    BY DEF CredSteps
  <2>2. credLock[a] = q <=> chosen[q] = a /\ pc[q] \in CredSteps
    BY DEF Inv, LocksHeld
  <2>3. credLock[a] = p <=> chosen[p] = a /\ from \in CredSteps
    BY DEF Inv, LocksHeld, Moves
  <2> QED BY <1>1, <2>1, <2>2, <2>3 DEF Moves, Keeps
<1> QED BY <1>2, <1>3, <1>4 DEF LocksHeld

\* Steps that do not write State or the home.
LEMMA MoveKeepsInv ==
    ASSUME Inv, LaunchTypeOK', NEW p \in Proc, NEW from \in Steps, NEW to \in Steps,
           Moves(p, from, to), state' = state, home' = home,
           \A q \in Proc \ {p} : exact'[q] = exact[q],
           from # "commit", to # "commit",
           to \in StateSteps => exact'[p],
           to \in Chosen => chosen'[p] \in Account, to # "idle",
           child'[p] = "running" <=> to = "running",
           to \in {"drop", "record"} => child'[p] \in Endings,
           to = "running" => home = chosen'[p],
           p \in Launchers /\ to \in PickSteps /\ chosen'[p] # NoAccount /\ exact'[p]
             => chosen'[p] \notin state.cooling
    PROVE  Inv'
<1>1. \A q \in Proc : pc'[q] = IF q = p THEN to ELSE pc[q]
  BY DEF Inv, LaunchTypeOK, Moves
<1>2. \A q \in Proc \ {p} : chosen'[q] = chosen[q] /\ child'[q] = child[q]
  BY DEF Moves
<1>3. \A q \in Proc : q # p => pc'[q] = pc[q] /\ chosen'[q] = chosen[q]
                              /\ child'[q] = child[q] /\ exact'[q] = exact[q]
  BY <1>1, <1>2
<1>4. LocksHeld'
  BY MoveKeepsLocks
<1>5. HolderExact'
  BY <1>1, <1>3 DEF Inv, HolderExact
<1>6. ChosenWhenNeeded' /\ ChildOfStep'
  BY <1>1, <1>3 DEF Inv, ChosenWhenNeeded, ChildOfStep
<1>7. HomeAndState'
  <2>1. \A q \in Proc : pc'[q] = "commit" <=> pc[q] = "commit"
    BY <1>1 DEF Moves
  <2>2. ASSUME NEW q \in Proc, pc'[q] = "commit" PROVE before'[q] = before[q]
    <3>1. q # p
      BY <1>1, <2>2
    <3> QED BY <3>1, <2>2 DEF Moves
  <2> QED BY <1>1, <1>3, <2>1, <2>2 DEF Inv, HomeAndState
<1>8. PickedUsable'
  BY <1>1, <1>3 DEF Inv, PickedUsable, Proc
<1> QED BY <1>4, <1>5, <1>6, <1>7, <1>8 DEF Inv

\* A commit of what a session knows of cooldowns.
LEMMA CommitKeepsInv ==
    ASSUME Inv, LaunchTypeOK', NEW p \in Proc, NEW from \in Steps,
           NEW to \in {"select", "idle"}, Moves(p, from, to), from \notin CredSteps,
           stateLock = Nobody, exact' = [q \in Proc |-> q = p],
           state'.current = state.current, home' = home, before' = before,
           child'[p] # "running", to = "idle" => chosen'[p] = NoAccount
    PROVE  Inv'
<1>1. \A q \in Proc : pc'[q] = IF q = p THEN to ELSE pc[q]
  BY DEF Inv, LaunchTypeOK, Moves
<1>2. \A q \in Proc \ {p} : chosen'[q] = chosen[q] /\ child'[q] = child[q]
  BY DEF Moves
<1>3. \A q \in Proc : q # p => pc'[q] = pc[q] /\ chosen'[q] = chosen[q]
                              /\ child'[q] = child[q]
  BY <1>1, <1>2
<1>4. LocksHeld'
  BY MoveKeepsLocks DEF Steps
<1>5. \A q \in Proc : pc[q] \notin StateSteps
  BY LaunchAssumption DEF Inv, LocksHeld
<1>6. HolderExact'
  BY <1>1, <1>5 DEF HolderExact, StateSteps
<1>7. ChosenWhenNeeded' /\ ChildOfStep'
  BY <1>1, <1>3
  DEF Inv, ChosenWhenNeeded, ChildOfStep, Chosen, PickSteps, CredSteps
<1>8. HomeAndState'
  BY <1>1, <1>3, <1>5 DEF Inv, HomeAndState, StateSteps
<1>9. PickedUsable'
  BY <1>1 DEF Inv, PickedUsable, PickSteps, Proc
<1> QED BY <1>4, <1>6, <1>7, <1>8, <1>9 DEF Inv

LEMMA ReturnKeepsInv ==
    ASSUME Inv, NEW p \in Proc, pc[p] # "idle", Return(p),
           IF pc[p] = "commit" THEN Restore(p) ELSE home' = home
    PROVE  Inv'
<1>1. LaunchTypeOK'
  BY LaunchAssumption
  DEF Inv, LaunchTypeOK, Return, Goto, Restore, Steps, Children, Account, NoAccount, Proc
<1>2. LocksHeld'
  BY LaunchAssumption
  DEF Inv, LaunchTypeOK, LocksHeld, ChosenWhenNeeded, Return, Goto, StateSteps, CredSteps, HomeSteps
<1>3. HolderExact'
  BY DEF Inv, LaunchTypeOK, HolderExact, Return, Goto, StateSteps
<1>4. ChosenWhenNeeded' /\ ChildOfStep'
  BY DEF Inv, LaunchTypeOK, ChosenWhenNeeded, ChildOfStep, Return, Goto, Chosen,
         PickSteps, CredSteps, Endings, Children
<1>5. HomeAndState'
  BY DEF Inv, LaunchTypeOK, LocksHeld, HomeAndState, Return, Goto, Restore, HomeSteps
<1>6. PickedUsable'
  BY DEF Inv, LaunchTypeOK, PickedUsable, Return, Goto, PickSteps, Proc
<1> QED BY <1>1, <1>2, <1>3, <1>4, <1>5, <1>6 DEF Inv

LEMMA StepKeepsInv ==
    ASSUME Inv, NEW p \in Proc, Open(p) \/ Step(p)
    PROVE  Inv'
<1> USE LaunchAssumption DEF Inv
<1>a. CASE Conflict(p) \/ NothingUsable(p) \/ Ends(p) \/ CommitFails(p)
  BY <1>a, ReturnKeepsInv DEF Conflict, NothingUsable, Ends, CommitFails
<1>1. CASE Open(p)
  <2>1. commands' \in [Proc -> 0..MaxCommands] /\ tries' \in [Proc -> 0..MaxTries]
    BY <1>1 DEF Open, LaunchTypeOK
  <2>2. session' \in [Proc -> State] /\ exact' \in [Proc -> BOOLEAN]
    BY <1>1 DEF Open, LaunchTypeOK
  <2>3. \A q \in Proc : exact'[q] => session'[q] = state'
    BY <1>1 DEF Open, LaunchTypeOK
  <2>4. LaunchTypeOK'
    BY <1>1, <2>1, <2>2, <2>3 DEF Open, Goto, locks, LaunchTypeOK, Steps
  <2>5. Moves(p, "idle", "recover")
    BY <1>1 DEF Open, Goto, locks, LaunchTypeOK, LocksHeld, Moves, Keeps,
       StateSteps, CredSteps, HomeSteps
  <2>6. chosen'[p] = NoAccount /\ child'[p] # "running" /\ home' = home /\ state' = state
    BY <1>1 DEF Open, ChosenWhenNeeded, ChildOfStep
  <2>7. \A q \in Proc \ {p} : exact'[q] = exact[q]
    BY <1>1 DEF Open, LaunchTypeOK
  <2> QED
    BY <2>4, <2>5, <2>6, <2>7, MoveKeepsInv
    DEF Steps, Chosen, StateSteps, CredSteps, PickSteps
<1>2. CASE Recover(p)
  <2>1. LaunchTypeOK'
    BY <1>2
    DEF Recover, LockState, Goto, Uncommitted, LaunchTypeOK, Steps
  <2>2. Moves(p, "recover", "visit")
    BY <1>2
    DEF Recover, LockState, Goto, LaunchTypeOK, LocksHeld, Moves, Keeps, StateSteps,
        CredSteps, HomeSteps
  <2> QED
    BY <1>2, <2>1, <2>2, MoveKeepsInv
    DEF Recover, LockState, Uncommitted, PickedUsable, PickSteps, Chosen, CredSteps,
        ChildOfStep, StateSteps, Steps
<1>3. CASE Visit(p)
  <2>1. visited' \in [Proc -> 0..Accounts]
    BY <1>3 DEF Visit, LaunchTypeOK
  <2>2. LaunchTypeOK'
    BY <1>3, <2>1 DEF Visit, Uncommitted, locks, LaunchTypeOK
  <2>3. Moves(p, "visit", "visit")
    BY <1>3 DEF Visit, locks, LaunchTypeOK, LocksHeld, Moves, Keeps, StateSteps,
       CredSteps, HomeSteps
  <2> QED
    BY <1>3, <2>2, <2>3, MoveKeepsInv
    DEF Visit, Uncommitted, Steps, HolderExact, ChildOfStep, PickedUsable, Chosen,
        StateSteps, CredSteps, PickSteps
<1>4. CASE Started(p)
  <2>1. LaunchTypeOK'
    BY <1>4
    DEF Started, Recovered, Goto, Uncommitted, LaunchTypeOK, Steps
  <2>2. Moves(p, "visit", "refresh")
    BY <1>4
    DEF Started, Recovered, Goto, LaunchTypeOK, LocksHeld, Moves, Keeps, StateSteps,
        CredSteps, HomeSteps
  <2> QED
    BY <1>4, <2>1, <2>2, MoveKeepsInv
    DEF Started, Recovered, Uncommitted, Chosen, PickSteps, CredSteps, ChildOfStep,
        StateSteps, Steps
<1>5. CASE Use(p)
  <2>1. LaunchTypeOK'
    BY <1>5
    DEF Use, Recovered, Goto, Uncommitted, LaunchTypeOK, Steps
  <2>2. Moves(p, "visit", "recover")
    BY <1>5
    DEF Use, Recovered, Goto, LaunchTypeOK, LocksHeld, Moves, Keeps, StateSteps,
        CredSteps, HomeSteps
  <2> QED
    BY <1>5, <2>1, <2>2, MoveKeepsInv
    DEF Use, Recovered, Uncommitted, PickSteps, Chosen, CredSteps, ChildOfStep,
        StateSteps, Steps
<1>6. CASE Resume(p)
  <2>1. LaunchTypeOK'
    BY <1>6 DEF Resume, Recovered, Goto, Uncommitted, LaunchTypeOK, Steps
  <2>2. Moves(p, "visit", "switch")
    BY <1>6 DEF Resume, Recovered, Goto, LaunchTypeOK, LocksHeld, Moves,
       Keeps, StateSteps, CredSteps, HomeSteps
  <2>3. chosen' = chosen /\ chosen[p] \in Account /\ child' = child /\ child[p] # "running"
    BY <1>6 DEF Resume, Recovered, LaunchTypeOK, ChildOfStep
  <2>4. p \in Launchers /\ exact[p] => chosen[p] \notin state.cooling
    BY <1>6 DEF Resume, Recovered, PickedUsable, PickSteps
  <2>5. state' = state /\ home' = home /\ exact' = exact
    BY <1>6 DEF Resume, Recovered, Uncommitted
  <2> QED
    BY <2>1, <2>2, <2>3, <2>4, <2>5, MoveKeepsInv DEF Steps, StateSteps
<1>7. CASE Select(p)
  <2>1. PICK a \in Account \ session[p].cooling : chosen' = [chosen EXCEPT ![p] = a]
    BY <1>7 DEF Select, Candidates
  <2>2. LaunchTypeOK'
    BY <1>7, <2>1 DEF Select, Goto, Uncommitted, locks, LaunchTypeOK, Steps
  <2>3. Moves(p, "select", "recover")
    BY <1>7, <2>1 DEF Select, Goto, locks, LaunchTypeOK, LocksHeld, Moves, Keeps,
       StateSteps, CredSteps, HomeSteps
  <2>4. chosen'[p] = a /\ (exact[p] => a \notin state.cooling)
    BY <2>1 DEF LaunchTypeOK
  <2>5. state' = state /\ home' = home /\ exact' = exact /\ child'[p] # "running"
    BY <1>7 DEF Select, Uncommitted, ChildOfStep
  <2> QED
    BY <2>2, <2>3, <2>4, <2>5, MoveKeepsInv
    DEF Steps, StateSteps, Chosen, CredSteps, PickSteps
<1>8. CASE BeginSwitch(p)
  <2>1. LaunchTypeOK'
    BY <1>8
    DEF BeginSwitch, LockState, Goto, Uncommitted, LaunchTypeOK, Steps
  <2>2. Moves(p, "switch", "credential")
    BY <1>8
    DEF BeginSwitch, LockState, Goto, LaunchTypeOK, LocksHeld, Moves, Keeps,
        StateSteps, CredSteps, HomeSteps
  <2> QED
    BY <1>8, <2>1, <2>2, MoveKeepsInv
    DEF BeginSwitch, LockState, Uncommitted, PickedUsable, ChosenWhenNeeded, Chosen,
        PickSteps, ChildOfStep, StateSteps, Steps
<1>9. CASE LockCredential(p)
  <2>1. LaunchTypeOK'
    BY <1>9
    DEF LockCredential, TakeCredential, Goto, Uncommitted, ChosenWhenNeeded, Chosen,
        PickSteps, LaunchTypeOK, Steps
  <2>2. Moves(p, "credential", "home")
    BY <1>9
    DEF LockCredential, TakeCredential, Goto, LaunchTypeOK, LocksHeld,
        ChosenWhenNeeded, Chosen, PickSteps, Moves, Keeps, StateSteps, CredSteps,
        HomeSteps
  <2> QED
    BY <1>9, <2>1, <2>2, MoveKeepsInv
    DEF LockCredential, TakeCredential, Uncommitted, PickedUsable, ChosenWhenNeeded,
        Chosen, PickSteps, HolderExact, ChildOfStep, StateSteps, Steps
<1>10. CASE LockHome(p)
  <2>1. LaunchTypeOK'
    BY <1>10
    DEF LockHome, TakeHome, Goto, Uncommitted, LaunchTypeOK, Steps
  <2>2. Moves(p, "home", "publish")
    BY <1>10
    DEF LockHome, TakeHome, Goto, LaunchTypeOK, LocksHeld, Moves, Keeps, StateSteps,
        CredSteps, HomeSteps
  <2> QED
    BY <1>10, <2>1, <2>2, MoveKeepsInv
    DEF LockHome, TakeHome, Uncommitted, PickedUsable, ChosenWhenNeeded, Chosen,
        PickSteps, HolderExact, ChildOfStep, StateSteps, Steps
<1>11. CASE Finalize(p)
  <2>1. LaunchTypeOK'
    BY <1>11
    DEF Finalize, Goto, Uncommitted, ChosenWhenNeeded, Chosen, PickSteps,
        LaunchTypeOK, Steps
  <2>2. Moves(p, "finalize", "lease")
    BY <1>11
    DEF Finalize, Goto, LaunchTypeOK, LocksHeld, ChosenWhenNeeded, Chosen, PickSteps,
        Moves, Keeps, StateSteps, CredSteps, HomeSteps
  <2> QED
    BY <1>11, <2>1, <2>2, MoveKeepsInv
    DEF Finalize, Uncommitted, PickedUsable, ChosenWhenNeeded, Chosen, PickSteps,
        ChildOfStep, StateSteps, Steps
<1>12. CASE LeaseCredential(p)
  <2>1. LaunchTypeOK'
    BY <1>12
    DEF LeaseCredential, TakeCredential, Goto, Uncommitted, ChosenWhenNeeded, Chosen,
        PickSteps, LaunchTypeOK, Steps
  <2>2. Moves(p, "lease", "lease_home")
    BY <1>12
    DEF LeaseCredential, TakeCredential, Goto, LaunchTypeOK, LocksHeld,
        ChosenWhenNeeded, Chosen, PickSteps, Moves, Keeps, StateSteps, CredSteps,
        HomeSteps
  <2> QED
    BY <1>12, <2>1, <2>2, MoveKeepsInv
    DEF LeaseCredential, TakeCredential, Uncommitted, PickedUsable, ChosenWhenNeeded,
        Chosen, PickSteps, ChildOfStep, StateSteps, Steps
<1>13. CASE LeaseHome(p)
  <2>1. LaunchTypeOK'
    BY <1>13
    DEF LeaseHome, TakeHome, Goto, Uncommitted, LaunchTypeOK, Steps
  <2>2. Moves(p, "lease_home", "reread")
    BY <1>13
    DEF LeaseHome, TakeHome, Goto, LaunchTypeOK, LocksHeld, Moves, Keeps, StateSteps,
        CredSteps, HomeSteps
  <2> QED
    BY <1>13, <2>1, <2>2, MoveKeepsInv
    DEF LeaseHome, TakeHome, Uncommitted, PickedUsable, ChosenWhenNeeded, Chosen,
        PickSteps, ChildOfStep, StateSteps, Steps
<1>14. CASE Spawn(p)
  <2>1. LaunchTypeOK'
    BY <1>14 DEF Spawn, Goto, Uncommitted, locks, LaunchTypeOK, Steps, Children
  <2>2. Moves(p, "reread", "running")
    BY <1>14 DEF Spawn, Goto, locks, LaunchTypeOK, LocksHeld, Moves, Keeps,
       StateSteps, CredSteps, HomeSteps
  <2>3. chosen' = chosen /\ chosen[p] \in Account /\ home = chosen[p] /\ child'[p] = "running"
    BY <1>14 DEF Spawn, Resolved, HomeHolds, LaunchTypeOK, ChosenWhenNeeded, Chosen, PickSteps
  <2>4. state' = state /\ home' = home /\ exact' = exact
    BY <1>14 DEF Spawn, Uncommitted
  <2> QED
    BY <2>1, <2>2, <2>3, <2>4, MoveKeepsInv DEF Steps, StateSteps, PickSteps
<1>15. CASE ChildEnds(p)
  <2>1. PICK how \in Endings : child' = [child EXCEPT ![p] = how]
    BY <1>15 DEF ChildEnds
  <2>2. LaunchTypeOK'
    BY <1>15, <2>1 DEF ChildEnds, Goto, Uncommitted, locks, LaunchTypeOK, Steps, Children
  <2>3. Moves(p, "running", "drop")
    BY <1>15, <2>1 DEF ChildEnds, Goto, locks, LaunchTypeOK, LocksHeld, Moves, Keeps,
       StateSteps, CredSteps, HomeSteps
  <2>4. chosen' = chosen /\ chosen[p] \in Account /\ child'[p] \in Endings
    BY <1>15, <2>1 DEF ChildEnds, LaunchTypeOK, ChosenWhenNeeded, Chosen, CredSteps
  <2>5. state' = state /\ home' = home /\ exact' = exact
    BY <1>15 DEF ChildEnds, Uncommitted
  <2> QED
    BY <2>2, <2>3, <2>4, <2>5, MoveKeepsInv DEF Steps, StateSteps, PickSteps, Endings
<1>16. CASE DropLeases(p)
  <2>1. LaunchTypeOK'
    BY <1>16 DEF DropLeases, Goto, Uncommitted, LaunchTypeOK, Steps
  <2>2. Moves(p, "drop", "record")
    BY <1>16 DEF DropLeases, Goto, LaunchTypeOK, LocksHeld, Moves, Keeps,
       ChosenWhenNeeded, Chosen, StateSteps, CredSteps, HomeSteps
  <2>3. chosen' = chosen /\ chosen[p] \in Account /\ child' = child
    BY <1>16 DEF DropLeases, ChosenWhenNeeded, Chosen, CredSteps
  <2>4. child[p] \in Endings
    BY <1>16 DEF DropLeases, ChildOfStep
  <2>5. state' = state /\ home' = home /\ exact' = exact
    BY <1>16 DEF DropLeases, Uncommitted
  <2> QED
    BY <2>1, <2>2, <2>3, <2>4, <2>5, MoveKeepsInv DEF Steps, StateSteps, PickSteps, Endings
<1>17. CASE Refresh(p)
  <2>1. PICK limited \in SUBSET Account :
            CommitExact(p, [session[p] EXCEPT !.cooling = @ \cup limited], "select")
    BY <1>17 DEF Refresh
  <2>2. LaunchTypeOK'
    <3> DEFINE new == [session[p] EXCEPT !.cooling = @ \cup limited]
    <3>1. new \in State
      BY DEF LaunchTypeOK, State
    <3> HIDE DEF new
    <3> QED BY <1>17, <2>1, <3>1 DEF Refresh, CommitExact, Commit, Goto, locks, LaunchTypeOK, Steps, new
  <2>3. Moves(p, "refresh", "select")
    BY <1>17, <2>1 DEF Refresh, CommitExact, Goto, locks, LaunchTypeOK, LocksHeld, Moves,
       Keeps, StateSteps, CredSteps, HomeSteps
  <2>4. state'.current = state.current
    BY <2>1 DEF CommitExact, Commit, LaunchTypeOK, State
  <2> QED
    BY <1>17, <2>1, <2>2, <2>3, <2>4, CommitKeepsInv
    DEF Refresh, CommitExact, Commit, Steps, CredSteps, ChildOfStep
<1>18. CASE Publish(p)
  <2>1. LaunchTypeOK'
    BY <1>18 DEF Publish, Goto, Uncommitted, locks, LaunchTypeOK, Steps, ChosenWhenNeeded,
       Chosen, PickSteps
  <2>2. Moves(p, "publish", "commit")
    BY <1>18 DEF Publish, Goto, locks, LaunchTypeOK, LocksHeld, Moves, Keeps,
       StateSteps, CredSteps, HomeSteps
  <2>3. LocksHeld'
    BY <2>2, MoveKeepsLocks DEF Steps
  <2>4. \A q \in Proc : pc'[q] = IF q = p THEN "commit" ELSE pc[q]
    BY <1>18 DEF Publish, Goto, LaunchTypeOK
  <2>5. HolderExact' /\ ChosenWhenNeeded' /\ ChildOfStep' /\ PickedUsable'
    BY <1>18, <2>4
    DEF Publish, Uncommitted, HolderExact, ChosenWhenNeeded, ChildOfStep, PickedUsable, Proc,
        StateSteps, Chosen, PickSteps, CredSteps
  <2>6. \A q \in Proc \ {p} : pc[q] \notin HomeSteps
    BY <1>18 DEF Publish, LocksHeld, HomeSteps
  <2>7. home = state.current
    BY <1>18, <2>6 DEF Publish, HomeAndState, HomeSteps
  <2>8. HomeAndState'
    BY <1>18, <2>4, <2>6, <2>7
    DEF Publish, Uncommitted, LaunchTypeOK, HomeAndState, HomeSteps
  <2> QED BY <2>1, <2>3, <2>5, <2>8
<1>19. CASE CommitSwitch(p)
  <2> DEFINE new == [state EXCEPT !.current = chosen[p]]
  <2>1. new \in State /\ new.current = chosen[p] /\ new.cooling = state.cooling
    BY <1>19 DEF CommitSwitch, LaunchTypeOK, State, ChosenWhenNeeded, Chosen, PickSteps
  <2>2. /\ state' = new /\ session' = [session EXCEPT ![p] = new]
        /\ exact' = [q \in Proc |-> q = p]
    BY <1>19 DEF CommitSwitch, Commit
  <2> HIDE DEF new
  <2>3. LaunchTypeOK'
    BY <1>19, <2>1, <2>2 DEF CommitSwitch, Goto, locks, LaunchTypeOK, Steps
  <2>4. Moves(p, "commit", "finalize")
    BY <1>19 DEF CommitSwitch, Goto, locks, LaunchTypeOK, LocksHeld, Moves, Keeps,
       StateSteps, CredSteps, HomeSteps
  <2>5. LocksHeld'
    BY <2>4, MoveKeepsLocks DEF Steps
  <2>6. \A q \in Proc : pc'[q] = IF q = p THEN "finalize" ELSE pc[q]
    BY <1>19 DEF CommitSwitch, Goto, LaunchTypeOK
  <2>7. \A q \in Proc \ {p} : pc[q] \notin StateSteps
    BY <1>19 DEF CommitSwitch, LocksHeld, StateSteps
  <2>8. HolderExact'
    BY <2>2, <2>6, <2>7 DEF HolderExact
  <2>9. ChosenWhenNeeded' /\ ChildOfStep'
    BY <1>19, <2>6
    DEF CommitSwitch, ChosenWhenNeeded, ChildOfStep, Chosen, PickSteps, CredSteps
  <2>10. HomeAndState'
    BY <1>19, <2>1, <2>2, <2>6, <2>7
    DEF CommitSwitch, HomeAndState, StateSteps
  <2>11. PickedUsable'
    BY <1>19, <2>1, <2>2 DEF CommitSwitch, HolderExact, PickedUsable, PickSteps, StateSteps, Proc
  <2> QED BY <2>3, <2>5, <2>8, <2>9, <2>10, <2>11
<1>20. CASE RecordAndReturn(p)
  <2>1. PICK new \in Recorded(session[p], chosen[p], child[p]) : CommitExact(p, new, "idle")
    BY <1>20 DEF RecordAndReturn
  <2>2. chosen[p] \in Account /\ child[p] \in Endings /\ child[p] # "ok"
    BY <1>20 DEF RecordAndReturn, ChosenWhenNeeded, Chosen, ChildOfStep, Endings
  <2>3. new \in State /\ new.current = session[p].current
    BY <2>1, <2>2 DEF Recorded, LaunchTypeOK, State, Endings
  <2>4. LaunchTypeOK'
    BY <1>20, <2>1, <2>3
    DEF RecordAndReturn, CommitExact, Commit, Goto, locks, LaunchTypeOK, Steps, Children
  <2>5. Moves(p, "record", "idle")
    BY <1>20, <2>1
    DEF RecordAndReturn, CommitExact, Goto, locks, LaunchTypeOK, LocksHeld, Moves, Keeps,
        StateSteps, CredSteps, HomeSteps
  <2>6. chosen'[p] = NoAccount /\ child'[p] # "running"
    BY <1>20 DEF RecordAndReturn, LaunchTypeOK
  <2>7. state'.current = state.current
    BY <2>1, <2>3 DEF CommitExact, Commit, LaunchTypeOK
  <2> QED
    BY <1>20, <2>1, <2>4, <2>5, <2>6, <2>7, CommitKeepsInv
    DEF RecordAndReturn, CommitExact, Commit, Steps, CredSteps
<1>21. CASE RecordAndFallBack(p)
  <2>1. PICK new \in Recorded(session[p], chosen[p], child[p]) : CommitExact(p, new, "select")
    BY <1>21 DEF RecordAndFallBack
  <2>2. chosen[p] \in Account /\ child[p] = "exhausted"
    BY <1>21 DEF RecordAndFallBack, ChosenWhenNeeded, Chosen
  <2>3. new \in State /\ new.current = session[p].current
    BY <2>1, <2>2 DEF Recorded, LaunchTypeOK, State
  <2>4. tries' \in [Proc -> 0..MaxTries]
    BY <1>21 DEF RecordAndFallBack, NextTry, LaunchTypeOK
  <2>5. LaunchTypeOK'
    BY <1>21, <2>1, <2>3, <2>4
    DEF RecordAndFallBack, CommitExact, Commit, Goto, locks, LaunchTypeOK, Steps, Children
  <2>6. Moves(p, "record", "select")
    BY <1>21, <2>1
    DEF RecordAndFallBack, CommitExact, Goto, locks, LaunchTypeOK, LocksHeld, Moves, Keeps,
        StateSteps, CredSteps, HomeSteps
  <2>7. child'[p] # "running" /\ state'.current = state.current
    BY <1>21, <2>1, <2>3 DEF RecordAndFallBack, CommitExact, Commit, LaunchTypeOK
  <2> QED
    BY <1>21, <2>1, <2>5, <2>6, <2>7, CommitKeepsInv
    DEF RecordAndFallBack, CommitExact, Commit, Steps, CredSteps
<1> QED
  BY <1>a, <1>1, <1>2, <1>3, <1>4, <1>5, <1>6, <1>7, <1>8, <1>9, <1>10, <1>11, <1>12,
     <1>13, <1>14, <1>15, <1>16, <1>17, <1>18, <1>19, <1>20, <1>21
  DEF Step

----------------------------------------------------------------------------
(* The theorems.                                                           *)

LEMMA NextKeepsInv == Inv /\ [Next]_vars => Inv'
<1> SUFFICES ASSUME Inv, [Next]_vars PROVE Inv'
  OBVIOUS
<1>1. CASE UNCHANGED vars
  BY <1>1
  DEF vars, locks, Inv, LaunchTypeOK, LocksHeld, HolderExact, ChosenWhenNeeded,
      ChildOfStep, HomeAndState, PickedUsable
<1>2. CASE Next
  BY <1>1, <1>2, StepKeepsInv DEF Next, Finished
<1> QED BY <1>1, <1>2

THEOREM LaunchInvariant == Spec => []Inv
BY InvInit, NextKeepsInv, PTL DEF Spec

(***************************************************************************)
(* Every variable keeps its type, and a session that is exact has the      *)
(* committed State.                                                        *)
(***************************************************************************)
THEOREM LaunchTypeCorrect == Spec => []LaunchTypeOK
<1>1. Inv => LaunchTypeOK
  BY DEF Inv
<1> QED BY <1>1, LaunchInvariant, PTL

(***************************************************************************)
(* Nobody else is between publishing a home and its commit while one       *)
(* process holds the home locks, so the home of a running child is State's.*)
(***************************************************************************)
THEOREM ChildrenRunAsSelected == Spec => []ChildRunsAsSelected
<1>1. Inv => ChildRunsAsSelected
  <2> SUFFICES ASSUME Inv, NEW p \in Launchers, child[p] = "running"
               PROVE  home = chosen[p] /\ state.current = chosen[p]
    BY DEF ChildRunsAsSelected
  <2>1. p \in Proc /\ pc[p] = "running"
    BY DEF Inv, ChildOfStep, Proc
  <2>2. \A q \in Proc : pc[q] # "commit"
    BY <2>1 DEF Inv, LocksHeld, HomeSteps
  <2> QED BY <2>1, <2>2 DEF Inv, HomeAndState
<1> QED BY <1>1, LaunchInvariant, PTL

(***************************************************************************)
(* With the home locks free, no switch is between publication and commit.  *)
(***************************************************************************)
THEOREM HomeIsCurrent == Spec => []HomeFollowsState
<1>1. Inv => HomeFollowsState
  <2> SUFFICES ASSUME Inv, homeLock = Nobody PROVE home = state.current
    BY DEF HomeFollowsState
  <2>1. \A q \in Proc : pc[q] # "commit"
    BY LaunchAssumption DEF Inv, LocksHeld, HomeSteps
  <2> QED BY <2>1 DEF Inv, HomeAndState
<1> QED BY <1>1, LaunchInvariant, PTL

(***************************************************************************)
(* A chain of waiting processes goes from the State lock to a credential   *)
(* lock to the home locks, whose holder waits for nothing.                 *)
(***************************************************************************)
THEOREM LocksAreOrdered == Spec => []NoCircularWait
<1>1. Inv => NoCircularWait
  <2> SUFFICES ASSUME Inv, NEW W \in SUBSET Proc, W # {},
                      \A p \in W : Awaited(p) \in W
               PROVE  FALSE
    BY DEF NoCircularWait
  <2>1. Nobody \notin W
    BY LaunchAssumption
  <2>2. \A p \in W : pc[p] \notin HomeSteps
    BY <2>1 DEF Awaited, HomeSteps
  <2>3. \A p \in W : pc[p] \notin {"home", "lease_home"}
    BY <2>2 DEF Awaited, Inv, LocksHeld
  <2>4. \A p \in W : pc[p] \notin CredSteps
    BY <2>2, <2>3 DEF CredSteps, HomeSteps
  <2>5. ASSUME NEW p \in W, NEW a \in Account PROVE credLock[a] # p
    BY <2>4 DEF Inv, LocksHeld
  <2>6. \A p \in W : pc[p] \notin {"credential", "lease"}
    <3> SUFFICES ASSUME NEW p \in W, pc[p] \in {"credential", "lease"} PROVE FALSE
      OBVIOUS
    <3>1. Awaited(p) = credLock[chosen[p]] /\ chosen[p] \in Account
      BY DEF Awaited, Inv, ChosenWhenNeeded, Chosen, PickSteps
    <3> QED BY <3>1, <2>5
  <2>7. \A p \in W : pc[p] # "visit"
    <3> SUFFICES ASSUME NEW p \in W, pc[p] = "visit" PROVE FALSE
      OBVIOUS
    <3>1. visited[p] < Accounts
      BY <2>1 DEF Awaited
    <3>2. visited[p] + 1 \in Account
      <4>1. visited[p] \in 0..Accounts /\ p \in Proc
        BY DEF Inv, LaunchTypeOK
      <4>2. Accounts \in Nat
        BY LaunchAssumption
      <4> QED BY <3>1, <4>1, <4>2 DEF Account
    <3>3. Awaited(p) = credLock[visited[p] + 1]
      BY <3>1 DEF Awaited
    <3> QED BY <3>2, <3>3, <2>5
  <2>8. \A p \in W : Awaited(p) # stateLock
    BY <2>2, <2>3, <2>6, <2>7 DEF Inv, LocksHeld, StateSteps, HomeSteps
  <2>9. PICK p \in W : TRUE
    OBVIOUS
  <2>10. Awaited(p) \in {stateLock, Nobody}
    BY <2>3, <2>6, <2>7 DEF Awaited
  <2> QED BY <2>1, <2>8, <2>9, <2>10
<1> QED BY <1>1, LaunchInvariant, PTL

(***************************************************************************)
(* A commit replaces the revision its session read, and only adds to it.   *)
(***************************************************************************)
THEOREM CooldownsNotLost == Spec => CooldownsKept
<1>1. ASSUME Inv, [Next]_vars PROVE state.cooling \subseteq state'.cooling
  <2>1. CASE state' = state
    BY <2>1
  <2>2. ASSUME NEW p \in Proc, Refresh(p) PROVE state.cooling \subseteq state'.cooling
    <3>1. PICK limited \in SUBSET Account :
              state' = [session[p] EXCEPT !.cooling = @ \cup limited]
      BY <2>2 DEF Refresh, CommitExact, Commit
    <3>2. session[p] = state /\ state \in State
      BY <1>1, <2>2 DEF Refresh, CommitExact, Inv, LaunchTypeOK
    <3> QED BY <3>1, <3>2 DEF State
  <2>3. ASSUME NEW p \in Proc, CommitSwitch(p)
        PROVE  state.cooling \subseteq state'.cooling
    BY <2>3 DEF CommitSwitch, Commit, Inv, LaunchTypeOK, State
  <2>4. ASSUME NEW p \in Proc, RecordAndReturn(p) \/ RecordAndFallBack(p)
        PROVE  state.cooling \subseteq state'.cooling
    <3>1. state' \in Recorded(session[p], chosen[p], child[p])
      BY <2>4 DEF RecordAndReturn, RecordAndFallBack, CommitExact, Commit
    <3>2. session[p] = state /\ state \in State
      BY <1>1, <2>4 DEF RecordAndReturn, RecordAndFallBack, CommitExact, Inv, LaunchTypeOK
    <3>3. child[p] \in {"rejected", "failed", "exhausted"}
      BY <2>4 DEF RecordAndReturn, RecordAndFallBack
    <3>4. state' \in {state, [state EXCEPT !.cooling = @ \cup {chosen[p]}]}
      BY <3>1, <3>2, <3>3 DEF Recorded
    <3> QED BY <3>2, <3>4 DEF State
  <2>5. CASE UNCHANGED vars
    BY <2>5 DEF vars
  <2>6. ASSUME NEW p \in Proc, Open(p) \/ Step(p)
        PROVE  \/ state' = state \/ Refresh(p) \/ CommitSwitch(p)
               \/ RecordAndReturn(p) \/ RecordAndFallBack(p)
    BY <2>6
    DEF Step, Open, Conflict, Ends, Return, Recover, Visit, Started, Use, Resume, Recovered,
        Select, NothingUsable, BeginSwitch, LockState, LockCredential, LockHome,
        TakeCredential, TakeHome, Publish, CommitFails, Finalize, LeaseCredential,
        LeaseHome, Spawn, ChildEnds, DropLeases, Uncommitted
  <2> QED BY <1>1, <2>1, <2>2, <2>3, <2>4, <2>5, <2>6 DEF Next, Finished
<1> QED BY <1>1, LaunchInvariant, PTL DEF Spec, CooldownsKept

(***************************************************************************)
(* A child starts in a step of its own process, with an exact session.     *)
(***************************************************************************)
THEOREM CoolingNeverSpawned == Spec => NeverSpawnedCooling
<1>1. ASSUME Inv, [Next]_vars, NEW p \in Launchers, child[p] = "none",
             child'[p] = "running"
      PROVE  chosen[p] \notin state.cooling
  <2>1. pc[p] # "running" /\ pc'[p] = "running"
    BY <1>1, NextKeepsInv DEF Inv, ChildOfStep, Proc
  <2>2. PICK q \in Proc : Open(q) \/ Step(q)
    BY <1>1, <2>1 DEF Next, Finished, vars
  <2>3. \/ Spawn(q)
        \/ pc' = pc
        \/ \E to \in Steps \ {"running"} : Goto(q, to)
    BY <2>2
    DEF Step, Open, Conflict, Ends, Return, Recover, Visit, Started, Use, Resume, Recovered,
        Refresh, Select, NothingUsable, BeginSwitch, LockState, LockCredential, LockHome,
        TakeCredential, TakeHome, Publish, CommitSwitch, CommitFails, Finalize,
        LeaseCredential, LeaseHome, ChildEnds, DropLeases, RecordAndReturn,
        RecordAndFallBack, CommitExact, Steps
  <2>4. pc \in [Proc -> Steps] /\ p \in Proc
    BY <1>1 DEF Inv, LaunchTypeOK, Proc
  <2>5. Spawn(q) /\ q = p
    BY <2>1, <2>3, <2>4 DEF Goto, Spawn
  <2> QED
    BY <1>1, <2>5
    DEF Spawn, Resolved, HomeHolds, Inv, ChosenWhenNeeded, Chosen, PickSteps, PickedUsable, Proc,
        Account, NoAccount
<1>2. Inv /\ [Next]_vars
        => [\A p \in Launchers : child[p] = "none" /\ child'[p] = "running" =>
              chosen[p] \notin state.cooling]_vars
  BY <1>1
<1> QED BY <1>2, LaunchInvariant, PTL DEF Spec, NeverSpawnedCooling

---------------------------------------------------------------------------
(* Induction over finite intervals, and what is defined by it.             *)

\* A set of numbers has a least one.
LEMMA Least ==
    ASSUME NEW S \in SUBSET Nat, S # {} PROVE \E m \in S : \A x \in S : m <= x
<1>1. IsWellFoundedOn(OpToRel(<, Nat), Nat)
  BY Zenon, NatLessThanWellFounded
<1>2. PICK m \in S : \A y \in S : <<y, m>> \notin OpToRel(<, Nat)
  BY Zenon, <1>1, WFMin
<1>3. \A y \in S : ~ (y < m)
  BY Zenon, <1>2 DEF OpToRel
<1> QED
  BY <1>3

\* A bounded one has a greatest one.
LEMMA Greatest ==
    ASSUME NEW n \in Nat, NEW S \in SUBSET (0 .. n), S # {}
    PROVE  \E m \in S : \A x \in S : x <= m
<1> DEFINE R == {k \in 0 .. n : n - k \in S}
<1>1. \A x \in S : n - x \in R
  OBVIOUS
<1>2. R # {}
  <2>1. PICK x \in S : TRUE
    OBVIOUS
  <2>2. n - x \in R
    BY <1>1, <2>1
  <2> HIDE DEF R
  <2> QED
    BY <2>2
<1>3. PICK k \in R : \A y \in R : k <= y
  <2>1. R \in SUBSET Nat
    OBVIOUS
  <2> HIDE DEF R
  <2> QED
    BY <1>2, <2>1, Least
<1>4. n - k \in S /\ \A x \in S : x <= n - k
  BY <1>1, <1>3
<1> QED
  BY <1>4

\* Min and Max are what they are called.
LEMMA MinIs ==
    ASSUME NEW S \in SUBSET Nat, S # {}
    PROVE  Min(S) \in S /\ \A x \in S : Min(S) <= x
<1>1. \E m \in S : \A x \in S : m <= x
  BY Least
<1> QED
  BY <1>1 DEF Min

\* Whatever is in S and below all of S is its minimum.
LEMMA MinOf ==
    ASSUME NEW S \in SUBSET Nat, NEW m \in S, \A x \in S : m <= x
    PROVE  Min(S) = m
<1>1. Min(S) \in S /\ Min(S) <= m
  BY MinIs
<1>2. m <= Min(S) /\ m \in Nat /\ Min(S) \in Nat
  BY <1>1
<1> QED
  BY <1>1, <1>2

\* Whatever is in S and above all of S is its maximum.
LEMMA MaxOf ==
    ASSUME NEW S \in SUBSET Int, NEW m \in S, \A x \in S : x <= m
    PROVE  Max(S) = m
<1>1. \E y \in S : \A x \in S : y >= x
  OBVIOUS
<1>2. Max(S) \in S /\ \A x \in S : Max(S) >= x
  BY <1>1 DEF Max
<1>3. Max(S) <= m /\ Max(S) >= m /\ m \in Int /\ Max(S) \in Int
  BY <1>2
<1> QED
  BY <1>3

\* The minimum of a set that is shifted, and grows only behind.
LEMMA MinShift ==
    ASSUME NEW d \in Nat, NEW A \in SUBSET Nat, NEW B \in SUBSET Nat, A # {},
           \A x \in A : x + d \in B,
           \A y \in B : (\E x \in A : x + d <= y)
    PROVE  B # {} /\ Min(B) = Min(A) + d
<1>1. Min(A) \in A /\ \A x \in A : Min(A) <= x
  BY MinIs
<1>2. Min(A) + d \in B
  BY <1>1
<1>3. ASSUME NEW y \in B PROVE Min(A) + d <= y
  <2>1. PICK x \in A : x + d <= y
    OBVIOUS
  <2>2. Min(A) <= x /\ Min(A) \in Nat /\ x \in Nat /\ y \in Nat
    BY <1>1
  <2> QED
    BY <2>1, <2>2
<1> QED
  BY <1>2, <1>3, MinOf

\* Induction from the last index of a sequence to the first.
LEMMA Descending ==
    ASSUME NEW n \in Nat, NEW S,
           \A i \in 1 .. n : (\A j \in i + 1 .. n : j \in S) => i \in S
    PROVE  \A i \in 1 .. n : i \in S
<1>1. SUFFICES ASSUME NEW i0 \in 1 .. n, i0 \notin S PROVE FALSE
  OBVIOUS
<1> DEFINE B == {i \in 1 .. n : i \notin S}
<1>2. B \in SUBSET (0 .. n) /\ B # {}
  BY <1>1
<1>3. PICK m \in B : \A x \in B : x <= m
  BY <1>2, Greatest
<1>4. \A j \in m + 1 .. n : j \in S
  BY <1>3
<1> QED
  BY <1>3, <1>4

\* And from the first to the last.
LEMMA Ascending ==
    ASSUME NEW n \in Nat, NEW S, 0 \in S,
           \A i \in 0 .. n : i \in S /\ i + 1 <= n => i + 1 \in S
    PROVE  n \in S
<1>1. SUFFICES ASSUME n \notin S PROVE FALSE
  OBVIOUS
<1> DEFINE B == {i \in 0 .. n : i \notin S}
<1>2. PICK m \in B : \A x \in B : m <= x
  <2>1. B \in SUBSET Nat /\ B # {}
    BY <1>1
  <2> QED
    BY <2>1, Least
<1>3. m # 0 /\ m - 1 \in 0 .. n /\ m - 1 \in S
  BY <1>2
<1> QED
  BY <1>2, <1>3

\* H maps functions to functions, and the value of H[g] at an index depends on
\* the values of g behind it.
Descends(n, G, H) ==
    /\ \A g \in G : H[g] \in G
    /\ \A g, h \in G : \A i \in 1 .. n :
           (\A j \in i + 1 .. n : g[j] = h[j]) => H[g][i] = H[h][i]

\* Then there is a function that is defined by itself in this way.
LEMMA Recursion ==
    ASSUME NEW n \in Nat, NEW G, NEW H, NEW f0 \in G, Descends(n, G, H)
    PROVE  \E f \in G : \A i \in 1 .. n : f[i] = H[f][i]
<1> DEFINE S == {k \in 0 .. n : \E f \in G : \A i \in n - k + 1 .. n : i >= 1 => f[i] = H[f][i]}
<1>0. /\ \A g \in G : H[g] \in G
      /\ \A g, h \in G : \A i \in 1 .. n :
             (\A j \in i + 1 .. n : g[j] = h[j]) => H[g][i] = H[h][i]
  BY DEF Descends
<1>1. 0 \in S
  OBVIOUS
<1>2. ASSUME NEW k \in 0 .. n, k \in S, k + 1 <= n PROVE k + 1 \in S
  <2>1. PICK f \in G : \A i \in n - k + 1 .. n : i >= 1 => f[i] = H[f][i]
    BY <1>2
  <2>2. H[f] \in G
    BY <1>0
  <2>3. ASSUME NEW i \in n - (k + 1) + 1 .. n, i >= 1 PROVE H[f][i] = H[H[f]][i]
    <3>1. i \in 1 .. n
      BY <2>3
    <3>2. \A j \in i + 1 .. n : f[j] = H[f][j]
      BY <2>1, <2>3
    <3> QED
      BY <1>0, <2>2, <3>1, <3>2
  <2> QED
    BY <2>2, <2>3, <1>2
<1>3. n \in S
  <2> HIDE DEF S
  <2> QED
    BY <1>1, <1>2, Ascending
<1> QED
  BY <1>3

---------------------------------------------------------------------------
(* The state of a command.                                                 *)

Printable == {"m1", "m2", "x"} \cup Symbols

Guards ==
    [open : BOOLEAN, scan : Seq(Printable), pre : [Streams -> Seq(Printable)],
     tail : [Streams -> Seq(Printable)], early : [Streams -> Nat]]

Results == {"none", "code", "declined", "keychain", "auth", "read", "write", "wait"}

\* What the type invariant leaves out.
OutputTyped ==
    /\ OutputTypeOK
    /\ argv \in Seq(Words)
    /\ script \in [Streams -> Seq(Printable)]
    /\ printed \in [Streams -> Nat] /\ got \in [Streams -> Nat]
    /\ out \in [Streams -> Seq(Printable)]
    /\ guard \in Guards

\* Before a child prints there is nothing.
Unstarted == /\ printed = Zero /\ got = Zero /\ ended = {} /\ out = Silent
             /\ guard = NewGuard /\ result = "none"

Stages ==
    /\ phase \in {"typed", "planned", "starting", "probing"} => Unstarted
    /\ phase \in {"typed", "planned"} => mode = "none" /\ script = Silent
    /\ phase = "starting" => mode \in {"inherit", "pipe"} /\ script = Silent
    /\ phase = "probing" => mode = "native"
    /\ phase = "running" => mode # "none" /\ result \in {"none", "read", "wait"}

MarkAt(t, i) == t[i] = "m1" /\ t[i + 1] = "m2"

\* What a guard g has of the n symbols read of each stream's text c, o of them shown.
Unopened(c, g, o, n) ==
    \A s \in Streams : o[s] = <<>> /\ g.tail[s] = <<>> /\ g.pre[s] = SubSeq(c[s], 1, n[s])

Opened(c, g, o, n) ==
    \A s \in Streams :
        /\ g.pre[s] = <<>> /\ o[s] \o g.tail[s] = SubSeq(c[s], 1, n[s])
        /\ g.early[s] <= n[s]
        /\ n[s] > g.early[s] => g.tail[s] # <<>>
        /\ \A i \in g.early[s] + 1 .. n[s] - 1 : ~MarkAt(c[s], i)

\* While only one stream printed, the scan has followed it.
Alone(c, g, n) ==
    (\E r \in Streams : n[r] = 0) =>
        \A s \in Streams :
            /\ \A i \in 1 .. n[s] - 1 : ~MarkAt(c[s], i)
            /\ n[s] > 0 => g.scan # <<>> /\ g.scan[Len(g.scan)] = c[s][n[s]]

Guarded(c, g, o, n) ==
    /\ IF g.open THEN Opened(c, g, o, n) ELSE Unopened(c, g, o, n)
    /\ Alone(c, g, n)

\* What may be shown.
Withheld(g, o, n) ==
    \A s \in Streams : \A i \in 1 .. Len(o[s]) - 1 :
        MarkAt(o[s], i) => i <= g.early[s] /\ \A r \in Streams : n[r] > 0

Mirrored ==
    /\ script["out"] = <<>> /\ out["out"] = <<>>
    /\ mode = "inherit" => script = Silent /\ out = Silent
    /\ Len(out["err"]) <= got["err"]
    /\ faults = 0 => out["err"] = SubSeq(script["err"], 1, got["err"])

ReadToEnd ==
    \A s \in ended : result = "none" => got[s] = printed[s] /\ process # "running"

OutputInv ==
    /\ OutputTyped /\ Stages
    /\ phase = "running" /\ mode = "native" => Guarded(script, guard, out, got)
    /\ phase = "running" /\ mode # "native" => Mirrored
    /\ phase = "running" => ReadToEnd
    /\ mode = "native" => Withheld(guard, out, got)
    /\ OutputComplete

---------------------------------------------------------------------------
\* A part of a sequence, by its elements.
LEMMA SubSeqIs ==
    ASSUME NEW A, NEW t \in Seq(A), NEW a \in 1 .. Len(t) + 1, NEW b \in a - 1 .. Len(t)
    PROVE  /\ SubSeq(t, a, b) \in Seq(A) /\ Len(SubSeq(t, a, b)) = b - a + 1
           /\ \A i \in 1 .. b - a + 1 : SubSeq(t, a, b)[i] = t[a + i - 1]
OBVIOUS

\* A sequence is cut anywhere.
LEMMA Cut ==
    ASSUME NEW A, NEW t \in Seq(A), NEW a \in 1 .. Len(t) + 1,
           NEW b \in a - 1 .. Len(t), NEW c \in b .. Len(t)
    PROVE  SubSeq(t, a, b) \o SubSeq(t, b + 1, c) = SubSeq(t, a, c)
OBVIOUS

\* What a bounded buffer keeps is an end of what it was given.
LEMMA LastOfIs ==
    ASSUME NEW A, NEW t \in Seq(A), NEW n \in Nat
    PROVE  /\ LastOf(t, n) \in Seq(A)
           /\ Len(LastOf(t, n)) <= n /\ Len(LastOf(t, n)) <= Len(t)
           /\ Len(t) <= n => Len(LastOf(t, n)) = Len(t)
           /\ Len(t) >= n => Len(LastOf(t, n)) = n
           /\ \A i \in 1 .. Len(LastOf(t, n)) :
                LastOf(t, n)[i] = t[Len(t) - Len(LastOf(t, n)) + i]
<1> DEFINE m == Max({1, Len(t) - n + 1})
<1>1. m = IF Len(t) - n + 1 >= 1 THEN Len(t) - n + 1 ELSE 1
  <2>1. CASE Len(t) - n + 1 >= 1
    <3> DEFINE S == {1, Len(t) - n + 1}
               k == Len(t) - n + 1
    <3>1. S \in SUBSET Int /\ k \in S /\ \A x \in S : x <= k
      BY <2>1
    <3>2. Max(S) = k
      <4> HIDE DEF S, k
      <4> QED
        BY <3>1, MaxOf
    <3> QED
      BY <2>1, <3>2
  <2>2. CASE ~ (Len(t) - n + 1 >= 1)
    <3> DEFINE S == {1, Len(t) - n + 1}
    <3>1. S \in SUBSET Int /\ 1 \in S /\ \A x \in S : x <= 1
      BY <2>2
    <3>2. Max(S) = 1
      <4> HIDE DEF S
      <4> QED
        BY <3>1, MaxOf
    <3> QED
      BY <2>2, <3>2
  <2> QED
    BY <2>1, <2>2
<1>2. m \in 1 .. Len(t) + 1
  BY <1>1
<1>3. LastOf(t, n) = SubSeq(t, m, Len(t))
  BY DEF LastOf
<1> HIDE DEF m
<1>4. /\ SubSeq(t, m, Len(t)) \in Seq(A)
      /\ Len(SubSeq(t, m, Len(t))) = Len(t) - m + 1
      /\ \A i \in 1 .. Len(t) - m + 1 : SubSeq(t, m, Len(t))[i] = t[m + i - 1]
  BY <1>2
<1> DEFINE r == LastOf(t, n)
<1>5. r \in Seq(A) /\ Len(r) = Len(t) - m + 1 /\ \A i \in 1 .. Len(r) : r[i] = t[m + i - 1]
  BY <1>3, <1>4
<1>6. m = Len(t) - Len(r) + 1 /\ Len(r) \in Nat
  BY <1>2, <1>5
<1>7. \A i \in 1 .. Len(r) : r[i] = t[Len(t) - Len(r) + i]
  <2>1. ASSUME NEW i \in 1 .. Len(r) PROVE m + i - 1 = Len(t) - Len(r) + i
    BY <1>6
  <2> HIDE DEF r
  <2> QED
    BY <1>5, <2>1
<1>8. /\ Len(r) <= n /\ Len(r) <= Len(t)
      /\ Len(t) <= n => Len(r) = Len(t)
      /\ Len(t) >= n => Len(r) = n
  <2> HIDE DEF r
  <2> QED
    BY <1>1, <1>2, <1>6
<1> QED
  BY Zenon, <1>5, <1>7, <1>8

\* A chunk is the next part of what is in the pipe.
LEMMA ChunkIs ==
    ASSUME OutputTyped, NEW s \in Streams, NEW chunk \in Chunks(s)
    PROVE  /\ chunk \in Seq(Printable) /\ Len(chunk) \in 1 .. MaxChunk
           /\ got[s] + Len(chunk) <= printed[s] /\ printed[s] <= Len(script[s])
           /\ \A i \in 1 .. Len(chunk) : chunk[i] = script[s][got[s] + i]
           /\ SubSeq(script[s], 1, got[s]) \o chunk = SubSeq(script[s], 1, got[s] + Len(chunk))
<1> DEFINE b == Min({MaxChunk, printed[s] - got[s]})
           t == script[s]
           k == got[s]
<1>1. /\ t \in Seq(Printable) /\ k \in Nat /\ printed[s] \in Nat
      /\ k <= printed[s] /\ printed[s] <= Len(t) /\ MaxChunk \in Nat \ {0}
  BY OutputAssumption DEF OutputTyped, OutputTypeOK
<1>2. b \in Nat /\ b <= MaxChunk /\ b <= printed[s] - k
  <2> DEFINE S == {MaxChunk, printed[s] - k}
  <2>1. S \in SUBSET Nat /\ S # {} /\ MaxChunk \in S /\ printed[s] - k \in S
    BY <1>1
  <2>2. Min(S) \in S /\ Min(S) <= MaxChunk /\ Min(S) <= printed[s] - k
    <3> HIDE DEF S
    <3> QED
      BY <2>1, MinIs
  <2> QED
    BY <2>1, <2>2
<1>3. PICK n \in 1 .. b : chunk = SubSeq(t, k + 1, k + n)
  BY DEF Chunks
<1> HIDE DEF b, t, k
<1>4. n \in Nat \ {0} /\ n <= MaxChunk /\ k + n <= printed[s] /\ k + n <= Len(t)
  BY <1>1, <1>2, <1>3
<1>5. chunk \in Seq(Printable) /\ Len(chunk) = n /\ \A i \in 1 .. n : chunk[i] = t[k + i]
  <2>1. k + 1 \in 1 .. Len(t) + 1 /\ k + n \in k + 1 - 1 .. Len(t) /\ k + n - (k + 1) + 1 = n
        /\ \A i \in 1 .. n : k + 1 + i - 1 = k + i
    BY <1>1, <1>4
  <2>2. /\ SubSeq(t, k + 1, k + n) \in Seq(Printable)
        /\ Len(SubSeq(t, k + 1, k + n)) = k + n - (k + 1) + 1
        /\ \A i \in 1 .. k + n - (k + 1) + 1 : SubSeq(t, k + 1, k + n)[i] = t[k + 1 + i - 1]
    BY <1>1, <2>1, SubSeqIs
  <2> QED
    BY <1>3, <2>1, <2>2
<1>6. SubSeq(t, 1, k) \o chunk = SubSeq(t, 1, k + n)
  <2>1. 1 \in 1 .. Len(t) + 1 /\ k \in 1 - 1 .. Len(t) /\ k + n \in k .. Len(t)
    BY <1>1, <1>4
  <2>2. SubSeq(t, 1, k) \o SubSeq(t, k + 1, k + n) = SubSeq(t, 1, k + n)
    BY <1>1, <2>1, Cut
  <2> QED
    BY <1>3, <2>2
<1> QED
  BY <1>1, <1>4, <1>5, <1>6 DEF t, k

Proper(c, g, o, n) ==
    /\ c \in [Streams -> Seq(Printable)] /\ g \in Guards
    /\ o \in [Streams -> Seq(Printable)] /\ n \in [Streams -> Nat]
    /\ \A s \in Streams : n[s] <= Len(c[s])

\* A chunk that comes next.
IsNext(c, n, s, chunk) ==
    /\ chunk \in Seq(Printable) /\ Len(chunk) \in 1 .. MaxChunk
    /\ n[s] + Len(chunk) <= Len(c[s])
    /\ \A i \in 1 .. Len(chunk) : chunk[i] = c[s][n[s] + i]

Advanced(n, s, chunk) == [n EXCEPT ![s] = @ + Len(chunk)]

\* While one stream prints, a marker cannot get past the scan.
LEMMA AloneScanned ==
    ASSUME NEW c, NEW g, NEW o, NEW n, Proper(c, g, o, n), Alone(c, g, n),
           NEW s \in Streams, NEW chunk, IsNext(c, n, s, chunk),
           NEW h, h.scan = LastOf(g.scan \o chunk, MaxScan), ~ Marked(h.scan)
    PROVE  Alone(c, h, Advanced(n, s, chunk))
<1> DEFINE m == Advanced(n, s, chunk)
           x == h.scan
           L == Len(chunk)
           y == g.scan \o chunk
           k == n[s]
<1>1. /\ chunk \in Seq(Printable) /\ g.scan \in Seq(Printable) /\ L \in Nat \ {0} /\ L + 1 <= MaxScan
      /\ MaxScan \in Nat /\ k \in Nat /\ n \in [Streams -> Nat]
  BY OutputAssumption DEF Proper, Guards, IsNext
<1>2. y \in Seq(Printable) /\ Len(y) = Len(g.scan) + L /\ Len(g.scan) \in Nat
      /\ (\A i \in 1 .. L : y[Len(g.scan) + i] = chunk[i])
      /\ (\A i \in 1 .. Len(g.scan) : y[i] = g.scan[i])
  BY <1>1
<1>3. /\ x \in Seq(Printable) /\ Len(x) <= Len(y) /\ Len(x) \in Nat
      /\ Len(y) <= MaxScan => Len(x) = Len(y)
      /\ Len(y) >= MaxScan => Len(x) = MaxScan
      /\ \A i \in 1 .. Len(x) : x[i] = y[Len(y) - Len(x) + i]
  <2> HIDE DEF y
  <2>1. MaxScan \in Nat /\ y \in Seq(Printable) /\ x = LastOf(y, MaxScan)
    BY <1>1, <1>2 DEF y
  <2>2. LastOf(y, MaxScan) \in Seq(Printable)
    BY <2>1, LastOfIs
  <2>3. Len(x) \in Nat
    BY <2>1, <2>2
  <2> HIDE DEF x
  <2> QED
    BY <2>1, <2>2, <2>3, LastOfIs
<1>4. \A i \in 1 .. L : chunk[i] = c[s][k + i]
  BY DEF IsNext
<1>5. m \in [Streams -> Nat] /\ m[s] = k + L /\ \A q \in Streams \ {s} : m[q] = n[q]
  BY <1>1 DEF Advanced
<1>6. \A i \in 1 .. Len(x) - 1 : ~ (x[i] = "m1" /\ x[i + 1] = "m2")
  BY DEF Marked
<1> SUFFICES ASSUME NEW r \in Streams, m[r] = 0
             PROVE  \A q \in Streams :
                        /\ \A i \in 1 .. m[q] - 1 : ~ MarkAt(c[q], i)
                        /\ m[q] > 0 => x # <<>> /\ x[Len(x)] = c[q][m[q]]
  BY Zenon DEF Alone
<1>7. r # s /\ n[r] = 0
  <2> HIDE DEF m, L, k
  <2> QED
    BY <1>1, <1>5
<1>8. /\ \A i \in 1 .. k - 1 : ~ MarkAt(c[s], i)
      /\ k > 0 => g.scan # <<>> /\ g.scan[Len(g.scan)] = c[s][k]
  BY Zenon, <1>7 DEF Alone
<1>9. \A q \in Streams : q = s \/ q = r
  BY <1>7 DEF Streams
<1>10. Len(x) >= L /\ Len(x) >= 1 /\ (k > 0 => Len(x) >= L + 1)
  <2>1. k > 0 => Len(g.scan) >= 1
    BY <1>1, <1>8
  <2> HIDE DEF x, y, L, k
  <2> QED
    BY <1>1, <1>2, <1>3, <2>1
<1>11. \A i \in 1 .. L : x[Len(x) - L + i] = c[s][k + i]
  <2> HIDE DEF x, y, L, k
  <2> TAKE i \in 1 .. L
  <2>1. Len(x) - L + i \in 1 .. Len(x)
    BY <1>1, <1>10, <1>3
  <2>2. Len(y) - Len(x) + (Len(x) - L + i) = Len(g.scan) + i
    <3> DEFINE a == Len(g.scan)
               d == Len(x)
               e == Len(y)
    <3>1. e = a + L /\ a \in Int /\ L \in Int /\ d \in Int /\ i \in Int
      BY <1>1, <1>2, <1>3
    <3> HIDE DEF a, d, e
    <3>2. e - d + (d - L + i) = a + i
      BY <3>1
    <3> QED
      BY Zenon, <3>2 DEF a, d, e
  <2>3. x[Len(x) - L + i] = y[Len(g.scan) + i]
    BY <1>3, <2>1, <2>2
  <2>4. i \in 1 .. L
    OBVIOUS
  <2> QED
    BY Zenon, <2>3, <2>4, <1>2, <1>4
<1>12. k > 0 => x[Len(x) - L] = c[s][k]
  <2> HIDE DEF x, y, L, k
  <2> SUFFICES ASSUME k > 0 PROVE x[Len(x) - L] = c[s][k]
    OBVIOUS
  <2>1. Len(x) - L \in 1 .. Len(x)
    BY <1>1, <1>10, <1>3
  <2>2. Len(y) - Len(x) + (Len(x) - L) = Len(g.scan)
    BY <1>1, <1>2, <1>3
  <2>3. x[Len(x) - L] = y[Len(g.scan)]
    BY <1>3, <2>1, <2>2
  <2>4. Len(g.scan) \in 1 .. Len(g.scan)
    BY <1>8, <1>1
  <2> QED
    BY Zenon, <2>3, <2>4, <1>2, <1>8
<1>13. ASSUME NEW i \in 1 .. m[s] - 1 PROVE ~ MarkAt(c[s], i)
  <2> HIDE DEF x, y, L, k, m
  <2>1. CASE i <= k - 1
    BY <2>1, <1>8, <1>1
  <2>2. CASE i = k
    <3>1. x[Len(x) - L] = c[s][i] /\ x[Len(x) - L + 1] = c[s][i + 1]
      BY <2>2, <1>1, <1>11, <1>12
    <3>2. Len(x) - L \in 1 .. Len(x) - 1
      BY <2>2, <1>10, <1>1, <1>3
    <3> QED
      BY <3>1, <3>2, <1>6 DEF MarkAt
  <2>3. CASE i > k
    <3>1. i - k \in 1 .. L /\ i + 1 - k \in 1 .. L
          /\ k + (i - k) = i /\ k + (i + 1 - k) = i + 1
          /\ Len(x) - L + (i + 1 - k) = Len(x) - L + (i - k) + 1
      BY <1>1, <1>5, <2>3, <1>3
    <3>2. x[Len(x) - L + (i - k)] = c[s][k + (i - k)]
          /\ x[Len(x) - L + (i + 1 - k)] = c[s][k + (i + 1 - k)]
      BY Zenon, <3>1, <1>11
    <3>3. x[Len(x) - L + (i - k)] = c[s][i] /\ x[Len(x) - L + (i - k) + 1] = c[s][i + 1]
      BY Zenon, <3>1, <3>2
    <3>4. Len(x) - L + (i - k) \in 1 .. Len(x) - 1
      BY <3>1, <1>1, <1>3, <1>10
    <3> QED
      BY <3>3, <3>4, <1>6 DEF MarkAt
  <2> QED
    BY <2>1, <2>2, <2>3, <1>1
<1>14. x # <<>> /\ x[Len(x)] = c[s][m[s]]
  <2> HIDE DEF x, y, L, k, m
  <2>1. Len(x) - L + L = Len(x) /\ L \in 1 .. L
    BY <1>1, <1>3
  <2>2. x[Len(x) - L + L] = c[s][k + L]
    BY Zenon, <2>1, <1>11
  <2>3. x # <<>>
    BY <1>10
  <2> QED
    BY Zenon, <2>1, <2>2, <2>3, <1>5
<1>15. m[r] = 0 /\ (\A i \in 1 .. m[r] - 1 : FALSE) /\ ~ (m[r] > 0)
  BY <1>5
<1> HIDE DEF x, y, L, k, m
<1> QED
  BY Zenon, <1>9, <1>13, <1>14, <1>15

\* What is shown comes first, and each marker in it came before the guard opened.
LEMMA ShownWithheld ==
    ASSUME NEW c, NEW g, NEW o, NEW n, Proper(c, g, o, n), Alone(c, g, n), NEW h,
           \A s \in Streams :
               /\ Len(o[s]) <= n[s] /\ \A i \in 1 .. Len(o[s]) : o[s][i] = c[s][i]
               /\ \A i \in 1 .. Len(o[s]) - 1 : MarkAt(c[s], i) => i <= h.early[s]
    PROVE  Withheld(h, o, n)
<1> SUFFICES ASSUME NEW s \in Streams, NEW i \in 1 .. Len(o[s]) - 1, MarkAt(o[s], i)
             PROVE  i <= h.early[s] /\ \A r \in Streams : n[r] > 0
  BY DEF Withheld
<1>1. /\ Len(o[s]) \in Nat /\ n \in [Streams -> Nat] /\ Len(o[s]) <= n[s]
      /\ \A j \in 1 .. Len(o[s]) : o[s][j] = c[s][j]
      /\ \A j \in 1 .. Len(o[s]) - 1 : MarkAt(c[s], j) => j <= h.early[s]
  BY DEF Proper
<1>2. i \in 1 .. Len(o[s]) /\ i + 1 \in 1 .. Len(o[s]) /\ i \in 1 .. n[s] - 1
  <2> DEFINE l == Len(o[s])
             k == n[s]
  <2>1. l \in Nat /\ k \in Nat /\ l <= k /\ i \in 1 .. l - 1
    BY <1>1
  <2> HIDE DEF l, k
  <2>2. i \in 1 .. l /\ i + 1 \in 1 .. l /\ i \in 1 .. k - 1
    BY <2>1
  <2> QED
    BY <2>2 DEF l, k
<1>3. o[s][i] = c[s][i] /\ o[s][i + 1] = c[s][i + 1]
  BY Zenon, <1>1, <1>2
<1>4. MarkAt(c[s], i)
  BY Zenon, <1>3 DEF MarkAt
<1>5. i <= h.early[s]
  BY Zenon, <1>1, <1>4
<1>6. \A r \in Streams : n[r] # 0
  <2> SUFFICES ASSUME NEW r \in Streams, n[r] = 0 PROVE FALSE
    OBVIOUS
  <2> QED
    BY Zenon, <1>2, <1>4 DEF Alone
<1> QED
  BY <1>1, <1>5, <1>6

\* What a guard keeps shows that.
LEMMA GuardedWithheld ==
    ASSUME NEW c, NEW g, NEW o, NEW n, Proper(c, g, o, n), Guarded(c, g, o, n)
    PROVE  Withheld(g, o, n)
<1>1. Alone(c, g, n) /\ g.open \in BOOLEAN
  BY DEF Guarded, Proper, Guards
<1>2. CASE ~ g.open
  <2>1. \A s \in Streams : Len(o[s]) = 0
    BY <1>2 DEF Guarded, Unopened
  <2> QED
    BY <2>1 DEF Withheld
<1>3. CASE g.open
  <2>1. Opened(c, g, o, n)
    BY <1>3 DEF Guarded
  <2>2. ASSUME NEW s \in Streams
        PROVE  /\ Len(o[s]) <= n[s] /\ \A i \in 1 .. Len(o[s]) : o[s][i] = c[s][i]
               /\ \A i \in 1 .. Len(o[s]) - 1 : MarkAt(c[s], i) => i <= g.early[s]
    <3> DEFINE p == o[s]
               q == g.tail[s]
               t == c[s]
               k == n[s]
               e == g.early[s]
    <3>1. /\ p \in Seq(Printable) /\ q \in Seq(Printable) /\ t \in Seq(Printable)
          /\ k \in Nat /\ k <= Len(t) /\ e \in Nat
      BY DEF Proper, Guards
    <3>2. p \o q = SubSeq(t, 1, k) /\ \A i \in e + 1 .. k - 1 : ~ MarkAt(t, i)
      BY <2>1 DEF Opened
    <3> HIDE DEF p, q, t, k, e
    <3>3. Len(p \o q) = Len(p) + Len(q) /\ Len(p) \in Nat /\ Len(q) \in Nat
          /\ \A i \in 1 .. Len(p) : (p \o q)[i] = p[i]
      BY <3>1
    <3>4. Len(SubSeq(t, 1, k)) = k /\ \A i \in 1 .. k : SubSeq(t, 1, k)[i] = t[i]
      BY <3>1
    <3>5. Len(p) <= k
      BY <3>1, <3>2, <3>3, <3>4
    <3>6. ASSUME NEW i \in 1 .. Len(p) PROVE p[i] = t[i]
      <4>1. i \in 1 .. k
        BY <3>1, <3>3, <3>5
      <4> QED
        BY Zenon, <4>1, <3>2, <3>3, <3>4
    <3>7. ASSUME NEW i \in 1 .. Len(p) - 1, MarkAt(t, i) PROVE i <= e
      BY <3>1, <3>2, <3>3, <3>5, <3>7
    <3> QED
      BY Zenon, <3>5, <3>6, <3>7 DEF p, t, k, e
  <2> QED
    BY <1>1, <2>2, ShownWithheld
<1> QED
  BY <1>1, <1>2, <1>3

FlushedOut(g, o, written) ==
    [s \in Streams |-> IF s \in written THEN o[s] \o g.pre[s] \o g.tail[s] ELSE o[s]]
FlushedGuard(g) ==
    [g EXCEPT !.open = TRUE, !.pre = Silent, !.tail = Silent,
              !.early = IF g.open THEN @ ELSE [s \in Streams |-> Len(g.pre[s])]]

\* What one stream has after a flush.
LEMMA FlushedStream ==
    ASSUME NEW c, NEW g, NEW o, NEW n, Proper(c, g, o, n), Guarded(c, g, o, n),
           NEW written \in SUBSET Streams, NEW s \in Streams
    PROVE  /\ FlushedOut(g, o, written)[s] \in Seq(Printable)
           /\ s \in written => FlushedOut(g, o, written)[s] = SubSeq(c[s], 1, n[s])
           /\ Len(FlushedOut(g, o, written)[s]) <= n[s]
           /\ \A i \in 1 .. Len(FlushedOut(g, o, written)[s]) : FlushedOut(g, o, written)[s][i] = c[s][i]
           /\ FlushedGuard(g).early[s] \in Nat /\ FlushedGuard(g).early[s] <= n[s]
           /\ \A i \in FlushedGuard(g).early[s] + 1 .. n[s] - 1 : ~ MarkAt(c[s], i)
<1> DEFINE p == o[s]
           u == g.pre[s]
           q == g.tail[s]
           t == c[s]
           k == n[s]
           e == FlushedGuard(g).early[s]
           f == FlushedOut(g, o, written)[s]
           r == SubSeq(t, 1, k)
<1>1. /\ p \in Seq(Printable) /\ q \in Seq(Printable) /\ u \in Seq(Printable)
      /\ t \in Seq(Printable) /\ k \in Nat /\ k <= Len(t) /\ g.open \in BOOLEAN
      /\ g.early[s] \in Nat /\ g \in Guards
  BY DEF Proper, Guards
<1>2. f = IF s \in written THEN p \o u \o q ELSE p
  BY DEF FlushedOut
<1>3. e = IF g.open THEN g.early[s] ELSE Len(u)
  BY <1>1 DEF FlushedGuard, Guards
<1>4. r \in Seq(Printable) /\ Len(r) = k /\ \A i \in 1 .. k : r[i] = t[i]
  <2> HIDE DEF t, k
  <2> QED
    BY <1>1
<1>5. /\ p \o u \o q = r
      /\ e \in Nat /\ e <= k /\ \A i \in e + 1 .. k - 1 : ~ MarkAt(t, i)
  <2>1. CASE g.open
    <3>1. /\ u = <<>> /\ p \o q = r /\ g.early[s] <= k
          /\ \A i \in g.early[s] + 1 .. k - 1 : ~ MarkAt(t, i)
      BY <2>1 DEF Guarded, Opened
    <3> HIDE DEF p, u, q, t, k, e, f, r
    <3>2. p \o <<>> = p
      BY <1>1
    <3> QED
      BY Zenon, <1>1, <1>3, <3>1, <3>2, <2>1
  <2>2. CASE ~ g.open
    <3>1. p = <<>> /\ q = <<>> /\ u = r
      BY <2>2 DEF Guarded, Unopened
    <3> HIDE DEF p, u, q, t, k, e, f, r
    <3>2. <<>> \o u \o <<>> = u
      BY <1>1
    <3>3. e = k /\ (\A i \in k + 1 .. k - 1 : FALSE) /\ k <= k
      BY <1>1, <1>3, <1>4, <3>1, <2>2
    <3> QED
      BY Zenon, <1>1, <3>1, <3>2, <3>3
  <2> QED
    BY <1>1, <2>1, <2>2
<1> HIDE DEF p, u, q, t, k, e, f, r
<1>6. /\ Len(p) \in Nat /\ Len(p) <= k /\ \A i \in 1 .. Len(p) : p[i] = t[i]
  <2>1. p \o u \o q \in Seq(Printable) /\ Len(p \o u \o q) = Len(p) + Len(u) + Len(q)
        /\ Len(p) \in Nat /\ Len(u) \in Nat /\ Len(q) \in Nat
        /\ \A i \in 1 .. Len(p) : (p \o u \o q)[i] = p[i]
    BY <1>1
  <2>2. Len(p) + Len(u) + Len(q) = k
    BY Zenon, <1>4, <1>5, <2>1
  <2>3. Len(p) <= k
    BY <1>1, <2>1, <2>2
  <2>4. ASSUME NEW i \in 1 .. Len(p) PROVE p[i] = t[i]
    <3>1. i \in 1 .. k
      BY <1>1, <2>1, <2>3
    <3> QED
      BY Zenon, <3>1, <1>4, <1>5, <2>1
  <2> QED
    BY <2>1, <2>3, <2>4
<1>7. /\ f \in Seq(Printable) /\ Len(f) <= k /\ \A i \in 1 .. Len(f) : f[i] = t[i]
      /\ s \in written => f = r
  <2>1. CASE s \in written
    <3>1. f = r
      BY Zenon, <2>1, <1>2, <1>5
    <3> QED
      BY <3>1, <1>4, <1>1
  <2>2. CASE s \notin written
    BY Zenon, <2>2, <1>1, <1>2, <1>6
  <2> QED
    BY Zenon, <2>1, <2>2
<1> QED
  BY Zenon, <1>5, <1>7 DEF f, e, k, t, r

\* When both streams are flushed, each shows its preamble and its tail.
LEMMA AllFlushed ==
    ASSUME NEW c, NEW g, NEW o, NEW n, Proper(c, g, o, n), Guarded(c, g, o, n), NEW s \in Streams
    PROVE  FlushedOut(g, o, Streams)[s] = SubSeq(c[s], 1, n[s])
BY FlushedStream

\* A flush shows what was held and nothing it should not.
LEMMA FlushSound ==
    ASSUME NEW c, NEW g, NEW o, NEW n, Proper(c, g, o, n), Guarded(c, g, o, n),
           NEW written \in SUBSET Streams
    PROVE  /\ Proper(c, FlushedGuard(g), FlushedOut(g, o, written), n)
           /\ Withheld(FlushedGuard(g), FlushedOut(g, o, written), n)
           /\ written = Streams /\ ~ g.open => Guarded(c, FlushedGuard(g), FlushedOut(g, o, written), n)
<1> DEFINE h == FlushedGuard(g)
           f == FlushedOut(g, o, written)
<1>0. \A s \in Streams :
           /\ f[s] \in Seq(Printable)
           /\ s \in written => f[s] = SubSeq(c[s], 1, n[s])
           /\ Len(f[s]) <= n[s]
           /\ \A i \in 1 .. Len(f[s]) : f[s][i] = c[s][i]
           /\ h.early[s] \in Nat /\ h.early[s] <= n[s]
           /\ \A i \in h.early[s] + 1 .. n[s] - 1 : ~ MarkAt(c[s], i)
  BY Zenon, FlushedStream
<1>1. f \in [Streams -> Seq(Printable)] /\ h \in Guards
  <2>1. f = [s \in Streams |-> f[s]]
    BY DEF FlushedOut
  <2>2. h = [g EXCEPT !.open = TRUE, !.pre = Silent, !.tail = Silent, !.early = h.early]
    BY DEF FlushedGuard, Proper, Guards
  <2>3. h.early \in [Streams -> Nat]
    BY DEF FlushedGuard, Proper, Guards
  <2>4. Silent \in [Streams -> Seq(Printable)] /\ g \in Guards
    BY DEF Silent, Proper
  <2> HIDE DEF f, h
  <2>5. f \in [Streams -> Seq(Printable)]
    BY Zenon, <1>0, <2>1
  <2>6. h \in Guards
    BY <2>2, <2>3, <2>4 DEF Guards
  <2> QED
    BY <2>5, <2>6
<1>2. Proper(c, h, f, n)
  BY Zenon, <1>1 DEF Proper
<1>3. h.open /\ h.pre = Silent /\ h.tail = Silent /\ h.scan = g.scan
  BY DEF FlushedGuard, Proper, Guards
<1>4. Alone(c, g, n)
  BY DEF Guarded
<1>5. Withheld(h, f, n)
  <2>1. ASSUME NEW s \in Streams, NEW i \in 1 .. Len(f[s]) - 1, MarkAt(c[s], i)
        PROVE  i <= h.early[s]
    <3>1. Len(f[s]) <= n[s] /\ h.early[s] \in Nat /\ Len(f[s]) \in Nat /\ n[s] \in Nat
      BY <1>0, <1>1 DEF Proper
    <3>2. \A j \in h.early[s] + 1 .. n[s] - 1 : ~ MarkAt(c[s], j)
      BY Zenon, <1>0
    <3> HIDE DEF h, f
    <3>3. SUFFICES ASSUME ~ (i <= h.early[s]) PROVE FALSE
      OBVIOUS
    <3>4. i \in h.early[s] + 1 .. n[s] - 1
      BY <3>1, <3>3
    <3> QED
      BY Zenon, <2>1, <3>2, <3>4
  <2> HIDE DEF h, f
  <2>2. \A s \in Streams :
               /\ Len(f[s]) <= n[s] /\ \A i \in 1 .. Len(f[s]) : f[s][i] = c[s][i]
               /\ \A i \in 1 .. Len(f[s]) - 1 : MarkAt(c[s], i) => i <= h.early[s]
    BY Zenon, <1>0, <2>1
  <2>3. Proper(c, g, f, n)
    BY Zenon, <1>1 DEF Proper
  <2> QED
    BY <2>2, <2>3, <1>4, ShownWithheld
<1>6. ASSUME written = Streams, ~ g.open PROVE Guarded(c, h, f, n)
  <2>1. Alone(c, h, n)
    BY Zenon, <1>3, <1>4 DEF Alone
  <2>2. ASSUME NEW s \in Streams
        PROVE  /\ h.pre[s] = <<>> /\ f[s] \o h.tail[s] = SubSeq(c[s], 1, n[s])
               /\ n[s] > h.early[s] => h.tail[s] # <<>>
    <3>1. h.pre[s] = <<>> /\ h.tail[s] = <<>>
      BY <1>3 DEF Silent
    <3>2. f[s] = SubSeq(c[s], 1, n[s]) /\ f[s] \in Seq(Printable)
      BY Zenon, <1>0, <1>6
    <3>3. f[s] \o <<>> = f[s]
      <4> HIDE DEF f
      <4> QED
        BY <3>2
    <3>4. ~ (n[s] > h.early[s])
      <4> DEFINE k == n[s]
                 t == c[s]
      <4>1. h.early[s] = Len(g.pre[s]) /\ g.pre[s] = SubSeq(t, 1, k)
        BY <1>6 DEF FlushedGuard, Proper, Guards, Guarded, Unopened
      <4>2. k \in Nat /\ k <= Len(t) /\ t \in Seq(Printable)
        BY DEF Proper
      <4> HIDE DEF k, t, h, f
      <4>3. Len(SubSeq(t, 1, k)) = k
        BY <4>2
      <4>4. h.early[s] = k
        BY Zenon, <4>1, <4>3
      <4> QED
        BY <4>2, <4>4 DEF k
    <3> QED
      BY Zenon, <3>1, <3>2, <3>3, <3>4
  <2> QED
    BY Zenon, <1>0, <1>3, <2>1, <2>2 DEF Guarded, Opened
<1> QED
  BY Zenon, <1>2, <1>5, <1>6

\* Sequences put together.
Join(a, b) ==
    /\ Len(a \o b) = Len(a) + Len(b)
    /\ Len(a) \in Nat /\ Len(b) \in Nat /\ Len(a \o b) \in Nat
    /\ \A i \in 1 .. Len(a) : (a \o b)[i] = a[i]
    /\ \A i \in 1 .. Len(b) : (a \o b)[Len(a) + i] = b[i]

\* Two sequences put together, by their elements.
LEMMA Joined ==
    ASSUME NEW A, NEW a \in Seq(A), NEW b \in Seq(A)
    PROVE  a \o b \in Seq(A) /\ Join(a, b)
BY DEF Join

JoinThrice(a, b, c) == (a \o b) \o c = a \o (b \o c)

\* It does not matter in which order three are put together.
LEMMA JoinedThrice ==
    ASSUME NEW A, NEW a \in Seq(A), NEW b \in Seq(A), NEW c \in Seq(A)
    PROVE  JoinThrice(a, b, c)
BY DEF JoinThrice

\* What is kept of a sequence that is at least as long as the buffer.
LEMMA LastJoined ==
    ASSUME NEW A, NEW a \in Seq(A), NEW b \in Seq(A), b # <<>>
    PROVE  Len(a \o b) # 0 /\ (a \o b)[Len(a \o b)] = b[Len(b)]
<1>1. Len(b) \in Nat \ {0} /\ Len(a) \in Nat
  OBVIOUS
<1>2. Len(b) \in 1 .. Len(b) /\ Len(a) + Len(b) # 0
  BY <1>1
<1>3. Join(a, b)
  BY Zenon, Joined
<1>4. (a \o b)[Len(a) + Len(b)] = b[Len(b)]
  BY Zenon, <1>2, <1>3 DEF Join
<1> QED
  BY Zenon, <1>2, <1>3, <1>4 DEF Join

\* The last part of a sequence and what is before it.
CutAt(A, t, f, r) == f \in Seq(A) /\ r \in Seq(A) /\ r # <<>> /\ f \o r = t

\* A sequence is what is not kept, followed by what is.
LEMMA LastOfCuts ==
    ASSUME NEW A, NEW t \in Seq(A), NEW n \in Nat \ {0}, t # <<>>
    PROVE  CutAt(A, t, SubSeq(t, 1, Len(t) - Len(LastOf(t, n))), LastOf(t, n))
<1> DEFINE r == LastOf(t, n)
           d == Len(t) - Len(r)
           f == SubSeq(t, 1, d)
<1>1. /\ r \in Seq(A) /\ Len(r) \in Nat /\ Len(r) <= Len(t)
      /\ Len(t) <= n => Len(r) = Len(t)
      /\ Len(t) >= n => Len(r) = n
      /\ \A i \in 1 .. Len(r) : r[i] = t[Len(t) - Len(r) + i]
  <2>1. r \in Seq(A)
    BY LastOfIs
  <2>2. Len(r) \in Nat
    BY <2>1
  <2> HIDE DEF r
  <2> QED
    BY <2>1, <2>2, LastOfIs DEF r
<1> HIDE DEF r
<1>2. Len(t) \in Nat \ {0}
  OBVIOUS
<1>3. d \in 0 .. Len(t) /\ Len(t) = d + Len(r) /\ Len(r) # 0
  BY <1>1, <1>2
<1>4. \A i \in 1 .. Len(r) : r[i] = t[d + i]
  BY <1>1
<1> HIDE DEF d
<1>5. f \in Seq(A) /\ Len(f) = d /\ \A i \in 1 .. d : f[i] = t[i]
  BY <1>3
<1> HIDE DEF f
<1>6. /\ f \o r \in Seq(A) /\ Len(f \o r) = Len(t)
      /\ \A i \in 1 .. d : (f \o r)[i] = t[i]
      /\ \A i \in 1 .. Len(r) : (f \o r)[d + i] = t[d + i]
  <2>1. f \o r \in Seq(A) /\ Join(f, r)
    BY Zenon, <1>1, <1>5, Joined
  <2> QED
    BY Zenon, <1>3, <1>4, <1>5, <2>1 DEF Join
<1>7. ASSUME NEW i \in 1 .. Len(t) PROVE (f \o r)[i] = t[i]
  <2>1. CASE i <= d
    <3>1. i \in 1 .. d
      BY <2>1, <1>3
    <3> QED
      BY Zenon, <3>1, <1>6
  <2>2. CASE i > d
    <3>1. i - d \in 1 .. Len(r) /\ d + (i - d) = i
      BY <2>2, <1>1, <1>3
    <3> QED
      BY Zenon, <3>1, <1>6
  <2> QED
    <3>1. i <= d \/ i > d
      BY <1>3
    <3> QED
      BY Zenon, <3>1, <2>1, <2>2
<1>8. f \o r = t
  <2> DEFINE y == f \o r
  <2>1. y \in Seq(A) /\ Len(y) = Len(t) /\ \A i \in 1 .. Len(t) : y[i] = t[i]
    BY Zenon, <1>6, <1>7
  <2> HIDE DEF y
  <2>2. y = t
    BY <2>1
  <2> QED
    BY <2>2 DEF y
<1>10. r # <<>>
  BY <1>1, <1>3
<1> QED
  BY Zenon, <1>1, <1>5, <1>8, <1>10 DEF CutAt, f, d, r

\* A stream of which k symbols are read and u is the last of them that was not
\* shown, its marks from e on excluded: no marker from e on in the next l either.
LEMMA NoMarkSince ==
    ASSUME NEW b, NEW k \in Nat, NEW e \in Nat, NEW l \in Nat, NEW w \in Nat, NEW t,
           \A j \in 1 .. l : t[w + j] = b[k + j],
           k > e => w # 0 /\ t[w] = b[k],
           \A j \in e + 1 .. k - 1 : ~ MarkAt(b, j),
           \A j \in 1 .. (w + l) - 1 : ~ MarkAt(t, j)
    PROVE  \A i \in e + 1 .. (k + l) - 1 : ~ MarkAt(b, i)
<1> SUFFICES ASSUME NEW i \in e + 1 .. (k + l) - 1 PROVE ~ MarkAt(b, i)
  OBVIOUS
<1>1. CASE i <= k - 1
  <2>1. i \in e + 1 .. k - 1
    BY <1>1
  <2> QED
    BY Zenon, <2>1
<1>2. CASE i = k
  <2>1. k > e /\ 1 \in 1 .. l
    BY <1>2
  <2>2. w \in 1 .. (w + l) - 1
    BY <2>1
  <2>3. t[w] = b[k] /\ t[w + 1] = b[k + 1]
    BY Zenon, <2>1
  <2> QED
    BY Zenon, <1>2, <2>2, <2>3 DEF MarkAt
<1>3. CASE i > k
  <2>1. i - k \in 1 .. l /\ i - k + 1 \in 1 .. l /\ k + (i - k) = i /\ k + (i - k + 1) = i + 1
        /\ w + (i - k) \in 1 .. (w + l) - 1 /\ w + (i - k + 1) = w + (i - k) + 1
    BY <1>3
  <2>2. t[w + (i - k)] = b[i] /\ t[w + (i - k) + 1] = b[i + 1]
    BY <2>1
  <2> QED
    BY Zenon, <2>1, <2>2 DEF MarkAt
<1> QED
  BY <1>1, <1>2, <1>3

ReadsOn(c, n, m, s, chunk) ==
    /\ m \in [Streams -> Nat] /\ m[s] = n[s] + Len(chunk)
    /\ \A r \in Streams \ {s} : m[r] = n[r]
    /\ \A r \in Streams : n[r] <= m[r] /\ m[r] <= Len(c[r])
    /\ SubSeq(c[s], 1, n[s]) \o chunk = SubSeq(c[s], 1, n[s] + Len(chunk))

\* Reading a chunk.
LEMMA NextRead ==
    ASSUME NEW c, NEW g, NEW o, NEW n, Proper(c, g, o, n),
           NEW s \in Streams, NEW chunk, IsNext(c, n, s, chunk)
    PROVE  ReadsOn(c, n, Advanced(n, s, chunk), s, chunk)
<1> DEFINE t == c[s]
           k == n[s]
           L == Len(chunk)
<1>1. /\ t \in Seq(Printable) /\ k \in Nat /\ L \in Nat \ {0} /\ k + L <= Len(t)
      /\ chunk \in Seq(Printable) /\ \A i \in 1 .. L : chunk[i] = t[k + i]
      /\ n \in [Streams -> Nat] /\ \A r \in Streams : n[r] <= Len(c[r])
  BY OutputAssumption DEF Proper, IsNext
<1>2. /\ Advanced(n, s, chunk) \in [Streams -> Nat]
      /\ Advanced(n, s, chunk)[s] = k + L
      /\ \A r \in Streams \ {s} : Advanced(n, s, chunk)[r] = n[r]
  BY <1>1 DEF Advanced
<1>3. chunk = SubSeq(t, k + 1, k + L)
  <2> HIDE DEF t, k
  <2>1. /\ SubSeq(t, k + 1, k + L) \in Seq(Printable) /\ Len(SubSeq(t, k + 1, k + L)) = L
        /\ \A i \in 1 .. L : SubSeq(t, k + 1, k + L)[i] = t[k + i]
    BY <1>1
  <2> QED
    BY <1>1, <2>1
<1>4. SubSeq(t, 1, k) \o chunk = SubSeq(t, 1, k + L)
  <2>1. 1 \in 1 .. Len(t) + 1 /\ k \in 1 - 1 .. Len(t) /\ k + L \in k .. Len(t)
    BY <1>1
  <2>2. SubSeq(t, 1, k) \o SubSeq(t, k + 1, k + L) = SubSeq(t, 1, k + L)
    BY <1>1, <2>1, Cut
  <2> QED
    BY <1>3, <2>2
<1>5. ASSUME NEW r \in Streams
      PROVE  n[r] <= Advanced(n, s, chunk)[r] /\ Advanced(n, s, chunk)[r] <= Len(c[r])
  <2>1. CASE r = s
    BY <2>1, <1>1, <1>2
  <2>2. CASE r # s
    BY <2>2, <1>1, <1>2
  <2> QED
    BY <2>1, <2>2
<1> QED
  BY Zenon, <1>2, <1>4, <1>5 DEF ReadsOn

\* A chunk held by a guard that is not open.
Holding(g, s, chunk, h) ==
    /\ h \in Guards /\ ~ h.open /\ h.tail = g.tail
    /\ h.scan = LastOf(g.scan \o chunk, MaxScan)
    /\ h.pre = [g.pre EXCEPT ![s] = @ \o chunk]
    /\ ~ Marked(h.scan)

\* A guard that has not opened and takes a chunk in holds all that was read, and no marker.
LEMMA HoldSound ==
    ASSUME NEW c, NEW g, NEW o, NEW n, Proper(c, g, o, n), Guarded(c, g, o, n), ~ g.open,
           NEW s \in Streams, NEW chunk, IsNext(c, n, s, chunk), NEW h, Holding(g, s, chunk, h)
    PROVE  /\ Proper(c, h, o, Advanced(n, s, chunk))
           /\ Guarded(c, h, o, Advanced(n, s, chunk))
<1> DEFINE m == Advanced(n, s, chunk)
<1>1. ReadsOn(c, n, m, s, chunk)
  BY Zenon, NextRead
<1>2. Proper(c, h, o, m)
  BY Zenon, <1>1 DEF Proper, ReadsOn, Holding
<1>3. Alone(c, h, m)
  <2>1. Alone(c, g, n)
    BY Zenon DEF Guarded
  <2>2. h.scan = LastOf(g.scan \o chunk, MaxScan) /\ ~ Marked(h.scan)
    BY Zenon DEF Holding
  <2> QED
    BY Zenon, <2>1, <2>2, AloneScanned
<1>4. h.pre[s] = g.pre[s] \o chunk /\ \A r \in Streams \ {s} : h.pre[r] = g.pre[r]
  <2>1. g.pre \in [Streams -> Seq(Printable)]
    BY DEF Proper, Guards
  <2>2. h.pre = [g.pre EXCEPT ![s] = @ \o chunk]
    BY DEF Holding
  <2> QED
    BY <2>1, <2>2
<1>5. Unopened(c, h, o, m)
  <2>1. ASSUME NEW r \in Streams
        PROVE  o[r] = <<>> /\ h.tail[r] = <<>> /\ h.pre[r] = SubSeq(c[r], 1, m[r])
    <3>1. o[r] = <<>> /\ h.tail[r] = <<>> /\ g.pre[r] = SubSeq(c[r], 1, n[r])
      BY Zenon DEF Guarded, Unopened, Holding
    <3>2. CASE r = s
      BY Zenon, <1>1, <1>4, <3>1, <3>2 DEF ReadsOn
    <3>3. CASE r \in Streams \ {s}
      BY Zenon, <1>1, <1>4, <3>1, <3>3 DEF ReadsOn
    <3> QED
      BY Zenon, <3>2, <3>3
  <2> QED
    BY Zenon, <2>1 DEF Unopened
<1> QED
  BY Zenon, <1>2, <1>3, <1>5 DEF Guarded, Holding

\* A chunk shown by an open guard, all but a tail.
Showing(g, o, s, chunk, kept, h, p) ==
    /\ kept = LastOf(g.tail[s] \o chunk, TailSize)
    /\ h \in Guards /\ h.open /\ h.early = g.early /\ h.pre = g.pre
    /\ h.scan = LastOf(g.scan \o chunk, MaxScan)
    /\ h.tail = [g.tail EXCEPT ![s] = kept]
    /\ p = [o EXCEPT ![s] = @ \o SubSeq(g.tail[s] \o chunk, 1, Len(g.tail[s] \o chunk) - Len(kept))]
    /\ ~ Marked(h.scan) /\ ~ Marked(g.tail[s] \o chunk)

\* An open guard that takes a chunk and shows all but its tail withholds the markers as before.
LEMMA ShowSound ==
    ASSUME NEW c, NEW g, NEW o, NEW n, Proper(c, g, o, n), Guarded(c, g, o, n), g.open,
           NEW s \in Streams, NEW chunk, IsNext(c, n, s, chunk), NEW kept, NEW h, NEW p,
           Showing(g, o, s, chunk, kept, h, p)
    PROVE  /\ Proper(c, h, p, Advanced(n, s, chunk)) /\ Proper(c, h, o, Advanced(n, s, chunk))
           /\ Guarded(c, h, p, Advanced(n, s, chunk))
<1> DEFINE m == Advanced(n, s, chunk)
           u == g.tail[s]
           t == u \o chunk
           f == SubSeq(t, 1, Len(t) - Len(kept))
           k == n[s]
           l == Len(chunk)
           e == g.early[s]
           b == c[s]
           a == o[s]
<1>1. /\ chunk \in Seq(Printable) /\ chunk # <<>> /\ TailSize \in Nat \ {0}
      /\ u \in Seq(Printable) /\ l \in Nat \ {0} /\ a \in Seq(Printable)
      /\ b \in Seq(Printable) /\ k \in Nat /\ e \in Nat /\ k <= Len(b)
      /\ \A i \in 1 .. l : chunk[i] = b[k + i]
  BY OutputAssumption DEF Proper, IsNext, Guards
<1>2. /\ m \in [Streams -> Nat] /\ m[s] = k + l
      /\ \A r \in Streams \ {s} : m[r] = n[r]
      /\ \A r \in Streams : m[r] <= Len(c[r])
      /\ SubSeq(b, 1, k) \o chunk = SubSeq(b, 1, k + l)
  <2>1. ReadsOn(c, n, m, s, chunk)
    BY Zenon, NextRead
  <2> QED
    BY Zenon, <2>1 DEF ReadsOn
<1>3. /\ t \in Seq(Printable) /\ Len(t) = Len(u) + l /\ Len(u) \in Nat /\ t # <<>>
      /\ (\A i \in 1 .. l : t[Len(u) + i] = chunk[i]) /\ (\A i \in 1 .. Len(u) : t[i] = u[i])
  <2>1. /\ t \in Seq(Printable) /\ Len(t) = Len(u) + l /\ Len(u) \in Nat
        /\ (\A i \in 1 .. l : t[Len(u) + i] = chunk[i]) /\ (\A i \in 1 .. Len(u) : t[i] = u[i])
    <3> HIDE DEF u
    <3>1. u \o chunk \in Seq(Printable) /\ Join(u, chunk)
      BY Zenon, <1>1, Joined
    <3> QED
      BY Zenon, <3>1 DEF Join
  <2>2. Len(t) # 0
    <3> HIDE DEF t, u, l
    <3> QED
      BY <1>1, <2>1
  <2> QED
    BY <2>1, <2>2
<1>4. kept \in Seq(Printable) /\ kept # <<>> /\ f \in Seq(Printable) /\ f \o kept = t
  <2> HIDE DEF t
  <2>1. kept = LastOf(t, TailSize)
    BY Zenon DEF t, Showing
  <2>2. CutAt(Printable, t, SubSeq(t, 1, Len(t) - Len(LastOf(t, TailSize))), LastOf(t, TailSize))
    BY Zenon, <1>1, <1>3, LastOfCuts
  <2> QED
    BY Zenon, <2>1, <2>2 DEF CutAt
<1>5. h.tail[s] = kept /\ \A r \in Streams \ {s} : h.tail[r] = g.tail[r]
  <2>1. g.tail \in [Streams -> Seq(Printable)]
    BY DEF Proper, Guards
  <2>2. h.tail = [g.tail EXCEPT ![s] = kept]
    BY Zenon DEF Showing
  <2> QED
    BY <2>1, <2>2
<1>6. /\ p \in [Streams -> Seq(Printable)]
      /\ p[s] = a \o f /\ \A r \in Streams \ {s} : p[r] = o[r]
  <2>1. o \in [Streams -> Seq(Printable)] /\ p = [o EXCEPT ![s] = a \o f]
    BY DEF Proper, Showing
  <2>2. a \o f \in Seq(Printable)
    BY Zenon, <1>1, <1>4, Joined
  <2> DEFINE y == a \o f
  <2>3. p = [o EXCEPT ![s] = y] /\ y \in Seq(Printable)
    BY <2>1, <2>2
  <2> HIDE DEF y, f, a
  <2>4. p \in [Streams -> Seq(Printable)] /\ p[s] = y /\ \A r \in Streams \ {s} : p[r] = o[r]
    BY <2>1, <2>3
  <2> QED
    BY <2>4 DEF y
<1>7. Proper(c, h, p, m) /\ Proper(c, h, o, m)
  BY Zenon, <1>2, <1>6 DEF Proper, Showing
<1>8. Alone(c, h, m)
  <2>1. Alone(c, g, n)
    BY Zenon DEF Guarded
  <2>2. h.scan = LastOf(g.scan \o chunk, MaxScan) /\ ~ Marked(h.scan)
    BY Zenon DEF Showing
  <2> QED
    BY Zenon, <2>1, <2>2, AloneScanned
<1>9. Opened(c, g, o, n)
  BY Zenon DEF Guarded
<1>10. a \o u = SubSeq(b, 1, k) /\ (k > e => u # <<>>) /\ e <= k
       /\ \A j \in e + 1 .. k - 1 : ~ MarkAt(b, j)
  BY Zenon, <1>9 DEF Opened
<1>11. p[s] \o kept = SubSeq(b, 1, k + l)
  <2>1. JoinThrice(a, f, kept)
    BY Zenon, <1>1, <1>4, JoinedThrice
  <2>2. JoinThrice(a, u, chunk)
    BY Zenon, <1>1, JoinedThrice
  <2> HIDE DEF f, a, u, b, k, l
  <2> QED
    BY Zenon, <1>2, <1>4, <1>6, <1>10, <2>1, <2>2 DEF t, JoinThrice
<1>12. k > e => Len(u) # 0 /\ t[Len(u)] = b[k]
  <2> SUFFICES ASSUME k > e PROVE Len(u) # 0 /\ t[Len(u)] = b[k]
    OBVIOUS
  <2>1. u # <<>>
    BY <1>10
  <2>2. Len(a \o u) # 0 /\ (a \o u)[Len(a \o u)] = u[Len(u)]
    BY Zenon, <1>1, <2>1, LastJoined
  <2> HIDE DEF a, u, b, k, e, t
  <2>3. Len(SubSeq(b, 1, k)) = k /\ k \in 1 .. k /\ SubSeq(b, 1, k)[k] = b[k]
    BY <1>1
  <2>4. Len(u) # 0 /\ Len(u) \in 1 .. Len(u)
    BY <1>1, <2>1
  <2> QED
    BY Zenon, <1>3, <1>10, <2>2, <2>3, <2>4
<1>13. \A i \in e + 1 .. (k + l) - 1 : ~ MarkAt(b, i)
  <2> DEFINE w == Len(u)
  <2>1. /\ w \in Nat /\ l \in Nat /\ k \in Nat /\ e \in Nat
        /\ \A j \in 1 .. l : t[w + j] = b[k + j]
        /\ k > e => w # 0 /\ t[w] = b[k]
        /\ Len(t) = w + l
    BY <1>1, <1>3, <1>12
  <2>2. \A j \in 1 .. (w + l) - 1 : ~ MarkAt(t, j)
    <3>1. \A j \in 1 .. Len(t) - 1 : ~ MarkAt(t, j)
      BY Zenon DEF Showing, Marked, MarkAt
    <3> HIDE DEF w, t, l
    <3> QED
      BY <2>1, <3>1
  <2> HIDE DEF w, t, u, b, k, l, e
  <2> QED
    BY Zenon, <1>10, <2>1, <2>2, NoMarkSince
<1>14. Opened(c, h, p, m)
  <2>1. ASSUME NEW r \in Streams
        PROVE  /\ h.pre[r] = <<>> /\ p[r] \o h.tail[r] = SubSeq(c[r], 1, m[r])
               /\ h.early[r] <= m[r]
               /\ m[r] > h.early[r] => h.tail[r] # <<>>
               /\ \A i \in h.early[r] + 1 .. m[r] - 1 : ~ MarkAt(c[r], i)
    <3>1. /\ g.pre[r] = <<>> /\ o[r] \o g.tail[r] = SubSeq(c[r], 1, n[r])
          /\ g.early[r] <= n[r]
          /\ n[r] > g.early[r] => g.tail[r] # <<>>
          /\ \A i \in g.early[r] + 1 .. n[r] - 1 : ~ MarkAt(c[r], i)
      BY Zenon, <1>9 DEF Opened
    <3>4. h.pre = g.pre /\ h.early = g.early
      BY Zenon DEF Showing
    <3>2. CASE r = s
      <4>1. e <= k + l
        BY <1>1, <1>10
      <4>2. h.pre[s] = <<>> /\ h.early[s] = e /\ h.tail[s] = kept
        BY Zenon, <1>5, <3>1, <3>2, <3>4
      <4>3. p[s] \o h.tail[s] = SubSeq(c[s], 1, m[s])
        BY Zenon, <1>2, <1>5, <1>11
      <4>4. h.early[s] <= m[s]
        BY Zenon, <1>2, <4>1, <4>2
      <4>5. \A i \in h.early[s] + 1 .. m[s] - 1 : ~ MarkAt(c[s], i)
        <5>1. m[s] = k + l /\ h.early[s] = e
          BY Zenon, <1>2, <4>2
        <5>2. h.early[s] + 1 .. m[s] - 1 = e + 1 .. (k + l) - 1
          <6> HIDE DEF m, k, l, e
          <6> QED
            BY <5>1
        <5> HIDE DEF m, k, l, e
        <5> QED
          BY Zenon, <1>13, <5>2 DEF b
      <4> HIDE DEF m
      <4> QED
        BY Zenon, <1>4, <3>2, <4>2, <4>3, <4>4, <4>5
    <3>3. CASE r \in Streams \ {s}
      BY Zenon, <1>2, <1>5, <1>6, <3>1, <3>3, <3>4
    <3> QED
      BY Zenon, <3>2, <3>3
  <2> QED
    BY Zenon, <2>1 DEF Opened
<1> QED
  BY Zenon, <1>7, <1>8, <1>14 DEF Guarded, Showing

\* The invariant holds when the words are typed.
LEMMA InvStart == OutputInit => OutputInv
<1> SUFFICES ASSUME OutputInit PROVE OutputInv
  OBVIOUS
<1>1. /\ Silent \in [Streams -> Seq(Printable)] /\ Zero \in [Streams -> Nat]
      /\ Silent \in [Streams -> Seq(STRING)]
      /\ \A s \in Streams : Silent[s] = <<>> /\ Len(Silent[s]) = 0 /\ Zero[s] = 0
  BY DEF Silent, Zero
<1>2. NewGuard \in Guards /\ NewGuard.open = FALSE
  BY <1>1 DEF NewGuard, Guards
<1>3. argv \in Seq(Words) /\ faults \in 0 .. MaxFaults
  BY OutputAssumption DEF OutputInit
<1>4. OutputTyped
  <2>1. OutputTypeOK
    <3>1. \A s \in Streams : got[s] <= printed[s] /\ printed[s] <= Len(script[s])
      BY DEF OutputInit, Zero, Silent
    <3> QED
      BY <1>3, <3>1 DEF OutputInit, OutputTypeOK
  <2> QED
    BY <1>1, <1>2, <1>3, <2>1 DEF OutputInit, OutputTyped
<1>5. Stages
  BY DEF OutputInit, Stages, Unstarted
<1>6. phase = "typed" /\ mode = "none"
  BY DEF OutputInit
<1> QED
  BY <1>4, <1>5, <1>6 DEF OutputInv, OutputComplete

\* A step that is no reader's.
LEMMA PlansKeeps == OutputInv /\ Plans => OutputInv'
<1> SUFFICES ASSUME OutputInv, Plans PROVE OutputInv'
  OBVIOUS
<1>1. OutputTyped'
  BY DEF Plans, OutputInv, OutputTyped, OutputTypeOK, reading, shown
<1>2. Stages'
  BY DEF Plans, OutputInv, Stages, Unstarted, reading, shown
<1> QED
  BY <1>1, <1>2 DEF OutputInv, OutputComplete, Plans, Stages, reading, shown

\* No agy is started.
LEMMA DeclinesKeeps == OutputInv /\ Declines => OutputInv'
<1> SUFFICES ASSUME OutputInv, Declines PROVE OutputInv'
  OBVIOUS
<1>1. OutputTyped'
  BY DEF Declines, Forgets, OutputInv, OutputTyped, OutputTypeOK, reading, shown
<1>2. Stages'
  BY DEF Declines, OutputInv, Stages, Unstarted, reading, shown
<1> QED
  BY <1>1, <1>2 DEF OutputInv, OutputComplete, Declines, Stages, reading, shown

\* A native session begins with an empty guard.
LEMMA ProbesKeeps == OutputInv /\ Probes => OutputInv'
<1> SUFFICES ASSUME OutputInv, Probes PROVE OutputInv'
  OBVIOUS
<1>1. OutputTyped'
  BY DEF Probes, Forgets, OutputInv, OutputTyped, OutputTypeOK, reading, shown
<1>2. Stages'
  BY DEF Probes, OutputInv, Stages, Unstarted, reading, shown
<1>3. Withheld(guard, out, got)
  BY DEF Probes, OutputInv, Stages, Unstarted, Withheld, Silent
<1> QED
  BY <1>1, <1>2, <1>3 DEF OutputInv, OutputComplete, Probes, reading, shown

\* A managed launch has no guard.
LEMMA ConnectsKeeps == OutputInv /\ Connects => OutputInv'
<1> SUFFICES ASSUME OutputInv, Connects PROVE OutputInv'
  OBVIOUS
<1>1. OutputTyped'
  BY DEF Connects, Forgets, OutputInv, OutputTyped, OutputTypeOK, reading, shown
<1>2. Stages'
  BY DEF Connects, OutputInv, Stages, Unstarted, reading, shown
<1> QED
  BY <1>1, <1>2 DEF OutputInv, OutputComplete, Connects, Stages, reading, shown

\* A new guard has nothing of what is yet to be read.
LEMMA NewGuarded ==
    ASSUME NEW c \in [Streams -> Seq(Printable)]
    PROVE  Guarded(c, NewGuard, Silent, Zero)
<1>1. \A s \in Streams : SubSeq(c[s], 1, 0) = <<>>
  OBVIOUS
<1>2. Unopened(c, NewGuard, Silent, Zero)
  BY <1>1 DEF Unopened, NewGuard, Silent, Zero
<1>3. Alone(c, NewGuard, Zero)
  BY DEF Alone, Zero
<1> QED
  BY <1>2, <1>3 DEF Guarded, NewGuard

\* Nothing is read before the helper has answered.
LEMMA ProbeEndsKeeps == OutputInv /\ ProbeEnds => OutputInv'
<1> SUFFICES ASSUME OutputInv, ProbeEnds PROVE OutputInv'
  OBVIOUS
<1>0. /\ phase = "probing" /\ mode = "native" /\ mode' = "native"
      /\ Unstarted /\ Withheld(guard, out, got)
      /\ printed' = printed /\ got' = got /\ ended' = ended /\ out' = out /\ guard' = guard
      /\ argv' = argv /\ failed' = failed /\ faults' = faults
  BY DEF ProbeEnds, OutputInv, Stages, shown, command
<1>1. CASE phase' = "running"
  <2>1. PICK c \in NativeScripts : script' = c /\ process' = "running" /\ result' = result
    BY <1>1 DEF ProbeEnds
  <2>2. script' \in [Streams -> Seq(Printable)]
    <3>1. c \in [Streams -> Seq({"m1", "m2", "x"})]
      BY OutputAssumption
    <3>2. \A s \in Streams : c[s] \in Seq(Printable)
      BY <3>1 DEF Printable
    <3> QED
      BY <2>1, <3>1, <3>2
  <2>3. Guarded(script', guard', out', got')
    BY <1>0, <2>2, NewGuarded DEF Unstarted
  <2>4. OutputTyped'
    <3>1. \A s \in Streams : got'[s] <= printed'[s] /\ printed'[s] <= Len(script'[s])
      BY <1>0, <2>2 DEF Unstarted, Zero
    <3> QED
      BY <1>0, <1>1, <2>1, <2>2, <3>1 DEF OutputInv, OutputTyped, OutputTypeOK
  <2>5. Stages'
    BY <1>0, <1>1, <2>1 DEF Stages, Unstarted
  <2> QED
    BY <1>0, <1>1, <2>1, <2>3, <2>4, <2>5 DEF OutputInv, OutputComplete, Unstarted, ReadToEnd
<1>2. CASE phase' # "running"
  <2>1. phase' = "done" /\ process' = "reaped" /\ result' = "keychain" /\ script' = script
    BY <1>2 DEF ProbeEnds
  <2>2. OutputTyped'
    BY <1>0, <2>1 DEF OutputInv, OutputTyped, OutputTypeOK
  <2>3. Stages'
    BY <1>0, <2>1 DEF Stages
  <2> QED
    BY <1>0, <2>1, <2>2, <2>3 DEF OutputInv, OutputComplete
<1> QED
  BY <1>1, <1>2

\* Nor when it does not.
LEMMA ProbeTimesOutKeeps == OutputInv /\ ProbeTimesOut => OutputInv'
<1> SUFFICES ASSUME OutputInv, ProbeTimesOut PROVE OutputInv'
  OBVIOUS
<1>1. OutputTyped'
  BY DEF ProbeTimesOut, OutputInv, OutputTyped, OutputTypeOK, reading, shown, command
<1>2. Stages'
  BY DEF ProbeTimesOut, OutputInv, Stages, Unstarted, reading, shown
<1> QED
  BY <1>1, <1>2 DEF OutputInv, OutputComplete, ProbeTimesOut, Stages, reading, shown

\* What agy will print is fixed when it is started.
LEMMA SpawningKeeps == OutputInv /\ Spawning => OutputInv'
<1> SUFFICES ASSUME OutputInv, Spawning PROVE OutputInv'
  OBVIOUS
<1>0. /\ phase = "starting" /\ mode \in {"inherit", "pipe"} /\ mode' = mode
      /\ Unstarted /\ script = Silent /\ phase' = "running" /\ process' = "running"
      /\ printed' = printed /\ got' = got /\ ended' = ended /\ out' = out /\ guard' = guard
      /\ argv' = argv /\ failed' = failed /\ faults' = faults /\ result' = result
  BY DEF Spawning, OutputInv, Stages, shown, command
<1>1. script' \in [Streams -> Seq(Printable)] /\ script'["out"] = <<>>
      /\ (mode = "inherit" => script' = Silent)
  <2>1. Silent \in [Streams -> Seq(Printable)] /\ Silent["out"] = <<>>
    BY DEF Silent, Streams
  <2>2. CASE mode = "inherit"
    BY <1>0, <2>1, <2>2 DEF Spawning
  <2>3. CASE mode # "inherit"
    <3>1. PICK t \in Texts : script' = [Silent EXCEPT !["err"] = t]
      BY <2>3 DEF Spawning
    <3>2. t \in Seq(Printable)
      BY OutputAssumption DEF Printable
    <3> QED
      BY <2>1, <2>3, <3>1, <3>2 DEF Streams
  <2> QED
    BY <2>2, <2>3
<1>2. OutputTyped'
  <2>1. \A s \in Streams : got'[s] <= printed'[s] /\ printed'[s] <= Len(script'[s])
    BY <1>0, <1>1 DEF Unstarted, Zero
  <2> QED
    BY <1>0, <1>1, <2>1 DEF OutputInv, OutputTyped, OutputTypeOK
<1>3. Stages'
  BY <1>0 DEF Stages, Unstarted
<1>4. Mirrored'
  BY <1>0, <1>1 DEF Mirrored, Unstarted, Silent, Zero, Streams
<1> QED
  BY <1>0, <1>2, <1>3, <1>4 DEF OutputInv, OutputComplete, ReadToEnd, Unstarted

\* What is in the pipe is not read yet.
LEMMA PrintsKeeps == ASSUME NEW s \in Streams PROVE OutputInv /\ Prints(s) => OutputInv'
<1> SUFFICES ASSUME OutputInv, Prints(s) PROVE OutputInv'
  OBVIOUS
<1>0. /\ phase = "running" /\ process = "running" /\ printed[s] < Len(script[s])
      /\ printed' = [printed EXCEPT ![s] = @ + 1]
      /\ phase' = phase /\ mode' = mode /\ process' = process /\ failed' = failed /\ argv' = argv
      /\ script' = script /\ got' = got /\ ended' = ended /\ out' = out /\ guard' = guard
      /\ result' = result /\ faults' = faults
  BY DEF Prints, shown, command
<1>1. OutputTyped'
  <2>1. printed \in [Streams -> Nat] /\ got \in [Streams -> Nat] /\ script \in [Streams -> Seq(Printable)]
        /\ \A r \in Streams : got[r] <= printed[r] /\ printed[r] <= Len(script[r])
    BY DEF OutputInv, OutputTyped, OutputTypeOK
  <2>2. printed' \in [Streams -> Nat]
        /\ \A r \in Streams : printed'[r] = IF r = s THEN printed[r] + 1 ELSE printed[r]
    BY <1>0, <2>1
  <2>3. \A r \in Streams : got'[r] <= printed'[r] /\ printed'[r] <= Len(script'[r])
    <3> SUFFICES ASSUME NEW r \in Streams PROVE got[r] <= printed'[r] /\ printed'[r] <= Len(script[r])
      BY <1>0
    <3>1. CASE r = s
      BY <1>0, <2>1, <2>2, <3>1
    <3>2. CASE r # s
      BY <2>1, <2>2, <3>2
    <3> QED
      BY <3>1, <3>2
  <2> QED
    BY <1>0, <2>2, <2>3 DEF OutputInv, OutputTyped, OutputTypeOK
<1>2. Stages'
  BY <1>0 DEF OutputInv, Stages
<1>3. Mirrored <=> Mirrored'
  BY <1>0 DEF Mirrored
<1>4. ReadToEnd'
  BY <1>0 DEF OutputInv, ReadToEnd
<1> QED
  BY <1>0, <1>1, <1>2, <1>3, <1>4 DEF OutputInv, OutputComplete

\* A step of agy or of its status changes nothing that is read or shown.
LEMMA AgyEndsKeeps == OutputInv /\ (AgyEnds \/ Reaps) => OutputInv'
<1> SUFFICES ASSUME OutputInv, AgyEnds \/ Reaps PROVE OutputInv'
  OBVIOUS
<1>0. /\ phase = "running" /\ process' \in {"exited", "reaped"} /\ failed' \in BOOLEAN
      /\ phase' = phase /\ mode' = mode /\ argv' = argv /\ printed' = printed
      /\ script' = script /\ got' = got /\ ended' = ended /\ out' = out /\ guard' = guard
      /\ result' = result /\ faults' = faults
  BY DEF AgyEnds, Reaps, reading, shown, command, OutputInv, OutputTyped, OutputTypeOK
<1>1. OutputTyped'
  BY <1>0 DEF OutputInv, OutputTyped, OutputTypeOK
<1>2. Stages'
  BY <1>0 DEF OutputInv, Stages
<1>3. Mirrored <=> Mirrored'
  BY <1>0 DEF Mirrored
<1>4. ReadToEnd'
  BY <1>0 DEF OutputInv, ReadToEnd
<1> QED
  BY <1>0, <1>1, <1>2, <1>3, <1>4 DEF OutputInv, OutputComplete

\* A reader that stops at the end of its stream has read all of it.
LEMMA EndOfFileKeeps == ASSUME NEW s \in Streams PROVE OutputInv /\ EndOfFile(s) => OutputInv'
<1> SUFFICES ASSUME OutputInv, EndOfFile(s) PROVE OutputInv'
  OBVIOUS
<1>0. /\ phase = "running" /\ process # "running" /\ got[s] = printed[s]
      /\ ended' = ended \cup {s} /\ process' = process /\ failed' = failed
      /\ phase' = phase /\ mode' = mode /\ argv' = argv /\ printed' = printed
      /\ script' = script /\ got' = got /\ out' = out /\ guard' = guard
      /\ result' = result /\ faults' = faults
  BY DEF EndOfFile, shown, command
<1>1. OutputTyped'
  BY <1>0 DEF OutputInv, OutputTyped, OutputTypeOK
<1>2. Stages'
  BY <1>0 DEF OutputInv, Stages
<1>3. Mirrored <=> Mirrored'
  BY <1>0 DEF Mirrored
<1>4. ReadToEnd'
  BY <1>0 DEF OutputInv, ReadToEnd
<1> QED
  BY <1>0, <1>1, <1>2, <1>3, <1>4 DEF OutputInv, OutputComplete

\* Nor does a failure; what it counts only makes promises weaker.
LEMMA FailureKeeps ==
    OutputInv /\ (WaitFails \/ DrainFails \/ \E s \in Streams : ReadFails(s)) => OutputInv'
<1> SUFFICES ASSUME OutputInv, WaitFails \/ DrainFails \/ \E s \in Streams : ReadFails(s)
             PROVE  OutputInv'
  OBVIOUS
<1>0. /\ phase = "running" /\ process' \in {"running", "exited", "reaped", "lost"} \cup {process}
      /\ failed' \in BOOLEAN /\ result' \in {"read", "wait"}
      /\ phase' = phase /\ mode' = mode /\ argv' = argv /\ printed' = printed
      /\ script' = script /\ got' = got /\ out' = out /\ guard' = guard
      /\ ended' \subseteq Streams /\ faults < MaxFaults /\ faults' = faults + 1
  <2>0. /\ failed \in BOOLEAN /\ ended \subseteq Streams
        /\ phase = "running" => result \in {"none", "read", "wait"}
    BY DEF OutputInv, OutputTyped, OutputTypeOK, Stages
  <2>1. CASE WaitFails
    BY <2>0, <2>1 DEF WaitFails, Fault, reading, shown, command
  <2>2. CASE DrainFails
    BY <2>0, <2>2 DEF DrainFails, Fault, Running, shown, command, Streams
  <2>3. CASE \E s \in Streams : ReadFails(s)
    BY <2>0, <2>3 DEF ReadFails, Fault, Running, shown, command
  <2> QED
    BY <2>1, <2>2, <2>3
<1>1. OutputTyped'
  BY <1>0, OutputAssumption DEF OutputInv, OutputTyped, OutputTypeOK
<1>2. Stages'
  BY <1>0 DEF OutputInv, Stages
<1>3. Mirrored => Mirrored'
  BY <1>0, OutputAssumption DEF Mirrored, OutputInv, OutputTyped, OutputTypeOK
<1>4. ReadToEnd'
  BY <1>0 DEF OutputInv, ReadToEnd
<1> QED
  BY <1>0, <1>1, <1>2, <1>3, <1>4 DEF OutputInv, OutputComplete

\* A managed launch returns after its reader, which mirrored all it read.
LEMMA ManagedReturnsKeeps == OutputInv /\ ManagedReturns => OutputInv'
<1> SUFFICES ASSUME OutputInv, ManagedReturns PROVE OutputInv'
  OBVIOUS
<1>0. /\ phase = "running" /\ phase' = "done" /\ mode \in {"inherit", "pipe"}
      /\ mode = "pipe" => "err" \in ended
      /\ result' = IF result = "none" THEN "code" ELSE result
      /\ process' = process /\ failed' = failed
      /\ mode' = mode /\ argv' = argv /\ printed' = printed
      /\ script' = script /\ got' = got /\ out' = out /\ guard' = guard
      /\ ended' = ended /\ faults' = faults
  BY DEF ManagedReturns, reading, command
<1>1. result \in {"none", "read", "wait"} /\ Mirrored /\ ReadToEnd
  BY <1>0 DEF OutputInv, Stages
<1>2. OutputTyped'
  BY <1>0, <1>1 DEF OutputInv, OutputTyped, OutputTypeOK
<1>3. Stages'
  BY <1>0, <1>1 DEF Stages
<1>4. OutputComplete'
  <2> SUFFICES ASSUME result = "none", NEW s \in Streams
               PROVE  LET all == SubSeq(script[s], 1, printed[s])
                      IN  IF faults = 0 THEN out[s] = all ELSE Len(out[s]) <= Len(all)
    BY <1>0, <1>1 DEF OutputComplete
  <2>1. /\ script \in [Streams -> Seq(Printable)] /\ got \in [Streams -> Nat]
        /\ printed \in [Streams -> Nat] /\ \A r \in Streams : printed[r] <= Len(script[r])
        /\ out \in [Streams -> Seq(Printable)]
    BY DEF OutputInv, OutputTyped, OutputTypeOK
  <2> DEFINE t == script[s]
             k == printed[s]
  <2>2. t \in Seq(Printable) /\ k \in Nat /\ k <= Len(t)
    BY <2>1
  <2>3. Len(SubSeq(t, 1, k)) = k /\ (t = <<>> => SubSeq(t, 1, k) = <<>>)
    <3> HIDE DEF t, k
    <3> QED
      BY <2>2
  <2>4. CASE t = <<>> /\ out[s] = <<>>
    <3> HIDE DEF t, k
    <3>1. Len(out[s]) = 0 /\ out[s] = SubSeq(t, 1, k)
      BY <2>3, <2>4
    <3> QED
      BY <2>2, <2>3, <3>1 DEF t, k
  <2>5. CASE mode = "pipe" /\ s = "err"
    <3>1. got["err"] = printed["err"]
      BY <1>0, <1>1, <2>5 DEF ReadToEnd
    <3>2. Len(out[s]) <= k /\ (faults = 0 => out[s] = SubSeq(t, 1, k))
      BY Zenon, <1>1, <2>5, <3>1 DEF Mirrored
    <3> QED
      BY <2>3, <3>2 DEF t, k
  <2>6. (t = <<>> /\ out[s] = <<>>) \/ (mode = "pipe" /\ s = "err")
    BY <1>0, <1>1 DEF Mirrored, Silent, Streams
  <2> QED
    BY <2>4, <2>5, <2>6
<1> QED
  BY <1>0, <1>2, <1>3, <1>4 DEF OutputInv

\* The guard has the form the lemmas about its operations need.
LEMMA ProperNow == OutputInv => Proper(script, guard, out, got)
<1> SUFFICES ASSUME OutputInv PROVE Proper(script, guard, out, got)
  OBVIOUS
<1>1. /\ script \in [Streams -> Seq(Printable)] /\ got \in [Streams -> Nat]
      /\ printed \in [Streams -> Nat] /\ out \in [Streams -> Seq(Printable)] /\ guard \in Guards
      /\ \A s \in Streams : got[s] <= printed[s] /\ printed[s] <= Len(script[s])
  BY DEF OutputInv, OutputTyped, OutputTypeOK
<1>2. \A s \in Streams : got[s] <= Len(script[s])
  BY <1>1
<1> QED
  BY <1>1, <1>2 DEF Proper

\* What is withheld stays withheld while more is read.
LEMMA WithheldLater ==
    ASSUME NEW g, NEW o, NEW n \in [Streams -> Nat], NEW m \in [Streams -> Nat],
           \A r \in Streams : n[r] <= m[r], Withheld(g, o, n)
    PROVE  Withheld(g, o, m)
<1>1. \A r \in Streams : n[r] > 0 => m[r] > 0
  OBVIOUS
<1> QED
  BY Zenon, <1>1 DEF Withheld

\* What a reader's step does to what is read.
Reading(s, chunk, m) ==
    /\ IsNext(script, got, s, chunk) /\ got' = m
    /\ m \in [Streams -> Nat] /\ m[s] <= printed[s]
    /\ \A r \in Streams : got[r] <= m[r] /\ m[r] <= printed[r]
    /\ SubSeq(script[s], 1, got[s]) \o chunk = SubSeq(script[s], 1, m[s])
    /\ m[s] = got[s] + Len(chunk) /\ Len(chunk) > 0
    /\ \A r \in Streams \ {s} : m[r] = got[r]
    /\ argv' = argv /\ mode' = mode /\ failed' = failed /\ script' = script
    /\ printed' = printed /\ ended' = ended /\ verdict' = verdict /\ s \notin ended

\* A step that takes a chunk reads on, in the terms of the lemmas.
LEMMA ReceivesReads ==
    ASSUME OutputInv, NEW s \in Streams, NEW chunk, Receives(s, chunk)
    PROVE  Reading(s, chunk, Advanced(got, s, chunk))
<1>1. OutputTyped /\ chunk \in Chunks(s) /\ s \notin ended
  BY DEF OutputInv, Receives
<1>2. /\ chunk \in Seq(Printable) /\ Len(chunk) \in 1 .. MaxChunk
      /\ got[s] + Len(chunk) <= printed[s] /\ printed[s] <= Len(script[s])
      /\ \A i \in 1 .. Len(chunk) : chunk[i] = script[s][got[s] + i]
  BY <1>1, ChunkIs
<1>3. /\ got \in [Streams -> Nat] /\ printed \in [Streams -> Nat] /\ script \in [Streams -> Seq(Printable)]
      /\ MaxChunk \in Nat /\ \A r \in Streams : got[r] <= printed[r] /\ printed[r] <= Len(script[r])
  BY <1>1, OutputAssumption DEF OutputTyped, OutputTypeOK
<1>4. IsNext(script, got, s, chunk)
  BY <1>2, <1>3 DEF IsNext
<1>5. ReadsOn(script, got, Advanced(got, s, chunk), s, chunk)
  BY Zenon, <1>4, ProperNow, NextRead
<1> DEFINE m == Advanced(got, s, chunk)
<1>6. /\ m \in [Streams -> Nat] /\ m[s] = got[s] + Len(chunk)
      /\ \A r \in Streams \ {s} : m[r] = got[r]
      /\ \A r \in Streams : got[r] <= m[r]
      /\ SubSeq(script[s], 1, got[s]) \o chunk = SubSeq(script[s], 1, got[s] + Len(chunk))
  BY Zenon, <1>5 DEF ReadsOn
<1>7. got' = m /\ argv' = argv /\ mode' = mode /\ failed' = failed /\ script' = script
      /\ printed' = printed /\ ended' = ended /\ verdict' = verdict
  BY DEF Receives, Advanced, command
<1> HIDE DEF m
<1>8. \A r \in Streams : m[r] <= printed[r]
  <2> SUFFICES ASSUME NEW r \in Streams PROVE m[r] <= printed[r]
    OBVIOUS
  <2>1. CASE r = s
    BY <2>1, <1>2, <1>6
  <2>2. CASE r # s
    BY <2>2, <1>3, <1>6
  <2> QED
    BY <2>1, <2>2
<1>9. Len(chunk) > 0
  BY <1>2, <1>3
<1> QED
  BY Zenon, <1>1, <1>4, <1>6, <1>7, <1>8, <1>9 DEF Reading, m

\* The type after it.
LEMMA ReadTyped ==
    ASSUME OutputInv, NEW s \in Streams, NEW chunk, NEW m, Reading(s, chunk, m),
           phase' \in {"running", "done"}, process' \in {process, "reaped"},
           faults' \in 0 .. MaxFaults, result' \in Results,
           out' \in [Streams -> Seq(Printable)], guard' \in Guards
    PROVE  OutputTyped'
<1>1. /\ phase \in {"typed", "planned", "starting", "probing", "running", "done"}
      /\ mode \in {"none", "native", "pipe", "inherit"}
      /\ process \in {"none", "running", "exited", "reaped", "lost"}
      /\ ended \subseteq Streams /\ failed \in BOOLEAN /\ argv \in Seq(Words)
      /\ script \in [Streams -> Seq(Printable)] /\ printed \in [Streams -> Nat]
      /\ \A r \in Streams : printed[r] <= Len(script[r])
  BY DEF OutputInv, OutputTyped, OutputTypeOK
<1>2. /\ got' = m /\ m \in [Streams -> Nat] /\ \A r \in Streams : m[r] <= printed[r]
      /\ argv' = argv /\ mode' = mode /\ failed' = failed /\ script' = script
      /\ printed' = printed /\ ended' = ended
  BY Zenon DEF Reading
<1>3. OutputTypeOK'
  BY <1>1, <1>2 DEF OutputTypeOK, Results
<1> QED
  BY <1>1, <1>2, <1>3 DEF OutputTyped

\* A guard with what it holds is opened, or the session ends.
LEMMA OpensSound ==
    ASSUME NEW g, NEW n, Proper(script, g, out, n), Guarded(script, g, out, n), ~ g.open,
           OpensOrAborts(g)
    PROVE  /\ guard' \in Guards /\ out' \in [Streams -> Seq(Printable)]
           /\ Withheld(guard', out', n)
           /\ \/ /\ phase' = phase /\ process' = process /\ result' = result /\ faults' = faults
                 /\ Guarded(script, guard', out', n)
              \/ /\ phase' = "done" /\ process' = "reaped" /\ result' = "write"
                 /\ faults < MaxFaults /\ faults' = faults + 1
<1>1. \A written \in SUBSET Streams :
          Flush(g, written) => guard' = FlushedGuard(g) /\ out' = FlushedOut(g, out, written)
  BY DEF Flush, FlushedGuard, FlushedOut
<1>2. CASE Flush(g, Streams) /\ Goes
  <2>1. guard' = FlushedGuard(g) /\ out' = FlushedOut(g, out, Streams)
    BY <1>1, <1>2
  <2>2. /\ Proper(script, guard', out', n) /\ Withheld(guard', out', n)
        /\ Guarded(script, guard', out', n)
    <3>1. Streams \in SUBSET Streams
      OBVIOUS
    <3> QED
      BY Zenon, <2>1, <3>1, FlushSound
  <2> QED
    BY <1>2, <2>2 DEF Proper, Goes
<1>3. CASE FlushFails(g) /\ Aborts("write")
  <2>1. PICK written \in {{}, {"out"}} : Flush(g, written)
    BY <1>3 DEF FlushFails
  <2>2. written \in SUBSET Streams
    BY DEF Streams
  <2>3. guard' = FlushedGuard(g) /\ out' = FlushedOut(g, out, written)
    BY <1>1, <2>1, <2>2
  <2>4. Proper(script, guard', out', n) /\ Withheld(guard', out', n)
    BY Zenon, <2>2, <2>3, FlushSound
  <2> QED
    BY <1>3, <2>4 DEF Proper, FlushFails, Fault, Aborts
<1> QED
  BY <1>2, <1>3 DEF OpensOrAborts

\* When the time of the preamble is over.
LEMMA OpensKeeps == OutputInv /\ Opens => OutputInv'
<1> SUFFICES ASSUME OutputInv, Opens PROVE OutputInv'
  OBVIOUS
<1>0. /\ phase = "running" /\ mode = "native" /\ ~ guard.open /\ OpensOrAborts(guard)
      /\ mode' = mode /\ argv' = argv /\ printed' = printed /\ failed' = failed
      /\ script' = script /\ got' = got /\ ended' = ended
  BY DEF Opens, Running, reading, command
<1>1. Proper(script, guard, out, got) /\ Guarded(script, guard, out, got)
  BY <1>0, ProperNow DEF OutputInv
<1>2. /\ guard' \in Guards /\ out' \in [Streams -> Seq(Printable)]
      /\ Withheld(guard', out', got)
      /\ \/ /\ phase' = phase /\ process' = process /\ result' = result /\ faults' = faults
            /\ Guarded(script, guard', out', got)
         \/ /\ phase' = "done" /\ process' = "reaped" /\ result' = "write"
            /\ faults < MaxFaults /\ faults' = faults + 1
  BY <1>0, <1>1, OpensSound
<1>3. OutputTyped'
  BY <1>0, <1>2, OutputAssumption DEF OutputInv, OutputTyped, OutputTypeOK
<1>4. Stages'
  BY <1>0, <1>2 DEF OutputInv, Stages
<1>5. phase' = "running" => ReadToEnd'
  BY <1>0, <1>2 DEF OutputInv, ReadToEnd
<1> QED
  BY <1>0, <1>2, <1>3, <1>4, <1>5 DEF OutputInv, OutputComplete

\* Nothing of a stream is read after its end.
LEMMA ReadingKeepsEnds ==
    ASSUME NEW s \in Streams, NEW chunk, NEW m, Reading(s, chunk, m), ReadToEnd,
           ended \subseteq Streams, process' = process, result' = result
    PROVE  ReadToEnd'
<1>1. /\ got' = m /\ printed' = printed /\ ended' = ended /\ s \notin ended
      /\ \A r \in Streams \ {s} : m[r] = got[r]
  BY Zenon DEF Reading
<1> QED
  BY <1>1 DEF ReadToEnd

\* When a marker is seen nothing more is shown.
LEMMA AuthRequiredKeeps == ASSUME NEW s \in Streams PROVE OutputInv /\ AuthRequired(s) => OutputInv'
<1> SUFFICES ASSUME OutputInv, AuthRequired(s) PROVE OutputInv'
  OBVIOUS
<1>1. PICK chunk \in Chunks(s) :
          /\ Running("native") /\ Receives(s, chunk) /\ Aborts("auth")
          /\ out' = out /\ guard' = guard /\ faults' = faults
  BY DEF AuthRequired
<1> DEFINE m == Advanced(got, s, chunk)
<1>2. Reading(s, chunk, m)
  BY <1>1, ReceivesReads
<1> HIDE DEF m
<1>3. phase' = "done" /\ process' = "reaped" /\ result' = "auth" /\ mode = "native"
  BY <1>1 DEF Aborts, Running
<1>4. OutputTyped'
  <2>1. out \in [Streams -> Seq(Printable)] /\ guard \in Guards /\ faults \in 0 .. MaxFaults
    BY DEF OutputInv, OutputTyped, OutputTypeOK
  <2> QED
    BY <1>1, <1>2, <1>3, <2>1, ReadTyped DEF Results
<1>5. Withheld(guard', out', got')
  <2>1. got \in [Streams -> Nat] /\ Withheld(guard, out, got)
    BY <1>3 DEF OutputInv, OutputTyped
  <2>2. got' = m /\ m \in [Streams -> Nat] /\ \A r \in Streams : got[r] <= m[r]
    BY Zenon, <1>2 DEF Reading
  <2> QED
    BY <1>1, <2>1, <2>2, WithheldLater
<1>6. Stages'
  BY <1>3 DEF Stages
<1> QED
  BY <1>3, <1>4, <1>5, <1>6 DEF OutputInv, OutputComplete

\* A chunk is held back, or fills the preamble.
LEMMA HoldsKeeps == ASSUME NEW s \in Streams PROVE OutputInv /\ Holds(s) => OutputInv'
<1> SUFFICES ASSUME OutputInv, Holds(s) PROVE OutputInv'
  OBVIOUS
<1> DEFINE g(chunk) == [Scanned(chunk) EXCEPT !.pre[s] = @ \o chunk]
<1>1. PICK chunk \in Chunks(s) :
          /\ Running("native") /\ ~ guard.open /\ Receives(s, chunk) /\ ~ SeesMarker(s, chunk)
          /\ \/ OpensOrAborts(g(chunk))
             \/ guard' = g(chunk) /\ out' = out /\ Goes
  BY DEF Holds
<1> DEFINE m == Advanced(got, s, chunk)
           h == g(chunk)
<1>2. Reading(s, chunk, m)
  BY <1>1, ReceivesReads
<1>3. phase = "running" /\ mode = "native"
  BY <1>1 DEF Running
<1>4. Proper(script, guard, out, got) /\ Guarded(script, guard, out, got)
  BY <1>3, ProperNow DEF OutputInv
<1>5. IsNext(script, got, s, chunk)
  BY Zenon, <1>2 DEF Reading
<1>6. Holding(guard, s, chunk, h)
  <2>1. guard \in Guards /\ chunk \in Seq(Printable) /\ guard.scan \in Seq(Printable) /\ MaxScan \in Nat
    BY <1>4, <1>5, OutputAssumption DEF Proper, Guards, IsNext
  <2>2. guard.scan \o chunk \in Seq(Printable)
    BY Zenon, <2>1, Joined
  <2>3. LastOf(guard.scan \o chunk, MaxScan) \in Seq(Printable)
    BY <2>1, <2>2, LastOfIs
  <2> DEFINE y == LastOf(guard.scan \o chunk, MaxScan)
  <2>4. Scanned(chunk) = [guard EXCEPT !.scan = y]
    BY <2>1 DEF Scanned
  <2>5. guard.pre \in [Streams -> Seq(Printable)] /\ guard.pre[s] \o chunk \in Seq(Printable)
    BY <2>1 DEF Guards
  <2>6. Scanned(chunk) \in Guards /\ Scanned(chunk).pre = guard.pre
        /\ Scanned(chunk).tail = guard.tail /\ Scanned(chunk).open = guard.open
        /\ Scanned(chunk).scan = y
    <3> HIDE DEF y
    <3> QED
      BY <2>1, <2>3, <2>4 DEF Guards, y
  <2>7. h \in Guards /\ h.open = guard.open /\ h.tail = guard.tail /\ h.scan = y
        /\ h.pre = [guard.pre EXCEPT ![s] = @ \o chunk]
    <3> HIDE DEF y
    <3> QED
      BY <2>5, <2>6 DEF Guards
  <2>8. ~ Marked(Scanned(chunk).scan)
    BY <1>1 DEF SeesMarker
  <2> QED
    BY Zenon, <1>1, <2>6, <2>7, <2>8 DEF Holding
<1>7. Proper(script, h, out, m) /\ Guarded(script, h, out, m) /\ ~ h.open
  <2>1. ~ guard.open
    BY <1>1
  <2>2. ~ h.open
    BY Zenon, <1>6 DEF Holding
  <2> HIDE DEF h
  <2> QED
    BY Zenon, <1>4, <1>5, <1>6, <2>1, <2>2, HoldSound
<1> HIDE DEF m, h
<1>8. /\ guard' \in Guards /\ out' \in [Streams -> Seq(Printable)]
      /\ Withheld(guard', out', m)
      /\ \/ /\ phase' = phase /\ process' = process /\ result' = result /\ faults' = faults
            /\ Guarded(script, guard', out', m)
         \/ /\ phase' = "done" /\ process' = "reaped" /\ result' = "write"
            /\ faults < MaxFaults /\ faults' = faults + 1
  <2>1. CASE OpensOrAborts(h)
    BY <1>7, <2>1, OpensSound
  <2>2. CASE guard' = h /\ out' = out /\ Goes
    <3>1. Proper(script, guard', out', m) /\ Guarded(script, guard', out', m)
      BY <1>7, <2>2
    <3>2. Withheld(guard', out', m)
      BY <3>1, GuardedWithheld
    <3> QED
      BY <2>2, <3>1, <3>2 DEF Proper, Goes
  <2> QED
    BY <1>1, <2>1, <2>2 DEF h
<1>9. OutputTyped'
  <2>1. faults \in 0 .. MaxFaults /\ result \in Results
    BY DEF OutputInv, OutputTyped, OutputTypeOK, Results
  <2>2. faults' \in 0 .. MaxFaults /\ result' \in Results /\ phase' \in {"running", "done"}
        /\ process' \in {process, "reaped"}
    BY <1>3, <1>8, <2>1, OutputAssumption DEF Results
  <2> QED
    BY <1>2, <1>8, <2>2, ReadTyped
<1>10. got' = m /\ mode' = mode /\ script' = script
  BY Zenon, <1>2 DEF Reading
<1>11. Stages'
  BY <1>3, <1>8, <1>10 DEF OutputInv, Stages
<1>12. phase' = "running" => ReadToEnd'
  <2>1. ReadToEnd /\ ended \subseteq Streams
    BY <1>3 DEF OutputInv, OutputTyped, OutputTypeOK
  <2> QED
    BY <1>2, <1>8, <2>1, ReadingKeepsEnds
<1> QED
  BY <1>3, <1>8, <1>9, <1>10, <1>11, <1>12 DEF OutputInv, OutputComplete

\* A chunk is shown up to a tail.
LEMMA ShowsKeeps == ASSUME NEW s \in Streams PROVE OutputInv /\ Shows(s) => OutputInv'
<1> SUFFICES ASSUME OutputInv, Shows(s) PROVE OutputInv'
  OBVIOUS
<1> DEFINE t(chunk) == guard.tail[s] \o chunk
           kept(chunk) == LastOf(t(chunk), TailSize)
           g(chunk) == [Scanned(chunk) EXCEPT !.tail[s] = kept(chunk)]
           p(chunk) == [out EXCEPT ![s] = @ \o SubSeq(t(chunk), 1, Len(t(chunk)) - Len(kept(chunk)))]
<1>1. PICK chunk \in Chunks(s) :
          /\ Running("native") /\ guard.open /\ Receives(s, chunk) /\ ~ SeesMarker(s, chunk)
          /\ guard' = g(chunk)
          /\ \/ out' = p(chunk) /\ Goes
             \/ out' = out /\ Fault /\ Aborts("write")
  BY DEF Shows
<1> DEFINE m == Advanced(got, s, chunk)
           h == g(chunk)
           k == kept(chunk)
           q == p(chunk)
<1>2. Reading(s, chunk, m)
  BY <1>1, ReceivesReads
<1>3. phase = "running" /\ mode = "native"
  BY <1>1 DEF Running
<1>4. Proper(script, guard, out, got) /\ Guarded(script, guard, out, got)
  BY <1>3, ProperNow DEF OutputInv
<1>5. IsNext(script, got, s, chunk)
  BY Zenon, <1>2 DEF Reading
<1>6. Showing(guard, out, s, chunk, k, h, q)
  <2>1. guard \in Guards /\ chunk \in Seq(Printable) /\ guard.scan \in Seq(Printable) /\ MaxScan \in Nat
        /\ TailSize \in Nat
    BY <1>4, <1>5, OutputAssumption DEF Proper, Guards, IsNext
  <2>2. guard.scan \o chunk \in Seq(Printable)
    BY Zenon, <2>1, Joined
  <2>3. LastOf(guard.scan \o chunk, MaxScan) \in Seq(Printable)
    BY <2>1, <2>2, LastOfIs
  <2> DEFINE y == LastOf(guard.scan \o chunk, MaxScan)
  <2>4. Scanned(chunk) = [guard EXCEPT !.scan = y]
    BY <2>1 DEF Scanned
  <2>5. guard.tail \in [Streams -> Seq(Printable)] /\ t(chunk) \in Seq(Printable)
    BY <2>1 DEF Guards
  <2>6. k \in Seq(Printable)
    BY <2>1, <2>5, LastOfIs
  <2>7. Scanned(chunk) \in Guards /\ Scanned(chunk).pre = guard.pre
        /\ Scanned(chunk).tail = guard.tail /\ Scanned(chunk).open = guard.open
        /\ Scanned(chunk).early = guard.early /\ Scanned(chunk).scan = y
    <3> HIDE DEF y
    <3> QED
      BY <2>1, <2>3, <2>4 DEF Guards, y
  <2>8. h \in Guards /\ h.open = guard.open /\ h.pre = guard.pre /\ h.early = guard.early
        /\ h.scan = y /\ h.tail = [guard.tail EXCEPT ![s] = k]
    <3> HIDE DEF y, k, kept
    <3> QED
      BY <2>5, <2>6, <2>7 DEF Guards, k
  <2>9. ~ Marked(y) /\ ~ Marked(t(chunk)) /\ guard.open
    BY <1>1, <2>7 DEF SeesMarker
  <2>10. q = [out EXCEPT ![s] = @ \o SubSeq(t(chunk), 1, Len(t(chunk)) - Len(k))]
    OBVIOUS
  <2> HIDE DEF h, q, y
  <2>11. k = LastOf(guard.tail[s] \o chunk, TailSize)
    OBVIOUS
  <2> HIDE DEF k, kept
  <2> QED
    BY Zenon, <2>8, <2>9, <2>10, <2>11 DEF Showing, y, t
<1> HIDE DEF h, k, q
<1>7. Proper(script, h, q, m) /\ Proper(script, h, out, m) /\ Guarded(script, h, q, m)
  <2>1. guard.open
    BY <1>1
  <2> QED
    BY Zenon, <1>4, <1>5, <1>6, <2>1, ShowSound
<1> HIDE DEF m, t, kept, g, p
<1>8. guard' = h /\ ((out' = q /\ Goes) \/ (out' = out /\ Fault /\ Aborts("write")))
  BY <1>1 DEF h, q
<1>9. Withheld(h, out, m)
  <2>1. Withheld(guard, out, got)
    BY <1>3 DEF OutputInv
  <2>2. h.early = guard.early
    BY Zenon, <1>6 DEF Showing
  <2>3. Withheld(h, out, got)
    BY Zenon, <2>1, <2>2 DEF Withheld
  <2>4. got \in [Streams -> Nat] /\ m \in [Streams -> Nat] /\ \A r \in Streams : got[r] <= m[r]
    BY Zenon, <1>2, <1>4 DEF Reading, Proper
  <2> QED
    BY <2>3, <2>4, WithheldLater
<1>10. Withheld(h, q, m)
  BY <1>7, GuardedWithheld
<1>11. /\ guard' \in Guards /\ out' \in [Streams -> Seq(Printable)]
       /\ Withheld(guard', out', m)
       /\ \/ /\ phase' = phase /\ process' = process /\ result' = result /\ faults' = faults
             /\ Guarded(script, guard', out', m)
          \/ /\ phase' = "done" /\ process' = "reaped" /\ result' = "write"
             /\ faults < MaxFaults /\ faults' = faults + 1
  <2>1. CASE out' = q /\ Goes
    BY <1>7, <1>8, <1>10, <2>1 DEF Proper, Goes
  <2>2. CASE out' = out /\ Fault /\ Aborts("write")
    BY <1>7, <1>8, <1>9, <2>2 DEF Proper, Fault, Aborts
  <2> QED
    BY <1>8, <2>1, <2>2
<1>12. OutputTyped'
  <2>1. faults \in 0 .. MaxFaults /\ result \in Results
    BY DEF OutputInv, OutputTyped, OutputTypeOK, Results
  <2>2. faults' \in 0 .. MaxFaults /\ result' \in Results /\ phase' \in {"running", "done"}
        /\ process' \in {process, "reaped"}
    BY <1>3, <1>11, <2>1, OutputAssumption DEF Results
  <2> QED
    BY <1>2, <1>11, <2>2, ReadTyped
<1>13. got' = m /\ mode' = mode /\ script' = script
  BY Zenon, <1>2 DEF Reading
<1>14. Stages'
  BY <1>3, <1>11, <1>13 DEF OutputInv, Stages
<1>15. phase' = "running" => ReadToEnd'
  <2>1. ReadToEnd /\ ended \subseteq Streams
    BY <1>3 DEF OutputInv, OutputTyped, OutputTypeOK
  <2> QED
    BY <1>2, <1>11, <2>1, ReadingKeepsEnds
<1> QED
  BY <1>3, <1>11, <1>12, <1>13, <1>14, <1>15 DEF OutputInv, OutputComplete

\* A native session returns after both readers, with the guard flushed.
LEMMA NativeReturnsKeeps == OutputInv /\ NativeReturns => OutputInv'
<1> SUFFICES ASSUME OutputInv, NativeReturns PROVE OutputInv'
  OBVIOUS
<1>0. /\ phase = "running" /\ mode = "native" /\ process = "reaped" /\ ended = Streams
      /\ phase' = "done" /\ process' = process
      /\ mode' = mode /\ argv' = argv /\ printed' = printed /\ failed' = failed
      /\ script' = script /\ got' = got /\ ended' = ended
  BY DEF NativeReturns, Running, reading, command
<1>1. Proper(script, guard, out, got) /\ Guarded(script, guard, out, got)
      /\ ReadToEnd /\ result \in {"none", "read", "wait"}
  BY <1>0, ProperNow DEF OutputInv, Stages
<1>2. PICK written \in SUBSET Streams :
          /\ guard' = FlushedGuard(guard) /\ out' = FlushedOut(guard, out, written)
          /\ \/ /\ written = Streams /\ faults' = faults
                /\ result' = IF result = "none" THEN "code" ELSE result
             \/ faults < MaxFaults /\ faults' = faults + 1 /\ result' = "write"
  <2>1. CASE Flush(guard, Streams) /\ UNCHANGED faults
             /\ result' = IF result = "none" THEN "code" ELSE result
    BY <2>1 DEF Flush, FlushedGuard, FlushedOut
  <2>2. CASE FlushFails(guard) /\ result' = "write"
    <3>1. PICK written \in {{}, {"out"}} : Flush(guard, written)
      BY <2>2 DEF FlushFails
    <3>2. written \in SUBSET Streams
      BY DEF Streams
    <3> QED
      BY <2>2, <3>1, <3>2 DEF Flush, FlushedGuard, FlushedOut, FlushFails, Fault
  <2> QED
    BY <2>1, <2>2 DEF NativeReturns
<1>3. Proper(script, guard', out', got) /\ Withheld(guard', out', got)
  BY Zenon, <1>1, <1>2, FlushSound
<1>4. OutputTyped'
  BY <1>0, <1>1, <1>2, <1>3, OutputAssumption DEF OutputInv, OutputTyped, OutputTypeOK, Proper
<1>5. Stages'
  BY <1>0, <1>2 DEF Stages
<1>6. OutputComplete'
  <2> SUFFICES ASSUME result' = "code", NEW s \in Streams PROVE out'[s] = SubSeq(script[s], 1, printed[s])
    BY <1>0 DEF OutputComplete
  <2>1. result = "none" /\ written = Streams
    BY <1>1, <1>2
  <2>2. out'[s] = SubSeq(script[s], 1, got[s])
    BY <1>1, <1>2, <2>1, AllFlushed
  <2>3. got[s] = printed[s]
    BY <1>0, <1>1, <2>1 DEF ReadToEnd
  <2> QED
    BY Zenon, <2>2, <2>3
<1> QED
  BY <1>0, <1>3, <1>4, <1>5, <1>6 DEF OutputInv

\* A chunk of a managed agy is mirrored, or a failure is counted.
LEMMA DrainsKeeps == OutputInv /\ Drains => OutputInv'
<1> SUFFICES ASSUME OutputInv, Drains PROVE OutputInv'
  OBVIOUS
<1>1. PICK chunk \in Chunks("err") :
          /\ Running("pipe") /\ Receives("err", chunk)
          /\ \/ out' = [out EXCEPT !["err"] = @ \o chunk] /\ faults' = faults
             \/ out' = out /\ Fault
          /\ phase' = phase /\ process' = process /\ result' = result /\ guard' = guard
  BY DEF Drains
<1> DEFINE m == Advanced(got, "err", chunk)
<1>2. Reading("err", chunk, m)
  BY <1>1, ReceivesReads DEF Streams
<1> HIDE DEF m
<1>3. phase = "running" /\ mode = "pipe" /\ Mirrored /\ ReadToEnd
  BY <1>1 DEF Running, OutputInv
<1>4. /\ out \in [Streams -> Seq(Printable)] /\ faults \in 0 .. MaxFaults /\ result \in Results
      /\ guard \in Guards /\ "err" \in Streams /\ "out" \in Streams /\ "out" # "err"
      /\ MaxFaults \in Nat /\ ended \subseteq Streams
  BY OutputAssumption DEF OutputInv, OutputTyped, OutputTypeOK, Results, Streams
<1>5. chunk \in Seq(Printable)
  BY Zenon, <1>2 DEF Reading, IsNext
<1>6. out["err"] \o chunk \in Seq(Printable)
  BY <1>4, <1>5
<1>7. /\ out' \in [Streams -> Seq(Printable)] /\ out'["out"] = out["out"]
      /\ faults' \in 0 .. MaxFaults
      /\ \/ out'["err"] = out["err"] \o chunk /\ faults' = faults
         \/ out'["err"] = out["err"] /\ faults' # 0
  <2>1. CASE out' = [out EXCEPT !["err"] = @ \o chunk] /\ faults' = faults
    <3> DEFINE y == out["err"] \o chunk
    <3>1. out' = [out EXCEPT !["err"] = y] /\ y \in Seq(Printable)
      BY <2>1, <1>6
    <3> HIDE DEF y
    <3>2. out' \in [Streams -> Seq(Printable)] /\ out'["out"] = out["out"] /\ out'["err"] = y
      BY <1>4, <3>1
    <3> QED
      BY <1>4, <2>1, <3>2 DEF y
  <2>2. CASE out' = out /\ Fault
    BY <1>4, <2>2 DEF Fault
  <2> QED
    BY <1>1, <2>1, <2>2
<1>8. OutputTyped'
  BY <1>1, <1>2, <1>3, <1>4, <1>7, ReadTyped
<1>9. got' = m /\ mode' = mode /\ script' = script
      /\ m \in [Streams -> Nat] /\ m["err"] = got["err"] + Len(chunk)
      /\ SubSeq(script["err"], 1, got["err"]) \o chunk = SubSeq(script["err"], 1, m["err"])
  BY Zenon, <1>2 DEF Reading
<1>10. Stages'
  BY <1>1, <1>3, <1>9 DEF OutputInv, Stages
<1>11. Mirrored'
  <2>1. /\ script["out"] = <<>> /\ out["out"] = <<>> /\ Len(out["err"]) <= got["err"]
        /\ faults = 0 => out["err"] = SubSeq(script["err"], 1, got["err"])
    BY <1>3 DEF Mirrored
  <2>2. got["err"] \in Nat /\ Len(chunk) \in Nat /\ out["err"] \in Seq(Printable)
        /\ Len(out["err"]) \in Nat
    BY <1>4, <1>5 DEF OutputInv, OutputTyped
  <2>3. Len(out["err"] \o chunk) = Len(out["err"]) + Len(chunk)
    BY <2>2, <1>5
  <2>4. Len(out'["err"]) <= m["err"]
    BY <1>7, <1>9, <2>1, <2>2, <2>3
  <2>5. faults' = 0 => out'["err"] = SubSeq(script["err"], 1, m["err"])
    <3>1. CASE out'["err"] = out["err"] \o chunk /\ faults' = faults
      BY Zenon, <1>9, <2>1, <3>1
    <3>2. CASE faults' # 0
      BY <3>2
    <3> QED
      BY Zenon, <1>7, <3>1, <3>2
  <2>6. mode' # "inherit"
    BY <1>3, <1>9
  <2> QED
    BY Zenon, <1>7, <1>9, <2>1, <2>4, <2>5, <2>6 DEF Mirrored
<1>12. ReadToEnd'
  BY <1>1, <1>2, <1>3, <1>4, ReadingKeepsEnds
<1> QED
  BY <1>1, <1>3, <1>8, <1>9, <1>10, <1>11, <1>12 DEF OutputInv, OutputComplete

\* Every step of a command keeps the invariant.
LEMMA OutputInvKept == OutputInv /\ [OutputNext]_outputVars => OutputInv'
<1> SUFFICES ASSUME OutputInv, [OutputNext]_outputVars PROVE OutputInv'
  OBVIOUS
<1>1. CASE UNCHANGED outputVars
  BY <1>1 DEF outputVars, command, reading, shown, OutputInv, OutputTyped, OutputTypeOK,
     Stages, Unstarted, Mirrored, ReadToEnd, OutputComplete
<1>2. CASE Plans \/ Declines \/ Probes \/ ProbeEnds \/ ProbeTimesOut \/ Connects \/ Spawning
  BY <1>2, PlansKeeps, DeclinesKeeps, ProbesKeeps, ProbeEndsKeeps, ProbeTimesOutKeeps,
     ConnectsKeeps, SpawningKeeps
<1>3. CASE AgyEnds \/ Loop
  BY <1>3, AgyEndsKeeps, OpensKeeps, NativeReturnsKeeps, DrainsKeeps, ManagedReturnsKeeps DEF Loop
<1>4. CASE Faulty
  BY <1>4, FailureKeeps DEF Faulty
<1>5. CASE \E s \in Streams : Prints(s) \/ EndOfFile(s) \/ Feeds(s)
  BY <1>5, PrintsKeeps, EndOfFileKeeps, AuthRequiredKeeps, HoldsKeeps, ShowsKeeps DEF Feeds
<1> QED
  BY <1>1, <1>2, <1>3, <1>4, <1>5 DEF OutputNext

\* The inductive invariant: how far a command is, what its guard holds and shows
\* of what was read, and that nobody who read to the end left anything out.
THEOREM OutputInvariant == OutputSpec => []OutputInv
<1> QED
  BY InvStart, OutputInvKept, PTL DEF OutputSpec

\* Type correctness of a command that starts agy, for all command lines, outputs,
\* buffers and bounds.
THEOREM OutputTypeCorrect == OutputSpec => []OutputTypeOK
<1>1. OutputInv => OutputTypeOK
  BY DEF OutputInv, OutputTyped
<1> QED
  BY <1>1, OutputInvariant, PTL

\* NativeOutputGuard shows a marker only across the moment it opens, and only when
\* both streams printed (native_session.rs, feed and open).
THEOREM MarkersWithheld == OutputSpec => []MarkerWithheld
<1>1. OutputInv => MarkerWithheld
  BY Zenon DEF OutputInv, Withheld, MarkerWithheld, MarkAt
<1> QED
  BY <1>1, OutputInvariant, PTL

\* A command that ends with agy's status has shown everything its readers got,
\* which is everything agy printed (run_native_command, drain_stderr).
THEOREM OutputsComplete == OutputSpec => []OutputComplete
<1>1. OutputInv => OutputComplete
  BY DEF OutputInv
<1> QED
  BY <1>1, OutputInvariant, PTL

---------------------------------------------------------------------------
(* Words.                                                                  *)

\* The words before the first that is not of some kinds are of these kinds.
LEMMA FirstNotIs ==
    ASSUME NEW A, NEW w \in Seq(A), NEW kinds
    PROVE  /\ FirstNot(kinds, w) \in 1 .. Len(w) + 1
           /\ \A j \in 1 .. FirstNot(kinds, w) - 1 : w[j] \in kinds
           /\ FirstNot(kinds, w) <= Len(w) => w[FirstNot(kinds, w)] \notin kinds
<1> DEFINE bad == {i \in DOMAIN w : w[i] \notin kinds}
           r == FirstNot(kinds, w)
<1>1. DOMAIN w = 1 .. Len(w) /\ Len(w) \in Nat
  OBVIOUS
<1>2. r = IF bad = {} THEN Len(w) + 1 ELSE CHOOSE i \in bad : \A j \in bad : i <= j
  BY DEF FirstNot
<1>3. CASE bad = {}
  <2>1. \A j \in 1 .. Len(w) : w[j] \in kinds
    BY <1>1, <1>3
  <2> QED
    BY <1>1, <1>2, <1>3, <2>1
<1>4. CASE bad # {}
  <2>1. bad \in SUBSET Nat
    BY <1>1
  <2>2. \E i \in bad : \A j \in bad : i <= j
    <3> HIDE DEF bad
    <3> QED
      BY <1>4, <2>1, Least
  <2>3. r \in bad /\ \A j \in bad : r <= j
    <3> HIDE DEF bad, r
    <3> QED
      BY <1>2, <1>4, <2>2
  <2>4. r \in 1 .. Len(w) /\ w[r] \notin kinds
    BY <1>1, <2>3
  <2>5. ASSUME NEW j \in 1 .. r - 1 PROVE w[j] \in kinds
    <3> HIDE DEF r
    <3>1. j \in 1 .. Len(w) /\ ~ (r <= j)
      BY <1>1, <2>4
    <3> QED
      BY <1>1, <2>3, <3>1
  <2> QED
    BY <1>1, <2>4, <2>5
<1> QED
  BY <1>3, <1>4

\* What is left from an index on.
LEMMA FromIs ==
    ASSUME NEW A, NEW w \in Seq(A), NEW i \in 1 .. Len(w) + 1
    PROVE  /\ From(w, i) \in Seq(A) /\ Len(From(w, i)) = Len(w) - i + 1
           /\ \A j \in 1 .. Len(w) - i + 1 : From(w, i)[j] = w[i + j - 1]
BY DEF From

\* Sequences are told apart by their elements.
LEMMA SameSequence ==
    ASSUME NEW A, NEW a \in Seq(A), NEW b \in Seq(A), Len(a) = Len(b),
           \A j \in 1 .. Len(a) : a[j] = b[j]
    PROVE  a = b
OBVIOUS

\* The rest of a rest is a rest.
LEMMA FromFrom ==
    ASSUME NEW A, NEW w \in Seq(A), NEW i \in 1 .. Len(w) + 1, NEW k \in 1 .. Len(w) - i + 2
    PROVE  From(From(w, i), k) = From(w, (i + k) - 1)
<1> DEFINE u == From(w, i)
           a == From(u, k)
           m == (i + k) - 1
           b == From(w, m)
<1>1. /\ Len(w) \in Nat /\ i \in Nat /\ k \in Nat /\ m \in 1 .. Len(w) + 1
      /\ Len(w) - m + 1 = (Len(w) - i + 1) - k + 1
  OBVIOUS
<1>2. u \in Seq(A) /\ Len(u) = Len(w) - i + 1 /\ \A j \in 1 .. Len(w) - i + 1 : u[j] = w[i + j - 1]
  BY FromIs
<1>3. b \in Seq(A) /\ Len(b) = Len(w) - m + 1 /\ \A j \in 1 .. Len(w) - m + 1 : b[j] = w[m + j - 1]
  BY <1>1, FromIs
<1> HIDE DEF u
<1>4. k \in 1 .. Len(u) + 1
  BY <1>1, <1>2
<1>5. a \in Seq(A) /\ Len(a) = Len(u) - k + 1 /\ \A j \in 1 .. Len(u) - k + 1 : a[j] = u[k + j - 1]
  BY <1>2, <1>4, FromIs
<1> HIDE DEF a, b
<1>6. Len(a) = Len(b)
  BY <1>1, <1>2, <1>3, <1>5
<1>7. ASSUME NEW j \in 1 .. Len(a) PROVE a[j] = b[j]
  <2>1. /\ j \in 1 .. Len(u) - k + 1 /\ k + j - 1 \in 1 .. Len(w) - i + 1
        /\ j \in 1 .. Len(w) - m + 1 /\ i + (k + j - 1) - 1 = m + j - 1
    BY <1>1, <1>2, <1>4, <1>5
  <2>2. a[j] = u[k + j - 1]
    BY <1>5, <2>1
  <2>3. u[k + j - 1] = w[i + (k + j - 1) - 1]
    BY <1>2, <2>1
  <2>4. b[j] = w[m + j - 1]
    BY <1>3, <2>1
  <2> HIDE DEF m
  <2> QED
    BY Zenon, <2>1, <2>2, <2>3, <2>4
<1>8. a = b
  BY Zenon, <1>3, <1>5, <1>6, <1>7, SameSequence
<1> QED
  BY <1>8 DEF a, b, u

\* What is left begins with its first word and goes on with what is left after it.
LEMMA TailFrom ==
    ASSUME NEW A, NEW w \in Seq(A), NEW i \in 1 .. Len(w)
    PROVE  /\ From(w, i) # <<>> /\ Head(From(w, i)) = w[i]
           /\ Tail(From(w, i)) = From(w, i + 1)
<1> DEFINE u == From(w, i)
           a == Tail(u)
           b == From(w, i + 1)
<1>1. i \in 1 .. Len(w) + 1 /\ i + 1 \in 1 .. Len(w) + 1 /\ Len(w) \in Nat /\ i \in Nat
  OBVIOUS
<1>2. u \in Seq(A) /\ Len(u) = Len(w) - i + 1 /\ \A j \in 1 .. Len(w) - i + 1 : u[j] = w[i + j - 1]
  BY <1>1, FromIs
<1>3. /\ b \in Seq(A) /\ Len(b) = Len(w) - (i + 1) + 1
      /\ \A j \in 1 .. Len(w) - (i + 1) + 1 : b[j] = w[i + 1 + j - 1]
  BY <1>1, FromIs
<1> HIDE DEF u, b
<1>4. u # <<>> /\ Len(u) \in Nat \ {0}
  BY <1>1, <1>2
<1>5. Head(u) = w[i]
  <2>1. 1 \in 1 .. Len(w) - i + 1 /\ i + 1 - 1 = i
    BY <1>1
  <2>2. u[1] = w[i]
    BY <1>2, <2>1
  <2> QED
    BY <1>2, <1>4, <2>2
<1>6. a \in Seq(A) /\ Len(a) = Len(u) - 1 /\ \A j \in 1 .. Len(u) - 1 : a[j] = u[j + 1]
  BY <1>2, <1>4
<1> HIDE DEF a
<1>7. Len(a) = Len(b)
  BY <1>1, <1>2, <1>3, <1>6
<1>8. ASSUME NEW j \in 1 .. Len(a) PROVE a[j] = b[j]
  <2>1. /\ j \in 1 .. Len(u) - 1 /\ j + 1 \in 1 .. Len(w) - i + 1
        /\ j \in 1 .. Len(w) - (i + 1) + 1 /\ i + (j + 1) - 1 = i + 1 + j - 1
    BY <1>1, <1>2, <1>4, <1>6
  <2>2. a[j] = u[j + 1] /\ u[j + 1] = w[i + (j + 1) - 1] /\ b[j] = w[i + 1 + j - 1]
    BY <1>2, <1>3, <1>6, <2>1
  <2> QED
    BY Zenon, <2>1, <2>2
<1>9. a = b
  BY Zenon, <1>3, <1>6, <1>7, <1>8, SameSequence
<1> QED
  BY <1>4, <1>5, <1>9 DEF a, b, u

\* After the last word nothing is left.
LEMMA FromEnd ==
    ASSUME NEW A, NEW w \in Seq(A) PROVE From(w, Len(w) + 1) = <<>>
BY DEF From

\* What the words before an index are, and that no other separator is first.
Forwards(w, agy) ==
    \E i \in 1 .. Len(w) + 1 :
        /\ agy = From(w, i)
        /\ \A j \in 1 .. i - 1 : w[j] \in Prefix \cup LaunchFlags \cup {"--", "launch"}
        /\ i <= Len(w) /\ w[i] = "--" => \E j \in 1 .. i - 1 : w[j] = "--"

\* The part of the words from i + 1 on that clap leaves to agy.
LEMMA ParsedForwards ==
    ASSUME NEW w \in Seq(Words), NEW i \in 1 .. Len(w), w[i] = "launch",
           \A j \in 1 .. i - 1 : w[j] \in Prefix, ParsedLaunch(From(w, i + 1)).launch
    PROVE  Forwards(w, ParsedLaunch(From(w, i + 1)).agy)
<1> DEFINE u == From(w, i + 1)
           k == FirstNot(LaunchFlags, u)
           p == ParsedLaunch(u)
<1>1. i + 1 \in 1 .. Len(w) + 1 /\ Len(w) \in Nat
  OBVIOUS
<1>2. u \in Seq(Words) /\ Len(u) = Len(w) - i /\ \A j \in 1 .. Len(w) - i : u[j] = w[i + j]
  <2>1. /\ u \in Seq(Words) /\ Len(u) = Len(w) - (i + 1) + 1
        /\ \A j \in 1 .. Len(w) - (i + 1) + 1 : u[j] = w[i + 1 + j - 1]
    BY <1>1, FromIs
  <2>2. Len(w) - (i + 1) + 1 = Len(w) - i /\ \A j \in Nat : i + 1 + j - 1 = i + j
    BY <1>1
  <2> HIDE DEF u
  <2> QED
    BY <2>1, <2>2
<1> HIDE DEF u
<1>3. /\ k \in 1 .. Len(u) + 1 /\ \A j \in 1 .. k - 1 : u[j] \in LaunchFlags
      /\ k <= Len(u) => u[k] \notin LaunchFlags
  BY <1>2, FirstNotIs
<1>4. /\ p.launch
      /\ \/ k > Len(u) /\ p.agy = <<>>
         \/ k <= Len(u) /\ u[k] = "--" /\ p.agy = From(u, k + 1)
         \/ k <= Len(u) /\ u[k] \in BareWords /\ p.agy = From(u, k)
  <2>1. p.launch
    BY DEF u
  <2>2. Other.launch = FALSE /\ \A f, a : Launch(f, a).agy = a
    BY DEF Other, Launch
  <2>3. k \in Nat /\ Len(u) \in Nat /\ (k > Len(u) \/ k <= Len(u))
    BY <1>2, <1>3
  <2> QED
    BY <2>1, <2>2, <2>3 DEF ParsedLaunch
<1> HIDE DEF p, k
<1>5. ASSUME NEW j \in 1 .. (i + k) - 1
      PROVE  w[j] \in Prefix \cup LaunchFlags \cup {"--", "launch"}
  <2>1. CASE j < i
    BY <2>1
  <2>2. CASE j = i
    BY <2>2
  <2>3. CASE j > i
    <3>1. j - i \in 1 .. k - 1 /\ j - i \in 1 .. Len(w) - i /\ i + (j - i) = j
      BY <1>1, <1>2, <1>3, <2>3
    <3>2. u[j - i] = w[j] /\ u[j - i] \in LaunchFlags
      BY <1>2, <1>3, <3>1
    <3> QED
      BY <3>2
  <2> QED
    BY <1>1, <1>3, <2>1, <2>2, <2>3
<1>6. CASE k > Len(u) /\ p.agy = <<>>
  <2>1. i + k = Len(w) + 1 /\ i + k \in 1 .. Len(w) + 1
    BY <1>1, <1>2, <1>3, <1>6
  <2>2. p.agy = From(w, i + k)
    BY <1>6, <2>1, FromEnd
  <2>3. ~ (i + k <= Len(w))
    BY <1>1, <2>1
  <2> QED
    BY <1>5, <2>1, <2>2, <2>3 DEF Forwards, p, u
<1>7. CASE k <= Len(u) /\ u[k] \in BareWords /\ p.agy = From(u, k)
  <2>1. i + k \in 1 .. Len(w) + 1 /\ k \in 1 .. Len(w) - (i + 1) + 2 /\ ((i + 1) + k) - 1 = i + k
        /\ k \in 1 .. Len(w) - i
    BY <1>1, <1>2, <1>3, <1>7
  <2>2. From(From(w, i + 1), k) = From(w, ((i + 1) + k) - 1)
    BY <1>1, <2>1, FromFrom
  <2>3. p.agy = From(w, i + k)
    BY <1>7, <2>1, <2>2 DEF u
  <2>4. w[i + k] # "--"
    BY <1>2, <1>7, <2>1 DEF BareWords, Commands
  <2> QED
    BY <1>5, <2>1, <2>3, <2>4 DEF Forwards, p, u
<1>8. CASE k <= Len(u) /\ u[k] = "--" /\ p.agy = From(u, k + 1)
  <2>1. /\ i + k + 1 \in 1 .. Len(w) + 1 /\ k + 1 \in 1 .. Len(w) - (i + 1) + 2
        /\ ((i + 1) + (k + 1)) - 1 = i + k + 1 /\ k \in 1 .. Len(w) - i
        /\ i + k \in 1 .. (i + k + 1) - 1
        /\ \A j \in 1 .. (i + k + 1) - 1 : j = i + k \/ j \in 1 .. (i + k) - 1
    BY <1>1, <1>2, <1>3, <1>8
  <2>2. From(From(w, i + 1), k + 1) = From(w, ((i + 1) + (k + 1)) - 1)
    BY <1>1, <2>1, FromFrom
  <2>3. p.agy = From(w, i + k + 1)
    BY <1>8, <2>1, <2>2 DEF u
  <2>4. w[i + k] = "--"
    BY <1>2, <1>8, <2>1
  <2>5. \A j \in 1 .. (i + k + 1) - 1 : w[j] \in Prefix \cup LaunchFlags \cup {"--", "launch"}
    BY <1>5, <2>1, <2>4
  <2> QED
    BY <2>1, <2>3, <2>4, <2>5 DEF Forwards, p, u
<1> QED
  BY <1>4, <1>6, <1>7, <1>8

\* What the route hands to agy is what is left after sagy's own words.
LEMMA RouteForwards ==
    ASSUME NEW w \in Seq(Words), Route(w).launch
    PROVE  Forwards(w, Route(w).agy)
<1> DEFINE i == FirstNot(Prefix, w)
           rest == From(w, i)
           p == Route(w)
           first == IF rest = <<>> THEN "none" ELSE Head(rest)
<1>1. /\ i \in 1 .. Len(w) + 1 /\ \A j \in 1 .. i - 1 : w[j] \in Prefix
      /\ i <= Len(w) => w[i] \notin Prefix
  BY FirstNotIs
<1> HIDE DEF i
<1>2. i <= Len(w) => first = w[i] /\ rest # <<>> /\ Tail(rest) = From(w, i + 1)
  BY <1>1, TailFrom
<1>3. i > Len(w) => rest = <<>> /\ first = "none"
  BY <1>1, FromEnd
<1>4. \/ p.agy = rest /\ first # "--"
      \/ p.agy = Tail(rest) /\ first = "--"
      \/ p = ParsedLaunch(Tail(rest)) /\ first = "launch"
  <2>1. p.launch
    OBVIOUS
  <2>2. Other.launch = FALSE /\ \A f, a : Launch(f, a).agy = a
    BY DEF Other, Launch
  <2>3. p = IF first = "--help" THEN Other
        ELSE IF Range(SubSeq(w, 1, i - 1)) \cap Shortcuts = {} /\ first \notin Commands \cup {"--", "none"}
             THEN Launch({}, rest)
        ELSE IF ~IsInjective(SubSeq(w, 1, i - 1)) THEN Other
        ELSE IF first = "--" THEN Launch((Range(SubSeq(w, 1, i - 1)) \cap Shortcuts) \cup {"--no-resume"}, Tail(rest))
        ELSE IF Range(SubSeq(w, 1, i - 1)) \cap Shortcuts # {} \/ first = "none"
             THEN Launch(Range(SubSeq(w, 1, i - 1)) \cap Shortcuts, rest)
        ELSE IF first = "launch" THEN ParsedLaunch(Tail(rest))
        ELSE Other
    BY DEF Route, i
  <2> DEFINE inj == IsInjective(SubSeq(w, 1, i - 1))
             sh == Range(SubSeq(w, 1, i - 1)) \cap Shortcuts
  <2> HIDE DEF p, first, rest, inj, sh
  <2> QED
    BY <2>1, <2>2, <2>3 DEF inj, sh
<1>5. Len(w) \in Nat /\ (i <= Len(w) \/ i > Len(w))
  BY <1>1
<1>6. CASE p.agy = rest /\ first # "--"
  <2>1. i <= Len(w) => w[i] # "--"
    BY <1>2, <1>6
  <2> HIDE DEF first
  <2> QED
    BY <1>1, <1>6, <2>1 DEF Forwards
<1>7. CASE p.agy = Tail(rest) /\ first = "--"
  <2>1. i <= Len(w)
    BY <1>3, <1>5, <1>7
  <2>2. w[i] = "--" /\ p.agy = From(w, i + 1)
    BY <1>2, <1>7, <2>1
  <2>3. i + 1 \in 1 .. Len(w) + 1 /\ i \in 1 .. (i + 1) - 1
        /\ \A j \in 1 .. (i + 1) - 1 : j = i \/ j \in 1 .. i - 1
    BY <1>1, <1>5, <2>1
  <2>4. \A j \in 1 .. (i + 1) - 1 : w[j] \in Prefix \cup LaunchFlags \cup {"--", "launch"}
    BY <1>1, <2>2, <2>3
  <2> HIDE DEF p, first, rest
  <2> QED
    BY <2>2, <2>3, <2>4 DEF Forwards, p
<1>8. CASE p = ParsedLaunch(Tail(rest)) /\ first = "launch"
  <2>1. i <= Len(w)
    BY <1>3, <1>5, <1>8
  <2>2. w[i] = "launch" /\ p = ParsedLaunch(From(w, i + 1)) /\ i \in 1 .. Len(w)
    <3>1. first = w[i] /\ Tail(rest) = From(w, i + 1)
      BY <1>2, <2>1
    <3>2. i \in 1 .. Len(w)
      BY <1>1, <2>1
    <3> HIDE DEF p, rest, first
    <3> QED
      BY Zenon, <1>8, <3>1, <3>2
  <2> QED
    BY <1>1, <2>2, ParsedForwards
<1> QED
  BY <1>4, <1>6, <1>7, <1>8

\* What the library's FlattenSeq computes, by a function that is its own prefix.
NextFlat(seqs, g) ==
    [i \in 1 .. Len(seqs) |-> IF i = 1 THEN seqs[i] ELSE g[i - 1] \o seqs[i]]

\* Every function that computes the flattening by prefixes computes it.
LEMMA FlattenIs ==
    ASSUME NEW seqs, NEW n \in Nat \ {0}, Len(seqs) = n, NEW f, f = NextFlat(seqs, f)
    PROVE  FlattenSeq(seqs) = f[n]
<1> DEFINE g == CHOOSE h : h = NextFlat(seqs, h)
<1>1. g = NextFlat(seqs, g)
  <2>1. \E h : h = NextFlat(seqs, h)
    OBVIOUS
  <2> QED
    BY Zenon, <2>1
<1>2. FlattenSeq(seqs) = g[n]
  <2>1. Len(seqs) # 0
    OBVIOUS
  <2> QED
    BY Zenon, <2>1 DEF FlattenSeq, NextFlat
<1> HIDE DEF g
<1> DEFINE S == {k \in 0 .. n : k = 0 \/ g[k] = f[k]}
<1>3. \A k \in 1 .. n : /\ g[k] = IF k = 1 THEN seqs[k] ELSE g[k - 1] \o seqs[k]
                        /\ f[k] = IF k = 1 THEN seqs[k] ELSE f[k - 1] \o seqs[k]
  BY Zenon, <1>1 DEF NextFlat
<1>4. 0 \in S
  OBVIOUS
<1>5. ASSUME NEW k \in 0 .. n, k \in S, k + 1 <= n PROVE k + 1 \in S
  <2>1. k + 1 \in 1 .. n /\ (k + 1) - 1 = k /\ (k = 0 => k + 1 = 1) /\ (k # 0 => k + 1 # 1)
    BY <1>5
  <2>2. g[k + 1] = f[k + 1]
    <3>1. k = 0 \/ g[k] = f[k]
      BY <1>5
    <3>2. CASE k = 0
      BY Zenon, <1>3, <2>1, <3>2
    <3>3. CASE k # 0
      <4>1. /\ g[k + 1] = IF k + 1 = 1 THEN seqs[k + 1] ELSE g[(k + 1) - 1] \o seqs[k + 1]
            /\ f[k + 1] = IF k + 1 = 1 THEN seqs[k + 1] ELSE f[(k + 1) - 1] \o seqs[k + 1]
        BY Zenon, <1>3, <2>1
      <4>2. k + 1 # 1 /\ (k + 1) - 1 = k /\ g[k] = f[k]
        BY <2>1, <3>1, <3>3
      <4>3. g[(k + 1) - 1] = f[(k + 1) - 1]
        BY Zenon, <4>2
      <4> QED
        BY Zenon, <4>1, <4>2, <4>3
    <3> QED
      BY <3>2, <3>3
  <2> QED
    BY <2>1, <2>2
<1>6. n \in S
  <2> HIDE DEF S
  <2> QED
    BY <1>4, <1>5, Ascending
<1> QED
  BY <1>2, <1>6

\* A sequence grows by the next element.
LEMMA SubSeqGrows ==
    ASSUME NEW A, NEW w \in Seq(A), NEW a \in 1 .. Len(w), NEW k \in a .. Len(w)
    PROVE  SubSeq(w, a, k) = SubSeq(w, a, k - 1) \o <<w[k]>>
OBVIOUS

\* The first word alone.
LEMMA FirstAlone ==
    ASSUME NEW A, NEW w \in Seq(A), Len(w) # 0 PROVE SubSeq(w, 1, 1) = <<w[1]>>
<1>1. w[1] \in A /\ Len(w) \in Nat /\ 1 \in 1 .. Len(w)
  OBVIOUS
<1>2. SubSeq(w, 1, 1) \in Seq(A) /\ Len(SubSeq(w, 1, 1)) = 1 /\ SubSeq(w, 1, 1)[1] = w[1]
  BY <1>1
<1>3. <<w[1]>> \in Seq(A) /\ Len(<<w[1]>>) = 1 /\ <<w[1]>>[1] = w[1]
  BY <1>1
<1> DEFINE a == SubSeq(w, 1, 1)
           b == <<w[1]>>
<1> HIDE DEF a, b
<1>4. a \in Seq(A) /\ b \in Seq(A) /\ Len(a) = Len(b) /\ \A j \in 1 .. Len(a) : a[j] = b[j]
  BY <1>2, <1>3 DEF a, b
<1>5. a = b
  BY Zenon, <1>4, SameSequence
<1> QED
  BY <1>5 DEF a, b

\* Words that stand alone put together are the words.
LEMMA FlattenSingle ==
    ASSUME NEW w \in Seq(Words) PROVE FlattenSeq(Single(w)) = w
<1> DEFINE n == Len(w)
           f == [k \in 1 .. n |-> SubSeq(w, 1, k)]
<1>1. DOMAIN w = 1 .. n /\ n \in Nat
  OBVIOUS
<1>2. Single(w) = [i \in 1 .. n |-> <<w[i]>>] /\ Len(Single(w)) = n
  BY <1>1 DEF Single
<1>3. CASE n = 0
  BY <1>2, <1>3 DEF FlattenSeq
<1>4. CASE n # 0
  <2>1. ASSUME NEW k \in 1 .. n
        PROVE  f[k] = IF k = 1 THEN Single(w)[k] ELSE f[k - 1] \o Single(w)[k]
    <3>1. Single(w)[k] = <<w[k]>> /\ f[k] = SubSeq(w, 1, k)
      BY <1>2
    <3>2. CASE k = 1
      <4>1. SubSeq(w, 1, 1) = <<w[1]>>
        BY <1>1, <1>4, FirstAlone
      <4> QED
        BY <3>1, <3>2, <4>1
    <3>3. CASE k # 1
      <4>1. f[k - 1] = SubSeq(w, 1, k - 1)
        BY <1>1, <3>3
      <4>2. 1 \in 1 .. Len(w) /\ k \in 1 .. Len(w)
        BY <1>1
      <4>3. SubSeq(w, 1, k) = SubSeq(w, 1, k - 1) \o <<w[k]>>
        BY <4>2, SubSeqGrows
      <4> QED
        BY Zenon, <3>1, <3>3, <4>1, <4>3
    <3> QED
      BY <3>2, <3>3
  <2>2. f = NextFlat(Single(w), f)
    <3>1. f = [k \in 1 .. n |-> f[k]]
      OBVIOUS
    <3> HIDE DEF f, n
    <3>2. [k \in 1 .. n |-> f[k]] = [k \in 1 .. n |-> IF k = 1 THEN Single(w)[k] ELSE f[k - 1] \o Single(w)[k]]
      BY Zenon, <2>1
    <3> QED
      BY Zenon, <1>2, <3>1, <3>2 DEF NextFlat
  <2>3. FlattenSeq(Single(w)) = f[n]
    <3>1. n \in Nat \ {0}
      BY <1>1, <1>4
    <3> HIDE DEF f, n
    <3> QED
      BY Zenon, <1>2, <2>2, <3>1, FlattenIs
  <2>4. f[n] = SubSeq(w, 1, n)
    BY <1>1, <1>4
  <2>5. SubSeq(w, 1, Len(w)) = w
    OBVIOUS
  <2> QED
    BY Zenon, <2>3, <2>4, <2>5
<1> QED
  BY <1>3, <1>4

\* Words that stand alone are sequences of words.
LEMMA SequenceOfWords ==
    ASSUME NEW m \in Nat, NEW r, \A j \in 1 .. m : <<r[j]>> \in Seq(Words)
    PROVE  [j \in 1 .. m |-> <<r[j]>>] \in Seq(Seq(Words))
<1> DEFINE e(j) == <<r[j]>>
<1>1. \A j \in 1 .. m : e(j) \in Seq(Words)
  OBVIOUS
<1> HIDE DEF e
<1>2. [j \in 1 .. m |-> e(j)] \in Seq(Seq(Words))
  BY <1>1
<1> QED
  BY <1>2 DEF e

\* With the prompt put together.
LEMMA FlattenPrompt ==
    ASSUME NEW w \in Seq(Words), NEW i \in 1 .. Len(w) + 1
    PROVE  FlattenSeq(<<<<"-p">>, SubSeq(w, 1, i - 1)>> \o Single(From(w, i))) = <<"-p">> \o w
<1> DEFINE rest == From(w, i)
           m == Len(w) - i + 1
           n == m + 2
           seqs == <<<<"-p">>, SubSeq(w, 1, i - 1)>> \o Single(rest)
           f == [k \in 1 .. n |-> IF k = 1 THEN <<"-p">> ELSE <<"-p">> \o SubSeq(w, 1, (i + k) - 3)]
<1>1. /\ m \in Nat /\ Len(w) \in Nat /\ i \in Nat \ {0} /\ rest \in Seq(Words) /\ Len(rest) = m
      /\ \A j \in 1 .. m : rest[j] = w[i + j - 1]
  BY FromIs
<1>2. Single(rest) \in Seq(Seq(Words)) /\ Len(Single(rest)) = m
      /\ \A j \in 1 .. m : Single(rest)[j] = <<w[i + j - 1]>>
  <2> HIDE DEF rest, m
  <2>1. DOMAIN rest = 1 .. m
    BY <1>1
  <2>2. Single(rest) = [j \in 1 .. m |-> <<rest[j]>>] /\ \A j \in 1 .. m : rest[j] \in Words
    BY <1>1, <2>1 DEF Single
  <2>3. \A j \in 1 .. m : <<rest[j]>> \in Seq(Words)
    BY <2>2
  <2>4. Len(Single(rest)) = m
    BY <1>1, <2>2
  <2>5. Single(rest) \in Seq(Seq(Words))
    <3>1. m \in Nat
      BY <1>1
    <3>2. [j \in 1 .. m |-> <<rest[j]>>] \in Seq(Seq(Words))
      BY <2>3, <3>1, SequenceOfWords
    <3> QED
      BY <2>2, <3>2
  <2>6. \A j \in 1 .. m : Single(rest)[j] = <<w[i + j - 1]>>
    BY Zenon, <1>1, <2>2
  <2> QED
    BY Zenon, <2>4, <2>5, <2>6
<1>3. SubSeq(w, 1, i - 1) \in Seq(Words) /\ <<"-p">> \in Seq(Words)
  BY <1>1 DEF Words, SessionWish
<1> DEFINE x == SubSeq(w, 1, i - 1)
           y == Single(rest)
           z == <<"-p">>
<1>4. /\ Len(seqs) = n /\ seqs[1] = z /\ seqs[2] = x
      /\ \A j \in 1 .. m : seqs[j + 2] = y[j]
  <2>1. x \in Seq(Words) /\ z \in Seq(Words) /\ y \in Seq(Seq(Words)) /\ Len(y) = m /\ m \in Nat
    BY <1>1, <1>2, <1>3
  <2>2. seqs = <<z, x>> \o y
    OBVIOUS
  <2> HIDE DEF x, y, z, m, rest, seqs
  <2>3. <<z, x>> \in Seq(Seq(Words)) /\ Len(<<z, x>>) = 2 /\ <<z, x>>[1] = z /\ <<z, x>>[2] = x
    BY <2>1
  <2>4. Join(<<z, x>>, y)
    BY Zenon, <2>1, <2>3, Joined
  <2>5. /\ Len(seqs) = 2 + m /\ (\A j \in 1 .. 2 : seqs[j] = <<z, x>>[j])
        /\ \A j \in 1 .. m : seqs[2 + j] = y[j]
    BY Zenon, <2>1, <2>2, <2>3, <2>4 DEF Join
  <2>6. 2 + m = n /\ 1 \in 1 .. 2 /\ 2 \in 1 .. 2 /\ \A j \in 1 .. m : 2 + j = j + 2
    BY <2>1
  <2>7. seqs[1] = z /\ seqs[2] = x /\ Len(seqs) = n
    BY <2>3, <2>5, <2>6
  <2> QED
    BY <2>5, <2>6, <2>7
<1>5. n \in Nat \ {0} /\ 1 \in 1 .. n /\ 2 \in 1 .. n
  BY <1>1
<1>6. ASSUME NEW k \in 1 .. n
      PROVE  f[k] = IF k = 1 THEN seqs[k] ELSE f[k - 1] \o seqs[k]
  <2>1. CASE k = 1
    <3>1. f[1] = z
      BY <1>5
    <3> QED
      BY <1>4, <2>1, <3>1
  <2>2. CASE k = 2
    <3>1. f[1] = z /\ f[2] = z \o SubSeq(w, 1, (i + 2) - 3) /\ (i + 2) - 3 = i - 1 /\ 2 # 1 /\ 2 - 1 = 1
      BY <1>1, <1>5
    <3>2. f[2] = z \o x
      BY Zenon, <3>1
    <3> HIDE DEF f, seqs, x, z
    <3> QED
      BY Zenon, <1>4, <2>2, <3>1, <3>2
  <2>3. CASE k # 1 /\ k # 2
    <3> DEFINE l == (i + k) - 3
    <3>1. /\ k - 1 \in 1 .. n /\ k - 1 # 1 /\ l \in 1 .. Len(w) /\ (i + (k - 1)) - 3 = l - 1
          /\ k - 2 \in 1 .. m /\ (k - 2) + 2 = k /\ i + (k - 2) - 1 = l
      BY <1>1, <2>3
    <3>2. f[k] = z \o SubSeq(w, 1, l) /\ f[k - 1] = z \o SubSeq(w, 1, (i + (k - 1)) - 3)
      BY <2>3, <3>1
    <3>3. seqs[k] = <<w[l]>>
      BY Zenon, <1>2, <1>4, <3>1
    <3>4. SubSeq(w, 1, l) = SubSeq(w, 1, l - 1) \o <<w[l]>>
      <4>1. 1 \in 1 .. Len(w) /\ l \in 1 .. Len(w)
        BY <1>1, <3>1
      <4> HIDE DEF l
      <4> QED
        BY <4>1, SubSeqGrows
    <3>5. JoinThrice(z, SubSeq(w, 1, l - 1), <<w[l]>>)
      <4>1. SubSeq(w, 1, l - 1) \in Seq(Words) /\ <<w[l]>> \in Seq(Words)
        BY <3>1, <1>1
      <4> HIDE DEF l, z
      <4> QED
        BY Zenon, <1>3, <4>1, JoinedThrice DEF z
    <3> HIDE DEF f, l, z, seqs
    <3> QED
      BY Zenon, <2>3, <3>1, <3>2, <3>3, <3>4, <3>5 DEF JoinThrice
  <2> QED
    BY <2>1, <2>2, <2>3
<1>7. f = NextFlat(seqs, f)
  <2>1. f = [k \in 1 .. n |-> f[k]]
    OBVIOUS
  <2>2. Len(seqs) = n
    BY <1>4
  <2> HIDE DEF f, n, seqs
  <2>3. [k \in 1 .. n |-> f[k]] = [k \in 1 .. n |-> IF k = 1 THEN seqs[k] ELSE f[k - 1] \o seqs[k]]
    BY Zenon, <1>6
  <2> QED
    BY Zenon, <2>1, <2>2, <2>3 DEF NextFlat
<1>8. FlattenSeq(seqs) = f[n]
  <2>1. Len(seqs) = n
    BY <1>4
  <2> HIDE DEF f, n, seqs
  <2> QED
    BY Zenon, <1>5, <1>7, <2>1, FlattenIs
<1>9. f[n] = z \o w
  <2>1. n \in 1 .. n /\ n # 1 /\ (i + n) - 3 = Len(w)
    BY <1>1
  <2>2. f[n] = z \o SubSeq(w, 1, (i + n) - 3)
    BY <2>1
  <2>3. SubSeq(w, 1, Len(w)) = w
    OBVIOUS
  <2> HIDE DEF f, n, z
  <2> QED
    BY Zenon, <2>1, <2>2, <2>3
<1> QED
  BY <1>8, <1>9

\* Nothing is lost and nothing changes its place when the prompt is put together.
LEMMA CompactedWhole ==
    ASSUME NEW w \in Seq(Words)
    PROVE  FlattenSeq(Compacted(w)) = (IF LeadingPrompt(w) THEN <<"-p">> ELSE <<>>) \o w
<1>1. FirstNot(BareWords, w) \in 1 .. Len(w) + 1
  BY FirstNotIs
<1>2. CASE LeadingPrompt(w)
  BY Zenon, <1>1, <1>2, FlattenPrompt DEF Compacted
<1>3. CASE ~ LeadingPrompt(w)
  <2>1. <<>> \o w = w
    OBVIOUS
  <2> QED
    BY Zenon, <1>3, <2>1, FlattenSingle DEF Compacted
<1> QED
  BY <1>2, <1>3

\* What WishesSession computes, by its own recursive function.
NextWish(w, wish) ==
    [i \in 1..(Len(w) + 2) |->
            IF i > Len(w) THEN FALSE
            ELSE CASE w[i] = "--"      -> i < Len(w)
                   [] w[i] = "--model" -> wish[i + 2]
                   [] w[i] \in SessionWish \cup BareWords -> TRUE
                   [] OTHER            -> wish[i + 1]]

\* Such a function exists.
LEMMA WishExists == \A w \in Seq(Words) : \E f : f = NextWish(w, f)
<1> SUFFICES ASSUME NEW w \in Seq(Words) PROVE \E f : f = NextWish(w, f)
  OBVIOUS
<1> DEFINE l == Len(w)
           n == l + 2
           Ga == [1 .. n -> BOOLEAN]
           H == [g \in Ga |-> NextWish(w, g)]
<1>1. l \in Nat /\ n \in Nat /\ n = l + 2
  OBVIOUS
<1>2. \A g : NextWish(w, g) = [i \in 1 .. n |-> NextWish(w, g)[i]]
  BY DEF NextWish
<1>3. ASSUME NEW g, NEW i \in 1 .. n
      PROVE NextWish(w, g)[i] = IF i > l THEN FALSE
            ELSE CASE w[i] = "--"      -> i < l
                   [] w[i] = "--model" -> g[i + 2]
                   [] w[i] \in SessionWish \cup BareWords -> TRUE
                   [] OTHER            -> g[i + 1]
  BY Zenon DEF NextWish
<1> HIDE DEF l, n
<1>4. ASSUME NEW g, NEW i \in 1 .. n
      PROVE /\ i > l => NextWish(w, g)[i] = FALSE
            /\ ~(i > l) /\ w[i] = "--" => NextWish(w, g)[i] = (i < l)
            /\ ~(i > l) /\ w[i] = "--model" => NextWish(w, g)[i] = g[i + 2]
            /\ ~(i > l) /\ w[i] # "--" /\ w[i] # "--model" /\ w[i] \in SessionWish \cup BareWords
                 => NextWish(w, g)[i] = TRUE
            /\ ~(i > l) /\ w[i] # "--" /\ w[i] # "--model" /\ w[i] \notin SessionWish \cup BareWords
                 => NextWish(w, g)[i] = g[i + 1]
  <2>0. /\ "--" # "--model" /\ "--" \notin SessionWish \cup BareWords
        /\ "--model" \notin SessionWish \cup BareWords
    BY DEF SessionWish, BareWords, Commands
  <2>1. NextWish(w, g)[i] = IF i > l THEN FALSE
            ELSE CASE w[i] = "--"      -> i < l
                   [] w[i] = "--model" -> g[i + 2]
                   [] w[i] \in SessionWish \cup BareWords -> TRUE
                   [] OTHER            -> g[i + 1]
    BY Zenon, <1>3
  <2>2. CASE i > l
    BY Zenon, <2>1, <2>2
  <2>3. CASE ~(i > l) /\ w[i] = "--"
    <3>1. w[i] # "--model" /\ w[i] \notin SessionWish \cup BareWords
      BY Zenon, <2>0, <2>3
    <3> QED
      BY Zenon, <2>1, <2>3, <3>1
  <2>4. CASE ~(i > l) /\ w[i] = "--model"
    <3>1. w[i] # "--" /\ w[i] \notin SessionWish \cup BareWords
      BY Zenon, <2>0, <2>4
    <3> QED
      BY Zenon, <2>1, <2>4, <3>1
  <2>5. CASE ~(i > l) /\ w[i] # "--" /\ w[i] # "--model" /\ w[i] \in SessionWish \cup BareWords
    BY Zenon, <2>1, <2>5
  <2>6. CASE ~(i > l) /\ w[i] # "--" /\ w[i] # "--model" /\ w[i] \notin SessionWish \cup BareWords
    BY Zenon, <2>1, <2>6
  <2> QED
    BY Zenon, <2>2, <2>3, <2>4, <2>5, <2>6
<1> HIDE DEF H
<1>5. \A g \in Ga : H[g] = NextWish(w, g)
  BY DEF H
<1>6. ASSUME NEW g \in Ga PROVE NextWish(w, g) \in Ga
  <2>1. ASSUME NEW i \in 1 .. n PROVE NextWish(w, g)[i] \in BOOLEAN
    <3>1. (i < l) \in BOOLEAN /\ TRUE \in BOOLEAN /\ FALSE \in BOOLEAN
      OBVIOUS
    <3>2. ~(i > l) => g[i + 2] \in BOOLEAN /\ g[i + 1] \in BOOLEAN
      <4>1. ~(i > l) => i + 2 \in 1 .. n /\ i + 1 \in 1 .. n
        BY <1>1
      <4> QED
        BY <4>1
    <3> QED
      BY Zenon, <1>4, <3>1, <3>2
  <2> QED
    BY Zenon, <1>2, <2>1
<1>7. Descends(n, Ga, H)
  <2>1. \A g \in Ga : H[g] \in Ga
    BY <1>5, <1>6
  <2>2. ASSUME NEW g \in Ga, NEW h \in Ga, NEW i \in 1 .. n, \A j \in i + 1 .. n : g[j] = h[j]
        PROVE  H[g][i] = H[h][i]
    <3>1. ~(i > l) => i + 2 \in i + 1 .. n /\ i + 1 \in i + 1 .. n
      BY <1>1
    <3>2. ~(i > l) => g[i + 2] = h[i + 2] /\ g[i + 1] = h[i + 1]
      BY <2>2, <3>1
    <3>3. NextWish(w, g)[i] = NextWish(w, h)[i]
      <4>1. CASE i > l
        BY Zenon, <1>4, <4>1
      <4>2. CASE ~(i > l) /\ w[i] = "--"
        BY Zenon, <1>4, <4>2
      <4>3. CASE ~(i > l) /\ w[i] = "--model"
        BY Zenon, <1>4, <3>2, <4>3
      <4>4. CASE ~(i > l) /\ w[i] # "--" /\ w[i] # "--model" /\ w[i] \in SessionWish \cup BareWords
        BY Zenon, <1>4, <4>4
      <4>5. CASE ~(i > l) /\ w[i] # "--" /\ w[i] # "--model" /\ w[i] \notin SessionWish \cup BareWords
        BY Zenon, <1>4, <3>2, <4>5
      <4> QED
        BY Zenon, <4>1, <4>2, <4>3, <4>4, <4>5
    <3> QED
      BY Zenon, <1>5, <3>3
  <2> QED
    BY <2>1, <2>2 DEF Descends
<1>8. [i \in 1 .. n |-> FALSE] \in Ga
  OBVIOUS
<1>9. PICK f \in Ga : \A i \in 1 .. n : f[i] = H[f][i]
  <2> HIDE DEF Ga
  <2> QED
    BY <1>1, <1>7, <1>8, Recursion
<1>10. f = NextWish(w, f)
  <2>1. f = [i \in 1 .. n |-> f[i]]
    OBVIOUS
  <2>2. \A i \in 1 .. n : f[i] = NextWish(w, f)[i]
    BY <1>5, <1>9
  <2>3. [i \in 1 .. n |-> f[i]] = [i \in 1 .. n |-> NextWish(w, f)[i]]
    BY Zenon, <2>2
  <2> QED
    BY Zenon, <1>2, <2>1, <2>3
<1> QED
  BY Zenon, <1>10

\* The scan for a wish finds a prompt option that it can reach: one before which
\* every `--model' takes a word that is none.
WishUpTo(w, f, m) ==
    \A k \in 1 .. m : /\ w[k] = "--" /\ k < Len(w) => f[k]
                      /\ w[k] = "--model" => f[k] = f[k + 2]
                      /\ w[k] \in SessionWish \cup BareWords => f[k]
                      /\ w[k] \notin SessionWish \cup BareWords \cup {"--", "--model"} => f[k] = f[k + 1]

\* What the scan for a wish has at each word.
LEMMA WishesUpTo ==
    \A w \in Seq(Words) : \E f : (WishesSession(w) <=> f[1]) /\ WishUpTo(w, f, Len(w))
<1> SUFFICES ASSUME NEW w \in Seq(Words)
             PROVE  \E f : (WishesSession(w) <=> f[1]) /\ WishUpTo(w, f, Len(w))
  OBVIOUS
<1> DEFINE f == CHOOSE h : h = NextWish(w, h)
<1>1. f = NextWish(w, f)
  <2>1. \E h : h = NextWish(w, h)
    BY WishExists
  <2> QED
    BY Zenon, <2>1
<1>2. WishesSession(w) <=> f[1]
  BY Zenon DEF WishesSession, NextWish
<1> HIDE DEF f
<1>3. ASSUME NEW k \in 1 .. Len(w)
      PROVE  /\ w[k] = "--" /\ k < Len(w) => f[k]
             /\ w[k] = "--model" => f[k] = f[k + 2]
             /\ w[k] \in SessionWish \cup BareWords => f[k]
             /\ w[k] \notin SessionWish \cup BareWords \cup {"--", "--model"} => f[k] = f[k + 1]
  <2>0. /\ "--" # "--model" /\ "--" \notin SessionWish \cup BareWords
        /\ "--model" \notin SessionWish \cup BareWords
    BY DEF SessionWish, BareWords, Commands
  <2>1. k \in 1 .. Len(w) + 2 /\ ~ (k > Len(w))
    OBVIOUS
  <2>2. NextWish(w, f)[k] =
            IF k > Len(w) THEN FALSE
            ELSE CASE w[k] = "--"      -> k < Len(w)
                   [] w[k] = "--model" -> f[k + 2]
                   [] w[k] \in SessionWish \cup BareWords -> TRUE
                   [] OTHER            -> f[k + 1]
    BY Zenon, <2>1 DEF NextWish
  <2>3. f[k] = CASE w[k] = "--"      -> k < Len(w)
                 [] w[k] = "--model" -> f[k + 2]
                 [] w[k] \in SessionWish \cup BareWords -> TRUE
                 [] OTHER            -> f[k + 1]
    BY Zenon, <1>1, <2>1, <2>2
  <2>4. CASE w[k] = "--"
    <3>1. w[k] # "--model" /\ w[k] \notin SessionWish \cup BareWords /\ w[k] \in {"--", "--model"}
      BY Zenon, <2>0, <2>4
    <3>2. f[k] = (k < Len(w))
      BY Zenon, <2>3, <2>4, <3>1
    <3> QED
      BY Zenon, <3>1, <3>2
  <2>5. CASE w[k] = "--model"
    <3>1. w[k] # "--" /\ w[k] \notin SessionWish \cup BareWords /\ w[k] \in {"--", "--model"}
      BY Zenon, <2>0, <2>5
    <3> QED
      BY Zenon, <2>3, <2>5, <3>1
  <2>6. CASE w[k] # "--" /\ w[k] # "--model" /\ w[k] \in SessionWish \cup BareWords
    BY Zenon, <2>3, <2>6
  <2>7. CASE w[k] # "--" /\ w[k] # "--model" /\ w[k] \notin SessionWish \cup BareWords
    BY Zenon, <2>3, <2>7
  <2> QED
    BY Zenon, <2>4, <2>5, <2>6, <2>7
<1> QED
  BY Zenon, <1>2, <1>3 DEF WishUpTo

\* A command line that has a noninteractive prompt says so to the other scan too.
LEMMA PromptWishes ==
    ASSUME NEW w \in Seq(Words), HasNoninteractivePrompt(w),
           \A i \in 1 .. Len(w) - 1 : w[i] = "--model" => w[i + 1] = "word"
    PROVE  WishesSession(w)
<1>0. DOMAIN w = 1 .. Len(w) /\ Len(w) \in Nat
  OBVIOUS
<1>1. PICK f : (WishesSession(w) <=> f[1]) /\ WishUpTo(w, f, Len(w))
  BY Zenon, WishesUpTo
<1>2. CASE LeadingPrompt(w)
  <2>0. w # <<>> /\ Head(w) \in BareWords
    BY Zenon, <1>2 DEF LeadingPrompt
  <2>1. 1 \in 1 .. Len(w) /\ w[1] \in SessionWish \cup BareWords
    <3>1. 1 \in 1 .. Len(w) /\ Head(w) = w[1]
      BY <2>0
    <3> QED
      BY <2>0, <3>1
  <2> QED
    BY Zenon, <1>1, <2>1 DEF WishUpTo
<1>3. CASE ~ LeadingPrompt(w)
  <2>1. PICK m \in 1 .. Len(w) : w[m] \in {"-p", "-p=x"}
    <3>1. {i \in DOMAIN w : w[i] \in {"-p", "-p=x"}} # {}
      BY Zenon, <1>3 DEF HasNoninteractivePrompt
    <3> QED
      BY <1>0, <3>1
  <2> DEFINE S == {k \in 1 .. m : f[k] = TRUE}
  <2>2. m \in Nat /\ m <= Len(w)
    BY <1>0
  <2>3. ASSUME NEW k \in 1 .. m, \A j \in k + 1 .. m : j \in S PROVE k \in S
    <3>0. k \in 1 .. Len(w)
      BY <1>0, <2>2
    <3>1. /\ w[k] = "--" /\ k < Len(w) => f[k]
          /\ w[k] = "--model" => f[k] = f[k + 2]
          /\ w[k] \in SessionWish \cup BareWords => f[k]
          /\ w[k] \notin SessionWish \cup BareWords \cup {"--", "--model"} => f[k] = f[k + 1]
      BY Zenon, <1>1, <3>0 DEF WishUpTo
    <3>2. w[m] \in SessionWish \cup BareWords /\ w[m] \notin {"--", "--model", "word"}
      BY <2>1 DEF SessionWish
    <3>3. CASE w[k] = "--"
      <4>1. k # m
        BY Zenon, <3>2, <3>3
      <4>2. k < Len(w)
        BY <1>0, <2>2, <4>1
      <4>3. f[k]
        BY Zenon, <3>1, <3>3, <4>2
      <4> QED
        BY Zenon, <4>3
    <3>4. CASE w[k] = "--model"
      <4>1. k # m
        BY Zenon, <3>2, <3>4
      <4>2. k \in 1 .. Len(w) - 1
        BY <1>0, <2>2, <4>1
      <4>3. w[k + 1] = "word"
        BY Zenon, <3>4, <4>2
      <4>4. k + 1 # m
        BY Zenon, <3>2, <4>3
      <4>5. k + 2 \in k + 1 .. m
        BY <2>2, <4>1, <4>4
      <4>6. f[k + 2] = TRUE
        BY <2>3, <4>5
      <4>7. f[k] = TRUE
        BY Zenon, <3>1, <3>4, <4>6
      <4> QED
        BY Zenon, <4>7
    <3>5. CASE w[k] \in SessionWish \cup BareWords
      <4>1. f[k]
        BY Zenon, <3>1, <3>5
      <4> QED
        BY Zenon, <4>1
    <3>6. CASE w[k] \notin SessionWish \cup BareWords \cup {"--", "--model"}
      <4>1. k # m
        BY Zenon, <3>2, <3>6
      <4>2. k + 1 \in k + 1 .. m
        BY <2>2, <4>1
      <4>3. f[k + 1] = TRUE
        BY <2>3, <4>2
      <4>4. f[k] = TRUE
        BY Zenon, <3>1, <3>6, <4>3
      <4> QED
        BY Zenon, <4>4
    <3> QED
      BY Zenon, <3>3, <3>4, <3>5, <3>6
  <2>4. \A k \in 1 .. m : k \in S
    <3> HIDE DEF S
    <3> QED
      BY <2>2, <2>3, Descending
  <2>5. 1 \in 1 .. m
    BY <2>2
  <2>6. f[1] = TRUE
    BY <2>4, <2>5
  <2> QED
    BY Zenon, <1>1, <2>6
<1> QED
  BY Zenon, <1>2, <1>3

\* Then sagy adds no --continue.
LEMMA NotInjected ==
    ASSUME NEW w, NEW resume, WishesSession(w)
    PROVE  <<"--continue">> \notin Range(Injected(w, resume))
<1> DEFINE added == IF ModelGiven(w) THEN <<>> ELSE <<<<"--model">>, <<"default">>>>
<1>1. Injected(w, resume) = added \o <<>>
  BY Zenon DEF Injected
<1>2. added \in Seq({<<"--model">>, <<"default">>})
  <2> DEFINE flag == <<"--model">>
             value == <<"default">>
             c == ModelGiven(w)
  <2> HIDE DEF flag, value, c
  <2>1. <<>> \in Seq({flag, value}) /\ <<flag, value>> \in Seq({flag, value})
    OBVIOUS
  <2>2. (IF c THEN <<>> ELSE <<flag, value>>) \in Seq({flag, value})
    BY Zenon, <2>1
  <2> QED
    BY Zenon, <2>2 DEF flag, value, c
<1>3. added \o <<>> = added
  <2> HIDE DEF added
  <2> QED
    BY <1>2
<1>4. Range(added) \subseteq {<<"--model">>, <<"default">>}
  <2> HIDE DEF added
  <2> QED
    BY <1>2 DEF Range
<1>5. <<"--continue">> \notin {<<"--model">>, <<"default">>}
  <2> DEFINE first(u) == u[1]
  <2>1. /\ <<"--continue">>[1] = "--continue" /\ <<"--model">>[1] = "--model"
        /\ <<"default">>[1] = "default"
    OBVIOUS
  <2>2. "--continue" # "--model" /\ "--continue" # "default"
    OBVIOUS
  <2> QED
    BY Zenon, <2>1, <2>2
<1> QED
  BY Zenon, <1>1, <1>3, <1>4, <1>5

\* The plan is the route of what was typed.
Planned == phase = "planned" => plan = Route(argv)

\* The plan is made once, of the words that were typed.
LEMMA PlannedKept == Planned /\ [OutputNext]_outputVars => Planned'
<1> SUFFICES ASSUME Planned, [OutputNext]_outputVars PROVE Planned'
  OBVIOUS
<1> DEFINE Kept == \/ phase' = "planned" /\ plan' = Route(argv) /\ argv' = argv
                   \/ phase' # "planned"
                   \/ phase' = phase /\ plan' = plan /\ argv' = argv
<1>1. Kept
  <2>1. CASE UNCHANGED outputVars
    BY <2>1 DEF outputVars, command
  <2>2. CASE Plans \/ Declines \/ Probes \/ ProbeEnds \/ ProbeTimesOut \/ Connects \/ Spawning \/ AgyEnds
    BY <2>2 DEF command, Plans, Declines, Probes, ProbeEnds, ProbeTimesOut, Connects, Spawning, AgyEnds
  <2>3. CASE Loop
    BY <2>3 DEF command, Loop, Opens, OpensOrAborts, Flush, FlushFails, Goes, Aborts,
       Reaps, NativeReturns, Drains, ManagedReturns, Receives, Running
  <2>4. CASE Faulty
    BY <2>4 DEF command, Faulty, WaitFails, DrainFails, ReadFails
  <2>5. ASSUME NEW s \in Streams, Prints(s) \/ EndOfFile(s) PROVE Kept
    BY <2>5 DEF command, Prints, EndOfFile
  <2>6. ASSUME NEW s \in Streams, AuthRequired(s) PROVE Kept
    BY <2>6 DEF command, AuthRequired, Aborts, Receives
  <2>7. ASSUME NEW s \in Streams, Holds(s) \/ Shows(s) PROVE Kept
    <3>1. PICK chunk : Receives(s, chunk) /\ Running("native")
      BY Zenon, <2>7 DEF Holds, Shows
    <3> QED
      BY <3>1, <2>7 DEF command, Receives, Running, Holds, Shows, OpensOrAborts, Goes, Aborts
  <2> HIDE DEF Kept
  <2> QED
    BY <2>1, <2>2, <2>3, <2>4, <2>5, <2>6, <2>7 DEF OutputNext, Feeds
<1> QED
  BY Zenon, <1>1 DEF Planned

\* A plan is the route of what was typed (run_with_update), until agy is started.
THEOREM PlansTheRoute == OutputSpec => []Planned
<1>1. OutputInit => Planned
  BY DEF OutputInit, Planned
<1> QED
  BY <1>1, PlannedKept, PTL DEF OutputSpec

\* What is handed on is a sequence of words.
LEMMA ForwardsWords ==
    ASSUME NEW w \in Seq(Words), NEW agy, Forwards(w, agy)
    PROVE  agy \in Seq(Words)
<1>1. PICK i \in 1 .. Len(w) + 1 : agy = From(w, i)
  BY DEF Forwards
<1> QED
  BY <1>1, FromIs

\* Nothing the user typed for agy is lost, reordered or taken for sagy's own
\* (route, ParsedLaunch, compact_bare_prompt).
THEOREM AllArgsForwarded == OutputSpec => []ArgsForwarded
<1>1. ASSUME OutputInv, Planned PROVE ArgsForwarded
  <2> SUFFICES ASSUME phase = "planned", plan.launch
               PROVE  Forwards(argv, plan.agy)
                      /\ FlattenSeq(Compacted(plan.agy))
                           = (IF LeadingPrompt(plan.agy) THEN <<"-p">> ELSE <<>>) \o plan.agy
    BY Zenon DEF ArgsForwarded, Forwards
  <2>1. argv \in Seq(Words) /\ plan = Route(argv)
    BY <1>1 DEF OutputInv, OutputTyped, Planned
  <2>2. Forwards(argv, plan.agy)
    BY <2>1, RouteForwards
  <2>3. plan.agy \in Seq(Words)
    BY Zenon, <2>1, <2>2, ForwardsWords
  <2> QED
    BY Zenon, <2>2, <2>3, CompactedWhole
<1> QED
  BY <1>1, OutputInvariant, PlansTheRoute, PTL

\* sagy adds no --continue to what runs natively: has_noninteractive_prompt and
\* has_prompt_or_continue_args agree on every command line in which each `--model'
\* has a value.
THEOREM NativeNoContinueInjected == OutputSpec => []NoContinueInjected
<1>1. ASSUME OutputInv, Planned PROVE NoContinueInjected
  <2> SUFFICES ASSUME phase = "planned", MayRunNative(plan),
                      \A i \in 1 .. Len(plan.agy) - 1 :
                          plan.agy[i] = "--model" => plan.agy[i + 1] = "word"
               PROVE  <<"--continue">> \notin Range(Injected(plan.agy, Resumes(plan)))
    BY Zenon DEF NoContinueInjected
  <2>1. argv \in Seq(Words) /\ plan = Route(argv) /\ plan.launch
    BY <1>1 DEF OutputInv, OutputTyped, Planned, MayRunNative, Spawns
  <2>2. Forwards(argv, plan.agy)
    BY <2>1, RouteForwards
  <2>3. plan.agy \in Seq(Words) /\ HasNoninteractivePrompt(plan.agy)
    BY Zenon, <2>1, <2>2, ForwardsWords DEF MayRunNative
  <2>4. WishesSession(plan.agy)
    BY <2>3, PromptWishes
  <2> QED
    BY Zenon, <2>4, NotInjected
<1> QED
  BY <1>1, OutputInvariant, PlansTheRoute, PTL

---------------------------------------------------------------------------
(* Texts.                                                                  *)

Outcomes == [how : {"ok", "more", "bad"}, last : Nat, verdict : Diagnostics]

\* An error's kind and delay are a verdict.
LEMMA ClassifyTyped ==
    ASSUME NEW e \in Errors PROVE Classify(ErrorOf[e]) \in Diagnostics
<1> DEFINE r == ErrorOf[e]
           delays == Hints(r) \cup r.delays
           after == IF delays = {} THEN 300 ELSE CHOOSE d \in delays : TRUE
<1>1. r \in [kind: {"RateLimited", "AuthRejected", "PermissionDenied", "other"},
             hints: SUBSET Nat, delays: SUBSET Nat, reasons: SUBSET STRING]
  BY DiagnosticsAssumption
<1>2. \A h \in Nat : Bounded(h) \in Nat
  BY DEF Bounded
<1>3. delays \in SUBSET Nat
  BY <1>1, <1>2 DEF Hints
<1>4. after \in Nat
  <2>1. CASE delays = {}
    BY <2>1
  <2>2. CASE delays # {}
    <3> DEFINE d == CHOOSE x \in delays : TRUE
    <3>1. d \in delays
      <4> HIDE DEF delays
      <4> QED
        BY Zenon, <2>2
    <3>2. after = d
      BY <2>2
    <3> HIDE DEF delays, d, after
    <3> QED
      BY <1>3, <3>1, <3>2
  <2> QED
    BY <2>1, <2>2
<1>5. Bounded(after) \in Nat
  BY <1>2, <1>4
<1>6. Classify(r) = IF r.kind = "other" \/ Cardinality(delays) > 1 \/ ~(r.reasons \subseteq ReasonsOf(r.kind))
                    THEN None
                    ELSE [kind  |-> r.kind,
                          after |-> IF r.kind = "RateLimited" THEN Bounded(after) ELSE 0]
  BY DEF Classify
<1>7. r.kind \in {"RateLimited", "AuthRejected", "PermissionDenied", "other"}
  BY <1>1
<1> HIDE DEF after, delays
<1> QED
  BY <1>5, <1>6, <1>7 DEF Diagnostics, None

\* A result, by its fields.
LEMMA OutcomeTyped ==
    ASSUME NEW how \in {"ok", "more", "bad"}, NEW last \in Nat, NEW members \in SUBSET Known
    PROVE  /\ Outcome(how, last, members) \in Outcomes
           /\ Outcome(how, last, members).how = how
           /\ Outcome(how, last, members).last = last
<1> DEFINE e == CHOOSE x \in members \cap Errors : TRUE
           v == IF members \cap Errors = {} THEN None ELSE Classify(ErrorOf[e])
<1>1. v \in Diagnostics
  <2>1. CASE members \cap Errors = {}
    BY <2>1 DEF None, Diagnostics
  <2>2. CASE members \cap Errors # {}
    <3>1. e \in Errors
      BY <2>2
    <3> QED
      BY <2>2, <3>1, ClassifyTyped
  <2> QED
    BY <2>1, <2>2
<1>2. Outcome(how, last, members) = [how |-> how, last |-> last, verdict |-> v]
  BY DEF Outcome
<1> HIDE DEF v
<1> QED
  BY <1>1, <1>2 DEF Outcomes

\* The two results of what is no document.
LEMMA MoreAndBad ==
    /\ More \in Outcomes /\ More.how = "more" /\ More.last = 0
    /\ Bad \in Outcomes /\ Bad.how = "bad" /\ Bad.last = 0
  BY OutcomeTyped DEF More, Bad

\* No error is one of the other symbols.
LEMMA ErrorsApart ==
    ASSUME NEW e \in Errors
    PROVE  e # "{" /\ e # "}" /\ e # Quote /\ e # "n" /\ e # "x" /\ e # "m"
  BY DiagnosticsAssumption

\* A string ends at a quote before which there is nothing it cannot hold.
LEMMA StringEnds ==
    ASSUME NEW t \in Seq(Symbols), NEW i \in Nat \ {0}
    PROVE  /\ StringAt(t, i) \in Outcomes
           /\ StringAt(t, i).how = "ok" =>
                /\ StringAt(t, i).last \in i .. Len(t)
                /\ t[StringAt(t, i).last] = Quote
                /\ \A j \in i .. StringAt(t, i).last - 1 : t[j] # Quote
<1> DEFINE stops == {j \in i..Len(t) : t[j] \in {Quote, "n"} \cup Known}
<1>1. StringAt(t, i) = IF stops = {} THEN More
                       ELSE IF t[Min(stops)] = Quote THEN Outcome("ok", Min(stops), {}) ELSE Bad
  BY DEF StringAt
<1>2. CASE stops = {}
  BY <1>1, <1>2, MoreAndBad
<1>3. CASE stops # {}
  <2>1. stops \in SUBSET Nat
    OBVIOUS
  <2>2. Min(stops) \in stops /\ \A x \in stops : Min(stops) <= x
    <3> HIDE DEF stops
    <3> QED
      BY <2>1, <1>3, MinIs
  <2>3. Min(stops) \in i .. Len(t) /\ Len(t) \in Nat
    BY <2>2
  <2>4. \A j \in i .. Min(stops) - 1 : t[j] # Quote
    <3>1. SUFFICES ASSUME NEW j \in i .. Min(stops) - 1, t[j] = Quote PROVE FALSE
      OBVIOUS
    <3>2. j \in stops
      BY <3>1, <2>3
    <3> QED
      BY <3>2, <2>2, <2>3
  <2>5. CASE t[Min(stops)] = Quote
    <3>1. StringAt(t, i) = Outcome("ok", Min(stops), {})
      BY <1>1, <1>3, <2>5
    <3>2. {} \in SUBSET Known /\ Min(stops) \in Nat
      BY <2>3
    <3> HIDE DEF stops
    <3> QED
      BY <3>1, <3>2, <2>3, <2>4, <2>5, OutcomeTyped
  <2>6. CASE t[Min(stops)] # Quote
    BY <1>1, <1>3, <2>6, MoreAndBad
  <2> QED
    BY <2>5, <2>6
<1> QED
  BY <1>2, <1>3

\* What follows a symbol, newlines apart, is behind it.
LEMMA AheadTyped ==
    ASSUME NEW t \in Seq(Symbols), NEW i \in Nat, Ahead(t, i) # {}
    PROVE  /\ Min(Ahead(t, i)) \in i + 1 .. Len(t)
           /\ t[Min(Ahead(t, i))] # "n"
           /\ \A j \in i + 1 .. Min(Ahead(t, i)) - 1 : t[j] = "n"
<1>1. Ahead(t, i) \in SUBSET Nat
  BY DEF Ahead
<1>2. Min(Ahead(t, i)) \in Ahead(t, i) /\ \A x \in Ahead(t, i) : Min(Ahead(t, i)) <= x
  BY <1>1, MinIs
<1>3. Min(Ahead(t, i)) \in i + 1 .. Len(t) /\ t[Min(Ahead(t, i))] # "n"
  BY <1>2 DEF Ahead
<1>4. ASSUME NEW j \in i + 1 .. Min(Ahead(t, i)) - 1 PROVE t[j] = "n"
  <2>1. j \in i + 1 .. Len(t) /\ ~ (Min(Ahead(t, i)) <= j)
    BY <1>3
  <2>2. j \notin Ahead(t, i)
    BY <1>2, <2>1
  <2> QED
    BY <2>1, <2>2 DEF Ahead
<1> QED
  BY <1>3, <1>4

---------------------------------------------------------------------------
(* Objects.                                                                *)

ObjectTyped(t, r, i) == r \in Outcomes /\ (r.how = "ok" => r.last \in i .. Len(t))

\* The cases of the definitions are apart.
LEMMA SymbolsApart ==
    ASSUME NEW c
    PROVE  /\ c = "n" => c # "}" /\ c \notin Errors /\ c # "m" /\ c # Quote
           /\ c = "}" => c # "n" /\ c \notin Errors /\ c # "m" /\ c # Quote
           /\ c \in Errors => c # "n" /\ c # "}" /\ c # "m" /\ c # Quote
           /\ c = "m" => c # "n" /\ c # "}" /\ c \notin Errors /\ c # Quote
           /\ c = Quote => c # "n" /\ c # "}" /\ c \notin Errors /\ c # "m" /\ c # "{"
           /\ c = "{" \/ c = "x" => c # "n" /\ c # "}" /\ c \notin Errors /\ c # "m" /\ c # Quote
  BY ErrorsApart DEF Quote

TypedBehind(t, g, i) ==
    \A j \in i + 1 .. Len(t) + 1 : \A k \in SUBSET Known : ObjectTyped(t, g[j][k], j)

SameBehind(t, g, h, i) ==
    \A j \in i + 1 .. Len(t) + 1 : \A k \in SUBSET Known : g[j][k] = h[j][k]

\* A result from j on is one from every earlier place on.
LEMMA ObjectTypedFrom ==
    ASSUME NEW t \in Seq(Symbols), NEW x, NEW i \in Nat, NEW j \in Nat, i <= j, ObjectTyped(t, x, j)
    PROVE  ObjectTyped(t, x, i)
  BY DEF ObjectTyped

\* The value of a member ends behind its key.
LEMMA ValueTyped ==
    ASSUME NEW t \in Seq(Symbols), NEW g, NEW i \in 1 .. Len(t),
           TypedBehind(t, g, i)
    PROVE  ObjectTyped(t, ValueAt(t, g, i), i + 1)
<1> DEFINE from == Min(Ahead(t, i))
<1>1. CASE Ahead(t, i) = {}
  <2>1. ValueAt(t, g, i) = More
    BY Zenon, <1>1 DEF ValueAt
  <2> QED
    BY <2>1, MoreAndBad DEF ObjectTyped
<1>2. CASE Ahead(t, i) # {}
  <2>1. from \in i + 1 .. Len(t) /\ Len(t) \in Nat
    BY <1>2, AheadTyped
  <2>2. CASE t[from] = "{"
    <3>0. from + 1 \in i + 1 .. Len(t) + 1 /\ {} \in SUBSET Known
      BY <2>1
    <3>1. ObjectTyped(t, g[from + 1][{}], from + 1)
      BY Zenon, <3>0 DEF TypedBehind
    <3>2. ValueAt(t, g, i) = g[from + 1][{}]
      BY Zenon, <1>2, <2>2, SymbolsApart DEF ValueAt
    <3>3. ObjectTyped(t, ValueAt(t, g, i), from + 1)
      BY Zenon, <3>1, <3>2
    <3> QED
      BY <3>3, <2>1, ObjectTypedFrom
  <2>3. CASE t[from] = Quote
    <3>1. ValueAt(t, g, i) = StringAt(t, from + 1)
      BY Zenon, <1>2, <2>3, SymbolsApart DEF ValueAt
    <3>2. from + 1 \in Nat \ {0}
      BY <2>1
    <3> QED
      BY <3>1, <3>2, <2>1, StringEnds DEF ObjectTyped
  <2>4. CASE t[from] # "{" /\ t[from] # Quote
    <3>1. ValueAt(t, g, i) = Bad
      BY Zenon, <1>2, <2>4 DEF ValueAt
    <3> QED
      BY <3>1, MoreAndBad DEF ObjectTyped
  <2> QED
    BY <2>2, <2>3, <2>4
<1> QED
  BY <1>1, <1>2

\* What is read of an object at i is a result that ends at i or behind it, if what is
\* read behind i is.
LEMMA ObjectAtTyped ==
    ASSUME NEW t \in Seq(Symbols), NEW g, NEW i \in 1 .. Len(t) + 1, NEW m \in SUBSET Known,
           TypedBehind(t, g, i)
    PROVE  ObjectTyped(t, ObjectAt(t, g, i, m), i)
<1> DEFINE r == ObjectAt(t, g, i, m)
           value == ValueAt(t, g, i)
<1>0. Len(t) \in Nat /\ (i <= Len(t) => t[i] \in Symbols /\ ~ (i > Len(t)) /\ i \in 1 .. Len(t))
  OBVIOUS
<1>1. CASE i > Len(t)
  <2>1. r = More
    BY Zenon, <1>1 DEF ObjectAt
  <2> QED
    BY <2>1, MoreAndBad DEF ObjectTyped
<1>2. CASE i <= Len(t) /\ t[i] = "n"
  <2>1. r = g[i + 1][m]
    BY Zenon, <1>0, <1>2, SymbolsApart DEF ObjectAt
  <2>0. i + 1 \in i + 1 .. Len(t) + 1
    BY <1>0, <1>2
  <2>2. ObjectTyped(t, g[i + 1][m], i + 1)
    BY Zenon, <2>0 DEF TypedBehind
  <2>3. ObjectTyped(t, r, i + 1)
    BY Zenon, <2>1, <2>2
  <2> QED
    BY <2>3, ObjectTypedFrom
<1>3. CASE i <= Len(t) /\ t[i] = "}"
  <2>1. r = Outcome("ok", i, m)
    BY Zenon, <1>0, <1>3, SymbolsApart DEF ObjectAt
  <2>2. i \in Nat
    OBVIOUS
  <2>3. Outcome("ok", i, m) \in Outcomes /\ Outcome("ok", i, m).last = i
    BY <2>2, OutcomeTyped
  <2>4. i \in i .. Len(t)
    <3>1. i \in Nat /\ Len(t) \in Nat
      OBVIOUS
    <3>2. i <= Len(t)
      BY <1>3
    <3> QED
      BY <3>1, <3>2
  <2>5. ObjectTyped(t, Outcome("ok", i, m), i)
    BY <2>3, <2>4 DEF ObjectTyped
  <2> QED
    BY Zenon, <2>1, <2>5
<1>4. CASE i <= Len(t) /\ t[i] \in Errors
  <2>1. r = Bad \/ r = g[i + 1][m \cup {t[i]}]
    BY Zenon, <1>0, <1>4, SymbolsApart DEF ObjectAt
  <2>2. m \cup {t[i]} \in SUBSET Known
    BY <1>4 DEF Known
  <2>0. i + 1 \in i + 1 .. Len(t) + 1
    BY <1>0, <1>4
  <2>3. ObjectTyped(t, g[i + 1][m \cup {t[i]}], i + 1)
    BY Zenon, <2>2, <2>0 DEF TypedBehind
  <2>4. ObjectTyped(t, Bad, i + 1)
    BY MoreAndBad DEF ObjectTyped
  <2>5. ObjectTyped(t, r, i + 1)
    BY Zenon, <2>1, <2>3, <2>4
  <2> QED
    BY <2>5, ObjectTypedFrom
<1>5. CASE i <= Len(t) /\ t[i] = "m"
  <2>1. r = Bad \/ (value.how = "ok" /\ r = g[value.last + 1][m \cup {"m"}])
                \/ (value.how # "ok" /\ r = value)
    BY Zenon, <1>0, <1>5, SymbolsApart DEF ObjectAt
  <2>2. ObjectTyped(t, value, i + 1)
    BY <1>0, <1>5, ValueTyped
  <2>3. m \cup {"m"} \in SUBSET Known
    BY DEF Known
  <2>4. ASSUME value.how = "ok" PROVE ObjectTyped(t, g[value.last + 1][m \cup {"m"}], i)
    <3>1. value.last + 1 \in i + 1 .. Len(t) + 1
      BY <2>2, <2>4, <1>0 DEF ObjectTyped
    <3>2. ObjectTyped(t, g[value.last + 1][m \cup {"m"}], value.last + 1)
      BY Zenon, <2>3, <3>1 DEF TypedBehind
    <3>3. \A x : ObjectTyped(t, x, value.last + 1) => ObjectTyped(t, x, i)
      BY <3>1, <1>0 DEF ObjectTyped
    <3> QED
      BY Zenon, <3>2, <3>3
  <2>5. ASSUME value.how # "ok" PROVE ObjectTyped(t, value, i)
    <3> HIDE DEF value
    <3> QED
      BY <2>2, <2>5 DEF ObjectTyped
  <2>6. ObjectTyped(t, Bad, i)
    BY MoreAndBad DEF ObjectTyped
  <2> QED
    BY Zenon, <2>1, <2>4, <2>5, <2>6
<1>6. CASE i <= Len(t) /\ t[i] = Quote
  <2>1. r = KeyAt(t, i)
    BY Zenon, <1>0, <1>6, SymbolsApart DEF ObjectAt
  <2>2. KeyAt(t, i) \in Outcomes /\ KeyAt(t, i).how # "ok"
    BY StringEnds, MoreAndBad DEF KeyAt
  <2> QED
    BY <2>1, <2>2 DEF ObjectTyped
<1>7. CASE i <= Len(t) /\ (t[i] = "{" \/ t[i] = "x")
  <2>1. r = Bad
    BY Zenon, <1>0, <1>7, SymbolsApart DEF ObjectAt
  <2> QED
    BY <2>1, MoreAndBad DEF ObjectTyped
<1>8. i > Len(t) \/ i <= Len(t)
  BY <1>0
<1>9. i <= Len(t) => t[i] = "n" \/ t[i] = "}" \/ t[i] \in Errors \/ t[i] = "m" \/ t[i] = Quote
                     \/ (t[i] = "{" \/ t[i] = "x")
  BY <1>0 DEF Symbols, Known
<1> HIDE DEF r
<1> QED
  BY Zenon, <1>1, <1>2, <1>3, <1>4, <1>5, <1>6, <1>7, <1>8, <1>9 DEF r

\* The value at an index depends on the values behind it.
LEMMA ObjectAtLocal ==
    ASSUME NEW t \in Seq(Symbols), NEW g, NEW h, NEW i \in 1 .. Len(t) + 1, NEW m \in SUBSET Known,
           TypedBehind(t, g, i),
           SameBehind(t, g, h, i)
    PROVE  ObjectAt(t, g, i, m) = ObjectAt(t, h, i, m)
<1> DEFINE r(f) == ObjectAt(t, f, i, m)
           value(f) == ValueAt(t, f, i)
<1>0. Len(t) \in Nat /\ (i <= Len(t) => t[i] \in Symbols /\ ~ (i > Len(t)) /\ i \in 1 .. Len(t))
  OBVIOUS
<1>1. CASE i > Len(t)
  BY Zenon, <1>1 DEF ObjectAt
<1>2. CASE i <= Len(t) /\ t[i] = "n"
  <2>1. r(g) = g[i + 1][m] /\ r(h) = h[i + 1][m]
    BY Zenon, <1>0, <1>2, SymbolsApart DEF ObjectAt
  <2>2. i + 1 \in i + 1 .. Len(t) + 1
    BY <1>0, <1>2
  <2> QED
    BY Zenon, <2>1, <2>2 DEF SameBehind
<1>3. CASE i <= Len(t) /\ t[i] \in Errors
  <2>2. m \cup {t[i]} \in SUBSET Known
    BY <1>3 DEF Known
  <2>3. i + 1 \in i + 1 .. Len(t) + 1
    BY <1>0, <1>3
  <2>4. g[i + 1][m \cup {t[i]}] = h[i + 1][m \cup {t[i]}]
    BY Zenon, <2>2, <2>3 DEF SameBehind
  <2> QED
    BY Zenon, <1>0, <1>3, <2>4, SymbolsApart DEF ObjectAt
<1>4. CASE i <= Len(t) /\ t[i] = "m"
  <2>1. value(g) = value(h)
    <3> DEFINE from == Min(Ahead(t, i))
    <3>1. CASE Ahead(t, i) = {}
      BY Zenon, <3>1 DEF ValueAt
    <3>2. CASE Ahead(t, i) # {}
      <4>1. from + 1 \in i + 1 .. Len(t) + 1
        <5>1. from \in i + 1 .. Len(t)
          BY <3>2, <1>0, AheadTyped
        <5> QED
          BY <5>1, <1>0
      <4>2. {} \in SUBSET Known
        OBVIOUS
      <4>3. g[from + 1][{}] = h[from + 1][{}]
        BY Zenon, <4>1, <4>2 DEF SameBehind
      <4> QED
        <5>1. CASE t[from] = "{"
          BY Zenon, <3>2, <4>3, <5>1, SymbolsApart DEF ValueAt
        <5>2. CASE t[from] # "{"
          BY Zenon, <3>2, <5>2 DEF ValueAt
        <5> QED
          BY <5>1, <5>2
    <3> QED
      BY Zenon, <3>1, <3>2
  <2>2. ObjectTyped(t, value(g), i + 1)
    BY <1>0, <1>4, ValueTyped
  <2>3. m \cup {"m"} \in SUBSET Known
    BY DEF Known
  <2>4. ASSUME value(g).how = "ok"
        PROVE  g[value(g).last + 1][m \cup {"m"}] = h[value(g).last + 1][m \cup {"m"}]
    <3>1. value(g).last + 1 \in i + 1 .. Len(t) + 1
      BY <2>2, <2>4, <1>0 DEF ObjectTyped
    <3> QED
      BY Zenon, <2>3, <3>1 DEF SameBehind
  <2> QED
    BY Zenon, <1>0, <1>4, <2>1, <2>4, SymbolsApart DEF ObjectAt
<1>5. CASE i <= Len(t) /\ t[i] # "n" /\ t[i] \notin Errors /\ t[i] # "m"
  BY Zenon, <1>0, <1>5, SymbolsApart DEF ObjectAt
<1>6. i > Len(t) \/ i <= Len(t)
  BY <1>0
<1> QED
  BY Zenon, <1>1, <1>2, <1>3, <1>4, <1>5, <1>6

ObjectRows(t) == {g \in [1 .. Len(t) + 1 -> [SUBSET Known -> Outcomes]] :
                    \A i \in 1 .. Len(t) + 1 : \A m \in SUBSET Known : ObjectTyped(t, g[i][m], i)}

NextObjects(t, g) ==
    [i \in 1 .. Len(t) + 1 |-> [m \in SUBSET Known |-> ObjectAt(t, g, i, m)]]

\* A function satisfies the equation by which ObjectsOf is defined: each result depends
\* only on results behind it (Recursion).
LEMMA ObjectsExist ==
    ASSUME NEW t \in Seq(Symbols)
    PROVE  \E g : g = NextObjects(t, g)
<1> DEFINE n == Len(t) + 1
           G == ObjectRows(t)
           H == [g \in G |-> NextObjects(t, g)]
           f0 == [i \in 1 .. n |-> [m \in SUBSET Known |-> More]]
<1>1. n \in Nat
  OBVIOUS
<1>2. f0 \in G
  BY MoreAndBad DEF ObjectRows, ObjectTyped
<1>3. ASSUME NEW g \in G PROVE H[g] \in G
  <2>1. \A i \in 1 .. n : TypedBehind(t, g, i)
    BY DEF ObjectRows, TypedBehind
  <2>2. \A i \in 1 .. n : \A m \in SUBSET Known : ObjectTyped(t, ObjectAt(t, g, i, m), i)
    BY <2>1, ObjectAtTyped
  <2>3. \A i \in 1 .. n : \A m \in SUBSET Known : ObjectAt(t, g, i, m) \in Outcomes
    BY <2>2 DEF ObjectTyped
  <2>4. NextObjects(t, g) \in G
    BY Zenon, <2>2, <2>3 DEF ObjectRows, NextObjects
  <2> QED
    BY <2>4
<1>4. ASSUME NEW g \in G, NEW h \in G, NEW i \in 1 .. n, \A j \in i + 1 .. n : g[j] = h[j]
      PROVE  H[g][i] = H[h][i]
  <2>1. TypedBehind(t, g, i)
    BY DEF ObjectRows, TypedBehind
  <2>2. SameBehind(t, g, h, i)
    BY <1>4 DEF SameBehind
  <2>3. \A m \in SUBSET Known : ObjectAt(t, g, i, m) = ObjectAt(t, h, i, m)
    BY <2>1, <2>2, ObjectAtLocal
  <2>4. NextObjects(t, g)[i] = NextObjects(t, h)[i]
    BY Zenon, <2>3 DEF NextObjects
  <2> QED
    BY <2>4
<1>5. \E f \in G : \A i \in 1 .. n : f[i] = H[f][i]
  <2>1. Descends(n, G, H)
    BY Zenon, <1>3, <1>4 DEF Descends
  <2> HIDE DEF G, H, f0, n
  <2> QED
    BY <1>1, <1>2, <2>1, Recursion
<1>6. PICK f \in G : \A i \in 1 .. n : f[i] = H[f][i]
  BY <1>5
<1>7. f = NextObjects(t, f)
  <2>1. f \in [1 .. n -> [SUBSET Known -> Outcomes]]
    BY DEF ObjectRows
  <2>2. f = [i \in 1 .. n |-> f[i]]
    BY <2>1
  <2>3. NextObjects(t, f) = [i \in 1 .. n |-> NextObjects(t, f)[i]]
    BY DEF NextObjects
  <2>4. \A i \in 1 .. n : f[i] = NextObjects(t, f)[i]
    BY <1>6
  <2> HIDE DEF n
  <2> QED
    BY Zenon, <2>2, <2>3, <2>4
<1> QED
  BY <1>7

\* ObjectsOf is such a function.
LEMMA ObjectsAre ==
    ASSUME NEW t \in Seq(Symbols) PROVE ObjectsOf(t) = NextObjects(t, ObjectsOf(t))
<1>1. PICK g : g = NextObjects(t, g)
  BY ObjectsExist
<1> QED
  BY Zenon, <1>1 DEF ObjectsOf, NextObjects

\* The equation, at one place.
LEMMA ObjectStep ==
    ASSUME NEW t \in Seq(Symbols), NEW i \in 1 .. Len(t) + 1, NEW m \in SUBSET Known
    PROVE  ObjectsOf(t)[i][m] = ObjectAt(t, ObjectsOf(t), i, m)
<1> DEFINE g == ObjectsOf(t)
<1>1. g = NextObjects(t, g)
  BY ObjectsAre
<1> HIDE DEF g
<1>2. g[i] = [x \in SUBSET Known |-> ObjectAt(t, g, i, x)]
  BY Zenon, <1>1 DEF NextObjects
<1>3. g[i][m] = ObjectAt(t, g, i, m)
  BY <1>2
<1> QED
  BY <1>3 DEF g

\* An object that is read ends where the text says, for every text.
LEMMA ObjectsTyped ==
    ASSUME NEW t \in Seq(Symbols)
    PROVE  /\ \A i \in 1 .. Len(t) + 1 : \A m \in SUBSET Known : ObjectTyped(t, ObjectsOf(t)[i][m], i)
           /\ \A i \in 1 .. Len(t) + 1 : TypedBehind(t, ObjectsOf(t), i)
<1> DEFINE n == Len(t) + 1
           S == {i \in 1 .. n : \A m \in SUBSET Known : ObjectTyped(t, ObjectsOf(t)[i][m], i)}
<1>1. ASSUME NEW i \in 1 .. n, \A j \in i + 1 .. n : j \in S PROVE i \in S
  <2>1. TypedBehind(t, ObjectsOf(t), i)
    BY Zenon, <1>1 DEF TypedBehind
  <2>2. ASSUME NEW m \in SUBSET Known PROVE ObjectTyped(t, ObjectsOf(t)[i][m], i)
    <3>1. ObjectTyped(t, ObjectAt(t, ObjectsOf(t), i, m), i)
      BY <2>1, ObjectAtTyped
    <3>2. ObjectsOf(t)[i][m] = ObjectAt(t, ObjectsOf(t), i, m)
      BY ObjectStep
    <3> QED
      BY Zenon, <3>1, <3>2
  <2> QED
    BY Zenon, <2>2
<1>2. \A i \in 1 .. n : i \in S
  <2>1. n \in Nat
    OBVIOUS
  <2> HIDE DEF S, n
  <2> QED
    BY <1>1, <2>1, Descending
<1>3. ASSUME NEW i \in 1 .. n PROVE TypedBehind(t, ObjectsOf(t), i)
  <2>1. \A j \in i + 1 .. n : j \in 1 .. n
    OBVIOUS
  <2> QED
    BY Zenon, <1>2, <2>1 DEF TypedBehind
<1> QED
  BY Zenon, <1>2, <1>3

---------------------------------------------------------------------------
(* The closing brace.                                                      *)

Depths == Nat \ {0}

NextClosing(t, g) ==
    [i \in 1 .. Len(t) + 1 |->
        [q \in BOOLEAN |-> [d \in Depths |-> ClosingAt(t, g, i, q, d)]]]

\* Likewise for the count of braces.
LEMMA ClosingExists ==
    ASSUME NEW t \in Seq(Symbols) PROVE \E g : g = NextClosing(t, g)
<1> DEFINE n == Len(t) + 1
           G == [1 .. n -> [BOOLEAN -> [Depths -> Nat]]]
           H == [g \in G |-> NextClosing(t, g)]
           f0 == [i \in 1 .. n |-> [q \in BOOLEAN |-> [d \in Depths |-> 0]]]
<1>1. n \in Nat
  OBVIOUS
<1>2. f0 \in G
  OBVIOUS
<1>3. ASSUME NEW g \in G PROVE H[g] \in G
  <2>1. ASSUME NEW i \in 1 .. n, NEW q \in BOOLEAN, NEW d \in Depths
        PROVE  ClosingAt(t, g, i, q, d) \in Nat
    <3>1. \A j \in 1 .. n, p \in BOOLEAN, e \in Depths : g[j][p][e] \in Nat
      OBVIOUS
    <3>2. i <= Len(t) => i + 1 \in 1 .. n
      OBVIOUS
    <3>3. i \in Nat /\ 0 \in Nat /\ d + 1 \in Depths /\ (d # 1 => d - 1 \in Depths)
      BY DEF Depths
    <3>4. FALSE \in BOOLEAN /\ TRUE \in BOOLEAN
      OBVIOUS
    <3> HIDE DEF n, G
    <3>5. i <= Len(t) => /\ g[i + 1][FALSE][d] \in Nat /\ g[i + 1][TRUE][d] \in Nat
                         /\ g[i + 1][FALSE][d + 1] \in Nat /\ g[i + 1][q][d] \in Nat
                         /\ d # 1 => g[i + 1][FALSE][d - 1] \in Nat
      BY Zenon, <3>1, <3>2, <3>3, <3>4
    <3>6. i \in 1 .. Len(t) + 1
      BY DEF n
    <3>7. (i > Len(t) \/ i <= Len(t)) /\ (i <= Len(t) => ~ (i > Len(t)))
      BY <3>6
    <3>8. "{" # "}" /\ "{" # Quote /\ "}" # Quote
      BY DEF Quote
    <3>9. CASE i > Len(t)
      BY Zenon, <3>3, <3>9 DEF ClosingAt
    <3>10. CASE i <= Len(t) /\ t[i] = Quote
      <4>1. q = TRUE \/ q = FALSE
        BY Zenon
      <4>2. CASE q = TRUE
        BY Zenon, <3>5, <3>7, <3>8, <3>10, <4>2 DEF ClosingAt
      <4>3. CASE q = FALSE
        BY Zenon, <3>5, <3>7, <3>8, <3>10, <4>3 DEF ClosingAt
      <4> QED
        BY Zenon, <4>1, <4>2, <4>3
    <3>11. CASE i <= Len(t) /\ t[i] = "{"
      BY Zenon, <3>5, <3>7, <3>8, <3>11 DEF ClosingAt
    <3>12. CASE i <= Len(t) /\ t[i] = "}"
      BY Zenon, <3>3, <3>5, <3>7, <3>8, <3>12 DEF ClosingAt
    <3>13. CASE i <= Len(t) /\ t[i] # Quote /\ t[i] # "{" /\ t[i] # "}"
      BY Zenon, <3>5, <3>7, <3>13 DEF ClosingAt
    <3> QED
      BY Zenon, <3>7, <3>9, <3>10, <3>11, <3>12, <3>13
  <2>2. NextClosing(t, g) \in G
    BY Zenon, <2>1 DEF NextClosing
  <2> QED
    BY <2>2
<1>4. ASSUME NEW g \in G, NEW h \in G, NEW i \in 1 .. n, \A j \in i + 1 .. n : g[j] = h[j]
      PROVE  H[g][i] = H[h][i]
  <2>1. \A q \in BOOLEAN, d \in Depths : ClosingAt(t, g, i, q, d) = ClosingAt(t, h, i, q, d)
    <3>1. CASE i > Len(t)
      BY Zenon, <3>1 DEF ClosingAt
    <3>2. CASE ~ (i > Len(t))
      <4>1. g[i + 1] = h[i + 1]
        BY <3>2, <1>4
      <4>2. "{" # "}" /\ "{" # Quote /\ "}" # Quote
        BY DEF Quote
      <4>3. CASE t[i] = Quote
        BY Zenon, <3>2, <4>1, <4>2, <4>3 DEF ClosingAt
      <4>4. CASE t[i] = "{"
        BY Zenon, <3>2, <4>1, <4>2, <4>4 DEF ClosingAt
      <4>5. CASE t[i] = "}"
        BY Zenon, <3>2, <4>1, <4>2, <4>5 DEF ClosingAt
      <4>6. CASE t[i] # Quote /\ t[i] # "{" /\ t[i] # "}"
        BY Zenon, <3>2, <4>1, <4>2, <4>6 DEF ClosingAt
      <4> QED
        BY Zenon, <4>3, <4>4, <4>5, <4>6
    <3> QED
      BY <3>1, <3>2
  <2>2. NextClosing(t, g)[i] = NextClosing(t, h)[i]
    BY Zenon, <2>1 DEF NextClosing
  <2> QED
    BY <2>2
<1>5. \E f \in G : \A i \in 1 .. n : f[i] = H[f][i]
  <2>1. Descends(n, G, H)
    BY Zenon, <1>3, <1>4 DEF Descends
  <2> HIDE DEF G, H, f0, n
  <2> QED
    BY <1>1, <1>2, <2>1, Recursion
<1>6. PICK f \in G : \A i \in 1 .. n : f[i] = H[f][i]
  BY <1>5
<1>7. f = NextClosing(t, f)
  <2>1. f = [i \in 1 .. n |-> f[i]]
    OBVIOUS
  <2>2. NextClosing(t, f) = [i \in 1 .. n |-> NextClosing(t, f)[i]]
    BY DEF NextClosing
  <2>3. \A i \in 1 .. n : f[i] = NextClosing(t, f)[i]
    BY <1>6
  <2> HIDE DEF n
  <2> QED
    BY Zenon, <2>1, <2>2, <2>3
<1> QED
  BY <1>7

Outside(t, i, d) == ClosingOf(t)[i][FALSE][d]
Inside(t, i, d)  == ClosingOf(t)[i][TRUE][d]

\* Its equation, at one place.
LEMMA ClosingStep ==
    ASSUME NEW t \in Seq(Symbols), NEW i \in 1 .. Len(t) + 1, NEW q \in BOOLEAN, NEW d \in Depths
    PROVE  ClosingOf(t)[i][q][d] = ClosingAt(t, ClosingOf(t), i, q, d)
<1> DEFINE g == ClosingOf(t)
<1>1. g = NextClosing(t, g)
  <2>1. PICK h : h = NextClosing(t, h)
    BY ClosingExists
  <2> QED
    BY Zenon, <2>1 DEF ClosingOf, NextClosing, Depths
<1> HIDE DEF g
<1>2. g[i] = [p \in BOOLEAN |-> [e \in Depths |-> ClosingAt(t, g, i, p, e)]]
  BY Zenon, <1>1 DEF NextClosing
<1>3. g[i][q] = [e \in Depths |-> ClosingAt(t, g, i, q, e)]
  BY Zenon, <1>2
<1>4. g[i][q][d] = ClosingAt(t, g, i, q, d)
  BY Zenon, <1>3
<1> QED
  BY <1>4 DEF g

\* How a count of braces goes on.
LEMMA Counting ==
    ASSUME NEW t \in Seq(Symbols), NEW i \in 1 .. Len(t), NEW d \in Depths
    PROVE  /\ t[i] = Quote => /\ Outside(t, i, d) = Inside(t, i + 1, d)
                              /\ Inside(t, i, d) = Outside(t, i + 1, d)
           /\ t[i] # Quote => Inside(t, i, d) = Inside(t, i + 1, d)
           /\ t[i] = "{" => Outside(t, i, d) = Outside(t, i + 1, d + 1)
           /\ t[i] = "}" /\ d = 1 => Outside(t, i, d) = i
           /\ t[i] = "}" /\ d # 1 => Outside(t, i, d) = Outside(t, i + 1, d - 1)
           /\ t[i] # Quote /\ t[i] # "{" /\ t[i] # "}" => Outside(t, i, d) = Outside(t, i + 1, d)
<1> DEFINE g == ClosingOf(t)
<1>1. i \in 1 .. Len(t) + 1 /\ i <= Len(t) /\ ~ (i > Len(t))
  OBVIOUS
<1>2. g[i][TRUE][d] = ClosingAt(t, g, i, TRUE, d) /\ g[i][FALSE][d] = ClosingAt(t, g, i, FALSE, d)
  BY Zenon, <1>1, ClosingStep
<1>3. "{" # "}" /\ "{" # Quote /\ "}" # Quote
  BY DEF Quote
<1>4. t[i] = Quote => /\ Outside(t, i, d) = Inside(t, i + 1, d)
                      /\ Inside(t, i, d) = Outside(t, i + 1, d)
  BY Zenon, <1>1, <1>2, <1>3 DEF ClosingAt, Outside, Inside
<1>5. t[i] # Quote => Inside(t, i, d) = Inside(t, i + 1, d)
  BY Zenon, <1>1, <1>2, <1>3 DEF ClosingAt, Inside
<1>6. t[i] = "{" => Outside(t, i, d) = Outside(t, i + 1, d + 1)
  BY Zenon, <1>1, <1>2, <1>3 DEF ClosingAt, Outside
<1>7. t[i] = "}" /\ d = 1 => Outside(t, i, d) = i
  BY Zenon, <1>1, <1>2, <1>3 DEF ClosingAt, Outside
<1>8. t[i] = "}" /\ d # 1 => Outside(t, i, d) = Outside(t, i + 1, d - 1)
  BY Zenon, <1>1, <1>2, <1>3 DEF ClosingAt, Outside
<1>9. t[i] # Quote /\ t[i] # "{" /\ t[i] # "}" => Outside(t, i, d) = Outside(t, i + 1, d)
  BY Zenon, <1>1, <1>2, <1>3 DEF ClosingAt, Outside
<1> QED
  BY Zenon, <1>4, <1>5, <1>6, <1>7, <1>8, <1>9

\* At the end of the text nothing is closed.
LEMMA CountingEnds ==
    ASSUME NEW t \in Seq(Symbols), NEW d \in Depths
    PROVE  Outside(t, Len(t) + 1, d) = 0 /\ Inside(t, Len(t) + 1, d) = 0
<1> DEFINE i == Len(t) + 1
<1>1. i \in 1 .. Len(t) + 1 /\ i > Len(t)
  OBVIOUS
<1>2. \A q \in BOOLEAN : ClosingOf(t)[i][q][d] = 0
  <2> HIDE DEF i
  <2> QED
    BY Zenon, <1>1, ClosingStep DEF ClosingAt
<1> QED
  BY Zenon, <1>2 DEF Outside, Inside

---------------------------------------------------------------------------
(* A text inside another one.                                              *)

\* t is what w holds behind its first d symbols, or a beginning of it.
Window(t, w, d) ==
    /\ t \in Seq(Symbols) /\ w \in Seq(Symbols) /\ d \in Nat
    /\ d + Len(t) <= Len(w)
    /\ \A j \in 1 .. Len(t) : w[d + j] = t[j]

\* All of it.
Whole(t, w, d) == d + Len(t) = Len(w)

\* A result in t and the result at the same place in w: more text changes nothing
\* but a result that waits for it.
Like(t, w, d, r, p) ==
    r.how # "more" \/ Whole(t, w, d) =>
        p.how = r.how /\ p.verdict = r.verdict /\ (r.how = "ok" => p.last = d + r.last)

\* What is ahead stays ahead.
LEMMA AheadWindow ==
    ASSUME NEW t, NEW w, NEW d, Window(t, w, d), NEW i \in 0 .. Len(t)
    PROVE  /\ Ahead(t, i) # {} => /\ Ahead(w, d + i) # {}
                                  /\ Min(Ahead(w, d + i)) = d + Min(Ahead(t, i))
           /\ Ahead(t, i) = {} /\ Whole(t, w, d) => Ahead(w, d + i) = {}
<1> DEFINE A == Ahead(t, i)
           B == Ahead(w, d + i)
           n == Len(t)
           l == Len(w)
<1>1. n \in Nat /\ l \in Nat /\ d \in Nat /\ d + n <= l /\ i \in 0 .. n
  BY DEF Window
<1>2. \A j \in 1 .. n : w[d + j] = t[j]
  BY DEF Window
<1>3. A = {j \in i + 1 .. n : t[j] # "n"} /\ B = {j \in (d + i) + 1 .. l : w[j] # "n"}
  BY DEF Ahead
<1> HIDE DEF A, B, n, l
<1>4. A \in SUBSET Nat /\ B \in SUBSET Nat
  BY <1>1, <1>3
<1>5. ASSUME NEW x \in A PROVE x + d \in B
  <2>1. x \in i + 1 .. n /\ t[x] # "n"
    BY <1>3
  <2>2. x + d = d + x /\ x \in 1 .. n /\ d + x \in (d + i) + 1 .. l
    BY <1>1, <2>1
  <2>3. w[d + x] # "n"
    BY Zenon, <1>2, <2>1, <2>2
  <2>4. d + x \in B
    BY Zenon, <1>3, <2>2, <2>3
  <2> QED
    BY Zenon, <2>2, <2>4
<1>6. ASSUME NEW y \in B, y <= d + n PROVE y - d \in A /\ (y - d) + d <= y
  <2>1. y \in (d + i) + 1 .. l /\ w[y] # "n"
    BY <1>3
  <2>2. y - d \in i + 1 .. n /\ y - d \in 1 .. n /\ d + (y - d) = y /\ (y - d) + d <= y
    BY <1>1, <1>6, <2>1
  <2>3. t[y - d] = w[d + (y - d)]
    BY Zenon, <1>2, <2>2
  <2>4. t[y - d] # "n"
    BY Zenon, <2>1, <2>2, <2>3
  <2> QED
    BY Zenon, <1>3, <2>2, <2>4
<1>7. ASSUME A # {} PROVE B # {} /\ Min(B) = d + Min(A)
  <2>1. \A y \in B : \E x \in A : x + d <= y
    <3>1. ASSUME NEW y \in B PROVE \E x \in A : x + d <= y
      <4>1. CASE y <= d + n
        BY Zenon, <1>6, <4>1
      <4>2. CASE ~ (y <= d + n)
        <5>1. PICK x \in A : TRUE
          BY <1>7
        <5>2. x \in i + 1 .. n /\ y \in Nat
          BY <1>3, <1>4
        <5>3. x + d <= y
          BY <1>1, <4>2, <5>2
        <5> QED
          BY Zenon, <5>3
      <4> QED
        BY Zenon, <4>1, <4>2
    <3> QED
      BY <3>1
  <2>2. B # {} /\ Min(B) = Min(A) + d
    BY <1>1, <1>4, <1>5, <1>7, <2>1, MinShift
  <2>3. Min(A) \in Nat
    BY <1>4, <1>7, MinIs
  <2>4. Min(A) + d = d + Min(A)
    BY <1>1, <2>3
  <2> QED
    BY Zenon, <2>2, <2>4
<1>8. ASSUME A = {}, d + n = l PROVE B = {}
  <2>1. \A y \in B : y <= d + n
    BY <1>1, <1>3, <1>8
  <2> QED
    BY <1>6, <1>8, <2>1
<1> QED
  BY Zenon, <1>7, <1>8 DEF A, B, n, l, Whole

\* A verdict depends on the members, not on where the object ends.
LEMMA VerdictOfMembers ==
    ASSUME NEW how, NEW l, NEW k, NEW m
    PROVE  /\ Outcome(how, l, m).how = how /\ Outcome(how, l, m).last = l
           /\ Outcome(how, l, m).verdict = Outcome(how, k, m).verdict
BY DEF Outcome

\* An object that ends is like itself in the longer text, shifted.
LEMMA LikeClosed ==
    ASSUME NEW t, NEW w, NEW d, NEW l, NEW m
    PROVE  Like(t, w, d, Outcome("ok", l, m), Outcome("ok", d + l, m))
<1>1. Outcome("ok", l, m).last = l /\ Outcome("ok", d + l, m).last = d + l
  BY DEF Outcome
<1>2. Outcome("ok", l, m).how = "ok" /\ Outcome("ok", d + l, m).how = "ok"
  BY DEF Outcome
<1>3. Outcome("ok", d + l, m).verdict = Outcome("ok", l, m).verdict
  BY DEF Outcome
<1>4. Outcome("ok", d + l, m).last = d + Outcome("ok", l, m).last
  BY Zenon, <1>1
<1> QED
  BY Zenon, <1>2, <1>3, <1>4 DEF Like

\* One that does not end at any place is like itself.
LEMMA LikeItself ==
    ASSUME NEW t, NEW w, NEW d, NEW r, r.how # "ok" PROVE Like(t, w, d, r, r)
BY DEF Like

\* A string that ends, or is none, in a part of a text does so in the text.
LEMMA StringWindow ==
    ASSUME NEW t, NEW w, NEW d, Window(t, w, d), NEW i \in 1 .. Len(t) + 1
    PROVE  Like(t, w, d, StringAt(t, i), StringAt(w, d + i))
<1> DEFINE K == {Quote, "n"} \cup Known
           A == {j \in i .. Len(t) : t[j] \in K}
           B == {j \in d + i .. Len(w) : w[j] \in K}
           n == Len(t)
           l == Len(w)
<1>1. n \in Nat /\ l \in Nat /\ d \in Nat /\ d + n <= l /\ i \in 1 .. n + 1
  BY DEF Window
<1>2. \A j \in 1 .. n : w[d + j] = t[j]
  BY DEF Window
<1>3. /\ StringAt(t, i) = IF A = {} THEN More
                          ELSE IF t[Min(A)] = Quote THEN Outcome("ok", Min(A), {}) ELSE Bad
      /\ StringAt(w, d + i) = IF B = {} THEN More
                              ELSE IF w[Min(B)] = Quote THEN Outcome("ok", Min(B), {}) ELSE Bad
  BY DEF StringAt
<1>4. A = {j \in i .. n : t[j] \in K} /\ B = {j \in d + i .. l : w[j] \in K}
  OBVIOUS
<1>0. Whole(t, w, d) <=> d + n = l
  BY DEF Whole
<1> HIDE DEF A, B, n, l, K
<1>5. A \in SUBSET Nat /\ B \in SUBSET Nat
  BY <1>1, <1>4
<1>6. ASSUME NEW x \in A PROVE x + d \in B
  <2>1. x \in i .. n /\ t[x] \in K
    BY <1>4
  <2>2. x + d = d + x /\ x \in 1 .. n /\ d + x \in d + i .. l
    BY <1>1, <2>1
  <2>3. w[d + x] \in K
    BY Zenon, <1>2, <2>1, <2>2
  <2>4. d + x \in B
    BY Zenon, <1>4, <2>2, <2>3
  <2> QED
    BY Zenon, <2>2, <2>4
<1>7. ASSUME NEW y \in B, y <= d + n PROVE y - d \in A /\ (y - d) + d <= y
  <2>1. y \in d + i .. l /\ w[y] \in K
    BY <1>4
  <2>2. y - d \in i .. n /\ y - d \in 1 .. n /\ d + (y - d) = y /\ (y - d) + d <= y
    BY <1>1, <1>7, <2>1
  <2>3. t[y - d] = w[d + (y - d)]
    BY Zenon, <1>2, <2>2
  <2>4. t[y - d] \in K
    BY Zenon, <2>1, <2>2, <2>3
  <2> QED
    BY Zenon, <1>4, <2>2, <2>4
<1>8. CASE A # {}
  <2>1. \A y \in B : \E x \in A : x + d <= y
    <3>1. ASSUME NEW y \in B PROVE \E x \in A : x + d <= y
      <4>1. CASE y <= d + n
        BY Zenon, <1>7, <4>1
      <4>2. CASE ~ (y <= d + n)
        <5>1. PICK x \in A : TRUE
          BY <1>8
        <5>2. x \in i .. n /\ y \in Nat
          BY <1>4, <1>5
        <5>3. x + d <= y
          BY <1>1, <4>2, <5>2
        <5> QED
          BY Zenon, <5>3
      <4> QED
        BY Zenon, <4>1, <4>2
    <3> QED
      BY <3>1
  <2>2. B # {} /\ Min(B) = Min(A) + d
    BY <1>1, <1>5, <1>6, <1>8, <2>1, MinShift
  <2>3. Min(A) \in A
    BY <1>5, <1>8, MinIs
  <2>4. Min(A) \in 1 .. n /\ Min(A) + d = d + Min(A)
    BY <1>1, <1>4, <2>3
  <2>5. w[Min(B)] = t[Min(A)] /\ Min(B) = d + Min(A)
    BY Zenon, <1>2, <2>2, <2>4
  <2>6. CASE t[Min(A)] = Quote
    <3>1. StringAt(t, i) = Outcome("ok", Min(A), {}) /\ StringAt(w, d + i) = Outcome("ok", d + Min(A), {})
      BY Zenon, <1>3, <1>8, <2>2, <2>5, <2>6
    <3> QED
      BY Zenon, <3>1, LikeClosed
  <2>7. CASE t[Min(A)] # Quote
    <3>1. StringAt(t, i) = Bad /\ StringAt(w, d + i) = Bad
      BY Zenon, <1>3, <1>8, <2>2, <2>5, <2>7
    <3>2. Bad.how # "ok"
      BY MoreAndBad
    <3> QED
      BY Zenon, <3>1, <3>2, LikeItself
  <2> QED
    BY Zenon, <2>6, <2>7
<1>9. CASE A = {}
  <2>1. StringAt(t, i) = More /\ More.how = "more"
    BY Zenon, <1>3, <1>9, MoreAndBad
  <2>2. CASE ~ (d + n = l)
    BY Zenon, <1>0, <2>1, <2>2 DEF Like
  <2>3. CASE d + n = l
    <3>1. \A y \in B : y <= d + n
      BY <1>1, <1>4, <2>3
    <3>2. B = {}
      BY <1>7, <1>9, <3>1
    <3>3. StringAt(w, d + i) = More /\ More.how # "ok"
      BY <1>3, <3>2, MoreAndBad
    <3> QED
      BY Zenon, <2>1, <3>3, LikeItself
  <2> QED
    BY Zenon, <2>2, <2>3
<1> QED
  BY Zenon, <1>8, <1>9

\* A bare key.
LEMMA KeyWindow ==
    ASSUME NEW t, NEW w, NEW d, Window(t, w, d), NEW i \in 1 .. Len(t)
    PROVE  Like(t, w, d, KeyAt(t, i), KeyAt(w, d + i))
<1> DEFINE k == StringAt(t, i + 1)
           p == StringAt(w, d + (i + 1))
           n == Len(t)
           l == Len(w)
           nt == \A j \in k.last + 1 .. n : t[j] = "n"
           nw == \A j \in p.last + 1 .. l : w[j] = "n"
<1>1. /\ n \in Nat /\ l \in Nat /\ d \in Nat /\ d + n <= l /\ i \in 1 .. n /\ i + 1 \in 1 .. n + 1
      /\ (d + i) + 1 = d + (i + 1)
  BY DEF Window
<1>2. \A j \in 1 .. n : w[d + j] = t[j]
  BY DEF Window
<1>3. Like(t, w, d, k, p)
  BY <1>1, StringWindow
<1>4. /\ KeyAt(t, i) = IF k.how # "ok" THEN k ELSE IF nt THEN More ELSE Bad
      /\ KeyAt(w, d + i) = IF p.how # "ok" THEN p ELSE IF nw THEN More ELSE Bad
  <2>1. KeyAt(t, i) = IF k.how # "ok" THEN k ELSE IF nt THEN More ELSE Bad
    BY DEF KeyAt
  <2>2. KeyAt(w, d + i) =
          IF StringAt(w, (d + i) + 1).how # "ok" THEN StringAt(w, (d + i) + 1)
          ELSE IF \A j \in StringAt(w, (d + i) + 1).last + 1 .. Len(w) : w[j] = "n" THEN More ELSE Bad
    BY DEF KeyAt
  <2>3. StringAt(w, (d + i) + 1) = p
    BY Zenon, <1>1
  <2> QED
    BY Zenon, <2>1, <2>2, <2>3
<1>5. k.how = "ok" => k.last \in 1 .. n
  <2>1. i + 1 \in Nat \ {0} /\ t \in Seq(Symbols)
    BY <1>1 DEF Window
  <2>2. k.how = "ok" => k.last \in i + 1 .. n
    BY Zenon, <2>1, StringEnds
  <2> HIDE DEF k, n
  <2> QED
    BY <1>1, <2>2
<1>6. Whole(t, w, d) <=> d + n = l
  BY DEF Whole
<1> HIDE DEF k, p, n, l
<1>7. CASE k.how # "ok"
  <2>1. KeyAt(t, i) = k
    BY Zenon, <1>4, <1>7
  <2>2. CASE k.how # "more" \/ Whole(t, w, d)
    <3>1. p.how # "ok"
      BY Zenon, <1>3, <1>7, <2>2 DEF Like
    <3>2. KeyAt(w, d + i) = p
      BY Zenon, <1>4, <3>1
    <3> QED
      BY Zenon, <1>3, <2>1, <3>2
  <2>3. CASE ~ (k.how # "more" \/ Whole(t, w, d))
    BY Zenon, <2>1, <2>3 DEF Like
  <2> QED
    BY Zenon, <2>2, <2>3
<1>8. CASE k.how = "ok"
  <2>0. k.how # "more"
    BY <1>8
  <2>1. p.how = "ok" /\ p.last = d + k.last /\ k.last \in 1 .. n
    BY Zenon, <1>3, <1>5, <1>8, <2>0 DEF Like
  <2>2. CASE ~ nt
    <3>1. PICK j \in k.last + 1 .. n : t[j] # "n"
      BY Zenon, <2>2
    <3>2. j \in 1 .. n /\ d + j \in (d + k.last) + 1 .. l
      BY <1>1, <2>1, <3>1
    <3>3. d + j \in p.last + 1 .. l
      BY Zenon, <2>1, <3>2
    <3>4. w[d + j] # "n"
      BY Zenon, <1>2, <3>1, <3>2
    <3>5. ~ nw
      BY Zenon, <3>3, <3>4
    <3>6. KeyAt(t, i) = Bad /\ KeyAt(w, d + i) = Bad
      BY Zenon, <1>4, <1>8, <2>1, <2>2, <3>5
    <3>7. Bad.how # "ok"
      BY MoreAndBad
    <3> QED
      BY Zenon, <3>6, <3>7, LikeItself
  <2>3. CASE nt
    <3>1. KeyAt(t, i) = More /\ More.how = "more"
      BY Zenon, <1>4, <1>8, <2>3, MoreAndBad
    <3>2. CASE Whole(t, w, d)
      <4>1. ASSUME NEW j \in p.last + 1 .. l PROVE w[j] = "n"
        <5>1. j - d \in k.last + 1 .. n /\ j - d \in 1 .. n /\ d + (j - d) = j
          BY <1>1, <1>6, <2>1, <3>2
        <5>2. t[j - d] = "n"
          BY Zenon, <2>3, <5>1
        <5> QED
          BY Zenon, <1>2, <5>1, <5>2
      <4>2. nw
        BY Zenon, <4>1
      <4>3. KeyAt(w, d + i) = More /\ More.how # "ok"
        BY <1>4, <2>1, <4>2, MoreAndBad
      <4> QED
        BY Zenon, <3>1, <4>3, LikeItself
    <3>3. CASE ~ Whole(t, w, d)
      BY Zenon, <3>1, <3>3 DEF Like
    <3> QED
      BY Zenon, <3>2, <3>3
  <2> QED
    BY Zenon, <2>2, <2>3
<1> QED
  BY Zenon, <1>7, <1>8

LikeBehind(t, w, d, i) ==
    \A j \in i + 1 .. Len(t) + 1 : \A k \in SUBSET Known :
        Like(t, w, d, ObjectsOf(t)[j][k], ObjectsOf(w)[d + j][k])

\* And so does the value of a member, if the objects behind it do.
LEMMA ValueWindow ==
    ASSUME NEW t, NEW w, NEW d, Window(t, w, d), NEW i \in 1 .. Len(t), LikeBehind(t, w, d, i)
    PROVE  Like(t, w, d, ValueAt(t, ObjectsOf(t), i), ValueAt(w, ObjectsOf(w), d + i))
<1> DEFINE A == Ahead(t, i)
           B == Ahead(w, d + i)
           n == Len(t)
           l == Len(w)
           g == ObjectsOf(t)
           h == ObjectsOf(w)
<1>1. /\ n \in Nat /\ l \in Nat /\ d \in Nat /\ d + n <= l /\ i \in 1 .. n /\ i \in 0 .. n
      /\ t \in Seq(Symbols)
  BY DEF Window
<1>2. \A j \in 1 .. n : w[d + j] = t[j]
  BY DEF Window
<1>3. /\ A # {} => B # {} /\ Min(B) = d + Min(A)
      /\ A = {} /\ Whole(t, w, d) => B = {}
  BY <1>1, AheadWindow
<1>4. /\ A = {} => ValueAt(t, g, i) = More
      /\ A # {} /\ t[Min(A)] = "{" => ValueAt(t, g, i) = g[Min(A) + 1][{}]
      /\ A # {} /\ t[Min(A)] = Quote => ValueAt(t, g, i) = StringAt(t, Min(A) + 1)
      /\ A # {} /\ t[Min(A)] # "{" /\ t[Min(A)] # Quote => ValueAt(t, g, i) = Bad
  BY Zenon, SymbolsApart DEF ValueAt
<1>5. /\ B = {} => ValueAt(w, h, d + i) = More
      /\ B # {} /\ w[Min(B)] = "{" => ValueAt(w, h, d + i) = h[Min(B) + 1][{}]
      /\ B # {} /\ w[Min(B)] = Quote => ValueAt(w, h, d + i) = StringAt(w, Min(B) + 1)
      /\ B # {} /\ w[Min(B)] # "{" /\ w[Min(B)] # Quote => ValueAt(w, h, d + i) = Bad
  BY Zenon, SymbolsApart DEF ValueAt
<1>6. Bad.how # "ok" /\ More.how # "ok" /\ More.how = "more"
  BY MoreAndBad
<1>7. CASE A = {}
  <2>1. ValueAt(t, g, i) = More
    BY Zenon, <1>4, <1>7
  <2>2. CASE Whole(t, w, d)
    <3>1. ValueAt(w, h, d + i) = More
      BY Zenon, <1>3, <1>5, <1>7, <2>2
    <3> QED
      BY Zenon, <1>6, <2>1, <3>1, LikeItself
  <2>3. CASE ~ Whole(t, w, d)
    BY Zenon, <1>6, <2>1, <2>3 DEF Like
  <2> QED
    BY Zenon, <2>2, <2>3
<1>8. CASE A # {}
  <2>1. Min(A) \in i + 1 .. n
    BY <1>1, <1>8, AheadTyped
  <2> HIDE DEF A, B, n, l, g, h
  <2>2. /\ Min(A) \in 1 .. n /\ Min(A) + 1 \in i + 1 .. n + 1 /\ Min(A) + 1 \in 1 .. n + 1
        /\ (d + Min(A)) + 1 = d + (Min(A) + 1)
    BY <1>1, <2>1
  <2>3. w[Min(B)] = t[Min(A)] /\ B # {} /\ Min(B) + 1 = d + (Min(A) + 1)
    BY Zenon, <1>2, <1>3, <1>8, <2>2
  <2>4. CASE t[Min(A)] = "{"
    <3>1. ValueAt(t, g, i) = g[Min(A) + 1][{}] /\ ValueAt(w, h, d + i) = h[d + (Min(A) + 1)][{}]
      BY Zenon, <1>4, <1>5, <1>8, <2>3, <2>4
    <3>2. {} \in SUBSET Known
      OBVIOUS
    <3>3. Like(t, w, d, g[Min(A) + 1][{}], h[d + (Min(A) + 1)][{}])
      BY Zenon, <2>2, <3>2 DEF LikeBehind, g, h, n
    <3> QED
      BY Zenon, <3>1, <3>3 DEF g, h
  <2>5. CASE t[Min(A)] = Quote
    <3>1. ValueAt(t, g, i) = StringAt(t, Min(A) + 1) /\ ValueAt(w, h, d + i) = StringAt(w, d + (Min(A) + 1))
      BY Zenon, <1>4, <1>5, <1>8, <2>3, <2>5
    <3>3. Like(t, w, d, StringAt(t, Min(A) + 1), StringAt(w, d + (Min(A) + 1)))
      BY Zenon, <2>2, StringWindow DEF n
    <3> QED
      BY Zenon, <3>1, <3>3 DEF g, h
  <2>6. CASE t[Min(A)] # "{" /\ t[Min(A)] # Quote
    <3>1. ValueAt(t, g, i) = Bad /\ ValueAt(w, h, d + i) = Bad
      BY Zenon, <1>4, <1>5, <1>8, <2>3, <2>6
    <3> QED
      BY Zenon, <1>6, <3>1, LikeItself DEF g, h
  <2> QED
    BY Zenon, <2>4, <2>5, <2>6 DEF g, h
<1> QED
  BY Zenon, <1>7, <1>8

\* The cases of an object's next symbol.
ObjectCased(t, g, i, m) ==
    /\ t[i] = "n" => ObjectAt(t, g, i, m) = g[i + 1][m]
    /\ t[i] = "}" => ObjectAt(t, g, i, m) = Outcome("ok", i, m)
    /\ t[i] \in Errors /\ m \cap Errors # {} => ObjectAt(t, g, i, m) = Bad
    /\ t[i] \in Errors /\ m \cap Errors = {} => ObjectAt(t, g, i, m) = g[i + 1][m \cup {t[i]}]
    /\ t[i] = "m" /\ "m" \in m => ObjectAt(t, g, i, m) = Bad
    /\ t[i] = "m" /\ "m" \notin m /\ ValueAt(t, g, i).how = "ok"
         => ObjectAt(t, g, i, m) = g[ValueAt(t, g, i).last + 1][m \cup {"m"}]
    /\ t[i] = "m" /\ "m" \notin m /\ ValueAt(t, g, i).how # "ok" => ObjectAt(t, g, i, m) = ValueAt(t, g, i)
    /\ t[i] = Quote => ObjectAt(t, g, i, m) = KeyAt(t, i)
    /\ t[i] = "{" \/ t[i] = "x" => ObjectAt(t, g, i, m) = Bad

\* The cases of an object, one symbol at a time.
LEMMA ObjectCases ==
    ASSUME NEW t, NEW g, NEW i, NEW m, ~ (i > Len(t))
    PROVE  ObjectCased(t, g, i, m)
<1>1. t[i] = "n" => ObjectAt(t, g, i, m) = g[i + 1][m]
  BY Zenon, SymbolsApart DEF ObjectAt
<1>2. t[i] = "}" => ObjectAt(t, g, i, m) = Outcome("ok", i, m)
  BY Zenon, SymbolsApart DEF ObjectAt
<1>3. t[i] \in Errors /\ m \cap Errors # {} => ObjectAt(t, g, i, m) = Bad
  BY Zenon, SymbolsApart DEF ObjectAt
<1>4. t[i] \in Errors /\ m \cap Errors = {} => ObjectAt(t, g, i, m) = g[i + 1][m \cup {t[i]}]
  BY Zenon, SymbolsApart DEF ObjectAt
<1>5. t[i] = "m" /\ "m" \in m => ObjectAt(t, g, i, m) = Bad
  BY Zenon, SymbolsApart DEF ObjectAt
<1>6. t[i] = "m" /\ "m" \notin m /\ ValueAt(t, g, i).how = "ok"
        => ObjectAt(t, g, i, m) = g[ValueAt(t, g, i).last + 1][m \cup {"m"}]
  BY Zenon, SymbolsApart DEF ObjectAt
<1>7. t[i] = "m" /\ "m" \notin m /\ ValueAt(t, g, i).how # "ok" => ObjectAt(t, g, i, m) = ValueAt(t, g, i)
  BY Zenon, SymbolsApart DEF ObjectAt
<1>8. t[i] = Quote => ObjectAt(t, g, i, m) = KeyAt(t, i)
  BY Zenon, SymbolsApart DEF ObjectAt
<1>9. t[i] = "{" \/ t[i] = "x" => ObjectAt(t, g, i, m) = Bad
  BY Zenon, SymbolsApart DEF ObjectAt
<1> QED
  BY Zenon, <1>1, <1>2, <1>3, <1>4, <1>5, <1>6, <1>7, <1>8, <1>9 DEF ObjectCased

\* More text changes no object that is complete or cannot be completed.
LEMMA ObjectAtWindow ==
    ASSUME NEW t, NEW w, NEW d, Window(t, w, d), NEW i \in 1 .. Len(t), LikeBehind(t, w, d, i),
           NEW m \in SUBSET Known
    PROVE  Like(t, w, d, ObjectAt(t, ObjectsOf(t), i, m), ObjectAt(w, ObjectsOf(w), d + i, m))
<1> DEFINE n == Len(t)
           l == Len(w)
           g == ObjectsOf(t)
           h == ObjectsOf(w)
           x == ObjectAt(t, g, i, m)
           y == ObjectAt(w, h, d + i, m)
           v == ValueAt(t, g, i)
           u == ValueAt(w, h, d + i)
<1>1. /\ n \in Nat /\ l \in Nat /\ d \in Nat /\ d + n <= l /\ i \in 1 .. n /\ t \in Seq(Symbols)
      /\ ~ (i > n) /\ ~ (d + i > l) /\ (d + i) + 1 = d + (i + 1) /\ i + 1 \in i + 1 .. n + 1
  BY DEF Window
<1>2. w[d + i] = t[i] /\ t[i] \in Symbols
  BY DEF Window
<1>3. Like(t, w, d, v, u)
  BY Zenon, ValueWindow
<1>4. v.how = "ok" => v.last \in i + 1 .. n
  <2>1. TypedBehind(t, g, i)
    <3>1. i \in 1 .. Len(t) + 1
      BY <1>1
    <3> QED
      BY <1>1, <3>1, ObjectsTyped
  <2>2. ObjectTyped(t, v, i + 1)
    BY <1>1, <2>1, ValueTyped
  <2> HIDE DEF v, n
  <2> QED
    BY Zenon, <2>2 DEF ObjectTyped, n
<1>5. Bad.how # "ok" /\ More.how # "ok" /\ More.how = "more"
  BY MoreAndBad
<1>6. ASSUME NEW k \in SUBSET Known, NEW j \in i + 1 .. n + 1
      PROVE  Like(t, w, d, g[j][k], h[d + j][k])
  BY Zenon DEF LikeBehind
<1>0. ObjectCased(t, g, i, m) /\ ObjectCased(w, h, d + i, m)
  BY Zenon, <1>1, ObjectCases
<1> HIDE DEF g, h, v, u, n, l
<1>7. CASE t[i] = "n"
  <2>1. x = g[i + 1][m] /\ y = h[d + (i + 1)][m]
    BY Zenon, <1>0, <1>1, <1>2, <1>7 DEF ObjectCased
  <2> QED
    BY Zenon, <1>1, <1>6, <2>1 DEF g, h
<1>8. CASE t[i] = "}"
  <2>1. x = Outcome("ok", i, m) /\ y = Outcome("ok", d + i, m)
    BY Zenon, <1>0, <1>1, <1>2, <1>8 DEF ObjectCased
  <2> QED
    BY Zenon, <2>1, LikeClosed DEF g, h
<1>9. CASE t[i] \in Errors
  <2>1. CASE m \cap Errors = {}
    <3>1. x = g[i + 1][m \cup {t[i]}] /\ y = h[d + (i + 1)][m \cup {t[i]}]
      BY Zenon, <1>0, <1>1, <1>2, <1>9, <2>1 DEF ObjectCased
    <3>2. m \cup {t[i]} \in SUBSET Known
      BY <1>9 DEF Known
    <3> QED
      BY Zenon, <1>1, <1>6, <3>1, <3>2 DEF g, h
  <2>2. CASE m \cap Errors # {}
    <3>1. x = Bad /\ y = Bad
      BY Zenon, <1>0, <1>1, <1>2, <1>9, <2>2 DEF ObjectCased
    <3> QED
      BY Zenon, <1>5, <3>1, LikeItself DEF g, h
  <2> QED
    BY Zenon, <2>1, <2>2
<1>10. CASE t[i] = "m"
  <2>1. CASE "m" \in m
    <3>1. x = Bad /\ y = Bad
      BY Zenon, <1>0, <1>1, <1>2, <1>10, <2>1 DEF ObjectCased
    <3> QED
      BY Zenon, <1>5, <3>1, LikeItself DEF g, h
  <2>2. CASE "m" \notin m /\ v.how = "ok"
    <3>0. v.how # "more"
      BY <2>2
    <3>1. u.how = "ok" /\ u.last = d + v.last /\ v.last \in i + 1 .. n
      BY Zenon, <1>3, <1>4, <2>2, <3>0 DEF Like
    <3>2. v.last + 1 \in i + 1 .. n + 1 /\ (d + v.last) + 1 = d + (v.last + 1)
      BY <1>1, <3>1
    <3>3. x = g[v.last + 1][m \cup {"m"}]
      BY Zenon, <1>0, <1>1, <1>10, <2>2 DEF ObjectCased, v
    <3>4. y = h[u.last + 1][m \cup {"m"}]
      BY Zenon, <1>0, <1>1, <1>2, <1>10, <2>2, <3>1 DEF ObjectCased, u
    <3>5. y = h[d + (v.last + 1)][m \cup {"m"}]
      BY Zenon, <3>1, <3>2, <3>4
    <3>6. m \cup {"m"} \in SUBSET Known
      BY DEF Known
    <3> QED
      BY Zenon, <1>6, <3>2, <3>3, <3>5, <3>6 DEF g, h
  <2>3. CASE "m" \notin m /\ v.how # "ok"
    <3>1. x = v
      BY Zenon, <1>0, <1>1, <1>10, <2>3 DEF ObjectCased, v
    <3>2. CASE v.how # "more" \/ Whole(t, w, d)
      <4>1. u.how # "ok"
        BY Zenon, <1>3, <2>3, <3>2 DEF Like
      <4>2. y = u
        BY Zenon, <1>0, <1>1, <1>2, <1>10, <2>3, <4>1 DEF ObjectCased, u
      <4> QED
        BY Zenon, <1>3, <3>1, <4>2 DEF g, h
    <3>3. CASE ~ (v.how # "more" \/ Whole(t, w, d))
      BY Zenon, <3>1, <3>3 DEF Like, g, h
    <3> QED
      BY Zenon, <3>2, <3>3
  <2> QED
    BY Zenon, <2>1, <2>2, <2>3
<1>11. CASE t[i] = Quote
  <2>1. x = KeyAt(t, i) /\ y = KeyAt(w, d + i)
    BY Zenon, <1>0, <1>1, <1>2, <1>11 DEF ObjectCased
  <2> QED
    BY Zenon, <2>1, KeyWindow DEF g, h
<1>12. CASE t[i] = "{" \/ t[i] = "x"
  <2>1. x = Bad /\ y = Bad
    BY Zenon, <1>0, <1>1, <1>2, <1>12 DEF ObjectCased
  <2> QED
    BY Zenon, <1>5, <2>1, LikeItself DEF g, h
<1>13. t[i] = "n" \/ t[i] = "}" \/ t[i] \in Errors \/ t[i] = "m" \/ t[i] = Quote
       \/ (t[i] = "{" \/ t[i] = "x")
  BY <1>2 DEF Symbols, Known
<1> QED
  BY Zenon, <1>7, <1>8, <1>9, <1>10, <1>11, <1>12, <1>13

\* An object in a part of a text is like the one in the text: complete, it is the same;
\* impossible, it stays impossible; only one that waits for more can become anything.
LEMMA ObjectWindow ==
    ASSUME NEW t, NEW w, NEW d, Window(t, w, d), NEW i \in 1 .. Len(t) + 1, NEW m \in SUBSET Known
    PROVE  Like(t, w, d, ObjectsOf(t)[i][m], ObjectsOf(w)[d + i][m])
<1> DEFINE n == Len(t) + 1
           l == Len(w)
           S == {j \in 1 .. n : \A k \in SUBSET Known :
                     Like(t, w, d, ObjectsOf(t)[j][k], ObjectsOf(w)[d + j][k])}
<1>1. /\ Len(t) \in Nat /\ l \in Nat /\ d \in Nat /\ d + Len(t) <= l
      /\ t \in Seq(Symbols) /\ w \in Seq(Symbols) /\ n \in Nat
  BY DEF Window
<1>2. ASSUME NEW j \in 1 .. n, \A k \in j + 1 .. n : k \in S PROVE j \in S
  <2>1. ASSUME NEW k \in SUBSET Known
        PROVE  Like(t, w, d, ObjectsOf(t)[j][k], ObjectsOf(w)[d + j][k])
    <3>1. j \in 1 .. Len(t) + 1 /\ d + j \in 1 .. Len(w) + 1
      BY <1>1
    <3>2. /\ ObjectsOf(t)[j][k] = ObjectAt(t, ObjectsOf(t), j, k)
          /\ ObjectsOf(w)[d + j][k] = ObjectAt(w, ObjectsOf(w), d + j, k)
      BY Zenon, <1>1, <3>1, ObjectStep
    <3>3. CASE j <= Len(t)
      <4>1. LikeBehind(t, w, d, j)
        BY <1>2 DEF LikeBehind
      <4>2. j \in 1 .. Len(t)
        BY <1>1, <3>3
      <4> QED
        BY Zenon, <3>2, <4>1, <4>2, ObjectAtWindow
    <3>4. CASE ~ (j <= Len(t))
      <4>1. j > Len(t) /\ (d + Len(t) = l => d + j > Len(w))
        BY <1>1, <3>4
      <4>2. ObjectsOf(t)[j][k] = More
        BY Zenon, <3>2, <4>1 DEF ObjectAt
      <4>3. More.how = "more" /\ More.how # "ok"
        BY MoreAndBad
      <4>4. CASE Whole(t, w, d)
        <5>1. d + j > Len(w)
          BY Zenon, <4>1, <4>4 DEF Whole
        <5>2. ObjectsOf(w)[d + j][k] = More
          BY Zenon, <3>2, <5>1 DEF ObjectAt
        <5> QED
          BY Zenon, <4>2, <4>3, <5>2, LikeItself
      <4>5. CASE ~ Whole(t, w, d)
        BY Zenon, <4>2, <4>3, <4>5 DEF Like
      <4> QED
        BY Zenon, <4>4, <4>5
    <3> QED
      BY Zenon, <3>3, <3>4
  <2> QED
    BY <2>1
<1>3. \A j \in 1 .. n : j \in S
  <2> HIDE DEF S, n
  <2> QED
    BY <1>1, <1>2, Descending
<1> QED
  BY <1>3

\* How a count goes on: whether it is outside of strings or inside.
Counted(t, i, d) ==
    /\ t[i] = Quote => /\ Outside(t, i, d) = Inside(t, i + 1, d)
                       /\ Inside(t, i, d) = Outside(t, i + 1, d)
    /\ t[i] # Quote => Inside(t, i, d) = Inside(t, i + 1, d)
    /\ t[i] = "{" => Outside(t, i, d) = Outside(t, i + 1, d + 1)
    /\ t[i] = "}" /\ d = 1 => Outside(t, i, d) = i
    /\ t[i] = "}" /\ d # 1 => Outside(t, i, d) = Outside(t, i + 1, d - 1)
    /\ t[i] # Quote /\ t[i] # "{" /\ t[i] # "}" => Outside(t, i, d) = Outside(t, i + 1, d)

\* The count of braces, one symbol at a time.
LEMMA Counts ==
    ASSUME NEW t \in Seq(Symbols), NEW i \in 1 .. Len(t), NEW d \in Depths
    PROVE  Counted(t, i, d)
BY Counting DEF Counted

\* Where a brace may be closed.
CloseTyped(t, i, c) == c = 0 \/ c \in i .. Len(t)

\* A brace is closed behind itself or nowhere.
LEMMA ClosingTyped ==
    ASSUME NEW t \in Seq(Symbols), NEW i \in 1 .. Len(t) + 1, NEW d \in Depths
    PROVE  CloseTyped(t, i, Outside(t, i, d)) /\ CloseTyped(t, i, Inside(t, i, d))
<1> DEFINE n == Len(t) + 1
           S == {j \in 1 .. n : \A e \in Depths :
                     CloseTyped(t, j, Outside(t, j, e)) /\ CloseTyped(t, j, Inside(t, j, e))}
<1>1. Len(t) \in Nat /\ n \in Nat
  OBVIOUS
<1>2. ASSUME NEW j \in 1 .. n, \A k \in j + 1 .. n : k \in S PROVE j \in S
  <2>1. ASSUME NEW e \in Depths
        PROVE  CloseTyped(t, j, Outside(t, j, e)) /\ CloseTyped(t, j, Inside(t, j, e))
    <3>1. CASE j <= Len(t)
      <4>1. j \in 1 .. Len(t) /\ j + 1 \in j + 1 .. n
        BY <1>1, <3>1
      <4>2. Counted(t, j, e)
        BY <4>1, Counts
      <4>3. ASSUME NEW b \in Depths
            PROVE  CloseTyped(t, j, Outside(t, j + 1, b)) /\ CloseTyped(t, j, Inside(t, j + 1, b))
        <5>1. CloseTyped(t, j + 1, Outside(t, j + 1, b)) /\ CloseTyped(t, j + 1, Inside(t, j + 1, b))
          BY <1>2, <4>1
        <5>2. \A x : CloseTyped(t, j + 1, x) => CloseTyped(t, j, x)
          BY <1>1 DEF CloseTyped
        <5> QED
          BY Zenon, <5>1, <5>2
      <4>4. CloseTyped(t, j, j)
        BY <4>1 DEF CloseTyped
      <4>5. e + 1 \in Depths /\ (e # 1 => e - 1 \in Depths) /\ "{" # "}" /\ "{" # Quote /\ "}" # Quote
        BY DEF Depths, Quote
      <4> QED
        BY Zenon, <4>2, <4>3, <4>4, <4>5 DEF Counted
    <3>2. CASE ~ (j <= Len(t))
      <4>1. j = Len(t) + 1
        BY <1>1, <3>2
      <4>2. Outside(t, j, e) = 0 /\ Inside(t, j, e) = 0
        BY Zenon, <4>1, CountingEnds
      <4> QED
        BY Zenon, <4>2 DEF CloseTyped
    <3> QED
      BY Zenon, <3>1, <3>2
  <2> QED
    BY <2>1
<1>3. \A j \in 1 .. n : j \in S
  <2> HIDE DEF S, n
  <2> QED
    BY <1>1, <1>2, Descending
<1> QED
  BY <1>3

\* More text closes only what is not closed.
CloseLike(t, w, d, c, b) ==
    /\ c # 0 => b = d + c
    /\ c = 0 => b = 0 \/ (b > d + Len(t) /\ ~ Whole(t, w, d))

\* A brace closed in a part of a text is closed there in the text; one that is not may
\* be closed behind the part.
LEMMA ClosingWindow ==
    ASSUME NEW t, NEW w, NEW d, Window(t, w, d), NEW i \in 1 .. Len(t) + 1, NEW e \in Depths
    PROVE  /\ CloseLike(t, w, d, Outside(t, i, e), Outside(w, d + i, e))
           /\ CloseLike(t, w, d, Inside(t, i, e), Inside(w, d + i, e))
<1> DEFINE n == Len(t) + 1
           l == Len(w)
           S == {j \in 1 .. n : \A b \in Depths :
                     /\ CloseLike(t, w, d, Outside(t, j, b), Outside(w, d + j, b))
                     /\ CloseLike(t, w, d, Inside(t, j, b), Inside(w, d + j, b))}
<1>1. /\ Len(t) \in Nat /\ l \in Nat /\ d \in Nat /\ d + Len(t) <= l
      /\ t \in Seq(Symbols) /\ w \in Seq(Symbols) /\ n \in Nat
  BY DEF Window
<1>2. ASSUME NEW j \in 1 .. n, \A k \in j + 1 .. n : k \in S PROVE j \in S
  <2>1. ASSUME NEW b \in Depths
        PROVE  /\ CloseLike(t, w, d, Outside(t, j, b), Outside(w, d + j, b))
               /\ CloseLike(t, w, d, Inside(t, j, b), Inside(w, d + j, b))
    <3>1. CASE j <= Len(t)
      <4>1. /\ j \in 1 .. Len(t) /\ j + 1 \in j + 1 .. n /\ d + j \in 1 .. Len(w)
            /\ (d + j) + 1 = d + (j + 1)
        BY <1>1, <3>1
      <4>2. Counted(t, j, b) /\ Counted(w, d + j, b)
        BY <1>1, <4>1, Counts
      <4>3. \A x \in Depths :
               /\ CloseLike(t, w, d, Outside(t, j + 1, x), Outside(w, (d + j) + 1, x))
               /\ CloseLike(t, w, d, Inside(t, j + 1, x), Inside(w, (d + j) + 1, x))
        <5>1. j + 1 \in S
          BY <1>2, <4>1
        <5> QED
          BY Zenon, <4>1, <5>1
      <4>4. CloseLike(t, w, d, j, d + j)
        BY <4>1 DEF CloseLike
      <4>5. b + 1 \in Depths /\ (b # 1 => b - 1 \in Depths) /\ "{" # "}" /\ "{" # Quote /\ "}" # Quote
        BY DEF Depths, Quote
      <4>6. w[d + j] = t[j]
        BY Zenon, <4>1 DEF Window
      <4> HIDE DEF S, n, l
      <4>7. CASE t[j] = Quote
        BY Zenon, <4>2, <4>3, <4>6, <4>7 DEF Counted
      <4>8. CASE t[j] = "{"
        BY Zenon, <4>2, <4>3, <4>5, <4>6, <4>8 DEF Counted
      <4>9. CASE t[j] = "}" /\ b = 1
        BY Zenon, <4>2, <4>3, <4>4, <4>5, <4>6, <4>9 DEF Counted
      <4>10. CASE t[j] = "}" /\ b # 1
        BY Zenon, <4>2, <4>3, <4>5, <4>6, <4>10 DEF Counted
      <4>11. CASE t[j] # Quote /\ t[j] # "{" /\ t[j] # "}"
        BY Zenon, <4>2, <4>3, <4>6, <4>11 DEF Counted
      <4> QED
        BY Zenon, <4>7, <4>8, <4>9, <4>10, <4>11
    <3>2. CASE ~ (j <= Len(t))
      <4>1. j = Len(t) + 1 /\ d + j \in 1 .. Len(w) + 1 /\ d + j > d + Len(t)
        BY <1>1, <3>2
      <4>2. Outside(t, j, b) = 0 /\ Inside(t, j, b) = 0
        BY Zenon, <1>1, <4>1, CountingEnds
      <4>3. CloseTyped(w, d + j, Outside(w, d + j, b)) /\ CloseTyped(w, d + j, Inside(w, d + j, b))
        BY <1>1, <4>1, ClosingTyped
      <4>4. ASSUME NEW x, CloseTyped(w, d + j, x) PROVE CloseLike(t, w, d, 0, x)
        <5>1. x = 0 \/ (x > d + Len(t) /\ d + Len(t) # Len(w))
          BY <1>1, <4>1, <4>4 DEF CloseTyped
        <5> QED
          BY Zenon, <5>1 DEF CloseLike, Whole
      <4> QED
        BY Zenon, <4>2, <4>3, <4>4
    <3> QED
      BY Zenon, <3>1, <3>2
  <2> QED
    BY <2>1
<1>3. \A j \in 1 .. n : j \in S
  <2> HIDE DEF S, n
  <2> QED
    BY <1>1, <1>2, Descending
<1> QED
  BY <1>3

\* What is inside a string counts for nothing.
LEMMA StringPassed ==
    ASSUME NEW t \in Seq(Symbols), NEW i \in 1 .. Len(t) + 1, NEW d \in Depths, StringAt(t, i).how = "ok"
    PROVE  Inside(t, i, d) = Outside(t, StringAt(t, i).last + 1, d)
<1> DEFINE l == StringAt(t, i).last
           S == {j \in 1 .. l : j < i \/ Inside(t, j, d) = Outside(t, l + 1, d)}
<1>1. l \in i .. Len(t) /\ t[l] = Quote /\ \A j \in i .. l - 1 : t[j] # Quote
  BY StringEnds
<1>2. l \in Nat /\ Len(t) \in Nat /\ i \in 1 .. l
  BY <1>1
<1> HIDE DEF l
<1>3. ASSUME NEW j \in 1 .. l, \A k \in j + 1 .. l : k \in S PROVE j \in S
  <2>1. j \in 1 .. Len(t)
    BY <1>1, <1>2
  <2>2. Counted(t, j, d)
    BY <2>1, Counts
  <2>3. CASE j = l
    BY Zenon, <1>1, <2>2, <2>3 DEF Counted
  <2>4. CASE j # l /\ ~ (j < i)
    <3>1. j \in i .. l - 1 /\ j + 1 \in j + 1 .. l /\ ~ (j + 1 < i)
      BY <1>2, <2>4
    <3>2. Inside(t, j, d) = Inside(t, j + 1, d)
      BY Zenon, <1>1, <2>2, <3>1 DEF Counted
    <3>3. Inside(t, j + 1, d) = Outside(t, l + 1, d)
      BY Zenon, <1>3, <3>1
    <3> QED
      BY Zenon, <3>2, <3>3
  <2> QED
    BY Zenon, <2>3, <2>4
<1>4. \A j \in 1 .. l : j \in S
  <2> HIDE DEF S
  <2> QED
    BY <1>2, <1>3, Descending
<1>5. ~ (i < i)
  BY <1>2
<1> QED
  BY Zenon, <1>2, <1>4, <1>5 DEF l

\* Nor do newlines.
LEMMA NewlinesPassed ==
    ASSUME NEW t \in Seq(Symbols), NEW i \in 1 .. Len(t), NEW k \in i .. Len(t), NEW d \in Depths,
           \A j \in i .. k - 1 : t[j] = "n"
    PROVE  Outside(t, i, d) = Outside(t, k, d)
<1> DEFINE S == {j \in 1 .. k : j < i \/ Outside(t, j, d) = Outside(t, k, d)}
<1>1. k \in Nat /\ Len(t) \in Nat /\ i \in 1 .. k /\ k <= Len(t)
  OBVIOUS
<1>2. ASSUME NEW j \in 1 .. k, \A b \in j + 1 .. k : b \in S PROVE j \in S
  <2>1. j \in 1 .. Len(t)
    BY <1>1
  <2>2. Counted(t, j, d)
    BY <2>1, Counts
  <2>3. CASE j = k
    BY Zenon, <2>3
  <2>4. CASE j # k /\ ~ (j < i)
    <3>1. j \in i .. k - 1 /\ j + 1 \in j + 1 .. k /\ ~ (j + 1 < i)
      BY <1>1, <2>4
    <3>2. t[j] = "n" /\ "n" # Quote /\ "n" # "{" /\ "n" # "}"
      BY <3>1 DEF Quote
    <3>3. Outside(t, j, d) = Outside(t, j + 1, d)
      BY Zenon, <2>2, <3>2 DEF Counted
    <3>4. Outside(t, j + 1, d) = Outside(t, k, d)
      BY Zenon, <1>2, <3>1
    <3> QED
      BY Zenon, <3>3, <3>4
  <2> QED
    BY Zenon, <2>3, <2>4
<1>3. \A j \in 1 .. k : j \in S
  <2> HIDE DEF S
  <2> QED
    BY <1>1, <1>2, Descending
<1>4. ~ (i < i)
  BY <1>1
<1> QED
  BY Zenon, <1>1, <1>3, <1>4

\* The count of braces from i on is brought back by the one at l.
ClosedAt(t, i, l) ==
    /\ Outside(t, i, 1) = l
    /\ \A d \in Depths : d # 1 => Outside(t, i, d) = Outside(t, l + 1, d - 1)

ClosesItself(t, i, r) == r.how = "ok" => ClosedAt(t, i, r.last)

ClosesBehind(t, i) ==
    \A j \in i + 1 .. Len(t) + 1 : \A k \in SUBSET Known : ClosesItself(t, j, ObjectsOf(t)[j][k])

\* The value of a member leaves the count as it was.
LEMMA ValuePassed ==
    ASSUME NEW t \in Seq(Symbols), NEW i \in 1 .. Len(t), NEW d \in Depths, t[i] = "m",
           ClosesBehind(t, i), ValueAt(t, ObjectsOf(t), i).how = "ok"
    PROVE  Outside(t, i, d) = Outside(t, ValueAt(t, ObjectsOf(t), i).last + 1, d)
<1> DEFINE g == ObjectsOf(t)
           v == ValueAt(t, g, i)
           from == Min(Ahead(t, i))
<1>1. CASE Ahead(t, i) = {}
  <2>1. v = More
    BY Zenon, <1>1 DEF ValueAt
  <2>2. More.how # "ok"
    BY MoreAndBad
  <2> QED
    BY Zenon, <2>1, <2>2
<1>2. CASE Ahead(t, i) # {}
  <2>1. from \in i + 1 .. Len(t) /\ \A j \in i + 1 .. from - 1 : t[j] = "n"
    BY <1>2, AheadTyped
  <2>2. /\ t[from] = "{" => v = g[from + 1][{}]
        /\ t[from] = Quote => v = StringAt(t, from + 1)
        /\ t[from] # "{" /\ t[from] # Quote => v = Bad
    BY Zenon, <1>2, SymbolsApart DEF ValueAt
  <2> HIDE DEF from
  <2>3. /\ i + 1 \in 1 .. Len(t) /\ from \in i + 1 .. Len(t) /\ from \in 1 .. Len(t)
        /\ from + 1 \in i + 1 .. Len(t) + 1 /\ from + 1 \in 1 .. Len(t) + 1
    BY <2>1
  <2>4. Outside(t, i, d) = Outside(t, i + 1, d)
    <3>1. Counted(t, i, d)
      BY Counts
    <3>2. t[i] # Quote /\ t[i] # "{" /\ t[i] # "}"
      BY DEF Quote
    <3> QED
      BY Zenon, <3>1, <3>2 DEF Counted
  <2>5. Outside(t, i + 1, d) = Outside(t, from, d)
    BY <2>1, <2>3, NewlinesPassed
  <2>6. \A e \in Depths : Counted(t, from, e)
    BY <2>3, Counts
  <2>7. CASE t[from] = "{"
    <3>1. v = g[from + 1][{}] /\ {} \in SUBSET Known
      BY <2>2, <2>7
    <3>2. ClosesItself(t, from + 1, g[from + 1][{}])
      BY Zenon, <2>3, <3>1 DEF ClosesBehind
    <3>3. ClosedAt(t, from + 1, v.last)
      BY Zenon, <3>1, <3>2 DEF ClosesItself
    <3>4. d + 1 \in Depths /\ d + 1 # 1 /\ (d + 1) - 1 = d
      BY DEF Depths
    <3>5. Outside(t, from, d) = Outside(t, from + 1, d + 1)
      BY Zenon, <2>6, <2>7 DEF Counted
    <3>6. Outside(t, from + 1, d + 1) = Outside(t, v.last + 1, d)
      BY Zenon, <3>3, <3>4 DEF ClosedAt
    <3> QED
      BY Zenon, <2>4, <2>5, <3>5, <3>6
  <2>8. CASE t[from] = Quote
    <3>1. v = StringAt(t, from + 1)
      BY Zenon, <2>2, <2>8
    <3>2. Outside(t, from, d) = Inside(t, from + 1, d)
      BY Zenon, <2>6, <2>8 DEF Counted
    <3>3. StringAt(t, from + 1).how = "ok"
      BY Zenon, <3>1
    <3>4. Inside(t, from + 1, d) = Outside(t, StringAt(t, from + 1).last + 1, d)
      BY <2>3, <3>3, StringPassed
    <3> QED
      BY Zenon, <2>4, <2>5, <3>1, <3>2, <3>4
  <2>9. CASE t[from] # "{" /\ t[from] # Quote
    <3>1. v = Bad
      BY Zenon, <2>2, <2>9
    <3>2. Bad.how # "ok"
      BY MoreAndBad
    <3> QED
      BY Zenon, <3>1, <3>2
  <2> QED
    BY Zenon, <2>7, <2>8, <2>9
<1> QED
  BY Zenon, <1>1, <1>2

\* A symbol or a value that leaves the count as it was.
LEMMA ClosedFrom ==
    ASSUME NEW t, NEW i, NEW j, NEW l, \A d \in Depths : Outside(t, i, d) = Outside(t, j, d),
           ClosedAt(t, j, l)
    PROVE  ClosedAt(t, i, l)
<1>1. 1 \in Depths
  BY DEF Depths
<1> QED
  BY Zenon, <1>1 DEF ClosedAt

\* A document ends with the brace that closes it.
LEMMA ObjectCloses ==
    ASSUME NEW t \in Seq(Symbols), NEW i \in 1 .. Len(t) + 1, NEW m \in SUBSET Known
    PROVE  ClosesItself(t, i, ObjectsOf(t)[i][m])
<1> DEFINE n == Len(t) + 1
           g == ObjectsOf(t)
           S == {j \in 1 .. n : \A k \in SUBSET Known : ClosesItself(t, j, ObjectsOf(t)[j][k])}
<1>1. Len(t) \in Nat /\ n \in Nat
  OBVIOUS
<1>2. ASSUME NEW j \in 1 .. n, \A b \in j + 1 .. n : b \in S PROVE j \in S
  <2>1. ASSUME NEW k \in SUBSET Known, g[j][k].how = "ok"
        PROVE  ClosedAt(t, j, g[j][k].last)
    <3>0. j \in 1 .. Len(t) + 1
      OBVIOUS
    <3>1. g[j][k] = ObjectAt(t, g, j, k)
      BY Zenon, <3>0, ObjectStep
    <3>2. Bad.how # "ok" /\ More.how # "ok"
      BY MoreAndBad
    <3>3. ClosesBehind(t, j)
      BY <1>2 DEF ClosesBehind
    <3>4. ~ (j > Len(t))
      <4>1. j > Len(t) => g[j][k] = More
        BY Zenon, <3>1 DEF ObjectAt
      <4> QED
        BY Zenon, <2>1, <3>2, <4>1
    <3>5. /\ j \in 1 .. Len(t) /\ j + 1 \in j + 1 .. n /\ j + 1 \in j + 1 .. Len(t) + 1 /\ t[j] \in Symbols
      BY <1>1, <3>4
    <3>6. ObjectCased(t, g, j, k)
      BY Zenon, <3>4, ObjectCases
    <3>7. \A d \in Depths : Counted(t, j, d)
      BY <3>5, Counts
    <3>8. \A c \in SUBSET Known : g[j + 1][c].how = "ok" => ClosedAt(t, j + 1, g[j + 1][c].last)
      BY Zenon, <3>3, <3>5 DEF ClosesBehind, ClosesItself
    <3> HIDE DEF g, S, n
    <3>9. CASE t[j] = "n"
      <4>1. g[j][k] = g[j + 1][k]
        BY Zenon, <3>1, <3>6, <3>9 DEF ObjectCased
      <4>2. "n" # Quote /\ "n" # "{" /\ "n" # "}"
        BY DEF Quote
      <4>3. \A d \in Depths : Outside(t, j, d) = Outside(t, j + 1, d)
        BY Zenon, <3>7, <3>9, <4>2 DEF Counted
      <4>4. ClosedAt(t, j + 1, g[j][k].last)
        BY Zenon, <2>1, <3>8, <4>1
      <4> QED
        BY Zenon, <4>3, <4>4, ClosedFrom
    <3>10. CASE t[j] = "}"
      <4>1. g[j][k] = Outcome("ok", j, k)
        BY Zenon, <3>1, <3>6, <3>10 DEF ObjectCased
      <4>2. g[j][k].last = j
        BY <4>1 DEF Outcome
      <4>3. 1 \in Depths /\ "}" # Quote
        BY DEF Depths, Quote
      <4>4. Outside(t, j, 1) = j
        BY Zenon, <3>7, <3>10, <4>3 DEF Counted
      <4>5. \A d \in Depths : d # 1 => Outside(t, j, d) = Outside(t, j + 1, d - 1)
        BY Zenon, <3>7, <3>10 DEF Counted
      <4> QED
        BY Zenon, <4>2, <4>4, <4>5 DEF ClosedAt
    <3>11. CASE t[j] \in Errors
      <4>1. CASE k \cap Errors = {}
        <5>1. g[j][k] = g[j + 1][k \cup {t[j]}]
          BY Zenon, <3>1, <3>6, <3>11, <4>1 DEF ObjectCased
        <5>2. t[j] # Quote /\ t[j] # "{" /\ t[j] # "}"
          BY Zenon, <3>11, ErrorsApart
        <5>3. \A d \in Depths : Outside(t, j, d) = Outside(t, j + 1, d)
          BY Zenon, <3>7, <5>2 DEF Counted
        <5>4. k \cup {t[j]} \in SUBSET Known
          BY <3>11 DEF Known
        <5>5. ClosedAt(t, j + 1, g[j][k].last)
          BY Zenon, <2>1, <3>8, <5>1, <5>4
        <5> QED
          BY Zenon, <5>3, <5>5, ClosedFrom
      <4>2. CASE k \cap Errors # {}
        <5>1. g[j][k] = Bad
          BY Zenon, <3>1, <3>6, <3>11, <4>2 DEF ObjectCased
        <5> QED
          BY Zenon, <2>1, <3>2, <5>1
      <4> QED
        BY Zenon, <4>1, <4>2
    <3>12. CASE t[j] = "m"
      <4> DEFINE v == ValueAt(t, g, j)
      <4>1. CASE "m" \in k
        <5>1. g[j][k] = Bad
          BY Zenon, <3>1, <3>6, <3>12, <4>1 DEF ObjectCased
        <5> QED
          BY Zenon, <2>1, <3>2, <5>1
      <4>2. CASE "m" \notin k /\ v.how = "ok"
        <5>1. g[j][k] = g[v.last + 1][k \cup {"m"}]
          BY Zenon, <3>1, <3>6, <3>12, <4>2 DEF ObjectCased
        <5>2. \A d \in Depths : Outside(t, j, d) = Outside(t, v.last + 1, d)
          BY Zenon, <3>3, <3>5, <3>12, <4>2, ValuePassed DEF g
        <5>3. v.last + 1 \in j + 1 .. Len(t) + 1
          <6>1. TypedBehind(t, g, j)
            BY <3>0, ObjectsTyped DEF g
          <6>2. ObjectTyped(t, v, j + 1)
            BY <3>5, <6>1, ValueTyped
          <6>3. v.last \in j + 1 .. Len(t)
            BY Zenon, <4>2, <6>2 DEF ObjectTyped
          <6> HIDE DEF v
          <6> QED
            BY <1>1, <6>3
        <5>4. k \cup {"m"} \in SUBSET Known
          BY DEF Known
        <5>5. ClosesItself(t, v.last + 1, g[v.last + 1][k \cup {"m"}])
          BY Zenon, <3>3, <5>3, <5>4 DEF ClosesBehind, g
        <5>6. ClosedAt(t, v.last + 1, g[j][k].last)
          BY Zenon, <2>1, <5>1, <5>5 DEF ClosesItself
        <5> QED
          BY Zenon, <5>2, <5>6, ClosedFrom
      <4>3. CASE "m" \notin k /\ v.how # "ok"
        <5>1. g[j][k] = v
          BY Zenon, <3>1, <3>6, <3>12, <4>3 DEF ObjectCased
        <5> QED
          BY Zenon, <2>1, <4>3, <5>1
      <4> QED
        BY Zenon, <4>1, <4>2, <4>3
    <3>13. CASE t[j] = Quote
      <4>1. g[j][k] = KeyAt(t, j)
        BY Zenon, <3>1, <3>6, <3>13 DEF ObjectCased
      <4>2. KeyAt(t, j).how # "ok"
        BY MoreAndBad DEF KeyAt
      <4> QED
        BY Zenon, <2>1, <4>1, <4>2
    <3>14. CASE t[j] = "{" \/ t[j] = "x"
      <4>1. g[j][k] = Bad
        BY Zenon, <3>1, <3>6, <3>14 DEF ObjectCased
      <4> QED
        BY Zenon, <2>1, <3>2, <4>1
    <3>15. t[j] = "n" \/ t[j] = "}" \/ t[j] \in Errors \/ t[j] = "m" \/ t[j] = Quote
           \/ (t[j] = "{" \/ t[j] = "x")
      BY <3>5 DEF Symbols, Known
    <3> QED
      BY Zenon, <3>9, <3>10, <3>11, <3>12, <3>13, <3>14, <3>15
  <2> QED
    BY <2>1 DEF ClosesItself
<1>3. \A j \in 1 .. n : j \in S
  <2> HIDE DEF S, n
  <2> QED
    BY <1>1, <1>2, Descending
<1> QED
  BY <1>3

---------------------------------------------------------------------------
(* Where a scan goes on.                                                   *)

HasLine(t, i) == \E j \in i .. Len(t) : t[j] = "n"

\* The line of a brace ends behind it.
LEMMA LineEnds ==
    ASSUME NEW t \in Seq(Symbols), NEW i \in 1 .. Len(t)
    PROVE  /\ EndOfLine(t, i) \in i + 1 .. Len(t) + 1
           /\ HasLine(t, i) => t[EndOfLine(t, i) - 1] = "n"
           /\ ~ HasLine(t, i) => EndOfLine(t, i) = Len(t) + 1
           /\ \A j \in i .. EndOfLine(t, i) - 2 : t[j] # "n"
<1> DEFINE n == Len(t)
           L == {j \in i .. n : t[j] = "n"} \cup {n}
           a == Min(L)
<1>1. n \in Nat /\ i \in 1 .. n
  OBVIOUS
<1>2. EndOfLine(t, i) = a + 1
  BY DEF EndOfLine
<1>3. (\A x : x \in L <=> (x \in i .. n /\ t[x] = "n") \/ x = n) /\ (HasLine(t, i) <=> \E j \in i .. n : t[j] = "n")
  BY DEF HasLine
<1> HIDE DEF L, n
<1>4. L \in SUBSET Nat /\ L # {} /\ \A x \in L : x \in i .. n
  BY <1>1, <1>3
<1>5. a \in L /\ \A x \in L : a <= x
  BY <1>4, MinIs
<1> HIDE DEF a
<1>6. a \in i .. n /\ (a + 1) - 1 = a /\ a + 1 \in i + 1 .. n + 1 /\ (a + 1) - 2 = a - 1
  BY <1>1, <1>4, <1>5
<1>7. ASSUME HasLine(t, i) PROVE t[a] = "n"
  <2>1. PICK j \in i .. n : t[j] = "n"
    BY <1>3, <1>7
  <2>2. a <= j
    BY <1>3, <1>5, <2>1
  <2>3. a = n => j = a
    BY <1>1, <1>6, <2>1, <2>2
  <2> QED
    BY <1>3, <1>5, <2>1, <2>3
<1>8. ASSUME ~ HasLine(t, i) PROVE a = n
  BY <1>3, <1>5, <1>8
<1>9. ASSUME NEW j \in i .. a - 1 PROVE t[j] # "n"
  <2>1. j \in i .. n /\ ~ (a <= j)
    BY <1>1, <1>6
  <2> QED
    BY <1>3, <1>5, <2>1
<1> QED
  BY <1>2, <1>6, <1>7, <1>8, <1>9 DEF n

\* A line that ends in a part of a text ends there in the text.
LEMMA LineWindow ==
    ASSUME NEW t, NEW w, NEW d, Window(t, w, d), NEW i \in 1 .. Len(t),
           HasLine(t, i) \/ Whole(t, w, d)
    PROVE  /\ EndOfLine(w, d + i) = d + EndOfLine(t, i)
           /\ HasLine(t, i) <=> HasLine(w, d + i)
<1> DEFINE n == Len(t)
           l == Len(w)
           a == EndOfLine(t, i)
           b == EndOfLine(w, d + i)
<1>1. /\ n \in Nat /\ l \in Nat /\ d \in Nat /\ d + n <= l /\ i \in 1 .. n
      /\ t \in Seq(Symbols) /\ w \in Seq(Symbols) /\ d + i \in 1 .. l
  BY DEF Window
<1>2. \A j \in 1 .. n : w[d + j] = t[j]
  BY DEF Window
<1>3. Whole(t, w, d) <=> d + n = l
  BY DEF Whole
<1>4. /\ a \in i + 1 .. n + 1
      /\ HasLine(t, i) => t[a - 1] = "n"
      /\ ~ HasLine(t, i) => a = n + 1
      /\ \A j \in i .. a - 2 : t[j] # "n"
  BY <1>1, LineEnds
<1>5. /\ b \in (d + i) + 1 .. l + 1
      /\ HasLine(w, d + i) => w[b - 1] = "n"
      /\ ~ HasLine(w, d + i) => b = l + 1
      /\ \A j \in d + i .. b - 2 : w[j] # "n"
  BY <1>1, LineEnds
<1>6. ASSUME HasLine(t, i) PROVE HasLine(w, d + i)
  <2>1. PICK j \in i .. n : t[j] = "n"
    BY <1>6 DEF HasLine
  <2>2. d + j \in d + i .. l /\ j \in 1 .. n
    BY <1>1, <2>1
  <2>3. w[d + j] = "n"
    BY Zenon, <1>2, <2>1, <2>2
  <2> QED
    BY Zenon, <2>2, <2>3 DEF HasLine
<1>7. ASSUME HasLine(w, d + i), Whole(t, w, d) PROVE HasLine(t, i)
  <2>1. PICK j \in d + i .. l : w[j] = "n"
    BY <1>7 DEF HasLine
  <2>2. j - d \in i .. n /\ j - d \in 1 .. n /\ d + (j - d) = j
    BY <1>1, <1>3, <1>7, <2>1
  <2>3. t[j - d] = "n"
    BY Zenon, <1>2, <2>1, <2>2
  <2> QED
    BY Zenon, <2>2, <2>3 DEF HasLine
<1>8. HasLine(t, i) <=> HasLine(w, d + i)
  BY Zenon, <1>6, <1>7
<1> HIDE DEF a, b, n, l
<1>9. b = d + a
  <2>1. CASE HasLine(t, i)
    <3>1. t[a - 1] = "n" /\ w[b - 1] = "n"
      BY <1>4, <1>5, <1>8, <2>1
    <3>2. a - 1 \in 1 .. n /\ d + (a - 1) = (d + a) - 1
      BY <1>1, <1>4
    <3>3. w[(d + a) - 1] = "n"
      BY Zenon, <1>2, <3>1, <3>2
    <3>4. ~ (b > d + a)
      <4>1. b > d + a => (d + a) - 1 \in d + i .. b - 2
        BY <1>1, <1>4, <1>5
      <4> QED
        BY Zenon, <1>5, <3>3, <4>1
    <3>5. ~ (b < d + a)
      <4>1. b < d + a => /\ (b - 1) - d \in i .. a - 2 /\ (b - 1) - d \in 1 .. n
                         /\ d + ((b - 1) - d) = b - 1
        BY <1>1, <1>4, <1>5
      <4> QED
        BY Zenon, <1>2, <1>4, <3>1, <4>1
    <3> QED
      BY <1>1, <1>4, <1>5, <3>4, <3>5
  <2>2. CASE ~ HasLine(t, i)
    <3>1. a = n + 1 /\ b = l + 1 /\ d + n = l
      BY <1>3, <1>4, <1>5, <1>8, <2>2
    <3> QED
      BY <1>1, <3>1
  <2> QED
    BY Zenon, <2>1, <2>2
<1> QED
  BY Zenon, <1>8, <1>9 DEF a, b

\* Whether an object may start is told by what is ahead.
LEMMA StartWindow ==
    ASSUME NEW t, NEW w, NEW d, Window(t, w, d), NEW i \in 1 .. Len(t)
    PROVE  /\ ObjectStart(t, i) \in {"Undecided", "Possible", "Impossible"}
           /\ ObjectStart(t, i) # "Undecided" \/ Whole(t, w, d) => ObjectStart(w, d + i) = ObjectStart(t, i)
           /\ ObjectStart(t, i) = "Undecided" <=> Ahead(t, i) = {}
<1> DEFINE A == Ahead(t, i)
           B == Ahead(w, d + i)
           starts == {Quote, "}", "m"} \cup Errors
<1>1. i \in 0 .. Len(t) /\ t \in Seq(Symbols) /\ i \in Nat /\ Len(t) \in Nat
  BY DEF Window
<1>2. \A j \in 1 .. Len(t) : w[d + j] = t[j]
  BY DEF Window
<1>3. /\ A # {} => B # {} /\ Min(B) = d + Min(A)
      /\ A = {} /\ Whole(t, w, d) => B = {}
  BY <1>1, AheadWindow
<1>4. A # {} => Min(A) \in 1 .. Len(t)
  <2>1. A # {} => Min(A) \in i + 1 .. Len(t)
    BY <1>1, AheadTyped
  <2> HIDE DEF A
  <2> QED
    BY <1>1, <2>1
<1>5. /\ ObjectStart(t, i) = IF A = {} THEN "Undecided" ELSE IF t[Min(A)] \in starts THEN "Possible" ELSE "Impossible"
      /\ ObjectStart(w, d + i) = IF B = {} THEN "Undecided" ELSE IF w[Min(B)] \in starts THEN "Possible" ELSE "Impossible"
  BY DEF ObjectStart
<1>6. "Undecided" # "Possible" /\ "Undecided" # "Impossible"
  OBVIOUS
<1> HIDE DEF A, B, starts
<1>7. CASE A = {}
  BY Zenon, <1>3, <1>5, <1>7 DEF A
<1>8. CASE A # {}
  <2>1. w[Min(B)] = t[Min(A)] /\ B # {}
    BY Zenon, <1>2, <1>3, <1>4, <1>8
  <2>2. ObjectStart(w, d + i) = ObjectStart(t, i) /\ ObjectStart(t, i) \in {"Possible", "Impossible"}
    <3>1. CASE t[Min(A)] \in starts
      BY Zenon, <1>5, <1>8, <2>1, <3>1
    <3>2. CASE t[Min(A)] \notin starts
      BY Zenon, <1>5, <1>8, <2>1, <3>2
    <3> QED
      BY Zenon, <3>1, <3>2
  <2>3. Ahead(t, i) # {}
    BY Zenon, <1>8 DEF A
  <2> QED
    BY Zenon, <1>6, <2>2, <2>3
<1> QED
  BY Zenon, <1>7, <1>8

\* The cases of a scan at a brace.
AfterCased(t, i, e, a) ==
    /\ ObjectStart(t, i) = "Impossible" /\ Extent(t, i) # 0 => a = Extent(t, i) + 1
    /\ ObjectStart(t, i) = "Impossible" /\ Extent(t, i) = 0 /\ (HasLine(t, i) \/ e) => a = EndOfLine(t, i)
    /\ ObjectStart(t, i) = "Impossible" /\ Extent(t, i) = 0 /\ ~ (HasLine(t, i) \/ e) => a = i
    /\ ObjectStart(t, i) = "Undecided" /\ e => a = i + 1
    /\ ObjectStart(t, i) = "Undecided" /\ ~ e => a = i
    /\ ObjectStart(t, i) = "Possible" /\ FirstValue(t, i).how = "ok" => a = FirstValue(t, i).last + 1
    /\ ObjectStart(t, i) = "Possible" /\ FirstValue(t, i).how = "more" /\ ~ e => a = i
    /\ ObjectStart(t, i) = "Possible" /\ FirstValue(t, i).how # "ok" /\ (FirstValue(t, i).how # "more" \/ e)
       /\ Extent(t, i) # 0 => a = Extent(t, i) + 1
    /\ ObjectStart(t, i) = "Possible" /\ FirstValue(t, i).how # "ok" /\ (FirstValue(t, i).how # "more" \/ e)
       /\ Extent(t, i) = 0 /\ e => a = EndOfLine(t, i)
    /\ ObjectStart(t, i) = "Possible" /\ FirstValue(t, i).how # "ok" /\ (FirstValue(t, i).how # "more" \/ e)
       /\ Extent(t, i) = 0 /\ ~ e => a = i

\* After is one of these.
LEMMA AfterCases ==
    ASSUME NEW t, NEW i, NEW e PROVE AfterCased(t, i, e, After(t, i, e))
<1> DEFINE s == ObjectStart(t, i)
           v == FirstValue(t, i)
           x == Extent(t, i)
           lineEnd == IF e THEN EndOfLine(t, i) ELSE i
           h == HasLine(t, i)
           a == After(t, i, e)
<1>1. a = CASE s = "Impossible" -> IF x # 0 THEN x + 1 ELSE IF h THEN EndOfLine(t, i) ELSE lineEnd
            [] s = "Undecided" -> IF e THEN i + 1 ELSE i
            [] OTHER -> IF v.how = "ok" THEN v.last + 1
                        ELSE IF v.how = "more" /\ ~ e THEN i
                        ELSE IF x # 0 THEN x + 1 ELSE lineEnd
  BY Zenon DEF After, Skipped, HasLine
<1>2. "Impossible" # "Undecided" /\ "Impossible" # "Possible" /\ "Undecided" # "Possible" /\ "more" # "ok"
  OBVIOUS
<1> HIDE DEF s, v, x, h, a
<1>3. CASE s = "Impossible"
  <2>1. a = IF x # 0 THEN x + 1 ELSE IF h THEN EndOfLine(t, i) ELSE lineEnd
    BY Zenon, <1>1, <1>2, <1>3
  <2> QED
    BY Zenon, <1>2, <1>3, <2>1 DEF AfterCased, s, x, h, a
<1>4. CASE s = "Undecided"
  <2>1. a = IF e THEN i + 1 ELSE i
    BY Zenon, <1>1, <1>2, <1>4
  <2> QED
    BY Zenon, <1>2, <1>4, <2>1 DEF AfterCased, s, a
<1>5. CASE s = "Possible"
  <2>1. a = IF v.how = "ok" THEN v.last + 1
            ELSE IF v.how = "more" /\ ~ e THEN i
            ELSE IF x # 0 THEN x + 1 ELSE lineEnd
    BY Zenon, <1>1, <1>2, <1>5
  <2> QED
    BY Zenon, <1>2, <1>5, <2>1 DEF AfterCased, s, x, v, a
<1>6. CASE s # "Impossible" /\ s # "Undecided" /\ s # "Possible"
  BY Zenon, <1>6 DEF AfterCased, s
<1> QED
  BY Zenon, <1>3, <1>4, <1>5, <1>6

\* What is known of a brace.
LEMMA BraceTyped ==
    ASSUME NEW t \in Seq(Symbols), NEW i \in 1 .. Len(t)
    PROVE  /\ FirstValue(t, i) \in Outcomes
           /\ FirstValue(t, i).how = "ok" => FirstValue(t, i).last \in i + 1 .. Len(t)
           /\ Extent(t, i) = 0 \/ Extent(t, i) \in i + 1 .. Len(t)
           /\ ObjectStart(t, i) \in {"Undecided", "Possible", "Impossible"}
           /\ ObjectStart(t, i) = "Undecided" <=> Ahead(t, i) = {}
           /\ FirstValue(t, i).how = "ok" => FirstValue(t, i).last = Extent(t, i)
<1>1. i + 1 \in 1 .. Len(t) + 1 /\ {} \in SUBSET Known /\ 1 \in Depths /\ Len(t) \in Nat
  BY DEF Depths
<1>2. ObjectTyped(t, ObjectsOf(t)[i + 1][{}], i + 1)
  BY <1>1, ObjectsTyped
<1>3. CloseTyped(t, i + 1, Outside(t, i + 1, 1))
  BY <1>1, ClosingTyped
<1>4. Extent(t, i) = 0 \/ Extent(t, i) \in i + 1 .. Len(t)
  BY Zenon, <1>3 DEF CloseTyped, Extent, Outside
<1>5. ClosesItself(t, i + 1, ObjectsOf(t)[i + 1][{}])
  BY <1>1, ObjectCloses
<1>6. FirstValue(t, i).how = "ok" => FirstValue(t, i).last = Extent(t, i)
  BY Zenon, <1>5 DEF ClosesItself, ClosedAt, FirstValue, Extent, Outside
<1>7. Window(t, t, 0)
  <2>1. \A j \in 1 .. Len(t) : t[0 + j] = t[j]
    OBVIOUS
  <2> QED
    BY <1>1, <2>1 DEF Window
<1>8. /\ ObjectStart(t, i) \in {"Undecided", "Possible", "Impossible"}
      /\ ObjectStart(t, i) = "Undecided" <=> Ahead(t, i) = {}
  BY Zenon, <1>7, StartWindow
<1> QED
  BY Zenon, <1>2, <1>4, <1>6, <1>8 DEF ObjectTyped, FirstValue

\* A scan goes forward, or waits; at the end of the text it does not wait.
LEMMA AfterTyped ==
    ASSUME NEW t \in Seq(Symbols), NEW i \in 1 .. Len(t), NEW e \in BOOLEAN
    PROVE  After(t, i, e) = i \/ After(t, i, e) \in i + 1 .. Len(t) + 1
<1> DEFINE a == After(t, i, e)
           s == ObjectStart(t, i)
           v == FirstValue(t, i)
           x == Extent(t, i)
<1>1. AfterCased(t, i, e, a)
  BY Zenon, AfterCases
<1>2. EndOfLine(t, i) \in i + 1 .. Len(t) + 1
  BY LineEnds
<1>3. /\ v.how = "ok" => v.last \in i + 1 .. Len(t)
      /\ x = 0 \/ x \in i + 1 .. Len(t)
      /\ s \in {"Undecided", "Possible", "Impossible"}
  BY BraceTyped
<1>4. i \in Nat /\ Len(t) \in Nat /\ i <= Len(t)
  OBVIOUS
<1>5. /\ s = "Impossible" /\ x # 0 => a = x + 1
      /\ s = "Impossible" /\ x = 0 => a = EndOfLine(t, i) \/ a = i
      /\ s = "Undecided" => a = i \/ a = i + 1
      /\ s = "Possible" /\ v.how = "ok" => a = v.last + 1
      /\ s = "Possible" /\ v.how # "ok" => a = i \/ (x # 0 /\ a = x + 1) \/ (x = 0 /\ a = EndOfLine(t, i))
  BY Zenon, <1>1 DEF AfterCased
<1> HIDE DEF a, s, v, x
<1>6. a = i \/ (v.how = "ok" /\ a = v.last + 1) \/ (x # 0 /\ a = x + 1) \/ a = EndOfLine(t, i) \/ a = i + 1
  BY Zenon, <1>3, <1>5
<1> QED
  BY <1>2, <1>3, <1>4, <1>6 DEF a

\* What is known of a brace in a window.
LEMMA BraceWindow ==
    ASSUME NEW t, NEW w, NEW d, Window(t, w, d), NEW i \in 1 .. Len(t)
    PROVE  /\ Like(t, w, d, FirstValue(t, i), FirstValue(w, d + i))
           /\ CloseLike(t, w, d, Extent(t, i), Extent(w, d + i))
<1>1. /\ i + 1 \in 1 .. Len(t) + 1 /\ {} \in SUBSET Known /\ 1 \in Depths
      /\ (d + i) + 1 = d + (i + 1)
  BY DEF Depths, Window
<1>2. Like(t, w, d, ObjectsOf(t)[i + 1][{}], ObjectsOf(w)[d + (i + 1)][{}])
  BY <1>1, ObjectWindow
<1>3. CloseLike(t, w, d, Outside(t, i + 1, 1), Outside(w, d + (i + 1), 1))
  BY <1>1, ClosingWindow
<1>4. Like(t, w, d, FirstValue(t, i), FirstValue(w, d + i))
  BY Zenon, <1>1, <1>2 DEF FirstValue
<1>5. CloseLike(t, w, d, Extent(t, i), Extent(w, d + i))
  BY Zenon, <1>1, <1>3 DEF Extent, Outside
<1> QED
  BY Zenon, <1>4, <1>5

\* The scan goes on after the brace in w as after the one in t.
GoesLike(t, w, d, i) ==
    After(w, d + i, TRUE) = d + After(t, i, TRUE) /\ Evidence(w, d + i) = Evidence(t, i)

\* A scan that ends with the text goes on in the rest of it as in all of it.
LEMMA AfterWhole ==
    ASSUME NEW t, NEW w, NEW d, Window(t, w, d), Whole(t, w, d), NEW i \in 1 .. Len(t)
    PROVE  GoesLike(t, w, d, i)
<1> DEFINE s == ObjectStart(t, i)
           v == FirstValue(t, i)
           p == FirstValue(w, d + i)
           x == Extent(t, i)
           y == Extent(w, d + i)
           a == After(t, i, TRUE)
           b == After(w, d + i, TRUE)
           z == EndOfLine(t, i)
           h == HasLine(t, i)
<1>1. ObjectStart(w, d + i) = s
  BY StartWindow
<1>2. p.how = v.how /\ p.verdict = v.verdict /\ (v.how = "ok" => p.last = d + v.last)
  <2>1. Like(t, w, d, v, p)
    BY BraceWindow
  <2> QED
    BY Zenon, <2>1 DEF Like
<1>3. (x # 0 => y = d + x) /\ (x = 0 => y = 0)
  <2>1. CloseLike(t, w, d, x, y)
    BY BraceWindow
  <2> QED
    BY Zenon, <2>1 DEF CloseLike
<1>4. EndOfLine(w, d + i) = d + z /\ (HasLine(w, d + i) <=> h)
  BY LineWindow
<1>5. AfterCased(t, i, TRUE, a) /\ AfterCased(w, d + i, TRUE, b)
  BY Zenon, AfterCases
<1>6. /\ t \in Seq(Symbols) /\ w \in Seq(Symbols) /\ d \in Nat /\ i \in 1 .. Len(t) /\ i \in Nat
      /\ d + i \in 1 .. Len(w) /\ Len(t) \in Nat /\ Len(w) \in Nat
  BY DEF Window
<1>7. /\ v.how = "ok" => v.last \in i + 1 .. Len(t)
      /\ x = 0 \/ x \in i + 1 .. Len(t)
      /\ s \in {"Undecided", "Possible", "Impossible"}
  BY <1>6, BraceTyped
<1>8. /\ y # 0 => x # 0
      /\ z \in i + 1 .. Len(t) + 1
      /\ x # 0 => d + x # 0
  <2>1. z \in i + 1 .. Len(t) + 1
    BY <1>6, LineEnds
  <2> HIDE DEF z, x, y
  <2>2. x # 0 => d + x # 0
    BY <1>6, <1>7
  <2> QED
    BY Zenon, <1>3, <2>1, <2>2
<1>9. Evidence(w, d + i) = Evidence(t, i)
  BY Zenon, <1>1, <1>2 DEF Evidence
<1>10. b = d + a
  <2>1. CASE s = "Undecided"
    <3>1. a = i + 1 /\ b = (d + i) + 1
      BY Zenon, <1>1, <1>5, <2>1 DEF AfterCased
    <3> HIDE DEF a, b
    <3> QED
      BY <1>6, <3>1
  <2>2. CASE s = "Impossible" /\ x # 0
    <3>1. a = x + 1 /\ b = (d + x) + 1
      BY Zenon, <1>1, <1>3, <1>5, <1>8, <2>2 DEF AfterCased
    <3> HIDE DEF a, b, x
    <3> QED
      BY <1>6, <1>7, <2>2, <3>1
  <2>3. CASE s = "Impossible" /\ x = 0
    BY Zenon, <1>1, <1>3, <1>4, <1>5, <2>3 DEF AfterCased
  <2>4. CASE s = "Possible" /\ v.how = "ok"
    <3>1. a = v.last + 1 /\ b = (d + v.last) + 1
      BY Zenon, <1>1, <1>2, <1>5, <2>4 DEF AfterCased
    <3> HIDE DEF a, b, v
    <3> QED
      BY <1>6, <1>7, <2>4, <3>1
  <2>5. CASE s = "Possible" /\ v.how # "ok" /\ x # 0
    <3>1. a = x + 1 /\ b = (d + x) + 1
      BY Zenon, <1>1, <1>2, <1>3, <1>5, <1>8, <2>5 DEF AfterCased
    <3> HIDE DEF a, b, x
    <3> QED
      BY <1>6, <1>7, <2>5, <3>1
  <2>6. CASE s = "Possible" /\ v.how # "ok" /\ x = 0
    BY Zenon, <1>1, <1>2, <1>3, <1>4, <1>5, <2>6 DEF AfterCased
  <2> HIDE DEF a, b, s, v, x
  <2> QED
    BY Zenon, <1>7, <2>1, <2>2, <2>3, <2>4, <2>5, <2>6
<1> QED
  BY Zenon, <1>9, <1>10 DEF GoesLike

\* The scan of w goes on after the brace as the one of t that could wait.
GoesSame(t, w, i) ==
    After(w, i, TRUE) = After(t, i, FALSE) /\ Evidence(w, i) = Evidence(t, i)

\* The scan of t goes on after the brace at i, and w has no stray brace.
GoesOn(t, w, i) == t[i] = "{" /\ After(t, i, FALSE) # i /\ ~ Stray(w)

\* A scan that did not wait for more text goes on as if all text had been there,
\* unless a stray brace is closed on a later line.
LEMMA AfterMore ==
    ASSUME NEW t, NEW w, NEW d, d = 0, Window(t, w, d), NEW i \in 1 .. Len(t), GoesOn(t, w, i)
    PROVE  GoesSame(t, w, i)
<1> DEFINE s == ObjectStart(t, i)
           v == FirstValue(t, i)
           p == FirstValue(w, i)
           x == Extent(t, i)
           y == Extent(w, i)
           a == After(t, i, FALSE)
           b == After(w, i, TRUE)
           z == EndOfLine(t, i)
           h == HasLine(t, i)
<1> DEFINE n == Len(t)
           l == Len(w)
<1>00. t \in Seq(Symbols) /\ w \in Seq(Symbols) /\ d + Len(t) <= Len(w)
  BY Zenon DEF Window
<1>02. n \in Nat /\ l \in Nat
  BY <1>00
<1>01. /\ i \in Nat /\ d + i = i /\ i \in 1 .. l /\ i \in 1 .. n /\ n \in Nat /\ l \in Nat
       /\ n <= l /\ \A k \in Nat : d + k = k
  <2>1. i \in 1 .. n /\ d + n <= l
    BY Zenon, <1>00
  <2> HIDE DEF n, l
  <2> QED
    BY <1>02, <2>1
<1>0. /\ t \in Seq(Symbols) /\ w \in Seq(Symbols) /\ i \in Nat /\ d + i = i /\ i \in 1 .. Len(w)
      /\ Len(t) \in Nat /\ Len(w) \in Nat /\ Len(t) <= Len(w) /\ DOMAIN w = 1 .. Len(w)
  BY <1>00, <1>01
<1>1. s # "Undecided" => ObjectStart(w, i) = s
  <2>1. s # "Undecided" => ObjectStart(w, d + i) = s
    BY StartWindow
  <2> QED
    BY Zenon, <1>0, <2>1
<1>2. v.how # "more" => p.how = v.how /\ p.verdict = v.verdict /\ (v.how = "ok" => p.last = v.last)
  <2>1. Like(t, w, d, v, FirstValue(w, d + i))
    BY BraceWindow
  <2>2. Like(t, w, d, v, p)
    BY Zenon, <1>0, <2>1
  <2>3. v.how # "more" => p.how = v.how /\ p.verdict = v.verdict /\ (v.how = "ok" => p.last = d + v.last)
    BY Zenon, <2>2 DEF Like
  <2>4. v.how = "ok" => d + v.last = v.last
    <3>1. v.how = "ok" => v.last \in i + 1 .. n
      BY <1>0, BraceTyped
    <3> HIDE DEF v, n, l
    <3> QED
      BY <1>01, <3>1
  <2> QED
    BY Zenon, <2>3, <2>4
<1>3. (x # 0 => y = x) /\ (x = 0 => y = 0 \/ y > Len(t))
  <2>1. CloseLike(t, w, d, x, Extent(w, d + i))
    BY BraceWindow
  <2>2. CloseLike(t, w, d, x, y)
    BY Zenon, <1>0, <2>1
  <2>3. (x # 0 => y = d + x) /\ (x = 0 => y = 0 \/ y > d + Len(t))
    BY Zenon, <2>2 DEF CloseLike
  <2>4. x # 0 => d + x = x
    <3>1. x = 0 \/ x \in i + 1 .. n
      BY <1>0, BraceTyped
    <3> HIDE DEF x, n, l
    <3> QED
      BY <1>01, <3>1
  <2>5. d + Len(t) = Len(t)
    BY <1>01
  <2> QED
    BY Zenon, <2>3, <2>4, <2>5
<1>4. h => EndOfLine(w, i) = z /\ HasLine(w, i)
  <2>1. h => EndOfLine(w, d + i) = d + z /\ HasLine(w, d + i)
    BY LineWindow
  <2>2. d + z = z
    <3>1. z \in i + 1 .. n + 1
      BY <1>0, LineEnds
    <3> HIDE DEF z, n, l
    <3> QED
      BY <1>01, <3>1
  <2> QED
    BY Zenon, <1>0, <2>1, <2>2
<1>5. AfterCased(t, i, FALSE, a) /\ AfterCased(w, i, TRUE, b)
  BY Zenon, AfterCases
<1>6. s \in {"Undecided", "Possible", "Impossible"} /\ v \in Outcomes
  BY <1>0, BraceTyped
<1>7. s # "Undecided" /\ ~ (s = "Possible" /\ v.how = "more")
  BY Zenon, <1>5 DEF AfterCased, GoesOn
<1>8. CASE s = "Impossible"
  <2>1. Evidence(w, i) = Evidence(t, i)
    <3>1. s # "Possible" /\ ObjectStart(w, i) # "Possible"
      BY <1>1, <1>8
    <3> QED
      BY Zenon, <3>1 DEF Evidence
  <2>2. CASE x # 0
    <3>1. y # 0 /\ y = x /\ ObjectStart(w, i) = "Impossible"
      BY Zenon, <1>1, <1>3, <1>7, <1>8, <2>2
    <3>2. a = x + 1 /\ b = y + 1
      BY Zenon, <1>5, <1>8, <2>2, <3>1 DEF AfterCased
    <3> QED
      BY Zenon, <2>1, <3>1, <3>2 DEF GoesSame
  <2>3. CASE x = 0
    <3>1. h
      BY Zenon, <1>5, <1>8, <2>3 DEF AfterCased, GoesOn
    <3>2. a = z
      BY Zenon, <1>5, <1>8, <2>3, <3>1 DEF AfterCased
    <3>3. ObjectStart(w, i) = "Impossible" /\ HasLine(w, i) /\ EndOfLine(w, i) = z
      BY Zenon, <1>1, <1>4, <1>7, <1>8, <3>1
    <3>4. y = 0
      <4>1. SUFFICES ASSUME y > Len(t) PROVE FALSE
        BY Zenon, <1>3, <2>3
      <4>2. z <= y
        <5>1. z \in i + 1 .. n + 1
          BY <1>0, LineEnds
        <5>2. y = 0 \/ y \in i + 1 .. l
          BY <1>0, BraceTyped
        <5>3. y > n
          BY <4>1
        <5> HIDE DEF y, z, n, l
        <5> QED
          BY <1>01, <5>1, <5>2, <5>3
      <4>3. w[i] = "{"
        <5>1. w[d + i] = t[i]
          BY Zenon DEF Window
        <5> QED
          BY Zenon, <1>0, <5>1 DEF GoesOn
      <4>4. i \in DOMAIN w /\ w[i] = "{" /\ ObjectStart(w, i) = "Impossible" /\ EndOfLine(w, i) <= Extent(w, i)
        BY Zenon, <1>0, <3>3, <4>2, <4>3
      <4> QED
        BY Zenon, <4>4 DEF Stray, GoesOn
    <3>5. b = EndOfLine(w, i)
      BY Zenon, <1>5, <3>3, <3>4 DEF AfterCased
    <3> QED
      BY Zenon, <2>1, <3>2, <3>3, <3>5 DEF GoesSame
  <2> QED
    BY Zenon, <2>2, <2>3
<1>9. CASE s = "Possible"
  <2>1. v.how # "more" /\ p.how = v.how /\ p.verdict = v.verdict /\ ObjectStart(w, i) = "Possible"
    BY Zenon, <1>1, <1>2, <1>7, <1>9
  <2>2. Evidence(w, i) = Evidence(t, i)
    BY Zenon, <1>9, <2>1 DEF Evidence
  <2>3. CASE v.how = "ok"
    <3>1. p.how = "ok" /\ p.last = v.last
      BY Zenon, <1>2, <2>1, <2>3
    <3>2. a = v.last + 1 /\ b = p.last + 1
      BY Zenon, <1>5, <1>9, <2>1, <2>3, <3>1 DEF AfterCased
    <3> QED
      BY Zenon, <2>2, <3>1, <3>2 DEF GoesSame
  <2>4. CASE v.how # "ok"
    <3>1. x # 0
      BY Zenon, <1>5, <1>9, <2>1, <2>4 DEF AfterCased, GoesOn
    <3>2. y # 0 /\ y = x /\ p.how # "ok"
      BY Zenon, <1>3, <2>1, <2>4, <3>1
    <3>3. a = x + 1
      BY Zenon, <1>5, <1>9, <2>1, <2>4, <3>1 DEF AfterCased
    <3>4. b = y + 1
      BY Zenon, <1>5, <2>1, <3>2 DEF AfterCased
    <3> QED
      BY Zenon, <2>2, <3>2, <3>3, <3>4 DEF GoesSame
  <2> QED
    BY Zenon, <2>3, <2>4
<1> QED
  BY Zenon, <1>6, <1>7, <1>8, <1>9

---------------------------------------------------------------------------
(* A scan.                                                                 *)

Scans == [pending : Seq(Symbols), found : Diagnostics]

\* A verdict, merged or not, is a verdict.
LEMMA FoundTyped ==
    /\ None \in Diagnostics
    /\ \A f, g \in Diagnostics : Merge(f, g) \in Diagnostics
BY DEF None, Diagnostics, Merge

\* The evidence of a document is a verdict.
LEMMA EvidenceTyped ==
    ASSUME NEW t \in Seq(Symbols), NEW i \in 1 .. Len(t) PROVE Evidence(t, i) \in Diagnostics
<1>1. FirstValue(t, i) \in Outcomes
  BY BraceTyped
<1>2. FirstValue(t, i).verdict \in Diagnostics
  BY <1>1 DEF Outcomes
<1> QED
  BY Zenon, <1>2, FoundTyped DEF Evidence

BracesFrom(t, c) == {i \in c .. Len(t) : t[i] = "{"}
NextBrace(t, c)  == Min(BracesFrom(t, c))

\* The next brace, from a cursor on.
LEMMA BraceNext ==
    ASSUME NEW t \in Seq(Symbols), NEW c \in Nat \ {0}, BracesFrom(t, c) # {}
    PROVE  /\ NextBrace(t, c) \in c .. Len(t) /\ NextBrace(t, c) \in 1 .. Len(t)
           /\ t[NextBrace(t, c)] = "{"
           /\ \A j \in c .. NextBrace(t, c) - 1 : t[j] # "{"
<1> DEFINE B == BracesFrom(t, c)
           b == NextBrace(t, c)
           n == Len(t)
<1>1. n \in Nat
  OBVIOUS
<1>2. B \in SUBSET (c .. n) /\ (\A j \in c .. n : j \in B <=> t[j] = "{")
  BY Zenon DEF BracesFrom
<1>3. c .. n \in SUBSET Nat
  <2> HIDE DEF n
  <2> QED
    BY <1>1
<1>31. B \in SUBSET Nat
  BY Zenon, <1>2, <1>3
<1>4. b \in B /\ \A j \in B : b <= j
  <2>1. B # {}
    BY Zenon
  <2> HIDE DEF B
  <2>2. Min(B) \in B /\ \A j \in B : Min(B) <= j
    BY <1>31, <2>1, MinIs
  <2> QED
    BY Zenon, <2>2 DEF NextBrace, B
<1>5. b \in c .. n /\ t[b] = "{"
  BY Zenon, <1>2, <1>4
<1>6. ASSUME NEW j \in c .. b - 1 PROVE t[j] # "{"
  <2>1. j \in c .. n /\ ~ (b <= j)
    <3>1. c \in Nat /\ b \in c .. n
      BY <1>5
    <3> HIDE DEF b, B, n
    <3> QED
      BY <1>1, <3>1, <1>6
  <2> QED
    BY Zenon, <1>2, <1>4, <2>1
<1>7. b \in 1 .. n
  <2>1. c \in Nat \ {0} /\ b \in c .. n
    BY Zenon, <1>5
  <2> HIDE DEF b, B, n
  <2> QED
    BY <1>1, <2>1
<1> QED
  BY Zenon, <1>5, <1>6, <1>7

\* The cases of a scan.
ScanCased(t, e, g, c, f, r) ==
    /\ BracesFrom(t, c) = {} => r = [pending |-> <<>>, found |-> f]
    /\ BracesFrom(t, c) # {} /\ After(t, NextBrace(t, c), e) = NextBrace(t, c)
         => r = [pending |-> SubSeq(t, NextBrace(t, c), Len(t)), found |-> f]
    /\ BracesFrom(t, c) # {} /\ After(t, NextBrace(t, c), e) # NextBrace(t, c)
         => r = g[After(t, NextBrace(t, c), e)][Merge(f, Evidence(t, NextBrace(t, c)))]

\* ScanAt is one of these.
LEMMA ScanCases ==
    ASSUME NEW t, NEW e, NEW g, NEW c, NEW f
    PROVE  ScanCased(t, e, g, c, f, ScanAt(t, e, g, c, f))
BY Zenon DEF ScanCased, ScanAt, BracesFrom, NextBrace

\* Where a scan goes on is behind its cursor.
LEMMA CursorMoves ==
    ASSUME NEW t \in Seq(Symbols), NEW c \in 1 .. Len(t) + 1, NEW e \in BOOLEAN,
           BracesFrom(t, c) # {}, After(t, NextBrace(t, c), e) # NextBrace(t, c)
    PROVE  After(t, NextBrace(t, c), e) \in c + 1 .. Len(t) + 1
<1> DEFINE b == NextBrace(t, c)
           a == After(t, b, e)
           n == Len(t)
<1>1. n \in Nat /\ c \in Nat \ {0} /\ c \in 1 .. n + 1
  OBVIOUS
<1>2. b \in c .. n /\ b \in 1 .. n
  BY <1>1, BraceNext
<1>3. a \in b + 1 .. n + 1
  BY <1>2, AfterTyped
<1> HIDE DEF a, b, n
<1>4. a \in c + 1 .. n + 1
  BY <1>1, <1>2, <1>3
<1> QED
  BY <1>4 DEF a, b, n

ScansBehind(t, g, c) == \A j \in c + 1 .. Len(t) + 1 : \A f \in Diagnostics : g[j][f] \in Scans
SameScans(t, g, h, c) == \A j \in c + 1 .. Len(t) + 1 : \A f \in Diagnostics : g[j][f] = h[j][f]

\* A scan from a cursor is typed if those from behind it are.
LEMMA ScanAtTyped ==
    ASSUME NEW t \in Seq(Symbols), NEW c \in 1 .. Len(t) + 1, NEW e \in BOOLEAN,
           NEW f \in Diagnostics, NEW g, ScansBehind(t, g, c)
    PROVE  ScanAt(t, e, g, c, f) \in Scans
<1> DEFINE b == NextBrace(t, c)
           r == ScanAt(t, e, g, c, f)
<1>0. c \in Nat \ {0}
  OBVIOUS
<1>1. ScanCased(t, e, g, c, f, r)
  BY Zenon, ScanCases
<1>2. CASE BracesFrom(t, c) = {}
  <2>1. r = [pending |-> <<>>, found |-> f]
    BY Zenon, <1>1, <1>2 DEF ScanCased
  <2>2. [pending |-> <<>>, found |-> f] \in Scans
    BY DEF Scans
  <2> QED
    BY Zenon, <2>1, <2>2
<1>3. CASE BracesFrom(t, c) # {} /\ After(t, b, e) = b
  <2>1. r = [pending |-> SubSeq(t, b, Len(t)), found |-> f]
    BY Zenon, <1>1, <1>3 DEF ScanCased
  <2>2. b \in 1 .. Len(t)
    BY <1>0, <1>3, BraceNext
  <2>3. SubSeq(t, b, Len(t)) \in Seq(Symbols)
    <3> HIDE DEF b
    <3> QED
      BY <2>2
  <2>4. [pending |-> SubSeq(t, b, Len(t)), found |-> f] \in Scans
    <3> DEFINE s == SubSeq(t, b, Len(t))
    <3>1. s \in Seq(Symbols)
      BY Zenon, <2>3
    <3> HIDE DEF s
    <3>2. [pending |-> s, found |-> f] \in Scans
      BY <3>1 DEF Scans
    <3> QED
      BY Zenon, <3>2 DEF s
  <2> QED
    BY Zenon, <2>1, <2>4
<1>4. CASE BracesFrom(t, c) # {} /\ After(t, b, e) # b
  <2>1. r = g[After(t, b, e)][Merge(f, Evidence(t, b))]
    BY Zenon, <1>1, <1>4 DEF ScanCased
  <2>2. After(t, b, e) \in c + 1 .. Len(t) + 1
    BY <1>4, CursorMoves
  <2>3. b \in 1 .. Len(t)
    BY <1>0, <1>4, BraceNext
  <2>4. Merge(f, Evidence(t, b)) \in Diagnostics
    <3>1. Evidence(t, b) \in Diagnostics
      BY <2>3, EvidenceTyped
    <3> QED
      BY Zenon, <3>1, FoundTyped
  <2> QED
    BY Zenon, <2>1, <2>2, <2>4 DEF ScansBehind
<1> QED
  BY Zenon, <1>2, <1>3, <1>4

\* A scan from a cursor depends on the scans from behind it only.
LEMMA ScanAtLocal ==
    ASSUME NEW t \in Seq(Symbols), NEW c \in 1 .. Len(t) + 1, NEW e \in BOOLEAN,
           NEW f \in Diagnostics, NEW g, NEW h, SameScans(t, g, h, c)
    PROVE  ScanAt(t, e, g, c, f) = ScanAt(t, e, h, c, f)
<1> DEFINE b == NextBrace(t, c)
<1>0. c \in Nat \ {0}
  OBVIOUS
<1>1. /\ ScanCased(t, e, g, c, f, ScanAt(t, e, g, c, f))
      /\ ScanCased(t, e, h, c, f, ScanAt(t, e, h, c, f))
  BY Zenon, ScanCases
<1>2. CASE BracesFrom(t, c) = {}
  BY Zenon, <1>1, <1>2 DEF ScanCased
<1>3. CASE BracesFrom(t, c) # {} /\ After(t, b, e) = b
  BY Zenon, <1>1, <1>3 DEF ScanCased
<1>4. CASE BracesFrom(t, c) # {} /\ After(t, b, e) # b
  <2>2. After(t, b, e) \in c + 1 .. Len(t) + 1
    BY <1>4, CursorMoves
  <2>3. b \in 1 .. Len(t)
    BY <1>0, <1>4, BraceNext
  <2>4. Merge(f, Evidence(t, b)) \in Diagnostics
    <3>1. Evidence(t, b) \in Diagnostics
      BY <2>3, EvidenceTyped
    <3> QED
      BY Zenon, <3>1, FoundTyped
  <2>5. g[After(t, b, e)][Merge(f, Evidence(t, b))] = h[After(t, b, e)][Merge(f, Evidence(t, b))]
    BY Zenon, <2>2, <2>4 DEF SameScans
  <2> QED
    BY Zenon, <1>1, <1>4, <2>5 DEF ScanCased
<1> QED
  BY Zenon, <1>2, <1>3, <1>4

NextScan(t, e, g) == [c \in 1 .. Len(t) + 1 |-> [f \in Diagnostics |-> ScanAt(t, e, g, c, f)]]

\* A function satisfies the equation by which ScanOf is defined.
LEMMA ScansExist ==
    ASSUME NEW t \in Seq(Symbols), NEW e \in BOOLEAN PROVE \E g : g = NextScan(t, e, g)
<1> DEFINE n == Len(t) + 1
           G == [1 .. n -> [Diagnostics -> Scans]]
           H == [g \in G |-> NextScan(t, e, g)]
           f0 == [c \in 1 .. n |-> [f \in Diagnostics |-> [pending |-> <<>>, found |-> f]]]
<1>1. n \in Nat
  OBVIOUS
<1>2. f0 \in G
  <2>1. \A f \in Diagnostics : [pending |-> <<>>, found |-> f] \in Scans
    BY DEF Scans
  <2> QED
    BY <2>1
<1>3. ASSUME NEW g \in G PROVE H[g] \in G
  <2>1. \A c \in 1 .. n : ScansBehind(t, g, c)
    BY DEF ScansBehind
  <2>2. \A c \in 1 .. n : \A f \in Diagnostics : ScanAt(t, e, g, c, f) \in Scans
    BY <2>1, ScanAtTyped
  <2>4. NextScan(t, e, g) \in G
    BY Zenon, <2>2 DEF NextScan
  <2> QED
    BY <2>4
<1>4. ASSUME NEW g \in G, NEW h \in G, NEW c \in 1 .. n, \A j \in c + 1 .. n : g[j] = h[j]
      PROVE  H[g][c] = H[h][c]
  <2>2. SameScans(t, g, h, c)
    BY <1>4 DEF SameScans
  <2>3. \A f \in Diagnostics : ScanAt(t, e, g, c, f) = ScanAt(t, e, h, c, f)
    BY <2>2, ScanAtLocal
  <2>4. NextScan(t, e, g)[c] = NextScan(t, e, h)[c]
    BY Zenon, <2>3 DEF NextScan
  <2> QED
    BY <2>4
<1>5. \E f \in G : \A c \in 1 .. n : f[c] = H[f][c]
  <2>1. Descends(n, G, H)
    BY Zenon, <1>3, <1>4 DEF Descends
  <2> HIDE DEF G, H, f0, n
  <2> QED
    BY <1>1, <1>2, <2>1, Recursion
<1>6. PICK f \in G : \A c \in 1 .. n : f[c] = H[f][c]
  BY <1>5
<1>7. f = NextScan(t, e, f)
  <2>2. f = [c \in 1 .. n |-> f[c]]
    OBVIOUS
  <2>3. NextScan(t, e, f) = [c \in 1 .. n |-> NextScan(t, e, f)[c]]
    BY DEF NextScan
  <2>4. \A c \in 1 .. n : f[c] = NextScan(t, e, f)[c]
    BY <1>6
  <2> HIDE DEF n
  <2> QED
    BY Zenon, <2>2, <2>3, <2>4
<1> QED
  BY <1>7

\* The equation of a scan, at one cursor.
LEMMA ScanStep ==
    ASSUME NEW t \in Seq(Symbols), NEW e \in BOOLEAN, NEW c \in 1 .. Len(t) + 1, NEW f \in Diagnostics
    PROVE  /\ ScanOf(t, e)[c][f] = ScanAt(t, e, ScanOf(t, e), c, f)
           /\ ScanCased(t, e, ScanOf(t, e), c, f, ScanOf(t, e)[c][f])
<1> DEFINE g == ScanOf(t, e)
<1>1. g = NextScan(t, e, g)
  <2>1. PICK h : h = NextScan(t, e, h)
    BY ScansExist
  <2> QED
    BY Zenon, <2>1 DEF ScanOf, NextScan
<1> HIDE DEF g
<1>2. g[c] = [x \in Diagnostics |-> ScanAt(t, e, g, c, x)]
  BY Zenon, <1>1 DEF NextScan
<1>3. g[c][f] = ScanAt(t, e, g, c, f)
  BY <1>2
<1>4. ScanCased(t, e, g, c, f, ScanAt(t, e, g, c, f))
  BY Zenon, ScanCases
<1> QED
  BY Zenon, <1>3, <1>4 DEF g

\* What a scan keeps is a text, and what it finds a verdict.
LEMMA ScanTyped ==
    ASSUME NEW t \in Seq(Symbols), NEW e \in BOOLEAN
    PROVE  \A c \in 1 .. Len(t) + 1 : \A f \in Diagnostics : ScanOf(t, e)[c][f] \in Scans
<1> DEFINE g == ScanOf(t, e)
           n == Len(t) + 1
           S == {c \in 1 .. n : \A f \in Diagnostics : g[c][f] \in Scans}
<1>1. n \in Nat
  OBVIOUS
<1>2. ASSUME NEW c \in 1 .. n, \A j \in c + 1 .. n : j \in S PROVE c \in S
  <2>1. ScansBehind(t, g, c)
    BY Zenon, <1>2 DEF ScansBehind
  <2>2. ASSUME NEW f \in Diagnostics PROVE g[c][f] \in Scans
    <3>1. g[c][f] = ScanAt(t, e, g, c, f)
      BY ScanStep
    <3>2. ScanAt(t, e, g, c, f) \in Scans
      BY <2>1, ScanAtTyped
    <3> QED
      BY Zenon, <3>1, <3>2
  <2> QED
    BY Zenon, <2>2
<1>3. \A c \in 1 .. n : c \in S
  <2> HIDE DEF S, n
  <2> QED
    BY <1>1, <1>2, Descending
<1> QED
  BY Zenon, <1>3

\* t is an end of w.
Ending(t, w) == \E d \in Nat : Window(t, w, d) /\ Whole(t, w, d)

\* A text is a window of any text that begins with it.
LEMMA FrontWindow ==
    ASSUME NEW t \in Seq(Symbols), NEW u \in Seq(Symbols)
    PROVE  Window(t, t \o u, 0)
<1> DEFINE w == t \o u
           n == Len(t)
           k == Len(u)
<1>1. w \in Seq(Symbols) /\ Len(w) = n + k /\ n \in Nat /\ k \in Nat
  OBVIOUS
<1>2. \A j \in 1 .. n : w[0 + j] = t[j]
  OBVIOUS
<1>3. 0 + n <= Len(w)
  <2> HIDE DEF n, k, w
  <2> QED
    BY <1>1
<1> HIDE DEF w
<1>4. Window(t, w, 0)
  BY Zenon, <1>1, <1>2, <1>3, 0 \in Nat DEF Window, n
<1> QED
  BY Zenon, <1>4 DEF w

\* And of any that ends with it.
LEMMA BackWindow ==
    ASSUME NEW t \in Seq(Symbols), NEW u \in Seq(Symbols)
    PROVE  /\ Window(u, t \o u, Len(t)) /\ Whole(u, t \o u, Len(t))
           /\ Ending(u, t \o u)
<1> DEFINE w == t \o u
           n == Len(t)
           k == Len(u)
<1>1. w \in Seq(Symbols) /\ Len(w) = n + k /\ n \in Nat /\ k \in Nat
  OBVIOUS
<1>2. \A j \in 1 .. k : w[n + j] = u[j]
  OBVIOUS
<1>3. n + k <= Len(w)
  <2> HIDE DEF n, k, w
  <2> QED
    BY <1>1
<1> HIDE DEF w
<1>4. Window(u, w, n)
  BY Zenon, <1>1, <1>2, <1>3 DEF Window, k
<1>5. Whole(u, w, n)
  BY Zenon, <1>1 DEF Whole, k
<1>6. Ending(u, w)
  BY Zenon, <1>1, <1>4, <1>5 DEF Ending
<1> QED
  BY Zenon, <1>4, <1>5, <1>6 DEF w

\* The rest of a text from some place on.
LEMMA RestWindow ==
    ASSUME NEW t \in Seq(Symbols), NEW b \in 1 .. Len(t)
    PROVE  /\ Window(SubSeq(t, b, Len(t)), t, b - 1) /\ Whole(SubSeq(t, b, Len(t)), t, b - 1)
           /\ Ending(SubSeq(t, b, Len(t)), t) /\ Len(SubSeq(t, b, Len(t))) \in Nat \ {0}
<1> DEFINE p == SubSeq(t, b, Len(t))
           n == Len(t)
           m == Len(p)
<1>1. n \in Nat /\ b \in 1 .. n /\ b \in 1 .. n + 1 /\ n \in b - 1 .. n
  OBVIOUS
<1>2. p \in Seq(Symbols) /\ m = n - b + 1 /\ \A j \in 1 .. n - b + 1 : p[j] = t[b + j - 1]
  BY <1>1, SubSeqIs
<1>3. b - 1 \in Nat /\ m \in Nat \ {0} /\ (b - 1) + m = n /\ (b - 1) + m <= n
      /\ \A j \in 1 .. m : j \in 1 .. n - b + 1 /\ (b - 1) + j = b + j - 1
  <2>1. m = n - b + 1
    BY <1>2
  <2> HIDE DEF m, n, p
  <2> QED
    BY <1>1, <2>1
<1> HIDE DEF p
<1>4. \A j \in 1 .. m : t[(b - 1) + j] = p[j]
  BY Zenon, <1>2, <1>3
<1>5. Window(p, t, b - 1)
  BY Zenon, <1>2, <1>3, <1>4 DEF Window, m, n
<1>6. Whole(p, t, b - 1)
  BY Zenon, <1>3 DEF Whole, m, n
<1>7. Ending(p, t)
  BY Zenon, <1>3, <1>5, <1>6 DEF Ending
<1> QED
  BY Zenon, <1>3, <1>5, <1>6, <1>7 DEF p, m

\* An end stays an end when more follows.
LEMMA LongerWindow ==
    ASSUME NEW p, NEW t, NEW d, Window(p, t, d), Whole(p, t, d), NEW u \in Seq(Symbols)
    PROVE  /\ Window(p \o u, t \o u, d) /\ Whole(p \o u, t \o u, d)
           /\ Ending(p \o u, t \o u)
<1> DEFINE q == p \o u
           w == t \o u
           n == Len(t)
           m == Len(p)
           k == Len(u)
<1>1. p \in Seq(Symbols) /\ t \in Seq(Symbols) /\ d \in Nat /\ d + m = n
      /\ \A j \in 1 .. m : t[d + j] = p[j]
  BY Zenon DEF Window, Whole
<1>2. /\ q \in Seq(Symbols) /\ Len(q) = m + k /\ \A j \in 1 .. m + k : q[j] = IF j <= m THEN p[j] ELSE u[j - m]
  BY <1>1
<1>3. /\ w \in Seq(Symbols) /\ Len(w) = n + k /\ \A j \in 1 .. n + k : w[j] = IF j <= n THEN t[j] ELSE u[j - n]
  BY <1>1
<1>4. n \in Nat /\ m \in Nat /\ k \in Nat
  BY <1>1
<1> HIDE DEF q, w
<1>5. ASSUME NEW j \in 1 .. m + k PROVE w[d + j] = q[j]
  <2>1. d + j \in 1 .. n + k /\ j \in 1 .. m + k
    <3> HIDE DEF n, m, k
    <3> QED
      BY <1>1, <1>4
  <2>2. CASE j <= m
    <3>1. j \in 1 .. m /\ d + j <= n
      <4>1. d + m = n /\ d \in Nat
        BY <1>1
      <4> HIDE DEF n, m, k
      <4> QED
        BY <1>4, <2>2, <4>1
    <3>2. w[d + j] = t[d + j] /\ q[j] = p[j]
      BY Zenon, <1>2, <1>3, <2>1, <2>2, <3>1
    <3> QED
      BY Zenon, <1>1, <3>1, <3>2
  <2>3. CASE ~ (j <= m)
    <3>1. ~ (d + j <= n) /\ (d + j) - n = j - m
      <4>1. d + m = n /\ d \in Nat
        BY <1>1
      <4> HIDE DEF n, m, k
      <4> QED
        BY <1>4, <2>3, <4>1
    <3>2. w[d + j] = u[(d + j) - n] /\ q[j] = u[j - m]
      BY Zenon, <1>2, <1>3, <2>1, <2>3, <3>1
    <3> QED
      BY Zenon, <3>1, <3>2
  <2> QED
    BY Zenon, <2>2, <2>3
<1>6. d + (m + k) = n + k /\ d + (m + k) <= n + k
  <2>1. d + m = n /\ d \in Nat
    BY <1>1
  <2> HIDE DEF n, m, k
  <2> QED
    BY <1>4, <2>1
<1>7. Window(q, w, d)
  BY Zenon, <1>1, <1>2, <1>3, <1>5, <1>6 DEF Window
<1>8. Whole(q, w, d)
  BY Zenon, <1>2, <1>3, <1>6 DEF Whole
<1>9. Ending(q, w)
  BY Zenon, <1>1, <1>7, <1>8 DEF Ending
<1> QED
  BY Zenon, <1>7, <1>8, <1>9 DEF q, w

\* An end of an end is an end.
LEMMA EndingOfEnding ==
    ASSUME NEW p, NEW q, NEW t, Ending(p, q), Ending(q, t)
    PROVE  Ending(p, t)
<1>1. PICK d \in Nat : Window(p, q, d) /\ Whole(p, q, d)
  BY Zenon DEF Ending
<1>2. PICK e \in Nat : Window(q, t, e) /\ Whole(q, t, e)
  BY Zenon DEF Ending
<1> DEFINE n == Len(t)
           m == Len(q)
           k == Len(p)
<1>3. /\ p \in Seq(Symbols) /\ q \in Seq(Symbols) /\ t \in Seq(Symbols)
      /\ d + k = m /\ e + m = n
      /\ \A j \in 1 .. k : q[d + j] = p[j]
      /\ \A j \in 1 .. m : t[e + j] = q[j]
  BY Zenon, <1>1, <1>2 DEF Window, Whole
<1>4. n \in Nat /\ m \in Nat /\ k \in Nat
  BY <1>3
<1>5. e + d \in Nat /\ (e + d) + k = n /\ (e + d) + k <= n
      /\ \A j \in 1 .. k : d + j \in 1 .. m /\ e + (d + j) = (e + d) + j
  <2>1. d + k = m /\ e + m = n
    BY <1>3
  <2> HIDE DEF n, m, k
  <2> QED
    BY <1>4, <2>1
<1>6. \A j \in 1 .. k : t[(e + d) + j] = p[j]
  BY Zenon, <1>3, <1>5
<1>7. Window(p, t, e + d) /\ Whole(p, t, e + d)
  BY Zenon, <1>3, <1>5, <1>6 DEF Window, Whole
<1> QED
  BY Zenon, <1>5, <1>7 DEF Ending

\* The next brace of a text is the next of a text around it.
LEMMA BraceShift ==
    ASSUME NEW t, NEW w, NEW d, Window(t, w, d), NEW c \in 1 .. Len(t) + 1
    PROVE  /\ BracesFrom(t, c) # {} => /\ BracesFrom(w, d + c) # {}
                                       /\ NextBrace(w, d + c) = d + NextBrace(t, c)
           /\ BracesFrom(t, c) = {} /\ Whole(t, w, d) => BracesFrom(w, d + c) = {}
<1> DEFINE n == Len(t)
           m == Len(w)
           B == BracesFrom(w, d + c)
<1>1. /\ t \in Seq(Symbols) /\ w \in Seq(Symbols) /\ d \in Nat /\ d + n <= m
      /\ \A j \in 1 .. n : w[d + j] = t[j]
  BY Zenon DEF Window
<1>2. n \in Nat /\ m \in Nat
  BY <1>1
<1>3. c \in Nat \ {0} /\ c \in 1 .. n + 1 /\ d + c \in Nat
  BY <1>1, <1>2
<1>4. B \in SUBSET ((d + c) .. m) /\ (\A j \in (d + c) .. m : j \in B <=> w[j] = "{")
  BY Zenon DEF BracesFrom
<1>5. ASSUME BracesFrom(t, c) # {}
      PROVE  B # {} /\ NextBrace(w, d + c) = d + NextBrace(t, c)
  <2> DEFINE b == NextBrace(t, c)
  <2>1. b \in c .. n /\ b \in 1 .. n /\ t[b] = "{" /\ \A j \in c .. b - 1 : t[j] # "{"
    BY <1>1, <1>3, <1>5, BraceNext
  <2>2. d + b \in (d + c) .. m
    <3>1. b \in c .. n /\ d \in Nat /\ d + n <= m
      BY Zenon, <2>1, <1>1
    <3> HIDE DEF b, n, m, B
    <3> QED
      BY <1>2, <1>3, <3>1
  <2>3. d + b \in B
    BY Zenon, <1>1, <1>4, <2>1, <2>2
  <2>4. ASSUME NEW j \in B PROVE d + b <= j
    <3>1. j \in (d + c) .. m /\ w[j] = "{"
      BY Zenon, <1>4
    <3>2. SUFFICES ASSUME ~ (d + b <= j) PROVE FALSE
      OBVIOUS
    <3>3. j - d \in c .. b - 1 /\ j - d \in 1 .. n /\ d + (j - d) = j
      <4>1. b \in c .. n /\ d \in Nat /\ d + n <= m /\ j \in (d + c) .. m
        BY Zenon, <2>1, <1>1, <3>1
      <4> HIDE DEF b, n, m, B
      <4> QED
        BY <1>2, <1>3, <3>2, <4>1
    <3>4. w[j] = t[j - d]
      BY Zenon, <1>1, <3>3
    <3> QED
      BY Zenon, <2>1, <3>1, <3>3, <3>4
  <2>5. B \in SUBSET Nat
    <3>1. (d + c) .. m \in SUBSET Nat
      <4> HIDE DEF m
      <4> QED
        BY <1>2, <1>3
    <3> QED
      BY Zenon, <1>4, <3>1
  <2>6. Min(B) = d + b
    <3> HIDE DEF B, b
    <3> QED
      BY <2>3, <2>4, <2>5, MinOf
  <2> QED
    BY Zenon, <2>3, <2>6 DEF NextBrace
<1>6. ASSUME BracesFrom(t, c) = {}, Whole(t, w, d) PROVE B = {}
  <2>1. SUFFICES ASSUME NEW j \in B PROVE FALSE
    BY Zenon
  <2>2. j \in (d + c) .. m /\ w[j] = "{"
    BY Zenon, <1>4
  <2>3. j - d \in c .. n /\ j - d \in 1 .. n /\ d + (j - d) = j
    <3>1. d \in Nat /\ d + n = m /\ j \in (d + c) .. m
      BY Zenon, <1>1, <2>2, <1>6 DEF Whole
    <3> HIDE DEF n, m, B
    <3> QED
      BY <1>2, <1>3, <3>1
  <2>4. t[j - d] = "{"
    BY Zenon, <1>1, <2>2, <2>3
  <2> QED
    BY Zenon, <1>6, <2>3, <2>4 DEF BracesFrom
<1> QED
  BY Zenon, <1>5, <1>6

\* A scan from one cursor is a scan from another one before the same braces.
LEMMA ScanSame ==
    ASSUME NEW t \in Seq(Symbols), NEW e \in BOOLEAN, NEW c \in 1 .. Len(t) + 1,
           NEW k \in 1 .. Len(t) + 1, NEW f \in Diagnostics, BracesFrom(t, c) = BracesFrom(t, k)
    PROVE  ScanOf(t, e)[c][f] = ScanOf(t, e)[k][f]
<1>1. /\ ScanCased(t, e, ScanOf(t, e), c, f, ScanOf(t, e)[c][f])
      /\ ScanCased(t, e, ScanOf(t, e), k, f, ScanOf(t, e)[k][f])
  BY ScanStep
<1>2. NextBrace(t, c) = NextBrace(t, k)
  BY Zenon DEF NextBrace
<1> DEFINE b == NextBrace(t, c)
<1>3. CASE BracesFrom(t, c) = {}
  BY Zenon, <1>1, <1>3 DEF ScanCased
<1>4. CASE BracesFrom(t, c) # {} /\ After(t, b, e) = b
  BY Zenon, <1>1, <1>2, <1>4 DEF ScanCased
<1>5. CASE BracesFrom(t, c) # {} /\ After(t, b, e) # b
  BY Zenon, <1>1, <1>2, <1>5 DEF ScanCased
<1> QED
  BY Zenon, <1>3, <1>4, <1>5

\* The fields of a scan's result.
LEMMA FoundOf ==
    ASSUME NEW r, NEW p, NEW f, r = [pending |-> p, found |-> f]
    PROVE  r.found = f /\ r.pending = p
OBVIOUS

ScansLike(t, w, d) ==
    \A c \in 1 .. Len(t) + 1 : \A f \in Diagnostics :
        ScanOf(w, TRUE)[d + c][f].found = ScanOf(t, TRUE)[c][f].found

\* What the scan of an end finds is what a scan finds from there on.
LEMMA ScanShift ==
    ASSUME NEW t, NEW w, NEW d, Window(t, w, d), Whole(t, w, d)
    PROVE  ScansLike(t, w, d)
<1> DEFINE n == Len(t) + 1
           g == ScanOf(t, TRUE)
           h == ScanOf(w, TRUE)
           S == {c \in 1 .. n : \A f \in Diagnostics : h[d + c][f].found = g[c][f].found}
<1>1. /\ t \in Seq(Symbols) /\ w \in Seq(Symbols) /\ d \in Nat /\ d + Len(t) = Len(w)
  BY Zenon DEF Window, Whole
<1>2. n \in Nat /\ Len(t) \in Nat /\ Len(w) \in Nat
  BY <1>1
<1>3. ASSUME NEW c \in 1 .. n, \A j \in c + 1 .. n : j \in S, NEW f \in Diagnostics
      PROVE  h[d + c][f].found = g[c][f].found
  <2> DEFINE b == NextBrace(t, c)
             a == After(t, b, TRUE)
             v == Merge(f, Evidence(t, b))
  <2>1. d + c \in 1 .. Len(w) + 1
    <3>1. d \in Nat /\ d + Len(t) = Len(w) /\ c \in 1 .. Len(t) + 1
      BY Zenon, <1>1, <1>3
    <3> DEFINE l == Len(t)
               k == Len(w)
    <3>2. d \in Nat /\ d + l = k /\ c \in 1 .. l + 1 /\ l \in Nat /\ k \in Nat
      BY Zenon, <3>1, <1>2
    <3> HIDE DEF l, k
    <3>3. d + c \in 1 .. k + 1
      BY <3>2
    <3> QED
      BY Zenon, <3>3 DEF k
  <2>2. /\ ScanCased(t, TRUE, g, c, f, g[c][f])
        /\ ScanCased(w, TRUE, h, d + c, f, h[d + c][f])
    BY <1>1, <2>1, ScanStep
  <2>3. /\ BracesFrom(t, c) # {} => BracesFrom(w, d + c) # {} /\ NextBrace(w, d + c) = d + b
        /\ BracesFrom(t, c) = {} => BracesFrom(w, d + c) = {}
    BY BraceShift
  <2>4. CASE BracesFrom(t, c) = {}
    <3>1. g[c][f] = [pending |-> <<>>, found |-> f] /\ h[d + c][f] = [pending |-> <<>>, found |-> f]
      BY Zenon, <2>2, <2>3, <2>4 DEF ScanCased
    <3> QED
      BY Zenon, <3>1
  <2>5. CASE BracesFrom(t, c) # {}
    <3>0. c \in Nat \ {0}
      BY <1>2
    <3>1. b \in 1 .. Len(t)
      BY <1>1, <2>5, <3>0, BraceNext
    <3>2. After(w, d + b, TRUE) = d + a /\ Evidence(w, d + b) = Evidence(t, b)
      <4>1. GoesLike(t, w, d, b)
        BY <3>1, AfterWhole
      <4> QED
        BY Zenon, <4>1 DEF GoesLike
    <3>3. a = b \/ a \in b + 1 .. Len(t) + 1
      BY <1>1, <3>1, AfterTyped
    <3>4. CASE a = b
      <4>1. g[c][f] = [pending |-> SubSeq(t, b, Len(t)), found |-> f]
        BY Zenon, <2>2, <2>5, <3>4 DEF ScanCased
      <4>2. h[d + c][f] = [pending |-> SubSeq(w, d + b, Len(w)), found |-> f]
        BY Zenon, <2>2, <2>3, <2>5, <3>2, <3>4 DEF ScanCased
      <4>3. g[c][f].found = f
        BY <4>1, FoundOf
      <4>4. h[d + c][f].found = f
        BY <4>2, FoundOf
      <4> QED
        BY Zenon, <4>3, <4>4
    <3>5. CASE a # b
      <4>1. a \in c + 1 .. n
        BY <1>1, <2>5, <3>5, CursorMoves
      <4>2. d + a # d + b
        <5>1. a \in Nat /\ b \in Nat /\ d \in Nat
          <6>1. a \in c + 1 .. n /\ b \in 1 .. Len(t)
            BY Zenon, <3>1, <4>1
          <6> HIDE DEF a, b, n
          <6> QED
            BY <1>1, <6>1
        <5> HIDE DEF a, b
        <5> QED
          BY <3>5, <5>1
      <4>3. g[c][f] = g[a][v]
        BY Zenon, <2>2, <2>5, <3>5 DEF ScanCased
      <4>4. h[d + c][f] = h[d + a][v]
        <5>1. After(w, NextBrace(w, d + c), TRUE) # NextBrace(w, d + c)
          BY Zenon, <2>3, <2>5, <3>2, <4>2
        <5>2. h[d + c][f] = h[After(w, NextBrace(w, d + c), TRUE)][Merge(f, Evidence(w, NextBrace(w, d + c)))]
          BY Zenon, <2>2, <2>3, <2>5, <5>1 DEF ScanCased
        <5> QED
          BY Zenon, <2>3, <2>5, <3>2, <5>2
      <4>5. v \in Diagnostics
        <5>1. Evidence(t, b) \in Diagnostics
          BY <1>1, <3>1, EvidenceTyped
        <5> QED
          BY Zenon, <5>1, FoundTyped
      <4>6. h[d + a][v].found = g[a][v].found
        BY Zenon, <1>3, <4>1, <4>5
      <4> QED
        BY Zenon, <4>3, <4>4, <4>6
    <3> QED
      BY Zenon, <3>4, <3>5
  <2> QED
    BY Zenon, <2>4, <2>5
<1>4. ASSUME NEW c \in 1 .. n, \A j \in c + 1 .. n : j \in S PROVE c \in S
  BY Zenon, <1>3, <1>4
<1>5. \A c \in 1 .. n : c \in S
  <2> HIDE DEF S, n
  <2> QED
    BY <1>2, <1>4, Descending
<1> QED
  BY Zenon, <1>5 DEF ScansLike

\* A stray brace is one in every text that ends so.
LEMMA StrayShift ==
    ASSUME NEW t, NEW w, Ending(t, w), Stray(t)
    PROVE  Stray(w)
<1>1. PICK d \in Nat : Window(t, w, d) /\ Whole(t, w, d)
  BY Zenon DEF Ending
<1>2. PICK i \in DOMAIN t : t[i] = "{" /\ ObjectStart(t, i) = "Impossible" /\ EndOfLine(t, i) <= Extent(t, i)
  BY Zenon DEF Stray
<1>3. /\ t \in Seq(Symbols) /\ w \in Seq(Symbols) /\ d + Len(t) = Len(w)
      /\ \A j \in 1 .. Len(t) : w[d + j] = t[j]
  BY Zenon, <1>1 DEF Window, Whole
<1>4. i \in 1 .. Len(t) /\ DOMAIN w = 1 .. Len(w) /\ Len(t) \in Nat /\ Len(w) \in Nat
  BY <1>3
<1> DEFINE x == Extent(t, i)
           z == EndOfLine(t, i)
<1>5. /\ ObjectStart(w, d + i) = "Impossible" /\ EndOfLine(w, d + i) = d + z
  <2>1. ObjectStart(w, d + i) = "Impossible"
    <3>1. ObjectStart(t, i) # "Undecided"
      BY <1>2
    <3>2. ObjectStart(w, d + i) = ObjectStart(t, i)
      BY <1>1, <1>4, <3>1, StartWindow
    <3> QED
      BY Zenon, <1>2, <3>2
  <2>2. EndOfLine(w, d + i) = d + z
    BY <1>1, <1>4, LineWindow
  <2> QED
    BY Zenon, <2>1, <2>2
<1>6. z \in i + 1 .. Len(t) + 1 /\ (x = 0 \/ x \in i + 1 .. Len(t))
  BY <1>3, <1>4, LineEnds, BraceTyped
<1>7. z \in Nat /\ x \in Nat /\ x # 0 /\ d + z <= d + x /\ d + i \in 1 .. Len(w)
  <2> DEFINE n == Len(t)
             m == Len(w)
  <2>1. z <= x /\ i \in 1 .. n /\ n \in Nat /\ m \in Nat /\ d + n = m
        /\ z \in i + 1 .. n + 1 /\ (x = 0 \/ x \in i + 1 .. n)
    BY Zenon, <1>2, <1>3, <1>4, <1>6
  <2> HIDE DEF n, m, x, z
  <2>2. z \in Nat /\ x \in Nat /\ x # 0 /\ d + z <= d + x /\ d + i \in 1 .. m
    BY <2>1
  <2> QED
    BY Zenon, <2>2 DEF m
<1>8. Extent(w, d + i) = d + x
  <2>1. CloseLike(t, w, d, x, Extent(w, d + i))
    BY <1>1, <1>4, BraceWindow
  <2> QED
    BY Zenon, <1>7, <2>1 DEF CloseLike
<1>9. w[d + i] = "{" /\ d + i \in DOMAIN w
  BY Zenon, <1>2, <1>3, <1>4, <1>7
<1> QED
  BY Zenon, <1>5, <1>7, <1>8, <1>9 DEF Stray

\* A scan of all of t \o u from a cursor finds what a scan finds that waited at
\* the end of t for u.
ResumedAt(t, u, c, f) ==
    LET s == ScanOf(t, FALSE)[c][f]
    IN  ScanOf(t \o u, TRUE)[c][f].found = ScanOf(s.pending \o u, TRUE)[1][s.found].found

\* When there is no brace left, nothing is kept.
LEMMA ResumedNowhere ==
    ASSUME NEW t \in Seq(Symbols), NEW u \in Seq(Symbols), NEW c \in 1 .. Len(t) + 1,
           NEW f \in Diagnostics, BracesFrom(t, c) = {}
    PROVE  ResumedAt(t, u, c, f)
<1> DEFINE w == t \o u
           n == Len(t)
           s == ScanOf(t, FALSE)[c][f]
<1>1. ScanCased(t, FALSE, ScanOf(t, FALSE), c, f, s)
  BY ScanStep
<1>2. s = [pending |-> <<>>, found |-> f]
  BY Zenon, <1>1 DEF ScanCased
<1>3. s.pending = <<>> /\ s.found = f
  <2> HIDE DEF s
  <2> QED
    BY <1>2, FoundOf
<1>4. w \in Seq(Symbols) /\ <<>> \o u = u /\ n \in Nat /\ Len(w) = n + Len(u) /\ Len(u) \in Nat
      /\ \A j \in 1 .. n : w[j] = t[j]
  OBVIOUS
<1>5. n + 1 \in 1 .. Len(w) + 1 /\ c \in 1 .. Len(w) + 1
  <2> DEFINE k == Len(u)
             l == Len(w)
  <2>1. l = n + k /\ k \in Nat /\ n \in Nat /\ c \in 1 .. n + 1
    BY <1>4
  <2> HIDE DEF k, l, n
  <2>2. n + 1 \in 1 .. l + 1 /\ c \in 1 .. l + 1
    BY <2>1
  <2> QED
    BY Zenon, <2>2 DEF l
<1>6. BracesFrom(w, c) = BracesFrom(w, n + 1)
  <2>1. ASSUME NEW j \in c .. Len(w), w[j] = "{" PROVE j \in n + 1 .. Len(w)
    <3>1. SUFFICES ASSUME ~ (j >= n + 1) PROVE FALSE
      <4> DEFINE l == Len(w)
      <4>1. l \in Nat /\ n \in Nat /\ j \in c .. l
        BY <1>4
      <4> HIDE DEF l, n
      <4>2. j >= n + 1 => j \in n + 1 .. l
        BY <4>1
      <4> QED
        BY Zenon, <4>2 DEF l
    <3>2. j \in c .. n /\ j \in 1 .. n
      <4>1. c \in 1 .. n + 1 /\ n \in Nat /\ j \in c .. Len(w)
        BY Zenon, <1>4
      <4> HIDE DEF n, w
      <4> QED
        BY <4>1, <3>1
    <3>3. t[j] = "{"
      BY Zenon, <1>4, <2>1, <3>2
    <3> QED
      BY Zenon, <3>2, <3>3 DEF BracesFrom
  <2>2. ASSUME NEW j \in n + 1 .. Len(w) PROVE j \in c .. Len(w)
    <3> DEFINE l == Len(w)
    <3>1. l \in Nat /\ n \in Nat /\ j \in n + 1 .. l /\ c \in 1 .. n + 1
      BY <1>4
    <3> HIDE DEF l, n
    <3>2. j \in c .. l
      BY <3>1
    <3> QED
      BY Zenon, <3>2 DEF l
  <2> QED
    BY Zenon, <2>1, <2>2 DEF BracesFrom
<1>7. ScanOf(w, TRUE)[c][f] = ScanOf(w, TRUE)[n + 1][f]
  BY <1>4, <1>5, <1>6, ScanSame
<1>8. ScanOf(w, TRUE)[n + 1][f].found = ScanOf(u, TRUE)[1][f].found
  <2>1. Window(u, w, n) /\ Whole(u, w, n)
    BY BackWindow
  <2>2. 1 \in 1 .. Len(u) + 1
    BY <1>4
  <2>3. ScansLike(u, w, n)
    <3> HIDE DEF w, n
    <3> QED
      BY <2>1, ScanShift
  <2> QED
    BY Zenon, <2>2, <2>3 DEF ScansLike
<1> HIDE DEF s
<1>9. ScanOf(w, TRUE)[c][f].found = ScanOf(s.pending \o u, TRUE)[1][s.found].found
  BY Zenon, <1>3, <1>4, <1>7, <1>8
<1> QED
  BY Zenon, <1>9 DEF ResumedAt, s

\* When the scan waits, what is kept begins with the brace it waits at.
LEMMA ResumedWaiting ==
    ASSUME NEW t \in Seq(Symbols), NEW u \in Seq(Symbols), NEW c \in 1 .. Len(t) + 1,
           NEW f \in Diagnostics, BracesFrom(t, c) # {},
           After(t, NextBrace(t, c), FALSE) = NextBrace(t, c)
    PROVE  ResumedAt(t, u, c, f)
<1> DEFINE w == t \o u
           n == Len(t)
           s == ScanOf(t, FALSE)[c][f]
           b == NextBrace(t, c)
           p == SubSeq(t, b, Len(t))
<1>1. ScanCased(t, FALSE, ScanOf(t, FALSE), c, f, s)
  BY ScanStep
<1>2. s = [pending |-> p, found |-> f]
  BY Zenon, <1>1 DEF ScanCased
<1>3. s.pending = p /\ s.found = f
  <2> HIDE DEF s, p
  <2> QED
    BY <1>2, FoundOf
<1>4. w \in Seq(Symbols) /\ n \in Nat /\ Len(w) = n + Len(u) /\ Len(u) \in Nat /\ c \in Nat \ {0}
      /\ Len(w) \in Nat /\ c \in Nat
  OBVIOUS
<1>5. b \in c .. n /\ b \in 1 .. n
  BY <1>4, BraceNext
<1>6. Window(p, t, b - 1) /\ Whole(p, t, b - 1) /\ Ending(p, t)
  <2> HIDE DEF b
  <2> QED
    BY <1>5, RestWindow
<1>7. Window(p \o u, w, b - 1) /\ Whole(p \o u, w, b - 1)
  <2> HIDE DEF b, p
  <2> QED
    BY <1>6, LongerWindow
<1>8. b \in 1 .. Len(w) + 1 /\ c \in 1 .. Len(w) + 1 /\ (b - 1) + 1 = b
  <2> DEFINE k == Len(u)
             l == Len(w)
  <2>1. l = n + k /\ k \in Nat /\ n \in Nat /\ c \in 1 .. n + 1 /\ b \in 1 .. n
    BY Zenon, <1>4, <1>5
  <2> HIDE DEF k, l, n, b
  <2>2. b \in 1 .. l + 1 /\ c \in 1 .. l + 1 /\ (b - 1) + 1 = b
    BY <2>1
  <2> QED
    BY Zenon, <2>2 DEF l
<1>9. 0 + c = c /\ 0 + b = b
  <2>1. c \in Nat /\ b \in 1 .. n
    BY Zenon, <1>5, <1>4
  <2> HIDE DEF b
  <2> QED
    BY <2>1
<1>10. BracesFrom(w, c) # {} /\ NextBrace(w, c) = b
  <2>1. Window(t, w, 0)
    BY FrontWindow
  <2> HIDE DEF w
  <2>2. BracesFrom(w, 0 + c) # {} /\ NextBrace(w, 0 + c) = 0 + b
    BY <2>1, BraceShift
  <2> QED
    BY Zenon, <1>9, <2>2
<1>11. BracesFrom(w, c) = BracesFrom(w, b)
  <2>1. /\ b \in c .. Len(w) /\ \A j \in c .. b - 1 : w[j] # "{"
    <3> HIDE DEF b, w
    <3> QED
      BY <1>4, <1>10, BraceNext
  <2>2. ASSUME NEW j \in c .. Len(w), w[j] = "{" PROVE j \in b .. Len(w)
    <3>1. SUFFICES ASSUME ~ (j >= b) PROVE FALSE
      <4> DEFINE l == Len(w)
      <4>1. l \in Nat /\ b \in c .. l /\ j \in c .. l /\ c \in Nat
        BY Zenon, <1>4, <2>1
      <4> HIDE DEF l, b
      <4>2. j >= b => j \in b .. l
        BY <4>1
      <4> QED
        BY Zenon, <4>2 DEF l
    <3>2. j \in c .. b - 1
      <4>1. c \in Nat /\ b \in c .. Len(w) /\ j \in c .. Len(w)
        BY Zenon, <1>4, <2>1
      <4> HIDE DEF b, w
      <4> QED
        BY <4>1, <3>1
    <3> QED
      BY Zenon, <2>1, <2>2, <3>2
  <2>3. ASSUME NEW j \in b .. Len(w) PROVE j \in c .. Len(w)
    <3> DEFINE l == Len(w)
    <3>1. l \in Nat /\ j \in b .. l /\ b \in c .. l /\ c \in Nat
      BY Zenon, <1>4, <2>1
    <3> HIDE DEF l, b
    <3>2. j \in c .. l
      BY <3>1
    <3> QED
      BY Zenon, <3>2 DEF l
  <2> QED
    BY Zenon, <2>2, <2>3 DEF BracesFrom
<1>12. ScanOf(w, TRUE)[c][f] = ScanOf(w, TRUE)[b][f]
  <2> HIDE DEF b, w
  <2> QED
    BY <1>4, <1>8, <1>11, ScanSame
<1>13. ScanOf(w, TRUE)[b][f].found = ScanOf(p \o u, TRUE)[1][f].found
  <2> DEFINE q == p \o u
  <2>1. Window(q, w, b - 1) /\ Whole(q, w, b - 1)
    BY Zenon, <1>7
  <2>2. 1 \in 1 .. Len(q) + 1
    <3>1. q \in Seq(Symbols)
      BY Zenon, <2>1 DEF Window
    <3> HIDE DEF q
    <3> QED
      BY <3>1
  <2>3. ScansLike(q, w, b - 1)
    <3> HIDE DEF w, n, b, q
    <3> QED
      BY <2>1, ScanShift
  <2>4. ScanOf(w, TRUE)[(b - 1) + 1][f].found = ScanOf(q, TRUE)[1][f].found
    BY Zenon, <2>2, <2>3 DEF ScansLike
  <2> QED
    BY Zenon, <1>8, <2>4
<1> HIDE DEF s
<1>14. ScanOf(w, TRUE)[c][f].found = ScanOf(s.pending \o u, TRUE)[1][s.found].found
  BY Zenon, <1>3, <1>12, <1>13
<1> QED
  BY Zenon, <1>14 DEF ResumedAt, s

\* A scan that goes on after a brace goes on alike in the longer text.
LEMMA ResumedAfter ==
    ASSUME NEW t \in Seq(Symbols), NEW u \in Seq(Symbols), ~ Stray(t \o u),
           NEW c \in 1 .. Len(t) + 1, NEW f \in Diagnostics, BracesFrom(t, c) # {},
           After(t, NextBrace(t, c), FALSE) # NextBrace(t, c),
           \A k \in c + 1 .. Len(t) + 1 : \A v \in Diagnostics : ResumedAt(t, u, k, v)
    PROVE  ResumedAt(t, u, c, f)
<1> DEFINE w == t \o u
           n == Len(t)
           b == NextBrace(t, c)
           a == After(t, b, FALSE)
           v == Merge(f, Evidence(t, b))
           s == ScanOf(t, FALSE)[c][f]
           r == ScanOf(t, FALSE)[a][v]
<1>0. c \in Nat \ {0} /\ c \in Nat /\ n \in Nat
  OBVIOUS
<1>1. b \in c .. n /\ b \in 1 .. n /\ t[b] = "{"
  BY <1>0, BraceNext
<1>2. a \in c + 1 .. n + 1
  BY CursorMoves
<1>3. v \in Diagnostics
  <2>1. Evidence(t, b) \in Diagnostics
    <3> HIDE DEF b
    <3> QED
      BY <1>1, EvidenceTyped
  <2> QED
    BY Zenon, <2>1, FoundTyped
<1>4. s = r
  <2>1. ScanCased(t, FALSE, ScanOf(t, FALSE), c, f, s)
    BY ScanStep
  <2> QED
    BY Zenon, <2>1 DEF ScanCased
<1>5. w \in Seq(Symbols) /\ Len(w) = n + Len(u) /\ Len(u) \in Nat
  OBVIOUS
<1>6. Window(t, w, 0)
  BY FrontWindow
<1>7. After(w, b, TRUE) = a /\ Evidence(w, b) = Evidence(t, b)
  <2>1. GoesOn(t, w, b)
    BY Zenon, <1>1 DEF GoesOn
  <2>2. GoesSame(t, w, b)
    <3> DEFINE d == 0
    <3>1. d = 0 /\ Window(t, w, d)
      BY Zenon, <1>6
    <3> HIDE DEF w, b, d
    <3> QED
      BY <1>1, <2>1, <3>1, AfterMore
  <2> QED
    BY Zenon, <2>2 DEF GoesSame
<1>8. 0 + c = c /\ 0 + b = b
  <2>1. c \in Nat /\ b \in 1 .. n
    BY Zenon, <1>0, <1>1
  <2> HIDE DEF b
  <2> QED
    BY <2>1
<1>9. BracesFrom(w, c) # {} /\ NextBrace(w, c) = b
  <2> HIDE DEF w
  <2>2. BracesFrom(w, 0 + c) # {} /\ NextBrace(w, 0 + c) = 0 + b
    BY <1>6, BraceShift
  <2> QED
    BY Zenon, <1>8, <2>2
<1>10. ScanOf(w, TRUE)[c][f] = ScanOf(w, TRUE)[a][v]
  <2>1. c \in 1 .. Len(w) + 1
    <3> DEFINE k == Len(u)
               l == Len(w)
    <3>1. l = n + k /\ k \in Nat /\ n \in Nat /\ c \in 1 .. n + 1
      BY Zenon, <1>0, <1>5
    <3> HIDE DEF k, l, n
    <3>2. c \in 1 .. l + 1
      BY <3>1
    <3> QED
      BY Zenon, <3>2 DEF l
  <2>2. ScanCased(w, TRUE, ScanOf(w, TRUE), c, f, ScanOf(w, TRUE)[c][f])
    <3> HIDE DEF w
    <3> QED
      BY <1>5, <2>1, ScanStep
  <2>3. a # b
    BY Zenon
  <2> QED
    BY Zenon, <1>7, <1>9, <2>2, <2>3 DEF ScanCased
<1>11. ResumedAt(t, u, a, v)
  BY Zenon, <1>2, <1>3
<1>12. ScanOf(w, TRUE)[a][v].found = ScanOf(r.pending \o u, TRUE)[1][r.found].found
  BY Zenon, <1>11 DEF ResumedAt
<1> HIDE DEF s, r
<1>13. ScanOf(w, TRUE)[c][f].found = ScanOf(s.pending \o u, TRUE)[1][s.found].found
  BY Zenon, <1>4, <1>10, <1>12
<1> QED
  BY Zenon, <1>13 DEF ResumedAt, s

\* What a scan keeps and has found is enough to go on when more text comes.
LEMMA Resumed ==
    ASSUME NEW t \in Seq(Symbols), NEW u \in Seq(Symbols), ~ Stray(t \o u),
           NEW f \in Diagnostics
    PROVE  ResumedAt(t, u, 1, f)
<1> DEFINE n == Len(t) + 1
           S == {c \in 1 .. n : \A g \in Diagnostics : ResumedAt(t, u, c, g)}
<1>1. n \in Nat /\ 1 \in 1 .. n
  OBVIOUS
<1>2. ASSUME NEW c \in 1 .. n, \A k \in c + 1 .. n : k \in S PROVE c \in S
  <2>1. ASSUME NEW g \in Diagnostics PROVE ResumedAt(t, u, c, g)
    <3>1. CASE BracesFrom(t, c) = {}
      BY <3>1, ResumedNowhere
    <3>2. CASE BracesFrom(t, c) # {} /\ After(t, NextBrace(t, c), FALSE) = NextBrace(t, c)
      BY <3>2, ResumedWaiting
    <3>3. CASE BracesFrom(t, c) # {} /\ After(t, NextBrace(t, c), FALSE) # NextBrace(t, c)
      <4>1. \A k \in c + 1 .. n : \A v \in Diagnostics : ResumedAt(t, u, k, v)
        BY Zenon, <1>2
      <4> QED
        BY <3>3, <4>1, ResumedAfter
    <3> QED
      BY Zenon, <3>1, <3>2, <3>3
  <2> QED
    BY Zenon, <2>1
<1>3. \A c \in 1 .. n : c \in S
  <2> HIDE DEF S, n
  <2> QED
    BY <1>1, <1>2, Descending
<1> QED
  BY Zenon, <1>1, <1>3

KeepsEnd(t, s) == s.pending = <<>> \/ Ending(s.pending, t)

\* What a scan keeps is an end of its text.
LEMMA EndKept ==
    ASSUME NEW t \in Seq(Symbols), NEW f \in Diagnostics
    PROVE  KeepsEnd(t, ScanOf(t, FALSE)[1][f])
<1> DEFINE n == Len(t) + 1
           g == ScanOf(t, FALSE)
           S == {c \in 1 .. n : \A e \in Diagnostics : KeepsEnd(t, g[c][e])}
<1>1. n \in Nat /\ 1 \in 1 .. n
  OBVIOUS
<1>2. ASSUME NEW c \in 1 .. n, \A k \in c + 1 .. n : k \in S PROVE c \in S
  <2>1. ASSUME NEW e \in Diagnostics PROVE KeepsEnd(t, g[c][e])
    <3> DEFINE b == NextBrace(t, c)
               p == SubSeq(t, b, Len(t))
               r == g[c][e]
    <3>0. c \in Nat \ {0}
      BY <1>1
    <3>1. ScanCased(t, FALSE, g, c, e, r)
      BY ScanStep
    <3>2. CASE BracesFrom(t, c) = {}
      <4>1. r = [pending |-> <<>>, found |-> e]
        BY Zenon, <3>1, <3>2 DEF ScanCased
      <4>2. r.pending = <<>>
        <5> HIDE DEF r
        <5> QED
          BY <4>1, FoundOf
      <4> QED
        BY Zenon, <4>2 DEF KeepsEnd
    <3>3. CASE BracesFrom(t, c) # {} /\ After(t, b, FALSE) = b
      <4>1. r = [pending |-> p, found |-> e]
        BY Zenon, <3>1, <3>3 DEF ScanCased
      <4>2. r.pending = p
        <5> HIDE DEF r, p
        <5> QED
          BY <4>1, FoundOf
      <4>3. b \in 1 .. Len(t)
        BY <3>0, <3>3, BraceNext
      <4>4. Ending(p, t)
        <5> HIDE DEF b
        <5> QED
          BY <4>3, RestWindow
      <4> QED
        BY Zenon, <4>2, <4>4 DEF KeepsEnd
    <3>4. CASE BracesFrom(t, c) # {} /\ After(t, b, FALSE) # b
      <4>1. r = g[After(t, b, FALSE)][Merge(e, Evidence(t, b))]
        BY Zenon, <3>1, <3>4 DEF ScanCased
      <4>2. After(t, b, FALSE) \in c + 1 .. n
        BY <3>4, CursorMoves
      <4>3. Merge(e, Evidence(t, b)) \in Diagnostics
        <5>1. b \in 1 .. Len(t)
          BY <3>0, <3>4, BraceNext
        <5>2. Evidence(t, b) \in Diagnostics
          <6> HIDE DEF b
          <6> QED
            BY <5>1, EvidenceTyped
        <5> QED
          BY Zenon, <5>2, FoundTyped
      <4> QED
        BY Zenon, <1>2, <4>1, <4>2, <4>3
    <3> QED
      BY Zenon, <3>2, <3>3, <3>4
  <2> QED
    BY Zenon, <2>1
<1>3. \A c \in 1 .. n : c \in S
  <2> HIDE DEF S, n
  <2> QED
    BY <1>1, <1>2, Descending
<1> QED
  BY Zenon, <1>1, <1>3

---------------------------------------------------------------------------
(* What a parser that is fed chunks knows of the text.                     *)

Knows(t, p) ==
    /\ p.pending \in Seq(Symbols) /\ p.found \in Diagnostics
    /\ p.pending = <<>> \/ Ending(p.pending, t)
    /\ \A u \in Seq(Symbols) : ~ Stray(t \o u) =>
           Scan(t \o u, TRUE, None).found = Scan(p.pending \o u, TRUE, p.found).found

\* A new parser knows the empty text.
LEMMA KnowsNothing == Knows(<<>>, NewParser)
<1>1. NewParser.pending = <<>> /\ NewParser.found = None
  BY DEF NewParser
<1>2. <<>> \in Seq(Symbols)
  OBVIOUS
<1> QED
  BY Zenon, <1>1, <1>2, FoundTyped DEF Knows

\* What is scanned is an end of all text.
LEMMA StrayPending ==
    ASSUME NEW t \in Seq(Symbols), NEW p \in Seq(Symbols), p = <<>> \/ Ending(p, t),
           NEW u \in Seq(Symbols)
    PROVE  Ending(p \o u, t \o u)
<1>1. CASE p = <<>>
  <2>1. p \o u = u
    BY <1>1
  <2>2. Ending(u, t \o u)
    BY BackWindow
  <2> QED
    BY Zenon, <2>1, <2>2
<1>2. CASE Ending(p, t)
  <2>1. PICK d \in Nat : Window(p, t, d) /\ Whole(p, t, d)
    BY Zenon, <1>2 DEF Ending
  <2> QED
    BY <2>1, LongerWindow
<1> QED
  BY Zenon, <1>1, <1>2

\* A chunk is taken and nothing is dropped.
LEMMA KnowsMore ==
    ASSUME NEW t \in Seq(Symbols), NEW p, Knows(t, p), NEW chunk \in Seq(Symbols), NEW q,
           q.pending = Scan(p.pending \o chunk, FALSE, p.found).pending,
           q.found   = Scan(p.pending \o chunk, FALSE, p.found).found
    PROVE  Knows(t \o chunk, q)
<1> DEFINE a == p.pending
           f == p.found
           s == Scan(a \o chunk, FALSE, f)
           x == a \o chunk
           y == t \o chunk
<1>1. a \in Seq(Symbols) /\ f \in Diagnostics /\ (a = <<>> \/ Ending(a, t))
  BY Zenon DEF Knows
<1>2. x \in Seq(Symbols) /\ y \in Seq(Symbols)
  <2> HIDE DEF a
  <2> QED
    BY <1>1
<1>3. s = ScanOf(x, FALSE)[1][f] /\ s \in Scans
  <2>1. 1 \in 1 .. Len(x) + 1
    <3> HIDE DEF x
    <3> QED
      BY <1>2
  <2>2. ScanOf(x, FALSE)[1][f] \in Scans
    <3> HIDE DEF x, f
    <3> QED
      BY <1>1, <1>2, <2>1, ScanTyped
  <2> QED
    BY Zenon, <2>2 DEF Scan
<1> HIDE DEF s
<1>4. s.pending \in Seq(Symbols) /\ s.found \in Diagnostics /\ q.pending = s.pending /\ q.found = s.found
  <2>1. s.pending \in Seq(Symbols) /\ s.found \in Diagnostics
    BY <1>3 DEF Scans
  <2> QED
    BY Zenon, <2>1 DEF s
<1>5. ASSUME NEW u \in Seq(Symbols) PROVE (t \o chunk) \o u = t \o (chunk \o u) /\ (a \o chunk) \o u = a \o (chunk \o u)
  <2>1. JoinThrice(t, chunk, u) /\ JoinThrice(a, chunk, u)
    <3> HIDE DEF a
    <3> QED
      BY <1>1, JoinedThrice
  <2> QED
    BY Zenon, <2>1 DEF JoinThrice
<1>6. Ending(x, y)
  <2> HIDE DEF a
  <2>1. Ending(a \o chunk, t \o chunk)
    BY <1>1, StrayPending
  <2> QED
    BY Zenon, <2>1
<1>7. ASSUME NEW u \in Seq(Symbols), ~ Stray(y \o u)
      PROVE  Scan(y \o u, TRUE, None).found = Scan(s.pending \o u, TRUE, s.found).found
  <2>1. ~ Stray(x \o u)
    <3>1. Ending(x \o u, y \o u)
      <4> HIDE DEF x, y
      <4> QED
        BY <1>2, <1>6, StrayPending
    <3>2. Stray(x \o u) => Stray(y \o u)
      <4> DEFINE k == x \o u
                 l == y \o u
      <4>1. Ending(k, l)
        BY Zenon, <3>1
      <4> HIDE DEF k, l
      <4>2. Stray(k) => Stray(l)
        BY <4>1, StrayShift
      <4> QED
        BY Zenon, <4>2 DEF k, l
    <3> QED
      BY Zenon, <1>7, <3>2
  <2>2. chunk \o u \in Seq(Symbols)
    OBVIOUS
  <2>3. Scan(t \o (chunk \o u), TRUE, None).found = Scan(a \o (chunk \o u), TRUE, f).found
    <3>1. ~ Stray(t \o (chunk \o u))
      BY Zenon, <1>5, <1>7
    <3> QED
      BY Zenon, <2>2, <3>1 DEF Knows
  <2>4. ResumedAt(x, u, 1, f)
    <3> HIDE DEF x, f
    <3> QED
      BY <1>1, <1>2, <2>1, Resumed
  <2>5. ScanOf(x \o u, TRUE)[1][f].found = ScanOf(s.pending \o u, TRUE)[1][s.found].found
    BY Zenon, <1>3, <2>4 DEF ResumedAt
  <2> QED
    BY Zenon, <1>5, <2>3, <2>5 DEF Scan
<1>8. s.pending = <<>> \/ Ending(s.pending, y)
  <2>1. s.pending = <<>> \/ Ending(s.pending, x)
    <3>1. KeepsEnd(x, ScanOf(x, FALSE)[1][f])
      <4> HIDE DEF x, f
      <4> QED
        BY <1>1, <1>2, EndKept
    <3> QED
      BY Zenon, <1>3, <3>1 DEF KeepsEnd
  <2> QED
    BY <1>6, <2>1, EndingOfEnding
<1> QED
  BY Zenon, <1>4, <1>7, <1>8 DEF Knows

\* The verdict v on a child with status f is the one on its text t.
JudgedBy(t, f, v) == v = IF f THEN Scan(t, TRUE, None).found ELSE None

\* At the end, what the parser knows is enough.
LEMMA FinishKnown ==
    ASSUME NEW t \in Seq(Symbols), NEW p, Knows(t, p), ~ Stray(t), NEW f \in BOOLEAN
    PROVE  JudgedBy(t, f, Finish(p, f))
<1> DEFINE e == <<>>
           a == p.pending
<1>1. a \in Seq(Symbols) /\ e \in Seq(Symbols)
  <2>1. e \in Seq(Symbols)
    OBVIOUS
  <2> QED
    BY Zenon, <2>1 DEF Knows
<1>2. t \o e = t
  OBVIOUS
<1>3. a \o e = a
  <2> HIDE DEF a
  <2> QED
    BY <1>1
<1>4. Scan(t \o e, TRUE, None).found = Scan(a \o e, TRUE, p.found).found
  BY Zenon, <1>1, <1>2 DEF Knows
<1>5. Scan(t, TRUE, None).found = Scan(a, TRUE, p.found).found
  BY Zenon, <1>2, <1>3, <1>4
<1> QED
  BY Zenon, <1>5 DEF JudgedBy, Finish

\* What the parser of a managed launch is given.
HasRead == SubSeq(script["err"], 1, got["err"])

\* The parser has the text that was read: nothing before the child runs, then what a
\* scan of the text needs in order to go on.
Observes ==
    /\ phase \in {"typed", "planned", "starting", "probing"} => parser = NewParser
    /\ mode = "pipe" => script["err"] \in Seq(Symbols)
    /\ phase = "running" /\ mode = "pipe" /\ ~ parser.dropped => Knows(HasRead, parser)
    /\ VerdictOfBytes

\* The invariant holds when the words are typed.
LEMMA ObservesStart == OutputInit => Observes
<1> SUFFICES ASSUME OutputInit PROVE Observes
  OBVIOUS
<1>1. phase = "typed" /\ mode = "none" /\ parser = NewParser
  BY DEF OutputInit
<1> QED
  BY Zenon, <1>1 DEF Observes, VerdictOfBytes, Judged

\* A step of the child, or of a loop that reads nothing.
LEMMA SameObserved ==
    ASSUME Observes, phase = "running", phase' = phase, UNCHANGED <<parser, script, got, mode>>
    PROVE  Observes'
<1>1. HasRead' = HasRead
  BY DEF HasRead
<1>2. ~ Judged'
  BY Zenon DEF Judged
<1>3. VerdictOfBytes'
  BY Zenon, <1>2 DEF VerdictOfBytes
<1>4. Knows(HasRead, parser)' = Knows(HasRead, parser)
  BY Zenon, <1>1 DEF Knows
<1> QED
  BY Zenon, <1>3, <1>4 DEF Observes

\* A native session has no parser.
LEMMA NativeObserved ==
    ASSUME mode' = "native", phase' \in {"running", "done"}
    PROVE  Observes'
<1>1. ~ Judged' /\ mode' # "pipe" /\ phase' \notin {"typed", "planned", "starting", "probing"}
  BY DEF Judged
<1> QED
  BY Zenon, <1>1 DEF Observes, VerdictOfBytes

\* Until agy is started the parser is new.
LEMMA EarlyObserved ==
    ASSUME OutputInv, Observes,
           Plans \/ Declines \/ Probes \/ ProbeEnds \/ ProbeTimesOut \/ Connects
    PROVE  Observes'
<1>1. /\ Stages /\ parser' = parser
      /\ phase \in {"typed", "planned", "starting", "probing"}
  BY DEF OutputInv, Plans, Declines, Probes, ProbeEnds, ProbeTimesOut, Connects, shown, reading
<1>2. parser' = NewParser
  BY <1>1 DEF Observes
<1>3. \/ phase' \in {"planned", "starting", "probing"}
      \/ phase' = "running" /\ mode' = "native"
      \/ phase' = "done" /\ result' # "code"
  BY <1>1 DEF Plans, Declines, Probes, ProbeEnds, ProbeTimesOut, Connects, Stages
<1>4. mode' = "pipe" => script'["err"] \in Seq(Symbols)
  <2>1. CASE ProbeEnds \/ Probes \/ ProbeTimesOut
    BY <1>1, <2>1 DEF Probes, ProbeEnds, ProbeTimesOut, Stages
  <2>2. CASE Plans \/ Declines
    BY <2>2 DEF Plans, Declines, reading, Observes
  <2>3. CASE Connects
    <3>1. script' = Silent
      BY <2>3, <1>1 DEF Connects, reading, Stages
    <3>2. "err" \in Streams
      BY DEF Streams
    <3>3. script'["err"] = <<>>
      BY Zenon, <3>1, <3>2 DEF Silent
    <3> QED
      BY <3>3
  <2> QED
    BY Zenon, <2>1, <2>2, <2>3
<1>5. ~ Judged' /\ ~ (phase' = "running" /\ mode' = "pipe")
  BY <1>3 DEF Judged
<1> QED
  BY Zenon, <1>2, <1>4, <1>5 DEF Observes, VerdictOfBytes

\* A parser that is new knows all that was read when agy is started: nothing.
LEMMA SpawningObserved == ASSUME OutputInv, Observes, Spawning PROVE Observes'
<1>1. /\ Stages /\ phase = "starting" /\ phase' = "running" /\ mode' = mode /\ parser' = parser
      /\ got' = got
  BY DEF OutputInv, Spawning, shown
<1>2. parser' = NewParser /\ got = Zero /\ mode \in {"inherit", "pipe"}
  BY <1>1 DEF Observes, Stages, Unstarted
<1>3. "err" \in Streams
  BY DEF Streams
<1>4. mode' = "pipe" => script'["err"] \in Seq(Symbols)
  <2> SUFFICES ASSUME mode = "pipe" PROVE script'["err"] \in Seq(Symbols)
    BY <1>1
  <2>1. PICK t \in Texts : script' = [Silent EXCEPT !["err"] = t]
    BY DEF Spawning
  <2>2. script'["err"] = t
    BY Zenon, <1>3, <2>1 DEF Silent
  <2> QED
    BY <2>2, OutputAssumption
<1>5. mode' = "pipe" => Knows(HasRead, parser)'
  <2> SUFFICES ASSUME mode' = "pipe" PROVE Knows(HasRead, parser)'
    OBVIOUS
  <2>1. got'["err"] = 0
    BY Zenon, <1>1, <1>2, <1>3 DEF Zero
  <2>2. HasRead' = <<>>
    <3> DEFINE t == script'["err"]
    <3>1. t \in Seq(Symbols)
      BY <1>4
    <3>2. HasRead' = SubSeq(t, 1, 0)
      BY Zenon, <2>1 DEF HasRead
    <3> HIDE DEF t
    <3> QED
      BY <3>1, <3>2
  <2> QED
    BY Zenon, <1>2, <2>2, KnowsNothing DEF Knows
<1>6. ~ Judged' /\ phase' \notin {"typed", "planned", "starting", "probing"}
  BY <1>1 DEF Judged
<1> QED
  BY Zenon, <1>4, <1>5, <1>6 DEF Observes, VerdictOfBytes

\* A chunk is taken: the parser still knows what was read, unless it dropped a candidate.
LEMMA DrainsObserved == ASSUME OutputInv, Observes, Drains PROVE Observes'
<1>1. PICK chunk : Receives("err", chunk) /\ Running("pipe") /\ parser' = Feed(parser, chunk)
                   /\ phase' = phase
  BY DEF Drains
<1>2. "err" \in Streams
  BY DEF Streams
<1>3. PICK m : Reading("err", chunk, m)
  BY <1>1, <1>2, ReceivesReads
<1>4. phase = "running" /\ mode = "pipe" /\ mode' = mode /\ script' = script
      /\ chunk \in Chunks("err")
  BY <1>1 DEF Running, Receives
<1> DEFINE x == script["err"]
           t == HasRead
           s == Scan(parser.pending \o chunk, FALSE, parser.found)
<1>5. x \in Seq(Symbols)
  BY <1>4 DEF Observes
<1>6. got["err"] \in Nat /\ got["err"] <= Len(x) /\ OutputTyped
  <2>1. OutputTyped /\ got["err"] \in Nat /\ printed["err"] \in Nat /\ got["err"] <= printed["err"]
        /\ printed["err"] <= Len(script["err"])
    BY <1>2 DEF OutputInv, OutputTyped, OutputTypeOK
  <2>2. Len(x) \in Nat
    BY <1>5
  <2> QED
    BY <2>1, <2>2
<1>7. t \in Seq(Symbols)
  <2>1. t = SubSeq(x, 1, got["err"])
    BY DEF HasRead
  <2> HIDE DEF x, t
  <2> QED
    BY <1>5, <1>6, <2>1
<1>8. HasRead' = t \o chunk /\ chunk \in Seq(Symbols)
  <2>1. /\ chunk \in Seq(Printable) /\ got["err"] + Len(chunk) <= Len(x)
        /\ \A i \in 1 .. Len(chunk) : chunk[i] = x[got["err"] + i]
        /\ SubSeq(x, 1, got["err"]) \o chunk = SubSeq(x, 1, got["err"] + Len(chunk))
    <3>1. /\ chunk \in Seq(Printable) /\ Len(chunk) \in 1 .. MaxChunk
          /\ got["err"] + Len(chunk) <= printed["err"] /\ printed["err"] <= Len(x)
          /\ \A i \in 1 .. Len(chunk) : chunk[i] = x[got["err"] + i]
          /\ SubSeq(x, 1, got["err"]) \o chunk = SubSeq(x, 1, got["err"] + Len(chunk))
      BY <1>2, <1>4, <1>6, ChunkIs
    <3>2. printed["err"] \in Nat /\ Len(x) \in Nat /\ Len(chunk) \in Nat
      BY <1>2, <1>5, <1>6, <3>1 DEF OutputTyped
    <3>3. got["err"] + Len(chunk) <= Len(x)
      <4> DEFINE l == Len(x)
                 k == Len(chunk)
                 g == got["err"]
                 p == printed["err"]
      <4>1. g \in Nat /\ p \in Nat /\ l \in Nat /\ k \in Nat /\ g + k <= p /\ p <= l
        BY Zenon, <1>6, <3>1, <3>2
      <4> HIDE DEF l, k, g, p
      <4>2. g + k <= l
        BY <4>1
      <4> QED
        BY Zenon, <4>2 DEF l, k, g
    <3> QED
      BY Zenon, <3>1, <3>3
  <2>2. got'["err"] = got["err"] + Len(chunk)
    <3>1. got \in [Streams -> Nat]
      BY <1>6 DEF OutputTyped
    <3> QED
      BY <1>1, <1>2, <3>1 DEF Receives
  <2>3. HasRead' = t \o chunk
    BY Zenon, <1>4, <2>1, <2>2 DEF HasRead
  <2>4. chunk \in Seq(Symbols)
    <3> DEFINE k == got["err"]
    <3>1. k \in Nat /\ Len(x) \in Nat /\ Len(chunk) \in Nat /\ k + Len(chunk) <= Len(x)
          /\ \A i \in 1 .. Len(chunk) : chunk[i] = x[k + i]
      BY <1>5, <1>6, <2>1
    <3> HIDE DEF k, x
    <3>2. \A i \in 1 .. Len(chunk) : chunk[i] \in Symbols
      <4> TAKE i \in 1 .. Len(chunk)
      <4>1. k + i \in 1 .. Len(x)
        BY <3>1
      <4>2. x[k + i] \in Symbols
        BY <1>5, <4>1
      <4> QED
        BY <3>1, <4>2
    <3> QED
      BY <2>1, <3>2
  <2> QED
    BY Zenon, <2>3, <2>4
<1>9. ~ parser'.dropped => ~ parser.dropped /\ parser'.pending = s.pending /\ parser'.found = s.found
  <2> DEFINE big == Len(s.pending) > MaxDiagnostic
  <2>1. parser' = [pending |-> IF big THEN <<>> ELSE s.pending, found |-> s.found,
                   dropped |-> parser.dropped \/ big]
    BY Zenon, <1>1 DEF Feed, Keep
  <2> HIDE DEF s, big
  <2>2. parser'.dropped = (parser.dropped \/ big)
    BY <2>1
  <2>3. parser'.pending = (IF big THEN <<>> ELSE s.pending) /\ parser'.found = s.found
    BY <2>1
  <2> QED
    BY Zenon, <2>2, <2>3
<1>10. ~ parser'.dropped => Knows(HasRead, parser)'
  <2> SUFFICES ASSUME ~ parser'.dropped PROVE Knows(HasRead', parser')
    BY Zenon DEF Knows
  <2>1. Knows(t, parser)
    BY Zenon, <1>4, <1>9 DEF Observes
  <2> DEFINE q == parser'
  <2>2. q.pending = s.pending /\ q.found = s.found
    BY Zenon, <1>9
  <2>3. Knows(t \o chunk, q)
    <3> HIDE DEF q, t
    <3> QED
      BY <1>7, <1>8, <2>1, <2>2, KnowsMore
  <2> QED
    BY Zenon, <1>8, <2>3
<1>11. ~ Judged' /\ phase' = "running"
  BY <1>1, <1>4 DEF Judged
<1> QED
  <2>1. script'["err"] \in Seq(Symbols)
    BY Zenon, <1>4, <1>5
  <2>2. phase' \notin {"typed", "planned", "starting", "probing"}
    BY <1>11
  <2> QED
    BY Zenon, <1>10, <1>11, <2>1, <2>2 DEF Observes, VerdictOfBytes

\* A managed launch judges by what its reader has read to the end.
LEMMA ManagedReturnsObserved == ASSUME OutputInv, Observes, ManagedReturns PROVE Observes'
<1>1. /\ phase = "running" /\ phase' = "done" /\ mode' = mode /\ script' = script
      /\ printed' = printed /\ failed' = failed /\ parser' = parser
      /\ mode = "inherit" \/ (mode = "pipe" /\ "err" \in ended)
  BY DEF ManagedReturns, reading
<1>2. /\ OutputTyped /\ ReadToEnd /\ result \in {"none", "read", "wait"} /\ failed \in BOOLEAN
  BY <1>1 DEF OutputInv, Stages, OutputTyped, OutputTypeOK
<1>3. result # "none" => result' # "code"
  BY <1>2 DEF ManagedReturns
<1>4. mode' = "pipe" => script'["err"] \in Seq(Symbols)
  BY <1>1 DEF Observes
<1>5. VerdictOfBytes'
  <2> SUFFICES ASSUME Judged', ~ Stray(Text)' PROVE JudgedBy(Text', failed', verdict')
    BY Zenon DEF VerdictOfBytes, JudgedBy
  <2>1. mode = "pipe" /\ result = "none" /\ ~ parser.dropped /\ "err" \in ended
    BY <1>1, <1>3 DEF Judged
  <2>2. verdict' = Finish(parser, failed)
    BY <2>1 DEF ManagedReturns
  <2>3. Text' = HasRead
    <3>1. got["err"] = printed["err"]
      BY <1>2, <2>1 DEF ReadToEnd
    <3> QED
      BY Zenon, <1>1, <3>1 DEF Text, HasRead
  <2>4. Knows(HasRead, parser)
    BY Zenon, <1>1, <2>1 DEF Observes
  <2>5. HasRead \in Seq(Symbols)
    <3> DEFINE x == script["err"]
    <3>1. x \in Seq(Symbols) /\ "err" \in Streams
      BY <2>1 DEF Observes, Streams
    <3>2. got["err"] \in Nat /\ printed["err"] \in Nat /\ got["err"] <= printed["err"]
          /\ printed["err"] <= Len(x) /\ Len(x) \in Nat
      BY <1>2, <3>1 DEF OutputTyped, OutputTypeOK
    <3>3. HasRead = SubSeq(x, 1, got["err"])
      BY DEF HasRead
    <3> HIDE DEF x
    <3> QED
      BY <3>1, <3>2, <3>3
  <2>6. ~ Stray(HasRead)
    BY Zenon, <2>3 DEF Stray
  <2>7. JudgedBy(HasRead, failed, Finish(parser, failed))
    BY <1>2, <2>4, <2>5, <2>6, FinishKnown
  <2> QED
    BY Zenon, <1>1, <2>2, <2>3, <2>7
<1>6. phase' \notin {"typed", "planned", "starting", "probing"} /\ phase' # "running"
  BY <1>1
<1> QED
  BY Zenon, <1>4, <1>5, <1>6 DEF Observes

\* Every step of a command keeps the invariant.
LEMMA ObservesKept == OutputInv /\ Observes /\ [OutputNext]_outputVars => Observes'
<1> SUFFICES ASSUME OutputInv, Observes, [OutputNext]_outputVars PROVE Observes'
  OBVIOUS
<1>1. CASE UNCHANGED outputVars
  <2>1. UNCHANGED <<phase, mode, parser, script, got, printed, failed, verdict, result>>
    BY <1>1 DEF outputVars, reading, shown
  <2> QED
    BY Zenon, <2>1 DEF Observes, VerdictOfBytes, Judged, Text, HasRead, Knows, Stray
<1>2. CASE Plans \/ Declines \/ Probes \/ ProbeEnds \/ ProbeTimesOut \/ Connects
  BY <1>2, EarlyObserved
<1>3. CASE Spawning
  BY <1>3, SpawningObserved
<1>4. CASE AgyEnds \/ Reaps \/ Faulty
  <2>1. phase = "running" /\ phase' = phase /\ UNCHANGED <<parser, script, got, mode>>
    BY <1>4 DEF AgyEnds, Reaps, Faulty, WaitFails, DrainFails, ReadFails, Running, reading, shown
  <2> QED
    BY <2>1, SameObserved
<1>5. ASSUME NEW s \in Streams, Prints(s) \/ EndOfFile(s) PROVE Observes'
  <2>1. phase = "running" /\ phase' = phase /\ UNCHANGED <<parser, script, got, mode>>
    BY <1>5 DEF Prints, EndOfFile, shown
  <2> QED
    BY <2>1, SameObserved
<1>6. CASE Opens \/ NativeReturns
  <2>1. mode' = "native" /\ phase' \in {"running", "done"}
    BY <1>6 DEF Opens, NativeReturns, OpensOrAborts, Goes, Aborts, Running
  <2> QED
    BY <2>1, NativeObserved
<1>7. ASSUME NEW s \in Streams, Feeds(s) PROVE Observes'
  <2>1. mode' = "native" /\ phase' \in {"running", "done"}
    <3>1. PICK chunk : Receives(s, chunk) /\ Running("native")
      BY Zenon, <1>7 DEF Feeds, AuthRequired, Holds, Shows
    <3> QED
      BY <3>1, <1>7 DEF Receives, Running, Feeds, AuthRequired, Holds, Shows, OpensOrAborts, Goes, Aborts
  <2> QED
    BY <2>1, NativeObserved
<1>8. CASE Drains
  BY <1>8, DrainsObserved
<1>9. CASE ManagedReturns
  BY <1>9, ManagedReturnsObserved
<1> QED
  BY Zenon, <1>1, <1>2, <1>3, <1>4, <1>5, <1>6, <1>7, <1>8, <1>9 DEF OutputNext, Loop

\* The verdict on a managed agy is that of one scan of its whole standard error, however
\* the bytes were cut into chunks (LaunchDiagnosticParser::feed and try_finish).
THEOREM VerdictIsOfBytes == OutputSpec => []VerdictOfBytes
<1>1. Observes => VerdictOfBytes
  BY DEF Observes
<1> QED
  BY <1>1, OutputInvariant, ObservesStart, ObservesKept, PTL DEF OutputSpec

---------------------------------------------------------------------------
(* What a scan of a whole text finds.                                      *)

Brace(t, i) == t[i] = "{"

\* Where the scan goes on after the brace at b of a whole text.
Leaps(t, b, a) ==
    /\ a \in b + 1 .. Len(t) + 1
    /\ \/ Extent(t, b) # 0 /\ a = Extent(t, b) + 1
       \/ Extent(t, b) = 0 /\ a = EndOfLine(t, b)
       \/ a = b + 1 /\ \A i \in b + 1 .. Len(t) : ~ Brace(t, i)

\* At the end of the text a scan leaps behind the brace that closes the candidate, to the
\* next line, or over what cannot hold a brace.
LEMMA BraceLeaps ==
    ASSUME NEW t \in Seq(Symbols), NEW b \in 1 .. Len(t)
    PROVE  Leaps(t, b, After(t, b, TRUE))
<1> DEFINE a == After(t, b, TRUE)
           s == ObjectStart(t, b)
           v == FirstValue(t, b)
           x == Extent(t, b)
           n == Len(t)
<1>1. AfterCased(t, b, TRUE, a)
  BY Zenon, AfterCases
<1>2. EndOfLine(t, b) \in b + 1 .. n + 1
  BY LineEnds
<1>3. /\ v.how = "ok" => v.last \in b + 1 .. n /\ v.last = x
      /\ x = 0 \/ x \in b + 1 .. n
      /\ s \in {"Undecided", "Possible", "Impossible"}
      /\ s = "Undecided" => Ahead(t, b) = {}
  BY BraceTyped
<1>4. b \in Nat /\ n \in Nat /\ b <= n
  OBVIOUS
<1>5. /\ s = "Impossible" /\ x # 0 => a = x + 1
      /\ s = "Impossible" /\ x = 0 => a = EndOfLine(t, b)
      /\ s = "Undecided" => a = b + 1
      /\ s = "Possible" /\ v.how = "ok" => a = v.last + 1
      /\ s = "Possible" /\ v.how # "ok" /\ x # 0 => a = x + 1
      /\ s = "Possible" /\ v.how # "ok" /\ x = 0 => a = EndOfLine(t, b)
  BY Zenon, <1>1 DEF AfterCased
<1>6. s = "Undecided" => \A i \in b + 1 .. n : ~ Brace(t, i)
  <2> SUFFICES ASSUME s = "Undecided", NEW i \in b + 1 .. n, t[i] = "{" PROVE FALSE
    BY Zenon DEF Brace
  <2>1. t[i] # "n"
    BY Zenon
  <2> QED
    BY Zenon, <1>3, <2>1 DEF Ahead
<1>7. v.how = "ok" => x # 0
  <2> HIDE DEF v, x, n
  <2> QED
    BY <1>3, <1>4
<1>8. \/ x # 0 /\ a = x + 1
      \/ x = 0 /\ a = EndOfLine(t, b)
      \/ a = b + 1 /\ s = "Undecided"
  <2> HIDE DEF v, x, n, a, s
  <2> QED
    BY Zenon, <1>3, <1>5, <1>7
<1>9. a \in b + 1 .. n + 1
  <2> DEFINE y == EndOfLine(t, b)
  <2> HIDE DEF v, x, n, a, s, y
  <2>1. y \in b + 1 .. n + 1 /\ (x = 0 \/ x \in b + 1 .. n)
        /\ ((x # 0 /\ a = x + 1) \/ a = y \/ a = b + 1)
    BY Zenon, <1>2, <1>3, <1>8 DEF y
  <2> QED
    BY <1>4, <2>1
<1> QED
  BY Zenon, <1>6, <1>8, <1>9 DEF Leaps

\* The scan has passed the brace at j before it gets to i.
PassedBy(t, j, i) ==
    \E k \in 1 .. j - 1 :
        /\ Brace(t, k)
        /\ \/ Extent(t, k) \in j .. i - 1
           \/ Extent(t, k) = 0 /\ EndOfLine(t, k) \in j + 1 .. i

Clear(t, j, i) == Extent(t, j) < i \/ PassedBy(t, j, i)

\* No brace before c encloses one behind it.
ClearFrom(t, c) ==
    \A i \in c .. Len(t) : Brace(t, i) => \A j \in 1 .. c - 1 : Brace(t, j) => Clear(t, j, i)

\* The braces that a leap passes.
LEMMA LeapClears ==
    ASSUME NEW t \in Seq(Symbols), NEW b \in 1 .. Len(t), Brace(t, b), NEW a, Leaps(t, b, a),
           NEW j \in b .. a - 1, NEW i \in a .. Len(t), Brace(t, i)
    PROVE  Clear(t, j, i)
<1> DEFINE x == Extent(t, b)
           y == EndOfLine(t, b)
           n == Len(t)
<1>1. a \in b + 1 .. n + 1 /\ n \in Nat /\ b \in 1 .. n
  BY DEF Leaps
<1>2. ~ (a = b + 1 /\ \A q \in b + 1 .. n : ~ Brace(t, q))
  <2>1. a = b + 1 => i \in b + 1 .. n
    BY Zenon
  <2> QED
    BY Zenon, <2>1
<1>3. (x # 0 /\ a = x + 1) \/ (x = 0 /\ a = y)
  BY Zenon, <1>2 DEF Leaps
<1>4. y \in b + 1 .. n + 1 /\ (x = 0 \/ x \in b + 1 .. n)
  BY LineEnds, BraceTyped
<1>5. i \in a .. n /\ j \in b .. a - 1
  OBVIOUS
<1> HIDE DEF x, y, n
<1>6. x < i
  BY <1>1, <1>3, <1>4, <1>5
<1>7. CASE j = b
  BY Zenon, <1>6, <1>7 DEF Clear, x
<1>8. CASE j # b
  <2>1. b \in 1 .. j - 1
    BY <1>1, <1>5, <1>8
  <2>2. x # 0 => x \in j .. i - 1
    BY <1>1, <1>3, <1>4, <1>5, <1>8
  <2>3. x = 0 => y \in j + 1 .. i
    BY <1>1, <1>3, <1>4, <1>5, <1>8
  <2> QED
    BY Zenon, <2>1, <2>2, <2>3 DEF Clear, PassedBy, x, y
<1> QED
  BY Zenon, <1>7, <1>8

\* A leap from the next brace keeps what is behind clear.
LEMMA LeapKeepsClear ==
    ASSUME NEW t \in Seq(Symbols), NEW c \in Nat \ {0}, ClearFrom(t, c),
           NEW b \in c .. Len(t), Brace(t, b), \A j \in c .. b - 1 : ~ Brace(t, j),
           NEW a, Leaps(t, b, a)
    PROVE  ClearFrom(t, a)
<1> SUFFICES ASSUME NEW i \in a .. Len(t), Brace(t, i), NEW j \in 1 .. a - 1, Brace(t, j)
             PROVE  Clear(t, j, i)
  BY Zenon DEF ClearFrom
<1> DEFINE n == Len(t)
<1>1. a \in b + 1 .. n + 1 /\ n \in Nat
  BY DEF Leaps
<1>2. i \in a .. n /\ j \in 1 .. a - 1 /\ b \in c .. n /\ c \in Nat \ {0}
  OBVIOUS
<1>3. b \in 1 .. n /\ i \in c .. n /\ (j \in 1 .. c - 1 \/ j \in c .. b - 1 \/ j \in b .. a - 1)
  <2> HIDE DEF n
  <2> QED
    BY <1>1, <1>2
<1>4. CASE j \in 1 .. c - 1
  BY Zenon, <1>3, <1>4 DEF ClearFrom
<1>5. CASE j \in c .. b - 1
  BY Zenon, <1>5
<1>6. CASE j \in b .. a - 1
  BY <1>3, <1>6, LeapClears
<1> QED
  BY Zenon, <1>3, <1>4, <1>5, <1>6

\* Merging keeps the graver verdict.
LEMMA Graver ==
    /\ \A d \in Diagnostics : Priority(d) \in Nat
    /\ \A f, d \in Diagnostics :
           /\ Merge(f, d) = f \/ Merge(f, d) = d
           /\ Priority(Merge(f, d)) >= Priority(f)
           /\ Priority(Merge(f, d)) >= Priority(d)
<1>1. \A d \in Diagnostics : Priority(d) \in Nat
  BY DEF Priority
<1>2. ASSUME NEW f \in Diagnostics, NEW d \in Diagnostics
      PROVE  /\ Merge(f, d) = f \/ Merge(f, d) = d
             /\ Priority(Merge(f, d)) >= Priority(f)
             /\ Priority(Merge(f, d)) >= Priority(d)
  <2>1. Priority(f) \in Nat /\ Priority(d) \in Nat
    BY Zenon, <1>1
  <2>2. CASE Priority(f) >= Priority(d)
    <3>1. Merge(f, d) = f
      BY Zenon, <2>2 DEF Merge
    <3> QED
      BY <2>1, <2>2, <3>1
  <2>3. CASE ~ (Priority(f) >= Priority(d))
    <3>1. Merge(f, d) = d
      BY Zenon, <2>3 DEF Merge
    <3> QED
      BY <2>1, <2>3, <3>1
  <2> QED
    BY Zenon, <2>2, <2>3
<1> QED
  BY Zenon, <1>1, <1>2

\* No brace before i encloses it, but for those that are passed.
Unenclosed(t, i) == \A j \in 1 .. i - 1 : Brace(t, j) => Clear(t, j, i)

\* Every brace before i is closed before it.
Closed(t, i) == \A j \in 1 .. i - 1 : Brace(t, j) => Extent(t, j) \in 1 .. i - 1

Found(t, v) == \E i \in 1 .. Len(t) : Brace(t, i) /\ Evidence(t, i) = v /\ Unenclosed(t, i)

AsGrave(v, d) == Priority(v) >= Priority(d)

\* A scan from c that has found f ends with v.
Sound(t, c, f, v) ==
    /\ ClearFrom(t, c) => v = None \/ v = f \/ Found(t, v)
    /\ AsGrave(v, f)
    /\ \A i \in c .. Len(t) : Brace(t, i) /\ Closed(t, i) => AsGrave(v, Evidence(t, i))

\* A scan that meets no brace finds nothing.
LEMMA SoundNowhere ==
    ASSUME NEW t \in Seq(Symbols), NEW c \in Nat \ {0}, NEW f \in Diagnostics,
           BracesFrom(t, c) = {}
    PROVE  Sound(t, c, f, f)
<1>1. AsGrave(f, f)
  BY Graver DEF AsGrave
<1>2. \A i \in c .. Len(t) : ~ Brace(t, i)
  BY Zenon DEF BracesFrom, Brace
<1> QED
  BY Zenon, <1>1, <1>2 DEF Sound

\* A scan that goes on soundly behind the next brace is sound from before it.
LEMMA SoundBefore ==
    ASSUME NEW t \in Seq(Symbols), NEW c \in Nat \ {0}, NEW f \in Diagnostics,
           BracesFrom(t, c) # {}, NEW v \in Diagnostics,
           Sound(t, After(t, NextBrace(t, c), TRUE), Merge(f, Evidence(t, NextBrace(t, c))), v)
    PROVE  Sound(t, c, f, v)
<1> DEFINE b == NextBrace(t, c)
           a == After(t, b, TRUE)
           d == Evidence(t, b)
           m == Merge(f, d)
           n == Len(t)
<1>1. b \in c .. n /\ b \in 1 .. n /\ Brace(t, b) /\ \A j \in c .. b - 1 : ~ Brace(t, j)
  BY BraceNext DEF Brace
<1>2. Leaps(t, b, a)
  BY <1>1, BraceLeaps
<1>3. d \in Diagnostics
  <2> HIDE DEF b
  <2> QED
    BY <1>1, EvidenceTyped
<1>4. Sound(t, a, m, v)
  BY Zenon
<1>5. n \in Nat /\ a \in b + 1 .. n + 1
  <2>1. a \in b + 1 .. n + 1
    BY Zenon, <1>2 DEF Leaps
  <2>2. n \in Nat
    OBVIOUS
  <2> QED
    BY Zenon, <2>1, <2>2
<1>6. m \in Diagnostics /\ (m = f \/ m = d) /\ AsGrave(m, f) /\ AsGrave(m, d)
  <2> HIDE DEF d
  <2> QED
    BY Zenon, <1>3, Graver DEF AsGrave
<1>7. AsGrave(v, m)
  BY Zenon, <1>4 DEF Sound
<1> HIDE DEF a, m, d, b
<1>8. AsGrave(v, f) /\ AsGrave(v, d)
  <2>1. Priority(v) \in Nat /\ Priority(f) \in Nat /\ Priority(d) \in Nat /\ Priority(m) \in Nat
    BY Zenon, <1>3, <1>6, Graver
  <2> QED
    BY <1>6, <1>7, <2>1 DEF AsGrave
<1>9. ASSUME ClearFrom(t, c) PROVE v = None \/ v = f \/ Found(t, v)
  <2>1. ClearFrom(t, a)
    BY <1>1, <1>2, <1>9, LeapKeepsClear
  <2>2. v = None \/ v = m \/ Found(t, v)
    BY Zenon, <1>4, <2>1 DEF Sound
  <2>3. Unenclosed(t, b)
    <3> SUFFICES ASSUME NEW j \in 1 .. b - 1, Brace(t, j) PROVE Clear(t, j, b)
      BY Zenon DEF Unenclosed
    <3>1. j \in 1 .. c - 1 \/ j \in c .. b - 1
      <4>1. b \in c .. n /\ c \in Nat \ {0}
        BY Zenon, <1>1
      <4> HIDE DEF n
      <4> QED
        BY <1>5, <4>1
    <3> QED
      BY Zenon, <1>1, <1>9, <3>1 DEF ClearFrom
  <2>4. v = d => Found(t, v)
    BY Zenon, <1>1, <2>3 DEF Found, d
  <2> QED
    BY Zenon, <1>6, <2>2, <2>4
<1>10. ASSUME NEW i \in c .. n, Brace(t, i), Closed(t, i) PROVE AsGrave(v, Evidence(t, i))
  <2>1. CASE i = b
    BY Zenon, <1>8, <2>1 DEF d
  <2>2. CASE i # b
    <3>1. b \in 1 .. i - 1
      <4>1. b \in c .. n /\ c \in Nat \ {0} /\ i \in c .. n /\ ~ (i \in c .. b - 1)
        BY Zenon, <1>1, <1>10
      <4> HIDE DEF n
      <4> QED
        BY <1>5, <2>2, <4>1
    <3>2. Extent(t, b) \in 1 .. i - 1
      BY Zenon, <1>1, <1>10, <3>1 DEF Closed
    <3>3. i \in a .. n
      <4> DEFINE x == Extent(t, b)
                 y == EndOfLine(t, b)
      <4>1. x \in 1 .. i - 1 /\ ((x # 0 /\ a = x + 1) \/ (x = 0 /\ a = y) \/ a = b + 1)
        BY Zenon, <1>2, <3>2 DEF Leaps
      <4>2. i \in c .. n /\ c \in Nat \ {0} /\ b \in 1 .. n
        BY Zenon, <1>1
      <4> HIDE DEF x, y, n
      <4> QED
        BY <1>5, <3>1, <4>1, <4>2
    <3> QED
      BY Zenon, <1>4, <1>10, <3>3 DEF Sound
  <2> QED
    BY Zenon, <2>1, <2>2
<1> QED
  BY Zenon, <1>8, <1>9, <1>10 DEF Sound

\* The scan of a whole text is sound, from any cursor on.
LEMMA ScanSound ==
    ASSUME NEW t \in Seq(Symbols)
    PROVE  \A c \in 1 .. Len(t) + 1 : \A f \in Diagnostics :
               Sound(t, c, f, ScanOf(t, TRUE)[c][f].found)
<1> DEFINE n == Len(t) + 1
           g == ScanOf(t, TRUE)
           S == {c \in 1 .. n : \A f \in Diagnostics : Sound(t, c, f, g[c][f].found)}
<1>1. n \in Nat
  OBVIOUS
<1>2. ASSUME NEW c \in 1 .. n, \A k \in c + 1 .. n : k \in S PROVE c \in S
  <2>1. ASSUME NEW f \in Diagnostics PROVE Sound(t, c, f, g[c][f].found)
    <3> DEFINE b == NextBrace(t, c)
               a == After(t, b, TRUE)
               m == Merge(f, Evidence(t, b))
               r == g[c][f]
    <3>0. c \in Nat \ {0}
      BY <1>1
    <3>1. ScanCased(t, TRUE, g, c, f, r)
      BY ScanStep
    <3>2. CASE BracesFrom(t, c) = {}
      <4>1. r = [pending |-> <<>>, found |-> f]
        BY Zenon, <3>1, <3>2 DEF ScanCased
      <4>2. r.found = f
        <5> HIDE DEF r
        <5> QED
          BY <4>1, FoundOf
      <4>3. Sound(t, c, f, f)
        BY <3>0, <3>2, SoundNowhere
      <4> QED
        BY Zenon, <4>2, <4>3
    <3>3. CASE BracesFrom(t, c) # {}
      <4>1. b \in 1 .. Len(t)
        BY <3>0, <3>3, BraceNext
      <4>2. a # b
        <5>1. Leaps(t, b, a)
          BY <4>1, BraceLeaps
        <5>2. a \in b + 1 .. Len(t) + 1
          BY Zenon, <5>1 DEF Leaps
        <5> HIDE DEF a, b
        <5> QED
          BY <4>1, <5>2
      <4>3. r = g[a][m]
        BY Zenon, <3>1, <3>3, <4>2 DEF ScanCased
      <4>4. a \in c + 1 .. n
        BY <3>3, <4>2, CursorMoves
      <4>5. m \in Diagnostics
        <5>1. Evidence(t, b) \in Diagnostics
          <6> HIDE DEF b
          <6> QED
            BY <4>1, EvidenceTyped
        <5> QED
          BY Zenon, <5>1, FoundTyped
      <4>6. Sound(t, a, m, g[a][m].found)
        BY Zenon, <1>2, <4>4, <4>5
      <4> DEFINE v == r.found
      <4>7. Sound(t, a, m, v)
        BY Zenon, <4>3, <4>6
      <4>8. v \in Diagnostics
        <5>1. r \in Scans
          BY ScanTyped
        <5> HIDE DEF r
        <5> QED
          BY <5>1 DEF Scans
      <4> HIDE DEF v
      <4>9. Sound(t, c, f, v)
        BY <3>0, <3>3, <4>7, <4>8, SoundBefore
      <4> QED
        BY Zenon, <4>9 DEF v
    <3> QED
      BY Zenon, <3>2, <3>3
  <2> QED
    BY Zenon, <2>1
<1>3. \A c \in 1 .. n : c \in S
  <2> HIDE DEF S, n
  <2> QED
    BY <1>1, <1>2, Descending
<1> QED
  BY Zenon, <1>3

\* What the scan of a whole text finds.
LEMMA WholeScan ==
    ASSUME NEW t \in Seq(Symbols), NEW v, v = Scan(t, TRUE, None).found
    PROVE  /\ v = None \/ Found(t, v)
           /\ \A i \in 1 .. Len(t) : Brace(t, i) /\ Closed(t, i) => AsGrave(v, Evidence(t, i))
<1>1. 1 \in 1 .. Len(t) + 1
  OBVIOUS
<1>2. v = ScanOf(t, TRUE)[1][None].found
  BY Zenon DEF Scan
<1>3. Sound(t, 1, None, ScanOf(t, TRUE)[1][None].found)
  BY Zenon, <1>1, FoundTyped, ScanSound
<1>4. ClearFrom(t, 1)
  <2>1. 1 .. 1 - 1 = {}
    OBVIOUS
  <2> QED
    BY Zenon, <2>1 DEF ClearFrom
<1> QED
  BY Zenon, <1>2, <1>3, <1>4 DEF Sound

\* A verdict rests on a document that no brace encloses, but for those that the scan
\* has passed, and is at least as grave as any document before which every brace is closed.
THEOREM EvidenceAtTopLevel == OutputSpec => []EvidenceIsTopLevel
<1>1. ASSUME OutputInv, Observes PROVE EvidenceIsTopLevel
  <2> DEFINE t == Text
             Braces(i) == {j \in 1 .. i - 1 : t[j] = "{"}
             documents == {i \in DOMAIN t : t[i] = "{" /\ Evidence(t, i) # None}
             Passed(j, i) == \E k \in Braces(j) :
                \/ Extent(t, k) \in j .. i - 1
                \/ Extent(t, k) = 0 /\ EndOfLine(t, k) \in j + 1 .. i
  <2> SUFFICES ASSUME Judged, ~ Stray(t)
               PROVE  /\ verdict # None => \E i \in documents :
                            /\ Evidence(t, i) = verdict
                            /\ \A j \in Braces(i) : Extent(t, j) < i \/ Passed(j, i)
                      /\ failed => \A i \in documents :
                            (\A j \in Braces(i) : Extent(t, j) \in 1 .. i - 1)
                            => Priority(verdict) >= Priority(Evidence(t, i))
    BY Zenon DEF EvidenceIsTopLevel
  <2>1. verdict = IF failed THEN Scan(t, TRUE, None).found ELSE None
    BY Zenon, <1>1 DEF Observes, VerdictOfBytes
  <2>2. t \in Seq(Symbols)
    <3> DEFINE x == script["err"]
    <3>1. x \in Seq(Symbols) /\ "err" \in Streams
      BY <1>1 DEF Observes, Judged, Streams
    <3>2. printed["err"] \in Nat /\ printed["err"] <= Len(x) /\ Len(x) \in Nat
      BY <1>1, <3>1 DEF OutputInv, OutputTyped, OutputTypeOK
    <3>3. t = SubSeq(x, 1, printed["err"])
      BY DEF Text
    <3> HIDE DEF x, t
    <3> QED
      BY <3>1, <3>2, <3>3
  <2>3. DOMAIN t = 1 .. Len(t)
    <3> HIDE DEF t
    <3> QED
      BY <2>2
  <2> HIDE DEF t
  <2>4. ASSUME failed
        PROVE  /\ verdict = None \/ Found(t, verdict)
               /\ \A i \in 1 .. Len(t) : Brace(t, i) /\ Closed(t, i) => AsGrave(verdict, Evidence(t, i))
    <3>1. verdict = Scan(t, TRUE, None).found
      BY Zenon, <2>1, <2>4
    <3> QED
      BY <2>2, <3>1, WholeScan
  <2>5. ASSUME verdict # None
        PROVE  \E i \in documents :
                   /\ Evidence(t, i) = verdict
                   /\ \A j \in Braces(i) : Extent(t, j) < i \/ Passed(j, i)
    <3>1. failed
      BY Zenon, <2>1, <2>5
    <3>2. PICK i \in 1 .. Len(t) : Brace(t, i) /\ Evidence(t, i) = verdict /\ Unenclosed(t, i)
      BY Zenon, <2>4, <2>5, <3>1 DEF Found
    <3>3. i \in documents
      BY Zenon, <2>3, <2>5, <3>2 DEF Brace
    <3>4. ASSUME NEW j \in Braces(i) PROVE Extent(t, j) < i \/ Passed(j, i)
      <4>1. Clear(t, j, i)
        BY Zenon, <3>2 DEF Unenclosed, Brace
      <4> QED
        BY Zenon, <4>1 DEF Clear, PassedBy, Brace
    <3> QED
      BY Zenon, <3>2, <3>3, <3>4
  <2>6. ASSUME failed, NEW i \in documents, \A j \in Braces(i) : Extent(t, j) \in 1 .. i - 1
        PROVE  Priority(verdict) >= Priority(Evidence(t, i))
    <3>1. i \in 1 .. Len(t) /\ Brace(t, i) /\ Closed(t, i)
      BY Zenon, <2>3, <2>6 DEF Brace, Closed
    <3> QED
      BY Zenon, <2>4, <2>6, <3>1 DEF AsGrave
  <2> QED
    BY Zenon, <2>5, <2>6
<1> QED
  BY <1>1, OutputInvariant, ObservesStart, ObservesKept, PTL DEF OutputSpec
=============================================================================
