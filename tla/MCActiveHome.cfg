CONSTANTS
    p1 = p1
    p2 = p2
    t1 = t1
    t2 = t2
    acc1 = acc1
    acc2 = acc2
    tokenA = tokenA
    documentB = documentB
    foreign = foreign
    Proc <- MCProc
    Tx <- MCTx
    Account <- MCAccount
    Owned <- MCOwned
    Foreign <- MCForeign
    Absent = Absent
    NoProfile = NoProfile
    NoJournal = NoJournal
    NoJob = NoJob
    Nobody = Nobody
    MaxGen = 3
    MaxFaults = 2
SPECIFICATION Spec
SYMMETRY MCSymmetry
INVARIANTS
    HomeAgrees
    PendingDecided
PROPERTIES
    ForeignKept
