\* Two processes, two commits, one crash and two failing system calls.
CONSTANTS
    Proc = {p1, p2}
    Doc = {d1, d2}
    Tx = {t1, t2}
    Missing = Missing
    Torn = Torn
    NoJournal = NoJournal
    Nobody = Nobody
    NoTx = NoTx
    NoJob = NoJob
    NoCall = NoCall
    MaxCrashes = 1
    MaxFaults = 2
    MaxForeign = 0
SPECIFICATION Spec
SYMMETRY Symmetry
INVARIANTS
    JournalResolvable
    AnswersAreTrue
PROPERTIES
    ImplementsRegister
