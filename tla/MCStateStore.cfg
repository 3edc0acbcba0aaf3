CONSTANTS
    b1 = b1
    b2 = b2
    p1 = p1
    p2 = p2
    t1 = t1
    t2 = t2
    Proc = {p1, p2}
    Body <- MCBody
    MaxGen = 2
    Doc <- MCDoc
    Tx = {t1, t2}
    Missing = Missing
    Torn = Torn
    NoJournal = NoJournal
    Nobody = Nobody
    NoTx = NoTx
    NoJob = NoJob
    NoView = NoView
    MaxCrashes = 1
    MaxFaults = 1
    MaxForeign = 0
SPECIFICATION SessionSpec
SYMMETRY Symmetry
INVARIANTS
    AcknowledgedCommitsSurvive
    InFlightStageSafe
PROPERTIES
    GenerationsAdvanceByOne
