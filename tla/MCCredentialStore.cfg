CONSTANTS
    p1 = p1
    p2 = p2
    t1 = t1
    t2 = t2
    Proc <- MCProc
    Tx <- MCTx
    Material <- MCMaterial
    Absent = Absent
    Torn = Torn
    NoRef = NoRef
    NoJob = NoJob
    Nobody = Nobody
    MaxGen = 3
    MaxFailures = 2
SPECIFICATION Spec
SYMMETRY MCSymmetry
INVARIANTS
    DriftIsJournalled
    ReferencedKept
    LegacySurvives
PROPERTIES
    RecoveryConverges
