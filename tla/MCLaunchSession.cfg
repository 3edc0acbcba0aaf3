SPECIFICATION Spec
CONSTANTS
    Accounts = 2
    Launchers = {l1, l2}
    Switchers = {u1}
    Nobody = Nobody
    LateEvidence = TRUE
    MaxTries = 3
    MaxCommands = 1
SYMMETRY Symmetry
INVARIANTS
    ChildRunsAsSelected
PROPERTIES
    CooldownsKept
    NeverSpawnedCooling
