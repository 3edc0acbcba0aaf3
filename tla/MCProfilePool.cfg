SPECIFICATION MCSpec
CONSTANTS
    Proc = {p, q}
    Profile = {a, b}
    Dir = {d1, d2, d3}
    Archive = {x1, x2}
    Nobody = Nobody
    None = None
    Nowhere = Nowhere
    MaxCommands = 3
    MaxCrashes = 1
SYMMETRY Symmetry
INVARIANTS
    SessionOwnsHome
    RemovalResolvable
PROPERTIES
    CoolingNotStarted
