SPECIFICATION MCSpec
CONSTANTS
    p1 = p1  p2 = p2
    Proc <- MCProc
    Own = own
    Imports = {sync}
    Nobody = Nobody
    None = None
    NoEntry = NoEntry
    MaxCommands = 3
    MaxTurns = 2
INVARIANTS
    ShownIsCurrent
    ImportResolvable
PROPERTIES
    RemoteKept
    TurnsMeasured
    SessionReturns
CHECK_DEADLOCK FALSE
