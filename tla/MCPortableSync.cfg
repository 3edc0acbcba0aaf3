SPECIFICATION Spec
CONSTANTS
    A = A  B = B  pa = pa  pb = pb  x = x  y = y  cred1 = cred1  cred2 = cred2
    Machine <- MCMachine
    Proc <- MCProc
    Host <- MCHost
    Id <- MCId
    Cred <- MCCred
    NoId = NoId
    NoBundle = NoBundle
    NoMark = NoMark
    NoCmd = NoCmd
    Ttl = 0
    Skew = 1
    MaxClock = 2
    MaxGen = 4
    MaxEdits = 2
SYMMETRY Symmetry
INVARIANTS
    DeletionHolds
    RefusedPushCanPull
PROPERTIES
    SeenBeforeReplaced
    AccountsKept
CHECK_DEADLOCK FALSE
