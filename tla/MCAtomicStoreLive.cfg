\* One process (the lock excludes the others), no crash, three failing system
\* calls and one write that bypasses the lock:
\* the deepest reconciliation, and recovery conflicts.
CONSTANTS
    Proc = {p1}
    Doc = {d1, d2}
    Tx = {t1, t2}
    Missing = Missing
    Torn = Torn
    NoJournal = NoJournal
    Nobody = Nobody
    NoTx = NoTx
    NoJob = NoJob
    NoCall = NoCall
    MaxCrashes = 0
    MaxFaults = 3
    MaxForeign = 1
SPECIFICATION FairSpec
PROPERTIES
    CallsReturn
