SPECIFICATION FairSpec
CONSTANTS
    Accounts = 2
    Launchers = {l1}
    Switchers = {u1}
    Nobody = Nobody
    LateEvidence = TRUE
    MaxTries = 3
    MaxCommands = 2
PROPERTIES
    CommandsReturn
