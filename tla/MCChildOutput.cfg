SPECIFICATION OutputSpec
CONSTANTS
    Errors <- MCErrors
    ErrorOf <- MCErrorOf
    CommandLines <- MCCommandLines
    NativeScripts <- MCNativeScripts
    Texts <- MCTexts
    MaxWords = 4
    MaxDiagnostic = 5
    PipeSize = 2
    MaxChunk = 2
    MaxPreamble = 3
    MaxScan = 3
    TailSize = 1
    MaxFaults = 1
INVARIANTS
    ArgsForwarded
    NoContinueInjected
    MarkerWithheld
    OutputComplete
    VerdictOfBytes
    EvidenceIsTopLevel
    NeverStuck
CHECK_DEADLOCK FALSE
