SPECIFICATION Spec
CONSTANTS
    ProbeTTL = 3
    TransientBackoff = 1
    DefaultRetry = 2
    MinRetry = 1
    MaxRetry = 3
    None = None
    Time <- MCTime
    Retries <- MCRetries
INVARIANTS
    RejectionKept
PROPERTIES
    WindowNeverExtended
    FreshAfterRefresh
