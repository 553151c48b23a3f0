\* Deaths, timeouts, double decisions, expiry and cancellation.
SPECIFICATION FairSpec
CONSTANTS
    Steps = 2
    Gated = {0}
    MaxApr = 2
    MaxRuns = 5
    MaxStarts = 0
    MaxCommands = 2
    MaxRetries = 2
    MaxCrashes = 1
    MaxTimeouts = 1
    MaxStale = 0
    PromptLoop = FALSE
INVARIANTS
    ResumeOnce
    RecordedIsTrue
    ResumesAfterGate
    RepeatsArePaid
PROPERTIES
    ApprovalPromise
    IntentIsKept
\* The item may end, or wait for a user for ever.
CHECK_DEADLOCK FALSE
