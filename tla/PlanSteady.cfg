\* No death, and no dispatch that outlives its timeout.
SPECIFICATION Spec
CONSTANTS
    Steps = 4
    Gated = {1, 2}
    MaxApr = 2
    MaxRuns = 6
    MaxStarts = 1
    MaxCommands = 3
    MaxRetries = 1
    MaxCrashes = 0
    MaxTimeouts = 2
    MaxStale = 0
    PromptLoop = TRUE
INVARIANTS
    TypeOK
    CompletedMeansDone
PROPERTIES
    StepsInOrder
    CancelledIsFinal
\* The item may end, or wait for a user for ever.
CHECK_DEADLOCK FALSE
