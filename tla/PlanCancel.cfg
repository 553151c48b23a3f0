\* The dispatch of a cancelled item outlives its timeout (violation).
SPECIFICATION Spec
CONSTANTS
    Steps = 2
    Gated = {0}
    MaxApr = 1
    MaxRuns = 1
    MaxStarts = 0
    MaxCommands = 0
    MaxRetries = 1
    MaxCrashes = 0
    MaxTimeouts = 0
    MaxStale = 1
    PromptLoop = TRUE
PROPERTY CancelledIsFinal
CHECK_DEADLOCK FALSE
