\* A death behind a pending step skips that step on the retry (violation).
SPECIFICATION Spec
CONSTANTS
    Steps = 2
    Gated = {0}
    MaxApr = 1
    MaxRuns = 2
    MaxStarts = 0
    MaxCommands = 0
    MaxRetries = 1
    MaxCrashes = 1
    MaxTimeouts = 0
    MaxStale = 0
    PromptLoop = TRUE
PROPERTY StepsInOrder
CHECK_DEADLOCK FALSE
