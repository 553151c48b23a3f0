\* A second attempt is cut off by the lease of the first (violation).
SPECIFICATION Spec
CONSTANTS
    N = 1
    Copy = {1}
    Slot = {1}
    MaxRetries = 1
    MaxPending = 1
    MaxConcurrent = 1
    Fanout = 1
    MaxCrashes = 0
    MaxReplays = 0
    PromptLoop = TRUE
PROPERTY LeaseCoversAttempt
CHECK_DEADLOCK FALSE
