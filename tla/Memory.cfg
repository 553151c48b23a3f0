\* One memory, the loop and a worker; seq up to three, three faults, a death, an import.
SPECIFICATION FairSpec
CONSTANTS
    Mem = {m1}
    Text = {a, b}
    Gone = Gone
    All = All
    Loop = Loop
    Worker = {w1}
    MaxRetries = 2
    MaxBatch = 2
    MaxEvents = 3
    MaxFaults = 3
    MaxCrashes = 1
    MaxImports = 1
    MaxRequeues = 1
INVARIANTS
    TypeOK
PROPERTIES
    CopyPromise
    Converges
\* The program may fall silent.
CHECK_DEADLOCK FALSE
