\* A mailbox and a file.
SPECIFICATION Spec
CONSTANTS
    Sources = 2
    Box = {1}
    MaxEdits = 2
    MaxRuns = 4
    MaxFaults = 2
INVARIANTS
    TypeOK
    BriefIsCurrent
    BodiesAreRead
\* The calls may be used up.
CHECK_DEADLOCK FALSE
