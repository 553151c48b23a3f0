\* Three mails, the first read already; pages of one; two polls at once.
SPECIFICATION FairSpec
CONSTANTS
    N = 3
    Limit = 1
    Important = {2}
    MaxRetries = 1
    MaxWork = 3
    MaxFaults = 1
INVARIANTS
    TypeOK
    NoMailSkipped
    ImportantIsFlagged
PROPERTIES
    HandledIsKept
    Syncs
\* The mailbox may be quiet.
CHECK_DEADLOCK FALSE
