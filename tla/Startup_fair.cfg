\* Three workers: one host with three connections, or three hosts with one.
SPECIFICATION FairSpec
CONSTANTS
    Total = 3
INVARIANTS
    TypeOK
    HandedOutWhole
PROPERTIES
    StartReturns
    FailedStartEndsSockets
\* A start that has ended is at rest.
CHECK_DEADLOCK FALSE
