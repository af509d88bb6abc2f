\* Five transactions, a queue of three, every kind of answer, slow ones and none at all.
SPECIFICATION FairSpec
CONSTANTS
    Total = 5
    buffer_size = 1
    batch_size = 3
    Results = {"some", "none", "err"}
    Slow = TRUE
INVARIANTS
    TypeOK
    OnePlace
PROPERTIES
    EndsOrWaits
\* A stream whose consumer has stopped, or whose task is not woken, is at rest.
CHECK_DEADLOCK FALSE
