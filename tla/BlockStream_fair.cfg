\* Four blocks, a queue of three, every kind of answer, slow ones and none at all.
SPECIFICATION FairSpec
CONSTANTS
    From = 1
    To = 4
    buffer_size = 1
    batch_size = 3
    Results = {"some", "none", "err", "unnumbered"}
    Slow = TRUE
INVARIANTS
    TypeOK
    EndsComplete
    QueueBound
    AtMostTwice
PROPERTIES
    EndsOrWaits
\* A stream whose consumer has stopped, or whose task is not woken, is at rest.
CHECK_DEADLOCK FALSE
