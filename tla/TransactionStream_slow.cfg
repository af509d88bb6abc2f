\* Three transactions, a queue of four; each is answered, some after five seconds.
SPECIFICATION Spec
CONSTANTS
    Total = 3
    buffer_size = 2
    batch_size = 2
    Results = {"some"}
    Slow = TRUE
INVARIANTS
    EndsDelivered
\* A stream that has ended is at rest.
CHECK_DEADLOCK FALSE
