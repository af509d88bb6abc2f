\* Three blocks, a queue of three; every block is answered, some after five seconds.
SPECIFICATION AnsweredSpec
CONSTANTS
    From = 0
    To = 2
    buffer_size = 1
    batch_size = 3
    Results = {"some"}
    Slow = TRUE
PROPERTIES
    StreamCompletes
\* A stream that has ended is at rest.
CHECK_DEADLOCK FALSE
