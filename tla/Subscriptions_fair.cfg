\* Two streams at two nodes, which may give out the same id.
SPECIFICATION FairSpec
CONSTANTS
    s1 = s1
    s2 = s2
    n1 = n1
    Streams = {s1, s2}
    Nodes = {n1, n2}
    Reach <- MCReach
    Ids = {i1, i2}
    MaxEvents <- MCEvents
    None = None
    Decodes = {TRUE, FALSE}
INVARIANTS
    TypeOK
    Contiguous
    OnceInOrder
    NoLostWakeup
PROPERTIES
    SubscriptionSettles
    EventsYielded
\* Streams never end; a task that nothing wakes is at rest.
CHECK_DEADLOCK FALSE
