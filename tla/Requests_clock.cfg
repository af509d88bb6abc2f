\* Two single calls over a clock of five seconds, an expiry of two, fair threads.
SPECIFICATION FairSpec
CONSTANTS
    a = a
    b = b
    m = m
    Calls = {a, b}
    Batch = {}
    Size <- MCSize
    Epoch = 3
    LastIssue = 5
    Expiry = 2
    MaxId = 2
    Notes = {1, 2}
INVARIANTS
    TrackedUntilResolved
PROPERTIES
    EveryRequestResolves
