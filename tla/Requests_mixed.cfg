\* Two single calls and a batch of two; ids 1..4, every call begins in the first second.
SPECIFICATION Spec
CONSTANTS
    a = a
    b = b
    m = m
    Calls = {a, b, m}
    Batch = {m}
    Size <- MCSize
    Epoch = 5
    LastIssue = 5
    Expiry = 1
    MaxId = 4
    Notes = {}
SYMMETRY MCSymmetry
INVARIANTS
    TypeOK
    OpenIffPending
    OwnAnswer
    TimeoutJustified
PROPERTIES
    ImplementsLife
