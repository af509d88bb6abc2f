\* Two workers, two senders, three texts, two socket threads that end.
SPECIFICATION Spec
CONSTANTS
    w1 = w1
    w2 = w2
    s1 = s1
    s2 = s2
    Workers = {w1, w2}
    Connected <- MCConnected
    Senders = {s1, s2}
    MaxSends = 3
    MaxDeaths = 2
INVARIANTS
    StatusAnswered
\* A dropped client whose sentinel has panicked is at rest.
CHECK_DEADLOCK FALSE
