\* A batch of three requests that end in every way, or never.
SPECIFICATION FairSpec
CONSTANTS
    N = 3
    Results = {"value", "undecodable", "failure", "canceled"}
INVARIANTS
    TypeOK
    OutcomeTrue
    SleeperIsRegistered
PROPERTIES
    OutcomeStands
    FailsFast
\* A batch that has ended is at rest.
CHECK_DEADLOCK FALSE
