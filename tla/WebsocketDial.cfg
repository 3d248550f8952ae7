SPECIFICATION FairSpec
CONSTANTS
    Node = {1, 2}
    Dial <- Mutual
    MaxRetries = 2
    Unreliable <- Mutual
    None = None
INVARIANTS TypeOK OneAttempt Heard NoClosedClients
PROPERTY EveryDialEnds
CHECK_DEADLOCK FALSE
