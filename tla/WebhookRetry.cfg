SPECIFICATION FairSpec
CONSTANTS
    Deliveries <- MCDeliveries
    Sweepers = {s1, s2}
    MaxRetries = 5
    BatchLimit = 1
    MaxRevives = 2
    MaxBumps = 1
    MaxFaults = 1
CHECK_DEADLOCK FALSE
INVARIANTS
    TypeOK
    DeadLetterEarned
    PostsBounded
PROPERTIES
    EventuallyDeadLettered
