SPECIFICATION FairSpec
CONSTANTS
    Approvals <- MCApprovals
    Requests = {r1, r2}
    Tenants <- MCTenants
    Actors <- MCActors
    OwnerOf <- MCOwnerOf
    AdminDecisions <- MCAdminDecisions
    Window = 1
    DecidedTTL = 1
    SweepPeriod = 1
    MaxTime = 3
INVARIANTS
    TypeOK
    AcceptedInWindow
    TimeoutOnlyAfterWindow
    CacheDecisionWasRecorded
    ExecutionsAccounted
PROPERTIES
    ExecutionWasApproved
    KeepsPromise
    EventuallyDecided
