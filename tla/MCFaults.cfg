\* The audit with two users, two subnets, three open calls, and any callee failing.
CONSTANTS
    s1 = s1
    s2 = s2
    c1 = c1
    c2 = c2
    t1 = t1
    t2 = t2
    t3 = t3
    None = None
    Anonymous = Anonymous
    User <- TwoUsers
    Subnet <- TwoSubnets
    Condition <- TwoConds
    Task <- ThreeTasks
    Prices = {4}
    Deposits = {4}
    DEFAULT_FEE = 1
    LOCK_PARTS = 2
    LOCK_PERIOD_DAYS = 1
    GovernanceSerializes = TRUE
    Faulty <- AllFaults
    MaxDeposited <- OnePayment
    MaxDay = 1
    MaxLockingRuns = 2
SPECIFICATION AuditSpec
SYMMETRY Symmetry
INVARIANTS
    TypeOK
    LocksOwned
    HistoryTellsState
    WhitelistMatches
    EveryCycleAccounted
    RequestCovered
