\* The locking loop works on the list of requests it read at its start.
CONSTANTS
    s1 = s1
    s2 = s2
    c1 = c1
    c2 = c2
    t1 = t1
    t2 = t2
    t3 = t3
    None = None
    Anonymous = Anonymous
    User <- TwoUsers
    Subnet <- OneSubnet
    Condition <- TwoConds
    Task <- TwoTasks
    Prices = {4}
    Deposits = {4}
    DEFAULT_FEE = 1
    LOCK_PARTS = 2
    LOCK_PERIOD_DAYS = 1
    GovernanceSerializes = TRUE
    Faulty <- NoFaults
    MaxDeposited <- OnePayment
    MaxDay = 1
    MaxLockingRuns = 2
SPECIFICATION Spec
INVARIANTS
    RemovalStopsLocking
