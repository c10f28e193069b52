\* Two users, of whom the second may be overtaken by a locking: every conversion is
\* followed through requests, agreements and calls, with a CMC that may fail to mint.
CONSTANTS
    s1 = s1
    s2 = s2
    c1 = c1
    c2 = c2
    t1 = t1
    t2 = t2
    t3 = t3
    None = None
    Anonymous = Anonymous
    User <- TwoUsers
    Subnet <- OneSubnet
    Condition <- TwoConds
    Task <- TwoTasks
    Prices = {4}
    Deposits = {4}
    DEFAULT_FEE = 1
    LOCK_PARTS = 2
    LOCK_PERIOD_DAYS = 1
    GovernanceSerializes = TRUE
    Faulty = {"notify"}
    MaxDeposited <- FirstPaysOnce
    MaxDay = 1
    MaxLockingRuns = 2
SPECIFICATION AuditSpec
SYMMETRY Symmetry
VIEW AuditView
INVARIANTS
    EveryCycleAccounted
    LocksCurrent
    RequestCovered
    ConversionsFunded
    LockingPaced
