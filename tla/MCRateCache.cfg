\* Two calls open at the same time over three days; the XRC repeats its answers.
CONSTANTS
    c1 = c1
    t1 = t1
    t2 = t2
    None = None
    Failure = Failure
    Condition <- MCCondition
    DailyCost <- MCDailyCost
    Task <- MCTask
    Rate <- MCRate
    SECONDS_PER_DAY = 2
    DEFAULT_FEE = 1
    FACTOR = 10
    MAX_U64 = 2000
    MAX_U128 = 30000000
    INITIAL_RENTAL_PERIOD_DAYS = 3
    XrcRepeats = TRUE
    MaxTime = 4
SPECIFICATION FairSpec
INVARIANTS
    TypeOK
    CacheTruthful
    PriceFetchedOnce
    QuotesAgree
    RoundTrip
PROPERTIES
    RateBookSpec
    XrcGuardFreed
