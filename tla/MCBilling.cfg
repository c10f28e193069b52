\* Two agreements over a bit more than two days, and the end of time after that.
CONSTANTS
    target = target
    other = other
    None = None
    App13CH = App13CH
    App7CH = App7CH
    Subnet <- MCSubnet
    TARGET_SUBNET = target
    DailyCost <- MCDailyCost
    BILLION = 2
    SECONDS_PER_DAY = 3
    CYCLES_BURN_INTERVAL_SECONDS = 2
    MAX_U64 = 13
    INITIAL_RENTAL_PERIOD_DAYS = 1
    InitialCycles <- MCInitialCycles
    TopUpCycles <- MCTopUpCycles
    MaxShort = 1
    LastCreation = 0
    MaxCycles = 12
    MaxTime = 13
SPECIFICATION FairSpec
INVARIANTS
    TypeOK
    CoveredMeansFunded
    SwitchedOnce
PROPERTIES
    DeadlineKept
    TopUpDaysHonest
    AccountSpec
    PastDueDrained
