\* Histories of at most six events, read two at a time while they grow.
CONSTANTS
    k1 = k1
    n1 = n1
    r1 = r1
    None = None
    NoPrincipal = NoPrincipal
    App13CH = App13CH
    App7CH = App7CH
    Key <- MCKey
    Note <- MCNote
    Reader <- MCReader
    Cost <- MCCost
    Version <- MCVersion
    DailyCost <- MCDailyCost
    PAGE_SIZE = 2
    MaxEvents = 6
    MaxTime = 2
SPECIFICATION FairSpec
INVARIANTS
    TypeOK
    Numbered
    Chronological
    ConditionsTold
    PagesContiguous
PROPERTIES
    LogSpec
    ReaderFinishes
