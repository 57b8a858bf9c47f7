SPECIFICATION FairSpec
CONSTANTS
    c1 = c1
    c2 = c2
    MaxSeriesPerRequest = 1
    Callers = {c1, c2}
    NoCall = NoCall
    Series = {1, 2}
    Requests <- MCRequests
    Values = {1, 2}
    FirstDay = 1
    LastDay = 3
    DaysPerMonth = 2
    WarmSeries = {1}
    Volatile <- MCVolatile
    MaxChanges = 1
    MaxRefreshes = 0
    MaxInterrupts = 1
INVARIANTS
    TypeOK
    RevisionsDiffer
    NoLeaseLeftBehind
    AnswersAreComplete
    RangeAnswersWereAsked
PROPERTIES
    ResponsesInOrder
    CallsEnd
