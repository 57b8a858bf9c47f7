SPECIFICATION FairSpec
CONSTANTS
    c1 = c1
    c2 = c2
    Calls = {c1, c2}
    Mixes <- MCMixes
    PoolSize = 1
    Offers <- MCOffers
    InitialOffers <- MCInitialOffers
    SellerOf <- MCSellerOf
    BondOf <- MCBondOf
    Presented <- MCPresented
    Times = {2, 9}
    MaxMoments = 4
    MaximumAge = 2
    ClockSkew = 1
INVARIANTS
    TypeOK
    ListsShowOneMoment
    OutcomesRecordedOnce
    ShutdownIsOrderly
PROPERTIES
    NothingHangs
CHECK_DEADLOCK FALSE
