SPECIFICATION FairSpec
CONSTANTS
    Events = {1, 2}
    Destinations = {1}
    Workers <- AttemptAndSweep
    BatchSize = 1
    Nobody = Nobody
INVARIANTS
    TypeOK
    DeliveredWasAccepted
    DuplicatesNeedAFault
    SummaryCountsOwnDeliveries
    SweepAttemptsOnce
PROPERTIES
    DeliveredRowsAreFinal
    LiveLeasesAreRespected
    WorkersEnd
CHECK_DEADLOCK FALSE
