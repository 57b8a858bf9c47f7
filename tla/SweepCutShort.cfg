SPECIFICATION Spec
CONSTANTS
    Events = {1, 2}
    Destinations = {1}
    Workers <- TwoSweeps
    BatchSize = 1
    Nobody = Nobody
INVARIANTS
    SweepAttemptsEverythingVisible
CHECK_DEADLOCK FALSE
