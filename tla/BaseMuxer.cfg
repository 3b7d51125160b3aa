SPECIFICATION FairSpec
CONSTANTS
    NumPins = 2
    MAXQUEUESIZE = 1
    Times <- MCTimes
    NoTime = NoTime
    Samples <- MCSamples
    MuxFails = TRUE
    MaxEvents = 3
CHECK_DEADLOCK FALSE
INVARIANT TypeOK
PROPERTIES InOrder  Finishes
