SPECIFICATION Spec
CONSTANTS
    Providers = {p1}
    NoProvider = NoProvider
    Nothing = Nothing
    Timelines <- CoreTimelines
    SeekTimes = {0, 8}
    InvalidateTimes = {4}
    Rates <- TwoRates
    nSize = 2
    LookAhead = 12
    UnknownTime = 99
    bDisableAnim = FALSE
    bAllowDropping = TRUE
    AllocFails = TRUE
    MaxOps = 2
CHECK_DEADLOCK FALSE
INVARIANTS TypeOK   NoMixedQueued 
PROPERTIES ProviderPinned SearchFindsExact 
