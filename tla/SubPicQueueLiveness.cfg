SPECIFICATION FairSpec
CONSTANTS
    Providers = {p1}
    NoProvider = NoProvider
    Nothing = Nothing
    Timelines <- KaraokeOnly
    SeekTimes = {8}
    InvalidateTimes = {4}
    Rates <- FilmRate
    nSize = 2
    LookAhead = 12
    UnknownTime = 99
    bDisableAnim = FALSE
    bAllowDropping = FALSE
    AllocFails = FALSE
    MaxOps = 3
CHECK_DEADLOCK FALSE
PROPERTIES  DestructorReturns
