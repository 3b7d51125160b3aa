SPECIFICATION FairSpec
CONSTANTS
    Times <- TwoTimes
    EndMark = EndMark
    MaxStreams = 2
    MaxCalls = 4
CHECK_DEADLOCK FALSE
INVARIANTS TypeOK Conserved StreamKept Announced
PROPERTIES SamplesConsumed CallsReturn DestructorReturns
