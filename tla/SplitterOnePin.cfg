SPECIFICATION FairSpec
CONSTANTS
    NumPins = 1
    MaxPackets = 0
    MinPackets = 0
    FileLength = 1
    MaxStarts = 2
    MaxSeeks = 2
    MaxStops = 1
    DownFails = {TRUE, FALSE}
CHECK_DEADLOCK FALSE
INVARIANTS TypeOK SegmentKnown PinsAlive
PROPERTIES NoGap StreamsEnd SeekReturns StopReturns
