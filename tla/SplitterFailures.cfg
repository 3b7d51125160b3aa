SPECIFICATION FairSpec
CONSTANTS
    NumPins = 2
    MaxPackets = 1
    MinPackets = 1
    FileLength = 4
    MaxStarts = 1
    MaxSeeks = 0
    MaxStops = 0
    DownFails = {TRUE, FALSE}
CHECK_DEADLOCK FALSE
INVARIANT QueueBounded
PROPERTY StreamsEnd
