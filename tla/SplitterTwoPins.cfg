SPECIFICATION Spec
CONSTANTS
    NumPins = 2
    MaxPackets = 1
    MinPackets = 1
    FileLength = 1
    MaxStarts = 1
    MaxSeeks = 1
    MaxStops = 0
    DownFails = {FALSE}
CHECK_DEADLOCK FALSE
INVARIANT FewStale
PROPERTY InOrder
