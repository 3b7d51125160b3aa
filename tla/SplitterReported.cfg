SPECIFICATION Spec
CONSTANTS
    NumPins = 1
    MaxPackets = 1
    MinPackets = 1
    FileLength = 1
    MaxStarts = 1
    MaxSeeks = 2
    MaxStops = 0
    DownFails = {FALSE}
CHECK_DEADLOCK FALSE
INVARIANT FlushNotReported
