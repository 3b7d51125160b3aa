SPECIFICATION Spec
CONSTANTS
    MaxOpens = 2
    MaxSent = 1
CHECK_DEADLOCK FALSE
INVARIANT ClosedFirst
