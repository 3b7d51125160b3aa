SPECIFICATION FairSpec
CONSTANTS
    MaxOpens = 3
    MaxSent = 2
CHECK_DEADLOCK FALSE
INVARIANTS TypeOK 
PROPERTIES  Responds Settles
