SPECIFICATION Spec
CONSTANTS
    Nodes = {n1, n2, n3}
    Null = Null
    MaxLen = 3
SYMMETRY NodeSymmetry
CHECK_DEADLOCK FALSE
INVARIANT SizesTell
