CONSTANTS
    Radix = 3
    Keys <- MCFixedKeys
    v1 = v1
    v2 = v2
    Values <- MCValues
    NoValue = NoValue
    MaxNodeRef = 12
    MaxRoots = 1
SYMMETRY MCSymmetry
SPECIFICATION SpecWithRestart
INVARIANT CommittedRootsIntact
