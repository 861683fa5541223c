CONSTANTS
    Radix = 3
    Keys <- MCValueBranchLeavesKeys
    v1 = v1
    v2 = v2
    Values <- MCValues
    NoValue = NoValue
    MaxNodeRef = 100000
    MaxRoots = 1
VIEW MCView
SYMMETRY MCSymmetry
SPECIFICATION Spec
PROPERTY TrieMapSpec
