CONSTANTS
    g = g
    a1 = a1
    a2 = a2
    b2 = b2
    ZeroHash = ZeroHash
    Blocks <- MCBlocks
    BlockNumber <- MCBlockNumber
    Genesis = g
VIEW MCView
SPECIFICATION Spec
PROPERTY ErrorLeavesForkchoiceUnchanged
