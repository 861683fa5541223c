CONSTANTS
    g = g
    a1 = a1
    a2 = a2
    b2 = b2
    t1 = t1
    t2 = t2
    t3 = t3
    ZeroHash = ZeroHash
    Blocks <- MCBlocks
    BlockNumber <- MCBlockNumber
    Genesis = g
    Txs <- MCTxs
    Body <- MCBody
    Indices <- MCIndices
    Outcomes <- MCOutcomes
VIEW MCView
SPECIFICATION RpcSpec

PROPERTIES
    IgnoredUpdateChangesNothing
    AppliedMeansRequested
    CanonicalChainSpec
