CONSTANTS
    DepositBlock <- MCDepositBlock
    MaxL1Block = 4
    MaxBlockStep = 2
    MaxEmptyBlocks = 3
    MaxRestarts = 2
    MaxAddFailures = 2
    RpcMayLag = FALSE
SPECIFICATION Spec
INVARIANT NoDepositSkipped
PROPERTY CatchesUp
