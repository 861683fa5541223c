CONSTANTS
    DepositBlock <- MCDepositBlock
    MaxL1Block = 3
    MaxBlockStep = 2
    MaxEmptyBlocks = 2
    MaxRestarts = 1
    MaxAddFailures = 0
    RpcMayLag = FALSE
SPECIFICATION Spec
INVARIANT MintedAtMostOnce
