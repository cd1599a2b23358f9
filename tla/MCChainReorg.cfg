SPECIFICATION Spec
CONSTANTS
    G = G
    A2 = A2
    A3 = A3
    A4 = A4
    A5 = A5
    B2 = B2
    B3 = B3
    B4 = B4
    I2 = I2
    X = X
    D = D
    hz = hz
    hx = hx
    hn = hn
    Block <- MCBlock
    Genesis = G
    HashValue <- MCHashValue
    BlockHash <- MCBlockHash
    Legible <- MCLegible
    Damaged <- MCDamaged
    PrevHash <- MCPrevHash
    Txs <- MCTxs
    Window = 2
    NoInfo = NoInfo
    Garbage = {0, 1, 3, 7}
    Tx <- MCBlock
    Hash <- MCHash
    TxHash <- MCTxHash
    Inputs <- MCInputs
    Outputs <- MCOutputs
    CacheCapacity = 6
    MempoolCapacity = 1
    Word = 16
    IndexWord = 2
    NoCoin = NoCoin
    NoRecord = NoRecord
    FallOff = {"false", "trap"}
    MaxStored = 5
CHECK_DEADLOCK FALSE
INVARIANT
    UndoListsCorrespond
