SPECIFICATION Spec
CONSTANTS
    g = g
    a = a
    b = b
    c = c
    w = w
    hg = hg
    ha = ha
    hb = hb
    hw = hw
    h0 = h0
    Tx <- MCTx
    Hash <- MCHash
    TxHash <- MCTxHash
    Inputs <- MCInputs
    Outputs <- MCOutputs
    Blocks <- MCBlocks
    CacheCapacity = 3
    MempoolCapacity = 2
    Word = 8
    IndexWord = 2
    NoCoin = NoCoin
    NoRecord = NoRecord
    FallOff = {"true", "false", "proceed", "trap"}
    MaxStored = 2
CHECK_DEADLOCK FALSE
INVARIANTS
    TypeOK
    ValidationExact
    CacheBacked
    CacheSizeExact
    MempoolBounded
