SPECIFICATION FairSpec
CONSTANTS
    g = g
    a = a
    b = b
    c = c
    w = w
    hg = hg
    ha = ha
    hb = hb
    hw = hw
    h0 = h0
    Tx <- MCTx
    Hash <- MCHash
    TxHash <- MCTxHash
    Inputs <- MCInputs
    Outputs <- MCOutputs
    Blocks <- MCBlocks
    CacheCapacity = 4
    MempoolCapacity = 2
    Word = 8
    IndexWord = 2
    NoCoin = NoCoin
    NoRecord = NoRecord
    FallOff = {"false"}
    MaxStored = 1
CHECK_DEADLOCK FALSE
PROPERTY
    FlushEnds
