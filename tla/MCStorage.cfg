SPECIFICATION Spec
CONSTANTS
    Accumulator = 1000
    Hash <- hash
    Block <- MCBlock
    UnknownHash = 1
    Residues <- MCResidues
    MaxFileSize = 300
    Window = 5
    MaxFileNumber = 3
    MaxStored = 4
    Removable <- MCRemovable
    MaxRemoved = 2
CHECK_DEADLOCK FALSE
INVARIANTS
    TypeOK
    RecordsExact
    BlocksReadBack
    UndosReadBack
    NulExact
    UndoHashesKept
    CoinRecordsExact
    HashIsSha256
    PaddingIsSha
    PartsRoundTrip
