SPECIFICATION Spec
CONSTANTS
    x = x
    y = y
    NUL = NUL
    Byte = {x, y, NUL}
    BlockTexts <- MCBlockTexts
    UndoTexts <- MCUndoTexts
    MaxFileSize = 3
    Word = 5
    MaxFileNumber = 2
    MaxFileBytes = 8
    MaxIssued = 3
CHECK_DEADLOCK FALSE
INVARIANTS
    TypeOK
    ReadBack
    ReadNeverExits
    FileSizeBounded
PROPERTIES
    StoreSpec
