SPECIFICATION Spec
CONSTANTS
    x = x
    y = y
    NUL = NUL
    Byte = {x, y, NUL}
    BlockTexts <- PlainTexts
    UndoTexts <- PlainTexts
    MaxFileSize = 3
    Word = 5
    MaxFileNumber = 2
    MaxFileBytes = 8
    MaxIssued = 3
CHECK_DEADLOCK FALSE
INVARIANT
    OffsetIsEndOfFile
