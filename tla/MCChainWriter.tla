--------------------------- MODULE MCChainWriter ---------------------------
(* Small instances of ChainWriter: files of 3 bytes, offsets of a word of 5. *)
EXTENDS ChainWriter

CONSTANTS x, y      \* two chars other than NUL

\* A byte, texts as large as a file, one that a NUL cuts short, and one so long
\* that the offset wraps around to 0.
MCBlockTexts == { <<x>>, <<x, y, x>>, <<NUL, y>>, <<x, x, y, y>> }
MCUndoTexts  == { <<y>>, <<x, y, y>>, <<y, x, x>> }

\* Texts of every length a file takes, none with a NUL.
PlainTexts == { <<x>>, <<x, y>>, <<y, x, y>> }
=============================================================================
