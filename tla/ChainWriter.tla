---------------------------- MODULE ChainWriter ----------------------------
(***************************************************************************)
(* File I/O of block and undo-block data: class ChainWriter.               *)
(*                                                                         *)
(* The writer keeps two streams of numbered files, one of blocks and one   *)
(* of undo blocks, and for each the number of its current file and the     *)
(* offset, as it believes, of the end of that file.  A write appends to    *)
(* the current file and returns a FileInfo; a read of a FileInfo returns   *)
(* the bytes between its two offsets.                                      *)
(***************************************************************************)
EXTENDS Integers, Sequences, FiniteSets

CONSTANTS
    Byte,           \* the values of a char
    NUL,            \* the char that ends a C string
    BlockTexts,     \* serialized blocks handed to the writer
    UndoTexts,      \* serialized undo blocks handed to the writer
    MaxFileSize,    \* _max_block_file_size and _max_undo_file_size: 1000
    Word,           \* 2^16: the offsets and the file numbers are uint16_t
    MaxFileNumber,  \* bound: the last file a stream may reach
    MaxFileBytes,   \* bound: the bytes the disk takes in one file
    MaxIssued       \* bound: FileInfos the writes of a behaviour may issue

ASSUME ByteAssumption == NUL \in Byte
ASSUME TextAssumption == BlockTexts \subseteq Seq(Byte) /\ UndoTexts \subseteq Seq(Byte)
ASSUME SizeAssumption == /\ MaxFileSize \in Nat /\ Word \in Nat /\ MaxFileSize + 1 < Word
                         /\ MaxFileNumber \in Nat /\ MaxFileNumber < Word
                         /\ MaxFileBytes \in Nat /\ MaxIssued \in Nat

VARIABLES
    blocks,     \* the stream of blocks_<number>.data: files, number, offset
    undos,      \* the stream of undo_blocks_<number>.data
    intact,     \* history: no restart, and no text too long for a uint16_t offset
    issued      \* history: every FileInfo returned, with the text written

vars == <<blocks, undos, intact, issued>>

FileNumber == 0 .. MaxFileNumber
Offset     == 0 .. Word - 1
Texts      == BlockTexts \cup UndoTexts
Stream     == [files : [FileNumber -> Seq(Byte)], number : FileNumber, offset : Offset]
FileInfo   == [stream : {"block", "undo"}, number : FileNumber, start : Offset, end : Offset]
Entry      == [info : FileInfo, text : Texts, intact : BOOLEAN]

----------------------------------------------------------------------------
(* Writing. *)

\* A text as a C string: its chars and a NUL.
CString(text) == Append(text, NUL)

\* (Mutant: the NUL is left out of the buffer.)
CharBlockBare(text) == { text }

\* What char_block[n + 1] can hold after strcpy: the text up to its first NUL;
\* the chars behind it were never initialised, and may be any.
CharBlock(text) ==
    { chars \in [1 .. Len(text) + 1 -> Byte] :
        \A i \in DOMAIN chars :
            (\A j \in 1 .. i - 1 : text[j] # NUL) => chars[i] = CString(text)[i] }

\* (Mutant: the test forgets the text.)
RollsOverLate(s, text) == s.offset > MaxFileSize
RollsOver(s, text)     == s.offset + Len(text) > MaxFileSize

\* (Mutant: the offset is reset and the file stays the same.)
WriteNumberStays(s, text) == s.number
WriteNumber(s, text) == IF RollsOver(s, text) THEN s.number + 1 ELSE s.number
WriteStart(s, text)  == IF RollsOver(s, text) THEN 0 ELSE s.offset

\* (Mutants: the offset does not count the NUL; it does not wrap around.)
NewOffsetShort(s, text) == (WriteStart(s, text) + Len(text)) % Word
NewOffsetWide(s, text)  == WriteStart(s, text) + Len(text) + 1
NewOffset(s, text)      == (WriteStart(s, text) + Len(text) + 1) % Word

\* There is a file left to write to, and room in it (the bounds).
Fits(s, text) ==
    /\ Cardinality(issued) < MaxIssued
    /\ WriteNumber(s, text) <= MaxFileNumber
    /\ Len(s.files[WriteNumber(s, text)]) + Len(text) < MaxFileBytes

\* The states stream s can be in after a write of text.  The file is opened
\* for appending: the bytes go to its end, wherever the offset points.
Appended(s, text) ==
    { [files  |-> [s.files EXCEPT ![WriteNumber(s, text)] = @ \o chars],
       number |-> WriteNumber(s, text),
       offset |-> NewOffset(s, text)] : chars \in CharBlock(text) }

WrittenInfo(name, s, text) ==
    [stream |-> name,
     number |-> WriteNumber(s, text),
     start  |-> WriteStart(s, text),
     end    |-> (WriteStart(s, text) + Len(text)) % Word]

\* A text for which offset + n + 1 does not wrap around.
Short(text) == Len(text) + 1 < Word

WriteBlock(b) ==
    /\ Fits(blocks, b)
    /\ blocks' \in Appended(blocks, b)
    /\ intact' = (intact /\ Short(b))
    /\ issued' = issued \cup { [info   |-> WrittenInfo("block", blocks, b),
                                text   |-> b,
                                intact |-> intact'] }
    /\ UNCHANGED undos

WriteUndoBlock(u) ==
    /\ Fits(undos, u)
    /\ undos' \in Appended(undos, u)
    /\ intact' = (intact /\ Short(u))
    /\ issued' = issued \cup { [info   |-> WrittenInfo("undo", undos, u),
                                text   |-> u,
                                intact |-> intact'] }
    /\ UNCHANGED blocks

\* store_block writes both; the record it returns holds both FileInfos.
StoreBlock(b, u) ==
    /\ Fits(blocks, b) /\ Fits(undos, u)
    /\ blocks' \in Appended(blocks, b)
    /\ undos' \in Appended(undos, u)
    /\ intact' = (intact /\ Short(b) /\ Short(u))
    /\ issued' = issued \cup { [info   |-> WrittenInfo("block", blocks, b),
                                text   |-> b,
                                intact |-> intact'],
                               [info   |-> WrittenInfo("undo", undos, u),
                                text   |-> u,
                                intact |-> intact'] }

\* A new process on the same data directory: the files stay, the constructor
\* sets the file numbers and the offsets to 0.
Constructed(s) == [s EXCEPT !.number = 0, !.offset = 0]

Restart ==
    /\ blocks' = Constructed(blocks)
    /\ undos' = Constructed(undos)
    /\ intact' = FALSE
    /\ UNCHANGED issued

----------------------------------------------------------------------------
(* Reading.  The process exits with 2 when malloc fails, which it does for *)
(* a negative size, and with 3 when the file ends too early.               *)

FileOf(info) ==
    IF info.stream = "block" THEN blocks.files[info.number] ELSE undos.files[info.number]

Read(info) ==
    CASE info.end < info.start ->
            [status |-> "exit 2", text |-> <<>>]
      [] info.end >= info.start /\ info.end > Len(FileOf(info)) ->
            [status |-> "exit 3", text |-> <<>>]
      [] OTHER ->
            [status |-> "ok", text |-> SubSeq(FileOf(info), info.start + 1, info.end)]

----------------------------------------------------------------------------
NewStream == [files |-> [k \in FileNumber |-> <<>>], number |-> 0, offset |-> 0]

Init ==
    /\ blocks = NewStream
    /\ undos = NewStream
    /\ intact = TRUE
    /\ issued = {}

Next ==
    \/ \E b \in BlockTexts : WriteBlock(b)
    \/ \E u \in UndoTexts : WriteUndoBlock(u)
    \/ \E b \in BlockTexts, u \in UndoTexts : StoreBlock(b, u)
    \/ Restart

Spec == Init /\ [][Next]_vars

----------------------------------------------------------------------------
(* Properties. *)

\* Every variable has its type: offsets and file numbers stay within 16 bits
\* and the issued FileInfos name files of the store.
TypeOK ==
    /\ blocks \in Stream
    /\ undos \in Stream
    /\ intact \in BOOLEAN
    /\ issued \subseteq Entry

NulFree(text) == \A i \in DOMAIN text : text[i] # NUL

\* What is written is what is read (ChainWriter.md: read_block returns the
\* serialized block): a NUL-free text written while the offsets were intact
\* reads back as written, whatever is written after it, over any rollover and
\* across any later restart.
ReadBack ==
    \A e \in issued :
        e.intact /\ NulFree(e.text) => Read(e.info) = [status |-> "ok", text |-> e.text]

\* No read of a FileInfo the writer returned ends the process: not after a
\* wrapped offset, not after a restart, not for a text with NULs
\* (read_block and read_undo_block call exit(2) and exit(3)).
ReadNeverExits == \A e \in issued : Read(e.info).status = "ok"

\* A file overshoots the maximum by at most the terminating NUL: the rollover
\* test adds n where n + 1 bytes are written.  It needs texts that fit a file
\* and offsets no restart has reset.
FileSizeBounded ==
    intact /\ (\A e \in issued : Len(e.text) <= MaxFileSize) =>
        \A k \in FileNumber : /\ Len(blocks.files[k]) <= MaxFileSize + 1
                              /\ Len(undos.files[k]) <= MaxFileSize + 1

\* The intact part of the store, as the abstract store sees it: under every
\* FileInfo, what was written and what is read.
Contents ==
    { [key |-> e.info, value |-> [written |-> e.text, read |-> Read(e.info)]] :
      e \in {f \in issued : f.intact} }

\* The intact part of the store is a write-once map: no later write, rollover
\* or restart changes what an issued FileInfo reads, and no FileInfo is issued
\* for two texts.
Store == INSTANCE WriteOnceStore WITH contents <- Contents
StoreSpec == Store!Spec

\* What the member's comment says of the offset (chain_writer.h:38, "Current
\* offset into the current file to write data to"): the next byte goes there.
OffsetIsEndOfFile ==
    /\ blocks.offset = Len(blocks.files[blocks.number])
    /\ undos.offset = Len(undos.files[undos.number])

\* What a test expects of any block it writes (chain_writer_tests.cpp:62,
\* EXPECT_EQ(read_block, serialize)): it reads back.
EveryTextReadsBack ==
    \A e \in issued : e.intact => Read(e.info) = [status |-> "ok", text |-> e.text]
=============================================================================
