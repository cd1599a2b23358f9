------------------------- MODULE ChainWriterProofs -------------------------
(***************************************************************************)
(* Proofs about ChainWriter, for any texts, file sizes and word sizes.     *)
(***************************************************************************)
EXTENDS ChainWriter, SequenceTheorems, TLAPS

----------------------------------------------------------------------------
(* Lemmas on the operators of a write. *)

\* What reducing a number to a word does.
LEMMA WordFacts ==
    ASSUME NEW n \in Nat
    PROVE  /\ n % Word \in Offset
           /\ n % Word <= n
           /\ n < Word => n % Word = n
  <1>1. Word \in Nat /\ Word > 0
    BY SizeAssumption
  <1> QED
    BY <1>1, Z3 DEF Offset

\* Where the elements of a concatenation are.
LEMMA ConcatFacts ==
    ASSUME NEW a \in Seq(Byte), NEW c \in Seq(Byte)
    PROVE  /\ a \o c \in Seq(Byte)
           /\ Len(a \o c) = Len(a) + Len(c)
           /\ \A i \in 1 .. Len(a) : (a \o c)[i] = a[i]
           /\ \A i \in 1 .. Len(c) : (a \o c)[Len(a) + i] = c[i]
  <1>1. /\ a \o c \in Seq(Byte)
        /\ Len(a \o c) = Len(a) + Len(c)
        /\ \A i \in 1 .. Len(a) + Len(c) :
               (a \o c)[i] = IF i <= Len(a) THEN a[i] ELSE c[i - Len(a)]
    BY ConcatProperties
  <1>2. Len(a) \in Nat /\ Len(c) \in Nat
    OBVIOUS
  <1>3. ASSUME NEW i \in 1 .. Len(c)
        PROVE  (a \o c)[Len(a) + i] = c[i]
    <2>1. /\ Len(a) + i \in 1 .. Len(a) + Len(c)
          /\ ~(Len(a) + i <= Len(a))
          /\ Len(a) + i - Len(a) = i
      BY <1>2
    <2> QED
      BY <1>1, <2>1
  <1> QED
    BY <1>1, <1>2, <1>3

\* The buffer of a write is one byte longer than its text, and begins with the
\* text if that has no NUL.
LEMMA CharBlockFacts ==
    ASSUME NEW text \in Seq(Byte), NEW chars \in CharBlock(text)
    PROVE  /\ chars \in Seq(Byte)
           /\ Len(chars) = Len(text) + 1
           /\ NulFree(text) => \A i \in 1 .. Len(text) : chars[i] = text[i]
  <1>1. /\ chars \in [1 .. Len(text) + 1 -> Byte]
        /\ \A i \in 1 .. Len(text) + 1 :
              (\A j \in 1 .. i - 1 : text[j] # NUL) => chars[i] = CString(text)[i]
    BY DEF CharBlock
  <1>2. chars \in Seq(Byte) /\ Len(chars) = Len(text) + 1
    BY <1>1
  <1>3. ASSUME NulFree(text), NEW i \in 1 .. Len(text)
        PROVE  chars[i] = text[i]
    <2>1. \A j \in 1 .. i - 1 : text[j] # NUL
      BY <1>3 DEF NulFree
    <2>2. CString(text)[i] = text[i]
      BY ByteAssumption DEF CString
    <2> QED
      BY <1>1, <2>1, <2>2
  <1> QED
    BY <1>2, <1>3

\* A file after the buffer of a write went to its end.
LEMMA ExtendedFileFacts ==
    ASSUME NEW file \in Seq(Byte), NEW text \in Seq(Byte), NEW chars \in CharBlock(text)
    PROVE  /\ file \o chars \in Seq(Byte)
           /\ Len(file \o chars) = Len(file) + Len(text) + 1
           /\ \A i \in 1 .. Len(file) : (file \o chars)[i] = file[i]
           /\ NulFree(text) =>
                  \A i \in 1 .. Len(text) : (file \o chars)[Len(file) + i] = text[i]
  <1>1. /\ chars \in Seq(Byte) /\ Len(chars) = Len(text) + 1
        /\ NulFree(text) => \A i \in 1 .. Len(text) : chars[i] = text[i]
    BY CharBlockFacts
  <1>2. /\ file \o chars \in Seq(Byte)
        /\ Len(file \o chars) = Len(file) + Len(chars)
        /\ \A i \in 1 .. Len(file) : (file \o chars)[i] = file[i]
        /\ \A i \in 1 .. Len(chars) : (file \o chars)[Len(file) + i] = chars[i]
    BY <1>1, ConcatFacts
  <1>3. Len(file) \in Nat /\ Len(text) \in Nat
    OBVIOUS
  <1>4. \A i \in 1 .. Len(text) : i \in 1 .. Len(chars)
    BY <1>1, <1>3
  <1>5. Len(file \o chars) = Len(file) + Len(text) + 1
    BY <1>1, <1>2, <1>3
  <1> QED
    BY <1>1, <1>2, <1>4, <1>5

\* Stream s2 holds every byte stream s held, at its place.
Grown(s, s2) ==
    \A k \in FileNumber :
        /\ Len(s.files[k]) <= Len(s2.files[k])
        /\ \A i \in 1 .. Len(s.files[k]) : s2.files[k][i] = s.files[k][i]

\* A write gives a stream, leaves every byte where it was, and adds its text
\* and a byte to the end of the file it writes to.
LEMMA AppendFacts ==
    ASSUME NEW s \in Stream, NEW text \in Seq(Byte), NEW s2 \in Appended(s, text),
           WriteNumber(s, text) <= MaxFileNumber
    PROVE  LET n == WriteNumber(s, text)
           IN  /\ s2 \in Stream
               /\ n \in FileNumber
               /\ s2.number = n
               /\ s2.offset = NewOffset(s, text)
               /\ Grown(s, s2)
               /\ \A k \in FileNumber : k # n => s2.files[k] = s.files[k]
               /\ Len(s2.files[n]) = Len(s.files[n]) + Len(text) + 1
               /\ NulFree(text) =>
                      \A i \in 1 .. Len(text) : s2.files[n][Len(s.files[n]) + i] = text[i]
  <1> DEFINE n == WriteNumber(s, text)
  <1>1. PICK chars \in CharBlock(text) :
            s2 = [files  |-> [s.files EXCEPT ![n] = @ \o chars],
                  number |-> n,
                  offset |-> NewOffset(s, text)]
    BY DEF Appended
  <1>2. /\ chars \in Seq(Byte) /\ Len(chars) = Len(text) + 1
        /\ NulFree(text) => \A i \in 1 .. Len(text) : chars[i] = text[i]
    BY CharBlockFacts
  <1>3. /\ s.files \in [FileNumber -> Seq(Byte)]
        /\ s.number \in FileNumber /\ s.offset \in Offset
    BY DEF Stream
  <1>4. n \in FileNumber
    BY <1>3, SizeAssumption DEF WriteNumber, FileNumber
  <1>5. NewOffset(s, text) \in Offset
    <2>1. WriteStart(s, text) + Len(text) + 1 \in Nat
      BY <1>3 DEF WriteStart, Offset
    <2> QED
      BY <2>1, WordFacts DEF NewOffset
  <1> HIDE DEF n
  <1>6. /\ s2.files = [s.files EXCEPT ![n] = s.files[n] \o chars]
        /\ s2.number = n /\ s2.offset = NewOffset(s, text)
    BY <1>1
  <1>7. /\ s.files[n] \in Seq(Byte)
        /\ s2.files[n] = s.files[n] \o chars
        /\ \A k \in FileNumber : k # n => s2.files[k] = s.files[k]
    BY <1>3, <1>4, <1>6
  <1>8. /\ s.files[n] \o chars \in Seq(Byte)
        /\ Len(s.files[n] \o chars) = Len(s.files[n]) + Len(text) + 1
        /\ \A i \in 1 .. Len(s.files[n]) : (s.files[n] \o chars)[i] = s.files[n][i]
        /\ NulFree(text) =>
               \A i \in 1 .. Len(text) : (s.files[n] \o chars)[Len(s.files[n]) + i] = text[i]
    BY <1>7, ExtendedFileFacts
  <1>9. s2 \in Stream
    BY <1>1, <1>3, <1>4, <1>5, <1>8 DEF Stream
  <1>10. Grown(s, s2)
    <2>1. ASSUME NEW k \in FileNumber
          PROVE  /\ Len(s.files[k]) <= Len(s2.files[k])
                 /\ \A i \in 1 .. Len(s.files[k]) : s2.files[k][i] = s.files[k][i]
      <3>1. CASE k = n
        BY <3>1, <1>7, <1>8, LenProperties
      <3>2. CASE k # n
        BY <3>2, <1>3, <1>7
      <3> QED
        BY <3>1, <3>2
    <2> QED
      BY <2>1 DEF Grown
  <1>11. NulFree(text) =>
             \A i \in 1 .. Len(text) : s2.files[n][Len(s.files[n]) + i] = text[i]
    BY <1>7, <1>8
  <1> QED
    BY <1>4, <1>6, <1>7, <1>8, <1>9, <1>10, <1>11 DEF n

----------------------------------------------------------------------------
(* The inductive invariant. *)

\* The offset of a stream lies in its current file.
OffsetInFile(s) == s.offset <= Len(s.files[s.number])

\* The offset of a stream is the end of its last file.
AtEnd(s) ==
    /\ s.offset = Len(s.files[s.number])
    /\ \A k \in FileNumber : k > s.number => s.files[k] = <<>>

\* What an entry names lies in its file.
EntryInFile(e) ==
    /\ e.info.start <= e.info.end
    /\ e.info.end < Len(FileOf(e.info))

\* A NUL-free text lies where its entry says.
EntryBytes(e) ==
    e.intact /\ NulFree(e.text) =>
        /\ e.info.end = e.info.start + Len(e.text)
        /\ \A i \in 1 .. Len(e.text) : FileOf(e.info)[e.info.start + i] = e.text[i]

OneTextPerInfo ==
    \A e, f \in issued : e.intact /\ f.intact /\ e.info = f.info => e = f

IInv ==
    /\ TypeOK
    /\ OffsetInFile(blocks) /\ OffsetInFile(undos)
    /\ intact => AtEnd(blocks) /\ AtEnd(undos)
    /\ \A e \in issued : EntryInFile(e) /\ EntryBytes(e)
    /\ OneTextPerInfo
    /\ FileSizeBounded

----------------------------------------------------------------------------
(* What a write adds to a stream. *)

\* The FileInfo of a write lies in the file written to, and so does the new
\* offset.
LEMMA NewInfoFacts ==
    ASSUME NEW name \in {"block", "undo"}, NEW s \in Stream, NEW text \in Seq(Byte),
           NEW s2 \in Appended(s, text), WriteNumber(s, text) <= MaxFileNumber,
           OffsetInFile(s)
    PROVE  LET info == WrittenInfo(name, s, text)
           IN  /\ info \in FileInfo
               /\ info.stream = name
               /\ info.number = s2.number
               /\ info.start <= info.end
               /\ info.end < Len(s2.files[s2.number])
               /\ OffsetInFile(s2)
  <1> DEFINE n     == WriteNumber(s, text)
             start == WriteStart(s, text)
             info  == WrittenInfo(name, s, text)
  <1>1. /\ s2 \in Stream /\ n \in FileNumber /\ s2.number = n
        /\ s2.offset = NewOffset(s, text)
        /\ Len(s2.files[n]) = Len(s.files[n]) + Len(text) + 1
    BY AppendFacts
  <1>2. /\ s.files[n] \in Seq(Byte) /\ Len(s.files[n]) \in Nat
        /\ Len(text) \in Nat /\ s.offset \in Nat /\ s.offset \in Offset
        /\ Word \in Nat /\ MaxFileSize \in Nat /\ MaxFileSize + 1 < Word
    BY <1>1, SizeAssumption DEF Stream, Offset
  <1>3. start \in Nat /\ start \in Offset /\ start <= Len(s.files[n])
    BY <1>2 DEF OffsetInFile, WriteStart, WriteNumber, Offset
  <1>4. /\ (start + Len(text)) % Word \in Offset
        /\ (start + Len(text)) % Word <= start + Len(text)
        /\ start <= (start + Len(text)) % Word
    <2>1. start + Len(text) \in Nat
      BY <1>2, <1>3
    <2>2. /\ (start + Len(text)) % Word \in Offset
          /\ (start + Len(text)) % Word <= start + Len(text)
          /\ start + Len(text) < Word => (start + Len(text)) % Word = start + Len(text)
      BY <2>1, WordFacts
    <2>3. CASE RollsOver(s, text)
      BY <2>2, <2>3, <1>2 DEF WriteStart, Offset
    <2>4. CASE ~RollsOver(s, text)
      <3>1. start + Len(text) < Word
        BY <2>4, <1>2 DEF WriteStart, RollsOver
      <3> QED
        BY <2>2, <3>1, <1>2, <1>3
    <2> QED
      BY <2>3, <2>4
  <1>5. NewOffset(s, text) <= start + Len(text) + 1
    BY <1>2, <1>3, WordFacts DEF NewOffset
  <1>6. /\ info.stream = name /\ info.number = n /\ info.start = start
        /\ info.end = (start + Len(text)) % Word
        /\ info \in FileInfo
    BY <1>1, <1>3, <1>4 DEF WrittenInfo, FileInfo
  <1>7. NewOffset(s, text) \in Nat /\ info.end \in Nat
    BY <1>1, <1>4, <1>6 DEF Stream, Offset
  <1> HIDE DEF n, start, info
  <1>8. info.end < Len(s2.files[n])
    <2>1. Len(s2.files[n]) = Len(s.files[n]) + Len(text) + 1
      BY <1>1
    <2>2. info.end <= start + Len(text)
      BY <1>4, <1>6
    <2> QED
      BY <1>2, <1>3, <1>7, <2>1, <2>2
  <1>9. s2.offset <= Len(s2.files[n])
    <2>1. Len(s2.files[n]) = Len(s.files[n]) + Len(text) + 1
      BY <1>1
    <2>2. s2.offset <= start + Len(text) + 1 /\ s2.offset \in Nat
      BY <1>1, <1>5, <1>7
    <2> QED
      BY <1>2, <1>3, <2>1, <2>2
  <1> QED
    BY <1>1, <1>4, <1>6, <1>8, <1>9 DEF OffsetInFile, info

\* From the end of the last file, the FileInfo of a short text names just its
\* text, and the new offset is again the end of the last file.
LEMMA IntactFacts ==
    ASSUME NEW name \in {"block", "undo"}, NEW s \in Stream, NEW text \in Seq(Byte),
           NEW s2 \in Appended(s, text), WriteNumber(s, text) <= MaxFileNumber,
           AtEnd(s), Short(text)
    PROVE  LET info == WrittenInfo(name, s, text)
           IN  /\ info.start = Len(s.files[s2.number])
               /\ info.end = info.start + Len(text)
               /\ AtEnd(s2)
               /\ NulFree(text) =>
                      \A i \in 1 .. Len(text) : s2.files[s2.number][info.start + i] = text[i]
               /\ Len(text) <= MaxFileSize /\ Len(s.files[s.number]) <= MaxFileSize + 1 =>
                      Len(s2.files[s2.number]) <= MaxFileSize + 1
  <1> DEFINE n     == WriteNumber(s, text)
             start == WriteStart(s, text)
             info  == WrittenInfo(name, s, text)
  <1>1. /\ s2 \in Stream /\ n \in FileNumber /\ s2.number = n
        /\ s2.offset = NewOffset(s, text)
        /\ \A k \in FileNumber : k # n => s2.files[k] = s.files[k]
        /\ Len(s2.files[n]) = Len(s.files[n]) + Len(text) + 1
        /\ NulFree(text) =>
               \A i \in 1 .. Len(text) : s2.files[n][Len(s.files[n]) + i] = text[i]
    BY AppendFacts
  <1>2. /\ Len(s.files[n]) \in Nat /\ s.number \in FileNumber
        /\ Len(text) \in Nat /\ s.offset \in Nat
        /\ Word \in Nat /\ MaxFileSize \in Nat /\ MaxFileSize + 1 < Word
        /\ Len(text) + 1 < Word
    BY <1>1, SizeAssumption DEF Stream, Offset, Short
  <1>3. /\ start = Len(s.files[n]) /\ start \in Nat
        /\ start + Len(text) + 1 < Word
        /\ Len(text) <= MaxFileSize => start + Len(text) <= MaxFileSize
        /\ n >= s.number
    <2>1. CASE RollsOver(s, text)
      <3>1. n = s.number + 1 /\ start = 0
        BY <2>1 DEF WriteNumber, WriteStart
      <3>2. s.files[n] = <<>>
        BY <1>1, <1>2, <3>1 DEF AtEnd, FileNumber
      <3> QED
        BY <1>2, <3>1, <3>2 DEF FileNumber
    <2>2. CASE ~RollsOver(s, text)
      BY <2>2, <1>2 DEF WriteNumber, WriteStart, RollsOver, AtEnd, FileNumber
    <2> QED
      BY <2>1, <2>2
  <1>4. /\ (start + Len(text)) % Word = start + Len(text)
        /\ (start + Len(text) + 1) % Word = start + Len(text) + 1
    <2>1. /\ start + Len(text) \in Nat /\ start + Len(text) + 1 \in Nat
          /\ start + Len(text) < Word
      BY <1>2, <1>3
    <2> QED
      BY <2>1, <1>3, WordFacts
  <1>5. info.start = start /\ info.end = start + Len(text)
    BY <1>4 DEF WrittenInfo
  <1>6. AtEnd(s2)
    <2>1. s2.offset = Len(s2.files[n])
      BY <1>1, <1>2, <1>3, <1>4 DEF NewOffset
    <2>2. ASSUME NEW k \in FileNumber, k > n
          PROVE  s2.files[k] = <<>>
      BY <2>2, <1>1, <1>2, <1>3 DEF AtEnd, FileNumber
    <2> QED
      BY <2>1, <2>2, <1>1 DEF AtEnd
  <1>7. Len(text) <= MaxFileSize => Len(s2.files[n]) <= MaxFileSize + 1
    BY <1>1, <1>2, <1>3
  <1> QED
    BY <1>1, <1>3, <1>5, <1>6, <1>7

\* From the end of the last file, a short text that fits a file keeps every
\* file within the maximum and a byte.
LEMMA FileSizeFacts ==
    ASSUME NEW s \in Stream, NEW text \in Seq(Byte), NEW s2 \in Appended(s, text),
           WriteNumber(s, text) <= MaxFileNumber, AtEnd(s), Short(text),
           Len(text) <= MaxFileSize,
           \A k \in FileNumber : Len(s.files[k]) <= MaxFileSize + 1
    PROVE  \A k \in FileNumber : Len(s2.files[k]) <= MaxFileSize + 1
  <1>1. /\ s2.number \in FileNumber
        /\ s2.number = WriteNumber(s, text)
        /\ \A k \in FileNumber : k # s2.number => s2.files[k] = s.files[k]
    BY AppendFacts
  <1>2. s.number \in FileNumber
    BY DEF Stream
  <1>3. Len(s2.files[s2.number]) <= MaxFileSize + 1
    BY <1>2, IntactFacts
  <1> QED
    BY <1>1, <1>3

----------------------------------------------------------------------------
(* What a write does to the entries. *)

\* The entry a write adds to issued.
NewEntry(name, s, text, i) == [info |-> WrittenInfo(name, s, text), text |-> text, intact |-> i]

\* The file an info names keeps its bytes while the streams only grow.
LEMMA FileKept ==
    ASSUME NEW info \in FileInfo, blocks \in Stream, undos \in Stream,
           blocks' \in Stream, undos' \in Stream,
           Grown(blocks, blocks'), Grown(undos, undos')
    PROVE  /\ FileOf(info) \in Seq(Byte) /\ FileOf(info)' \in Seq(Byte)
           /\ Len(FileOf(info)) <= Len(FileOf(info)')
           /\ \A i \in 1 .. Len(FileOf(info)) : FileOf(info)'[i] = FileOf(info)[i]
  <1>1. info.number \in FileNumber /\ info.stream \in {"block", "undo"}
    BY DEF FileInfo
  <1> QED
    BY <1>1 DEF Grown, FileOf, Stream

\* An old entry keeps its place and its bytes while the streams only grow.
LEMMA OldEntryFacts ==
    ASSUME NEW e \in Entry, blocks \in Stream, undos \in Stream,
           blocks' \in Stream, undos' \in Stream,
           Grown(blocks, blocks'), Grown(undos, undos'),
           EntryInFile(e), EntryBytes(e)
    PROVE  EntryInFile(e)' /\ EntryBytes(e)'
  <1> DEFINE file  == FileOf(e.info)
             file2 == FileOf(e.info)'
  <1>1. /\ e.info \in FileInfo /\ e.info.start \in Nat /\ e.info.end \in Nat
        /\ e.text \in Seq(Byte)
    BY TextAssumption DEF Entry, FileInfo, Offset, Texts
  <1>2. /\ file \in Seq(Byte) /\ file2 \in Seq(Byte)
        /\ Len(file) <= Len(file2)
        /\ \A i \in 1 .. Len(file) : file2[i] = file[i]
    BY <1>1, FileKept
  <1>3. e.info.start <= e.info.end /\ e.info.end < Len(file)
    BY DEF EntryInFile
  <1>4. e.intact /\ NulFree(e.text) =>
            /\ e.info.end = e.info.start + Len(e.text)
            /\ \A i \in 1 .. Len(e.text) : file[e.info.start + i] = e.text[i]
    BY DEF EntryBytes
  <1> HIDE DEF file, file2
  <1>5. e.info.end < Len(file2)
    BY <1>1, <1>2, <1>3
  <1>6. ASSUME e.intact, NulFree(e.text), NEW i \in 1 .. Len(e.text)
        PROVE  file2[e.info.start + i] = e.text[i]
    <2>1. e.info.start + i \in 1 .. Len(file)
      BY <1>1, <1>2, <1>3, <1>4, <1>6
    <2> QED
      BY <1>2, <1>4, <1>6, <2>1
  <1>7. EntryInFile(e)'
    BY <1>3, <1>5 DEF EntryInFile, file2
  <1>8. EntryBytes(e)'
    BY <1>4, <1>6 DEF EntryBytes, file2
  <1> QED
    BY <1>7, <1>8

\* The entry of a write names bytes of the file written to, and its text if
\* that is NUL-free and the offset was intact; no older entry names them.
LEMMA NewEntryFacts ==
    ASSUME NEW name \in {"block", "undo"}, NEW s \in Stream, NEW text \in Texts,
           NEW s2 \in Appended(s, text), WriteNumber(s, text) <= MaxFileNumber,
           OffsetInFile(s), NEW i \in BOOLEAN, i => AtEnd(s) /\ Short(text),
           name = "block" => s = blocks /\ s2 = blocks',
           name = "undo" => s = undos /\ s2 = undos'
    PROVE  LET e == NewEntry(name, s, text, i)
           IN  /\ e \in Entry
               /\ e.info.stream = name
               /\ EntryInFile(e)'
               /\ EntryBytes(e)'
               /\ \A f \in Entry : e.intact /\ EntryInFile(f) => f.info # e.info
  <1> DEFINE e == NewEntry(name, s, text, i)
  <1>1. text \in Seq(Byte)
    BY TextAssumption DEF Texts
  <1>2. /\ e.info \in FileInfo /\ e.info.stream = name
        /\ e.info.number = s2.number
        /\ e.info.start <= e.info.end /\ e.info.end < Len(s2.files[s2.number])
    BY <1>1, NewInfoFacts DEF NewEntry
  <1>3. i => /\ e.info.start = Len(s.files[s2.number])
             /\ e.info.end = e.info.start + Len(text)
             /\ NulFree(text) =>
                    \A j \in 1 .. Len(text) : s2.files[s2.number][e.info.start + j] = text[j]
    BY <1>1, IntactFacts DEF NewEntry
  <1>4. e.info = WrittenInfo(name, s, text) /\ e.text = text /\ e.intact = i
    BY DEF NewEntry
  <1>5. e \in Entry
    BY <1>2, <1>4 DEF Entry, NewEntry
  <1> HIDE DEF e
  <1>6. FileOf(e.info)' = s2.files[s2.number]
    <2>1. CASE name = "block"
      BY <2>1, <1>2 DEF FileOf
    <2>2. CASE name = "undo"
      BY <2>2, <1>2 DEF FileOf
    <2> QED
      BY <2>1, <2>2
  <1>7. EntryInFile(e)'
    BY <1>2, <1>6 DEF EntryInFile
  <1>8. EntryBytes(e)'
    BY <1>3, <1>4, <1>6 DEF EntryBytes
  <1>9. ASSUME NEW f \in Entry, e.intact, EntryInFile(f), f.info = e.info
        PROVE  FALSE
    <2>1. FileOf(f.info) = s.files[s2.number]
      <3>1. CASE name = "block"
        BY <3>1, <1>2, <1>9 DEF FileOf
      <3>2. CASE name = "undo"
        BY <3>2, <1>2, <1>9 DEF FileOf
      <3> QED
        BY <3>1, <3>2
    <2>2. f.info.start < f.info.start
      BY <2>1, <1>2, <1>3, <1>4, <1>9 DEF EntryInFile, FileInfo, Offset
    <2>3. f.info.start \in Nat
      BY DEF Entry, FileInfo, Offset
    <2> QED
      BY <2>2, <2>3
  <1> QED
    BY <1>2, <1>5, <1>7, <1>8, <1>9 DEF e

\* The entries after a step that only grows the streams and adds new entries.
LEMMA EntriesFacts ==
    ASSUME IInv, blocks' \in Stream, undos' \in Stream,
           Grown(blocks, blocks'), Grown(undos, undos'),
           NEW new, issued' = issued \cup new,
           \A e \in new : e \in Entry /\ EntryInFile(e)' /\ EntryBytes(e)',
           \A e \in new : \A f \in issued : e.intact => f.info # e.info,
           \A e, f \in new : e.info = f.info => e = f
    PROVE  /\ (issued \subseteq Entry)'
           /\ (\A e \in issued : EntryInFile(e) /\ EntryBytes(e))'
           /\ OneTextPerInfo'
  <1>1. /\ blocks \in Stream /\ undos \in Stream /\ issued \subseteq Entry
        /\ \A e \in issued : EntryInFile(e) /\ EntryBytes(e)
        /\ OneTextPerInfo
    BY DEF IInv, TypeOK
  <1>2. ASSUME NEW e \in issued
        PROVE  EntryInFile(e)' /\ EntryBytes(e)'
    BY <1>1, OldEntryFacts
  <1>3. (issued \subseteq Entry)'
    BY <1>1
  <1>4. \A e \in issued' : EntryInFile(e)' /\ EntryBytes(e)'
    BY <1>2
  <1>5. OneTextPerInfo'
    BY <1>1 DEF OneTextPerInfo
  <1> QED
    BY <1>3, <1>4, <1>5

----------------------------------------------------------------------------
(* The invariant holds initially and every action keeps it. *)

\* What a write of text to stream s, one of the two, keeps of the invariant.
LEMMA StreamFacts ==
    ASSUME IInv, NEW s, s = blocks \/ s = undos, NEW text \in Texts, Fits(s, text),
           NEW s2 \in Appended(s, text)
    PROVE  /\ s \in Stream /\ s2 \in Stream /\ text \in Seq(Byte)
           /\ WriteNumber(s, text) <= MaxFileNumber
           /\ OffsetInFile(s) /\ OffsetInFile(s2)
           /\ Grown(s, s2)
           /\ intact => AtEnd(s)
           /\ intact /\ Short(text) => AtEnd(s2)
           /\ /\ intact /\ Short(text) /\ Len(text) <= MaxFileSize
              /\ \A e \in issued : Len(e.text) <= MaxFileSize
              => \A k \in FileNumber : Len(s2.files[k]) <= MaxFileSize + 1
  <1>1. /\ s \in Stream /\ text \in Seq(Byte) /\ WriteNumber(s, text) <= MaxFileNumber
        /\ OffsetInFile(s) /\ intact => AtEnd(s)
    BY TextAssumption DEF IInv, TypeOK, Fits, Texts
  <1>2. /\ OffsetInFile(s) /\ (intact => AtEnd(s))
    BY DEF IInv
  <1>3. s2 \in Stream /\ Grown(s, s2)
    BY <1>1, AppendFacts
  <1>4. OffsetInFile(s2)
    BY <1>1, <1>2, NewInfoFacts
  <1>5. intact /\ Short(text) => AtEnd(s2)
    BY <1>1, <1>2, IntactFacts
  <1>6. ASSUME intact, Short(text), Len(text) <= MaxFileSize,
               \A e \in issued : Len(e.text) <= MaxFileSize
        PROVE  \A k \in FileNumber : Len(s2.files[k]) <= MaxFileSize + 1
    <2>1. \A k \in FileNumber : Len(s.files[k]) <= MaxFileSize + 1
      BY <1>6 DEF IInv, FileSizeBounded
    <2> QED
      BY <1>1, <1>2, <1>6, <2>1, FileSizeFacts
  <1> QED
    BY <1>1, <1>2, <1>3, <1>4, <1>5, <1>6

\* The invariant holds in the initial state.
LEMMA InitIInv == Init => IInv
  <1> SUFFICES ASSUME Init PROVE IInv
    OBVIOUS
  <1>1. /\ blocks.files = [k \in FileNumber |-> <<>>] /\ blocks.number = 0 /\ blocks.offset = 0
        /\ undos.files = [k \in FileNumber |-> <<>>] /\ undos.number = 0 /\ undos.offset = 0
        /\ intact = TRUE /\ issued = {}
    BY DEF Init, NewStream
  <1>2. 0 \in FileNumber /\ 0 \in Offset
    BY SizeAssumption DEF FileNumber, Offset
  <1>3. NewStream \in Stream
    BY <1>2 DEF NewStream, Stream
  <1>4. TypeOK
    BY <1>1, <1>3 DEF Init, TypeOK
  <1>5. AtEnd(blocks) /\ AtEnd(undos)
    BY <1>1, <1>2 DEF AtEnd
  <1>6. OffsetInFile(blocks) /\ OffsetInFile(undos)
    BY <1>1, <1>2 DEF OffsetInFile
  <1>7. FileSizeBounded
    BY <1>1, SizeAssumption DEF FileSizeBounded
  <1> QED
    BY <1>1, <1>4, <1>5, <1>6, <1>7 DEF IInv, OneTextPerInfo

\* A stream that does not change grows.
LEMMA GrownSame == ASSUME NEW s \in Stream PROVE Grown(s, s)
  BY DEF Grown, Stream

\* Writing a block alone keeps the invariant.
LEMMA WriteBlockIInv ==
    ASSUME IInv, NEW b \in BlockTexts, WriteBlock(b)
    PROVE  IInv'
  <1>1. /\ Fits(blocks, b) /\ blocks' \in Appended(blocks, b) /\ undos' = undos
        /\ intact' = (intact /\ Short(b))
        /\ issued' = issued \cup {NewEntry("block", blocks, b, intact')}
        /\ b \in Texts
    BY DEF WriteBlock, NewEntry, Texts
  <1> SUFFICES ASSUME NEW s, s = blocks, NEW s2, s2 = blocks', NEW i, i = intact' PROVE IInv'
    OBVIOUS
  <1> DEFINE e == NewEntry("block", s, b, i)
  <1>2. /\ TypeOK /\ OffsetInFile(undos) /\ (intact => AtEnd(undos)) /\ FileSizeBounded
        /\ intact \in BOOLEAN /\ i \in BOOLEAN /\ undos \in Stream /\ issued \subseteq Entry
        /\ \A f \in issued : EntryInFile(f)
    BY <1>1 DEF IInv, TypeOK
  <1>3. /\ s \in Stream /\ s2 \in Stream /\ WriteNumber(s, b) <= MaxFileNumber
        /\ OffsetInFile(s) /\ OffsetInFile(s2) /\ Grown(s, s2)
        /\ intact => AtEnd(s)
        /\ intact /\ Short(b) => AtEnd(s2)
        /\ /\ intact /\ Short(b) /\ Len(b) <= MaxFileSize
           /\ \A f \in issued : Len(f.text) <= MaxFileSize
           => \A k \in FileNumber : Len(s2.files[k]) <= MaxFileSize + 1
    BY <1>1, StreamFacts
  <1>4. /\ e \in Entry /\ EntryInFile(e)' /\ EntryBytes(e)'
        /\ \A f \in Entry : e.intact /\ EntryInFile(f) => f.info # e.info
    <2>1. s2 \in Appended(s, b) /\ (i => AtEnd(s) /\ Short(b))
      BY <1>1, <1>3
    <2>2. /\ "block" = "block" => s = blocks /\ s2 = blocks'
          /\ "block" = "undo" => s = undos /\ s2 = undos'
      OBVIOUS
    <2>3. /\ "block" \in {"block", "undo"} /\ s \in Stream /\ b \in Texts /\ i \in BOOLEAN
          /\ WriteNumber(s, b) <= MaxFileNumber /\ OffsetInFile(s)
      BY <1>1, <1>2, <1>3
    <2> QED
      BY <2>1, <2>2, <2>3, NewEntryFacts
  <1>5. e.text = b /\ e.intact = i /\ issued' = issued \cup {e}
    BY <1>1 DEF NewEntry
  <1> HIDE DEF e
  <1>6. Grown(undos, undos') /\ Grown(blocks, blocks')
    BY <1>1, <1>2, <1>3, GrownSame
  <1>7. /\ (issued \subseteq Entry)'
        /\ (\A f \in issued : EntryInFile(f) /\ EntryBytes(f))'
        /\ OneTextPerInfo'
    <2> DEFINE new == {e}
    <2>1. /\ issued' = issued \cup new
          /\ \A f \in new : f \in Entry /\ EntryInFile(f)' /\ EntryBytes(f)'
          /\ \A f \in new : \A g \in issued : f.intact => g.info # f.info
          /\ \A f, g \in new : f.info = g.info => f = g
      BY <1>2, <1>4, <1>5
    <2>2. blocks' \in Stream /\ undos' \in Stream
      BY <1>1, <1>2, <1>3
    <2> HIDE DEF new
    <2> QED
      BY <1>6, <2>1, <2>2, EntriesFacts
  <1>8. TypeOK'
    BY <1>1, <1>2, <1>3, <1>7 DEF TypeOK
  <1>9. /\ OffsetInFile(blocks)' /\ OffsetInFile(undos)'
        /\ intact' => AtEnd(blocks)' /\ AtEnd(undos)'
    BY <1>1, <1>2, <1>3
  <1>10. FileSizeBounded'
    <2> SUFFICES ASSUME intact', \A f \in issued' : Len(f.text) <= MaxFileSize,
                        NEW k \in FileNumber
                 PROVE  /\ Len(blocks'.files[k]) <= MaxFileSize + 1
                        /\ Len(undos'.files[k]) <= MaxFileSize + 1
      BY DEF FileSizeBounded
    <2>1. /\ intact /\ Short(b) /\ Len(b) <= MaxFileSize
          /\ \A f \in issued : Len(f.text) <= MaxFileSize
      BY <1>1, <1>5
    <2>2. Len(undos.files[k]) <= MaxFileSize + 1
      BY <1>2, <2>1 DEF FileSizeBounded
    <2> QED
      BY <1>1, <1>3, <2>1, <2>2
  <1> QED
    BY <1>7, <1>8, <1>9, <1>10 DEF IInv

\* Writing an undo block alone keeps the invariant.
LEMMA WriteUndoBlockIInv ==
    ASSUME IInv, NEW u \in UndoTexts, WriteUndoBlock(u)
    PROVE  IInv'
  <1>1. /\ Fits(undos, u) /\ undos' \in Appended(undos, u) /\ blocks' = blocks
        /\ intact' = (intact /\ Short(u))
        /\ issued' = issued \cup {NewEntry("undo", undos, u, intact')}
        /\ u \in Texts
    BY DEF WriteUndoBlock, NewEntry, Texts
  <1> SUFFICES ASSUME NEW s, s = undos, NEW s2, s2 = undos', NEW i, i = intact' PROVE IInv'
    OBVIOUS
  <1> DEFINE e == NewEntry("undo", s, u, i)
  <1>2. /\ TypeOK /\ OffsetInFile(blocks) /\ (intact => AtEnd(blocks)) /\ FileSizeBounded
        /\ intact \in BOOLEAN /\ i \in BOOLEAN /\ blocks \in Stream /\ issued \subseteq Entry
        /\ \A f \in issued : EntryInFile(f)
    BY <1>1 DEF IInv, TypeOK
  <1>3. /\ s \in Stream /\ s2 \in Stream /\ WriteNumber(s, u) <= MaxFileNumber
        /\ OffsetInFile(s) /\ OffsetInFile(s2) /\ Grown(s, s2)
        /\ intact => AtEnd(s)
        /\ intact /\ Short(u) => AtEnd(s2)
        /\ /\ intact /\ Short(u) /\ Len(u) <= MaxFileSize
           /\ \A f \in issued : Len(f.text) <= MaxFileSize
           => \A k \in FileNumber : Len(s2.files[k]) <= MaxFileSize + 1
    BY <1>1, StreamFacts
  <1>4. /\ e \in Entry /\ EntryInFile(e)' /\ EntryBytes(e)'
        /\ \A f \in Entry : e.intact /\ EntryInFile(f) => f.info # e.info
    <2>1. s2 \in Appended(s, u) /\ (i => AtEnd(s) /\ Short(u))
      BY <1>1, <1>3
    <2>2. /\ "undo" = "block" => s = blocks /\ s2 = blocks'
          /\ "undo" = "undo" => s = undos /\ s2 = undos'
      OBVIOUS
    <2>3. /\ "undo" \in {"block", "undo"} /\ s \in Stream /\ u \in Texts /\ i \in BOOLEAN
          /\ WriteNumber(s, u) <= MaxFileNumber /\ OffsetInFile(s)
      BY <1>1, <1>2, <1>3
    <2> QED
      BY <2>1, <2>2, <2>3, NewEntryFacts
  <1>5. e.text = u /\ e.intact = i /\ issued' = issued \cup {e}
    BY <1>1 DEF NewEntry
  <1> HIDE DEF e
  <1>6. Grown(blocks, blocks') /\ Grown(undos, undos')
    BY <1>1, <1>2, <1>3, GrownSame
  <1>7. /\ (issued \subseteq Entry)'
        /\ (\A f \in issued : EntryInFile(f) /\ EntryBytes(f))'
        /\ OneTextPerInfo'
    <2> DEFINE new == {e}
    <2>1. /\ issued' = issued \cup new
          /\ \A f \in new : f \in Entry /\ EntryInFile(f)' /\ EntryBytes(f)'
          /\ \A f \in new : \A g \in issued : f.intact => g.info # f.info
          /\ \A f, g \in new : f.info = g.info => f = g
      BY <1>2, <1>4, <1>5
    <2>2. blocks' \in Stream /\ undos' \in Stream
      BY <1>1, <1>2, <1>3
    <2> HIDE DEF new
    <2> QED
      BY <1>6, <2>1, <2>2, EntriesFacts
  <1>8. TypeOK'
    BY <1>1, <1>2, <1>3, <1>7 DEF TypeOK
  <1>9. /\ OffsetInFile(blocks)' /\ OffsetInFile(undos)'
        /\ intact' => AtEnd(blocks)' /\ AtEnd(undos)'
    BY <1>1, <1>2, <1>3
  <1>10. FileSizeBounded'
    <2> SUFFICES ASSUME intact', \A f \in issued' : Len(f.text) <= MaxFileSize,
                        NEW k \in FileNumber
                 PROVE  /\ Len(blocks'.files[k]) <= MaxFileSize + 1
                        /\ Len(undos'.files[k]) <= MaxFileSize + 1
      BY DEF FileSizeBounded
    <2>1. /\ intact /\ Short(u) /\ Len(u) <= MaxFileSize
          /\ \A f \in issued : Len(f.text) <= MaxFileSize
      BY <1>1, <1>5
    <2>2. Len(blocks.files[k]) <= MaxFileSize + 1
      BY <1>2, <2>1 DEF FileSizeBounded
    <2> QED
      BY <1>1, <1>3, <2>1, <2>2
  <1> QED
    BY <1>7, <1>8, <1>9, <1>10 DEF IInv

\* Writing a block and its undo block keeps the invariant.
LEMMA StoreBlockIInv ==
    ASSUME IInv, NEW b \in BlockTexts, NEW u \in UndoTexts, StoreBlock(b, u)
    PROVE  IInv'
  <1>1. /\ Fits(blocks, b) /\ blocks' \in Appended(blocks, b)
        /\ Fits(undos, u) /\ undos' \in Appended(undos, u)
        /\ intact' = (intact /\ Short(b) /\ Short(u))
        /\ issued' = issued \cup {NewEntry("block", blocks, b, intact'),
                                  NewEntry("undo", undos, u, intact')}
        /\ b \in Texts /\ u \in Texts
    BY DEF StoreBlock, NewEntry, Texts
  <1> SUFFICES ASSUME NEW s, s = blocks, NEW s2, s2 = blocks',
                      NEW z, z = undos, NEW z2, z2 = undos',
                      NEW i, i = intact'
               PROVE  IInv'
    OBVIOUS
  <1> DEFINE d == NewEntry("block", s, b, i)
             e == NewEntry("undo", z, u, i)
  <1>2. /\ intact \in BOOLEAN /\ i \in BOOLEAN /\ issued \subseteq Entry
        /\ \A f \in issued : EntryInFile(f)
    BY <1>1 DEF IInv, TypeOK
  <1>3. /\ s \in Stream /\ s2 \in Stream /\ WriteNumber(s, b) <= MaxFileNumber
        /\ OffsetInFile(s) /\ OffsetInFile(s2) /\ Grown(s, s2)
        /\ intact => AtEnd(s)
        /\ intact /\ Short(b) => AtEnd(s2)
        /\ /\ intact /\ Short(b) /\ Len(b) <= MaxFileSize
           /\ \A f \in issued : Len(f.text) <= MaxFileSize
           => \A k \in FileNumber : Len(s2.files[k]) <= MaxFileSize + 1
    BY <1>1, StreamFacts
  <1>4. /\ z \in Stream /\ z2 \in Stream /\ WriteNumber(z, u) <= MaxFileNumber
        /\ OffsetInFile(z) /\ OffsetInFile(z2) /\ Grown(z, z2)
        /\ intact => AtEnd(z)
        /\ intact /\ Short(u) => AtEnd(z2)
        /\ /\ intact /\ Short(u) /\ Len(u) <= MaxFileSize
           /\ \A f \in issued : Len(f.text) <= MaxFileSize
           => \A k \in FileNumber : Len(z2.files[k]) <= MaxFileSize + 1
    BY <1>1, StreamFacts
  <1>5. /\ d \in Entry /\ EntryInFile(d)' /\ EntryBytes(d)' /\ d.info.stream = "block"
        /\ \A f \in Entry : d.intact /\ EntryInFile(f) => f.info # d.info
    <2>1. s2 \in Appended(s, b) /\ (i => AtEnd(s) /\ Short(b))
      BY <1>1, <1>3
    <2>2. /\ "block" = "block" => s = blocks /\ s2 = blocks'
          /\ "block" = "undo" => s = undos /\ s2 = undos'
      OBVIOUS
    <2>3. /\ "block" \in {"block", "undo"} /\ s \in Stream /\ b \in Texts /\ i \in BOOLEAN
          /\ WriteNumber(s, b) <= MaxFileNumber /\ OffsetInFile(s)
      BY <1>1, <1>2, <1>3
    <2> QED
      BY <2>1, <2>2, <2>3, NewEntryFacts
  <1>6. /\ e \in Entry /\ EntryInFile(e)' /\ EntryBytes(e)' /\ e.info.stream = "undo"
        /\ \A f \in Entry : e.intact /\ EntryInFile(f) => f.info # e.info
    <2>1. z2 \in Appended(z, u) /\ (i => AtEnd(z) /\ Short(u))
      BY <1>1, <1>4
    <2>2. /\ "undo" = "block" => z = blocks /\ z2 = blocks'
          /\ "undo" = "undo" => z = undos /\ z2 = undos'
      OBVIOUS
    <2>3. /\ "undo" \in {"block", "undo"} /\ z \in Stream /\ u \in Texts /\ i \in BOOLEAN
          /\ WriteNumber(z, u) <= MaxFileNumber /\ OffsetInFile(z)
      BY <1>1, <1>2, <1>4
    <2> QED
      BY <2>1, <2>2, <2>3, NewEntryFacts
  <1>7. /\ d.text = b /\ e.text = u /\ d.intact = i /\ e.intact = i
        /\ issued' = issued \cup {d, e}
    BY <1>1 DEF NewEntry
  <1> HIDE DEF d, e
  <1>8. \A f \in {d, e} : /\ f \in Entry /\ EntryInFile(f)' /\ EntryBytes(f)'
                          /\ \A g \in issued : f.intact => g.info # f.info
    BY <1>2, <1>5, <1>6
  <1>9. d.info # e.info
    BY <1>5, <1>6
  <1>10. /\ (issued \subseteq Entry)'
         /\ (\A f \in issued : EntryInFile(f) /\ EntryBytes(f))'
         /\ OneTextPerInfo'
    <2> DEFINE new == {d, e}
    <2>1. /\ issued' = issued \cup new
          /\ \A f \in new : f \in Entry /\ EntryInFile(f)' /\ EntryBytes(f)'
          /\ \A f \in new : \A g \in issued : f.intact => g.info # f.info
          /\ \A f, g \in new : f.info = g.info => f = g
      BY <1>7, <1>8, <1>9
    <2> HIDE DEF new
    <2> QED
      BY <1>3, <1>4, <2>1, EntriesFacts
  <1>11. TypeOK'
    BY <1>1, <1>2, <1>3, <1>4, <1>10 DEF TypeOK
  <1>12. /\ OffsetInFile(blocks)' /\ OffsetInFile(undos)'
         /\ intact' => AtEnd(blocks)' /\ AtEnd(undos)'
    BY <1>1, <1>3, <1>4
  <1>13. FileSizeBounded'
    <2> SUFFICES ASSUME intact', \A f \in issued' : Len(f.text) <= MaxFileSize,
                        NEW k \in FileNumber
                 PROVE  /\ Len(blocks'.files[k]) <= MaxFileSize + 1
                        /\ Len(undos'.files[k]) <= MaxFileSize + 1
      BY DEF FileSizeBounded
    <2>1. /\ intact /\ Short(b) /\ Len(b) <= MaxFileSize
          /\ Short(u) /\ Len(u) <= MaxFileSize
          /\ \A f \in issued : Len(f.text) <= MaxFileSize
      BY <1>1, <1>7
    <2> QED
      BY <1>3, <1>4, <2>1
  <1> QED
    BY <1>10, <1>11, <1>12, <1>13 DEF IInv

\* A restart keeps the invariant: the offsets are no longer the ends of the
\* files, but no entry is touched.
LEMMA RestartIInv ==
    ASSUME IInv, Restart
    PROVE  IInv'
  <1>1. /\ blocks' = Constructed(blocks) /\ undos' = Constructed(undos)
        /\ intact' = FALSE /\ issued' = issued
    BY DEF Restart
  <1>2. /\ blocks \in Stream /\ undos \in Stream /\ issued \subseteq Entry
        /\ \A e \in issued : EntryInFile(e) /\ EntryBytes(e)
        /\ OneTextPerInfo
    BY DEF IInv, TypeOK
  <1>3. ASSUME NEW s \in Stream
        PROVE  /\ Constructed(s) \in Stream /\ Constructed(s).files = s.files
               /\ OffsetInFile(Constructed(s))
    <2>1. 0 \in FileNumber /\ 0 \in Offset
      BY SizeAssumption DEF FileNumber, Offset
    <2>2. /\ Constructed(s) \in Stream /\ Constructed(s).files = s.files
          /\ Constructed(s).offset = 0 /\ Constructed(s).number = 0
      BY <2>1 DEF Constructed, Stream
    <2>3. Len(s.files[0]) \in Nat
      BY <2>1 DEF Stream
    <2> QED
      BY <2>2, <2>3 DEF OffsetInFile
  <1>4. blocks'.files = blocks.files /\ undos'.files = undos.files
    BY <1>1, <1>2, <1>3
  <1>5. \A e \in issued' : EntryInFile(e)' /\ EntryBytes(e)'
    BY <1>1, <1>2, <1>4 DEF EntryInFile, EntryBytes, FileOf
  <1>6. TypeOK'
    BY <1>1, <1>2, <1>3 DEF TypeOK
  <1>7. OffsetInFile(blocks)' /\ OffsetInFile(undos)'
    BY <1>1, <1>2, <1>3
  <1>8. OneTextPerInfo' /\ FileSizeBounded'
    BY <1>1, <1>2 DEF OneTextPerInfo, FileSizeBounded
  <1> QED
    BY <1>1, <1>5, <1>6, <1>7, <1>8 DEF IInv

\* Every step keeps the invariant.
LEMMA NextIInv == IInv /\ [Next]_vars => IInv'
  <1> SUFFICES ASSUME IInv, [Next]_vars PROVE IInv'
    OBVIOUS
  <1>1. ASSUME NEW b \in BlockTexts, WriteBlock(b) PROVE IInv'
    BY <1>1, WriteBlockIInv
  <1>2. ASSUME NEW u \in UndoTexts, WriteUndoBlock(u) PROVE IInv'
    BY <1>2, WriteUndoBlockIInv
  <1>3. ASSUME NEW b \in BlockTexts, NEW u \in UndoTexts, StoreBlock(b, u) PROVE IInv'
    BY <1>3, StoreBlockIInv
  <1>4. CASE Restart
    BY <1>4, RestartIInv
  <1>5. CASE UNCHANGED vars
    BY <1>5 DEF vars, IInv, TypeOK, OffsetInFile, AtEnd, EntryInFile, EntryBytes, FileOf,
                OneTextPerInfo, FileSizeBounded
  <1> QED
    BY <1>1, <1>2, <1>3, <1>4, <1>5 DEF Next
----------------------------------------------------------------------------
(* Theorems. *)

\* The inductive invariant holds in every reachable state.
THEOREM Invariant == Spec => []IInv
  <1> QED
    BY InitIInv, NextIInv, PTL DEF Spec

\* Every variable has its type in every reachable state.
THEOREM TypeCorrect == Spec => []TypeOK
  <1>1. IInv => TypeOK
    BY DEF IInv
  <1> QED
    BY <1>1, Invariant, PTL

\* No file grows past the maximum and a byte while the offsets are intact and
\* every text fits a file.
THEOREM FilesStayBounded == Spec => []FileSizeBounded
  <1>1. IInv => FileSizeBounded
    BY DEF IInv
  <1> QED
    BY <1>1, Invariant, PTL

\* No read of an issued FileInfo makes read_block or read_undo_block exit.
THEOREM ReadsNeverExit == Spec => []ReadNeverExits
  <1>1. IInv => ReadNeverExits
    <2> SUFFICES ASSUME IInv, NEW e \in issued
                 PROVE  Read(e.info).status = "ok"
      BY DEF ReadNeverExits
    <2>1. EntryInFile(e) /\ e \in Entry /\ blocks \in Stream /\ undos \in Stream
      BY DEF IInv, TypeOK
    <2>2. /\ e.info.start \in Nat /\ e.info.end \in Nat
          /\ FileOf(e.info) \in Seq(Byte) /\ Len(FileOf(e.info)) \in Nat
      BY <2>1 DEF Entry, FileInfo, Offset, FileOf, Stream
    <2>3. /\ ~(e.info.end < e.info.start)
          /\ ~(e.info.end > Len(FileOf(e.info)))
      BY <2>1, <2>2 DEF EntryInFile
    <2> QED
      BY <2>2, <2>3 DEF Read
  <1> QED
    BY <1>1, Invariant, PTL

\* What is read for an entry of the invariant.
LEMMA ReadFacts ==
    ASSUME NEW e \in Entry, blocks \in Stream, undos \in Stream, EntryInFile(e)
    PROVE  /\ FileOf(e.info) \in Seq(Byte)
           /\ Len(FileOf(e.info)) \in Nat
           /\ e.info.start \in Nat /\ e.info.end \in Nat
           /\ e.info.start <= e.info.end /\ e.info.end < Len(FileOf(e.info))
           /\ Read(e.info) = [status |-> "ok",
                              text |-> SubSeq(FileOf(e.info), e.info.start + 1, e.info.end)]
  <1>1. /\ e.info.start \in Nat /\ e.info.end \in Nat
        /\ FileOf(e.info) \in Seq(Byte) /\ Len(FileOf(e.info)) \in Nat
    BY DEF Entry, FileInfo, Offset, FileOf, Stream
  <1>2. /\ e.info.start <= e.info.end /\ e.info.end < Len(FileOf(e.info))
        /\ ~(e.info.end < e.info.start)
        /\ ~(e.info.end > Len(FileOf(e.info)))
    BY <1>1 DEF EntryInFile
  <1> QED
    BY <1>1, <1>2 DEF Read

\* A part of a sequence that lies elsewhere in another is a SubSeq of that.
LEMMA SubSeqFacts ==
    ASSUME NEW file \in Seq(Byte), NEW text \in Seq(Byte), NEW m \in Nat,
           m + Len(text) <= Len(file),
           \A i \in 1 .. Len(text) : file[m + i] = text[i]
    PROVE  SubSeq(file, m + 1, m + Len(text)) = text
  <1> DEFINE low  == m + 1
             high == m + Len(text)
             part == SubSeq(file, low, high)
  <1>1. Len(text) \in Nat /\ Len(file) \in Nat
    OBVIOUS
  <1>2. low \in Int /\ high \in Int
    BY <1>1
  <1>3. \A i \in low .. high : file[i] \in Byte
    <2> TAKE i \in low .. high
    <2>1. i \in 1 .. Len(file)
      BY <1>1
    <2> QED
      BY <2>1
  <1>4. /\ high - low + 1 = Len(text)
        /\ low > high => Len(text) = 0
        /\ \A i \in 1 .. Len(text) : low + i - 1 = m + i
    BY <1>1
  <1> HIDE DEF low, high
  <1>5. /\ part \in Seq(Byte)
        /\ Len(part) = IF low <= high THEN high - low + 1 ELSE 0
        /\ \A i \in 1 .. high - low + 1 : part[i] = file[low + i - 1]
    BY <1>2, <1>3, SubSeqProperties
  <1> HIDE DEF part
  <1>6. Len(part) = Len(text)
    BY <1>1, <1>2, <1>4, <1>5
  <1>7. ASSUME NEW i \in 1 .. Len(text)
        PROVE  part[i] = text[i]
    BY <1>4, <1>5
  <1>8. part = text
    BY <1>5, <1>6, <1>7, SeqEqual
  <1> QED
    BY <1>8 DEF part, low, high

\* A NUL-free text written while the offsets were intact reads back as it was
\* written, in every later state.
THEOREM TextsReadBack == Spec => []ReadBack
  <1>1. IInv => ReadBack
    <2> SUFFICES ASSUME IInv, NEW e \in issued, e.intact, NulFree(e.text)
                 PROVE  Read(e.info) = [status |-> "ok", text |-> e.text]
      BY DEF ReadBack
    <2>1. /\ e \in Entry /\ e.text \in Seq(Byte) /\ EntryInFile(e) /\ EntryBytes(e)
          /\ blocks \in Stream /\ undos \in Stream
      BY TextAssumption DEF IInv, TypeOK, Entry, Texts
    <2>2. /\ FileOf(e.info) \in Seq(Byte)
          /\ e.info.start \in Nat
          /\ Len(FileOf(e.info)) \in Nat /\ e.info.end \in Nat
          /\ e.info.end < Len(FileOf(e.info))
          /\ Read(e.info) = [status |-> "ok",
                             text |-> SubSeq(FileOf(e.info), e.info.start + 1, e.info.end)]
      BY <2>1, ReadFacts
    <2>3. /\ e.info.end = e.info.start + Len(e.text)
          /\ \A i \in 1 .. Len(e.text) : FileOf(e.info)[e.info.start + i] = e.text[i]
      BY <2>1 DEF EntryBytes
    <2>4. SubSeq(FileOf(e.info), e.info.start + 1, e.info.start + Len(e.text)) = e.text
      <3> DEFINE file == FileOf(e.info)
                 m    == e.info.start
                 text == e.text
      <3>1. /\ file \in Seq(Byte) /\ text \in Seq(Byte) /\ m \in Nat
            /\ m + Len(text) <= Len(file)
            /\ \A i \in 1 .. Len(text) : file[m + i] = text[i]
        BY <2>1, <2>2, <2>3
      <3> HIDE DEF file, m, text
      <3>2. SubSeq(file, m + 1, m + Len(text)) = text
        BY <3>1, SubSeqFacts
      <3> QED
        BY <3>2 DEF file, m, text
    <2> QED
      BY <2>2, <2>3, <2>4
  <1> QED
    BY <1>1, Invariant, PTL

\* The bytes between two places are the same in a file that only grew.
LEMMA SubSeqKept ==
    ASSUME NEW file \in Seq(Byte), NEW file2 \in Seq(Byte), NEW m \in Nat, NEW n \in Nat,
           m <= n, n <= Len(file), Len(file) <= Len(file2),
           \A i \in 1 .. Len(file) : file2[i] = file[i]
    PROVE  SubSeq(file2, m + 1, n) = SubSeq(file, m + 1, n)
  <1> DEFINE low   == m + 1
             part  == SubSeq(file, low, n)
             part2 == SubSeq(file2, low, n)
  <1>1. /\ Len(file) \in Nat /\ Len(file2) \in Nat
        /\ low \in Int /\ n \in Int
    OBVIOUS
  <1>2. \A i \in low .. n : i \in 1 .. Len(file) /\ i \in 1 .. Len(file2)
    BY <1>1
  <1>3. \A i \in low .. n : file[i] \in Byte
    BY <1>2
  <1>4. \A i \in low .. n : file2[i] \in Byte
    BY <1>2
  <1>5. /\ n - low + 1 = n - m
        /\ \A i \in 1 .. n - m : low + i - 1 \in 1 .. Len(file)
    BY <1>1
  <1> HIDE DEF low
  <1>6. /\ part \in Seq(Byte)
        /\ Len(part) = IF low <= n THEN n - low + 1 ELSE 0
        /\ \A i \in 1 .. n - low + 1 : part[i] = file[low + i - 1]
    BY <1>1, <1>3, SubSeqProperties
  <1>7. /\ part2 \in Seq(Byte)
        /\ Len(part2) = IF low <= n THEN n - low + 1 ELSE 0
        /\ \A i \in 1 .. n - low + 1 : part2[i] = file2[low + i - 1]
    BY <1>1, <1>4, SubSeqProperties
  <1> HIDE DEF part, part2
  <1>8. Len(part) = Len(part2) /\ Len(part) <= n - m
    BY <1>1, <1>5, <1>6, <1>7
  <1>9. ASSUME NEW i \in 1 .. Len(part)
        PROVE  part[i] = part2[i]
    <2>1. i \in 1 .. n - m
      BY <1>1, <1>6, <1>8, LenProperties
    <2> QED
      BY <1>5, <1>6, <1>7, <2>1
  <1>10. part2 = part
    BY <1>6, <1>7, <1>8, <1>9, SeqEqual
  <1> QED
    BY <1>10 DEF part, part2, low

\* A step only adds entries, and only adds bytes to the files.
LEMMA NextGrows ==
    ASSUME IInv, Next
    PROVE  issued \subseteq issued' /\ Grown(blocks, blocks') /\ Grown(undos, undos')
  <1>1. blocks \in Stream /\ undos \in Stream
    BY DEF IInv, TypeOK
  <1>2. ASSUME NEW b \in BlockTexts, WriteBlock(b)
        PROVE  issued \subseteq issued' /\ Grown(blocks, blocks') /\ Grown(undos, undos')
    <2>1. /\ Fits(blocks, b) /\ blocks' \in Appended(blocks, b) /\ undos' = undos
          /\ issued \subseteq issued' /\ b \in Texts
      BY <1>2 DEF WriteBlock, Texts
    <2> QED
      BY <1>1, <2>1, StreamFacts, GrownSame
  <1>3. ASSUME NEW u \in UndoTexts, WriteUndoBlock(u)
        PROVE  issued \subseteq issued' /\ Grown(blocks, blocks') /\ Grown(undos, undos')
    <2>1. /\ Fits(undos, u) /\ undos' \in Appended(undos, u) /\ blocks' = blocks
          /\ issued \subseteq issued' /\ u \in Texts
      BY <1>3 DEF WriteUndoBlock, Texts
    <2> QED
      BY <1>1, <2>1, StreamFacts, GrownSame
  <1>4. ASSUME NEW b \in BlockTexts, NEW u \in UndoTexts, StoreBlock(b, u)
        PROVE  issued \subseteq issued' /\ Grown(blocks, blocks') /\ Grown(undos, undos')
    <2>1. /\ Fits(blocks, b) /\ blocks' \in Appended(blocks, b) /\ b \in Texts
          /\ Fits(undos, u) /\ undos' \in Appended(undos, u) /\ u \in Texts
          /\ issued \subseteq issued'
      BY <1>4 DEF StoreBlock, Texts
    <2> QED
      BY <2>1, StreamFacts
  <1>5. ASSUME Restart
        PROVE  issued \subseteq issued' /\ Grown(blocks, blocks') /\ Grown(undos, undos')
    <2>1. blocks'.files = blocks.files /\ undos'.files = undos.files /\ issued' = issued
      BY <1>1, <1>5 DEF Restart, Constructed, Stream
    <2>2. Grown(blocks, blocks) /\ Grown(undos, undos)
      BY <1>1, GrownSame
    <2> QED
      BY <2>1, <2>2 DEF Grown
  <1> QED
    BY <1>2, <1>3, <1>4, <1>5 DEF Next

\* What an entry reads does not change while the streams grow.
LEMMA ReadKept ==
    ASSUME IInv, IInv', NEW e \in issued, e \in issued',
           Grown(blocks, blocks'), Grown(undos, undos')
    PROVE  Read(e.info)' = Read(e.info)
  <1> DEFINE file  == FileOf(e.info)
             file2 == FileOf(e.info)'
  <1>1. /\ e \in Entry /\ EntryInFile(e) /\ EntryInFile(e)'
        /\ blocks \in Stream /\ undos \in Stream
        /\ blocks' \in Stream /\ undos' \in Stream
    BY DEF IInv, TypeOK
  <1>2. /\ file \in Seq(Byte) /\ Len(file) \in Nat
        /\ e.info.start \in Nat /\ e.info.end \in Nat
        /\ e.info.start <= e.info.end /\ e.info.end < Len(file)
        /\ Read(e.info) = [status |-> "ok", text |-> SubSeq(file, e.info.start + 1, e.info.end)]
    BY <1>1, ReadFacts
  <1>3. e.info \in FileInfo
    BY <1>1 DEF Entry
  <1>4. /\ file2 \in Seq(Byte) /\ Len(file2) \in Nat /\ Len(file) <= Len(file2)
        /\ \A i \in 1 .. Len(file) : file2[i] = file[i]
    BY <1>1, <1>3, FileKept
  <1>5. Read(e.info)' = [status |-> "ok", text |-> SubSeq(file2, e.info.start + 1, e.info.end)]
    <2>1. e.info.start <= e.info.end /\ e.info.end < Len(file2)
      BY <1>1 DEF EntryInFile
    <2>2. ~(e.info.end < e.info.start) /\ ~(e.info.end > Len(file2))
      BY <1>2, <1>4, <2>1
    <2> QED
      BY <1>2, <2>2 DEF Read
  <1> HIDE DEF file, file2
  <1>6. SubSeq(file2, e.info.start + 1, e.info.end) = SubSeq(file, e.info.start + 1, e.info.end)
    <2>1. e.info.end <= Len(file)
      BY <1>2
    <2> QED
      BY <1>2, <1>4, <2>1, SubSeqKept
  <1> QED
    BY <1>2, <1>5, <1>6

\* The writer implements the write-once store: an entry, once there, is never
\* changed or removed by a write, a rollover or a restart, and no FileInfo is
\* issued twice.
THEOREM ImplementsStore == Spec => StoreSpec
  <1>1. Init => Store!Init
    BY DEF Init, Store!Init, Contents
  <1>2. IInv /\ IInv' /\ [Next]_vars => [Store!Add]_Contents
    <2> SUFFICES ASSUME IInv, IInv', [Next]_vars
                 PROVE  Store!Add \/ Contents' = Contents
      OBVIOUS
    <2>1. CASE Next
      <3>1. issued \subseteq issued' /\ Grown(blocks, blocks') /\ Grown(undos, undos')
        BY <2>1, NextGrows
      <3>2. \A e \in issued : Read(e.info)' = Read(e.info)
        BY <3>1, ReadKept
      <3>3. Contents \subseteq Contents'
        BY <3>1, <3>2 DEF Contents
      <3>4. Store!IsMap(Contents')
        BY DEF IInv, OneTextPerInfo, Store!IsMap, Contents
      <3> QED
        BY <3>3, <3>4 DEF Store!Add
    <2>2. CASE UNCHANGED vars
      BY <2>2 DEF vars, Contents, Read, FileOf
    <2> QED
      BY <2>1, <2>2
  <1> QED
    BY <1>1, <1>2, Invariant, PTL DEF Spec, StoreSpec, Store!Spec
=============================================================================
