-------------------------- MODULE PrimitivesProofs --------------------------
(***************************************************************************)
(* Proofs about the messages and the values of a node: what is serialized  *)
(* is read back as it was.                                                 *)
(***************************************************************************)
EXTENDS Primitives, WireProofs

\* A text of the size computed for it is serialized whole.
LEMMA SerializedText ==
    ASSUME NEW text \in Text
    PROVE  SerializeToString(Len(text), text) = text
  <1> DEFINE zeros == [i \in 1 .. Len(text) |-> 0]
  <1>1. Len(text) \in Nat
    BY TextFacts
  <1>2. zeros \in Seq(Byte)
    <2>1. 0 \in Byte
      BY ByteFacts
    <2> QED
      BY <1>1, <2>1
  <1> HIDE DEF zeros
  <1>3. SubSeq(text \o zeros, 1, Len(text)) = text
    BY <1>2, BehindConcat DEF Text
  <1> QED
    BY <1>3 DEF SerializeToString, zeros

----------------------------------------------------------------------------
(* Messages of numbers only. *)

\* The size of a number field: 0 for the number 0, else at most 6.
LEMMA UInt32SizeFacts ==
    ASSUME NEW v \in Value
    PROVE  UInt32Size(v) \in Nat /\ UInt32Size(v) <= 6 /\ (UInt32Size(v) = 0 <=> v = 0)
  <1>1. VarintSize(v) \in Nat /\ VarintSize(v) <= 5 /\ VarintSize(v) > 0
    <2>1. VarintSize(v) \in 1 .. 5
      BY VarintBytes
    <2> QED
      BY <2>1
  <1> QED
    BY <1>1 DEF UInt32Size

\* A field whose number no other piece has is read from the whole.
LEMMA HoldsBeside ==
    ASSUME NEW a \in Seq(FieldSet), NEW b \in Seq(FieldSet), NEW number, NEW v
    PROVE  /\ HoldsVarint(a, number, v) /\ (\A f \in ToSet(b) : ~IsVarint(f, number))
                => HoldsVarint(a \o b, number, v)
           /\ HoldsVarint(b, number, v) /\ (\A f \in ToSet(a) : ~IsVarint(f, number))
                => HoldsVarint(a \o b, number, v)
           /\ HoldsRun(a, number, v) /\ (\A f \in ToSet(b) : ~IsRun(f, number))
                => HoldsRun(a \o b, number, v)
           /\ HoldsRun(b, number, v) /\ (\A f \in ToSet(a) : ~IsRun(f, number))
                => HoldsRun(a \o b, number, v)
  <1>1. ToSet(a \o b) = ToSet(a) \cup ToSet(b)
    BY FieldsConcat
  <1> QED
    BY <1>1 DEF HoldsVarint, HoldsRun

\* A text with its fields, a number in one of them.
HoldsOnly(fields, from, to) ==
    \A f \in ToSet(fields) : f.wire = 0 /\ f.number \in from .. to

\* One more number field behind the fields of a message.
LEMMA OneMore ==
    ASSUME NEW number \in Number, NEW v \in Value, number > 1,
           NEW text, NEW size \in Nat, NEW fields, WrittenAs(text, size, FALSE, fields),
           HoldsOnly(fields, 1, number - 1)
    PROVE  /\ WrittenAs(text \o UInt32(number, v), size + UInt32Size(v), FALSE,
                      fields \o UInt32Fields(number, v))
           /\ HoldsOnly(fields \o UInt32Fields(number, v), 1, number)
           /\ HoldsVarint(fields \o UInt32Fields(number, v), number, v)
           /\ \A k \in 1 .. number - 1 : \A x : HoldsVarint(fields, k, x) =>
                    HoldsVarint(fields \o UInt32Fields(number, v), k, x)
  <1> DEFINE last == UInt32Fields(number, v)
  <1>1. WrittenAs(UInt32(number, v), UInt32Size(v), FALSE, last) /\ UInt32Size(v) \in Nat
    BY UInt32Written
  <1>2. WrittenAs(text \o UInt32(number, v), size + UInt32Size(v), FALSE \/ FALSE, fields \o last)
    <2> HIDE DEF last
    <2> QED
      BY <1>1, WrittenConcat
  <1>3. WrittenAs(text \o UInt32(number, v), size + UInt32Size(v), FALSE, fields \o last)
    <2> HIDE DEF last
    <2> QED
      BY <1>2, WrittenZero
  <1>4. fields \in Seq(FieldSet) /\ last \in Seq(FieldSet)
    BY GoodFieldSeq, UInt32FieldsAre DEF WrittenAs
  <1>5. /\ \A f \in ToSet(last) : f.number = number /\ f.wire = 0 /\ f.value = v
        /\ v # 0 => \E f \in ToSet(last) : IsVarint(f, number)
    BY UInt32FieldsAre
  <1> HIDE DEF last
  <1>6. ToSet(fields \o last) = ToSet(fields) \cup ToSet(last)
    BY <1>4, FieldsConcat
  <1>7. number \in Int
    BY DEF Number
  <1>8. HoldsOnly(fields \o last, 1, number)
    <2>1. \A k \in 1 .. number - 1 : k \in 1 .. number
      BY <1>7
    <2>2. number \in 1 .. number
      BY <1>7 DEF Number
    <2> QED
      BY <1>5, <1>6, <2>1, <2>2 DEF HoldsOnly
  <1>9. HoldsVarint(fields \o last, number, v)
    <2>1. \A f \in ToSet(fields) : f.number # number
      BY <1>7 DEF HoldsOnly
    <2> QED
      BY <1>5, <1>6, <2>1 DEF HoldsVarint, IsVarint
  <1>10. ASSUME NEW k \in 1 .. number - 1, NEW x, HoldsVarint(fields, k, x)
         PROVE  HoldsVarint(fields \o last, k, x)
    <2>1. k # number
      BY <1>7
    <2>2. \A f \in ToSet(last) : ~IsVarint(f, k)
      BY <1>5, <2>1 DEF IsVarint
    <2> QED
      BY <1>4, <1>10, <2>2, HoldsBeside
  <1> QED
    BY <1>3, <1>8, <1>9, <1>10 DEF last

Numbers(a, b, c, d, e, f) ==
    UInt32(1, a) \o UInt32(2, b) \o UInt32(3, c) \o UInt32(4, d) \o UInt32(5, e) \o UInt32(6, f)
NumbersSize(a, b, c, d, e, f) ==
    UInt32Size(a) + UInt32Size(b) + UInt32Size(c) + UInt32Size(d) + UInt32Size(e) + UInt32Size(f)
NumberFields(a, b, c, d, e, f) ==
    UInt32Fields(1, a) \o UInt32Fields(2, b) \o UInt32Fields(3, c)
        \o UInt32Fields(4, d) \o UInt32Fields(5, e) \o UInt32Fields(6, f)

\* Six numbers, of which a message may have fewer.
LEMMA NumbersWritten ==
    ASSUME NEW a \in Value, NEW b \in Value, NEW c \in Value,
           NEW d \in Value, NEW e \in Value, NEW f \in Value
    PROVE  /\ WrittenAs(Numbers(a, b, c, d, e, f), NumbersSize(a, b, c, d, e, f), FALSE,
                      NumberFields(a, b, c, d, e, f))
           /\ NumbersSize(a, b, c, d, e, f) \in Nat /\ NumbersSize(a, b, c, d, e, f) <= 36
           /\ NumbersSize(a, b, c, d, e, f) = 0 <=> (a = 0 /\ b = 0 /\ c = 0 /\ d = 0 /\ e = 0 /\ f = 0)
           /\ HoldsVarint(NumberFields(a, b, c, d, e, f), 1, a)
           /\ HoldsVarint(NumberFields(a, b, c, d, e, f), 2, b)
           /\ HoldsVarint(NumberFields(a, b, c, d, e, f), 3, c)
           /\ HoldsVarint(NumberFields(a, b, c, d, e, f), 4, d)
           /\ HoldsVarint(NumberFields(a, b, c, d, e, f), 5, e)
           /\ HoldsVarint(NumberFields(a, b, c, d, e, f), 6, f)
  <1> DEFINE t1 == UInt32(1, a)
             t2 == t1 \o UInt32(2, b)
             t3 == t2 \o UInt32(3, c)
             t4 == t3 \o UInt32(4, d)
             t5 == t4 \o UInt32(5, e)
             t6 == t5 \o UInt32(6, f)
             s1 == UInt32Size(a)
             s2 == s1 + UInt32Size(b)
             s3 == s2 + UInt32Size(c)
             s4 == s3 + UInt32Size(d)
             s5 == s4 + UInt32Size(e)
             s6 == s5 + UInt32Size(f)
             f1 == UInt32Fields(1, a)
             f2 == f1 \o UInt32Fields(2, b)
             f3 == f2 \o UInt32Fields(3, c)
             f4 == f3 \o UInt32Fields(4, d)
             f5 == f4 \o UInt32Fields(5, e)
             f6 == f5 \o UInt32Fields(6, f)
  <1>1. \A v \in Value : UInt32Size(v) \in Nat /\ UInt32Size(v) <= 6 /\ (UInt32Size(v) = 0 <=> v = 0)
    BY UInt32SizeFacts
  <1>2. /\ WrittenAs(t1, s1, FALSE, f1) /\ s1 \in Nat
        /\ HoldsOnly(f1, 1, 1) /\ HoldsVarint(f1, 1, a)
    <2>1. 1 \in Number
      BY DEF Number
    <2>2. WrittenAs(t1, s1, FALSE, f1) /\ s1 \in Nat
      BY <2>1, UInt32Written
    <2>3. /\ \A g \in ToSet(f1) : g.number = 1 /\ g.wire = 0 /\ g.value = a
          /\ a # 0 => \E g \in ToSet(f1) : IsVarint(g, 1)
      BY <2>1, UInt32FieldsAre
    <2> HIDE DEF t1, s1, f1
    <2>4. 1 \in 1 .. 1
      OBVIOUS
    <2>5. HoldsOnly(f1, 1, 1)
      BY <2>3, <2>4 DEF HoldsOnly
    <2>6. HoldsVarint(f1, 1, a)
      BY <2>3 DEF HoldsVarint, IsVarint
    <2> QED
      BY <2>2, <2>5, <2>6
  <1>3. /\ WrittenAs(t2, s2, FALSE, f2) /\ s2 \in Nat
        /\ HoldsOnly(f2, 1, 2)
        /\ HoldsVarint(f2, 1, a)
        /\ HoldsVarint(f2, 2, b)
    <2> HIDE DEF t1, s1, f1
    <2>1. 2 \in Number /\ 2 > 1 /\ 2 - 1 = 1
      BY DEF Number
    <2>2. /\ WrittenAs(t2, s2, FALSE, f2) /\ HoldsOnly(f2, 1, 2) /\ HoldsVarint(f2, 2, b)
          /\ \A k \in 1 .. 2 - 1 : \A x : HoldsVarint(f1, k, x) => HoldsVarint(f2, k, x)
      BY <1>2, <2>1, OneMore
    <2>3. s2 \in Nat
      BY <1>1, <1>2
    <2> HIDE DEF f2
    <2>4. 1 \in 1 .. 2 - 1
      OBVIOUS
    <2> QED
      BY <1>2, <2>2, <2>3, <2>4
  <1>4. /\ WrittenAs(t3, s3, FALSE, f3) /\ s3 \in Nat
        /\ HoldsOnly(f3, 1, 3)
        /\ HoldsVarint(f3, 1, a)
        /\ HoldsVarint(f3, 2, b)
        /\ HoldsVarint(f3, 3, c)
    <2> HIDE DEF t2, s2, f2
    <2>1. 3 \in Number /\ 3 > 1 /\ 3 - 1 = 2
      BY DEF Number
    <2>2. /\ WrittenAs(t3, s3, FALSE, f3) /\ HoldsOnly(f3, 1, 3) /\ HoldsVarint(f3, 3, c)
          /\ \A k \in 1 .. 3 - 1 : \A x : HoldsVarint(f2, k, x) => HoldsVarint(f3, k, x)
      BY <1>3, <2>1, OneMore
    <2>3. s3 \in Nat
      BY <1>1, <1>3
    <2> HIDE DEF f3
    <2>4. 1 \in 1 .. 3 - 1 /\ 2 \in 1 .. 3 - 1
      OBVIOUS
    <2> QED
      BY <1>3, <2>2, <2>3, <2>4
  <1>5. /\ WrittenAs(t4, s4, FALSE, f4) /\ s4 \in Nat
        /\ HoldsOnly(f4, 1, 4)
        /\ HoldsVarint(f4, 1, a)
        /\ HoldsVarint(f4, 2, b)
        /\ HoldsVarint(f4, 3, c)
        /\ HoldsVarint(f4, 4, d)
    <2> HIDE DEF t3, s3, f3
    <2>1. 4 \in Number /\ 4 > 1 /\ 4 - 1 = 3
      BY DEF Number
    <2>2. /\ WrittenAs(t4, s4, FALSE, f4) /\ HoldsOnly(f4, 1, 4) /\ HoldsVarint(f4, 4, d)
          /\ \A k \in 1 .. 4 - 1 : \A x : HoldsVarint(f3, k, x) => HoldsVarint(f4, k, x)
      BY <1>4, <2>1, OneMore
    <2>3. s4 \in Nat
      BY <1>1, <1>4
    <2> HIDE DEF f4
    <2>4. 1 \in 1 .. 4 - 1 /\ 2 \in 1 .. 4 - 1 /\ 3 \in 1 .. 4 - 1
      OBVIOUS
    <2> QED
      BY <1>4, <2>2, <2>3, <2>4
  <1>6. /\ WrittenAs(t5, s5, FALSE, f5) /\ s5 \in Nat
        /\ HoldsOnly(f5, 1, 5)
        /\ HoldsVarint(f5, 1, a)
        /\ HoldsVarint(f5, 2, b)
        /\ HoldsVarint(f5, 3, c)
        /\ HoldsVarint(f5, 4, d)
        /\ HoldsVarint(f5, 5, e)
    <2> HIDE DEF t4, s4, f4
    <2>1. 5 \in Number /\ 5 > 1 /\ 5 - 1 = 4
      BY DEF Number
    <2>2. /\ WrittenAs(t5, s5, FALSE, f5) /\ HoldsOnly(f5, 1, 5) /\ HoldsVarint(f5, 5, e)
          /\ \A k \in 1 .. 5 - 1 : \A x : HoldsVarint(f4, k, x) => HoldsVarint(f5, k, x)
      BY <1>5, <2>1, OneMore
    <2>3. s5 \in Nat
      BY <1>1, <1>5
    <2> HIDE DEF f5
    <2>4. 1 \in 1 .. 5 - 1 /\ 2 \in 1 .. 5 - 1 /\ 3 \in 1 .. 5 - 1 /\ 4 \in 1 .. 5 - 1
      OBVIOUS
    <2> QED
      BY <1>5, <2>2, <2>3, <2>4
  <1>7. /\ WrittenAs(t6, s6, FALSE, f6) /\ s6 \in Nat
        /\ HoldsOnly(f6, 1, 6)
        /\ HoldsVarint(f6, 1, a)
        /\ HoldsVarint(f6, 2, b)
        /\ HoldsVarint(f6, 3, c)
        /\ HoldsVarint(f6, 4, d)
        /\ HoldsVarint(f6, 5, e)
        /\ HoldsVarint(f6, 6, f)
    <2> HIDE DEF t5, s5, f5
    <2>1. 6 \in Number /\ 6 > 1 /\ 6 - 1 = 5
      BY DEF Number
    <2>2. /\ WrittenAs(t6, s6, FALSE, f6) /\ HoldsOnly(f6, 1, 6) /\ HoldsVarint(f6, 6, f)
          /\ \A k \in 1 .. 6 - 1 : \A x : HoldsVarint(f5, k, x) => HoldsVarint(f6, k, x)
      BY <1>6, <2>1, OneMore
    <2>3. s6 \in Nat
      BY <1>1, <1>6
    <2> HIDE DEF f6
    <2>4. 1 \in 1 .. 6 - 1 /\ 2 \in 1 .. 6 - 1 /\ 3 \in 1 .. 6 - 1 /\ 4 \in 1 .. 6 - 1 /\ 5 \in 1 .. 6 - 1
      OBVIOUS
    <2> QED
      BY <1>6, <2>2, <2>3, <2>4
  <1>8. /\ t6 = Numbers(a, b, c, d, e, f) /\ s6 = NumbersSize(a, b, c, d, e, f)
        /\ f6 = NumberFields(a, b, c, d, e, f)
    BY DEF Numbers, NumbersSize, NumberFields
  <1>9. s6 <= 36 /\ (s6 = 0 <=> a = 0 /\ b = 0 /\ c = 0 /\ d = 0 /\ e = 0 /\ f = 0)
    BY <1>1
  <1> HIDE DEF t6, s6, f6
  <1> QED
    BY <1>7, <1>8, <1>9

\* What a message of numbers is read as.
LEMMA NumbersRead ==
    ASSUME NEW a \in Value, NEW b \in Value, NEW c \in Value,
           NEW d \in Value, NEW e \in Value, NEW f \in Value,
           NEW text, text = Numbers(a, b, c, d, e, f),
           NEW fields, fields = NumberFields(a, b, c, d, e, f)
    PROVE  /\ text \in ShortText /\ Len(text) = NumbersSize(a, b, c, d, e, f) /\ 0 \notin ToSet(text)
           /\ text = <<>> <=> (a = 0 /\ b = 0 /\ c = 0 /\ d = 0 /\ e = 0 /\ f = 0)
           /\ FieldsUntil(text, NoSubmessage) = fields /\ ~Unparsed(text, NoSubmessage)
           /\ UInt32In(fields, 1) = a /\ UInt32In(fields, 2) = b /\ UInt32In(fields, 3) = c
           /\ UInt32In(fields, 4) = d /\ UInt32In(fields, 5) = e /\ UInt32In(fields, 6) = f
  <1> DEFINE size == NumbersSize(a, b, c, d, e, f)
  <1>1. /\ WrittenAs(text, size, FALSE, fields)
        /\ size \in Nat /\ size <= 36
        /\ size = 0 <=> (a = 0 /\ b = 0 /\ c = 0 /\ d = 0 /\ e = 0 /\ f = 0)
    <2>1. WrittenAs(text, size, FALSE, fields)
      BY NumbersWritten
    <2>2. size \in Nat /\ size <= 36
      BY NumbersWritten
    <2>3. size = 0 <=> (a = 0 /\ b = 0 /\ c = 0 /\ d = 0 /\ e = 0 /\ f = 0)
      <3>1. \A v \in Value : UInt32Size(v) \in Nat /\ (UInt32Size(v) = 0 <=> v = 0)
        BY UInt32SizeFacts
      <3> QED
        BY <3>1 DEF NumbersSize
    <2> QED
      BY <2>1, <2>2, <2>3
  <1>2. /\ HoldsVarint(fields, 1, a) /\ HoldsVarint(fields, 2, b) /\ HoldsVarint(fields, 3, c)
        /\ HoldsVarint(fields, 4, d) /\ HoldsVarint(fields, 5, e) /\ HoldsVarint(fields, 6, f)
    BY NumbersWritten, ZenonT(60)
  <1> HIDE DEF size
  <1>3. text \in Text /\ Len(text) = size /\ 0 \notin ToSet(text) /\ fields \in Seq(GoodFields)
    BY <1>1 DEF WrittenAs
  <1>4. text \in ShortText
    <2>1. Len(text) \in Value
      BY <1>1, <1>3, ValueFacts, SMT
    <2> QED
      BY <1>3, <2>1 DEF ShortText
  <1>5. FieldsOf[text] = fields
    BY <1>1, WrittenRead
  <1>6. Until(fields, NoSubmessage) = fields
    BY <1>3, UntilNoSubmessage
  <1>7. fields \in Seq(FieldSet)
    BY <1>3, GoodFieldSeq
  <1>8. FieldsUntil(text, NoSubmessage) = fields
    BY <1>5, <1>6 DEF FieldsUntil
  <1>9. ~Unparsed(text, NoSubmessage)
    <2>1. \A g \in ToSet(fields) : g \in GoodFields
      BY <1>3, ToSetFacts
    <2> QED
      BY <1>5, <2>1, GoodFieldFacts DEF Unparsed, NoSubmessage
  <1>10. /\ UInt32In(fields, 1) = a /\ UInt32In(fields, 2) = b /\ UInt32In(fields, 3) = c
         /\ UInt32In(fields, 4) = d /\ UInt32In(fields, 5) = e /\ UInt32In(fields, 6) = f
    BY <1>2, <1>7, UInt32InHeld
  <1>11. text = <<>> <=> size = 0
    BY <1>3, TextFacts
  <1>12. text = <<>> <=> (a = 0 /\ b = 0 /\ c = 0 /\ d = 0 /\ e = 0 /\ f = 0)
    BY <1>1, <1>11
  <1>13. Len(text) = NumbersSize(a, b, c, d, e, f)
    BY <1>3 DEF size
  <1> QED
    BY <1>3, <1>4, <1>8, <1>9, <1>10, <1>12, <1>13

\* A text that is what a message was written as, of the size announced, and
\* free of zero bytes.
PlainText(text, size) == text \in ShortText /\ Len(text) = size /\ 0 \notin ToSet(text)

HeaderMessages ==
    [version : Value, previous_block_hash : Value, merkle_root : Value,
     difficulty_target : Value, nonce : Value, timestamp : Value]
InputMessages == [reference_transaction_hash : Value, utxo_index : Value, signature : Value]

ZeroHeader(m) == /\ m.version = 0 /\ m.previous_block_hash = 0 /\ m.merkle_root = 0
                 /\ m.difficulty_target = 0 /\ m.nonce = 0 /\ m.timestamp = 0
ZeroInput(m) == m.reference_transaction_hash = 0 /\ m.utxo_index = 0 /\ m.signature = 0
ZeroOutput(m) == m.amount = 0 /\ m.public_key = 0

\* A block header is read as it was written; it is empty only when every
\* member is 0.
LEMMA HeaderMessage ==
    ASSUME NEW m \in HeaderMessages
    PROVE  /\ PlainText(PBlockHeaderText(m), PBlockHeaderSize(m))
           /\ PBlockHeaderText(m) = <<>> <=> ZeroHeader(m)
           /\ PBlockHeaderParse(PBlockHeaderText(m)) = m
           /\ ~PBlockHeaderFails(PBlockHeaderText(m))
  <1> DEFINE a == m.version
             b == m.previous_block_hash
             c == m.merkle_root
             d == m.difficulty_target
             e == m.nonce
             f == m.timestamp
             text == Numbers(a, b, c, d, e, f)
             fields == NumberFields(a, b, c, d, e, f)
  <1>1. a \in Value /\ b \in Value /\ c \in Value /\ d \in Value /\ e \in Value /\ f \in Value
    BY DEF HeaderMessages
  <1>2. /\ PBlockHeaderText(m) = text
        /\ PBlockHeaderSize(m) = NumbersSize(a, b, c, d, e, f)
    BY DEF PBlockHeaderText, PBlockHeaderSize, Numbers, NumbersSize
  <1>3. ZeroHeader(m) <=> (a = 0 /\ b = 0 /\ c = 0 /\ d = 0 /\ e = 0 /\ f = 0)
    BY DEF ZeroHeader
  <1>4. m = [version |-> a, previous_block_hash |-> b, merkle_root |-> c,
             difficulty_target |-> d, nonce |-> e, timestamp |-> f]
    BY DEF HeaderMessages
  <1> HIDE DEF a, b, c, d, e, f, text, fields
  <1>5. /\ text \in ShortText /\ Len(text) = NumbersSize(a, b, c, d, e, f) /\ 0 \notin ToSet(text)
        /\ text = <<>> <=> (a = 0 /\ b = 0 /\ c = 0 /\ d = 0 /\ e = 0 /\ f = 0)
        /\ FieldsUntil(text, NoSubmessage) = fields /\ ~Unparsed(text, NoSubmessage)
        /\ UInt32In(fields, 1) = a /\ UInt32In(fields, 2) = b /\ UInt32In(fields, 3) = c
        /\ UInt32In(fields, 4) = d /\ UInt32In(fields, 5) = e /\ UInt32In(fields, 6) = f
    BY <1>1, NumbersRead, SMTT(40) DEF text, fields
  <1>6. PBlockHeaderParse(text) = m
    BY <1>4, <1>5 DEF PBlockHeaderParse, PBlockHeaderFrom
  <1>7. PlainText(PBlockHeaderText(m), PBlockHeaderSize(m))
    BY <1>2, <1>5 DEF PlainText
  <1> QED
    BY <1>2, <1>3, <1>5, <1>6, <1>7 DEF PBlockHeaderFails

\* Fields of the value 0 are left out.
LEMMA NoNumber ==
    /\ \A number : UInt32(number, 0) = <<>>
    /\ UInt32Size(0) = 0 /\ 0 \in Value
    /\ \A t \in Text : t \o <<>> = t
    /\ \A n \in Nat : n + 0 = n
  <1>1. \A t \in Text : t \o <<>> = t
    BY ConcatEmptySeq DEF Text
  <1>2. 0 \in Value
    BY ValueFacts, SMT
  <1> QED
    BY <1>1, <1>2 DEF UInt32, UInt32Size

\* A transaction input is read as it was written.
LEMMA InputMessage ==
    ASSUME NEW m \in InputMessages
    PROVE  /\ PlainText(PTransactionInputText(m), PTransactionInputSize(m))
           /\ PTransactionInputText(m) = <<>> <=> ZeroInput(m)
           /\ PTransactionInputParse(PTransactionInputText(m)) = m
           /\ ~PTransactionInputFails(PTransactionInputText(m))
  <1> DEFINE a == m.reference_transaction_hash
             b == m.utxo_index
             c == m.signature
             text == Numbers(a, b, c, 0, 0, 0)
             fields == NumberFields(a, b, c, 0, 0, 0)
  <1>1. a \in Value /\ b \in Value /\ c \in Value /\ 0 \in Value
    BY NoNumber DEF InputMessages
  <1>2. /\ PTransactionInputText(m) = UInt32(1, a) \o UInt32(2, b) \o UInt32(3, c)
        /\ PTransactionInputSize(m) = UInt32Size(a) + UInt32Size(b) + UInt32Size(c)
    BY DEF PTransactionInputText, PTransactionInputSize
  <1>3. ZeroInput(m) <=> (a = 0 /\ b = 0 /\ c = 0)
    BY DEF ZeroInput
  <1>4. m = [reference_transaction_hash |-> a, utxo_index |-> b, signature |-> c]
    BY DEF InputMessages
  <1> HIDE DEF a, b, c, text, fields
  <1>5. /\ text \in ShortText /\ Len(text) = NumbersSize(a, b, c, 0, 0, 0) /\ 0 \notin ToSet(text)
        /\ text = <<>> <=> (a = 0 /\ b = 0 /\ c = 0)
        /\ FieldsUntil(text, NoSubmessage) = fields /\ ~Unparsed(text, NoSubmessage)
        /\ UInt32In(fields, 1) = a /\ UInt32In(fields, 2) = b /\ UInt32In(fields, 3) = c
    BY <1>1, NumbersRead, SMTT(40) DEF text, fields
  <1>6. PTransactionInputText(m) = text /\ PTransactionInputSize(m) = NumbersSize(a, b, c, 0, 0, 0)
    <2>1. UInt32(1, a) \in Text /\ UInt32(2, b) \in Text /\ UInt32(3, c) \in Text
      <3>1. 1 \in Number /\ 2 \in Number /\ 3 \in Number
        BY DEF Number
      <3> QED
        BY <1>1, <3>1, UInt32Written DEF WrittenAs
    <2>2. UInt32Size(a) \in Nat /\ UInt32Size(b) \in Nat /\ UInt32Size(c) \in Nat
      BY <1>1, UInt32SizeFacts
    <2>3. UInt32(1, a) \o UInt32(2, b) \o UInt32(3, c) \in Text
      BY <2>1, TextConcat
    <2> DEFINE t == UInt32(1, a) \o UInt32(2, b) \o UInt32(3, c)
               n == UInt32Size(a) + UInt32Size(b) + UInt32Size(c)
    <2>4. n \in Nat
      BY <2>2
    <2>5. /\ text = t \o UInt32(4, 0) \o UInt32(5, 0) \o UInt32(6, 0)
          /\ NumbersSize(a, b, c, 0, 0, 0) = n + UInt32Size(0) + UInt32Size(0) + UInt32Size(0)
      BY DEF text, Numbers, NumbersSize
    <2>6. PTransactionInputText(m) = t /\ PTransactionInputSize(m) = n /\ t \in Text
      BY <1>2, <2>3
    <2> DEFINE none == UInt32Size(0)
    <2>7. NumbersSize(a, b, c, 0, 0, 0) = n + none + none + none /\ none = 0
      BY <2>5, NoNumber
    <2> HIDE DEF t, n, none
    <2>8. n + none + none + none = n
      BY <2>4, <2>7
    <2>9. text = t \o <<>> \o <<>> \o <<>>
      <3>1. UInt32(4, 0) = <<>> /\ UInt32(5, 0) = <<>> /\ UInt32(6, 0) = <<>>
        BY NoNumber
      <3> QED
        BY <2>5, <3>1, Zenon
    <2>10. t \o <<>> = t
      BY <2>6, NoNumber
    <2>11. text = t
      BY <2>9, <2>10
    <2> QED
      BY <2>6, <2>7, <2>8, <2>11
  <1>7. PTransactionInputParse(text) = m
    BY <1>4, <1>5 DEF PTransactionInputParse, PTransactionInputFrom
  <1>8. PlainText(PTransactionInputText(m), PTransactionInputSize(m))
    BY <1>5, <1>6 DEF PlainText
  <1> QED
    BY <1>3, <1>5, <1>6, <1>7, <1>8 DEF PTransactionInputFails

\* A transaction output is read as it was written.
LEMMA OutputMessage ==
    ASSUME NEW m \in TransactionOutputs
    PROVE  /\ PlainText(PTransactionOutputText(m), PTransactionOutputSize(m))
           /\ PTransactionOutputText(m) = <<>> <=> ZeroOutput(m)
           /\ PTransactionOutputParse(PTransactionOutputText(m)) = m
           /\ ~PTransactionOutputFails(PTransactionOutputText(m))
  <1> DEFINE a == m.amount
             b == m.public_key
             text == Numbers(a, b, 0, 0, 0, 0)
             fields == NumberFields(a, b, 0, 0, 0, 0)
  <1>1. a \in Value /\ b \in Value /\ 0 \in Value
    BY NoNumber DEF TransactionOutputs
  <1>2. /\ PTransactionOutputText(m) = UInt32(1, a) \o UInt32(2, b)
        /\ PTransactionOutputSize(m) = UInt32Size(a) + UInt32Size(b)
    BY DEF PTransactionOutputText, PTransactionOutputSize
  <1>3. ZeroOutput(m) <=> (a = 0 /\ b = 0)
    BY DEF ZeroOutput
  <1>4. m = [amount |-> a, public_key |-> b]
    BY DEF TransactionOutputs
  <1> HIDE DEF a, b, text, fields
  <1>5. /\ text \in ShortText /\ Len(text) = NumbersSize(a, b, 0, 0, 0, 0) /\ 0 \notin ToSet(text)
        /\ text = <<>> <=> (a = 0 /\ b = 0)
        /\ FieldsUntil(text, NoSubmessage) = fields /\ ~Unparsed(text, NoSubmessage)
        /\ UInt32In(fields, 1) = a /\ UInt32In(fields, 2) = b
    BY <1>1, NumbersRead DEF text, fields
  <1>6. PTransactionOutputText(m) = text /\ PTransactionOutputSize(m) = NumbersSize(a, b, 0, 0, 0, 0)
    <2>1. UInt32(1, a) \in Text /\ UInt32(2, b) \in Text
      <3>1. 1 \in Number /\ 2 \in Number
        BY DEF Number
      <3> QED
        BY <1>1, <3>1, UInt32Written DEF WrittenAs
    <2>2. UInt32Size(a) \in Nat /\ UInt32Size(b) \in Nat
      BY <1>1, UInt32SizeFacts
    <2> DEFINE t == UInt32(1, a) \o UInt32(2, b)
               n == UInt32Size(a) + UInt32Size(b)
    <2>3. t \in Text
      BY <2>1, TextConcat
    <2>4. n \in Nat
      BY <2>2
    <2>5. /\ text = t \o UInt32(3, 0) \o UInt32(4, 0) \o UInt32(5, 0) \o UInt32(6, 0)
          /\ NumbersSize(a, b, 0, 0, 0, 0)
                = n + UInt32Size(0) + UInt32Size(0) + UInt32Size(0) + UInt32Size(0)
      BY DEF text, Numbers, NumbersSize
    <2>6. PTransactionOutputText(m) = t /\ PTransactionOutputSize(m) = n
      BY <1>2
    <2> DEFINE none == UInt32Size(0)
    <2>7. NumbersSize(a, b, 0, 0, 0, 0) = n + none + none + none + none /\ none = 0
      BY <2>5, NoNumber
    <2> HIDE DEF t, n, none
    <2>8. n + none + none + none + none = n
      BY <2>4, <2>7
    <2>9. text = t \o <<>> \o <<>> \o <<>> \o <<>>
      <3>1. UInt32(3, 0) = <<>> /\ UInt32(4, 0) = <<>> /\ UInt32(5, 0) = <<>> /\ UInt32(6, 0) = <<>>
        BY NoNumber
      <3> QED
        BY <2>5, <3>1, Zenon
    <2>10. t \o <<>> = t
      BY <2>3, NoNumber
    <2>11. text = t
      BY <2>9, <2>10
    <2> QED
      BY <2>6, <2>7, <2>8, <2>11
  <1>7. PTransactionOutputParse(text) = m
    BY <1>4, <1>5 DEF PTransactionOutputParse, PTransactionOutputFrom
  <1>8. PlainText(PTransactionOutputText(m), PTransactionOutputSize(m))
    BY <1>5, <1>6 DEF PlainText
  <1> QED
    BY <1>3, <1>5, <1>6, <1>7, <1>8 DEF PTransactionOutputFails

----------------------------------------------------------------------------
(* Lists of submessages.  g gives the text of each value. *)

SubmessagesGood(S, g, s, number) ==
    /\ Map(g, s) \in Seq(ShortText) /\ Len(Map(g, s)) = Len(s)
    /\ DOMAIN Map(g, s) = DOMAIN s
    /\ \A i \in DOMAIN s : s[i] \in S /\ Map(g, s)[i] = g[s[i]]
    /\ ToSet(Map(g, s)) = { g[e] : e \in ToSet(s) }
    /\ FlattenSeq([i \in DOMAIN s |-> Message(number, Len(g[s[i]]), g[s[i]])])
         = Flat(RunTextMap(number), Map(g, s))
    /\ SumOf([i \in DOMAIN s |-> RunSize(Len(g[s[i]]))]) = SumOf(Map(RunSizeMap, Map(g, s)))

\* A list of submessages of any kind: its texts, their sizes and what is read.
LEMMA SubmessagesAre ==
    ASSUME NEW S, NEW g, Into(g, S, ShortText), NEW s \in Seq(S), NEW number \in Number
    PROVE  SubmessagesGood(S, g, s, number)
  <1> DEFINE texts == Map(g, s)
  <1>1. texts \in Seq(ShortText) /\ Len(texts) = Len(s) /\ \A i \in 1 .. Len(s) : texts[i] = g[s[i]]
    BY MapFacts
  <1>2. DOMAIN texts = DOMAIN s /\ DOMAIN s = 1 .. Len(s) /\ Len(s) \in Nat
    BY LenProperties DEF Map
  <1> HIDE DEF texts
  <1>3. \A i \in DOMAIN s : s[i] \in S /\ texts[i] = g[s[i]] /\ texts[i] \in ShortText
    BY <1>1, <1>2, ElementOfSeq DEF Into
  <1>4. ToSet(texts) = { g[e] : e \in ToSet(s) }
    <2>1. ToSet(texts) = { texts[i] : i \in 1 .. Len(s) } /\ ToSet(s) = { s[i] : i \in 1 .. Len(s) }
      BY <1>1, ToSetFacts
    <2> QED
      BY <1>2, <1>3, <2>1
  <1>5. [i \in DOMAIN s |-> Message(number, Len(g[s[i]]), g[s[i]])] = Map(RunTextMap(number), texts)
    <2>1. \A i \in DOMAIN s :
            Message(number, Len(g[s[i]]), g[s[i]]) = RunTextMap(number)[texts[i]]
      BY <1>3 DEF Message, RunTextMap, RunText
    <2> QED
      BY <1>2, <2>1 DEF Map
  <1>6. [i \in DOMAIN s |-> RunSize(Len(g[s[i]]))] = Map(RunSizeMap, texts)
    <2>1. \A i \in DOMAIN s : RunSize(Len(g[s[i]])) = RunSizeMap[texts[i]]
      BY <1>3 DEF RunSizeMap
    <2> QED
      BY <1>2, <2>1 DEF Map
  <1> QED
    BY <1>1, <1>2, <1>3, <1>4, <1>5, <1>6 DEF texts, Flat, SubmessagesGood

InputTextMap  == [m \in InputMessages |-> PTransactionInputText(m)]
OutputTextMap == [m \in TransactionOutputs |-> PTransactionOutputText(m)]

\* The inputs of a transaction, as submessages.
LEMMA InputsAre ==
    ASSUME NEW s \in Seq(InputMessages)
    PROVE  /\ Map(InputTextMap, s) \in Seq(ShortText)
           /\ FlattenSeq([i \in DOMAIN s |->
                    Message(2, PTransactionInputSize(s[i]), PTransactionInputText(s[i]))])
                = Flat(RunTextMap(2), Map(InputTextMap, s))
           /\ SumOf([i \in DOMAIN s |-> RunSize(PTransactionInputSize(s[i]))])
                = SumOf(Map(RunSizeMap, Map(InputTextMap, s)))
           /\ [i \in DOMAIN Map(InputTextMap, s) |-> PTransactionInputParse(Map(InputTextMap, s)[i])] = s
           /\ \A text \in ToSet(Map(InputTextMap, s)) : ~PTransactionInputFails(text)
           /\ ZeroIn(Map(InputTextMap, s)) <=> \E m \in ToSet(s) : ZeroInput(m)
  <1> DEFINE g == InputTextMap
             texts == Map(g, s)
  <1>1. Into(g, InputMessages, ShortText)
    BY InputMessage DEF InputTextMap, Into, PlainText
  <1>2. \A m \in InputMessages :
            /\ g[m] = PTransactionInputText(m)
            /\ Len(g[m]) = PTransactionInputSize(m)
            /\ PTransactionInputParse(g[m]) = m /\ ~PTransactionInputFails(g[m])
            /\ g[m] = <<>> \/ 0 \in ToSet(g[m]) <=> ZeroInput(m)
    BY InputMessage DEF InputTextMap, PlainText
  <1>3. 2 \in Number
    BY DEF Number
  <1> HIDE DEF g
  <1>4. /\ texts \in Seq(ShortText) /\ Len(texts) = Len(s) /\ DOMAIN texts = DOMAIN s
        /\ \A i \in DOMAIN s : s[i] \in InputMessages /\ texts[i] = g[s[i]]
        /\ ToSet(texts) = { g[e] : e \in ToSet(s) }
        /\ FlattenSeq([i \in DOMAIN s |-> Message(2, Len(g[s[i]]), g[s[i]])])
                = Flat(RunTextMap(2), texts)
        /\ SumOf([i \in DOMAIN s |-> RunSize(Len(g[s[i]]))]) = SumOf(Map(RunSizeMap, texts))
    <2>1. SubmessagesGood(InputMessages, g, s, 2)
      BY <1>1, <1>3, SubmessagesAre
    <2> QED
      BY <2>1 DEF SubmessagesGood
  <1> HIDE DEF texts
  <1>5. [i \in DOMAIN s |-> Message(2, PTransactionInputSize(s[i]), PTransactionInputText(s[i]))]
            = [i \in DOMAIN s |-> Message(2, Len(g[s[i]]), g[s[i]])]
    BY <1>2, <1>4
  <1>6. [i \in DOMAIN s |-> RunSize(PTransactionInputSize(s[i]))] = [i \in DOMAIN s |-> RunSize(Len(g[s[i]]))]
    BY <1>2, <1>4
  <1>7. [i \in DOMAIN texts |-> PTransactionInputParse(texts[i])] = s
    <2>1. \A i \in DOMAIN s : PTransactionInputParse(texts[i]) = s[i]
      BY <1>2, <1>4
    <2>2. s = [i \in DOMAIN s |-> s[i]]
      BY LenProperties
    <2> QED
      BY <1>4, <2>1, <2>2
  <1>8. ToSet(s) \subseteq InputMessages
    BY ToSetFacts
  <1>9. \A text \in ToSet(texts) : ~PTransactionInputFails(text)
    BY <1>2, <1>4, <1>8
  <1>10. ZeroIn(texts) <=> \E m \in ToSet(s) : ZeroInput(m)
    <2>1. ZeroIn(texts) <=> \E m \in ToSet(s) : g[m] = <<>> \/ 0 \in ToSet(g[m])
      BY <1>4, ZenonT(60) DEF ZeroIn
    <2> QED
      BY <1>2, <1>8, <2>1
  <1> QED
    BY <1>4, <1>5, <1>6, <1>7, <1>9, <1>10 DEF texts, g

\* The outputs of a transaction, as submessages.
LEMMA OutputsAre ==
    ASSUME NEW s \in Seq(TransactionOutputs)
    PROVE  /\ Map(OutputTextMap, s) \in Seq(ShortText)
           /\ FlattenSeq([i \in DOMAIN s |->
                    Message(3, PTransactionOutputSize(s[i]), PTransactionOutputText(s[i]))])
                = Flat(RunTextMap(3), Map(OutputTextMap, s))
           /\ SumOf([i \in DOMAIN s |-> RunSize(PTransactionOutputSize(s[i]))])
                = SumOf(Map(RunSizeMap, Map(OutputTextMap, s)))
           /\ [i \in DOMAIN Map(OutputTextMap, s) |-> PTransactionOutputParse(Map(OutputTextMap, s)[i])] = s
           /\ \A text \in ToSet(Map(OutputTextMap, s)) : ~PTransactionOutputFails(text)
           /\ ZeroIn(Map(OutputTextMap, s)) <=> \E m \in ToSet(s) : ZeroOutput(m)
  <1> DEFINE g == OutputTextMap
             texts == Map(g, s)
  <1>1. Into(g, TransactionOutputs, ShortText)
    BY OutputMessage DEF OutputTextMap, Into, PlainText
  <1>2. \A m \in TransactionOutputs :
            /\ g[m] = PTransactionOutputText(m)
            /\ Len(g[m]) = PTransactionOutputSize(m)
            /\ PTransactionOutputParse(g[m]) = m /\ ~PTransactionOutputFails(g[m])
            /\ g[m] = <<>> \/ 0 \in ToSet(g[m]) <=> ZeroOutput(m)
    BY OutputMessage DEF OutputTextMap, PlainText
  <1>3. 3 \in Number
    BY DEF Number
  <1> HIDE DEF g
  <1>4. /\ texts \in Seq(ShortText) /\ Len(texts) = Len(s) /\ DOMAIN texts = DOMAIN s
        /\ \A i \in DOMAIN s : s[i] \in TransactionOutputs /\ texts[i] = g[s[i]]
        /\ ToSet(texts) = { g[e] : e \in ToSet(s) }
        /\ FlattenSeq([i \in DOMAIN s |-> Message(3, Len(g[s[i]]), g[s[i]])])
                = Flat(RunTextMap(3), texts)
        /\ SumOf([i \in DOMAIN s |-> RunSize(Len(g[s[i]]))]) = SumOf(Map(RunSizeMap, texts))
    <2>1. SubmessagesGood(TransactionOutputs, g, s, 3)
      BY <1>1, <1>3, SubmessagesAre
    <2> QED
      BY <2>1 DEF SubmessagesGood
  <1> HIDE DEF texts
  <1>5. [i \in DOMAIN s |-> Message(3, PTransactionOutputSize(s[i]), PTransactionOutputText(s[i]))]
            = [i \in DOMAIN s |-> Message(3, Len(g[s[i]]), g[s[i]])]
    BY <1>2, <1>4
  <1>6. [i \in DOMAIN s |-> RunSize(PTransactionOutputSize(s[i]))] = [i \in DOMAIN s |-> RunSize(Len(g[s[i]]))]
    BY <1>2, <1>4
  <1>7. [i \in DOMAIN texts |-> PTransactionOutputParse(texts[i])] = s
    <2>1. \A i \in DOMAIN s : PTransactionOutputParse(texts[i]) = s[i]
      BY <1>2, <1>4
    <2>2. s = [i \in DOMAIN s |-> s[i]]
      BY LenProperties
    <2> QED
      BY <1>4, <2>1, <2>2
  <1>8. ToSet(s) \subseteq TransactionOutputs
    BY ToSetFacts
  <1>9. \A text \in ToSet(texts) : ~PTransactionOutputFails(text)
    BY <1>2, <1>4, <1>8
  <1>10. ZeroIn(texts) <=> \E m \in ToSet(s) : ZeroOutput(m)
    <2>1. ZeroIn(texts) <=> \E m \in ToSet(s) : g[m] = <<>> \/ 0 \in ToSet(g[m])
      BY <1>4, SMTT(40) DEF ZeroIn
    <2> QED
      BY <1>2, <1>8, <2>1
  <1> QED
    BY <1>4, <1>5, <1>6, <1>7, <1>9, <1>10 DEF texts, g

\* The sizes of submessages: nothing is of size 0, and each fits in the sum.
LEMMA RunSizesSum ==
    ASSUME NEW texts \in Seq(ShortText)
    PROVE  /\ SumOf(Map(RunSizeMap, texts)) \in Nat
           /\ SumOf(Map(RunSizeMap, texts)) = 0 <=> texts = <<>>
           /\ \A i \in DOMAIN texts : Len(texts[i]) < SumOf(Map(RunSizeMap, texts))
  <1> DEFINE sizes == Map(RunSizeMap, texts)
  <1>1. 1 \in Number
    BY DEF Number
  <1>2. \A bytes \in ShortText : RunSize(Len(bytes)) \in Nat /\ RunSize(Len(bytes)) > Len(bytes)
    BY <1>1, RunWritten
  <1>3. Into(RunSizeMap, ShortText, Nat)
    BY <1>2 DEF Into, RunSizeMap
  <1>4. /\ sizes \in Seq(Nat) /\ Len(sizes) = Len(texts)
        /\ \A i \in 1 .. Len(texts) : sizes[i] = RunSizeMap[texts[i]]
    BY <1>3, MapFacts
  <1>5. /\ SumOf(sizes) \in Nat
        /\ \A i \in 1 .. Len(sizes) : sizes[i] <= SumOf(sizes)
        /\ (\A i \in 1 .. Len(sizes) : sizes[i] # 0) => Len(sizes) <= SumOf(sizes)
    BY <1>4, SumBounds
  <1>6. DOMAIN texts = 1 .. Len(texts) /\ Len(texts) \in Nat
        /\ \A i \in 1 .. Len(texts) : texts[i] \in ShortText
    BY LenProperties, ElementOfSeq
  <1>7. \A bytes \in ShortText : Len(bytes) \in Nat
    BY TextFacts DEF ShortText
  <1> HIDE DEF sizes
  <1>8. \A i \in 1 .. Len(texts) :
            sizes[i] \in Nat /\ sizes[i] > Len(texts[i]) /\ Len(texts[i]) \in Nat
    BY <1>2, <1>4, <1>6, <1>7 DEF RunSizeMap
  <1>9. \A i \in DOMAIN texts : Len(texts[i]) < SumOf(sizes)
    BY <1>4, <1>5, <1>6, <1>8, SMTT(40)
  <1>10. SumOf(sizes) = 0 => texts = <<>>
    <2>1. \A i \in 1 .. Len(sizes) : sizes[i] # 0
      BY <1>4, <1>8
    <2>2. SumOf(sizes) = 0 => Len(texts) = 0
      BY <1>4, <1>5, <1>6, <2>1
    <2> QED
      BY <2>2, EmptySeq
  <1>11. texts = <<>> => SumOf(sizes) = 0
    <2>1. Map(RunSizeMap, <<>>) = <<>>
      BY DEF Map
    <2> QED
      BY <2>1, SumFacts DEF sizes
  <1> QED
    BY <1>5, <1>9, <1>10, <1>11 DEF sizes

\* Nothing before or behind a sequence.
LEMMA EmptyConcat ==
    ASSUME NEW S
    PROVE  \A s \in Seq(S) : <<>> \o s = s /\ s \o <<>> = s
  BY ConcatEmptySeq

\* Three pieces, one after the other.
LEMMA WrittenThree ==
    ASSUME NEW a, NEW l \in Nat, NEW x, NEW f, WrittenAs(a, l, x, f),
           NEW b, NEW m \in Nat, NEW y, NEW g, WrittenAs(b, m, y, g),
           NEW c, NEW n \in Nat, NEW z, NEW h, WrittenAs(c, n, z, h)
    PROVE  WrittenAs(a \o b \o c, l + m + n, x \/ y \/ z, f \o g \o h)
  <1> DEFINE ab == a \o b
             lm == l + m
             xy == x \/ y
             fg == f \o g
  <1>1. WrittenAs(ab, lm, xy, fg)
    BY WrittenConcat
  <1>2. lm \in Nat
    OBVIOUS
  <1> HIDE DEF ab, lm, xy, fg
  <1>3. WrittenAs(ab \o c, lm + n, xy \/ z, fg \o h)
    BY <1>1, <1>2, WrittenConcat
  <1>4. xy \/ z <=> (x \/ y \/ z)
    BY DEF xy
  <1>5. WrittenAs(ab \o c, lm + n, x \/ y \/ z, fg \o h)
    BY <1>3, <1>4, WrittenZero
  <1> QED
    BY <1>5 DEF ab, lm, fg

\* What is read from three pieces is what is read from each.
LEMMA FieldsThree ==
    ASSUME NEW a \in Seq(FieldSet), NEW b \in Seq(FieldSet), NEW c \in Seq(FieldSet)
    PROVE  /\ a \o b \o c \in Seq(FieldSet)
           /\ ToSet(a \o b \o c) = ToSet(a) \cup ToSet(b) \cup ToSet(c)
           /\ \A k : RunsIn(a \o b \o c, k) = RunsIn(a, k) \o RunsIn(b, k) \o RunsIn(c, k)
           /\ \A k : UInt32sIn(a \o b \o c, k) = UInt32sIn(a, k) \o UInt32sIn(b, k) \o UInt32sIn(c, k)
  <1> DEFINE ab == a \o b
  <1>1. /\ ab \in Seq(FieldSet) /\ ToSet(ab) = ToSet(a) \cup ToSet(b)
        /\ \A k : RunsIn(ab, k) = RunsIn(a, k) \o RunsIn(b, k)
        /\ \A k : UInt32sIn(ab, k) = UInt32sIn(a, k) \o UInt32sIn(b, k)
    BY FieldsConcat
  <1> HIDE DEF ab
  <1>2. /\ ab \o c \in Seq(FieldSet) /\ ToSet(ab \o c) = ToSet(ab) \cup ToSet(c)
        /\ \A k : RunsIn(ab \o c, k) = RunsIn(ab, k) \o RunsIn(c, k)
        /\ \A k : UInt32sIn(ab \o c, k) = UInt32sIn(ab, k) \o UInt32sIn(c, k)
    BY <1>1, FieldsConcat
  <1> QED
    BY <1>1, <1>2 DEF ab

\* The runs under one number are those of three pieces, one after the other.
RunsOfThree(fields, a, b, c, k) == RunsIn(fields, k) = RunsIn(a, k) \o RunsIn(b, k) \o RunsIn(c, k)

\* So they are when the pieces are joined.
LEMMA RunsThree ==
    ASSUME NEW a \in Seq(FieldSet), NEW b \in Seq(FieldSet), NEW c \in Seq(FieldSet), NEW k
    PROVE  RunsOfThree(a \o b \o c, a, b, c, k)
  <1>1. \A n : RunsIn(a \o b \o c, n) = RunsIn(a, n) \o RunsIn(b, n) \o RunsIn(c, n)
    BY FieldsThree, Zenon
  <1> QED
    BY <1>1, Zenon DEF RunsOfThree

\* A list of submessages, written and read.
ListGood(number, texts, fields) ==
    /\ WrittenAs(Flat(RunTextMap(number), texts), SumOf(Map(RunSizeMap, texts)), ZeroIn(texts), fields)
    /\ SumOf(Map(RunSizeMap, texts)) \in Nat
    /\ SumOf(Map(RunSizeMap, texts)) = 0 <=> texts = <<>>
    /\ fields \in Seq(FieldSet)
    /\ \A f \in ToSet(fields) : f.number = number /\ f.wire = 2 /\ f.whole /\ f.bytes \in ToSet(texts)
    /\ RunsIn(fields, number) = texts
    /\ \A k : k # number => RunsIn(fields, k) = <<>> /\ UInt32sIn(fields, k) = <<>>

\* A list of submessages is written, and read as it was.
LEMMA ListWritten ==
    ASSUME NEW number \in Number, NEW texts \in Seq(ShortText)
    PROVE  ListGood(number, texts, Map(RunFieldMap(number), texts))
  <1> DEFINE fields == Map(RunFieldMap(number), texts)
  <1>1. WrittenAs(Flat(RunTextMap(number), texts), SumOf(Map(RunSizeMap, texts)), ZeroIn(texts), fields)
    BY MessagesWritten DEF MessagesGood
  <1>2. /\ fields \in Seq(FieldSet)
        /\ \A f \in ToSet(fields) : f.number = number /\ f.wire = 2 /\ f.whole /\ f.bytes \in ToSet(texts)
        /\ \A k : RunsIn(fields, k) = IF k = number THEN texts ELSE <<>>
        /\ \A k : k # number => UInt32sIn(fields, k) = <<>>
    BY MessageFieldsAre
  <1>3. /\ SumOf(Map(RunSizeMap, texts)) \in Nat
        /\ SumOf(Map(RunSizeMap, texts)) = 0 <=> texts = <<>>
    BY RunSizesSum
  <1> HIDE DEF fields
  <1> QED
    BY <1>1, <1>2, <1>3 DEF ListGood, fields

\* Only nothing maps to nothing.
LEMMA MapEmpty ==
    ASSUME NEW S, NEW g, NEW s \in Seq(S)
    PROVE  Map(g, s) = <<>> <=> s = <<>>
  <1>1. DOMAIN Map(g, s) = DOMAIN s
    BY DEF Map
  <1>2. DOMAIN s = 1 .. Len(s) /\ Len(s) \in Nat
    BY LenProperties
  <1>3. Map(g, s) = <<>> => s = <<>>
    <2>1. Map(g, s) = <<>> => DOMAIN s = {}
      BY <1>1
    <2>2. DOMAIN s = {} => Len(s) = 0
      BY <1>2
    <2> QED
      BY <2>1, <2>2, EmptySeq
  <1>4. s = <<>> => Map(g, s) = <<>>
    BY DEF Map
  <1> QED
    BY <1>3, <1>4

TransactionMessages ==
    [version : Value, transaction_inputs : Seq(InputMessages),
     transaction_outputs : Seq(TransactionOutputs), lock_time : Value]

EmptyTransaction(m) == /\ m.version = 0 /\ m.lock_time = 0
                       /\ m.transaction_inputs = <<>> /\ m.transaction_outputs = <<>>
ZeroBeneath(m) == \/ \E input \in ToSet(m.transaction_inputs) : ZeroInput(input)
                  \/ \E output \in ToSet(m.transaction_outputs) : ZeroOutput(output)

TransactionFields(m) ==
    UInt32Fields(1, m.version)
        \o Map(RunFieldMap(2), Map(InputTextMap, m.transaction_inputs))
        \o Map(RunFieldMap(3), Map(OutputTextMap, m.transaction_outputs))
        \o UInt32Fields(4, m.lock_time)

\* What a transaction is written as.
LEMMA TransactionWritten ==
    ASSUME NEW m \in TransactionMessages
    PROVE  /\ WrittenAs(PTransactionText(m), PTransactionSize(m), ZeroBeneath(m), TransactionFields(m))
           /\ PTransactionSize(m) \in Nat
           /\ PTransactionSize(m) = 0 <=> EmptyTransaction(m)
  <1> DEFINE is == m.transaction_inputs
             os == m.transaction_outputs
             it == Map(InputTextMap, is)
             ot == Map(OutputTextMap, os)
             t1 == UInt32(1, m.version)
             t2 == Flat(RunTextMap(2), it)
             t3 == Flat(RunTextMap(3), ot)
             t4 == UInt32(4, m.lock_time)
             s1 == UInt32Size(m.version)
             s2 == SumOf(Map(RunSizeMap, it))
             s3 == SumOf(Map(RunSizeMap, ot))
             s4 == UInt32Size(m.lock_time)
             f1 == UInt32Fields(1, m.version)
             f2 == Map(RunFieldMap(2), it)
             f3 == Map(RunFieldMap(3), ot)
             f4 == UInt32Fields(4, m.lock_time)
  <1>1. /\ m.version \in Value /\ m.lock_time \in Value
        /\ is \in Seq(InputMessages) /\ os \in Seq(TransactionOutputs)
    BY DEF TransactionMessages
  <1>2. 1 \in Number /\ 2 \in Number /\ 3 \in Number /\ 4 \in Number
    BY DEF Number
  <1>3. /\ it \in Seq(ShortText)
        /\ FlattenSeq([i \in DOMAIN is |->
                    Message(2, PTransactionInputSize(is[i]), PTransactionInputText(is[i]))]) = t2
        /\ SumOf([i \in DOMAIN is |-> RunSize(PTransactionInputSize(is[i]))]) = s2
        /\ ZeroIn(it) <=> \E input \in ToSet(is) : ZeroInput(input)
    BY <1>1, InputsAre
  <1>4. /\ ot \in Seq(ShortText)
        /\ FlattenSeq([i \in DOMAIN os |->
                    Message(3, PTransactionOutputSize(os[i]), PTransactionOutputText(os[i]))]) = t3
        /\ SumOf([i \in DOMAIN os |-> RunSize(PTransactionOutputSize(os[i]))]) = s3
        /\ ZeroIn(ot) <=> \E output \in ToSet(os) : ZeroOutput(output)
    BY <1>1, OutputsAre
  <1>5. WrittenAs(t1, s1, FALSE, f1) /\ s1 \in Nat /\ (s1 = 0 <=> m.version = 0)
    BY <1>1, <1>2, UInt32Written
  <1>6. WrittenAs(t4, s4, FALSE, f4) /\ s4 \in Nat /\ (s4 = 0 <=> m.lock_time = 0)
    BY <1>1, <1>2, UInt32Written
  <1>7. WrittenAs(t2, s2, ZeroIn(it), f2) /\ s2 \in Nat /\ (s2 = 0 <=> it = <<>>)
    <2>1. ListGood(2, it, f2)
      BY <1>2, <1>3, ListWritten
    <2> QED
      BY <2>1 DEF ListGood
  <1>8. WrittenAs(t3, s3, ZeroIn(ot), f3) /\ s3 \in Nat /\ (s3 = 0 <=> ot = <<>>)
    <2>1. ListGood(3, ot, f3)
      BY <1>2, <1>4, ListWritten
    <2> QED
      BY <2>1 DEF ListGood
  <1>9. PTransactionText(m) = t1 \o t2 \o t3 \o t4 /\ PTransactionSize(m) = s1 + s2 + s3 + s4
    <2>1. PTransactionText(m) = t1 \o t2 \o t3 \o t4
      BY <1>3, <1>4 DEF PTransactionText
    <2>2. PTransactionSize(m) = s1 + s2 + s3 + s4
      BY <1>3, <1>4 DEF PTransactionSize
    <2> QED
      BY <2>1, <2>2
  <1>10. TransactionFields(m) = f1 \o f2 \o f3 \o f4
    BY DEF TransactionFields
  <1>11. (it = <<>> <=> is = <<>>) /\ (ot = <<>> <=> os = <<>>)
    BY <1>1, MapEmpty
  <1>12. ZeroBeneath(m) <=> ZeroIn(it) \/ ZeroIn(ot)
    BY <1>3, <1>4 DEF ZeroBeneath
  <1>13. EmptyTransaction(m) <=> m.version = 0 /\ m.lock_time = 0 /\ it = <<>> /\ ot = <<>>
    BY <1>11 DEF EmptyTransaction
  <1> HIDE DEF is, os, it, ot, t1, t2, t3, t4, s1, s2, s3, s4, f1, f2, f3, f4
  <1>14. WrittenAs(t1 \o t2 \o t3, s1 + s2 + s3, FALSE \/ ZeroIn(it) \/ ZeroIn(ot), f1 \o f2 \o f3)
    <2> DEFINE z1 == FALSE
               z2 == ZeroIn(it)
               z3 == ZeroIn(ot)
    <2>1. WrittenAs(t1, s1, z1, f1) /\ WrittenAs(t2, s2, z2, f2) /\ WrittenAs(t3, s3, z3, f3)
      BY <1>5, <1>7, <1>8
    <2> HIDE DEF z1, z2, z3
    <2>2. WrittenAs(t1 \o t2 \o t3, s1 + s2 + s3, z1 \/ z2 \/ z3, f1 \o f2 \o f3)
      BY <1>5, <1>7, <1>8, <2>1, WrittenThree
    <2> QED
      BY <2>2 DEF z1, z2, z3
  <1>15. s1 + s2 + s3 \in Nat
    BY <1>5, <1>7, <1>8
  <1>16. WrittenAs(t1 \o t2 \o t3 \o t4, s1 + s2 + s3 + s4,
                 (FALSE \/ ZeroIn(it) \/ ZeroIn(ot)) \/ FALSE, f1 \o f2 \o f3 \o f4)
    BY <1>6, <1>14, <1>15, WrittenConcat
  <1>17. WrittenAs(t1 \o t2 \o t3 \o t4, s1 + s2 + s3 + s4, ZeroBeneath(m), f1 \o f2 \o f3 \o f4)
    BY <1>12, <1>16, WrittenZero
  <1>18. s1 + s2 + s3 + s4 \in Nat /\ (s1 + s2 + s3 + s4 = 0 <=> EmptyTransaction(m))
    BY <1>5, <1>6, <1>7, <1>8, <1>13
  <1> QED
    BY <1>9, <1>10, <1>17, <1>18

\* The value of a field that only one of several pieces has.
LEMMA HeldAmong ==
    ASSUME NEW fields \in Seq(FieldSet), NEW number \in Number, NEW v \in Value,
           ToSet(UInt32Fields(number, v)) \subseteq ToSet(fields),
           \A f \in ToSet(fields) : IsVarint(f, number) => f \in ToSet(UInt32Fields(number, v))
    PROVE  UInt32In(fields, number) = v
  <1>1. /\ \A f \in ToSet(UInt32Fields(number, v)) : f.value = v
        /\ v # 0 => \E f \in ToSet(UInt32Fields(number, v)) : IsVarint(f, number)
    BY UInt32FieldsAre
  <1>2. HoldsVarint(fields, number, v)
    BY <1>1 DEF HoldsVarint
  <1> QED
    BY <1>2, UInt32InHeld

\* What is read from the fields of a transaction.
LEMMA TransactionFieldsAre ==
    ASSUME NEW m \in TransactionMessages
    PROVE  LET fields == TransactionFields(m)
               inputs == Map(InputTextMap, m.transaction_inputs)
               outputs == Map(OutputTextMap, m.transaction_outputs)
           IN  /\ fields \in Seq(FieldSet)
               /\ UInt32In(fields, 1) = m.version /\ UInt32In(fields, 4) = m.lock_time
               /\ RunsIn(fields, 2) = inputs /\ RunsIn(fields, 3) = outputs
               /\ \A f \in ToSet(fields) :
                    /\ IsRun(f, 2) => f.bytes \in ToSet(inputs)
                    /\ IsRun(f, 3) => f.bytes \in ToSet(outputs)
  <1> DEFINE v1 == m.version
             v4 == m.lock_time
             it == Map(InputTextMap, m.transaction_inputs)
             ot == Map(OutputTextMap, m.transaction_outputs)
             f1 == UInt32Fields(1, v1)
             f2 == Map(RunFieldMap(2), it)
             f3 == Map(RunFieldMap(3), ot)
             f4 == UInt32Fields(4, v4)
             f123 == f1 \o f2 \o f3
             fields == f123 \o f4
  <1>1. /\ v1 \in Value /\ v4 \in Value
        /\ m.transaction_inputs \in Seq(InputMessages)
        /\ m.transaction_outputs \in Seq(TransactionOutputs)
    BY DEF TransactionMessages
  <1>2. 1 \in Number /\ 2 \in Number /\ 3 \in Number /\ 4 \in Number
    BY DEF Number
  <1>3. it \in Seq(ShortText) /\ ot \in Seq(ShortText)
    BY <1>1, InputsAre, OutputsAre
  <1>4. TransactionFields(m) = fields
    BY DEF TransactionFields
  <1>5. ListGood(2, it, f2) /\ ListGood(3, ot, f3)
    BY <1>2, <1>3, ListWritten
  <1>6. /\ f1 \in Seq(FieldSet)
        /\ \A f \in ToSet(f1) : f.number = 1 /\ f.wire = 0
        /\ \A k : RunsIn(f1, k) = <<>>
    BY <1>1, <1>2, UInt32FieldsAre
  <1>7. /\ f4 \in Seq(FieldSet)
        /\ \A f \in ToSet(f4) : f.number = 4 /\ f.wire = 0
        /\ \A k : RunsIn(f4, k) = <<>>
    BY <1>1, <1>2, UInt32FieldsAre, SMTT(40)
  <1> HIDE DEF v1, v4, it, ot, f2, f3
  <1>8. /\ f2 \in Seq(FieldSet)
        /\ \A f \in ToSet(f2) : f.number = 2 /\ f.wire = 2 /\ f.bytes \in ToSet(it)
        /\ RunsIn(f2, 2) = it /\ RunsIn(f2, 3) = <<>>
    BY <1>5 DEF ListGood
  <1>9. /\ f3 \in Seq(FieldSet)
        /\ \A f \in ToSet(f3) : f.number = 3 /\ f.wire = 2 /\ f.bytes \in ToSet(ot)
        /\ RunsIn(f3, 3) = ot /\ RunsIn(f3, 2) = <<>>
    BY <1>5 DEF ListGood
  <1> HIDE DEF f1, f4
  <1>10. /\ f123 \in Seq(FieldSet)
         /\ ToSet(f123) = ToSet(f1) \cup ToSet(f2) \cup ToSet(f3)
         /\ \A k : RunsIn(f123, k) = RunsIn(f1, k) \o RunsIn(f2, k) \o RunsIn(f3, k)
    <2>1. f1 \in Seq(FieldSet) /\ f2 \in Seq(FieldSet) /\ f3 \in Seq(FieldSet)
      BY <1>6, <1>8, <1>9
    <2>2. f123 \in Seq(FieldSet)
      BY <2>1, FieldsThree
    <2>3. ToSet(f123) = ToSet(f1) \cup ToSet(f2) \cup ToSet(f3)
      BY <2>1, FieldsThree
    <2>4. \A k : RunsIn(f123, k) = RunsIn(f1, k) \o RunsIn(f2, k) \o RunsIn(f3, k)
      BY <2>1, FieldsThree, ZenonT(60)
    <2> QED
      BY <2>2, <2>3, <2>4
  <1> HIDE DEF f123
  <1>11. /\ fields \in Seq(FieldSet)
         /\ ToSet(fields) = ToSet(f123) \cup ToSet(f4)
         /\ \A k : RunsIn(fields, k) = RunsIn(f123, k) \o RunsIn(f4, k)
    BY <1>7, <1>10, FieldsConcat
  <1> HIDE DEF fields
  <1>12. RunsIn(fields, 2) = it
    <2>1. RunsIn(fields, 2) = <<>> \o it \o <<>> \o <<>>
      <3>1. RunsIn(fields, 2) = RunsIn(f1, 2) \o RunsIn(f2, 2) \o RunsIn(f3, 2) \o RunsIn(f4, 2)
        BY <1>10, <1>11, Zenon
      <3> QED
        BY <1>6, <1>7, <1>8, <1>9, <3>1, Zenon
    <2> QED
      BY <1>3, <2>1, EmptyConcat
  <1>13. RunsIn(fields, 3) = ot
    <2>1. RunsIn(fields, 3) = <<>> \o <<>> \o ot \o <<>>
      <3>1. RunsIn(fields, 3) = RunsIn(f1, 3) \o RunsIn(f2, 3) \o RunsIn(f3, 3) \o RunsIn(f4, 3)
        BY <1>10, <1>11, Zenon
      <3> QED
        BY <1>6, <1>7, <1>8, <1>9, <3>1, Zenon
    <2>2. <<>> \o <<>> = <<>>
      BY EmptyConcat, EmptySeq
    <2> QED
      BY <1>3, <2>1, <2>2, EmptyConcat
  <1>14. UInt32In(fields, 1) = v1
    <2>1. ToSet(f1) \subseteq ToSet(fields)
      BY <1>10, <1>11
    <2>2. \A f \in ToSet(fields) : IsVarint(f, 1) => f \in ToSet(f1)
      BY <1>7, <1>8, <1>9, <1>10, <1>11, SMTT(40) DEF IsVarint
    <2> QED
      BY <1>1, <1>2, <1>11, <2>1, <2>2, HeldAmong DEF f1, v1
  <1>15. UInt32In(fields, 4) = v4
    <2>1. ToSet(f4) \subseteq ToSet(fields)
      BY <1>11
    <2>2. \A f \in ToSet(fields) : IsVarint(f, 4) => f \in ToSet(f4)
      BY <1>6, <1>8, <1>9, <1>10, <1>11, SMTT(40) DEF IsVarint
    <2> QED
      BY <1>1, <1>2, <1>11, <2>1, <2>2, HeldAmong DEF f4, v4
  <1>16. \A f \in ToSet(fields) : /\ IsRun(f, 2) => f.bytes \in ToSet(it)
                                  /\ IsRun(f, 3) => f.bytes \in ToSet(ot)
    BY <1>6, <1>7, <1>8, <1>9, <1>10, <1>11, SMTT(40) DEF IsRun
  <1>17. /\ TransactionFields(m) \in Seq(FieldSet)
         /\ UInt32In(TransactionFields(m), 1) = m.version /\ UInt32In(TransactionFields(m), 4) = m.lock_time
    BY <1>4, <1>11, <1>14, <1>15 DEF v1, v4
  <1>18. /\ RunsIn(TransactionFields(m), 2) = Map(InputTextMap, m.transaction_inputs)
         /\ RunsIn(TransactionFields(m), 3) = Map(OutputTextMap, m.transaction_outputs)
    BY <1>4, <1>12, <1>13 DEF it, ot
  <1>19. \A f \in ToSet(TransactionFields(m)) :
            /\ IsRun(f, 2) => f.bytes \in ToSet(Map(InputTextMap, m.transaction_inputs))
            /\ IsRun(f, 3) => f.bytes \in ToSet(Map(OutputTextMap, m.transaction_outputs))
    BY <1>4, <1>16 DEF it, ot
  <1> QED
    BY <1>17, <1>18, <1>19

\* A transaction is read from what it is written as.
LEMMA TransactionRead ==
    ASSUME NEW m \in TransactionMessages
    PROVE  /\ PTransactionParse(PTransactionText(m)) = m
           /\ ~PTransactionFails(PTransactionText(m))
  <1> DEFINE text == PTransactionText(m)
             fields == TransactionFields(m)
             is == m.transaction_inputs
             os == m.transaction_outputs
             it == Map(InputTextMap, is)
             ot == Map(OutputTextMap, os)
  <1>1. is \in Seq(InputMessages) /\ os \in Seq(TransactionOutputs)
    BY DEF TransactionMessages
  <1>2. m = [version |-> m.version, transaction_inputs |-> is, transaction_outputs |-> os,
             lock_time |-> m.lock_time]
    BY DEF TransactionMessages
  <1>3. FieldsOf[text] = fields /\ fields \in Seq(GoodFields)
    BY TransactionWritten, WrittenRead DEF WrittenAs
  <1>4. /\ UInt32In(fields, 1) = m.version /\ UInt32In(fields, 4) = m.lock_time
        /\ RunsIn(fields, 2) = it /\ RunsIn(fields, 3) = ot
        /\ \A f \in ToSet(fields) : /\ IsRun(f, 2) => f.bytes \in ToSet(it)
                                    /\ IsRun(f, 3) => f.bytes \in ToSet(ot)
    BY TransactionFieldsAre
  <1>5. /\ [i \in DOMAIN it |-> PTransactionInputParse(it[i])] = is
        /\ \A t \in ToSet(it) : ~PTransactionInputFails(t)
    BY <1>1, InputsAre
  <1>6. /\ [i \in DOMAIN ot |-> PTransactionOutputParse(ot[i])] = os
        /\ \A t \in ToSet(ot) : ~PTransactionOutputFails(t)
    BY <1>1, OutputsAre
  <1> HIDE DEF text, fields, is, os, it, ot
  <1>7. \A f \in ToSet(fields) : f.whole /\ ~PTransactionSubmessageFails(f)
    <2>1. ToSet(fields) \subseteq GoodFields
      BY <1>3, ToSetFacts
    <2> QED
      BY <1>4, <1>5, <1>6, <2>1, GoodFieldFacts DEF PTransactionSubmessageFails
  <1>8. Until(fields, PTransactionSubmessageFails) = fields
    <2>1. \A i \in 1 .. Len(fields) : fields[i] \in ToSet(fields)
      BY <1>3, ToSetFacts
    <2>2. { i \in 1 .. Len(fields) : ~fields[i].whole \/ PTransactionSubmessageFails(fields[i]) } = {}
      BY <1>7, <2>1
    <2> QED
      BY <2>2 DEF Until, UpTo, SelectInSeq
  <1>9. PTransactionParse(text) = PTransactionFrom(fields, it, ot)
    BY <1>3, <1>4, <1>8 DEF PTransactionParse, FieldsUntil, PTransactionIn
  <1>10. PTransactionFrom(fields, it, ot) = m
    BY <1>2, <1>4, <1>5, <1>6 DEF PTransactionFrom
  <1>11. ~PTransactionFails(text)
    BY <1>3, <1>7 DEF PTransactionFails, Unparsed
  <1> QED
    BY <1>9, <1>10, <1>11 DEF text

----------------------------------------------------------------------------
(* Blocks. *)

ShortTransactions  == { m \in TransactionMessages : PTransactionSize(m) \in Value }
TransactionTextMap == [m \in ShortTransactions |-> PTransactionText(m)]

\* A transaction whose text is empty or has a zero byte.
ZeroTransaction(m) == EmptyTransaction(m) \/ ZeroBeneath(m)

\* A transaction is read as it was written.
LEMMA ShortTransaction ==
    ASSUME NEW m \in ShortTransactions
    PROVE  /\ PTransactionText(m) \in ShortText /\ Len(PTransactionText(m)) = PTransactionSize(m)
           /\ PTransactionParse(PTransactionText(m)) = m /\ ~PTransactionFails(PTransactionText(m))
           /\ (PTransactionText(m) = <<>> \/ 0 \in ToSet(PTransactionText(m))) <=> ZeroTransaction(m)
  <1>1. m \in TransactionMessages /\ PTransactionSize(m) \in Value
    BY DEF ShortTransactions
  <1>2. /\ WrittenAs(PTransactionText(m), PTransactionSize(m), ZeroBeneath(m), TransactionFields(m))
        /\ PTransactionSize(m) = 0 <=> EmptyTransaction(m)
    BY <1>1, TransactionWritten
  <1>3. /\ PTransactionText(m) \in Text /\ Len(PTransactionText(m)) = PTransactionSize(m)
        /\ 0 \in ToSet(PTransactionText(m)) <=> ZeroBeneath(m)
    BY <1>2 DEF WrittenAs
  <1>4. PTransactionText(m) = <<>> <=> EmptyTransaction(m)
    BY <1>2, <1>3, TextFacts
  <1>5. PTransactionText(m) \in ShortText
    BY <1>1, <1>3 DEF ShortText
  <1>6. PTransactionParse(PTransactionText(m)) = m /\ ~PTransactionFails(PTransactionText(m))
    BY <1>1, TransactionRead
  <1> QED
    BY <1>3, <1>4, <1>5, <1>6 DEF ZeroTransaction

\* The transactions of a block, as submessages.
LEMMA TransactionsAre ==
    ASSUME NEW s \in Seq(ShortTransactions)
    PROVE  /\ Map(TransactionTextMap, s) \in Seq(ShortText)
           /\ FlattenSeq([i \in DOMAIN s |->
                    Message(2, PTransactionSize(s[i]), PTransactionText(s[i]))])
                = Flat(RunTextMap(2), Map(TransactionTextMap, s))
           /\ SumOf([i \in DOMAIN s |-> RunSize(PTransactionSize(s[i]))])
                = SumOf(Map(RunSizeMap, Map(TransactionTextMap, s)))
           /\ [i \in DOMAIN Map(TransactionTextMap, s) |-> PTransactionParse(Map(TransactionTextMap, s)[i])] = s
           /\ \A text \in ToSet(Map(TransactionTextMap, s)) : ~PTransactionFails(text)
           /\ ZeroIn(Map(TransactionTextMap, s)) <=> \E m \in ToSet(s) : ZeroTransaction(m)
  <1> DEFINE g == TransactionTextMap
             texts == Map(g, s)
  <1>1. Into(g, ShortTransactions, ShortText)
    BY ShortTransaction DEF TransactionTextMap, Into
  <1>2. \A m \in ShortTransactions :
            /\ g[m] = PTransactionText(m)
            /\ Len(g[m]) = PTransactionSize(m)
            /\ PTransactionParse(g[m]) = m /\ ~PTransactionFails(g[m])
            /\ g[m] = <<>> \/ 0 \in ToSet(g[m]) <=> ZeroTransaction(m)
    BY ShortTransaction DEF TransactionTextMap
  <1>3. 2 \in Number
    BY DEF Number
  <1> HIDE DEF g
  <1>4. /\ texts \in Seq(ShortText) /\ Len(texts) = Len(s) /\ DOMAIN texts = DOMAIN s
        /\ \A i \in DOMAIN s : s[i] \in ShortTransactions /\ texts[i] = g[s[i]]
        /\ ToSet(texts) = { g[e] : e \in ToSet(s) }
        /\ FlattenSeq([i \in DOMAIN s |-> Message(2, Len(g[s[i]]), g[s[i]])])
                = Flat(RunTextMap(2), texts)
        /\ SumOf([i \in DOMAIN s |-> RunSize(Len(g[s[i]]))]) = SumOf(Map(RunSizeMap, texts))
    <2>1. SubmessagesGood(ShortTransactions, g, s, 2)
      BY <1>1, <1>3, SubmessagesAre
    <2> QED
      BY <2>1 DEF SubmessagesGood
  <1> HIDE DEF texts
  <1>5. [i \in DOMAIN s |-> Message(2, PTransactionSize(s[i]), PTransactionText(s[i]))]
            = [i \in DOMAIN s |-> Message(2, Len(g[s[i]]), g[s[i]])]
    BY <1>2, <1>4
  <1>6. [i \in DOMAIN s |-> RunSize(PTransactionSize(s[i]))] = [i \in DOMAIN s |-> RunSize(Len(g[s[i]]))]
    BY <1>2, <1>4
  <1>7. [i \in DOMAIN texts |-> PTransactionParse(texts[i])] = s
    <2>1. \A i \in DOMAIN s : PTransactionParse(texts[i]) = s[i]
      BY <1>2, <1>4
    <2>2. s = [i \in DOMAIN s |-> s[i]]
      BY LenProperties
    <2> QED
      BY <1>4, <2>1, <2>2
  <1>8. ToSet(s) \subseteq ShortTransactions
    BY ToSetFacts
  <1>9. \A text \in ToSet(texts) : ~PTransactionFails(text)
    BY <1>2, <1>4, <1>8
  <1>10. ZeroIn(texts) <=> \E m \in ToSet(s) : ZeroTransaction(m)
    <2>1. ZeroIn(texts) <=> \E m \in ToSet(s) : g[m] = <<>> \/ 0 \in ToSet(g[m])
      BY <1>4 DEF ZeroIn
    <2> QED
      BY <1>2, <1>8, <2>1
  <1> QED
    BY <1>4, <1>5, <1>6, <1>7, <1>9, <1>10 DEF texts, g

BlockMessages == [block_header : HeaderMessages, transactions : Seq(TransactionMessages)]

\* The transactions of a block whose text is short are short.
LEMMA BlockSizes ==
    ASSUME NEW b \in BlockMessages
    PROVE  /\ PBlockSize(PBlockOf(b)) \in Nat
           /\ PBlockSize(PBlockOf(b)) \in Value => b.transactions \in Seq(ShortTransactions)
  <1> DEFINE ts == b.transactions
             h == RunSize(PBlockHeaderSize(b.block_header))
             sizes == [i \in DOMAIN ts |-> RunSize(PTransactionSize(ts[i]))]
  <1>1. ts \in Seq(TransactionMessages) /\ b.block_header \in HeaderMessages
    BY DEF BlockMessages
  <1>2. h \in Nat
    <2>1. /\ PBlockHeaderText(b.block_header) \in ShortText
          /\ Len(PBlockHeaderText(b.block_header)) = PBlockHeaderSize(b.block_header)
      BY <1>1, HeaderMessage DEF PlainText
    <2>2. 1 \in Number
      BY DEF Number
    <2> QED
      BY <2>1, <2>2, RunWritten
  <1>3. DOMAIN ts = 1 .. Len(ts) /\ Len(ts) \in Nat /\ \A i \in 1 .. Len(ts) : ts[i] \in TransactionMessages
    BY <1>1, LenProperties, ElementOfSeq
  <1>4. \A i \in 1 .. Len(ts) :
            /\ PTransactionSize(ts[i]) \in Nat
            /\ RunSize(PTransactionSize(ts[i])) \in Nat
            /\ RunSize(PTransactionSize(ts[i])) > PTransactionSize(ts[i])
    <2> TAKE i \in 1 .. Len(ts)
    <2>1. PTransactionSize(ts[i]) \in Nat
      BY <1>3, TransactionWritten
    <2>2. VarintSize(PTransactionSize(ts[i])) \in Nat
      BY VarintSizeNat
    <2> QED
      BY <2>1, <2>2 DEF RunSize
  <1>5. sizes \in Seq(Nat) /\ Len(sizes) = Len(ts) /\ \A i \in 1 .. Len(ts) : sizes[i] = RunSize(PTransactionSize(ts[i]))
    BY <1>3, <1>4
  <1>6. SumOf(sizes) \in Nat /\ \A i \in 1 .. Len(sizes) : sizes[i] <= SumOf(sizes)
    BY <1>5, SumBounds
  <1>7. PBlockSize(PBlockOf(b)) = h + SumOf(sizes)
    <2>1. /\ PBlockOf(b).has_block_header /\ PBlockOf(b).block_header = b.block_header
          /\ PBlockOf(b).transactions = ts
          /\ PBlockOf(b).hash = 0 /\ PBlockOf(b).calculate_fees = 0 /\ PBlockOf(b).obtain_merkle_root = 0
      BY DEF PBlockOf
    <2>2. PBlockSize(PBlockOf(b)) = h + SumOf(sizes) + UInt32Size(0) + UInt32Size(0) + UInt32Size(0)
      BY <2>1 DEF PBlockSize
    <2>3. UInt32Size(0) = 0
      BY NoNumber
    <2> HIDE DEF h, sizes
    <2> QED
      BY <1>2, <1>6, <2>2, <2>3
  <1> HIDE DEF h, sizes
  <1>8. PBlockSize(PBlockOf(b)) \in Nat
    BY <1>2, <1>6, <1>7
  <1>9. ASSUME PBlockSize(PBlockOf(b)) \in Value
        PROVE  ts \in Seq(ShortTransactions)
    <2>1. \A i \in 1 .. Len(ts) : PTransactionSize(ts[i]) <= PBlockSize(PBlockOf(b))
      BY <1>2, <1>4, <1>5, <1>6, <1>7, SMTT(40)
    <2>2. PBlockSize(PBlockOf(b)) <= MaxValue /\ MaxValue \in Nat
      BY <1>9, ValueFacts, SMT
    <2>3. \A i \in 1 .. Len(ts) : PTransactionSize(ts[i]) \in Value
      <3> TAKE i \in 1 .. Len(ts)
      <3>1. PTransactionSize(ts[i]) \in Nat /\ PTransactionSize(ts[i]) <= MaxValue
        BY <1>4, <1>8, <2>1, <2>2
      <3> QED
        BY <3>1, ValueFacts
    <2>4. \A i \in 1 .. Len(ts) : ts[i] \in ShortTransactions
      BY <1>3, <2>3 DEF ShortTransactions
    <2>5. ts = [i \in 1 .. Len(ts) |-> ts[i]]
      BY <1>1, <1>3
    <2> QED
      BY <1>3, <2>4, <2>5
  <1> QED
    BY <1>8, <1>9

ShortBlocks == { b \in BlockMessages : PBlockSize(PBlockOf(b)) \in Value }

BlockFields(b) ==
    <<RunField(1, PBlockHeaderText(b.block_header))>>
        \o Map(RunFieldMap(2), Map(TransactionTextMap, b.transactions))

\* A block whose text has a zero byte.
ZeroBlock(b) == \/ ZeroHeader(b.block_header)
                \/ \E m \in ToSet(b.transactions) : ZeroTransaction(m)

\* What a block is written as.
LEMMA BlockWritten ==
    ASSUME NEW b \in ShortBlocks
    PROVE  WrittenAs(PBlockText(PBlockOf(b)), PBlockSize(PBlockOf(b)), ZeroBlock(b), BlockFields(b))
  <1> DEFINE header == PBlockHeaderText(b.block_header)
             ts == b.transactions
             tt == Map(TransactionTextMap, ts)
             t1 == RunText(1, header)
             t2 == Flat(RunTextMap(2), tt)
             s1 == RunSize(Len(header))
             s2 == SumOf(Map(RunSizeMap, tt))
             f1 == <<RunField(1, header)>>
             f2 == Map(RunFieldMap(2), tt)
             z1 == header = <<>> \/ 0 \in ToSet(header)
             z2 == ZeroIn(tt)
  <1>1. b.block_header \in HeaderMessages /\ ts \in Seq(ShortTransactions)
    BY BlockSizes DEF ShortBlocks, BlockMessages
  <1>2. 1 \in Number /\ 2 \in Number
    BY DEF Number
  <1>3. /\ header \in ShortText /\ Len(header) = PBlockHeaderSize(b.block_header)
        /\ z1 <=> ZeroHeader(b.block_header)
    BY <1>1, HeaderMessage DEF PlainText
  <1>4. /\ tt \in Seq(ShortText)
        /\ FlattenSeq([i \in DOMAIN ts |-> Message(2, PTransactionSize(ts[i]), PTransactionText(ts[i]))]) = t2
        /\ SumOf([i \in DOMAIN ts |-> RunSize(PTransactionSize(ts[i]))]) = s2
        /\ z2 <=> \E m \in ToSet(ts) : ZeroTransaction(m)
    BY <1>1, TransactionsAre
  <1>5. WrittenAs(t1, s1, z1, f1) /\ s1 \in Nat
    BY <1>2, <1>3, RunWritten
  <1>6. WrittenAs(t2, s2, z2, f2) /\ s2 \in Nat
    <2>1. ListGood(2, tt, f2)
      BY <1>2, <1>4, ListWritten
    <2> QED
      BY <2>1 DEF ListGood
  <1>7. /\ PBlockOf(b).has_block_header /\ PBlockOf(b).block_header = b.block_header
        /\ PBlockOf(b).transactions = ts
        /\ PBlockOf(b).hash = 0 /\ PBlockOf(b).calculate_fees = 0 /\ PBlockOf(b).obtain_merkle_root = 0
    BY DEF PBlockOf
  <1>8. UInt32Size(0) = 0 /\ UInt32(3, 0) = <<>> /\ UInt32(4, 0) = <<>> /\ UInt32(5, 0) = <<>>
    BY NoNumber
  <1>9. Message(1, PBlockHeaderSize(b.block_header), header) = t1
    BY <1>3 DEF Message, RunText
  <1>10. PBlockText(PBlockOf(b)) = t1 \o t2 \o UInt32(3, 0) \o UInt32(4, 0) \o UInt32(5, 0)
    BY <1>4, <1>7, <1>9 DEF PBlockText
  <1>11. PBlockSize(PBlockOf(b)) = s1 + s2 + UInt32Size(0) + UInt32Size(0) + UInt32Size(0)
    BY <1>3, <1>4, <1>7 DEF PBlockSize
  <1>12. BlockFields(b) = f1 \o f2
    BY DEF BlockFields
  <1>13. ZeroBlock(b) <=> z1 \/ z2
    BY <1>3, <1>4 DEF ZeroBlock
  <1> HIDE DEF header, ts, tt, t1, t2, s1, s2, f1, f2, z1, z2
  <1>14. WrittenAs(t1 \o t2, s1 + s2, z1 \/ z2, f1 \o f2)
    BY <1>5, <1>6, WrittenConcat
  <1>15. WrittenAs(t1 \o t2, s1 + s2, ZeroBlock(b), f1 \o f2)
    BY <1>13, <1>14, WrittenZero
  <1>16. t1 \o t2 \o UInt32(3, 0) \o UInt32(4, 0) \o UInt32(5, 0) = t1 \o t2
    <2> DEFINE t == t1 \o t2
    <2>1. t \in Text
      BY <1>15 DEF WrittenAs
    <2> HIDE DEF t
    <2>2. t \o <<>> = t
      BY <2>1, NoNumber
    <2>3. t \o UInt32(3, 0) \o UInt32(4, 0) \o UInt32(5, 0) = t
      BY <1>8, <2>2, Zenon
    <2> QED
      BY <2>3 DEF t
  <1>17. PBlockSize(PBlockOf(b)) = s1 + s2
    BY <1>5, <1>6, <1>8, <1>11
  <1> QED
    BY <1>10, <1>12, <1>15, <1>16, <1>17

\* What is read from the fields of a block.
LEMMA BlockFieldsAre ==
    ASSUME NEW b \in ShortBlocks
    PROVE  LET fields == BlockFields(b)
               header == PBlockHeaderText(b.block_header)
               texts == Map(TransactionTextMap, b.transactions)
           IN  /\ fields \in Seq(FieldSet)
               /\ \A k : UInt32In(fields, k) = 0
               /\ RunsIn(fields, 1) = <<header>> /\ RunsIn(fields, 2) = texts
               /\ \A f \in ToSet(fields) :
                    /\ IsRun(f, 1) => f.bytes = header
                    /\ IsRun(f, 2) => f.bytes \in ToSet(texts)
  <1> DEFINE header == PBlockHeaderText(b.block_header)
             texts == Map(TransactionTextMap, b.transactions)
             f1 == <<RunField(1, header)>>
             f2 == Map(RunFieldMap(2), texts)
             fields == f1 \o f2
  <1>1. b.block_header \in HeaderMessages /\ b.transactions \in Seq(ShortTransactions)
    BY BlockSizes DEF ShortBlocks, BlockMessages
  <1>2. 1 \in Number /\ 2 \in Number
    BY DEF Number
  <1>3. header \in ShortText /\ texts \in Seq(ShortText)
    BY <1>1, HeaderMessage, TransactionsAre DEF PlainText
  <1>4. BlockFields(b) = fields
    BY DEF BlockFields
  <1>5. ListGood(2, texts, f2)
    BY <1>2, <1>3, ListWritten
  <1> HIDE DEF header, texts, f2
  <1>6. /\ RunField(1, header) \in FieldSet
        /\ RunField(1, header).number = 1 /\ RunField(1, header).wire = 2
        /\ RunField(1, header).bytes = header
    BY <1>2, <1>3, RunFieldIs
  <1>7. /\ f1 \in Seq(FieldSet)
        /\ \A f \in ToSet(f1) : f.number = 1 /\ f.wire = 2 /\ f.bytes = header
        /\ RunsIn(f1, 1) = <<header>> /\ RunsIn(f1, 2) = <<>>
    <2> DEFINE f == RunField(1, header)
    <2>1. f \in FieldSet /\ f.number = 1 /\ f.wire = 2 /\ f.bytes = header
      BY <1>6
    <2> HIDE DEF f
    <2>2. /\ <<f>> \in Seq(FieldSet) /\ ToSet(<<f>>) = {f}
          /\ \A k : RunsIn(<<f>>, k) = IF IsRun(f, k) THEN <<f.bytes>> ELSE <<>>
      BY <2>1, OneField
    <2>3. IsRun(f, 1) /\ ~IsRun(f, 2)
      BY <2>1 DEF IsRun
    <2>4. f1 = <<f>>
      BY DEF f1, f
    <2> HIDE DEF f1
    <2> QED
      BY <2>1, <2>2, <2>3, <2>4
  <1>8. /\ f2 \in Seq(FieldSet)
        /\ \A f \in ToSet(f2) : f.number = 2 /\ f.wire = 2 /\ f.bytes \in ToSet(texts)
        /\ RunsIn(f2, 2) = texts /\ RunsIn(f2, 1) = <<>>
    BY <1>5 DEF ListGood
  <1> HIDE DEF f1
  <1>9. /\ fields \in Seq(FieldSet) /\ ToSet(fields) = ToSet(f1) \cup ToSet(f2)
        /\ \A k : RunsIn(fields, k) = RunsIn(f1, k) \o RunsIn(f2, k)
    BY <1>7, <1>8, FieldsConcat
  <1> HIDE DEF fields
  <1>10. RunsIn(fields, 1) = <<header>>
    <2>1. RunsIn(fields, 1) = <<header>> \o <<>>
      BY <1>7, <1>8, <1>9
    <2>2. <<header>> \in Seq(ShortText)
      BY <1>3
    <2> QED
      BY <2>1, <2>2, EmptyConcat
  <1>11. RunsIn(fields, 2) = texts
    <2>1. RunsIn(fields, 2) = <<>> \o texts
      BY <1>7, <1>8, <1>9
    <2> QED
      BY <1>3, <2>1, EmptyConcat
  <1>12. \A k : UInt32In(fields, k) = 0
    <2> TAKE k
    <2>1. HoldsVarint(fields, k, 0)
      BY <1>7, <1>8, <1>9 DEF HoldsVarint, IsVarint
    <2> QED
      BY <1>9, <2>1, UInt32InHeld
  <1>13. \A f \in ToSet(fields) : /\ IsRun(f, 1) => f.bytes = header
                                  /\ IsRun(f, 2) => f.bytes \in ToSet(texts)
    BY <1>7, <1>8, <1>9 DEF IsRun
  <1> QED
    BY <1>4, <1>9, <1>10, <1>11, <1>12, <1>13 DEF header, texts

\* A block is read from what it is written as.
LEMMA BlockRead ==
    ASSUME NEW b \in ShortBlocks
    PROVE  PBlockParse(PBlockText(PBlockOf(b))) = PBlockOf(b)
  <1> DEFINE text == PBlockText(PBlockOf(b))
             fields == BlockFields(b)
             h == b.block_header
             ts == b.transactions
             header == PBlockHeaderText(h)
             texts == Map(TransactionTextMap, ts)
  <1>1. h \in HeaderMessages /\ ts \in Seq(ShortTransactions)
    BY BlockSizes DEF ShortBlocks, BlockMessages
  <1>2. PBlockOf(b) = [has_block_header |-> TRUE, block_header |-> h, transactions |-> ts,
                       hash |-> 0, calculate_fees |-> 0, obtain_merkle_root |-> 0]
    BY DEF PBlockOf
  <1>3. FieldsOf[text] = fields /\ fields \in Seq(GoodFields)
    BY BlockWritten, WrittenRead DEF WrittenAs
  <1>4. /\ \A k : UInt32In(fields, k) = 0
        /\ RunsIn(fields, 1) = <<header>> /\ RunsIn(fields, 2) = texts
        /\ \A f \in ToSet(fields) : /\ IsRun(f, 1) => f.bytes = header
                                    /\ IsRun(f, 2) => f.bytes \in ToSet(texts)
    BY BlockFieldsAre
  <1>5. header \in Text /\ PBlockHeaderParse(header) = h /\ ~PBlockHeaderFails(header)
    BY <1>1, HeaderMessage DEF PlainText, ShortText
  <1>6. /\ [i \in DOMAIN texts |-> PTransactionParse(texts[i])] = ts
        /\ \A t \in ToSet(texts) : ~PTransactionFails(t)
    BY <1>1, TransactionsAre
  <1> HIDE DEF text, fields, h, ts, header, texts
  <1>7. \A f \in ToSet(fields) : f.whole /\ ~PBlockSubmessageFails(f)
    <2>1. ToSet(fields) \subseteq GoodFields
      BY <1>3, ToSetFacts
    <2> QED
      BY <1>4, <1>5, <1>6, <2>1, GoodFieldFacts DEF PBlockSubmessageFails
  <1>8. Until(fields, PBlockSubmessageFails) = fields
    <2>1. \A i \in 1 .. Len(fields) : fields[i] \in ToSet(fields)
      BY <1>3, ToSetFacts
    <2>2. { i \in 1 .. Len(fields) : ~fields[i].whole \/ PBlockSubmessageFails(fields[i]) } = {}
      BY <1>7, <2>1
    <2> QED
      BY <2>2 DEF Until, UpTo, SelectInSeq
  <1>9. PBlockParse(text) = PBlockFrom(fields, <<header>>, texts)
    BY <1>3, <1>4, <1>8 DEF PBlockParse, FieldsUntil, PBlockIn
  <1>10. FlattenSeq(<<header>>) = header
    BY <1>5, FlattenOne DEF Text
  <1>11. <<header>> # <<>>
    OBVIOUS
  <1>12. PBlockFrom(fields, <<header>>, texts) = PBlockOf(b)
    <2>1. PBlockFrom(fields, <<header>>, texts) =
              [has_block_header |-> <<header>> # <<>>,
               block_header |-> PBlockHeaderParse(FlattenSeq(<<header>>)),
               transactions |-> [i \in DOMAIN texts |-> PTransactionParse(texts[i])],
               hash |-> UInt32In(fields, 3), calculate_fees |-> UInt32In(fields, 4),
               obtain_merkle_root |-> UInt32In(fields, 5)]
      BY DEF PBlockFrom
    <2>2. (<<header>> # <<>>) = TRUE
      BY <1>11
    <2>3. PBlockHeaderParse(FlattenSeq(<<header>>)) = h
      BY <1>5, <1>10
    <2>4. UInt32In(fields, 3) = 0 /\ UInt32In(fields, 4) = 0 /\ UInt32In(fields, 5) = 0
      BY <1>4
    <2> QED
      BY <1>2, <1>6, <2>1, <2>2, <2>3, <2>4, Zenon
  <1> QED
    BY <1>9, <1>12 DEF text

\* A string of the size announced has that size.
LEMMA SerializedLength ==
    ASSUME NEW size \in Nat, NEW text
    PROVE  Len(SerializeToString(size, text)) = size
  BY DEF SerializeToString

\* A byte of the code is a value, and reducing it changes nothing.
LEMMA UInt8Facts ==
    \A v \in UInt8 : v \in Value /\ v % Byte2 = v /\ v \in Nat /\ v < 256
  <1>1. \A v \in UInt8 : v \in Nat /\ v < 256 /\ v % Byte2 = v
    BY SMT DEF UInt8, Byte2
  <1>2. \A v \in UInt8 : v \in Value
    BY <1>1, ValueFacts, SMT
  <1> QED
    BY <1>1, <1>2

\* What BlockHeader::serialize and the protobuf library make of a block header
\* is deserialized as that header.
THEOREM BlockHeaderRoundTrip ==
    ASSUME NEW h \in BlockHeaders
    PROVE  BlockHeaderDeserialize(BlockHeaderSerialize(h)) = h
  <1>1. h \in HeaderMessages
    BY UInt8Facts DEF BlockHeaders, HeaderMessages
  <1>2. /\ PBlockHeaderText(h) \in Text /\ Len(PBlockHeaderText(h)) = PBlockHeaderSize(h)
        /\ PBlockHeaderParse(PBlockHeaderText(h)) = h
    BY <1>1, HeaderMessage DEF PlainText, ShortText
  <1>3. BlockHeaderSerialize(h) = PBlockHeaderText(h)
    BY <1>2, SerializedText DEF BlockHeaderSerialize
  <1>4. BlockHeader(h) = h
    <2>1. h.version % Byte2 = h.version
      BY UInt8Facts DEF BlockHeaders
    <2> QED
      BY <2>1 DEF BlockHeader, BlockHeaders
  <1> QED
    BY <1>2, <1>3, <1>4 DEF BlockHeaderDeserialize

\* The same of every transaction input.
THEOREM TransactionInputRoundTrip ==
    ASSUME NEW input \in TransactionInputs
    PROVE  TransactionInputDeserialize(TransactionInputSerialize(input)) = input
  <1>1. input \in InputMessages
    BY UInt8Facts DEF TransactionInputs, InputMessages
  <1>2. /\ PTransactionInputText(input) \in Text
        /\ Len(PTransactionInputText(input)) = PTransactionInputSize(input)
        /\ PTransactionInputParse(PTransactionInputText(input)) = input
    BY <1>1, InputMessage DEF PlainText, ShortText
  <1>3. TransactionInputSerialize(input) = PTransactionInputText(input)
    BY <1>2, SerializedText DEF TransactionInputSerialize
  <1>4. TransactionInput(input) = input
    <2>1. input.utxo_index % Byte2 = input.utxo_index
      BY UInt8Facts DEF TransactionInputs
    <2> QED
      BY <2>1 DEF TransactionInput, TransactionInputs
  <1> QED
    BY <1>2, <1>3, <1>4 DEF TransactionInputDeserialize

\* The same of every transaction output.
THEOREM TransactionOutputRoundTrip ==
    ASSUME NEW output \in TransactionOutputs
    PROVE  TransactionOutputDeserialize(TransactionOutputSerialize(output)) = output
  <1>1. /\ PTransactionOutputText(output) \in Text
        /\ Len(PTransactionOutputText(output)) = PTransactionOutputSize(output)
        /\ PTransactionOutputParse(PTransactionOutputText(output)) = output
    BY OutputMessage DEF PlainText, ShortText
  <1>2. TransactionOutputSerialize(output) = PTransactionOutputText(output)
    BY <1>1, SerializedText DEF TransactionOutputSerialize
  <1> QED
    BY <1>1, <1>2 DEF TransactionOutputDeserialize

\* A transaction of the program is one that a message holds, and is not cut.
LEMMA TransactionKept ==
    ASSUME NEW t \in Transactions
    PROVE  t \in TransactionMessages /\ Transaction(t) = t
  <1> DEFINE is == t.transaction_inputs
             os == t.transaction_outputs
  <1>1. /\ t.version \in UInt8 /\ t.lock_time \in Value
        /\ is \in Seq(TransactionInputs) /\ os \in Seq(TransactionOutputs)
        /\ t = [version |-> t.version, transaction_inputs |-> is, transaction_outputs |-> os,
                lock_time |-> t.lock_time]
    BY DEF Transactions
  <1>2. \A input \in TransactionInputs : input \in InputMessages /\ TransactionInput(input) = input
    <2> TAKE input \in TransactionInputs
    <2>1. input.utxo_index % Byte2 = input.utxo_index
      BY UInt8Facts DEF TransactionInputs
    <2>2. TransactionInput(input) = input
      BY <2>1 DEF TransactionInput, TransactionInputs
    <2>3. input \in InputMessages
      BY UInt8Facts DEF TransactionInputs, InputMessages
    <2> QED
      BY <2>2, <2>3
  <1>3. is \in Seq(InputMessages)
    BY <1>1, <1>2
  <1>4. [i \in DOMAIN is |-> TransactionInput(is[i])] = is
    <2>1. \A i \in DOMAIN is : is[i] \in TransactionInputs
      BY <1>1
    <2>2. is = [i \in DOMAIN is |-> is[i]]
      BY <1>1
    <2> QED
      BY <1>2, <2>1, <2>2
  <1>5. t.version \in Value /\ t.version % Byte2 = t.version
    BY <1>1, UInt8Facts
  <1>6. t \in TransactionMessages
    <2> HIDE DEF is, os
    <2> QED
      BY <1>1, <1>3, <1>5 DEF TransactionMessages
  <1>7. Transaction(t) = t
    <2>1. Transaction(t) = [version |-> t.version % Byte2,
                            transaction_inputs |-> [i \in DOMAIN is |-> TransactionInput(is[i])],
                            transaction_outputs |-> os, lock_time |-> t.lock_time]
      BY DEF Transaction
    <2> HIDE DEF is, os
    <2> QED
      BY <1>1, <1>4, <1>5, <2>1
  <1> QED
    BY <1>6, <1>7

\* The same of every transaction, with any number of inputs and outputs.
THEOREM TransactionRoundTrip ==
    ASSUME NEW t \in Transactions
    PROVE  TransactionDeserialize(TransactionSerialize(t)) = t
  <1>1. t \in TransactionMessages /\ Transaction(t) = t
    BY TransactionKept
  <1>2. PTransactionText(t) \in Text /\ Len(PTransactionText(t)) = PTransactionSize(t)
    BY <1>1, TransactionWritten DEF WrittenAs
  <1>3. TransactionSerialize(t) = PTransactionText(t)
    BY <1>2, SerializedText DEF TransactionSerialize
  <1>4. PTransactionParse(PTransactionText(t)) = t
    BY <1>1, TransactionRead
  <1> QED
    BY <1>1, <1>3, <1>4 DEF TransactionDeserialize

\* The conversion of a block to its message and back loses nothing.
LEMMA BlockKept ==
    ASSUME NEW b \in Blocks
    PROVE  b \in BlockMessages /\ BlockIn(PBlockOf(b)) = b
  <1> DEFINE h == b.block_header
             ts == b.transactions
  <1>1. /\ h \in BlockHeaders /\ ts \in Seq(Transactions)
        /\ b = [block_header |-> h, transactions |-> ts]
    BY DEF Blocks
  <1>2. h \in HeaderMessages /\ BlockHeader(h) = h
    <2>1. h.version % Byte2 = h.version
      BY <1>1, UInt8Facts DEF BlockHeaders
    <2>2. BlockHeader(h) = h
      BY <1>1, <2>1 DEF BlockHeader, BlockHeaders
    <2>3. h \in HeaderMessages
      BY <1>1, UInt8Facts DEF BlockHeaders, HeaderMessages
    <2> QED
      BY <2>2, <2>3
  <1>3. ts \in Seq(TransactionMessages)
    BY <1>1, TransactionKept
  <1>4. [i \in DOMAIN ts |-> Transaction(ts[i])] = ts
    <2>1. \A i \in DOMAIN ts : ts[i] \in Transactions
      BY <1>1
    <2>2. ts = [i \in DOMAIN ts |-> ts[i]]
      BY <1>1
    <2> QED
      BY <2>1, <2>2, TransactionKept
  <1>5. b \in BlockMessages
    BY <1>1, <1>2, <1>3 DEF BlockMessages
  <1>6. BlockIn(PBlockOf(b)) = b
    <2>1. PBlockOf(b).block_header = h /\ PBlockOf(b).transactions = ts
      BY DEF PBlockOf
    <2>2. BlockIn(PBlockOf(b)) = [block_header |-> BlockHeader(h),
                                  transactions |-> [i \in DOMAIN ts |-> Transaction(ts[i])]]
      BY <2>1 DEF BlockIn
    <2> HIDE DEF h, ts
    <2> QED
      BY <1>1, <1>2, <1>4, <2>2
  <1> QED
    BY <1>5, <1>6

\* What is known of a block whose text is short.
LEMMA BlockTextFacts ==
    ASSUME NEW b \in Blocks, Len(BlockSerialize(b)) \in Value
    PROVE  /\ BlockSerialize(b) \in Text
           /\ BlockDeserialize(BlockSerialize(b)) = b
           /\ 0 \in ToSet(BlockSerialize(b)) <=> ZeroBlock(b)
  <1> DEFINE m == PBlockOf(b)
  <1>1. b \in BlockMessages /\ BlockIn(m) = b
    BY BlockKept
  <1>2. Len(BlockSerialize(b)) = PBlockSize(m)
    BY <1>1, BlockSizes, SerializedLength DEF BlockSerialize, PBlockSerialize
  <1>3. b \in ShortBlocks
    BY <1>1, <1>2 DEF ShortBlocks
  <1>4. /\ PBlockText(m) \in Text /\ Len(PBlockText(m)) = PBlockSize(m)
        /\ 0 \in ToSet(PBlockText(m)) <=> ZeroBlock(b)
    BY <1>3, BlockWritten DEF WrittenAs
  <1>5. BlockSerialize(b) = PBlockText(m)
    BY <1>4, SerializedText DEF BlockSerialize, PBlockSerialize
  <1>6. PBlockParse(PBlockText(m)) = m
    BY <1>3, BlockRead
  <1> QED
    BY <1>1, <1>4, <1>5, <1>6 DEF BlockDeserialize

\* The same of every block whose text a message can hold, with any number of
\* transactions.
THEOREM BlockRoundTrip ==
    ASSUME NEW b \in Blocks, Len(BlockSerialize(b)) \in Value
    PROVE  BlockDeserialize(BlockSerialize(b)) = b
  BY BlockTextFacts

----------------------------------------------------------------------------
(* Coin records. *)

\* The coin records of a program that keeps its three lists of one length.
CoinRecords ==
    { r \in [version : Value, utxo : Seq(Value), amounts : Seq(Value), public_keys : Seq(Value)] :
        Len(r.amounts) = Len(r.utxo) /\ Len(r.public_keys) = Len(r.utxo) }

ZeroCoin(r) == 0 \in ToSet(r.utxo) \cup ToSet(r.amounts) \cup ToSet(r.public_keys)
EmptyCoin(r) == r.version = 0 /\ r.utxo = <<>>

\* The members of a coin record and of its message.
LEMMA CoinRecordMembers ==
    ASSUME NEW r \in CoinRecords
    PROVE  /\ r.version \in Value /\ r.utxo \in Seq(Value)
           /\ r.amounts \in Seq(Value) /\ r.public_keys \in Seq(Value)
           /\ r = CoinRecord(r.version, r.utxo, r.amounts, r.public_keys)
           /\ PCoinRecordOf(r) = [version |-> r.version, is_coin_base |-> FALSE, height |-> 0,
                                  utxo |-> r.utxo, amounts |-> r.amounts,
                                  public_keys |-> r.public_keys]
           /\ r.utxo = <<>> => r.amounts = <<>> /\ r.public_keys = <<>>
  <1> DEFINE u == r.utxo
             a == r.amounts
             k == r.public_keys
  <1>1. /\ r.version \in Value /\ u \in Seq(Value) /\ a \in Seq(Value) /\ k \in Seq(Value)
        /\ Len(a) = Len(u) /\ Len(k) = Len(u)
    BY DEF CoinRecords
  <1>2. r = [version |-> r.version, utxo |-> u, amounts |-> a, public_keys |-> k]
    BY DEF CoinRecords
  <1>3. DOMAIN u = DOMAIN a /\ DOMAIN u = DOMAIN k
    BY <1>1
  <1>4. a = [i \in DOMAIN u |-> a[i]] /\ k = [i \in DOMAIN u |-> k[i]]
    BY <1>1, <1>3
  <1>5. u = <<>> => a = <<>> /\ k = <<>>
    BY <1>1, EmptySeq
  <1>6. PCoinRecordOf(r) = [version |-> r.version, is_coin_base |-> FALSE, height |-> 0, utxo |-> u,
                            amounts |-> [i \in DOMAIN u |-> a[i]],
                            public_keys |-> [i \in DOMAIN u |-> k[i]]]
    BY DEF PCoinRecordOf
  <1> HIDE DEF u, a, k
  <1>7. PCoinRecordOf(r) = [version |-> r.version, is_coin_base |-> FALSE, height |-> 0, utxo |-> u,
                            amounts |-> a, public_keys |-> k]
    BY <1>4, <1>6, Zenon
  <1>8. r = CoinRecord(r.version, u, a, k)
    BY <1>2 DEF CoinRecord
  <1> QED
    BY <1>1, <1>5, <1>7, <1>8 DEF u, a, k

CoinSize(r) == PCoinRecordSize(PCoinRecordOf(r))
CoinText(r) == PCoinRecordText(PCoinRecordOf(r))

\* The size of a coin record, and of its parts.
LEMMA CoinSizes ==
    ASSUME NEW r \in CoinRecords
    PROVE  /\ CoinSize(r) = UInt32Size(r.version) + PackedFieldSize(r.utxo)
                                + PackedFieldSize(r.amounts) + PackedFieldSize(r.public_keys)
           /\ CoinSize(r) \in Nat
           /\ CoinSize(r) \in Value =>
                /\ PackedSize(r.utxo) \in Value /\ PackedSize(r.amounts) \in Value
                /\ PackedSize(r.public_keys) \in Value
           /\ CoinSize(r) = 0 <=> EmptyCoin(r)
  <1> DEFINE u == r.utxo
             a == r.amounts
             k == r.public_keys
  <1>1. /\ r.version \in Value /\ u \in Seq(Value) /\ a \in Seq(Value) /\ k \in Seq(Value)
        /\ PCoinRecordOf(r) = [version |-> r.version, is_coin_base |-> FALSE, height |-> 0,
                               utxo |-> u, amounts |-> a, public_keys |-> k]
        /\ u = <<>> => a = <<>> /\ k = <<>>
    BY CoinRecordMembers
  <1> DEFINE n == UInt32Size(r.version)
             pu == PackedFieldSize(u)
             pa == PackedFieldSize(a)
             pk == PackedFieldSize(k)
  <1>2. \A s \in Seq(Value) : /\ PackedFieldSize(s) \in Nat /\ PackedSize(s) \in Nat
                              /\ PackedFieldSize(s) >= PackedSize(s)
                              /\ PackedFieldSize(s) = 0 <=> s = <<>>
    <2> TAKE s \in Seq(Value)
    <2>1. PackedSize(s) \in Nat
      BY PackedFacts DEF PackedGood
    <2>2. VarintSize(PackedSize(s)) \in Nat
      BY VarintSizeNat
    <2>3. s = <<>> => PackedSize(s) = 0
      <3>1. [i \in DOMAIN <<>> |-> VarintSize(<<>>[i])] = <<>>
        OBVIOUS
      <3> QED
        BY <3>1, SumFacts DEF PackedSize
    <2> QED
      BY <2>1, <2>2, <2>3 DEF PackedFieldSize, RunSize
  <1>3. n \in Nat /\ (n = 0 <=> r.version = 0)
    BY <1>1, UInt32SizeFacts
  <1>4. CoinSize(r) = n + 0 + 0 + pu + pa + pk
    <2>1. BoolSize(FALSE) = 0 /\ UInt32Size(0) = 0
      BY DEF BoolSize, UInt32Size
    <2>2. CoinSize(r) = n + BoolSize(FALSE) + UInt32Size(0) + pu + pa + pk
      BY <1>1 DEF CoinSize, PCoinRecordSize
    <2> HIDE DEF n, pu, pa, pk
    <2> QED
      BY <2>1, <2>2
  <1>5. /\ pu \in Nat /\ PackedSize(u) \in Nat /\ pu >= PackedSize(u) /\ (pu = 0 <=> u = <<>>)
        /\ pa \in Nat /\ PackedSize(a) \in Nat /\ pa >= PackedSize(a) /\ (pa = 0 <=> a = <<>>)
        /\ pk \in Nat /\ PackedSize(k) \in Nat /\ pk >= PackedSize(k) /\ (pk = 0 <=> k = <<>>)
    BY <1>1, <1>2
  <1>6. EmptyCoin(r) <=> r.version = 0 /\ u = <<>>
    BY DEF EmptyCoin
  <1> HIDE DEF u, a, k, n, pu, pa, pk
  <1>7. CoinSize(r) = n + pu + pa + pk /\ CoinSize(r) \in Nat
    BY <1>3, <1>4, <1>5
  <1>8. CoinSize(r) = 0 <=> EmptyCoin(r)
    BY <1>1, <1>3, <1>5, <1>6, <1>7
  <1>9. ASSUME CoinSize(r) \in Value
        PROVE  PackedSize(u) \in Value /\ PackedSize(a) \in Value /\ PackedSize(k) \in Value
    <2>1. CoinSize(r) <= MaxValue /\ MaxValue \in Nat
      BY <1>9, ValueFacts, SMT
    <2>2. PackedSize(u) <= MaxValue /\ PackedSize(a) <= MaxValue /\ PackedSize(k) <= MaxValue
      BY <1>3, <1>5, <1>7, <2>1
    <2> QED
      BY <1>5, <2>2, ValueFacts
  <1> QED
    BY <1>7, <1>8, <1>9 DEF n, pu, pa, pk, u, a, k

ShortCoins == { r \in CoinRecords : CoinSize(r) \in Value }

CoinFields(r) ==
    UInt32Fields(1, r.version) \o PackedFields(4, r.utxo)
        \o PackedFields(5, r.amounts) \o PackedFields(6, r.public_keys)

\* What a coin record is written as.
LEMMA CoinWritten ==
    ASSUME NEW r \in ShortCoins
    PROVE  WrittenAs(CoinText(r), CoinSize(r), ZeroCoin(r), CoinFields(r))
  <1> DEFINE u == r.utxo
             a == r.amounts
             k == r.public_keys
             t1 == UInt32(1, r.version)
             t2 == Packed(4, u)
             t3 == Packed(5, a)
             t4 == Packed(6, k)
             s1 == UInt32Size(r.version)
             s2 == PackedFieldSize(u)
             s3 == PackedFieldSize(a)
             s4 == PackedFieldSize(k)
             z1 == FALSE
             z2 == 0 \in ToSet(u)
             z3 == 0 \in ToSet(a)
             z4 == 0 \in ToSet(k)
             f1 == UInt32Fields(1, r.version)
             f2 == PackedFields(4, u)
             f3 == PackedFields(5, a)
             f4 == PackedFields(6, k)
  <1>0. r \in CoinRecords /\ CoinSize(r) \in Value
    BY DEF ShortCoins
  <1>1. /\ r.version \in Value /\ u \in Seq(Value) /\ a \in Seq(Value) /\ k \in Seq(Value)
        /\ PCoinRecordOf(r) = [version |-> r.version, is_coin_base |-> FALSE, height |-> 0,
                               utxo |-> u, amounts |-> a, public_keys |-> k]
    BY <1>0, CoinRecordMembers
  <1>2. /\ CoinSize(r) = s1 + s2 + s3 + s4
        /\ PackedSize(u) \in Value /\ PackedSize(a) \in Value /\ PackedSize(k) \in Value
    BY <1>0, CoinSizes
  <1>3. 1 \in Number /\ 4 \in Number /\ 5 \in Number /\ 6 \in Number
    BY DEF Number
  <1>4. WrittenAs(t1, s1, z1, f1) /\ s1 \in Nat
    BY <1>1, <1>3, UInt32Written
  <1>5. WrittenAs(t2, s2, z2, f2) /\ s2 \in Nat
    BY <1>1, <1>2, <1>3, PackedWritten
  <1>6. WrittenAs(t3, s3, z3, f3) /\ s3 \in Nat
    BY <1>1, <1>2, <1>3, PackedWritten
  <1>7. WrittenAs(t4, s4, z4, f4) /\ s4 \in Nat
    BY <1>1, <1>2, <1>3, PackedWritten
  <1>8. Bool(2, FALSE) = <<>> /\ UInt32(3, 0) = <<>>
    BY DEF Bool, UInt32
  <1>9. CoinText(r) = t1 \o Bool(2, FALSE) \o UInt32(3, 0) \o t2 \o t3 \o t4
    <2> DEFINE m == PCoinRecordOf(r)
    <2>1. /\ m.version = r.version /\ m.is_coin_base = FALSE /\ m.height = 0
          /\ m.utxo = u /\ m.amounts = a /\ m.public_keys = k
      BY <1>1
    <2> HIDE DEF m
    <2>2. PCoinRecordText(m) = t1 \o Bool(2, FALSE) \o UInt32(3, 0) \o t2 \o t3 \o t4
      BY <2>1, Zenon DEF PCoinRecordText
    <2> QED
      BY <2>2 DEF CoinText, m
  <1>10. CoinFields(r) = f1 \o f2 \o f3 \o f4
    BY DEF CoinFields
  <1>11. ZeroCoin(r) <=> (z1 \/ z2 \/ z3) \/ z4
    BY DEF ZeroCoin
  <1> HIDE DEF u, a, k, t1, t2, t3, t4, s1, s2, s3, s4, f1, f2, f3, f4, z1, z2, z3, z4
  <1>12. t1 \o Bool(2, FALSE) \o UInt32(3, 0) = t1
    <2>1. t1 \o <<>> = t1
      BY <1>4, NoNumber DEF WrittenAs
    <2> QED
      BY <1>8, <2>1, Zenon
  <1>13. CoinText(r) = t1 \o t2 \o t3 \o t4
    BY <1>9, <1>12, Zenon
  <1>14. WrittenAs(t1 \o t2 \o t3, s1 + s2 + s3, z1 \/ z2 \/ z3, f1 \o f2 \o f3)
    BY <1>4, <1>5, <1>6, WrittenThree
  <1> DEFINE t123 == t1 \o t2 \o t3
             s123 == s1 + s2 + s3
             f123 == f1 \o f2 \o f3
             z123 == z1 \/ z2 \/ z3
  <1>15. WrittenAs(t123, s123, z123, f123) /\ s123 \in Nat
    BY <1>4, <1>5, <1>6, <1>14
  <1> HIDE DEF t123, s123, f123, z123
  <1>16. WrittenAs(t123 \o t4, s123 + s4, z123 \/ z4, f123 \o f4)
    BY <1>7, <1>15, WrittenConcat
  <1>17. z123 \/ z4 <=> ZeroCoin(r)
    BY <1>11 DEF z123
  <1>18. WrittenAs(t123 \o t4, s123 + s4, ZeroCoin(r), f123 \o f4)
    BY <1>16, <1>17, WrittenZero
  <1> QED
    BY <1>2, <1>10, <1>13, <1>18 DEF t123, s123, f123

\* What is read from the fields of a coin record.
LEMMA CoinFieldsAre ==
    ASSUME NEW r \in ShortCoins
    PROVE  /\ CoinFields(r) \in Seq(FieldSet)
           /\ UInt32In(CoinFields(r), 1) = r.version
           /\ UInt32In(CoinFields(r), 2) = 0 /\ UInt32In(CoinFields(r), 3) = 0
           /\ UInt32sIn(CoinFields(r), 4) = r.utxo
           /\ UInt32sIn(CoinFields(r), 5) = r.amounts
           /\ UInt32sIn(CoinFields(r), 6) = r.public_keys
  <1> DEFINE v == r.version
             u == r.utxo
             a == r.amounts
             k == r.public_keys
             f1 == UInt32Fields(1, v)
             f2 == PackedFields(4, u)
             f3 == PackedFields(5, a)
             f4 == PackedFields(6, k)
             f123 == f1 \o f2 \o f3
             fields == f123 \o f4
  <1>0. r \in CoinRecords /\ CoinSize(r) \in Value
    BY DEF ShortCoins
  <1>1. v \in Value /\ u \in Seq(Value) /\ a \in Seq(Value) /\ k \in Seq(Value)
    BY <1>0, CoinRecordMembers
  <1>2. PackedSize(u) \in Value /\ PackedSize(a) \in Value /\ PackedSize(k) \in Value
    BY <1>0, CoinSizes
  <1>3. 1 \in Number /\ 4 \in Number /\ 5 \in Number /\ 6 \in Number
    BY DEF Number
  <1>4. /\ f1 \in Seq(FieldSet)
        /\ \A f \in ToSet(f1) : f.number = 1 /\ f.wire = 0
        /\ \A n : n # 1 => UInt32sIn(f1, n) = <<>>
    BY <1>1, <1>3, UInt32FieldsAre
  <1>5. /\ f2 \in Seq(FieldSet)
        /\ \A f \in ToSet(f2) : f.wire = 2
        /\ \A n : UInt32sIn(f2, n) = IF n = 4 THEN u ELSE <<>>
    BY <1>1, <1>2, <1>3, PackedFieldsAre, SMTT(40)
  <1>6. /\ f3 \in Seq(FieldSet)
        /\ \A f \in ToSet(f3) : f.wire = 2
        /\ \A n : UInt32sIn(f3, n) = IF n = 5 THEN a ELSE <<>>
    BY <1>1, <1>2, <1>3, PackedFieldsAre, SMTT(40)
  <1>7. /\ f4 \in Seq(FieldSet)
        /\ \A f \in ToSet(f4) : f.wire = 2
        /\ \A n : UInt32sIn(f4, n) = IF n = 6 THEN k ELSE <<>>
    BY <1>1, <1>2, <1>3, PackedFieldsAre, SMTT(40)
  <1>8. CoinFields(r) = fields
    BY DEF CoinFields
  <1> HIDE DEF v, u, a, k, f1, f2, f3, f4
  <1>9. /\ f123 \in Seq(FieldSet)
        /\ ToSet(f123) = ToSet(f1) \cup ToSet(f2) \cup ToSet(f3)
        /\ \A n : UInt32sIn(f123, n) = UInt32sIn(f1, n) \o UInt32sIn(f2, n) \o UInt32sIn(f3, n)
    <2>1. f1 \in Seq(FieldSet) /\ f2 \in Seq(FieldSet) /\ f3 \in Seq(FieldSet)
      BY <1>4, <1>5, <1>6
    <2>2. f123 \in Seq(FieldSet)
      BY <2>1, FieldsThree
    <2>3. ToSet(f123) = ToSet(f1) \cup ToSet(f2) \cup ToSet(f3)
      BY <2>1, FieldsThree
    <2>4. \A n : UInt32sIn(f123, n) = UInt32sIn(f1, n) \o UInt32sIn(f2, n) \o UInt32sIn(f3, n)
      BY <2>1, FieldsThree, ZenonT(60)
    <2> QED
      BY <2>2, <2>3, <2>4
  <1> HIDE DEF f123
  <1>10. /\ fields \in Seq(FieldSet)
         /\ ToSet(fields) = ToSet(f123) \cup ToSet(f4)
         /\ \A n : UInt32sIn(fields, n) = UInt32sIn(f123, n) \o UInt32sIn(f4, n)
    BY <1>7, <1>9, FieldsConcat
  <1> HIDE DEF fields
  <1>11. \A n : UInt32sIn(fields, n)
                    = UInt32sIn(f1, n) \o UInt32sIn(f2, n) \o UInt32sIn(f3, n) \o UInt32sIn(f4, n)
    BY <1>9, <1>10, Zenon
  <1>12. <<>> \o <<>> = <<>> /\ \A s \in Seq(Value) : <<>> \o s = s /\ s \o <<>> = s
    BY EmptyConcat, EmptySeq
  <1>13. UInt32sIn(fields, 4) = u
    <2>1. UInt32sIn(f1, 4) = <<>> /\ UInt32sIn(f2, 4) = u /\ UInt32sIn(f3, 4) = <<>> /\ UInt32sIn(f4, 4) = <<>>
      BY <1>4, <1>5, <1>6, <1>7
    <2>2. UInt32sIn(fields, 4) = <<>> \o u \o <<>> \o <<>>
      BY <1>11, <2>1, Zenon
    <2> QED
      BY <1>1, <1>12, <2>2, Zenon
  <1>14. UInt32sIn(fields, 5) = a
    <2>1. UInt32sIn(f1, 5) = <<>> /\ UInt32sIn(f2, 5) = <<>> /\ UInt32sIn(f3, 5) = a /\ UInt32sIn(f4, 5) = <<>>
      BY <1>4, <1>5, <1>6, <1>7
    <2>2. UInt32sIn(fields, 5) = <<>> \o <<>> \o a \o <<>>
      BY <1>11, <2>1, Zenon
    <2> QED
      BY <1>1, <1>12, <2>2, Zenon
  <1>15. UInt32sIn(fields, 6) = k
    <2>1. UInt32sIn(f1, 6) = <<>> /\ UInt32sIn(f2, 6) = <<>> /\ UInt32sIn(f3, 6) = <<>> /\ UInt32sIn(f4, 6) = k
      BY <1>4, <1>5, <1>6, <1>7
    <2>2. UInt32sIn(fields, 6) = <<>> \o <<>> \o <<>> \o k
      BY <1>11, <2>1, Zenon
    <2> QED
      BY <1>1, <1>12, <2>2, Zenon
  <1>16. UInt32In(fields, 1) = v
    <2>1. ToSet(f1) \subseteq ToSet(fields)
      BY <1>9, <1>10
    <2>2. \A f \in ToSet(fields) : IsVarint(f, 1) => f \in ToSet(f1)
      BY <1>5, <1>6, <1>7, <1>9, <1>10 DEF IsVarint
    <2> QED
      BY <1>1, <1>3, <1>10, <2>1, <2>2, HeldAmong DEF f1
  <1>17. UInt32In(fields, 2) = 0 /\ UInt32In(fields, 3) = 0
    <2>1. HoldsVarint(fields, 2, 0) /\ HoldsVarint(fields, 3, 0)
      BY <1>4, <1>5, <1>6, <1>7, <1>9, <1>10 DEF HoldsVarint, IsVarint
    <2> QED
      BY <1>10, <2>1, UInt32InHeld
  <1> QED
    BY <1>8, <1>10, <1>13, <1>14, <1>15, <1>16, <1>17 DEF v, u, a, k

\* A coin record is read from what it is written as.
LEMMA CoinRead ==
    ASSUME NEW r \in ShortCoins
    PROVE  PCoinRecordParse(CoinText(r)) = PCoinRecordOf(r) /\ ~PCoinRecordFails(CoinText(r))
  <1> DEFINE text == CoinText(r)
             fields == CoinFields(r)
  <1>1. FieldsOf[text] = fields /\ fields \in Seq(GoodFields)
    BY CoinWritten, WrittenRead DEF WrittenAs
  <1>2. PCoinRecordOf(r) = [version |-> r.version, is_coin_base |-> FALSE, height |-> 0,
                            utxo |-> r.utxo, amounts |-> r.amounts, public_keys |-> r.public_keys]
    BY CoinRecordMembers DEF ShortCoins
  <1>3. /\ UInt32In(fields, 1) = r.version
        /\ UInt32In(fields, 2) = 0 /\ UInt32In(fields, 3) = 0
        /\ UInt32sIn(fields, 4) = r.utxo
        /\ UInt32sIn(fields, 5) = r.amounts /\ UInt32sIn(fields, 6) = r.public_keys
    BY CoinFieldsAre
  <1> HIDE DEF text, fields
  <1>4. FieldsUntil(text, NoSubmessage) = fields
    BY <1>1, UntilNoSubmessage DEF FieldsUntil
  <1>5. BoolIn(fields, 2) = FALSE
    BY <1>3 DEF BoolIn
  <1>6. PCoinRecordFrom(fields) = PCoinRecordOf(r)
    BY <1>2, <1>3, <1>5 DEF PCoinRecordFrom
  <1>7. ~PCoinRecordFails(text)
    <2>1. ToSet(fields) \subseteq GoodFields
      BY <1>1, ToSetFacts
    <2> QED
      BY <1>1, <2>1, GoodFieldFacts DEF PCoinRecordFails, Unparsed, NoSubmessage
  <1> QED
    BY <1>4, <1>6, <1>7 DEF PCoinRecordParse, text

CoinTextMap == [r \in ShortCoins |-> CoinText(r)]

\* A coin record is read as it was written.
LEMMA ShortCoin ==
    ASSUME NEW r \in ShortCoins
    PROVE  /\ CoinText(r) \in ShortText /\ Len(CoinText(r)) = CoinSize(r)
           /\ PCoinRecordParse(CoinText(r)) = PCoinRecordOf(r) /\ ~PCoinRecordFails(CoinText(r))
           /\ CoinText(r) = <<>> <=> EmptyCoin(r)
           /\ 0 \in ToSet(CoinText(r)) <=> ZeroCoin(r)
  <1>1. r \in CoinRecords /\ CoinSize(r) \in Value
    BY DEF ShortCoins
  <1>2. /\ CoinText(r) \in Text /\ Len(CoinText(r)) = CoinSize(r)
        /\ 0 \in ToSet(CoinText(r)) <=> ZeroCoin(r)
    BY CoinWritten DEF WrittenAs
  <1>3. CoinText(r) = <<>> <=> EmptyCoin(r)
    BY <1>1, <1>2, CoinSizes, TextFacts
  <1>4. CoinText(r) \in ShortText
    BY <1>1, <1>2 DEF ShortText
  <1> QED
    BY <1>2, <1>3, <1>4, CoinRead

\* The coin records of an undo block, as submessages.
LEMMA CoinsAre ==
    ASSUME NEW s \in Seq(ShortCoins)
    PROVE  /\ Map(CoinTextMap, s) \in Seq(ShortText)
           /\ FlattenSeq([i \in DOMAIN s |-> Message(2, CoinSize(s[i]), CoinText(s[i]))])
                = Flat(RunTextMap(2), Map(CoinTextMap, s))
           /\ SumOf([i \in DOMAIN s |-> RunSize(CoinSize(s[i]))])
                = SumOf(Map(RunSizeMap, Map(CoinTextMap, s)))
           /\ [i \in DOMAIN Map(CoinTextMap, s) |-> PUndoCoinRecordParse(Map(CoinTextMap, s)[i])]
                = [i \in DOMAIN s |-> PCoinRecordOf(s[i])]
           /\ \A text \in ToSet(Map(CoinTextMap, s)) : ~PUndoCoinRecordFails(text)
           /\ ZeroIn(Map(CoinTextMap, s)) <=> \E r \in ToSet(s) : EmptyCoin(r) \/ ZeroCoin(r)
  <1> DEFINE g == CoinTextMap
             texts == Map(g, s)
  <1>1. Into(g, ShortCoins, ShortText)
    BY ShortCoin DEF CoinTextMap, Into
  <1>2. \A r \in ShortCoins :
            /\ g[r] = CoinText(r)
            /\ Len(g[r]) = CoinSize(r)
            /\ PUndoCoinRecordParse(g[r]) = PCoinRecordOf(r) /\ ~PUndoCoinRecordFails(g[r])
            /\ g[r] = <<>> \/ 0 \in ToSet(g[r]) <=> EmptyCoin(r) \/ ZeroCoin(r)
    BY ShortCoin DEF CoinTextMap, PUndoCoinRecordParse, PUndoCoinRecordFails
  <1>3. 2 \in Number
    BY DEF Number
  <1> HIDE DEF g
  <1>4. /\ texts \in Seq(ShortText) /\ Len(texts) = Len(s) /\ DOMAIN texts = DOMAIN s
        /\ \A i \in DOMAIN s : s[i] \in ShortCoins /\ texts[i] = g[s[i]]
        /\ ToSet(texts) = { g[e] : e \in ToSet(s) }
        /\ FlattenSeq([i \in DOMAIN s |-> Message(2, Len(g[s[i]]), g[s[i]])])
                = Flat(RunTextMap(2), texts)
        /\ SumOf([i \in DOMAIN s |-> RunSize(Len(g[s[i]]))]) = SumOf(Map(RunSizeMap, texts))
    <2>1. SubmessagesGood(ShortCoins, g, s, 2)
      BY <1>1, <1>3, SubmessagesAre
    <2> QED
      BY <2>1 DEF SubmessagesGood
  <1> HIDE DEF texts
  <1>5. [i \in DOMAIN s |-> Message(2, CoinSize(s[i]), CoinText(s[i]))]
            = [i \in DOMAIN s |-> Message(2, Len(g[s[i]]), g[s[i]])]
    BY <1>2, <1>4
  <1>6. [i \in DOMAIN s |-> RunSize(CoinSize(s[i]))] = [i \in DOMAIN s |-> RunSize(Len(g[s[i]]))]
    BY <1>2, <1>4
  <1>7. [i \in DOMAIN texts |-> PUndoCoinRecordParse(texts[i])] = [i \in DOMAIN s |-> PCoinRecordOf(s[i])]
    <2>1. \A i \in DOMAIN s : PUndoCoinRecordParse(texts[i]) = PCoinRecordOf(s[i])
      BY <1>2, <1>4
    <2> QED
      BY <1>4, <2>1
  <1>8. ToSet(s) \subseteq ShortCoins
    BY ToSetFacts
  <1>9. \A text \in ToSet(texts) : ~PUndoCoinRecordFails(text)
    BY <1>2, <1>4, <1>8
  <1>10. ZeroIn(texts) <=> \E r \in ToSet(s) : EmptyCoin(r) \/ ZeroCoin(r)
    <2>1. ZeroIn(texts) <=> \E r \in ToSet(s) : g[r] = <<>> \/ 0 \in ToSet(g[r])
      BY <1>4 DEF ZeroIn
    <2> QED
      BY <1>2, <1>8, <2>1
  <1> QED
    BY <1>4, <1>5, <1>6, <1>7, <1>9, <1>10 DEF texts, g

----------------------------------------------------------------------------
(* Undo blocks. *)

UndoBlocks ==
    { u \in [transaction_hashes : Seq(Value), undo_coin_records : Seq(CoinRecords)] :
        Len(u.undo_coin_records) = Len(u.transaction_hashes) }
UndoSize(u) == PUndoBlockSize(PUndoBlockOf(u))
UndoText(u) == PUndoBlockText(PUndoBlockOf(u))

\* The members of an undo block and of its message.
LEMMA UndoMembers ==
    ASSUME NEW u \in UndoBlocks
    PROVE  /\ u.transaction_hashes \in Seq(Value) /\ u.undo_coin_records \in Seq(CoinRecords)
           /\ DOMAIN u.undo_coin_records = DOMAIN u.transaction_hashes
           /\ PUndoBlockOf(u).transaction_hashes = u.transaction_hashes
           /\ PUndoBlockOf(u).undo_coin_records
                = [i \in DOMAIN u.undo_coin_records |-> PCoinRecordOf(u.undo_coin_records[i])]
           /\ UndoSize(u) = PackedFieldSize(u.transaction_hashes)
                + SumOf([i \in DOMAIN u.undo_coin_records |-> RunSize(CoinSize(u.undo_coin_records[i]))])
           /\ UndoText(u) = Packed(1, u.transaction_hashes)
                \o FlattenSeq([i \in DOMAIN u.undo_coin_records |->
                        Message(2, CoinSize(u.undo_coin_records[i]), CoinText(u.undo_coin_records[i]))])
  <1> DEFINE hs == u.transaction_hashes
             rs == u.undo_coin_records
             m == PUndoBlockOf(u)
             ms == [i \in DOMAIN rs |-> PCoinRecordOf(rs[i])]
  <1>1. hs \in Seq(Value) /\ rs \in Seq(CoinRecords) /\ Len(rs) = Len(hs)
    BY DEF UndoBlocks
  <1>2. DOMAIN rs = DOMAIN hs
    BY <1>1
  <1>3. m = [transaction_hashes |-> hs, undo_coin_records |-> ms]
    BY <1>2 DEF PUndoBlockOf
  <1>4. m.transaction_hashes = hs /\ m.undo_coin_records = ms
    BY <1>3
  <1>5. DOMAIN ms = DOMAIN rs /\ \A i \in DOMAIN rs : ms[i] = PCoinRecordOf(rs[i])
    OBVIOUS
  <1> HIDE DEF m, ms, rs, hs
  <1>6. UndoSize(u) = PackedFieldSize(hs) + SumOf([i \in DOMAIN rs |-> RunSize(CoinSize(rs[i]))])
    <2>1. [i \in DOMAIN ms |-> RunSize(PUndoCoinRecordSize(ms[i]))] = [i \in DOMAIN rs |-> RunSize(CoinSize(rs[i]))]
      BY <1>5 DEF PUndoCoinRecordSize, CoinSize
    <2>2. UndoSize(u) = PackedFieldSize(hs) + SumOf([i \in DOMAIN ms |-> RunSize(PUndoCoinRecordSize(ms[i]))])
      BY <1>4 DEF UndoSize, PUndoBlockSize, m
    <2> QED
      BY <2>1, <2>2
  <1>7. UndoText(u) = Packed(1, hs) \o FlattenSeq([i \in DOMAIN rs |-> Message(2, CoinSize(rs[i]), CoinText(rs[i]))])
    <2>1. [i \in DOMAIN ms |-> Message(2, PUndoCoinRecordSize(ms[i]), PUndoCoinRecordText(ms[i]))]
            = [i \in DOMAIN rs |-> Message(2, CoinSize(rs[i]), CoinText(rs[i]))]
      BY <1>5 DEF PUndoCoinRecordSize, PUndoCoinRecordText, CoinSize, CoinText
    <2>2. UndoText(u) = Packed(1, hs) \o FlattenSeq([i \in DOMAIN ms |->
                            Message(2, PUndoCoinRecordSize(ms[i]), PUndoCoinRecordText(ms[i]))])
      BY <1>4 DEF UndoText, PUndoBlockText, m
    <2> QED
      BY <2>1, <2>2
  <1>8. PUndoBlockOf(u).transaction_hashes = hs /\ PUndoBlockOf(u).undo_coin_records = ms
    BY <1>4 DEF m
  <1> QED
    BY <1>1, <1>2, <1>6, <1>7, <1>8 DEF hs, rs, ms

\* The records of an undo block whose text is short are short.
LEMMA UndoSizes ==
    ASSUME NEW u \in UndoBlocks
    PROVE  /\ UndoSize(u) \in Nat
           /\ UndoSize(u) \in Value => /\ PackedSize(u.transaction_hashes) \in Value
                                       /\ u.undo_coin_records \in Seq(ShortCoins)
  <1> DEFINE hs == u.transaction_hashes
             rs == u.undo_coin_records
             h == PackedFieldSize(hs)
             sizes == [i \in DOMAIN rs |-> RunSize(CoinSize(rs[i]))]
  <1>1. hs \in Seq(Value) /\ rs \in Seq(CoinRecords) /\ UndoSize(u) = h + SumOf(sizes)
    BY UndoMembers
  <1>2. h \in Nat /\ PackedSize(hs) \in Nat /\ h >= PackedSize(hs)
    <2>1. PackedSize(hs) \in Nat
      BY <1>1, PackedFacts DEF PackedGood
    <2>2. VarintSize(PackedSize(hs)) \in Nat
      BY VarintSizeNat
    <2>3. hs = <<>> => PackedSize(hs) = 0
      <3>1. [i \in DOMAIN <<>> |-> VarintSize(<<>>[i])] = <<>>
        OBVIOUS
      <3> QED
        BY <3>1, SumFacts DEF PackedSize
    <2> HIDE DEF hs
    <2> QED
      BY <2>1, <2>2, <2>3 DEF PackedFieldSize, RunSize
  <1>3. DOMAIN rs = 1 .. Len(rs) /\ Len(rs) \in Nat /\ \A i \in 1 .. Len(rs) : rs[i] \in CoinRecords
    BY <1>1, LenProperties, ElementOfSeq
  <1>4. \A i \in 1 .. Len(rs) :
            /\ CoinSize(rs[i]) \in Nat
            /\ RunSize(CoinSize(rs[i])) \in Nat
            /\ RunSize(CoinSize(rs[i])) > CoinSize(rs[i])
    <2> TAKE i \in 1 .. Len(rs)
    <2>1. CoinSize(rs[i]) \in Nat
      BY <1>3, CoinSizes
    <2>2. VarintSize(CoinSize(rs[i])) \in Nat
      BY VarintSizeNat
    <2> QED
      BY <2>1, <2>2 DEF RunSize
  <1>5. sizes \in Seq(Nat) /\ Len(sizes) = Len(rs) /\ \A i \in 1 .. Len(rs) : sizes[i] = RunSize(CoinSize(rs[i]))
    BY <1>3, <1>4
  <1>6. SumOf(sizes) \in Nat /\ \A i \in 1 .. Len(sizes) : sizes[i] <= SumOf(sizes)
    BY <1>5, SumBounds
  <1> HIDE DEF h, sizes
  <1>7. UndoSize(u) \in Nat
    BY <1>1, <1>2, <1>6
  <1>8. ASSUME UndoSize(u) \in Value
        PROVE  PackedSize(hs) \in Value /\ rs \in Seq(ShortCoins)
    <2>1. \A i \in 1 .. Len(rs) : CoinSize(rs[i]) <= UndoSize(u)
      BY <1>1, <1>2, <1>4, <1>5, <1>6
    <2>2. UndoSize(u) <= MaxValue /\ MaxValue \in Nat
      BY <1>8, ValueFacts, SMT
    <2>3. \A i \in 1 .. Len(rs) : CoinSize(rs[i]) \in Value
      <3> TAKE i \in 1 .. Len(rs)
      <3>1. CoinSize(rs[i]) \in Nat /\ CoinSize(rs[i]) <= MaxValue
        BY <1>4, <1>7, <2>1, <2>2
      <3> QED
        BY <3>1, ValueFacts
    <2>4. \A i \in 1 .. Len(rs) : rs[i] \in ShortCoins
      BY <1>3, <2>3 DEF ShortCoins
    <2>5. rs = [i \in 1 .. Len(rs) |-> rs[i]]
      BY <1>1, <1>3
    <2>6. PackedSize(hs) <= MaxValue
      BY <1>1, <1>2, <1>6, <1>7, <2>2
    <2>7. PackedSize(hs) \in Value
      BY <1>2, <2>6, ValueFacts
    <2>8. rs \in Seq(ShortCoins)
      BY <1>3, <2>4, <2>5
    <2> QED
      BY <2>7, <2>8
  <1> QED
    BY <1>7, <1>8

ShortUndos == { u \in UndoBlocks : UndoSize(u) \in Value }

UndoFields(u) ==
    PackedFields(1, u.transaction_hashes) \o Map(RunFieldMap(2), Map(CoinTextMap, u.undo_coin_records))

\* An undo block whose text has a zero byte.
ZeroUndo(u) == \/ 0 \in ToSet(u.transaction_hashes)
               \/ \E r \in ToSet(u.undo_coin_records) : EmptyCoin(r) \/ ZeroCoin(r)

\* What an undo block is written as.
LEMMA UndoWritten ==
    ASSUME NEW u \in ShortUndos
    PROVE  /\ WrittenAs(UndoText(u), UndoSize(u), ZeroUndo(u), UndoFields(u))
           /\ WrittenAs(Packed(1, u.transaction_hashes), PackedFieldSize(u.transaction_hashes),
                      0 \in ToSet(u.transaction_hashes), PackedFields(1, u.transaction_hashes))
           /\ PackedFieldSize(u.transaction_hashes) \in Nat
           /\ \E rest \in Text : UndoText(u) = Packed(1, u.transaction_hashes) \o rest
  <1> DEFINE hs == u.transaction_hashes
             rs == u.undo_coin_records
             rt == Map(CoinTextMap, rs)
             t1 == Packed(1, hs)
             t2 == Flat(RunTextMap(2), rt)
             s1 == PackedFieldSize(hs)
             s2 == SumOf(Map(RunSizeMap, rt))
             f1 == PackedFields(1, hs)
             f2 == Map(RunFieldMap(2), rt)
             z1 == 0 \in ToSet(hs)
             z2 == ZeroIn(rt)
  <1>0. u \in UndoBlocks /\ UndoSize(u) \in Value
    BY DEF ShortUndos
  <1>1. hs \in Seq(Value) /\ PackedSize(hs) \in Value /\ rs \in Seq(ShortCoins)
    BY <1>0, UndoMembers, UndoSizes
  <1>2. 1 \in Number /\ 2 \in Number
    BY DEF Number
  <1>3. /\ rt \in Seq(ShortText)
        /\ FlattenSeq([i \in DOMAIN rs |-> Message(2, CoinSize(rs[i]), CoinText(rs[i]))]) = t2
        /\ SumOf([i \in DOMAIN rs |-> RunSize(CoinSize(rs[i]))]) = s2
        /\ z2 <=> \E r \in ToSet(rs) : EmptyCoin(r) \/ ZeroCoin(r)
    BY <1>1, CoinsAre
  <1>4. WrittenAs(t1, s1, z1, f1) /\ s1 \in Nat
    BY <1>1, <1>2, PackedWritten
  <1>5. WrittenAs(t2, s2, z2, f2) /\ s2 \in Nat
    <2>1. ListGood(2, rt, f2)
      BY <1>2, <1>3, ListWritten
    <2> QED
      BY <2>1 DEF ListGood
  <1>6. UndoText(u) = t1 \o t2 /\ UndoSize(u) = s1 + s2
    BY <1>0, <1>3, UndoMembers
  <1>7. UndoFields(u) = f1 \o f2
    BY DEF UndoFields
  <1>8. ZeroUndo(u) <=> z1 \/ z2
    BY <1>3 DEF ZeroUndo
  <1> HIDE DEF t1, t2, s1, s2, f1, f2, z1, z2
  <1>9. WrittenAs(t1 \o t2, s1 + s2, z1 \/ z2, f1 \o f2)
    BY <1>4, <1>5, WrittenConcat
  <1>10. WrittenAs(t1 \o t2, s1 + s2, ZeroUndo(u), f1 \o f2)
    BY <1>8, <1>9, WrittenZero
  <1>11. \E rest \in Text : UndoText(u) = t1 \o rest
    BY <1>5, <1>6 DEF WrittenAs
  <1>12. WrittenAs(UndoText(u), UndoSize(u), ZeroUndo(u), UndoFields(u))
    BY <1>6, <1>7, <1>10
  <1> QED
    BY <1>4, <1>11, <1>12 DEF t1, s1, f1, z1

\* What is read from the fields of an undo block.
LEMMA UndoFieldsAre ==
    ASSUME NEW u \in ShortUndos
    PROVE  LET fields == UndoFields(u)
               texts == Map(CoinTextMap, u.undo_coin_records)
           IN  /\ fields \in Seq(FieldSet)
               /\ UInt32sIn(fields, 1) = u.transaction_hashes
               /\ RunsIn(fields, 2) = texts
               /\ \A f \in ToSet(fields) : IsRun(f, 2) => f.bytes \in ToSet(texts)
  <1> DEFINE hs == u.transaction_hashes
             texts == Map(CoinTextMap, u.undo_coin_records)
             f1 == PackedFields(1, hs)
             f2 == Map(RunFieldMap(2), texts)
             fields == f1 \o f2
  <1>0. u \in UndoBlocks /\ UndoSize(u) \in Value
    BY DEF ShortUndos
  <1>1. hs \in Seq(Value) /\ PackedSize(hs) \in Value /\ u.undo_coin_records \in Seq(ShortCoins)
    BY <1>0, UndoMembers, UndoSizes
  <1>2. 1 \in Number /\ 2 \in Number
    BY DEF Number
  <1>3. texts \in Seq(ShortText)
    BY <1>1, CoinsAre
  <1>4. UndoFields(u) = fields
    BY DEF UndoFields
  <1>5. ListGood(2, texts, f2)
    BY <1>2, <1>3, ListWritten
  <1> HIDE DEF hs, texts, f2
  <1>6. /\ f1 \in Seq(FieldSet)
        /\ \A f \in ToSet(f1) : f.number = 1
        /\ UInt32sIn(f1, 1) = hs /\ RunsIn(f1, 2) = <<>>
    BY <1>1, <1>2, PackedFieldsAre
  <1>7. /\ f2 \in Seq(FieldSet)
        /\ \A f \in ToSet(f2) : f.bytes \in ToSet(texts)
        /\ UInt32sIn(f2, 1) = <<>> /\ RunsIn(f2, 2) = texts
    BY <1>5 DEF ListGood
  <1> HIDE DEF f1
  <1>8. /\ fields \in Seq(FieldSet) /\ ToSet(fields) = ToSet(f1) \cup ToSet(f2)
        /\ RunsIn(fields, 2) = RunsIn(f1, 2) \o RunsIn(f2, 2)
        /\ UInt32sIn(fields, 1) = UInt32sIn(f1, 1) \o UInt32sIn(f2, 1)
    BY <1>6, <1>7, FieldsConcat, ZenonT(60)
  <1> HIDE DEF fields
  <1>9. UInt32sIn(fields, 1) = hs
    <2>1. UInt32sIn(fields, 1) = hs \o <<>>
      BY <1>6, <1>7, <1>8
    <2> QED
      BY <1>1, <2>1, EmptyConcat
  <1>10. RunsIn(fields, 2) = texts
    <2>1. RunsIn(fields, 2) = <<>> \o texts
      BY <1>6, <1>7, <1>8
    <2> QED
      BY <1>3, <2>1, EmptyConcat
  <1>11. \A f \in ToSet(fields) : IsRun(f, 2) => f.bytes \in ToSet(texts)
    BY <1>6, <1>7, <1>8 DEF IsRun
  <1> QED
    BY <1>4, <1>8, <1>9, <1>10, <1>11 DEF hs, texts

\* An undo block is read from what it is written as.
LEMMA UndoRead ==
    ASSUME NEW u \in ShortUndos
    PROVE  PUndoBlockParse(UndoText(u)) = PUndoBlockOf(u)
  <1> DEFINE text == UndoText(u)
             fields == UndoFields(u)
             hs == u.transaction_hashes
             rs == u.undo_coin_records
             texts == Map(CoinTextMap, rs)
             ms == [i \in DOMAIN rs |-> PCoinRecordOf(rs[i])]
  <1>0. u \in UndoBlocks /\ UndoSize(u) \in Value
    BY DEF ShortUndos
  <1>1. rs \in Seq(ShortCoins)
    BY <1>0, UndoSizes
  <1>2. PUndoBlockOf(u) = [transaction_hashes |-> hs, undo_coin_records |-> ms]
    <2>1. DOMAIN rs = DOMAIN hs
      BY <1>0, UndoMembers
    <2> QED
      BY <2>1 DEF PUndoBlockOf
  <1>3. FieldsOf[text] = fields /\ fields \in Seq(GoodFields)
    <2>1. WrittenAs(text, UndoSize(u), ZeroUndo(u), fields)
      BY UndoWritten
    <2> HIDE DEF text, fields
    <2> QED
      BY <2>1, WrittenRead DEF WrittenAs
  <1>4. /\ UInt32sIn(fields, 1) = hs /\ RunsIn(fields, 2) = texts
        /\ \A f \in ToSet(fields) : IsRun(f, 2) => f.bytes \in ToSet(texts)
    BY UndoFieldsAre
  <1>5. /\ [i \in DOMAIN texts |-> PUndoCoinRecordParse(texts[i])] = ms
        /\ \A t \in ToSet(texts) : ~PUndoCoinRecordFails(t)
    BY <1>1, CoinsAre
  <1> HIDE DEF text, fields, hs, rs, texts, ms
  <1>6. \A f \in ToSet(fields) : f.whole /\ ~PUndoBlockSubmessageFails(f)
    <2>1. ToSet(fields) \subseteq GoodFields
      BY <1>3, ToSetFacts
    <2> QED
      BY <1>4, <1>5, <2>1, GoodFieldFacts DEF PUndoBlockSubmessageFails
  <1>7. Until(fields, PUndoBlockSubmessageFails) = fields
    <2>1. \A i \in 1 .. Len(fields) : fields[i] \in ToSet(fields)
      BY <1>3, ToSetFacts
    <2>2. { i \in 1 .. Len(fields) : ~fields[i].whole \/ PUndoBlockSubmessageFails(fields[i]) } = {}
      BY <1>6, <2>1
    <2> QED
      BY <2>2 DEF Until, UpTo, SelectInSeq
  <1>8. PUndoBlockParse(text) = PUndoBlockFrom(fields, texts)
    BY <1>3, <1>4, <1>7 DEF PUndoBlockParse, FieldsUntil, PUndoBlockIn
  <1>9. PUndoBlockFrom(fields, texts) = PUndoBlockOf(u)
    BY <1>2, <1>4, <1>5 DEF PUndoBlockFrom
  <1> QED
    BY <1>8, <1>9 DEF text

\* A coin record whose version is a uint8_t is not cut.
LEMMA CoinKept ==
    ASSUME NEW r \in CoinRecords, r.version \in UInt8
    PROVE  CoinRecordIn(PCoinRecordOf(r)) = r /\ Indexable(PCoinRecordOf(r))
  <1> DEFINE m == PCoinRecordOf(r)
             u == r.utxo
             a == r.amounts
             k == r.public_keys
  <1>1. /\ m.version = r.version /\ m.utxo = u /\ m.amounts = a /\ m.public_keys = k
        /\ r = CoinRecord(r.version, u, a, k)
    BY CoinRecordMembers
  <1>2. u \in Seq(Value) /\ a \in Seq(Value) /\ k \in Seq(Value) /\ Len(a) = Len(u) /\ Len(k) = Len(u)
    BY DEF CoinRecords
  <1> HIDE DEF m, u, a, k
  <1>3. [i \in DOMAIN u |-> a[i]] = a /\ [i \in DOMAIN u |-> k[i]] = k
    BY <1>2
  <1>4. r.version % Byte2 = r.version
    BY UInt8Facts
  <1>5. CoinRecordIn(m) = CoinRecord(r.version % Byte2, u, [i \in DOMAIN u |-> a[i]], [i \in DOMAIN u |-> k[i]])
    BY <1>1 DEF CoinRecordIn
  <1>6. CoinRecordIn(m) = r
    BY <1>1, <1>3, <1>4, <1>5, Zenon
  <1>7. Indexable(m)
    BY <1>1, <1>2 DEF Indexable
  <1> QED
    BY <1>6, <1>7 DEF m

\* What is known of a coin record whose text is short.
LEMMA CoinRecordTextFacts ==
    ASSUME NEW r \in CoinRecords, r.version \in UInt8, Len(CoinRecordSerialize(r)) \in Value
    PROVE  /\ CoinRecordSerialize(r) \in Text
           /\ CoinRecordDeserialize(CoinRecordSerialize(r)) = r
           /\ CoinRecordSerialize(r) = <<>> <=> EmptyCoin(r)
  <1>1. Len(CoinRecordSerialize(r)) = CoinSize(r)
    BY CoinSizes, SerializedLength DEF CoinRecordSerialize, PCoinRecordSerialize, CoinSize
  <1>2. r \in ShortCoins
    BY <1>1 DEF ShortCoins
  <1>3. /\ CoinText(r) \in Text /\ Len(CoinText(r)) = CoinSize(r)
        /\ CoinText(r) = <<>> <=> EmptyCoin(r)
    BY <1>2, ShortCoin DEF ShortText
  <1>4. CoinRecordSerialize(r) = CoinText(r)
    BY <1>3, SerializedText DEF CoinRecordSerialize, PCoinRecordSerialize, CoinText, CoinSize
  <1>5. PCoinRecordParse(CoinText(r)) = PCoinRecordOf(r)
    BY <1>2, ShortCoin
  <1> QED
    BY <1>3, <1>4, <1>5, CoinKept DEF CoinRecordDeserialize

\* A coin record is deserialized as it was, if its version fits the uint8_t it
\* is read into.
THEOREM CoinRecordRoundTrip ==
    ASSUME NEW r \in CoinRecords, r.version \in UInt8, Len(CoinRecordSerialize(r)) \in Value
    PROVE  CoinRecordDeserialize(CoinRecordSerialize(r)) = r
  BY CoinRecordTextFacts

\* The text of an undo block, and the message read from it.
LEMMA UndoTextFacts ==
    ASSUME NEW u \in UndoBlocks, Len(UndoBlockSerialize(u)) \in Value
    PROVE  /\ UndoBlockSerialize(u) \in Text
           /\ UndoBlockSerialize(u) = UndoText(u) /\ u \in ShortUndos
           /\ PUndoBlockParse(UndoBlockSerialize(u)) = PUndoBlockOf(u)
           /\ 0 \in ToSet(UndoBlockSerialize(u)) <=> ZeroUndo(u)
  <1>1. Len(UndoBlockSerialize(u)) = UndoSize(u)
    BY UndoSizes, SerializedLength DEF UndoBlockSerialize, PUndoBlockSerialize, UndoSize
  <1>2. u \in ShortUndos
    BY <1>1 DEF ShortUndos
  <1>3. /\ UndoText(u) \in Text /\ Len(UndoText(u)) = UndoSize(u)
        /\ 0 \in ToSet(UndoText(u)) <=> ZeroUndo(u)
    BY <1>2, UndoWritten DEF WrittenAs
  <1>4. UndoBlockSerialize(u) = UndoText(u)
    BY <1>3, SerializedText DEF UndoBlockSerialize, PUndoBlockSerialize, UndoText, UndoSize
  <1> QED
    BY <1>2, <1>3, <1>4, UndoRead

\* The undo blocks of a program whose versions are uint8_t.
UncutUndo(u) == \A r \in ToSet(u.undo_coin_records) : r.version \in UInt8

\* An undo block is deserialized as it was, if none of its versions is cut to
\* a uint8_t.
THEOREM UndoBlockRoundTrip ==
    ASSUME NEW u \in UndoBlocks, UncutUndo(u), Len(UndoBlockSerialize(u)) \in Value
    PROVE  UndoBlockDeserialize(UndoBlockSerialize(u)) = u
  <1> DEFINE m == PUndoBlockOf(u)
             hs == u.transaction_hashes
             rs == u.undo_coin_records
  <1>1. /\ hs \in Seq(Value) /\ rs \in Seq(CoinRecords) /\ DOMAIN rs = DOMAIN hs
        /\ m.transaction_hashes = hs
        /\ m.undo_coin_records = [i \in DOMAIN rs |-> PCoinRecordOf(rs[i])]
    BY UndoMembers
  <1>2. u = [transaction_hashes |-> hs, undo_coin_records |-> rs]
    BY DEF UndoBlocks
  <1>3. \A i \in DOMAIN rs : rs[i] \in CoinRecords /\ rs[i].version \in UInt8
    <2>1. \A i \in DOMAIN rs : rs[i] \in ToSet(rs)
      BY <1>1, ToSetFacts
    <2> QED
      BY <1>1, <2>1 DEF UncutUndo
  <1> HIDE DEF m, hs, rs
  <1>4. \A i \in DOMAIN hs : /\ i \in DOMAIN m.undo_coin_records
                             /\ CoinRecordIn(m.undo_coin_records[i]) = rs[i]
                             /\ Indexable(m.undo_coin_records[i])
    BY <1>1, <1>3, CoinKept
  <1>5. ~Overruns(m)
    <2>1. Len(m.undo_coin_records) = Len(rs)
      BY <1>1
    <2>2. \A i \in DOMAIN hs : i <= Len(rs)
      BY <1>1
    <2> QED
      BY <1>1, <1>4, <2>1, <2>2 DEF Overruns
  <1>6. [i \in DOMAIN hs |-> CoinRecordIn(m.undo_coin_records[i])] = rs
    <2>1. rs = [i \in DOMAIN hs |-> rs[i]]
      BY <1>1
    <2> QED
      BY <1>4, <2>1
  <1>7. UndoBlockIn(m) = [transaction_hashes |-> hs, undo_coin_records |-> rs]
    BY <1>1, <1>5, <1>6 DEF UndoBlockIn
  <1>8. PUndoBlockParse(UndoBlockSerialize(u)) = m
    BY UndoTextFacts DEF m
  <1> QED
    BY <1>2, <1>7, <1>8 DEF UndoBlockDeserialize

\* What the parse of an undo block takes in of a text: some of its fields, and
\* the first one whatever follows it.
LEMMA UntilFirst ==
    ASSUME NEW f \in FieldSet, NEW rest \in Seq(FieldSet), f.whole, ~PUndoBlockSubmessageFails(f)
    PROVE  \E g \in Seq(FieldSet) : Until(<<f>> \o rest, PUndoBlockSubmessageFails) = <<f>> \o g
  <1> DEFINE fields == <<f>> \o rest
             I == { i \in 1 .. Len(fields) : ~fields[i].whole \/ PUndoBlockSubmessageFails(fields[i]) }
             stop == IF I # {} THEN Min(I) ELSE 0
  <1>1. Until(fields, PUndoBlockSubmessageFails) = UpTo(fields, stop)
    BY DEF Until, SelectInSeq
  <1>2. fields \in Seq(FieldSet) /\ Len(fields) = 1 + Len(rest) /\ Len(rest) \in Nat
        /\ fields[1] = f /\ \A i \in 1 .. Len(rest) : fields[i + 1] = rest[i]
    BY ConcatProperties, LenProperties
  <1>3. CASE I = {}
    BY <1>1, <1>3 DEF UpTo
  <1>4. CASE I # {}
    <2>1. stop \in I
      <3>1. Len(fields) \in Nat /\ I \in SUBSET (1 .. Len(fields))
        BY <1>2
      <3> HIDE DEF I
      <3> QED
        BY <1>4, <3>1, SmallestIs
    <2>2. stop \in 1 .. Len(fields) /\ stop # 1
      BY <1>2, <2>1
    <2> HIDE DEF stop, fields, I
    <2>3. stop \in Nat /\ stop > 1 /\ stop - 1 \in 1 .. Len(rest)
      BY <1>2, <2>2
    <2> DEFINE g == SubSeq(rest, 1, stop - 1)
    <2>4. g \in Seq(FieldSet) /\ Len(g) = stop - 1 /\ \A i \in 1 .. stop - 1 : g[i] = rest[i]
      BY <2>3
    <2>5. /\ SubSeq(fields, 1, stop) \in Seq(FieldSet) /\ Len(SubSeq(fields, 1, stop)) = stop
          /\ \A i \in 1 .. stop : SubSeq(fields, 1, stop)[i] = fields[i]
      BY <1>2, <2>2
    <2> HIDE DEF g
    <2>6. /\ <<f>> \o g \in Seq(FieldSet) /\ Len(<<f>> \o g) = stop
          /\ (<<f>> \o g)[1] = f /\ \A i \in 1 .. stop - 1 : (<<f>> \o g)[i + 1] = g[i]
      BY <2>3, <2>4, ConcatProperties
    <2>7. ASSUME NEW i \in 1 .. stop
          PROVE  SubSeq(fields, 1, stop)[i] = (<<f>> \o g)[i]
      <3>1. CASE i = 1
        BY <1>2, <2>3, <2>5, <2>6, <3>1
      <3>2. CASE i # 1
        <4>1. i - 1 \in 1 .. stop - 1 /\ i = (i - 1) + 1
          BY <2>3, <3>2
        <4>2. (<<f>> \o g)[i] = g[i - 1]
          BY <2>6, <4>1
        <4>3. fields[i] = rest[i - 1]
          BY <1>2, <2>3, <4>1
        <4> QED
          BY <2>4, <2>5, <4>1, <4>2, <4>3
      <3> QED
        BY <3>1, <3>2
    <2>8. SubSeq(fields, 1, stop) = <<f>> \o g
      BY <2>5, <2>6, <2>7, SeqEqual
    <2>9. Until(fields, PUndoBlockSubmessageFails) = <<f>> \o g
      BY <1>1, <2>3, <2>8 DEF UpTo
    <2> QED
      BY <2>4, <2>9 DEF fields
  <1> QED
    BY <1>3, <1>4

\* Whatever follows the hashes of an undo block, they are read first.
LEMMA HashesFirst ==
    ASSUME NEW u \in ShortUndos, NEW rest \in Text
    PROVE  IsPrefix(u.transaction_hashes,
                    PUndoBlockParse(Packed(1, u.transaction_hashes) \o rest).transaction_hashes)
  <1> DEFINE hs == u.transaction_hashes
             f1 == PackedFields(1, hs)
             text == Packed(1, hs) \o rest
             fields == FieldsUntil(text, PUndoBlockSubmessageFails)
  <1>0. u \in UndoBlocks /\ UndoSize(u) \in Value
    BY DEF ShortUndos
  <1>1. hs \in Seq(Value) /\ PackedSize(hs) \in Value
    BY <1>0, UndoMembers, UndoSizes
  <1>2. FieldsOf[text] = f1 \o FieldsOf[rest] /\ f1 \in Seq(GoodFields)
    BY UndoWritten DEF WrittenAs
  <1>3. FieldsOf[rest] \in Seq(FieldSet)
    BY FieldsTyped
  <1>4. PUndoBlockParse(text).transaction_hashes = UInt32sIn(fields, 1)
    BY DEF PUndoBlockParse, PUndoBlockIn, PUndoBlockFrom
  <1>5. 1 \in Number
    BY DEF Number
  <1>6. /\ f1 \in Seq(FieldSet) /\ UInt32sIn(f1, 1) = hs
        /\ \A f \in ToSet(f1) : f.number = 1
    BY <1>1, <1>5, PackedFieldsAre
  <1>7. \E g \in Seq(FieldSet) : fields = f1 \o g
    <2>1. CASE hs = <<>>
      <3>1. f1 = <<>>
        BY <2>1 DEF PackedFields
      <3> DEFINE all == FieldsOf[text]
      <3>2. all \in Seq(FieldSet)
        BY <1>2, <1>3, <1>6, ConcatProperties
      <3> HIDE DEF all
      <3>3. Until(all, PUndoBlockSubmessageFails) \in Seq(FieldSet)
        <4> DEFINE I == { i \in 1 .. Len(all) : ~all[i].whole \/ PUndoBlockSubmessageFails(all[i]) }
                   stop == IF I # {} THEN Min(I) ELSE 0
        <4>1. Until(all, PUndoBlockSubmessageFails) = UpTo(all, stop)
          BY DEF Until, SelectInSeq
        <4>2. I # {} => stop \in 1 .. Len(all)
          <5>1. Len(all) \in Nat /\ I \in SUBSET (1 .. Len(all))
            BY <3>2, LenProperties
          <5> HIDE DEF I
          <5>2. I # {} => Min(I) \in I
            BY <5>1, SmallestIs
          <5> QED
            BY <5>1, <5>2
        <4>3. I = {} => stop = 0
          OBVIOUS
        <4> HIDE DEF stop, I
        <4>4. CASE stop = 0
          BY <3>2, <4>1, <4>4 DEF UpTo
        <4>5. CASE stop \in 1 .. Len(all)
          <5>1. SubSeq(all, 1, stop) \in Seq(FieldSet)
            BY <3>2, <4>5
          <5>2. stop # 0
            BY <4>5
          <5> QED
            BY <4>1, <5>1, <5>2 DEF UpTo
        <4> QED
          BY <4>2, <4>3, <4>4, <4>5
      <3>4. fields \in Seq(FieldSet)
        BY <3>3 DEF FieldsUntil, all
      <3> HIDE DEF fields
      <3>5. fields = <<>> \o fields
        BY <3>4, EmptyConcat
      <3> QED
        BY <3>1, <3>4, <3>5
    <2>2. CASE hs # <<>>
      <3> DEFINE f == RunField(1, PackedText(hs))
      <3>1. f1 = <<f>>
        BY <2>2 DEF PackedFields
      <3>2. ToSet(f1) = {f}
        BY <3>1, ToSetFacts
      <3>3. f \in GoodFields /\ f.number = 1
        <4>1. ToSet(f1) \subseteq GoodFields
          BY <1>2, ToSetFacts
        <4> QED
          BY <1>6, <3>2, <4>1
      <3> HIDE DEF f
      <3>4. f \in FieldSet /\ f.whole
        BY <3>3, GoodFieldFacts
      <3>5. ~PUndoBlockSubmessageFails(f)
        BY <3>3 DEF PUndoBlockSubmessageFails, IsRun
      <3>6. fields = Until(<<f>> \o FieldsOf[rest], PUndoBlockSubmessageFails)
        BY <1>2, <3>1 DEF FieldsUntil
      <3> QED
        BY <1>3, <3>1, <3>4, <3>5, <3>6, UntilFirst
    <2> QED
      BY <2>1, <2>2
  <1> HIDE DEF hs, f1, fields, text
  <1>8. PICK g \in Seq(FieldSet) : fields = f1 \o g
    BY <1>7
  <1>9. UInt32sIn(fields, 1) = hs \o UInt32sIn(g, 1)
    BY <1>6, <1>8, FieldsConcat, ZenonT(60)
  <1>10. UInt32sIn(g, 1) \in Seq(Nat)
    <2>1. Into(UInt32sMap(1), FieldSet, Seq(Nat))
      BY UInt32sInFlat
    <2>2. \A q \in Seq(FieldSet) : Flat(UInt32sMap(1), q) \in Seq(Nat)
      BY <2>1, FlatFacts
    <2>3. UInt32sIn(g, 1) = Flat(UInt32sMap(1), g)
      BY UInt32sInFlat
    <2> QED
      BY <2>2, <2>3
  <1>11. \A x \in Seq(Nat) : IsPrefix(hs, hs \o x)
    <2> TAKE x \in Seq(Nat)
    <2>1. hs \in Seq(Nat)
      BY <1>1, ValueNat
    <2> QED
      BY <2>1 DEF IsPrefix
  <1> QED
    BY <1>4, <1>9, <1>10, <1>11 DEF hs, text

----------------------------------------------------------------------------
(* Block records. *)

UInt16 == 0 .. Word2 - 1

BlockRecords ==
    [block_header : BlockHeaders, height : Value, num_transactions : Value,
     block_file_stored : ShortText, block_offset_start : UInt16, block_offset_end : UInt16,
     undo_file_stored : ShortText, undo_offset_start : UInt16, undo_offset_end : UInt16]

\* A uint16_t is a value, and reducing it changes nothing.
LEMMA UInt16Facts ==
    \A v \in UInt16 : v \in Value /\ v % Word2 = v /\ v \in Nat /\ v < Word2
  <1>1. \A v \in UInt16 : v \in Nat /\ v < Word2 /\ v % Word2 = v
    <2>1. Word2 \in Nat
      BY DEF Word2
    <2>2. \A v \in UInt16 : v \in Nat /\ v < Word2
      BY <2>1, SMT DEF UInt16
    <2>3. \A v, w \in Nat : v < w => v % w = v
      BY SMT
    <2> QED
      BY <2>1, <2>2, <2>3, Zenon
  <1>2. \A v \in UInt16 : v <= 65535
    BY <1>1, SMT DEF Word2
  <1>3. \A v \in UInt16 : v \in Value
    BY <1>1, <1>2, ValueFacts, SMT
  <1> QED
    BY <1>1, <1>3

RecordFields(h, v2, v3, c4, v5, v6, c7, v8, v9) ==
    <<RunField(1, h)>> \o UInt32Fields(2, v2) \o UInt32Fields(3, v3)
        \o StringFields(4, c4) \o UInt32Fields(5, v5) \o UInt32Fields(6, v6)
        \o StringFields(7, c7) \o UInt32Fields(8, v8) \o UInt32Fields(9, v9)
RecordText(h, v2, v3, c4, v5, v6, c7, v8, v9) ==
    RunText(1, h) \o UInt32(2, v2) \o UInt32(3, v3)
        \o String(4, c4) \o UInt32(5, v5) \o UInt32(6, v6)
        \o String(7, c7) \o UInt32(8, v8) \o UInt32(9, v9)
RecordSize(h, v2, v3, c4, v5, v6, c7, v8, v9) ==
    RunSize(Len(h)) + UInt32Size(v2) + UInt32Size(v3)
        + StringSize(c4) + UInt32Size(v5) + UInt32Size(v6)
        + StringSize(c7) + UInt32Size(v8) + UInt32Size(v9)

\* What a record is written as, its members one by one.
LEMMA RecordWritten ==
    ASSUME NEW h \in ShortText, NEW c4 \in ShortText, NEW c7 \in ShortText,
           NEW v2 \in Value, NEW v3 \in Value, NEW v5 \in Value, NEW v6 \in Value,
           NEW v8 \in Value, NEW v9 \in Value
    PROVE  \E zero : WrittenAs(RecordText(h, v2, v3, c4, v5, v6, c7, v8, v9),
                             RecordSize(h, v2, v3, c4, v5, v6, c7, v8, v9), zero,
                             RecordFields(h, v2, v3, c4, v5, v6, c7, v8, v9))
           /\ RecordSize(h, v2, v3, c4, v5, v6, c7, v8, v9) \in Nat \ {0}
  <1> DEFINE t1 == RunText(1, h)
             t2 == UInt32(2, v2)
             t3 == UInt32(3, v3)
             t4 == String(4, c4)
             t5 == UInt32(5, v5)
             t6 == UInt32(6, v6)
             t7 == String(7, c7)
             t8 == UInt32(8, v8)
             t9 == UInt32(9, v9)
             s1 == RunSize(Len(h))
             s2 == UInt32Size(v2)
             s3 == UInt32Size(v3)
             s4 == StringSize(c4)
             s5 == UInt32Size(v5)
             s6 == UInt32Size(v6)
             s7 == StringSize(c7)
             s8 == UInt32Size(v8)
             s9 == UInt32Size(v9)
             f1 == <<RunField(1, h)>>
             f2 == UInt32Fields(2, v2)
             f3 == UInt32Fields(3, v3)
             f4 == StringFields(4, c4)
             f5 == UInt32Fields(5, v5)
             f6 == UInt32Fields(6, v6)
             f7 == StringFields(7, c7)
             f8 == UInt32Fields(8, v8)
             f9 == UInt32Fields(9, v9)
             z == FALSE
             z1 == h = <<>> \/ 0 \in ToSet(h)
             z4 == 0 \in ToSet(c4)
             z7 == 0 \in ToSet(c7)
  <1>1. /\ 1 \in Number /\ 2 \in Number /\ 3 \in Number /\ 4 \in Number /\ 5 \in Number
        /\ 6 \in Number /\ 7 \in Number /\ 8 \in Number /\ 9 \in Number
    BY DEF Number
  <1>2. WrittenAs(t1, s1, z1, f1) /\ s1 \in Nat /\ s1 > 0
    <2>1. Len(h) \in Nat
      BY TextFacts DEF ShortText
    <2> QED
      BY <1>1, <2>1, RunWritten
  <1>3. /\ WrittenAs(t2, s2, z, f2) /\ s2 \in Nat /\ WrittenAs(t3, s3, z, f3) /\ s3 \in Nat
        /\ WrittenAs(t5, s5, z, f5) /\ s5 \in Nat /\ WrittenAs(t6, s6, z, f6) /\ s6 \in Nat
        /\ WrittenAs(t8, s8, z, f8) /\ s8 \in Nat /\ WrittenAs(t9, s9, z, f9) /\ s9 \in Nat
    BY <1>1, UInt32Written
  <1>4. /\ WrittenAs(t4, s4, z4, f4) /\ s4 \in Nat /\ WrittenAs(t7, s7, z7, f7) /\ s7 \in Nat
    BY <1>1, StringWritten
  <1>5. /\ RecordText(h, v2, v3, c4, v5, v6, c7, v8, v9)
                = t1 \o t2 \o t3 \o t4 \o t5 \o t6 \o t7 \o t8 \o t9
        /\ RecordSize(h, v2, v3, c4, v5, v6, c7, v8, v9)
                = s1 + s2 + s3 + s4 + s5 + s6 + s7 + s8 + s9
        /\ RecordFields(h, v2, v3, c4, v5, v6, c7, v8, v9)
                = f1 \o f2 \o f3 \o f4 \o f5 \o f6 \o f7 \o f8 \o f9
    BY DEF RecordText, RecordSize, RecordFields
  <1> HIDE DEF t1, t2, t3, t4, t5, t6, t7, t8, t9, s1, s2, s3, s4, s5, s6, s7, s8, s9,
               f1, f2, f3, f4, f5, f6, f7, f8, f9, z, z1, z4, z7
  <1> DEFINE ta == t1 \o t2 \o t3
             sa == s1 + s2 + s3
             fa == f1 \o f2 \o f3
             za == z1 \/ z \/ z
             tb == ta \o t4 \o t5
             sb == sa + s4 + s5
             fb == fa \o f4 \o f5
             zb == za \/ z4 \/ z
             tc == tb \o t6 \o t7
             sc == sb + s6 + s7
             fc == fb \o f6 \o f7
             zc == zb \/ z \/ z7
             td == tc \o t8 \o t9
             sd == sc + s8 + s9
             fd == fc \o f8 \o f9
             zd == zc \/ z \/ z
  <1>6. WrittenAs(ta, sa, za, fa) /\ sa \in Nat /\ sa > 0
    BY <1>2, <1>3, WrittenThree
  <1>7. WrittenAs(tb, sb, zb, fb) /\ sb \in Nat /\ sb > 0
    <2> HIDE DEF ta, sa, fa, za
    <2> QED
      BY <1>3, <1>4, <1>6, WrittenThree
  <1>8. WrittenAs(tc, sc, zc, fc) /\ sc \in Nat /\ sc > 0
    <2> HIDE DEF tb, sb, fb, zb
    <2> QED
      BY <1>3, <1>4, <1>7, WrittenThree
  <1>9. WrittenAs(td, sd, zd, fd) /\ sd \in Nat /\ sd > 0
    <2> HIDE DEF tc, sc, fc, zc
    <2> QED
      BY <1>3, <1>4, <1>8, WrittenThree
  <1>10. /\ RecordText(h, v2, v3, c4, v5, v6, c7, v8, v9) = td
         /\ RecordSize(h, v2, v3, c4, v5, v6, c7, v8, v9) = sd
         /\ RecordFields(h, v2, v3, c4, v5, v6, c7, v8, v9) = fd
    BY <1>5
  <1> HIDE DEF td, sd, fd, zd
  <1> QED
    BY <1>9, <1>10

RecordMembers(h, v2, v3, c4, v5, v6, c7, v8, v9) ==
    /\ h \in ShortText /\ c4 \in ShortText /\ c7 \in ShortText
    /\ v2 \in Value /\ v3 \in Value /\ v5 \in Value /\ v6 \in Value
    /\ v8 \in Value /\ v9 \in Value

\* What is read from the fields of a block record.
LEMMA RecordFieldsAre ==
    ASSUME NEW h, NEW v2, NEW v3, NEW c4, NEW v5, NEW v6, NEW c7, NEW v8, NEW v9,
           RecordMembers(h, v2, v3, c4, v5, v6, c7, v8, v9),
           NEW fields, fields = RecordFields(h, v2, v3, c4, v5, v6, c7, v8, v9)
    PROVE  /\ fields \in Seq(FieldSet)
           /\ RunsIn(fields, 1) = <<h>>
           /\ UInt32In(fields, 2) = v2 /\ UInt32In(fields, 3) = v3
           /\ StringIn(fields, 4) = c4
           /\ UInt32In(fields, 5) = v5 /\ UInt32In(fields, 6) = v6
           /\ StringIn(fields, 7) = c7
           /\ UInt32In(fields, 8) = v8 /\ UInt32In(fields, 9) = v9
           /\ \A f \in ToSet(fields) : IsRun(f, 1) => f.bytes = h
  <1> DEFINE f1 == <<RunField(1, h)>>
             f2 == UInt32Fields(2, v2)
             f3 == UInt32Fields(3, v3)
             f4 == StringFields(4, c4)
             f5 == UInt32Fields(5, v5)
             f6 == UInt32Fields(6, v6)
             f7 == StringFields(7, c7)
             f8 == UInt32Fields(8, v8)
             f9 == UInt32Fields(9, v9)
             fa == f1 \o f2 \o f3
             fb == fa \o f4 \o f5
             fc == fb \o f6 \o f7
             fd == fc \o f8 \o f9
  <1>0. /\ h \in ShortText /\ c4 \in ShortText /\ c7 \in ShortText
        /\ v2 \in Value /\ v3 \in Value /\ v5 \in Value /\ v6 \in Value
        /\ v8 \in Value /\ v9 \in Value
    BY DEF RecordMembers
  <1> USE <1>0
  <1>1. /\ 1 \in Number /\ 2 \in Number /\ 3 \in Number /\ 4 \in Number /\ 5 \in Number
        /\ 6 \in Number /\ 7 \in Number /\ 8 \in Number /\ 9 \in Number
    BY DEF Number
  <1>2. fields = fd
    BY DEF RecordFields
  <1>3. /\ f1 \in Seq(FieldSet)
        /\ \A f \in ToSet(f1) : f.number = 1 /\ f.wire = 2 /\ f.bytes = h
        /\ RunsIn(f1, 1) = <<h>>
    <2> DEFINE f == RunField(1, h)
    <2>1. f \in FieldSet /\ f.number = 1 /\ f.wire = 2 /\ f.bytes = h
      BY <1>1, RunFieldIs
    <2> HIDE DEF f
    <2>2. /\ <<f>> \in Seq(FieldSet) /\ ToSet(<<f>>) = {f}
          /\ \A k : RunsIn(<<f>>, k) = IF IsRun(f, k) THEN <<f.bytes>> ELSE <<>>
      BY <2>1, OneField
    <2>3. IsRun(f, 1)
      BY <2>1 DEF IsRun
    <2>4. f1 = <<f>>
      BY DEF f1, f
    <2> HIDE DEF f1
    <2> QED
      BY <2>1, <2>2, <2>3, <2>4
  <1> DEFINE Numbered(fs, n) == /\ fs \in Seq(FieldSet) /\ RunsIn(fs, 1) = <<>>
                                /\ \A f \in ToSet(fs) : f.number = n /\ f.wire = 0
             Strings(fs, n, c) == /\ fs \in Seq(FieldSet) /\ RunsIn(fs, 1) = <<>>
                                  /\ \A f \in ToSet(fs) : f.number = n /\ f.wire = 2 /\ f.bytes = c /\ f.whole
                                  /\ c # <<>> => \E f \in ToSet(fs) : IsRun(f, n)
  <1>4. \A n \in Number, v \in Value : Numbered(UInt32Fields(n, v), n)
    BY UInt32FieldsAre
  <1>5. /\ Numbered(f2, 2) /\ Numbered(f3, 3) /\ Numbered(f5, 5) /\ Numbered(f6, 6)
        /\ Numbered(f8, 8) /\ Numbered(f9, 9)
    <2> HIDE DEF Numbered
    <2> QED
      BY <1>1, <1>4
  <1>6. \A n \in Number, c \in ShortText : n # 1 => Strings(StringFields(n, c), n, c)
    BY StringFieldsAre
  <1>7. Strings(f4, 4, c4) /\ Strings(f7, 7, c7)
    <2> HIDE DEF Strings
    <2> QED
      BY <1>1, <1>6
  <1> HIDE DEF f1, f2, f3, f4, f5, f6, f7, f8, f9, fa, fb, fc, fd
  <1> DEFINE Joined(fs, a, b, c) == /\ fs \in Seq(FieldSet)
                                    /\ ToSet(fs) = ToSet(a) \cup ToSet(b) \cup ToSet(c)
                                    /\ RunsIn(fs, 1) = RunsIn(a, 1) \o RunsIn(b, 1) \o RunsIn(c, 1)
  <1>8. \A a, b, c \in Seq(FieldSet) : Joined(a \o b \o c, a, b, c)
    <2> TAKE a, b, c \in Seq(FieldSet)
    <2>1. (a \o b \o c) \in Seq(FieldSet)
      BY FieldsThree
    <2>2. ToSet(a \o b \o c) = ToSet(a) \cup ToSet(b) \cup ToSet(c)
      BY FieldsThree
    <2>3. RunsIn(a \o b \o c, 1) = RunsIn(a, 1) \o RunsIn(b, 1) \o RunsIn(c, 1)
      <3>1. RunsOfThree(a \o b \o c, a, b, c, 1)
        BY RunsThree
      <3> QED
        BY <3>1, Zenon DEF RunsOfThree
    <2> QED
      BY <2>1, <2>2, <2>3
  <1>9. /\ f1 \in Seq(FieldSet) /\ f2 \in Seq(FieldSet) /\ f3 \in Seq(FieldSet) /\ f4 \in Seq(FieldSet)
        /\ f5 \in Seq(FieldSet) /\ f6 \in Seq(FieldSet) /\ f7 \in Seq(FieldSet) /\ f8 \in Seq(FieldSet)
        /\ f9 \in Seq(FieldSet)
    BY <1>3, <1>5, <1>7
  <1>10. fa \in Seq(FieldSet) /\ Joined(fa, f1, f2, f3)
    <2>1. Joined(fa, f1, f2, f3)
      <3> HIDE DEF Joined
      <3> QED
        BY <1>8, <1>9, Zenon DEF fa
    <2> QED
      BY <2>1
  <1>11. fb \in Seq(FieldSet) /\ Joined(fb, fa, f4, f5)
    <2>1. Joined(fb, fa, f4, f5)
      <3> HIDE DEF Joined
      <3> QED
        BY <1>8, <1>9, <1>10, Zenon DEF fb
    <2> QED
      BY <2>1
  <1>12. fc \in Seq(FieldSet) /\ Joined(fc, fb, f6, f7)
    <2>1. Joined(fc, fb, f6, f7)
      <3> HIDE DEF Joined
      <3> QED
        BY <1>8, <1>9, <1>11, Zenon DEF fc
    <2> QED
      BY <2>1
  <1>13. fd \in Seq(FieldSet) /\ Joined(fd, fc, f8, f9)
    <2>1. Joined(fd, fc, f8, f9)
      <3> HIDE DEF Joined
      <3> QED
        BY <1>8, <1>9, <1>12, Zenon DEF fd
    <2> QED
      BY <2>1
  <1>14. ToSet(fd) = ToSet(f1) \cup ToSet(f2) \cup ToSet(f3) \cup ToSet(f4) \cup ToSet(f5)
                       \cup ToSet(f6) \cup ToSet(f7) \cup ToSet(f8) \cup ToSet(f9)
    BY <1>10, <1>11, <1>12, <1>13
  <1>15. RunsIn(fd, 1) = <<h>>
    <2>1. <<h>> \in Seq(ShortText)
      OBVIOUS
    <2>2. <<h>> \o <<>> = <<h>>
      BY <2>1, EmptyConcat
    <2>3. /\ RunsIn(f2, 1) = <<>> /\ RunsIn(f3, 1) = <<>> /\ RunsIn(f4, 1) = <<>> /\ RunsIn(f5, 1) = <<>>
          /\ RunsIn(f6, 1) = <<>> /\ RunsIn(f7, 1) = <<>> /\ RunsIn(f8, 1) = <<>> /\ RunsIn(f9, 1) = <<>>
      BY <1>5, <1>7
    <2>4. RunsIn(fa, 1) = <<h>>
      <3>1. RunsIn(fa, 1) = RunsIn(f1, 1) \o RunsIn(f2, 1) \o RunsIn(f3, 1)
        BY <1>10
      <3> QED
        BY <1>3, <2>2, <2>3, <3>1, Zenon
    <2>5. RunsIn(fb, 1) = <<h>>
      <3>1. RunsIn(fb, 1) = RunsIn(fa, 1) \o RunsIn(f4, 1) \o RunsIn(f5, 1)
        BY <1>11
      <3> QED
        BY <2>2, <2>3, <2>4, <3>1, Zenon
    <2>6. RunsIn(fc, 1) = <<h>>
      <3>1. RunsIn(fc, 1) = RunsIn(fb, 1) \o RunsIn(f6, 1) \o RunsIn(f7, 1)
        BY <1>12
      <3> QED
        BY <2>2, <2>3, <2>5, <3>1, Zenon
    <2>7. RunsIn(fd, 1) = RunsIn(fc, 1) \o RunsIn(f8, 1) \o RunsIn(f9, 1)
      BY <1>13
    <2> QED
      BY <2>2, <2>3, <2>6, <2>7, Zenon
  <1>16. \A f \in ToSet(fd) : IsRun(f, 1) => f.bytes = h
    BY <1>3, <1>5, <1>7, <1>14, SMTT(40) DEF IsRun
  <1> DEFINE Own(n, fs) == ToSet(fs) \subseteq ToSet(fd)
                           /\ \A f \in ToSet(fd) : IsVarint(f, n) => f \in ToSet(fs)
  <1>17. Own(2, f2) /\ Own(3, f3) /\ Own(5, f5) /\ Own(6, f6) /\ Own(8, f8) /\ Own(9, f9)
    <2>1. /\ \A f \in ToSet(f1) : f.number = 1
          /\ \A f \in ToSet(f2) : f.number = 2
          /\ \A f \in ToSet(f3) : f.number = 3
          /\ \A f \in ToSet(f4) : f.number = 4
          /\ \A f \in ToSet(f5) : f.number = 5
          /\ \A f \in ToSet(f6) : f.number = 6
          /\ \A f \in ToSet(f7) : f.number = 7
          /\ \A f \in ToSet(f8) : f.number = 8
          /\ \A f \in ToSet(f9) : f.number = 9
      BY <1>3, <1>5, <1>7
    <2>2. Own(2, f2)
      BY <2>1, <1>14 DEF IsVarint
    <2>3. Own(3, f3)
      BY <2>1, <1>14 DEF IsVarint
    <2>5. Own(5, f5)
      BY <2>1, <1>14 DEF IsVarint
    <2>6. Own(6, f6)
      BY <2>1, <1>14 DEF IsVarint
    <2>8. Own(8, f8)
      BY <2>1, <1>14 DEF IsVarint
    <2>9. Own(9, f9)
      BY <2>1, <1>14 DEF IsVarint
    <2> QED
      BY <2>2, <2>3, <2>5, <2>6, <2>8, <2>9
  <1>18. \A n \in Number, v \in Value : Own(n, UInt32Fields(n, v)) => UInt32In(fd, n) = v
    BY <1>13, HeldAmong
  <1>19. /\ UInt32In(fd, 2) = v2 /\ UInt32In(fd, 3) = v3 /\ UInt32In(fd, 5) = v5
         /\ UInt32In(fd, 6) = v6 /\ UInt32In(fd, 8) = v8 /\ UInt32In(fd, 9) = v9
    <2> HIDE DEF Own
    <2> QED
      BY <1>1, <1>17, <1>18 DEF f2, f3, f5, f6, f8, f9
  <1>20. StringIn(fd, 4) = c4 /\ StringIn(fd, 7) = c7
    <2>1. HoldsRun(fd, 4, c4)
      BY <1>3, <1>5, <1>7, <1>14, SMTT(40) DEF HoldsRun, IsRun
    <2>2. HoldsRun(fd, 7, c7)
      BY <1>3, <1>5, <1>7, <1>14, SMTT(40) DEF HoldsRun, IsRun
    <2> QED
      BY <1>13, <2>1, <2>2, StringInHeld
  <1> QED
    BY <1>2, <1>13, <1>15, <1>16, <1>19, <1>20

\* A record of a block from its members.
BlockRecordWith(h, v2, v3, c4, v5, v6, c7, v8, v9) ==
    [block_header |-> h, height |-> v2, num_transactions |-> v3,
     block_file_stored |-> c4, block_offset_start |-> v5, block_offset_end |-> v6,
     undo_file_stored |-> c7, undo_offset_start |-> v8, undo_offset_end |-> v9]
PBlockRecordWith(h, v2, v3, c4, v5, v6, c7, v8, v9) ==
    [has_block_header |-> TRUE, block_header |-> h, height |-> v2, num_transactions |-> v3,
     block_file_stored |-> c4, block_offset_start |-> v5, block_offset_end |-> v6,
     undo_file_stored |-> c7, undo_offset_start |-> v8, undo_offset_end |-> v9]

\* The message of a block record, member by member.
LEMMA BlockRecordMembers ==
    ASSUME NEW h, NEW v2, NEW v3, NEW c4, NEW v5, NEW v6, NEW c7, NEW v8, NEW v9
    PROVE  PBlockRecordOf(BlockRecordWith(h, v2, v3, c4, v5, v6, c7, v8, v9))
               = PBlockRecordWith(h, v2, v3, c4, v5, v6, c7, v8, v9)
  <1> DEFINE r == BlockRecordWith(h, v2, v3, c4, v5, v6, c7, v8, v9)
             m == PBlockRecordWith(h, v2, v3, c4, v5, v6, c7, v8, v9)
  <1>1. DOMAIN r = {"block_header", "height", "num_transactions", "block_file_stored",
                    "block_offset_start", "block_offset_end", "undo_file_stored",
                    "undo_offset_start", "undo_offset_end"}
    BY DEF BlockRecordWith
  <1>2. DOMAIN m = DOMAIN r \cup {"has_block_header"}
    BY <1>1 DEF PBlockRecordWith
  <1>3. \A f \in DOMAIN r : m[f] = r[f] /\ f # "has_block_header"
    BY <1>1 DEF PBlockRecordWith, BlockRecordWith
  <1>4. m["has_block_header"] = TRUE
    BY DEF PBlockRecordWith
  <1>5. m = [f \in DOMAIN m |-> m[f]]
    BY DEF PBlockRecordWith
  <1> HIDE DEF r, m
  <1>6. PBlockRecordOf(r) = [f \in DOMAIN r \cup {"has_block_header"} |->
                                IF f = "has_block_header" THEN TRUE ELSE r[f]]
    BY DEF PBlockRecordOf
  <1> QED
    BY <1>2, <1>3, <1>4, <1>5, <1>6 DEF r, m

\* What is known of the text of a block record.
LEMMA BlockRecordTextFacts ==
    ASSUME NEW r \in BlockRecords
    PROVE  /\ BlockRecordSerialize(r) \in Text
           /\ BlockRecordSerialize(r) # <<>>
           /\ BlockRecordDeserialize(BlockRecordSerialize(r)) = r
  <1> DEFINE h == r.block_header
             v2 == r.height
             v3 == r.num_transactions
             c4 == r.block_file_stored
             v5 == r.block_offset_start
             v6 == r.block_offset_end
             c7 == r.undo_file_stored
             v8 == r.undo_offset_start
             v9 == r.undo_offset_end
             m == PBlockRecordOf(r)
             header == PBlockHeaderText(h)
             text == RecordText(header, v2, v3, c4, v5, v6, c7, v8, v9)
             size == RecordSize(header, v2, v3, c4, v5, v6, c7, v8, v9)
             fields == RecordFields(header, v2, v3, c4, v5, v6, c7, v8, v9)
  <1>1. /\ h \in BlockHeaders /\ c4 \in ShortText /\ c7 \in ShortText
        /\ v2 \in Value /\ v3 \in Value
        /\ v5 \in UInt16 /\ v6 \in UInt16 /\ v8 \in UInt16 /\ v9 \in UInt16
        /\ r = BlockRecordWith(h, v2, v3, c4, v5, v6, c7, v8, v9)
    BY DEF BlockRecords, BlockRecordWith
  <1>2. v5 \in Value /\ v6 \in Value /\ v8 \in Value /\ v9 \in Value
    BY <1>1, UInt16Facts
  <1>3. h \in HeaderMessages /\ BlockHeader(h) = h
    <2>1. h.version % Byte2 = h.version
      BY <1>1, UInt8Facts DEF BlockHeaders
    <2>2. BlockHeader(h) = h
      BY <1>1, <2>1 DEF BlockHeader, BlockHeaders
    <2>3. h \in HeaderMessages
      BY <1>1, UInt8Facts DEF BlockHeaders, HeaderMessages
    <2> QED
      BY <2>2, <2>3
  <1>4. /\ header \in ShortText /\ Len(header) = PBlockHeaderSize(h)
        /\ PBlockHeaderParse(header) = h /\ ~PBlockHeaderFails(header)
    BY <1>3, HeaderMessage DEF PlainText
  <1>5. m = PBlockRecordWith(h, v2, v3, c4, v5, v6, c7, v8, v9)
    BY <1>1, BlockRecordMembers, Zenon
  <1> HIDE DEF h, v2, v3, c4, v5, v6, c7, v8, v9, header, m
  <1>6. PBlockRecordText(m) = text /\ PBlockRecordSize(m) = size
    <2> DEFINE w == PBlockRecordWith(h, v2, v3, c4, v5, v6, c7, v8, v9)
    <2>1. /\ w.has_block_header = TRUE /\ w.block_header = h /\ w.height = v2 /\ w.num_transactions = v3
          /\ w.block_file_stored = c4 /\ w.block_offset_start = v5 /\ w.block_offset_end = v6
          /\ w.undo_file_stored = c7 /\ w.undo_offset_start = v8 /\ w.undo_offset_end = v9
      BY DEF PBlockRecordWith
    <2>2. Message(1, PBlockHeaderSize(h), PBlockHeaderText(h)) = RunText(1, header)
      BY <1>4 DEF Message, RunText, header
    <2>3. m = w
      BY <1>5
    <2> HIDE DEF w
    <2>4. PBlockRecordText(m) = text
      BY <2>1, <2>2, <2>3 DEF PBlockRecordText, RecordText
    <2>5. PBlockRecordSize(m) = size
      BY <1>4, <2>1, <2>3 DEF PBlockRecordSize, RecordSize
    <2> QED
      BY <2>4, <2>5
  <1>7. (\E zero : WrittenAs(text, size, zero, fields)) /\ size \in Nat \ {0}
    BY <1>1, <1>2, <1>4, RecordWritten
  <1>8. /\ fields \in Seq(FieldSet)
        /\ RunsIn(fields, 1) = <<header>>
        /\ UInt32In(fields, 2) = v2 /\ UInt32In(fields, 3) = v3
        /\ StringIn(fields, 4) = c4
        /\ UInt32In(fields, 5) = v5 /\ UInt32In(fields, 6) = v6
        /\ StringIn(fields, 7) = c7
        /\ UInt32In(fields, 8) = v8 /\ UInt32In(fields, 9) = v9
        /\ \A f \in ToSet(fields) : IsRun(f, 1) => f.bytes = header
    <2> HIDE DEF fields
    <2> DEFINE Is(fs) == /\ fs \in Seq(FieldSet)
                         /\ RunsIn(fs, 1) = <<header>>
                         /\ UInt32In(fs, 2) = v2 /\ UInt32In(fs, 3) = v3
                         /\ StringIn(fs, 4) = c4
                         /\ UInt32In(fs, 5) = v5 /\ UInt32In(fs, 6) = v6
                         /\ StringIn(fs, 7) = c7
                         /\ UInt32In(fs, 8) = v8 /\ UInt32In(fs, 9) = v9
                         /\ \A f \in ToSet(fs) : IsRun(f, 1) => f.bytes = header
    <2>1. fields = RecordFields(header, v2, v3, c4, v5, v6, c7, v8, v9)
      BY DEF fields
    <2>2. RecordMembers(header, v2, v3, c4, v5, v6, c7, v8, v9)
      BY <1>1, <1>2, <1>4 DEF RecordMembers
    <2>3. \A fs : fs = RecordFields(header, v2, v3, c4, v5, v6, c7, v8, v9) => Is(fs)
      <3> TAKE fs
      <3> HAVE fs = RecordFields(header, v2, v3, c4, v5, v6, c7, v8, v9)
      <3>1. fs \in Seq(FieldSet)
        BY <2>2, RecordFieldsAre
      <3>2. RunsIn(fs, 1) = <<header>>
        BY <2>2, RecordFieldsAre
      <3>3. UInt32In(fs, 2) = v2 /\ UInt32In(fs, 3) = v3
        BY <2>2, RecordFieldsAre
      <3>4. StringIn(fs, 4) = c4
        BY <2>2, RecordFieldsAre
      <3>5. UInt32In(fs, 5) = v5 /\ UInt32In(fs, 6) = v6
        BY <2>2, RecordFieldsAre
      <3>6. StringIn(fs, 7) = c7
        BY <2>2, RecordFieldsAre
      <3>7. UInt32In(fs, 8) = v8 /\ UInt32In(fs, 9) = v9
        BY <2>2, RecordFieldsAre
      <3>8. \A f \in ToSet(fs) : IsRun(f, 1) => f.bytes = header
        BY <2>2, RecordFieldsAre
      <3> QED
        BY <3>1, <3>2, <3>3, <3>4, <3>5, <3>6, <3>7, <3>8
    <2>4. Is(fields)
      <3> HIDE DEF Is
      <3> QED
        BY <2>1, <2>3, Zenon
    <2> QED
      BY <2>4
  <1> HIDE DEF text, size, fields
  <1>9. /\ text \in Text /\ Len(text) = size /\ size \in Nat \ {0}
        /\ FieldsOf[text] = fields /\ fields \in Seq(GoodFields)
    <2> PICK zero : WrittenAs(text, size, zero, fields)
      BY <1>7
    <2>1. text \in Text /\ Len(text) = size /\ fields \in Seq(GoodFields)
      BY DEF WrittenAs
    <2>2. FieldsOf[text] = fields
      BY WrittenRead
    <2> QED
      BY <1>7, <2>1, <2>2
  <1>10. BlockRecordSerialize(r) = text
    BY <1>6, <1>9, SerializedText DEF BlockRecordSerialize, PBlockRecordSerialize, m
  <1>11. text # <<>>
    BY <1>9
  <1>12. Until(fields, PBlockRecordSubmessageFails) = fields
    <2>1. ToSet(fields) \subseteq GoodFields
      BY <1>9, ToSetFacts
    <2>2. \A f \in ToSet(fields) : f.whole /\ ~PBlockRecordSubmessageFails(f)
      BY <1>4, <1>8, <2>1, GoodFieldFacts DEF PBlockRecordSubmessageFails
    <2>3. \A i \in 1 .. Len(fields) : fields[i] \in ToSet(fields)
      BY <1>9, ToSetFacts
    <2>4. { i \in 1 .. Len(fields) : ~fields[i].whole \/ PBlockRecordSubmessageFails(fields[i]) } = {}
      BY <2>2, <2>3
    <2> QED
      BY <2>4 DEF Until, UpTo, SelectInSeq
  <1>13. PBlockRecordParse(text) = PBlockRecordFrom(fields, <<header>>)
    BY <1>8, <1>9, <1>12 DEF PBlockRecordParse, FieldsUntil, PBlockRecordIn
  <1>14. PBlockRecordParse(text) = PBlockRecordWith(h, v2, v3, c4, v5, v6, c7, v8, v9)
    <2>1. FlattenSeq(<<header>>) = header
      BY <1>4, FlattenOne DEF Text, ShortText
    <2>2. (<<header>> # <<>>) = TRUE
      OBVIOUS
    <2>3. PBlockHeaderParse(FlattenSeq(<<header>>)) = h
      BY <1>4, <2>1
    <2> QED
      BY <1>8, <1>13, <2>2, <2>3, Zenon DEF PBlockRecordFrom, PBlockRecordWith
  <1>15. BlockRecordIn(PBlockRecordWith(h, v2, v3, c4, v5, v6, c7, v8, v9)) = r
    <2> DEFINE w == PBlockRecordWith(h, v2, v3, c4, v5, v6, c7, v8, v9)
    <2>1. /\ w.block_header = h /\ w.height = v2 /\ w.num_transactions = v3
          /\ w.block_file_stored = c4 /\ w.block_offset_start = v5 /\ w.block_offset_end = v6
          /\ w.undo_file_stored = c7 /\ w.undo_offset_start = v8 /\ w.undo_offset_end = v9
      BY DEF PBlockRecordWith
    <2> HIDE DEF w
    <2>2. /\ FileInfo(c4, v5, v6) = [file_name |-> c4, start |-> v5, end |-> v6]
          /\ FileInfo(c7, v8, v9) = [file_name |-> c7, start |-> v8, end |-> v9]
      <3>1. v5 % Word2 = v5 /\ v6 % Word2 = v6 /\ v8 % Word2 = v8 /\ v9 % Word2 = v9
        BY <1>1, UInt16Facts
      <3> QED
        BY <3>1 DEF FileInfo
    <2>3. BlockRecordIn(w) = BlockRecord(BlockHeader(h), v3, v2, FileInfo(c4, v5, v6), FileInfo(c7, v8, v9))
      BY <2>1 DEF BlockRecordIn
    <2>4. BlockRecordIn(w) = BlockRecordWith(h, v2, v3, c4, v5, v6, c7, v8, v9)
      BY <1>3, <2>2, <2>3 DEF BlockRecord, BlockRecordWith
    <2> QED
      BY <1>1, <2>4 DEF w
  <1> QED
    BY <1>9, <1>10, <1>11, <1>14, <1>15 DEF BlockRecordDeserialize

\* A block record comes back from the database as it was put into it.
THEOREM BlockRecordRoundTrip ==
    ASSUME NEW r \in BlockRecords
    PROVE  BlockRecordDeserialize(BlockRecordSerialize(r)) = r
  BY BlockRecordTextFacts
=============================================================================
