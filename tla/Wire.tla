-------------------------------- MODULE Wire --------------------------------
(***************************************************************************)
(* The protobuf wire format, as the generated code of rath.pb.cc uses it.  *)
(* This is the protobuf library, which the repository does not contain.    *)
(*                                                                         *)
(* A text is a sequence of bytes: fields, each a tag (a number below 16    *)
(* and a wire type in one byte) and a varint or a run of bytes.  Values    *)
(* are below 2^31 (bound), so that the checker's integers hold them.       *)
(***************************************************************************)
EXTENDS Integers, Sequences, FiniteSets, SequencesExt

MaxValue == 2147483647      \* bound: what a varint of a message holds

Byte  == 0 .. 255
Text  == Seq(Byte)
Value == 0 .. MaxValue

\* 128^(i - 1): what the i-th group of seven bits of a varint counts.
Power128 == <<1, 128, 16384, 2097152, 268435456>>

----------------------------------------------------------------------------
(* Writing. *)

\* A value in groups of seven bits, the lowest first; all but the last byte
\* have their high bit set.
VarintSize(n) == 1 + Cardinality({ i \in 2 .. 5 : n >= Power128[i] })
Groups(n, size) ==
    [i \in 1 .. size |-> ((n \div Power128[i]) % 128) + (IF i < size THEN 128 ELSE 0)]
Varint(n) == Groups(n, VarintSize(n))

SumOf(sizes) ==
    LET sum[k \in 0 .. Len(sizes)] == IF k = 0 THEN 0 ELSE sum[k - 1] + sizes[k]
    IN  sum[Len(sizes)]

\* A singular field: proto3 leaves the default value out.
UInt32(number, v)  == IF v = 0 THEN <<>> ELSE <<8 * number>> \o Varint(v)
Bool(number, flag) == UInt32(number, IF flag THEN 1 ELSE 0)
String(number, chars) ==
    IF chars = <<>> THEN <<>> ELSE <<8 * number + 2>> \o Varint(Len(chars)) \o chars

\* A repeated uint32 field, and one of a submessage with the size its
\* ByteSizeLong gave.
PackedSize(values) == SumOf([i \in DOMAIN values |-> VarintSize(values[i])])
Packed(number, values) ==
    IF values = <<>> THEN <<>>
    ELSE <<8 * number + 2>> \o Varint(PackedSize(values))
            \o FlattenSeq([i \in DOMAIN values |-> Varint(values[i])])
Message(number, size, text) == <<8 * number + 2>> \o Varint(size) \o text

\* The sizes of these fields, with their tags.
UInt32Size(v)   == IF v = 0 THEN 0 ELSE 1 + VarintSize(v)
BoolSize(flag)  == IF flag THEN 2 ELSE 0
RunSize(n)      == 1 + VarintSize(n) + n
StringSize(chars) == IF chars = <<>> THEN 0 ELSE RunSize(Len(chars))
PackedFieldSize(values) == IF values = <<>> THEN 0 ELSE RunSize(PackedSize(values))

\* SerializeToString: a string of the size announced, and the text in it.
SerializeToString(size, text) == SubSeq(text \o [i \in 1 .. size |-> 0], 1, size)

----------------------------------------------------------------------------
(* Reading. *)

\* Where the varint at the head of a text ends, 0 if it does not.
VarintEnd(text) ==
    IF \E i \in 1 .. Len(text) : i <= 10 /\ text[i] < 128
    THEN CHOOSE i \in 1 .. Len(text) : text[i] < 128 /\ \A j \in 1 .. i - 1 : text[j] >= 128
    ELSE 0

\* The value of the varint that ends there, cut to 31 bits.
VarintUpTo(text, end) ==
    SumOf([i \in 1 .. (IF end < 5 THEN end ELSE 5) |->
               (text[i] % (IF i < 5 THEN 128 ELSE 8)) * Power128[i]])

Behind(text, n) == SubSeq(text, n + 1, Len(text))

\* The varint at the head of a text: whether it ends, its value, what follows.
HeadTo(text, end) ==
    [ends |-> end > 0, value |-> VarintUpTo(text, end), rest |-> Behind(text, end)]
HeadOf(text) == HeadTo(text, VarintEnd(text))

\* The varints of a packed field, up to one that does not end.
Varints[text \in Text] ==
    LET head == HeadOf(text)
    IN  IF head.ends THEN <<head.value>> \o Varints[head.rest] ELSE <<>>

\* The fields of a text.  Reading stops at the first one that is not whole: a
\* tag 0, an end of group, a varint or a run of bytes that does not end.  A run
\* of bytes that is too long is what is left of the text; a group, which no
\* message has, stops the reading as well.
Field(number, wire, value, bytes, whole) ==
    [number |-> number, wire |-> wire, value |-> value, bytes |-> bytes, whole |-> whole]
Read(fields, rest) == [fields |-> fields, rest |-> rest]

Run(number, length, rest) ==
    IF length <= Len(rest)
    THEN Read(<<Field(number, 2, length, SubSeq(rest, 1, length), TRUE)>>, Behind(rest, length))
    ELSE Read(<<Field(number, 2, length, rest, FALSE)>>, <<>>)

\* The field of a tag, whose value is the varint at the head of what follows.
FieldIn(tag, number, wire, value) ==
    CASE tag.ends /\ number > 0 /\ wire = 0 /\ value.ends ->
            Read(<<Field(number, 0, value.value, <<>>, TRUE)>>, value.rest)
      [] tag.ends /\ number > 0 /\ wire = 2 /\ value.ends ->
            Run(number, value.value, value.rest)
      [] tag.ends /\ number > 0 /\ wire = 1 /\ Len(tag.rest) >= 8 ->
            Read(<<>>, Behind(tag.rest, 8))
      [] tag.ends /\ number > 0 /\ wire = 5 /\ Len(tag.rest) >= 4 ->
            Read(<<>>, Behind(tag.rest, 4))
      [] OTHER -> Read(<<Field(0, 0, 0, <<>>, FALSE)>>, <<>>)
FieldOf(tag) == FieldIn(tag, tag.value \div 8, tag.value % 8, HeadOf(tag.rest))

FieldsOf[text \in Text] ==
    IF text = <<>> THEN <<>>
    ELSE LET read == FieldOf(HeadOf(text)) IN read.fields \o FieldsOf[read.rest]

\* The fields up to and with the first that is not whole or, being a
\* submessage, Fails to parse: what a parse has taken in when it stops.
UpTo(fields, stop) == IF stop = 0 THEN fields ELSE SubSeq(fields, 1, stop)
Until(fields, Fails(_)) ==
    UpTo(fields, SelectInSeq(fields, LAMBDA f : ~f.whole \/ Fails(f)))
FieldsUntil(text, Fails(_)) == Until(FieldsOf[text], Fails)
Unparsed(text, Fails(_)) ==
    \E f \in ToSet(FieldsOf[text]) : ~f.whole \/ Fails(f)

NoSubmessage(f) == FALSE

IsRun(f, number)    == f.number = number /\ f.wire = 2
IsVarint(f, number) == f.number = number /\ f.wire = 0

\* What a parse makes of fields.  Of a singular field the last one counts; a
\* submessage gathers all its runs; a repeated field may be packed or not.
At(fields, i, default, Of(_)) == IF i = 0 THEN default ELSE Of(fields[i])
UInt32In(fields, number) ==
    At(fields, SelectLastInSeq(fields, LAMBDA f : IsVarint(f, number)), 0, LAMBDA f : f.value)
BoolIn(fields, number) == UInt32In(fields, number) # 0
StringIn(fields, number) ==
    At(fields, SelectLastInSeq(fields, LAMBDA f : IsRun(f, number) /\ f.whole), <<>>,
       LAMBDA f : f.bytes)
UInt32sIn(fields, number) ==
    FlattenSeq([i \in DOMAIN fields |->
        IF IsVarint(fields[i], number) THEN <<fields[i].value>>
        ELSE IF IsRun(fields[i], number) THEN Varints[fields[i].bytes]
        ELSE <<>>])
RunsIn(fields, number) ==
    FlattenSeq([i \in DOMAIN fields |->
        IF IsRun(fields[i], number) THEN <<fields[i].bytes>> ELSE <<>>])
=============================================================================
