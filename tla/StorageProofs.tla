--------------------------- MODULE StorageProofs ---------------------------
(***************************************************************************)
(* Proofs about Storage, for any blocks, hash, residues and file sizes:     *)
(* what a node files is what it reads back.                                 *)
(***************************************************************************)
EXTENDS Storage, PrimitivesProofs, TLAPS

----------------------------------------------------------------------------
(* Sizes. *)

\* The sizes of the offsets in a file.
LEMMA WordFacts ==
    /\ Word2 = 65536 /\ Word2 \in Nat /\ MaxValue = 2147483647
    /\ \A n \in Nat : n < Word2 => n \in Value
  <1>1. Word2 = 65536
    BY DEF Word2
  <1>2. \A n \in Nat : n < 65536 => n <= 2147483647
    BY SMT
  <1> QED
    BY <1>1, <1>2, ValueFacts

\* A sum of numbers up to m is at most m times as large as their number.
LEMMA SumAtMost ==
    ASSUME NEW m \in Nat, NEW s \in Seq(0 .. m)
    PROVE  SumOf(s) \in Nat /\ SumOf(s) <= m * Len(s)
  <1> DEFINE P == { q \in Seq(0 .. m) : SumOf(q) \in Nat /\ SumOf(q) <= m * Len(q) }
  <1>1. <<>> \in P
    <2>1. SumOf(<<>>) = 0 /\ Len(<<>>) = 0
      BY SumFacts
    <2>2. m * 0 = 0
      OBVIOUS
    <2> QED
      BY <2>1, <2>2
  <1>2. \A q \in Seq(0 .. m), e \in 0 .. m : q \in P => Append(q, e) \in P
    <2> SUFFICES ASSUME NEW q \in Seq(0 .. m), NEW e \in 0 .. m, q \in P
                 PROVE  Append(q, e) \in P
      OBVIOUS
    <2>1. q \in Seq(Int) /\ e \in Int
      OBVIOUS
    <2>2. SumOf(Append(q, e)) = SumOf(q) + e
      BY <2>1, SumFacts
    <2>3. Append(q, e) \in Seq(0 .. m) /\ Len(Append(q, e)) = Len(q) + 1 /\ Len(q) \in Nat
      OBVIOUS
    <2>4. \A n \in Nat : m * (n + 1) = m * n + m /\ m * n \in Nat
      BY SMT
    <2>5. SumOf(q) \in Nat /\ SumOf(q) <= m * Len(q)
      OBVIOUS
    <2>6. m * (Len(q) + 1) = m * Len(q) + m /\ m * Len(q) \in Nat
      BY <2>3, <2>4
    <2>7. SumOf(Append(q, e)) \in Nat /\ SumOf(Append(q, e)) <= m * (Len(q) + 1)
      BY <2>2, <2>5, <2>6
    <2> QED
      BY <2>3, <2>7
  <1>3. Seq(0 .. m) \subseteq P
    <2> HIDE DEF P
    <2> QED
      BY <1>1, <1>2, AppendingOn
  <1> QED
    BY <1>3

\* Packed values take at most 5 bytes each.
LEMMA PackedSizeAtMost ==
    ASSUME NEW values \in Seq(Value)
    PROVE  PackedSize(values) \in Nat /\ PackedSize(values) <= 5 * Len(values)
  <1> DEFINE sizes == [i \in DOMAIN values |-> VarintSize(values[i])]
  <1>1. \A i \in DOMAIN values : VarintSize(values[i]) \in 0 .. 5
    BY VarintBytes
  <1>2. sizes \in Seq(0 .. 5) /\ Len(sizes) = Len(values)
    BY <1>1
  <1>3. PackedSize(values) = SumOf(sizes)
    BY DEF PackedSize
  <1> HIDE DEF sizes
  <1> QED
    BY <1>2, <1>3, SumAtMost

\* A run takes at most 6 bytes more than it holds.
LEMMA RunSizeAtMost ==
    ASSUME NEW n \in Value
    PROVE  RunSize(n) \in Nat /\ RunSize(n) <= n + 6
  <1>1. VarintSize(n) \in 1 .. 5
    BY VarintBytes
  <1> QED
    BY <1>1, ValueNat DEF RunSize

\* The field of packed values, the same way.
LEMMA PackedFieldSizeAtMost ==
    ASSUME NEW values \in Seq(Value), Len(values) < Word2
    PROVE  /\ PackedFieldSize(values) \in Nat
           /\ PackedFieldSize(values) <= 6 + 5 * Len(values)
  <1>1. PackedSize(values) \in Nat /\ PackedSize(values) <= 5 * Len(values)
    BY PackedSizeAtMost
  <1>2. Len(values) \in Nat
    OBVIOUS
  <1>3. PackedSize(values) <= 2147483647
    BY <1>1, <1>2, WordFacts
  <1>4. PackedSize(values) \in Value
    BY <1>1, <1>3, ValueFacts
  <1>5. RunSize(PackedSize(values)) \in Nat /\ RunSize(PackedSize(values)) <= PackedSize(values) + 6
    BY <1>4, RunSizeAtMost
  <1> QED
    BY <1>1, <1>2, <1>5 DEF PackedFieldSize

\* The size of a coin record grows with the number of its outputs only.
LEMMA CoinSizeAtMost ==
    ASSUME NEW r \in CoinRecords, Len(r.utxo) < Word2
    PROVE  CoinSize(r) \in Value /\ CoinSize(r) <= 24 + 15 * Len(r.utxo)
  <1>1. /\ r.version \in Value /\ r.utxo \in Seq(Value) /\ r.amounts \in Seq(Value)
        /\ r.public_keys \in Seq(Value)
        /\ Len(r.amounts) = Len(r.utxo) /\ Len(r.public_keys) = Len(r.utxo)
    BY DEF CoinRecords
  <1>2. CoinSize(r) = UInt32Size(r.version) + PackedFieldSize(r.utxo)
                        + PackedFieldSize(r.amounts) + PackedFieldSize(r.public_keys)
    BY CoinSizes
  <1>3. UInt32Size(r.version) \in Nat /\ UInt32Size(r.version) <= 6
    BY <1>1, UInt32SizeFacts
  <1>4. /\ PackedFieldSize(r.utxo) \in Nat
        /\ PackedFieldSize(r.utxo) <= 6 + 5 * Len(r.utxo)
    BY <1>1, PackedFieldSizeAtMost
  <1>5. /\ PackedFieldSize(r.amounts) \in Nat
        /\ PackedFieldSize(r.amounts) <= 6 + 5 * Len(r.utxo)
    BY <1>1, PackedFieldSizeAtMost
  <1>6. /\ PackedFieldSize(r.public_keys) \in Nat
        /\ PackedFieldSize(r.public_keys) <= 6 + 5 * Len(r.utxo)
    BY <1>1, PackedFieldSizeAtMost
  <1>7. Len(r.utxo) \in Nat
    BY <1>1
  <1>8. CoinSize(r) \in Nat /\ CoinSize(r) <= 24 + 15 * Len(r.utxo)
    BY <1>2, <1>3, <1>4, <1>5, <1>6, <1>7, SMTT(40)
  <1>9. CoinSize(r) <= 2147483647
    BY <1>7, <1>8, WordFacts
  <1> QED
    BY <1>8, <1>9, ValueFacts

\* What is known of the text of a coin record of a transaction.
LEMMA CoinRecordKept ==
    ASSUME NEW r \in CoinRecords, r.version \in UInt8, Len(r.utxo) < Word2
    PROVE  /\ CoinRecordSerialize(r) \in Text
           /\ CoinRecordDeserialize(CoinRecordSerialize(r)) = r
           /\ CoinRecordSerialize(r) = <<>> <=> EmptyCoin(r)
  <1>1. CoinSize(r) \in Value
    BY CoinSizeAtMost
  <1>2. Len(CoinRecordSerialize(r)) = CoinSize(r)
    BY <1>1, ValueNat, SerializedLength DEF CoinRecordSerialize, PCoinRecordSerialize, CoinSize
  <1> QED
    BY <1>1, <1>2, CoinRecordTextFacts

\* What an empty text gives: a coin record of nothing.
NoCoin == CoinRecord(0, <<>>, <<>>, <<>>)

\* The empty coin record is serialized as nothing, and read from nothing.
LEMMA NoCoinText ==
    /\ NoCoin \in CoinRecords /\ NoCoin.version = 0 /\ NoCoin.utxo = <<>>
    /\ CoinRecordSerialize(NoCoin) = <<>> /\ CoinRecordDeserialize(<<>>) = NoCoin
  <1>1. NoCoin \in CoinRecords /\ NoCoin.version = 0 /\ NoCoin.utxo = <<>>
    <2>1. 0 \in Value
      BY NoNumber
    <2> QED
      BY <2>1 DEF NoCoin, CoinRecord, CoinRecords
  <1>2. NoCoin.version \in UInt8 /\ Len(NoCoin.utxo) < Word2
    BY <1>1, WordFacts DEF UInt8, Byte2
  <1>3. EmptyCoin(NoCoin)
    BY <1>1 DEF EmptyCoin
  <1> QED
    BY <1>1, <1>2, <1>3, CoinRecordKept

----------------------------------------------------------------------------
(* Blocks and transactions. *)

\* The genesis block is a block.
LEMMA GenesisTyped == Genesis \in Blocks
  <1> DEFINE h == Genesis.block_header
             t == Genesis.transactions[1]
             input == t.transaction_inputs[1]
             out == t.transaction_outputs
  <1>1. /\ 0 \in Value /\ 1 \in Value /\ 100 \in Value /\ 200 \in Value /\ 300 \in Value
        /\ 12345 \in Value /\ 67891 \in Value /\ 23456 \in Value
        /\ 0 \in UInt8 /\ 1 \in UInt8
    BY ValueFacts, SMT DEF UInt8, Byte2
  <1>2. h \in BlockHeaders
    BY <1>1 DEF Genesis, BlockHeaders
  <1>3. input \in TransactionInputs /\ t.transaction_inputs = <<input>>
    BY <1>1 DEF Genesis, TransactionInputs
  <1>4. out = <<out[1], out[2], out[3]>> /\ out[1] \in TransactionOutputs
        /\ out[2] \in TransactionOutputs /\ out[3] \in TransactionOutputs
    BY <1>1 DEF Genesis, TransactionOutputs
  <1>5. t.version = 1 /\ t.lock_time = 1
        /\ t = [version |-> t.version, transaction_inputs |-> t.transaction_inputs,
                transaction_outputs |-> t.transaction_outputs, lock_time |-> t.lock_time]
    BY DEF Genesis
  <1>6. Genesis.transactions = <<t>>
        /\ Genesis = [block_header |-> h, transactions |-> Genesis.transactions]
    BY DEF Genesis
  <1> HIDE DEF h, input
  <1>7. t.transaction_inputs \in Seq(TransactionInputs)
    BY <1>3
  <1>8. t.transaction_outputs \in Seq(TransactionOutputs)
    <2>1. \A a, b, c \in TransactionOutputs : <<a, b, c>> \in Seq(TransactionOutputs)
      OBVIOUS
    <2>2. t.transaction_outputs = out
      OBVIOUS
    <2> HIDE DEF out
    <2>3. <<out[1], out[2], out[3]>> \in Seq(TransactionOutputs)
      BY <1>4, <2>1
    <2> QED
      BY <1>4, <2>2, <2>3, Zenon
  <1> HIDE DEF out, t
  <1>9. t \in Transactions
    BY <1>1, <1>5, <1>7, <1>8 DEF Transactions
  <1>10. Genesis.transactions \in Seq(Transactions)
    BY <1>6, <1>9
  <1>11. \A x \in BlockHeaders, y \in Seq(Transactions) : [block_header |-> x, transactions |-> y] \in Blocks
    BY DEF Blocks
  <1>12. [block_header |-> h, transactions |-> Genesis.transactions] \in Blocks
    BY <1>2, <1>10, <1>11
  <1> QED
    BY <1>6, <1>12, Zenon

\* What is known of a block that is handled, and of its text.
LEMMA BlockFacts ==
    ASSUME NEW b \in AllBlocks
    PROVE  /\ b \in Blocks
           /\ BlockText[b] = BlockSerialize(b) /\ BlockText[b] \in Text
           /\ Len(BlockText[b]) \in Nat /\ Len(BlockText[b]) + 1 < Word2
           /\ BlockDeserialize(BlockText[b]) = b
           /\ 0 \in ToSet(BlockText[b]) <=> ZeroBlock(b)
           /\ BlockHash[b] \in BlockHashes
           /\ b.block_header \in BlockHeaders /\ b.transactions \in Seq(Transactions)
  <1>1. b \in Blocks
    BY GenesisTyped, BlockAssumption DEF AllBlocks
  <1>2. BlockText[b] = BlockSerialize(b)
    BY DEF BlockText
  <1>3. PBlockSize(PBlockOf(b)) \in Nat
    BY <1>1, BlockKept, BlockSizes
  <1>4. Len(BlockText[b]) \in Nat
    BY <1>2, <1>3, SerializedLength DEF BlockSerialize, PBlockSerialize
  <1>5. Len(BlockText[b]) + 1 < Word2
    BY BlockAssumption
  <1>6. Len(BlockSerialize(b)) \in Value
    BY <1>2, <1>4, <1>5, WordFacts
  <1>7. BlockHash[b] \in BlockHashes
    BY DEF BlockHashes
  <1>8. b.block_header \in BlockHeaders /\ b.transactions \in Seq(Transactions)
    BY <1>1 DEF Blocks
  <1> QED
    BY <1>1, <1>2, <1>4, <1>5, <1>6, <1>7, <1>8, BlockTextFacts

\* What the assumption on the hashes says, of the hashes the model uses.
LEMMA HashFacts ==
    /\ \A b, c \in AllBlocks : BlockHash[b] = BlockHash[c] => b = c
    /\ \A t, u \in AllTransactions : TxHash[t] = TxHash[u] => t = u
    /\ \A b \in AllBlocks : BlockHash[b] # UnknownHash
    /\ \A t \in AllTransactions : /\ TxHash[t] \in Value /\ TxHash[t] # 0
                                  /\ TxHash[t] # UnknownHash /\ TxHash[t] \in TxHashes
    /\ \A h \in TxHashes : h = UnknownHash \/ \E t \in AllTransactions : h = TxHash[t]
    /\ \A h \in BlockHashes : h = UnknownHash \/ \E b \in AllBlocks : h = BlockHash[b]
    /\ Genesis \in AllBlocks
  BY HashAssumption DEF TxHashes, BlockHashes, AllBlocks

\* A list of runs is at least as long as their number.
RunsLong(texts) == Len(texts) <= SumOf(Map(RunSizeMap, texts))

\* Submessages take at least as many bytes as there are submessages.
LEMMA RunsAtLeast ==
    ASSUME NEW texts \in Seq(ShortText)
    PROVE  RunsLong(texts)
  <1> DEFINE sizes == Map(RunSizeMap, texts)
  <1>1. Into(RunSizeMap, ShortText, Nat)
    <2>1. 1 \in Number
      BY DEF Number
    <2> QED
      BY <2>1, RunMaps
  <1>2. /\ sizes \in Seq(Nat) /\ Len(sizes) = Len(texts)
        /\ \A i \in 1 .. Len(texts) : sizes[i] = RunSizeMap[texts[i]]
    BY <1>1, MapFacts
  <1>3. \A i \in 1 .. Len(texts) : sizes[i] # 0
    <2> TAKE i \in 1 .. Len(texts)
    <2>1. texts[i] \in ShortText
      OBVIOUS
    <2>2. RunSizeMap[texts[i]] = RunSize(Len(texts[i]))
      BY <2>1 DEF RunSizeMap
    <2>3. RunSize(Len(texts[i])) \in Nat /\ RunSize(Len(texts[i])) > Len(texts[i])
      <3>1. 1 \in Number
        BY DEF Number
      <3> QED
        BY <2>1, <3>1, RunWritten
    <2>4. Len(texts[i]) \in Nat
      BY <2>1, TextFacts DEF ShortText
    <2> QED
      BY <1>2, <2>2, <2>3, <2>4
  <1> HIDE DEF sizes
  <1>4. Len(sizes) <= SumOf(sizes)
    BY <1>2, <1>3, SumBounds
  <1> QED
    BY <1>2, <1>4 DEF RunsLong, sizes

\* The size of the header in a block.
LEMMA HeaderRun ==
    ASSUME NEW h \in BlockHeaders
    PROVE  RunSize(PBlockHeaderSize(h)) \in Nat
  <1>1. h \in HeaderMessages
    BY UInt8Facts DEF BlockHeaders, HeaderMessages
  <1>2. PBlockHeaderText(h) \in ShortText /\ Len(PBlockHeaderText(h)) = PBlockHeaderSize(h)
    BY <1>1, HeaderMessage DEF PlainText
  <1>3. PBlockHeaderSize(h) \in Value
    BY <1>2 DEF ShortText
  <1> QED
    BY <1>3, RunSizeAtMost

\* A transaction has no more outputs than its text has bytes.
LEMMA OutputsAtMost ==
    ASSUME NEW t \in Transactions
    PROVE  /\ Len(t.transaction_outputs) \in Nat
           /\ Len(t.transaction_outputs) <= PTransactionSize(t)
  <1> DEFINE is == t.transaction_inputs
             os == t.transaction_outputs
             inputs == Map(InputTextMap, is)
             outputs == Map(OutputTextMap, os)
             a == UInt32Size(t.version)
             b == SumOf(Map(RunSizeMap, inputs))
             c == SumOf(Map(RunSizeMap, outputs))
             d == UInt32Size(t.lock_time)
  <1>1. t \in TransactionMessages
    BY TransactionKept
  <1>2. /\ is \in Seq(InputMessages) /\ os \in Seq(TransactionOutputs)
        /\ t.version \in Value /\ t.lock_time \in Value
    BY <1>1 DEF TransactionMessages
  <1>3. inputs \in Seq(ShortText)
        /\ SumOf([i \in DOMAIN is |-> RunSize(PTransactionInputSize(is[i]))]) = b
    BY <1>2, InputsAre
  <1>4. outputs \in Seq(ShortText)
        /\ SumOf([i \in DOMAIN os |-> RunSize(PTransactionOutputSize(os[i]))]) = c
    BY <1>2, OutputsAre
  <1>5. Len(outputs) = Len(os)
    <2>1. Into(OutputTextMap, TransactionOutputs, ShortText)
      BY OutputMessage DEF Into, OutputTextMap, PlainText
    <2> QED
      BY <1>2, <2>1, MapFacts
  <1>6. a \in Nat /\ d \in Nat
    BY <1>2, UInt32SizeFacts
  <1>7. b \in Nat /\ c \in Nat
    <2> HIDE DEF inputs, outputs
    <2> QED
      BY <1>3, <1>4, RunSizesSum
  <1>8. Len(outputs) <= c
    <2> HIDE DEF outputs
    <2>1. RunsLong(outputs)
      BY <1>4, RunsAtLeast
    <2> QED
      BY <2>1 DEF RunsLong, c
  <1>9. PTransactionSize(t) = a + b + c + d
    BY <1>3, <1>4 DEF PTransactionSize
  <1>10. Len(os) \in Nat
    BY <1>2
  <1> HIDE DEF a, b, c, d, outputs
  <1> QED
    BY <1>5, <1>6, <1>7, <1>8, <1>9, <1>10

\* The transactions of a block, and how many there are; so of their outputs.
LEMMA TransactionFacts ==
    ASSUME NEW b \in AllBlocks
    PROVE  /\ Len(b.transactions) \in Nat /\ Len(b.transactions) < Word2
           /\ \A i \in DOMAIN b.transactions :
                /\ b.transactions[i] \in AllTransactions
                /\ b.transactions[i] \in Transactions
                /\ Len(b.transactions[i].transaction_outputs) \in Nat
                /\ Len(b.transactions[i].transaction_outputs) < Word2
           /\ ToSet(b.transactions) = { b.transactions[i] : i \in DOMAIN b.transactions }
  <1> DEFINE ts == b.transactions
             h == b.block_header
             texts == Map(TransactionTextMap, ts)
             sizes == Map(RunSizeMap, texts)
  <1>1. /\ b \in Blocks /\ BlockText[b] = BlockSerialize(b)
        /\ Len(BlockText[b]) \in Nat /\ Len(BlockText[b]) + 1 < Word2
        /\ h \in BlockHeaders /\ ts \in Seq(Transactions)
    BY BlockFacts
  <1>2. b \in BlockMessages /\ PBlockSize(PBlockOf(b)) \in Nat
    BY <1>1, BlockKept, BlockSizes
  <1>3. PBlockSize(PBlockOf(b)) = Len(BlockText[b])
    BY <1>1, <1>2, SerializedLength DEF BlockSerialize, PBlockSerialize
  <1>4. PBlockSize(PBlockOf(b)) \in Value
    BY <1>1, <1>3, WordFacts
  <1>5. ts \in Seq(ShortTransactions)
    BY <1>2, <1>4, BlockSizes
  <1>6. /\ texts \in Seq(ShortText) /\ Len(texts) = Len(ts) /\ DOMAIN texts = DOMAIN ts
        /\ \A i \in DOMAIN ts : texts[i] = PTransactionText(ts[i])
    <2>1. Into(TransactionTextMap, ShortTransactions, ShortText)
      BY ShortTransaction DEF Into, TransactionTextMap
    <2>2. texts \in Seq(ShortText) /\ Len(texts) = Len(ts)
      BY <1>5, <2>1, MapFacts
    <2>3. \A i \in DOMAIN ts : ts[i] \in ShortTransactions
      BY <1>5
    <2> QED
      BY <1>5, <2>2, <2>3 DEF Map, TransactionTextMap
  <1>7. SumOf([i \in DOMAIN ts |-> RunSize(PTransactionSize(ts[i]))]) = SumOf(sizes)
    BY <1>5, TransactionsAre
  <1>8. /\ SumOf(sizes) \in Nat
        /\ \A i \in DOMAIN texts : Len(texts[i]) < SumOf(sizes)
        /\ Len(texts) <= SumOf(sizes)
    <2>1. SumOf(sizes) \in Nat /\ \A i \in DOMAIN texts : Len(texts[i]) < SumOf(sizes)
      BY <1>6, RunSizesSum
    <2>2. RunsLong(texts)
      BY <1>6, RunsAtLeast
    <2> QED
      BY <2>1, <2>2 DEF RunsLong
  <1>9. SumOf(sizes) <= PBlockSize(PBlockOf(b))
    <2>1. PBlockSize(PBlockOf(b)) = RunSize(PBlockHeaderSize(h)) + SumOf(sizes)
      <3> DEFINE m == PBlockOf(b)
      <3>1. /\ m.has_block_header = TRUE /\ m.block_header = h /\ m.transactions = ts
            /\ m.hash = 0 /\ m.calculate_fees = 0 /\ m.obtain_merkle_root = 0
        BY DEF PBlockOf
      <3> HIDE DEF m, h, ts, sizes
      <3>2. PBlockSize(m) = RunSize(PBlockHeaderSize(h)) + SumOf(sizes) + 0 + 0 + 0
        BY <1>7, <3>1, NoNumber DEF PBlockSize
      <3>3. RunSize(PBlockHeaderSize(h)) \in Nat
        BY <1>1, HeaderRun
      <3> QED
        BY <1>8, <3>2, <3>3 DEF m
    <2>2. RunSize(PBlockHeaderSize(h)) \in Nat
      BY <1>1, HeaderRun
    <2> QED
      BY <1>8, <2>1, <2>2
  <1> HIDE DEF sizes, texts
  <1>10. Len(ts) \in Nat /\ Len(ts) < Word2
    BY <1>1, <1>3, <1>6, <1>8, <1>9, WordFacts
  <1>11. ASSUME NEW i \in DOMAIN ts
         PROVE  /\ ts[i] \in AllTransactions /\ ts[i] \in Transactions
                /\ Len(ts[i].transaction_outputs) \in Nat /\ Len(ts[i].transaction_outputs) < Word2
    <2>1. ts[i] \in Transactions
      BY <1>1
    <2>2. ts[i] \in AllTransactions
      <3>1. ts[i] \in ToSet(ts)
        BY DEF ToSet
      <3> QED
        BY <3>1 DEF AllTransactions
    <2>3. PTransactionSize(ts[i]) = Len(texts[i])
      <3>1. ts[i] \in ShortTransactions
        BY <1>5
      <3> QED
        BY <1>6, <3>1, ShortTransaction
    <2>4. /\ Len(ts[i].transaction_outputs) \in Nat
          /\ Len(ts[i].transaction_outputs) <= PTransactionSize(ts[i])
      BY <2>1, OutputsAtMost
    <2>5. Len(texts[i]) \in Nat
      <3>1. texts[i] \in ShortText
        BY <1>6
      <3> QED
        BY <3>1, TextFacts DEF ShortText
    <2> QED
      BY <1>1, <1>3, <1>6, <1>8, <1>9, <2>1, <2>2, <2>3, <2>4, <2>5, WordFacts
  <1> QED
    BY <1>10, <1>11 DEF ToSet

\* The transactions of the blocks, and how many outputs they can have.
LEMMA AllTransactionFacts ==
    ASSUME NEW t \in AllTransactions
    PROVE  /\ t \in Transactions /\ t.version \in UInt8
           /\ t.transaction_outputs \in Seq(TransactionOutputs)
           /\ Len(t.transaction_outputs) \in Nat /\ Len(t.transaction_outputs) < Word2
  <1>1. PICK b \in AllBlocks : t \in ToSet(b.transactions)
    BY DEF AllTransactions
  <1>2. t \in Transactions /\ Len(t.transaction_outputs) \in Nat /\ Len(t.transaction_outputs) < Word2
    BY <1>1, TransactionFacts, SMTT(40)
  <1> QED
    BY <1>2 DEF Transactions

----------------------------------------------------------------------------
(* Coins. *)

\* The outputs of a transaction that are not among those taken.
Untaken(t, taken) ==
    [i \in DOMAIN t.transaction_outputs |-> IF <<TxHash[t], i - 1>> \in taken THEN <<>> ELSE <<i - 1>>]
LeftOf(t, taken) == FlattenSeq(Untaken(t, taken))

\* The outputs a transaction has left, with the taken ones as a parameter.
LEMMA LeftIs == \A t : Left(t) = LeftOf(t, removed)
  BY DEF Left, LeftOf, Untaken

OutputNumbers(t) == 0 .. Len(t.transaction_outputs) - 1

\* The outputs of a transaction, each there unless it was taken.
LEMMA UntakenTyped ==
    ASSUME NEW t \in AllTransactions, NEW taken
    PROVE  /\ Untaken(t, taken) \in Seq(Seq(OutputNumbers(t)))
           /\ Len(Untaken(t, taken)) = Len(t.transaction_outputs)
           /\ \A i \in 1 .. Len(t.transaction_outputs) :
                /\ Untaken(t, taken)[i] = IF <<TxHash[t], i - 1>> \in taken THEN <<>> ELSE <<i - 1>>
                /\ i - 1 \in OutputNumbers(t)
  <1> DEFINE os == t.transaction_outputs
             E == OutputNumbers(t)
             u == Untaken(t, taken)
  <1>1. os \in Seq(TransactionOutputs) /\ Len(os) \in Nat
    BY AllTransactionFacts
  <1>2. DOMAIN os = 1 .. Len(os)
    BY <1>1
  <1>3. \A i \in 1 .. Len(os) : i - 1 \in E
    BY <1>1 DEF OutputNumbers
  <1> HIDE DEF os, E
  <1>4. u = [i \in 1 .. Len(os) |-> IF <<TxHash[t], i - 1>> \in taken THEN <<>> ELSE <<i - 1>>]
    BY <1>2 DEF Untaken, os
  <1>5. \A i \in 1 .. Len(os) :
            (IF <<TxHash[t], i - 1>> \in taken THEN <<>> ELSE <<i - 1>>) \in Seq(E)
    BY <1>3
  <1> HIDE DEF u
  <1>6. u \in Seq(Seq(E)) /\ Len(u) = Len(os)
    BY <1>1, <1>4, <1>5
  <1> QED
    BY <1>3, <1>4, <1>6 DEF u, os, E

\* The outputs left are the outputs that were not taken.
LEMMA LeftFacts ==
    ASSUME NEW t \in AllTransactions, NEW taken
    PROVE  /\ LeftOf(t, taken) \in Seq(OutputNumbers(t))
           /\ Len(LeftOf(t, taken)) \in Nat /\ Len(LeftOf(t, taken)) < Word2
           /\ ToSet(LeftOf(t, taken)) = { n \in OutputNumbers(t) : <<TxHash[t], n>> \notin taken }
  <1> DEFINE os == t.transaction_outputs
             E == OutputNumbers(t)
             u == Untaken(t, taken)
             l == LeftOf(t, taken)
  <1>1. Len(os) \in Nat /\ Len(os) < Word2
    BY AllTransactionFacts
  <1>2. /\ u \in Seq(Seq(E)) /\ Len(u) = Len(os)
        /\ \A i \in 1 .. Len(os) :
             /\ u[i] = IF <<TxHash[t], i - 1>> \in taken THEN <<>> ELSE <<i - 1>>
             /\ i - 1 \in E
    BY UntakenTyped
  <1>3. \A n \in E : n + 1 \in 1 .. Len(os) /\ (n + 1) - 1 = n
    BY <1>1 DEF OutputNumbers
  <1>4. l = FlattenSeq(u)
    BY DEF LeftOf
  <1> HIDE DEF os, E, u, l
  <1>5. l \in Seq(E)
    BY <1>2, <1>4, FlattenFacts
  <1>6. Len(l) <= Len(os)
    <2> DEFINE sizes == Lengths(u)
    <2>1. Len(l) = SumOf(sizes)
      BY <1>2, <1>4, FlattenLen
    <2>2. sizes = [i \in 1 .. Len(u) |-> Len(u[i])]
      BY DEF Lengths
    <2>3. \A i \in 1 .. Len(u) : Len(u[i]) \in 0 .. 1
      <3>1. Len(<<>>) = 0 /\ \A x : Len(<<x>>) = 1
        OBVIOUS
      <3>2. \A i \in 1 .. Len(u) : u[i] = <<>> \/ u[i] = <<i - 1>>
        BY <1>2
      <3>3. \A i \in 1 .. Len(u) : Len(u[i]) = 0 \/ Len(u[i]) = 1
        BY <3>1, <3>2
      <3> QED
        BY <3>3
    <2>4. sizes \in Seq(0 .. 1) /\ Len(sizes) = Len(os)
      <3> HIDE DEF sizes
      <3> QED
        BY <1>1, <1>2, <2>2, <2>3
    <2> HIDE DEF sizes
    <2>5. SumOf(sizes) <= 1 * Len(sizes)
      BY <2>4, SumAtMost
    <2> QED
      BY <1>1, <2>1, <2>4, <2>5
  <1>7. ToSet(l) = { n \in E : <<TxHash[t], n>> \notin taken }
    <2>1. ToSet(l) = UNION { ToSet(e) : e \in ToSet(u) }
      BY <1>2, <1>4, FlattenToSet
    <2>2. ToSet(u) = { u[i] : i \in 1 .. Len(os) }
      BY <1>2, ToSetFacts
    <2>3. ToSet(l) = UNION { ToSet(u[i]) : i \in 1 .. Len(os) }
      BY <2>1, <2>2
    <2>4. \A i \in 1 .. Len(os) :
             ToSet(u[i]) = IF <<TxHash[t], i - 1>> \in taken THEN {} ELSE {i - 1}
      BY <1>2, ToSetFacts
    <2>5. ASSUME NEW n \in ToSet(l)
          PROVE  n \in E /\ <<TxHash[t], n>> \notin taken
      <3>1. PICK i \in 1 .. Len(os) : n \in ToSet(u[i])
        BY <2>3
      <3>2. n = i - 1 /\ <<TxHash[t], i - 1>> \notin taken
        BY <2>4, <3>1
      <3> QED
        BY <1>2, <3>2
    <2>6. ASSUME NEW n \in E, <<TxHash[t], n>> \notin taken
          PROVE  n \in ToSet(l)
      <3>1. n + 1 \in 1 .. Len(os) /\ (n + 1) - 1 = n
        BY <1>3
      <3>2. n \in ToSet(u[n + 1])
        BY <2>4, <2>6, <3>1
      <3> QED
        BY <2>3, <3>1, <3>2
    <2> QED
      BY <2>5, <2>6
  <1>8. Len(l) \in Nat
    BY <1>5
  <1> QED
    BY <1>1, <1>5, <1>6, <1>7, <1>8, WordFacts DEF l, E

\* The record of some outputs of a transaction.
LEMMA OutputsRecord ==
    ASSUME NEW t \in AllTransactions, NEW left \in Seq(OutputNumbers(t)), Len(left) < Word2
    PROVE  /\ RecordOfOutputs(t, left) \in CoinRecords
           /\ RecordOfOutputs(t, left).version = t.version
           /\ RecordOfOutputs(t, left).utxo = left
           /\ CoinRecordSerialize(RecordOfOutputs(t, left)) \in Text
           /\ CoinRecordDeserialize(CoinRecordSerialize(RecordOfOutputs(t, left)))
                = RecordOfOutputs(t, left)
  <1> DEFINE os == t.transaction_outputs
             amounts == [k \in DOMAIN left |-> os[left[k] + 1].amount]
             keys == [k \in DOMAIN left |-> os[left[k] + 1].public_key]
             r == RecordOfOutputs(t, left)
  <1>1. /\ t.version \in UInt8 /\ t.version \in Value /\ os \in Seq(TransactionOutputs)
        /\ Len(os) \in Nat /\ Len(os) < Word2
    BY AllTransactionFacts, UInt8Facts
  <1>2. \A n \in OutputNumbers(t) : n \in Value /\ n + 1 \in DOMAIN os
    <2>1. \A n \in OutputNumbers(t) : n \in Nat /\ n < Word2 /\ n + 1 \in 1 .. Len(os)
      BY <1>1, WordFacts DEF OutputNumbers
    <2> QED
      BY <1>1, <2>1, WordFacts
  <1>3. \A k \in DOMAIN left : left[k] \in OutputNumbers(t) /\ left[k] \in Value
                               /\ os[left[k] + 1] \in TransactionOutputs
    BY <1>1, <1>2
  <1> HIDE DEF os
  <1>4. \A k \in DOMAIN left : os[left[k] + 1].amount \in Value /\ os[left[k] + 1].public_key \in Value
    BY <1>3 DEF TransactionOutputs
  <1>5. amounts \in Seq(Value) /\ Len(amounts) = Len(left)
    BY <1>4
  <1>6. keys \in Seq(Value) /\ Len(keys) = Len(left)
    BY <1>4
  <1>7. left \in Seq(Value)
    BY <1>3
  <1>8. r = [version |-> t.version, utxo |-> left, amounts |-> amounts, public_keys |-> keys]
    BY DEF RecordOfOutputs, CoinRecord, os
  <1> HIDE DEF r, amounts, keys
  <1>9. r \in CoinRecords /\ r.version = t.version /\ r.utxo = left
    BY <1>1, <1>5, <1>6, <1>7, <1>8 DEF CoinRecords
  <1>10. CoinRecordSerialize(r) \in Text /\ CoinRecordDeserialize(CoinRecordSerialize(r)) = r
    BY <1>1, <1>9, CoinRecordKept
  <1> QED
    BY <1>9, <1>10 DEF r

\* Flattening a sequence of one-element sequences gives their elements.
LEMMA FlattenSingles ==
    ASSUME NEW S, NEW s \in Seq(S)
    PROVE  FlattenSeq([i \in DOMAIN s |-> <<s[i]>>]) = s
  <1> DEFINE g == [e \in S |-> <<e>>]
             P == { q \in Seq(S) : Flat(g, q) = q }
  <1>1. Into(g, S, Seq(S)) /\ \A e \in S : g[e] = <<e>>
    BY DEF Into
  <1>2. /\ Flat(g, <<>>) = <<>>
        /\ \A e \in S : Flat(g, <<e>>) = g[e]
        /\ \A q, r \in Seq(S) : Flat(g, q \o r) = Flat(g, q) \o Flat(g, r)
    <2> HIDE DEF g
    <2> DEFINE T == S
               Y == S
    <2>1. Into(g, T, Seq(Y))
      BY <1>1
    <2> HIDE DEF T, Y
    <2>2. Flat(g, <<>>) = <<>>
      BY <2>1, FlatFacts
    <2>3. \A e \in T : Flat(g, <<e>>) = g[e]
      <3> TAKE e \in T
      <3>1. Map(g, <<e>>) = <<g[e]>>
        BY <2>1, MapFacts
      <3>2. g[e] \in Seq(Y)
        BY <2>1 DEF Into
      <3> QED
        BY <3>1, <3>2, FlattenOne DEF Flat
    <2>4. \A q, r \in Seq(T) : Flat(g, q \o r) = Flat(g, q) \o Flat(g, r)
      BY <2>1, FlatFacts
    <2> QED
      BY <2>2, <2>3, <2>4 DEF T
  <1>3. [i \in DOMAIN s |-> <<s[i]>>] = Map(g, s)
    <2>1. \A i \in DOMAIN s : s[i] \in S
      OBVIOUS
    <2> QED
      BY <2>1 DEF Map
  <1> HIDE DEF g
  <1>4. <<>> \in P
    BY <1>2
  <1>5. \A q \in Seq(S), e \in S : q \in P => Append(q, e) \in P
    <2> SUFFICES ASSUME NEW q \in Seq(S), NEW e \in S, q \in P
                 PROVE  Append(q, e) \in P
      OBVIOUS
    <2>1. Append(q, e) = q \o <<e>> /\ <<e>> \in Seq(S) /\ Append(q, e) \in Seq(S)
      OBVIOUS
    <2>2. Flat(g, q \o <<e>>) = Flat(g, q) \o Flat(g, <<e>>)
      BY <1>2, <2>1
    <2>3. Flat(g, q \o <<e>>) = q \o <<e>>
      BY <1>1, <1>2, <2>2
    <2> QED
      BY <2>1, <2>3
  <1>6. Seq(S) \subseteq P
    <2> HIDE DEF P
    <2> QED
      BY <1>4, <1>5, AppendingOn
  <1> QED
    BY <1>3, <1>6 DEF Flat

\* A transaction of which nothing was taken has all its outputs.
LEMMA NothingTaken ==
    ASSUME NEW t \in AllTransactions, NEW taken, \A r \in taken : r[1] # TxHash[t]
    PROVE  RecordOfOutputs(t, LeftOf(t, taken)) = RecordOf(t)
  <1> DEFINE os == t.transaction_outputs
             all == [i \in DOMAIN os |-> i - 1]
  <1>1. os \in Seq(TransactionOutputs) /\ DOMAIN os = 1 .. Len(os) /\ Len(os) \in Nat
    BY AllTransactionFacts
  <1>2. \A i \in DOMAIN os : <<TxHash[t], i - 1>> \notin taken
    OBVIOUS
  <1>3. Untaken(t, taken) = [i \in DOMAIN os |-> <<i - 1>>]
    BY <1>2 DEF Untaken
  <1> HIDE DEF os
  <1>4. all \in Seq(Int) /\ DOMAIN all = DOMAIN os /\ \A i \in DOMAIN os : all[i] = i - 1
    BY <1>1
  <1>5. Untaken(t, taken) = [i \in DOMAIN all |-> <<all[i]>>]
    BY <1>3, <1>4
  <1>6. LeftOf(t, taken) = all
    <2> HIDE DEF all
    <2> QED
      BY <1>4, <1>5, FlattenSingles DEF LeftOf
  <1>7. \A i \in DOMAIN os : all[i] + 1 = i
    BY <1>1, <1>4
  <1> HIDE DEF all
  <1>8. /\ [k \in DOMAIN all |-> os[all[k] + 1].amount] = [i \in DOMAIN os |-> os[i].amount]
        /\ [k \in DOMAIN all |-> os[all[k] + 1].public_key] = [i \in DOMAIN os |-> os[i].public_key]
    BY <1>4, <1>7
  <1> QED
    BY <1>6, <1>8 DEF RecordOfOutputs, RecordOf, os, all

\* What was taken of other transactions does not matter.
LEMMA TakenElsewhere ==
    ASSUME NEW t \in AllTransactions, NEW taken, NEW other,
           \A n : <<TxHash[t], n>> \in taken <=> <<TxHash[t], n>> \in other
    PROVE  LeftOf(t, taken) = LeftOf(t, other)
  BY DEF LeftOf, Untaken

\* Where a number is found in a sequence.
Place(l, n) == SelectInSeq(l, LAMBDA u : u = n)

\* The place at which a list holds a number, 0 if it does not.
LEMMA PlaceFacts ==
    ASSUME NEW S, NEW l \in Seq(S), NEW n
    PROVE  /\ n \in ToSet(l) => /\ Place(l, n) \in 1 .. Len(l)
                                /\ l[Place(l, n)] = n
                                /\ \A k \in 1 .. Place(l, n) - 1 : l[k] # n
           /\ n \notin ToSet(l) => Place(l, n) = 0
  <1> DEFINE I == { i \in 1 .. Len(l) : l[i] = n }
  <1>1. Place(l, n) = IF I # {} THEN Min(I) ELSE 0
    BY DEF Place, SelectInSeq
  <1>2. ToSet(l) = { l[i] : i \in 1 .. Len(l) } /\ Len(l) \in Nat
    BY ToSetFacts
  <1>3. I \in SUBSET (1 .. Len(l))
    OBVIOUS
  <1>4. n \in ToSet(l) <=> I # {}
    BY <1>2
  <1>5. ASSUME I # {}
        PROVE  Min(I) \in I /\ \A k \in I : Min(I) <= k
    <2> HIDE DEF I
    <2> QED
      BY <1>2, <1>3, <1>5, SmallestIs
  <1>6. ASSUME I # {}
        PROVE  \A k \in 1 .. Min(I) - 1 : l[k] # n
    <2>1. Min(I) \in 1 .. Len(l) /\ \A k \in I : Min(I) <= k
      BY <1>5, <1>6
    <2> DEFINE m == Min(I)
    <2> HIDE DEF m
    <2>2. m \in 1 .. Len(l) /\ \A k \in I : m <= k
      BY <2>1 DEF m
    <2>3. \A k \in 1 .. m - 1 : l[k] # n
      BY <1>2, <2>2
    <2> QED
      BY <2>3 DEF m
  <1>7. ASSUME I # {}
        PROVE  Min(I) \in 1 .. Len(l) /\ l[Min(I)] = n
    BY <1>5, <1>7
  <1> HIDE DEF I
  <1> QED
    BY <1>1, <1>4, <1>6, <1>7

\* An element between two sequences the first of which does not hold it.
Between(S, l, a, n, b) == /\ a \in Seq(S) /\ n \in S /\ b \in Seq(S)
                          /\ n \notin ToSet(a) /\ l = a \o <<n>> \o b

\* Removing the one place a number is at leaves what is before and behind it.
LEMMA TakenOut ==
    ASSUME NEW S, NEW l, NEW a, NEW n, NEW b, Between(S, l, a, n, b)
    PROVE  n \in ToSet(l) /\ RemoveAt(l, Place(l, n)) = a \o b
  <1>0. /\ a \in Seq(S) /\ n \in S /\ b \in Seq(S)
        /\ n \notin ToSet(a) /\ l = a \o <<n>> \o b
    BY DEF Between
  <1> USE <1>0
  <1> DEFINE p == Place(l, n)
  <1>1. l \in Seq(S) /\ Len(l) = Len(a) + 1 + Len(b) /\ Len(a) \in Nat /\ Len(b) \in Nat
    OBVIOUS
  <1>2. \A k \in 1 .. Len(a) : l[k] = a[k] /\ a[k] # n
    <2>1. \A k \in 1 .. Len(a) : a[k] \in ToSet(a)
      BY ToSetFacts
    <2> QED
      BY <2>1
  <1>3. l[Len(a) + 1] = n
    OBVIOUS
  <1>4. \A k \in 1 .. Len(b) : l[Len(a) + 1 + k] = b[k]
    OBVIOUS
  <1>5. n \in ToSet(l)
    <2>1. Len(a) + 1 \in 1 .. Len(l)
      BY <1>1
    <2>2. l \in Seq(S)
      BY <1>1
    <2> HIDE <1>0
    <2>3. ToSet(l) = { l[i] : i \in 1 .. Len(l) }
      BY ONLY <2>2, ToSetFacts
    <2> QED
      BY <1>3, <2>1, <2>3
  <1>6. p \in 1 .. Len(l) /\ l[p] = n /\ \A k \in 1 .. p - 1 : l[k] # n
    <2>1. l \in Seq(S)
      BY <1>1
    <2> QED
      BY ONLY <2>1, <1>5, PlaceFacts DEF p
  <1> HIDE DEF p
  <1>7. p = Len(a) + 1
    BY <1>1, <1>2, <1>3, <1>6
  <1>8. RemoveAt(l, Len(a) + 1) = a \o b
    <2>1. SubSeq(l, 1, Len(a)) = a
      BY <1>1, <1>2
    <2>2. SubSeq(l, Len(a) + 2, Len(l)) = b
      BY <1>1, <1>4
    <2>3. RemoveAt(l, Len(a) + 1) = SubSeq(l, 1, (Len(a) + 1) - 1) \o SubSeq(l, (Len(a) + 1) + 1, Len(l))
      BY DEF RemoveAt
    <2>4. (Len(a) + 1) - 1 = Len(a) /\ (Len(a) + 1) + 1 = Len(a) + 2
      BY <1>1
    <2> QED
      BY <2>1, <2>2, <2>3, <2>4
  <1> QED
    BY <1>5, <1>7, <1>8 DEF p

\* Sequences of the same members are equal.
LEMMA SameSequence ==
    ASSUME NEW S, NEW s \in Seq(S), NEW q \in Seq(S), Len(s) = Len(q),
           \A i \in 1 .. Len(s) : s[i] = q[i]
    PROVE  s = q
  OBVIOUS

\* Two sequences that differ in one place at most.
SameBut(s, q, p) == /\ Len(q) = Len(s) /\ p \in 1 .. Len(s)
                    /\ \A i \in 1 .. Len(s) : i # p => q[i] = s[i]
Splits(s, q, p, a, b) == /\ s = a \o <<s[p]>> \o b
                         /\ q = a \o <<q[p]>> \o b
                         /\ Len(a) = p - 1
                         /\ \A i \in 1 .. p - 1 : a[i] = s[i]

\* Sequences that differ in one place, split there.
LEMMA SplitAt ==
    ASSUME NEW S, NEW s \in Seq(S), NEW q \in Seq(S), NEW p, SameBut(s, q, p)
    PROVE  \E a, b \in Seq(S) : Splits(s, q, p, a, b)
  <1>0. Len(q) = Len(s) /\ p \in 1 .. Len(s) /\ \A i \in 1 .. Len(s) : i # p => q[i] = s[i]
    BY DEF SameBut
  <1> USE <1>0
  <1> DEFINE a == SubSeq(s, 1, p - 1)
             b == SubSeq(s, p + 1, Len(s))
  <1>1. Len(s) \in Nat /\ p \in Nat /\ p >= 1 /\ p <= Len(s)
    OBVIOUS
  <1>2. a \in Seq(S) /\ Len(a) = p - 1 /\ \A i \in 1 .. p - 1 : a[i] = s[i]
    BY <1>1
  <1>3. b \in Seq(S) /\ Len(b) = Len(s) - p /\ \A i \in 1 .. Len(s) - p : b[i] = s[p + i]
    BY <1>1
  <1> HIDE DEF a, b
  <1>4. ASSUME NEW x \in S
        PROVE  /\ a \o <<x>> \o b \in Seq(S) /\ Len(a \o <<x>> \o b) = Len(s)
               /\ \A i \in 1 .. Len(s) :
                    (a \o <<x>> \o b)[i] = IF i < p THEN s[i] ELSE IF i = p THEN x ELSE s[i]
    <2> DEFINE w == a \o <<x>> \o b
    <2>1. w \in Seq(S) /\ Len(w) = (p - 1) + 1 + (Len(s) - p)
      BY <1>2, <1>3
    <2>2. Len(w) = Len(s)
      BY <1>1, <2>1
    <2>3. \A i \in 1 .. Len(s) : w[i] = IF i < p THEN a[i] ELSE IF i = p THEN x ELSE b[i - p]
      BY <1>1, <1>2, <1>3, SMTT(40)
    <2> HIDE DEF w
    <2>4. \A i \in 1 .. Len(s) : i < p => i \in 1 .. p - 1
      BY <1>1
    <2>5. \A i \in 1 .. Len(s) : i > p => i - p \in 1 .. Len(s) - p /\ p + (i - p) = i
      BY <1>1
    <2>6. \A i \in 1 .. Len(s) : i < p \/ i = p \/ i > p
      BY <1>1
    <2>7. \A i \in 1 .. Len(s) : w[i] = IF i < p THEN s[i] ELSE IF i = p THEN x ELSE s[i]
      BY <1>2, <1>3, <2>3, <2>4, <2>5, <2>6
    <2> QED
      BY <2>1, <2>2, <2>7 DEF w
  <1>5. s[p] \in S /\ q[p] \in S
    BY <1>1
  <1>6. s = a \o <<s[p]>> \o b
    <2> DEFINE w == a \o <<s[p]>> \o b
    <2>1. w \in Seq(S) /\ Len(w) = Len(s) /\ \A i \in 1 .. Len(s) : w[i] = s[i]
      BY <1>4, <1>5
    <2> HIDE DEF w
    <2>2. w = s
      BY <2>1, SameSequence
    <2> QED
      BY <2>2 DEF w
  <1>7. q = a \o <<q[p]>> \o b
    <2> DEFINE w == a \o <<q[p]>> \o b
    <2>1. w \in Seq(S) /\ Len(w) = Len(s) /\ \A i \in 1 .. Len(s) : w[i] = q[i]
      BY <1>4, <1>5, SMTT(40)
    <2> HIDE DEF w
    <2>2. w = q
      BY <2>1, SameSequence
    <2> QED
      BY <2>2 DEF w
  <1>8. Splits(s, q, p, a, b)
    BY <1>2, <1>6, <1>7 DEF Splits
  <1> QED
    BY <1>2, <1>3, <1>8

\* One output taken more: either it was taken before, or it goes from its place.
LEMMA OneTaken ==
    ASSUME NEW t \in AllTransactions, NEW taken, NEW n
    PROVE  LET l == LeftOf(t, taken)
               m == LeftOf(t, taken \cup {<<TxHash[t], n>>})
           IN  /\ n \notin ToSet(l) => m = l
               /\ n \in ToSet(l) => m = RemoveAt(l, Place(l, n))
  <1> DEFINE os == t.transaction_outputs
             E == OutputNumbers(t)
             more == taken \cup {<<TxHash[t], n>>}
             u == Untaken(t, taken)
             v == Untaken(t, more)
             h == TxHash[t]
  <1>1. Len(os) \in Nat /\ DOMAIN os = 1 .. Len(os)
    BY AllTransactionFacts
  <1>2. /\ u \in Seq(Seq(E)) /\ Len(u) = Len(os)
        /\ \A i \in 1 .. Len(os) : /\ u[i] = IF <<h, i - 1>> \in taken THEN <<>> ELSE <<i - 1>>
                                   /\ i - 1 \in E
    BY UntakenTyped
  <1>3. /\ v \in Seq(Seq(E)) /\ Len(v) = Len(os)
        /\ \A i \in 1 .. Len(os) : v[i] = IF <<h, i - 1>> \in more THEN <<>> ELSE <<i - 1>>
    BY UntakenTyped
  <1>4. LeftOf(t, taken) = FlattenSeq(u) /\ LeftOf(t, more) = FlattenSeq(v)
    BY DEF LeftOf
  <1>5. ToSet(LeftOf(t, taken)) = { k \in E : <<h, k>> \notin taken }
    BY LeftFacts
  <1>6. \A k : k \in E <=> k + 1 \in 1 .. Len(os) /\ k \in Int
    BY <1>1 DEF OutputNumbers
  <1>7. \A i \in 1 .. Len(os) : <<h, i - 1>> \in more <=> <<h, i - 1>> \in taken \/ i - 1 = n
    OBVIOUS
  <1> HIDE DEF os, E, more, u, v, h
  <1>8. ASSUME n \notin ToSet(LeftOf(t, taken))
        PROVE  LeftOf(t, more) = LeftOf(t, taken)
    <2>1. \A i \in 1 .. Len(os) : v[i] = u[i]
      <3> TAKE i \in 1 .. Len(os)
      <3>1. i - 1 = n => <<h, i - 1>> \in taken
        BY <1>2, <1>5, <1>8
      <3> QED
        BY <1>2, <1>3, <1>7, <3>1
    <2>2. v = u
      BY <1>2, <1>3, <2>1, SameSequence
    <2> QED
      BY <1>4, <2>2
  <1>9. ASSUME n \in ToSet(LeftOf(t, taken))
        PROVE  LeftOf(t, more) = RemoveAt(LeftOf(t, taken), Place(LeftOf(t, taken), n))
    <2>1. n \in E /\ <<h, n>> \notin taken /\ n \in Int /\ n + 1 \in 1 .. Len(os)
      BY <1>5, <1>6, <1>9
    <2> DEFINE p == n + 1
    <2>2. p \in 1 .. Len(os) /\ p - 1 = n /\ n \in Nat
      BY <1>1, <2>1
    <2>3. u[p] = <<n>> /\ v[p] = <<>>
      BY <1>2, <1>3, <1>7, <2>1, <2>2
    <2>6. p \in Nat /\ <<n>> \in Seq(E) /\ <<>> \in Seq(E)
      BY <2>1, <2>2
    <2> HIDE DEF p
    <2>4. \A i \in 1 .. Len(os) : i # p => v[i] = u[i]
      <3> TAKE i \in 1 .. Len(os)
      <3>1. i # p => i - 1 # n
        BY <2>2
      <3> QED
        BY <1>2, <1>3, <1>7, <3>1
    <2> DEFINE T == Seq(E)
    <2>5. PICK a \in Seq(T), b \in Seq(T) : /\ u = a \o <<u[p]>> \o b
                                           /\ v = a \o <<v[p]>> \o b
                                           /\ Len(a) = n
                                           /\ \A i \in 1 .. n : a[i] = u[i]
      <3>1. SameBut(u, v, p)
        BY <1>2, <1>3, <2>2, <2>4 DEF SameBut
      <3>2. u \in Seq(T) /\ v \in Seq(T)
        BY <1>2, <1>3
      <3> HIDE DEF T
      <3>3. PICK a \in Seq(T), b \in Seq(T) : Splits(u, v, p, a, b)
        BY <3>1, <3>2, SplitAt
      <3>4. /\ u = a \o <<u[p]>> \o b
            /\ v = a \o <<v[p]>> \o b
            /\ Len(a) = n
            /\ \A i \in 1 .. n : a[i] = u[i]
        BY <2>2, <3>3 DEF Splits
      <3> QED
        BY <3>4
    <2>7. u = a \o <<<<n>>>> \o b
      BY <2>3, <2>5, Zenon
    <2>8. v = a \o << <<>> >> \o b
      BY <2>3, <2>5, Zenon
    <2>14. a \in Seq(Seq(E)) /\ b \in Seq(Seq(E))
      OBVIOUS
    <2> HIDE DEF T
    <2> DEFINE fa == FlattenSeq(a)
               fb == FlattenSeq(b)
    <2>9. fa \in Seq(E) /\ fb \in Seq(E)
      BY <2>14, FlattenFacts
    <2>10. FlattenSeq(u) = fa \o <<n>> \o fb
      <3>1. <<<<n>>>> \in Seq(Seq(E)) /\ a \o <<<<n>>>> \in Seq(Seq(E))
        BY <2>6, <2>14
      <3>2. FlattenSeq(a \o <<<<n>>>>) = fa \o FlattenSeq(<<<<n>>>>)
        BY <2>14, <3>1, FlattenConcat
      <3>3. FlattenSeq(<<<<n>>>>) = <<n>>
        BY <2>6, FlattenOne
      <3>4. FlattenSeq((a \o <<<<n>>>>) \o b) = FlattenSeq(a \o <<<<n>>>>) \o fb
        BY <2>14, <3>1, FlattenConcat
      <3> QED
        BY <2>7, <3>2, <3>3, <3>4, Zenon
    <2>11. FlattenSeq(v) = fa \o fb
      <3>1. << <<>> >> \in Seq(Seq(E)) /\ a \o << <<>> >> \in Seq(Seq(E))
        BY <2>6, <2>14
      <3>2. FlattenSeq(a \o << <<>> >>) = fa \o FlattenSeq(<< <<>> >>)
        BY <2>14, <3>1, FlattenConcat
      <3>3. FlattenSeq(<< <<>> >>) = <<>>
        BY <2>6, FlattenOne
      <3>4. FlattenSeq((a \o << <<>> >>) \o b) = FlattenSeq(a \o << <<>> >>) \o fb
        BY <2>14, <3>1, FlattenConcat
      <3>5. fa \o <<>> = fa
        BY <2>9, EmptyConcat
      <3> QED
        BY <2>8, <3>2, <3>3, <3>4, <3>5, Zenon
    <2>12. n \notin ToSet(fa)
      <3>1. ToSet(fa) = UNION { ToSet(e) : e \in ToSet(a) }
        BY <2>14, FlattenToSet
      <3>2. ToSet(a) = { a[i] : i \in 1 .. n }
        BY <2>5, <2>14, ToSetFacts
      <3>3. \A i \in 1 .. n : n \notin ToSet(a[i])
        <4> TAKE i \in 1 .. n
        <4>1. i \in 1 .. Len(os) /\ i - 1 # n
          BY <1>1, <2>2
        <4>2. a[i] = <<>> \/ a[i] = <<i - 1>>
          BY <1>2, <2>5, <4>1
        <4>3. ToSet(<<>>) = {} /\ ToSet(<<i - 1>>) = {i - 1}
          BY ToSetFacts
        <4> QED
          BY <4>1, <4>2, <4>3
      <3> QED
        BY <3>1, <3>2, <3>3
    <2> HIDE DEF fa, fb
    <2>13. RemoveAt(FlattenSeq(u), Place(FlattenSeq(u), n)) = fa \o fb
      <3> DEFINE w == FlattenSeq(u)
      <3>1. Between(E, w, fa, n, fb)
        BY <2>1, <2>9, <2>10, <2>12 DEF Between
      <3> HIDE DEF w
      <3>2. RemoveAt(w, Place(w, n)) = fa \o fb
        BY <3>1, TakenOut
      <3> QED
        BY <3>2 DEF w
    <2> QED
      BY <1>4, <2>11, <2>13
  <1> QED
    BY <1>8, <1>9 DEF more, h

\* What RemoveAt leaves.
LEMMA RemoveAtFacts ==
    ASSUME NEW S, NEW s \in Seq(S), NEW p \in 1 .. Len(s)
    PROVE  /\ RemoveAt(s, p) \in Seq(S) /\ Len(RemoveAt(s, p)) = Len(s) - 1
           /\ \A i \in 1 .. Len(s) - 1 : RemoveAt(s, p)[i] = IF i < p THEN s[i] ELSE s[i + 1]
  <1> DEFINE a == SubSeq(s, 1, p - 1)
             b == SubSeq(s, p + 1, Len(s))
  <1>1. Len(s) \in Nat /\ p \in Nat /\ p >= 1 /\ p <= Len(s)
    OBVIOUS
  <1>2. a \in Seq(S) /\ Len(a) = p - 1 /\ \A i \in 1 .. p - 1 : a[i] = s[i]
    BY <1>1
  <1>3. b \in Seq(S) /\ Len(b) = Len(s) - p /\ \A i \in 1 .. Len(s) - p : b[i] = s[p + i]
    BY <1>1
  <1>4. RemoveAt(s, p) = a \o b
    BY DEF RemoveAt
  <1> HIDE DEF a, b
  <1>5. a \o b \in Seq(S) /\ Len(a \o b) = Len(s) - 1
    <2>0. a \in Seq(S) /\ b \in Seq(S)
      BY <1>2, <1>3
    <2>1. a \o b \in Seq(S) /\ Len(a \o b) = Len(a) + Len(b)
      BY ONLY <2>0
    <2>2. Len(a) + Len(b) = Len(s) - 1
      BY <1>1, <1>2, <1>3
    <2> QED
      BY <2>1, <2>2
  <1>6. \A i \in 1 .. Len(s) - 1 : (a \o b)[i] = IF i < p THEN s[i] ELSE s[i + 1]
    <2> TAKE i \in 1 .. Len(s) - 1
    <2>1. CASE i < p
      BY <1>1, <1>2, <1>3, <2>1
    <2>2. CASE ~(i < p)
      <3>1. i - (p - 1) \in 1 .. Len(s) - p /\ p + (i - (p - 1)) = i + 1
        BY <1>1, <2>2
      <3>2. (a \o b)[i] = b[i - (p - 1)]
        BY <1>1, <1>2, <1>3, <2>2
      <3> QED
        BY <1>3, <2>2, <3>1, <3>2
    <2> QED
      BY <2>1, <2>2
  <1> QED
    BY <1>4, <1>5, <1>6

\* Removing commutes with mapping.
LEMMA RemoveMapped ==
    ASSUME NEW S, NEW Y, NEW g, Into(g, S, Y), NEW s \in Seq(S), NEW p \in 1 .. Len(s)
    PROVE  RemoveAt(Map(g, s), p) = Map(g, RemoveAt(s, p))
  <1> DEFINE m == Map(g, s)
             r == RemoveAt(s, p)
  <1>1. m \in Seq(Y) /\ Len(m) = Len(s) /\ \A i \in 1 .. Len(s) : m[i] = g[s[i]]
    BY MapFacts
  <1>2. r \in Seq(S) /\ Len(r) = Len(s) - 1
        /\ \A i \in 1 .. Len(s) - 1 : r[i] = IF i < p THEN s[i] ELSE s[i + 1]
    BY RemoveAtFacts
  <1> HIDE DEF r
  <1>3. /\ Map(g, r) \in Seq(Y) /\ Len(Map(g, r)) = Len(s) - 1
        /\ \A i \in 1 .. Len(s) - 1 : Map(g, r)[i] = g[r[i]]
    BY <1>2, MapFacts
  <1> HIDE DEF m
  <1>4. p \in 1 .. Len(m)
    BY <1>1
  <1>5. /\ RemoveAt(m, p) \in Seq(Y) /\ Len(RemoveAt(m, p)) = Len(s) - 1
        /\ \A i \in 1 .. Len(s) - 1 : RemoveAt(m, p)[i] = IF i < p THEN m[i] ELSE m[i + 1]
    BY <1>1, <1>4, RemoveAtFacts
  <1>6. Len(s) \in Nat
    OBVIOUS
  <1>7. \A i \in 1 .. Len(s) - 1 : i \in 1 .. Len(s) /\ i + 1 \in 1 .. Len(s)
    BY <1>6
  <1>8. \A i \in 1 .. Len(s) - 1 : RemoveAt(m, p)[i] = Map(g, r)[i]
    <2> TAKE i \in 1 .. Len(s) - 1
    <2>1. RemoveAt(m, p)[i] = IF i < p THEN m[i] ELSE m[i + 1]
      BY <1>5
    <2>2. Map(g, r)[i] = g[r[i]] /\ r[i] = IF i < p THEN s[i] ELSE s[i + 1]
      BY <1>2, <1>3
    <2>3. m[i] = g[s[i]] /\ m[i + 1] = g[s[i + 1]]
      BY <1>1, <1>7
    <2>4. CASE i < p
      BY <2>1, <2>2, <2>3, <2>4, Zenon
    <2>5. CASE ~(i < p)
      BY <2>1, <2>2, <2>3, <2>5, Zenon
    <2> QED
      BY <2>4, <2>5
  <1>9. RemoveAt(m, p) = Map(g, r)
    BY <1>3, <1>5, <1>8, SameSequence
  <1> QED
    BY <1>9 DEF m, r

\* Taking an output out of a coin record is taking it out of the outputs left.
Less(l, n) == IF n \in ToSet(l) THEN RemoveAt(l, Place(l, n)) ELSE l

\* Removing an output from a record that was made of a list makes the record
\* of the shorter list.
LEMMA RecordWithout ==
    ASSUME NEW t \in AllTransactions, NEW l \in Seq(OutputNumbers(t)), NEW n
    PROVE  Without(RecordOfOutputs(t, l), n) = RecordOfOutputs(t, Less(l, n))
  <1> DEFINE os == t.transaction_outputs
             N == OutputNumbers(t)
             A == [k \in N |-> os[k + 1].amount]
             K == [k \in N |-> os[k + 1].public_key]
             YA == { os[k + 1].amount : k \in N }
             YK == { os[k + 1].public_key : k \in N }
             p == Place(l, n)
             r == RecordOfOutputs(t, l)
  <1>1. Into(A, N, YA) /\ Into(K, N, YK)
    BY DEF Into
  <1>2. \A q \in Seq(N) : RecordOfOutputs(t, q) = CoinRecord(t.version, q, Map(A, q), Map(K, q))
    <2> TAKE q \in Seq(N)
    <2>1. \A k \in DOMAIN q : q[k] \in N
      OBVIOUS
    <2>2. Map(A, q) = [k \in DOMAIN q |-> os[q[k] + 1].amount]
      BY <2>1 DEF Map
    <2>3. Map(K, q) = [k \in DOMAIN q |-> os[q[k] + 1].public_key]
      BY <2>1 DEF Map
    <2> QED
      BY <2>2, <2>3 DEF RecordOfOutputs
  <1> HIDE DEF A, K, YA, YK
  <1>3. r.version = t.version /\ r.utxo = l /\ r.amounts = Map(A, l) /\ r.public_keys = Map(K, l)
    BY <1>2 DEF CoinRecord
  <1>4. Place(l, n) = SelectInSeq(r.utxo, LAMBDA u : u = n)
    BY <1>3 DEF Place
  <1>5. Without(r, n) = IF p = 0 THEN r
                        ELSE CoinRecord(t.version, RemoveAt(l, p), RemoveAt(Map(A, l), p),
                                        RemoveAt(Map(K, l), p))
    BY <1>3, <1>4, Zenon DEF Without
  <1>6. CASE n \in ToSet(l)
    <2>1. p \in 1 .. Len(l)
      BY <1>6, PlaceFacts
    <2> HIDE DEF p
    <2>2. RemoveAt(l, p) \in Seq(N)
      BY <2>1, RemoveAtFacts
    <2>3. RemoveAt(Map(A, l), p) = Map(A, RemoveAt(l, p))
      BY <1>1, <2>1, RemoveMapped
    <2>4. RemoveAt(Map(K, l), p) = Map(K, RemoveAt(l, p))
      BY <1>1, <2>1, RemoveMapped
    <2>5. p # 0
      BY <2>1
    <2>6. Without(r, n) = CoinRecord(t.version, RemoveAt(l, p), Map(A, RemoveAt(l, p)), Map(K, RemoveAt(l, p)))
      BY <1>5, <2>3, <2>4, <2>5, Zenon
    <2>7. Without(r, n) = RecordOfOutputs(t, RemoveAt(l, p))
      BY <1>2, <2>2, <2>6
    <2> QED
      BY <1>6, <2>7 DEF Less, p
  <1>7. CASE n \notin ToSet(l)
    <2>1. p = 0
      BY <1>7, PlaceFacts
    <2> QED
      BY <1>5, <1>7, <2>1 DEF Less
  <1> QED
    BY <1>6, <1>7

\* The outputs left after one is taken.
LEMMA LessLeft ==
    ASSUME NEW t \in AllTransactions, NEW taken, NEW n
    PROVE  LeftOf(t, taken \cup {<<TxHash[t], n>>}) = Less(LeftOf(t, taken), n)
  BY OneTaken DEF Less

\* Nothing is removed from the empty record.
LEMMA NoCoinWithout == \A n : Without(NoCoin, n) = NoCoin
  <1> TAKE n
  <1>1. NoCoin.utxo = <<>>
    BY NoCoinText
  <1>2. Place(<<>>, n) = 0
    <2>1. <<>> \in Seq({}) /\ n \notin ToSet(<<>>)
      BY ToSetFacts
    <2> QED
      BY <2>1, PlaceFacts
  <1>3. SelectInSeq(NoCoin.utxo, LAMBDA u : u = n) = 0
    BY <1>1, <1>2 DEF Place
  <1> QED
    BY <1>3, Zenon DEF Without

\* The last of some transactions under a hash: the only one.
LastUnder(txs, h) == SelectLastInSeq(txs, LAMBDA t : TxHash[t] = h)

\* The last transaction of a block under a hash.
LEMMA LastUnderFacts ==
    ASSUME NEW txs \in Seq(AllTransactions), NEW h
    PROVE  /\ (\E t \in ToSet(txs) : TxHash[t] = h) =>
                    LastUnder(txs, h) \in 1 .. Len(txs) /\ TxHash[txs[LastUnder(txs, h)]] = h
           /\ (\A t \in ToSet(txs) : TxHash[t] # h) => LastUnder(txs, h) = 0
  <1> DEFINE I == { i \in 1 .. Len(txs) : TxHash[txs[i]] = h }
  <1>1. LastUnder(txs, h) = IF I # {} THEN Max(I) ELSE 0
    BY DEF LastUnder, SelectLastInSeq
  <1> DEFINE S == AllTransactions
  <1>0. txs \in Seq(S)
    OBVIOUS
  <1> HIDE DEF S
  <1>2. ToSet(txs) = { txs[i] : i \in 1 .. Len(txs) } /\ Len(txs) \in Nat
    BY <1>0, ToSetFacts, LenProperties
  <1>3. I \in SUBSET (1 .. Len(txs))
    OBVIOUS
  <1>4. (\E t \in ToSet(txs) : TxHash[t] = h) <=> I # {}
    BY <1>2
  <1>5. ASSUME I # {}
        PROVE  Max(I) \in I
    <2> HIDE DEF I
    <2> QED
      BY <1>2, <1>3, <1>5, LargestIs
  <1>6. ASSUME I # {}
        PROVE  Max(I) \in 1 .. Len(txs) /\ TxHash[txs[Max(I)]] = h
    BY <1>5, <1>6
  <1>7. (\A t \in ToSet(txs) : TxHash[t] # h) <=> I = {}
    BY <1>4
  <1> HIDE DEF I
  <1> QED
    BY <1>1, <1>4, <1>6, <1>7

\* The transactions of a block.
LEMMA BlockTransactions ==
    ASSUME NEW b \in AllBlocks
    PROVE  b.transactions \in Seq(AllTransactions) /\ ToSet(b.transactions) \subseteq AllTransactions
  <1>1. b.transactions \in Seq(Transactions)
    BY BlockFacts
  <1>2. \A i \in DOMAIN b.transactions : b.transactions[i] \in AllTransactions
    BY TransactionFacts
  <1> DEFINE S == AllTransactions
             Q == Transactions
             txs == b.transactions
  <1>3. txs \in Seq(Q) /\ \A i \in 1 .. Len(txs) : txs[i] \in S
    BY <1>1, <1>2
  <1> HIDE DEF S, Q, txs
  <1>4. txs \in Seq(S)
    BY <1>3
  <1>5. ToSet(txs) \subseteq S
    BY <1>4, ToSetFacts
  <1> QED
    BY <1>4, <1>5 DEF S, txs

\* What the database of coin records holds: of a transaction on the chain, the
\* record of its outputs that were not taken; nothing else.
CoinTexts(texts, taken, on) ==
    /\ texts \in [TxHashes -> Text]
    /\ \A t \in AllTransactions :
        texts[TxHash[t]] = IF t \in on THEN CoinRecordSerialize(RecordOfOutputs(t, LeftOf(t, taken)))
                           ELSE <<>>
    /\ texts[UnknownHash] = <<>>

\* At the start, no coins are stored.
LEMMA NoCoins == CoinTexts(NoTexts, {}, {})
  <1>1. NoTexts \in [TxHashes -> Text] /\ \A h \in TxHashes : NoTexts[h] = <<>>
    BY TextFacts DEF NoTexts
  <1>2. UnknownHash \in TxHashes
    BY DEF TxHashes
  <1>3. \A t \in AllTransactions : TxHash[t] \in TxHashes
    BY HashFacts
  <1> QED
    BY <1>1, <1>2, <1>3 DEF CoinTexts

\* store_transactions_to_main_cache: the records of the block's transactions
\* are whole again.
Untouched(b, taken) == { r \in taken : \A t \in ToSet(b.transactions) : TxHash[t] # r[1] }

\* Storing the coins of a block puts its transactions on the chain, untouched.
LEMMA CoinsExtended ==
    ASSUME NEW texts, NEW taken, NEW on, CoinTexts(texts, taken, on), NEW b \in AllBlocks
    PROVE  CoinTexts(CoinsWith(texts, b.transactions), Untouched(b, taken),
                     on \cup ToSet(b.transactions))
  <1> DEFINE txs == b.transactions
             new == CoinsWith(texts, txs)
             left == Untouched(b, taken)
  <1>1. txs \in Seq(AllTransactions) /\ ToSet(txs) \subseteq AllTransactions
    BY BlockTransactions
  <1>2. DOMAIN new = TxHashes
        /\ \A h \in TxHashes : new[h] = IF LastUnder(txs, h) = 0 THEN texts[h]
                                        ELSE CoinRecordSerialize(RecordOf(txs[LastUnder(txs, h)]))
    BY DEF CoinsWith, LastUnder
  <1>3. new = [h \in TxHashes |-> new[h]]
    BY DEF CoinsWith
  <1> HIDE DEF txs, new
  <1>4. ASSUME NEW t \in AllTransactions, t \in ToSet(txs)
        PROVE  new[TxHash[t]] = CoinRecordSerialize(RecordOfOutputs(t, LeftOf(t, left)))
    <2> DEFINE k == LastUnder(txs, TxHash[t])
    <2>1. k \in 1 .. Len(txs) /\ TxHash[txs[k]] = TxHash[t]
      BY <1>1, <1>4, LastUnderFacts
    <2> HIDE DEF k
    <2>2. txs[k] = t
      BY <1>1, <2>1, HashFacts
    <2>3. k # 0
      BY <2>1
    <2>4. new[TxHash[t]] = CoinRecordSerialize(RecordOf(t))
      BY <1>2, <2>2, <2>3, HashFacts DEF k
    <2>5. \A r \in left : r[1] # TxHash[t]
      BY <1>4 DEF Untouched, txs
    <2> HIDE DEF left
    <2>6. RecordOfOutputs(t, LeftOf(t, left)) = RecordOf(t)
      BY <2>5, NothingTaken
    <2> QED
      BY <2>4, <2>6
  <1>5. ASSUME NEW t \in AllTransactions, t \notin ToSet(txs)
        PROVE  new[TxHash[t]] = texts[TxHash[t]] /\ LeftOf(t, left) = LeftOf(t, taken)
    <2>1. \A u \in ToSet(txs) : TxHash[u] # TxHash[t]
      BY <1>1, <1>5, HashFacts
    <2>2. LastUnder(txs, TxHash[t]) = 0
      BY <1>1, <2>1, LastUnderFacts
    <2>3. new[TxHash[t]] = texts[TxHash[t]]
      BY <1>2, <2>2, HashFacts
    <2>4. \A n : <<TxHash[t], n>> \in left <=> <<TxHash[t], n>> \in taken
      BY <2>1 DEF Untouched, txs
    <2> HIDE DEF left
    <2>5. LeftOf(t, left) = LeftOf(t, taken)
      BY <2>4, TakenElsewhere
    <2> QED
      BY <2>3, <2>5
  <1>6. new[UnknownHash] = texts[UnknownHash]
    <2>1. \A u \in ToSet(txs) : TxHash[u] # UnknownHash
      BY <1>1, HashFacts
    <2>2. LastUnder(txs, UnknownHash) = 0
      BY <1>1, <2>1, LastUnderFacts
    <2> QED
      BY <1>2, <2>2 DEF TxHashes
  <1> HIDE DEF left
  <1>7. \A t \in AllTransactions :
            new[TxHash[t]] = IF t \in on \cup ToSet(txs)
                             THEN CoinRecordSerialize(RecordOfOutputs(t, LeftOf(t, left))) ELSE <<>>
    <2> TAKE t \in AllTransactions
    <2>1. CASE t \in ToSet(txs)
      BY <1>4, <2>1
    <2>2. CASE t \notin ToSet(txs)
      <3>1. texts[TxHash[t]] = IF t \in on THEN CoinRecordSerialize(RecordOfOutputs(t, LeftOf(t, taken)))
                               ELSE <<>>
        BY DEF CoinTexts
      <3>2. new[TxHash[t]] = texts[TxHash[t]] /\ LeftOf(t, left) = LeftOf(t, taken)
        BY <1>5, <2>2
      <3> QED
        BY <2>2, <3>1, <3>2
    <2> QED
      BY <2>1, <2>2
  <1>8. \A h \in TxHashes : new[h] \in Text
    <2> TAKE h \in TxHashes
    <2>1. CASE h = UnknownHash
      BY <1>6, <2>1, TextFacts DEF CoinTexts
    <2>2. CASE h # UnknownHash
      <3>1. PICK t \in AllTransactions : h = TxHash[t]
        BY <2>2, HashFacts
      <3>2. CoinRecordSerialize(RecordOfOutputs(t, LeftOf(t, left))) \in Text
        <4> DEFINE l == LeftOf(t, left)
        <4>1. l \in Seq(OutputNumbers(t)) /\ Len(l) < Word2
          BY LeftFacts
        <4> HIDE DEF l
        <4>2. CoinRecordSerialize(RecordOfOutputs(t, l)) \in Text
          BY <4>1, OutputsRecord
        <4> QED
          BY <4>2 DEF l
      <3> QED
        BY <1>7, <3>1, <3>2, TextFacts
    <2> QED
      BY <2>1, <2>2
  <1>9. new \in [TxHashes -> Text]
    BY <1>2, <1>3, <1>8
  <1>10. new[UnknownHash] = <<>>
    BY <1>6 DEF CoinTexts
  <1>11. CoinTexts(new, left, on \cup ToSet(txs))
    BY <1>7, <1>9, <1>10 DEF CoinTexts
  <1> QED
    BY <1>11 DEF new, left, txs

\* The record of the outputs left is serialized and read as it was.
LEMMA RecordLeft ==
    ASSUME NEW t \in AllTransactions, NEW taken
    PROVE  LET r == RecordOfOutputs(t, LeftOf(t, taken))
           IN  /\ r \in CoinRecords /\ r.version = t.version /\ r.utxo = LeftOf(t, taken)
               /\ CoinRecordSerialize(r) \in Text
               /\ CoinRecordDeserialize(CoinRecordSerialize(r)) = r
               /\ Len(r.utxo) < Word2
  <1> DEFINE l == LeftOf(t, taken)
  <1>1. l \in Seq(OutputNumbers(t)) /\ Len(l) < Word2
    BY LeftFacts
  <1> HIDE DEF l
  <1>2. /\ RecordOfOutputs(t, l) \in CoinRecords
        /\ RecordOfOutputs(t, l).version = t.version
        /\ RecordOfOutputs(t, l).utxo = l
        /\ CoinRecordSerialize(RecordOfOutputs(t, l)) \in Text
        /\ CoinRecordDeserialize(CoinRecordSerialize(RecordOfOutputs(t, l))) = RecordOfOutputs(t, l)
    BY <1>1, OutputsRecord
  <1> QED
    BY <1>1, <1>2 DEF l

\* remove_coin_from_database: the coin is not left any more; a record that is not
\* there stays empty.
LEMMA CoinsRemoved ==
    ASSUME NEW texts, NEW taken, NEW on, CoinTexts(texts, taken, on), NEW h \in TxHashes, NEW i
    PROVE  CoinTexts([texts EXCEPT ![h] =
                         CoinRecordSerialize(Without(CoinRecordDeserialize(texts[h]), i))],
                     taken \cup {<<h, i>>}, on)
  <1> DEFINE text == CoinRecordSerialize(Without(CoinRecordDeserialize(texts[h]), i))
             new == [texts EXCEPT ![h] = text]
             more == taken \cup {<<h, i>>}
  <1>1. texts[h] = <<>> => text = <<>>
    BY NoCoinText, NoCoinWithout
  <1>2. ASSUME NEW t \in AllTransactions, h = TxHash[t], t \in on
        PROVE  text = CoinRecordSerialize(RecordOfOutputs(t, LeftOf(t, more)))
    <2> DEFINE l == LeftOf(t, taken)
    <2>1. texts[h] = CoinRecordSerialize(RecordOfOutputs(t, l))
      BY <1>2 DEF CoinTexts
    <2>2. CoinRecordDeserialize(texts[h]) = RecordOfOutputs(t, l)
      BY <2>1, RecordLeft
    <2>3. l \in Seq(OutputNumbers(t))
      BY LeftFacts
    <2>4. LeftOf(t, more) = Less(l, i)
      BY <1>2, LessLeft
    <2> HIDE DEF l, more
    <2>5. Without(RecordOfOutputs(t, l), i) = RecordOfOutputs(t, Less(l, i))
      BY <2>3, RecordWithout
    <2> QED
      BY <2>2, <2>4, <2>5
  <1> HIDE DEF text
  <1>3. texts \in [TxHashes -> Text] /\ texts[UnknownHash] = <<>>
    BY DEF CoinTexts
  <1>4. new[h] = text /\ \A g \in TxHashes : g # h => new[g] = texts[g]
    BY <1>3
  <1>5. \A t \in AllTransactions :
            new[TxHash[t]] = IF t \in on THEN CoinRecordSerialize(RecordOfOutputs(t, LeftOf(t, more)))
                             ELSE <<>>
    <2> TAKE t \in AllTransactions
    <2>0. /\ TxHash[t] \in TxHashes
          /\ texts[TxHash[t]] = IF t \in on THEN CoinRecordSerialize(RecordOfOutputs(t, LeftOf(t, taken)))
                                ELSE <<>>
      BY HashFacts DEF CoinTexts
    <2>1. CASE h = TxHash[t] /\ t \in on
      BY <1>2, <1>4, <2>1
    <2>2. CASE h = TxHash[t] /\ t \notin on
      BY <1>1, <1>4, <2>0, <2>2
    <2>3. CASE h # TxHash[t]
      <3>1. \A n : <<TxHash[t], n>> \in more <=> <<TxHash[t], n>> \in taken
        BY <2>3
      <3> HIDE DEF more
      <3>2. LeftOf(t, more) = LeftOf(t, taken)
        BY <3>1, TakenElsewhere
      <3> QED
        BY <1>4, <2>0, <2>3, <3>2
    <2> QED
      BY <2>1, <2>2, <2>3
  <1>6. new[UnknownHash] = <<>>
    BY <1>1, <1>3, <1>4 DEF TxHashes
  <1>7. text \in Text
    <2>1. CASE texts[h] = <<>>
      BY <1>1, <2>1, TextFacts
    <2>2. CASE texts[h] # <<>>
      <3>1. PICK t \in AllTransactions : h = TxHash[t]
        BY <1>3, <2>2, HashFacts
      <3>2. t \in on
        BY <2>2, <3>1 DEF CoinTexts
      <3> QED
        BY <1>2, <3>1, <3>2, RecordLeft
    <2> QED
      BY <2>1, <2>2
  <1>8. new \in [TxHashes -> Text]
    BY <1>3, <1>7
  <1> HIDE DEF new, more
  <1>9. CoinTexts(new, more, on)
    BY <1>5, <1>6, <1>8 DEF CoinTexts
  <1> QED
    BY <1>9 DEF new, more, text

\* The records read from such a database, of whatever hash.
LEMMA CoinsTyped ==
    ASSUME NEW texts, NEW taken, NEW on, CoinTexts(texts, taken, on), NEW h
    PROVE  RecordUnder(texts, h) \in CoinRecords
  <1>1. CASE h \notin TxHashes
    <2>1. RecordUnder(texts, h) = NoCoin
      BY <1>1, NoCoinText DEF RecordUnder
    <2> QED
      BY <2>1, NoCoinText
  <1>2. CASE h \in TxHashes /\ texts[h] = <<>>
    <2>1. RecordUnder(texts, h) = NoCoin
      BY <1>2, NoCoinText DEF RecordUnder
    <2> QED
      BY <2>1, NoCoinText
  <1>3. CASE h \in TxHashes /\ texts[h] # <<>>
    <2>1. PICK t \in AllTransactions : h = TxHash[t]
      BY <1>3, HashFacts DEF CoinTexts
    <2>2. texts[h] = CoinRecordSerialize(RecordOfOutputs(t, LeftOf(t, taken)))
      BY <1>3, <2>1 DEF CoinTexts
    <2>3. RecordUnder(texts, h) = CoinRecordDeserialize(texts[h])
      BY <1>3 DEF RecordUnder
    <2> QED
      BY <2>2, <2>3, RecordLeft
  <1> QED
    BY <1>1, <1>2, <1>3

\* The cache holds lists of outputs.
CacheGood(outputs) == outputs \in [TxHashes -> Seq(TransactionOutputs)]

\* An index cut to a byte leads to an output.
LEMMA ByIndexTyped ==
    ASSUME NEW outputs \in Seq(TransactionOutputs)
    PROVE  ByIndex(outputs) \in Seq(TransactionOutputs)
  <1> DEFINE n == Len(outputs)
             kept == IF n < 256 THEN n ELSE 256
             at(i) == i + 256 * ((n - i) \div 256)
  <1>1. n \in Nat /\ kept \in Nat /\ kept <= n
    OBVIOUS
  <1>2. ByIndex(outputs) = [i \in 1 .. kept |-> outputs[at(i)]]
    BY DEF ByIndex, Byte2
  <1>3. ASSUME NEW i \in 1 .. kept
        PROVE  at(i) \in 1 .. n
    <2>1. PICK m \in Nat : m = n - i
      BY <1>1, <1>3
    <2>2. 256 * (m \div 256) \in 0 .. m
      BY <2>1
    <2> QED
      BY <1>1, <1>3, <2>1, <2>2
  <1>4. \A j \in 1 .. n : outputs[j] \in TransactionOutputs
    OBVIOUS
  <1> HIDE DEF n, kept, at
  <1>5. \A i \in 1 .. kept : outputs[at(i)] \in TransactionOutputs
    BY <1>3, <1>4
  <1> QED
    BY <1>1, <1>2, <1>5

\* The cache still holds lists of outputs after a block was stored.
LEMMA CacheExtended ==
    ASSUME NEW outputs, CacheGood(outputs), NEW b \in AllBlocks
    PROVE  CacheGood(CacheWith(outputs, b.transactions))
  <1> DEFINE txs == b.transactions
             new == CacheWith(outputs, txs)
             Lists == Seq(TransactionOutputs)
  <1>1. txs \in Seq(AllTransactions)
    BY BlockTransactions
  <1>2. \A h \in TxHashes : new[h] = IF LastUnder(txs, h) = 0 THEN outputs[h]
                                     ELSE ByIndex(txs[LastUnder(txs, h)].transaction_outputs)
    BY DEF CacheWith, LastUnder
  <1>3. new = [h \in TxHashes |-> new[h]]
    BY DEF CacheWith
  <1>4. \A t \in AllTransactions : ByIndex(t.transaction_outputs) \in Lists
    BY AllTransactionFacts, ByIndexTyped
  <1>5. outputs \in [TxHashes -> Lists]
    BY DEF CacheGood
  <1> HIDE DEF txs, new, Lists
  <1>6. \A h \in TxHashes : new[h] \in Lists
    <2> TAKE h \in TxHashes
    <2>1. CASE LastUnder(txs, h) = 0
      BY <1>2, <1>5, <2>1
    <2>2. CASE LastUnder(txs, h) # 0
      <3>1. LastUnder(txs, h) \in 1 .. Len(txs)
        BY <1>1, <2>2, LastUnderFacts
      <3>2. txs[LastUnder(txs, h)] \in AllTransactions
        BY <1>1, <3>1
      <3> QED
        BY <1>2, <1>4, <2>2, <3>2
    <2> QED
      BY <2>1, <2>2
  <1>7. new \in [TxHashes -> Lists]
    BY <1>3, <1>6
  <1> QED
    BY <1>7 DEF CacheGood, new, txs, Lists

\* At the start, the cache is empty.
LEMMA NoCache == CacheGood(NoTexts)
  BY DEF CacheGood, NoTexts

\* What is found in a record is an output.
LEMMA UtxoAtTyped ==
    ASSUME NEW r \in CoinRecords, NEW i
    PROVE  UtxoIn(r, i) \in TransactionOutputs
  <1>1. /\ r.utxo \in Seq(Value) /\ r.amounts \in Seq(Value) /\ r.public_keys \in Seq(Value)
        /\ Len(r.amounts) = Len(r.utxo) /\ Len(r.public_keys) = Len(r.utxo)
    BY DEF CoinRecords
  <1> DEFINE a == Place(r.utxo, i)
  <1>2. UtxoIn(r, i) = UtxoAt(r, a)
    BY Zenon DEF UtxoIn, Place
  <1>3. a = 0 \/ a \in 1 .. Len(r.utxo)
    BY <1>1, PlaceFacts
  <1> HIDE DEF a
  <1>4. 0 \in Value
    BY ValueFacts
  <1>5. CASE a = 0
    BY <1>2, <1>4, <1>5 DEF UtxoAt, Utxo, TransactionOutputs
  <1>6. CASE a # 0
    <2>1. r.amounts[a] \in Value /\ r.public_keys[a] \in Value
      BY <1>1, <1>3, <1>6
    <2> QED
      BY <1>2, <1>6, <2>1 DEF UtxoAt, Utxo, TransactionOutputs
  <1> QED
    BY <1>5, <1>6

\* What an input matches, in the cache or in the database, is an output.
LEMMA MatchingTyped ==
    ASSUME NEW texts, NEW taken, NEW on, CoinTexts(texts, taken, on),
           NEW outputs, CacheGood(outputs), NEW input \in TransactionInputs
    PROVE  MatchingUtxo(texts, outputs, input) \in TransactionOutputs
  <1>1. CASE Cached(outputs, input)
    <2> DEFINE l == outputs[input.reference_transaction_hash]
    <2>1. l \in Seq(TransactionOutputs) /\ input.utxo_index < Len(l)
      BY <1>1 DEF CacheGood, Cached
    <2>2. input.utxo_index \in Nat
      BY UInt8Facts DEF TransactionInputs
    <2> HIDE DEF l
    <2>3. input.utxo_index + 1 \in 1 .. Len(l)
      BY <2>1, <2>2
    <2>4. l[input.utxo_index + 1] \in TransactionOutputs
      BY <2>1, <2>3
    <2> QED
      BY <1>1, <2>4 DEF MatchingUtxo, l
  <1>2. CASE ~Cached(outputs, input)
    <2> DEFINE r == RecordUnder(texts, input.reference_transaction_hash)
    <2>1. r \in CoinRecords
      BY CoinsTyped
    <2> HIDE DEF r
    <2>2. UtxoIn(r, input.utxo_index) \in TransactionOutputs
      BY <2>1, UtxoAtTyped
    <2> QED
      BY <1>2, <2>2 DEF MatchingUtxo, r
  <1> QED
    BY <1>1, <1>2

\* The undo record of a transaction has an entry for each of its inputs.
LEMMA UndoRecordTyped ==
    ASSUME NEW texts, NEW taken, NEW on, CoinTexts(texts, taken, on),
           NEW outputs, CacheGood(outputs), NEW t \in AllTransactions
    PROVE  LET r == UndoRecordOf(texts, outputs, t)
           IN  /\ r \in CoinRecords /\ r.version \in UInt8
               /\ Len(r.utxo) = Len(t.transaction_inputs)
  <1> DEFINE inputs == t.transaction_inputs
             utxos == [a \in DOMAIN inputs |-> MatchingUtxo(texts, outputs, inputs[a])]
             us == [a \in DOMAIN inputs |-> inputs[a].utxo_index]
             as == [a \in DOMAIN inputs |-> utxos[a].amount]
             ks == [a \in DOMAIN inputs |-> utxos[a].public_key]
  <1>1. inputs \in Seq(TransactionInputs) /\ t.version \in UInt8 /\ t.version \in Value
    BY AllTransactionFacts, UInt8Facts DEF Transactions
  <1>2. UndoRecordOf(texts, outputs, t) = CoinRecord(t.version, us, as, ks)
    BY Zenon DEF UndoRecordOf, UndoRecord
  <1> HIDE DEF inputs
  <1>3. \A a \in DOMAIN inputs : inputs[a] \in TransactionInputs
    BY <1>1
  <1>4. \A a \in DOMAIN inputs : utxos[a] \in TransactionOutputs
    BY <1>3, MatchingTyped
  <1> HIDE DEF utxos
  <1>5. \A a \in DOMAIN inputs : /\ inputs[a].utxo_index \in Value
                                 /\ utxos[a].amount \in Value /\ utxos[a].public_key \in Value
    BY <1>3, <1>4, UInt8Facts DEF TransactionInputs, TransactionOutputs
  <1>6. DOMAIN inputs = 1 .. Len(inputs) /\ Len(inputs) \in Nat
    BY <1>1
  <1>7. us \in Seq(Value) /\ Len(us) = Len(inputs)
    BY <1>5, <1>6
  <1>8. as \in Seq(Value) /\ Len(as) = Len(inputs)
    BY <1>5, <1>6
  <1>9. ks \in Seq(Value) /\ Len(ks) = Len(inputs)
    BY <1>5, <1>6
  <1> HIDE DEF us, as, ks
  <1> DEFINE r == CoinRecord(t.version, us, as, ks)
  <1>10. r.version = t.version /\ r.utxo = us /\ r.amounts = as /\ r.public_keys = ks
    BY DEF CoinRecord
  <1>11. r \in [version : Value, utxo : Seq(Value), amounts : Seq(Value), public_keys : Seq(Value)]
    BY <1>1, <1>7, <1>8, <1>9 DEF CoinRecord
  <1> HIDE DEF r
  <1>12. r \in CoinRecords
    BY <1>7, <1>8, <1>9, <1>10, <1>11 DEF CoinRecords
  <1> QED
    BY <1>1, <1>2, <1>7, <1>10, <1>12 DEF inputs, r

\* An undo block that make_undo_block can give.
UndoGood(u) ==
    /\ u \in UndoBlocks /\ UncutUndo(u)
    /\ 0 \notin ToSet(u.transaction_hashes)

\* The undo block of a block has a record for each of its transactions.
LEMMA UndoTyped ==
    ASSUME NEW texts, NEW taken, NEW on, CoinTexts(texts, taken, on),
           NEW outputs, CacheGood(outputs), NEW b \in AllBlocks
    PROVE  LET u == UndoBlockOf(texts, outputs, b)
           IN  /\ UndoGood(u) /\ Len(u.transaction_hashes) = Len(b.transactions)
               /\ \A k \in DOMAIN b.transactions :
                    Len(u.undo_coin_records[k].utxo) = Len(b.transactions[k].transaction_inputs)
  <1> DEFINE txs == b.transactions
             hs == [k \in DOMAIN txs |-> TxHash[txs[k]]]
             rs == [k \in DOMAIN txs |-> UndoRecordOf(texts, outputs, txs[k])]
             u == UndoBlockOf(texts, outputs, b)
  <1>1. u = [transaction_hashes |-> hs, undo_coin_records |-> rs]
    BY Zenon DEF UndoBlockOf
  <1>2. txs \in Seq(AllTransactions)
    BY BlockTransactions
  <1> HIDE DEF u, txs
  <1>3. DOMAIN txs = 1 .. Len(txs) /\ Len(txs) \in Nat /\ \A k \in DOMAIN txs : txs[k] \in AllTransactions
    BY <1>2
  <1>4. \A k \in DOMAIN txs : hs[k] \in Value /\ hs[k] # 0
    BY <1>3, HashFacts
  <1>5. \A k \in DOMAIN txs : /\ rs[k] \in CoinRecords /\ rs[k].version \in UInt8
                              /\ Len(rs[k].utxo) = Len(txs[k].transaction_inputs)
    BY <1>3, UndoRecordTyped
  <1>6. DOMAIN hs = DOMAIN txs /\ DOMAIN rs = DOMAIN txs
    OBVIOUS
  <1>7. hs = [k \in DOMAIN txs |-> hs[k]] /\ rs = [k \in DOMAIN txs |-> rs[k]]
    OBVIOUS
  <1> HIDE DEF hs, rs
  <1>8. hs \in Seq(Value) /\ Len(hs) = Len(txs)
    BY <1>3, <1>4, <1>7
  <1> DEFINE CR == CoinRecords
  <1>9. \A k \in DOMAIN txs : rs[k] \in CR
    BY <1>5
  <1> HIDE DEF CR
  <1>10. rs \in Seq(CR) /\ Len(rs) = Len(txs)
    BY <1>3, <1>9, <1>7
  <1>11. u \in UndoBlocks
    BY <1>1, <1>8, <1>10 DEF CR, UndoBlocks
  <1>12. 0 \notin ToSet(hs)
    BY <1>4, <1>6, <1>8, <1>3, ToSetFacts
  <1>13. \A r \in ToSet(rs) : r.version \in UInt8
    <2>1. ToSet(rs) = { rs[k] : k \in 1 .. Len(rs) }
      BY <1>10, ToSetFacts
    <2> QED
      BY <1>3, <1>5, <1>10, <2>1
  <1>14. u.transaction_hashes = hs /\ u.undo_coin_records = rs
    BY <1>1
  <1>15. UndoGood(u)
    BY <1>11, <1>12, <1>13, <1>14 DEF UndoGood, UncutUndo
  <1> QED
    BY <1>5, <1>8, <1>14, <1>15 DEF u, txs

\* Being legible, as the properties state it, and holding no zero byte.
LEMMA LegibleUndoIs ==
    ASSUME NEW u, UndoGood(u)
    PROVE  ZeroUndo(u) <=> ~LegibleUndoBlock(u)
  <1>1. 0 \notin ToSet(u.transaction_hashes)
    BY DEF UndoGood
  <1>2. \A r : LegibleUndoRecord(r) <=> ~EmptyCoin(r) /\ ~ZeroCoin(r)
    BY DEF LegibleUndoRecord, EmptyCoin, ZeroCoin
  <1> QED
    BY <1>1, <1>2 DEF ZeroUndo, LegibleUndoBlock

\* A block that is not legible has a zero in its text, and the other way
\* round.
LEMMA LegibleBlockIs ==
    ASSUME NEW b \in AllBlocks
    PROVE  ZeroBlock(b) <=> ~LegibleBlock(b)
  <1>1. b.block_header \in BlockHeaders /\ b.transactions \in Seq(Transactions)
    BY BlockFacts
  <1>2. \A h \in BlockHeaders : ZeroHeader(h) <=> ~\E f \in DOMAIN h : h[f] # 0
    BY DEF ZeroHeader, BlockHeaders
  <1>3. \A input \in TransactionInputs : ZeroInput(input) <=> ~\E f \in DOMAIN input : input[f] # 0
    BY DEF ZeroInput, TransactionInputs
  <1>4. \A output \in TransactionOutputs : ZeroOutput(output) <=> ~\E f \in DOMAIN output : output[f] # 0
    BY DEF ZeroOutput, TransactionOutputs
  <1>5. ASSUME NEW t \in Transactions
        PROVE  ZeroTransaction(t) <=> ~LegibleTransaction(t)
    <2> DEFINE TI == TransactionInputs
               TO == TransactionOutputs
    <2>1. t.transaction_inputs \in Seq(TI) /\ t.transaction_outputs \in Seq(TO)
      BY DEF Transactions
    <2> HIDE DEF TI, TO
    <2>2. ToSet(t.transaction_inputs) \subseteq TI
      BY <2>1, ToSetFacts
    <2>3. ToSet(t.transaction_outputs) \subseteq TO
      BY <2>1, ToSetFacts
    <2>4. (\E input \in ToSet(t.transaction_inputs) : ZeroInput(input))
            <=> ~\A input \in ToSet(t.transaction_inputs) : \E f \in DOMAIN input : input[f] # 0
      BY <1>3, <2>2, Zenon DEF TI
    <2>5. (\E output \in ToSet(t.transaction_outputs) : ZeroOutput(output))
            <=> ~\A output \in ToSet(t.transaction_outputs) : \E f \in DOMAIN output : output[f] # 0
      BY <1>4, <2>3, Zenon DEF TO
    <2>6. EmptyTransaction(t) <=> ~(t.version # 0 \/ t.lock_time # 0 \/ t.transaction_inputs # <<>>
                                    \/ t.transaction_outputs # <<>>)
      BY DEF EmptyTransaction
    <2>7. ZeroBeneath(t) <=> \/ \E input \in ToSet(t.transaction_inputs) : ZeroInput(input)
                             \/ \E output \in ToSet(t.transaction_outputs) : ZeroOutput(output)
      BY DEF ZeroBeneath
    <2> QED
      BY <2>4, <2>5, <2>6, <2>7, Zenon DEF ZeroTransaction, LegibleTransaction
  <1>6. ToSet(b.transactions) \subseteq Transactions
    <2> DEFINE T == Transactions
    <2>1. b.transactions \in Seq(T)
      BY <1>1
    <2> HIDE DEF T
    <2>2. ToSet(b.transactions) \subseteq T
      BY <2>1, ToSetFacts
    <2> QED
      BY <2>2 DEF T
  <1>7. (\E t \in ToSet(b.transactions) : ZeroTransaction(t))
          <=> ~\A t \in ToSet(b.transactions) : LegibleTransaction(t)
    BY <1>5, <1>6, Zenon
  <1>8. ZeroHeader(b.block_header) <=> ~\E f \in DOMAIN b.block_header : b.block_header[f] # 0
    BY <1>1, <1>2, Zenon
  <1> QED
    BY <1>7, <1>8, Zenon DEF ZeroBlock, LegibleBlock

\* What is known of the text of an undo block that fits a file.
UndoShort(u) == Len(UndoBlockSerialize(u)) + 1 < Word2

\* The text of an undo block that fits a file: read as it was, and with a 0
\* where it is not legible.
LEMMA UndoFacts ==
    ASSUME NEW u, UndoGood(u), UndoShort(u)
    PROVE  LET text == UndoBlockSerialize(u)
           IN  /\ text \in Text /\ Len(text) \in Nat
               /\ UndoBlockDeserialize(text) = u
               /\ 0 \in ToSet(text) <=> ~LegibleUndoBlock(u)
               /\ u \in ShortUndos /\ text = UndoText(u)
               /\ u.transaction_hashes \in Seq(Value) /\ 0 \notin ToSet(u.transaction_hashes)
  <1> DEFINE text == UndoBlockSerialize(u)
  <1>1. u \in UndoBlocks /\ UncutUndo(u) /\ 0 \notin ToSet(u.transaction_hashes)
    BY DEF UndoGood
  <1>2. UndoSize(u) \in Nat
    BY <1>1, UndoSizes
  <1>3. Len(text) = UndoSize(u)
    BY <1>2, SerializedLength DEF UndoBlockSerialize, PUndoBlockSerialize, UndoSize
  <1>4. Len(text) \in Nat /\ Len(text) < Word2
    BY <1>2, <1>3, WordFacts DEF UndoShort
  <1>5. Len(text) \in Value
    BY <1>4, WordFacts
  <1>6. u.transaction_hashes \in Seq(Value)
    BY <1>1, UndoMembers
  <1>7. UndoBlockDeserialize(text) = u
    BY <1>1, <1>5, UndoBlockRoundTrip
  <1>8. text \in Text /\ text = UndoText(u) /\ u \in ShortUndos /\ (0 \in ToSet(text) <=> ZeroUndo(u))
    BY <1>1, <1>5, UndoTextFacts
  <1> QED
    BY <1>1, <1>4, <1>6, <1>7, <1>8, LegibleUndoIs

\* The undo block of the genesis block, of one input, is short.
LEMMA GenesisUndoFacts == UndoGood(GenesisUndo) /\ UndoShort(GenesisUndo)
  <1> DEFINE u == GenesisUndo
             hs == u.transaction_hashes
             rs == u.undo_coin_records
  <1>1. Genesis \in AllBlocks
    BY HashFacts
  <1>2. CoinTexts(NoTexts, {}, {}) /\ CacheGood(NoTexts)
    BY NoCoins, NoCache
  <1>3. Len(Genesis.transactions) = 1 /\ Len(Genesis.transactions[1].transaction_inputs) = 1
        /\ 1 \in DOMAIN Genesis.transactions
    BY DEF Genesis
  <1>4. /\ UndoGood(u) /\ Len(hs) = Len(Genesis.transactions)
        /\ \A k \in DOMAIN Genesis.transactions :
              Len(rs[k].utxo) = Len(Genesis.transactions[k].transaction_inputs)
    BY <1>1, <1>2, UndoTyped DEF GenesisUndo
  <1>5. UndoGood(u) /\ Len(hs) = 1 /\ Len(rs[1].utxo) = 1
    BY <1>3, <1>4
  <1> HIDE DEF u
  <1>6. u \in UndoBlocks
    BY <1>5 DEF UndoGood
  <1>7. hs \in Seq(Value) /\ rs \in Seq(CoinRecords)
        /\ DOMAIN rs = DOMAIN hs
        /\ UndoSize(u) = PackedFieldSize(hs) + SumOf([i \in DOMAIN rs |-> RunSize(CoinSize(rs[i]))])
    BY <1>6, UndoMembers
  <1> HIDE DEF hs, rs
  <1>8. PackedFieldSize(hs) \in Nat /\ PackedFieldSize(hs) <= 11
    <2>1. hs \in Seq(Value) /\ Len(hs) < Word2
      BY <1>5, <1>7, WordFacts
    <2>2. PackedFieldSize(hs) \in Nat /\ PackedFieldSize(hs) <= 6 + 5 * Len(hs)
      BY <2>1, PackedFieldSizeAtMost
    <2>3. 6 + 5 * Len(hs) = 11
      BY <1>5
    <2> QED
      BY <2>2, <2>3
  <1>9. DOMAIN hs = {1}
    BY <1>5, <1>7
  <1>10. DOMAIN rs = 1 .. 1 /\ rs[1] \in CoinRecords
    BY <1>7, <1>9, SMTT(40)
  <1>11. CoinSize(rs[1]) \in Value /\ CoinSize(rs[1]) <= 39
    <2> DEFINE r == rs[1]
    <2>1. r \in CoinRecords /\ Len(r.utxo) = 1
      BY <1>5, <1>10 DEF rs
    <2> HIDE DEF r
    <2>2. Len(r.utxo) < Word2
      BY <2>1, WordFacts
    <2>3. CoinSize(r) \in Value /\ CoinSize(r) <= 24 + 15 * Len(r.utxo)
      BY <2>1, <2>2, CoinSizeAtMost
    <2>4. 24 + 15 * Len(r.utxo) = 39
      BY <2>1
    <2> QED
      BY <2>3, <2>4 DEF r
  <1> DEFINE m == RunSize(CoinSize(rs[1]))
             ms == [i \in DOMAIN rs |-> RunSize(CoinSize(rs[i]))]
  <1>12. m \in Nat /\ m <= 45
    BY <1>11, RunSizeAtMost, ValueNat
  <1>13. ms = <<m>>
    BY <1>10
  <1> HIDE DEF m, ms
  <1>14. SumOf(ms) = m
    BY <1>12, <1>13, SumOfOne
  <1>15. UndoSize(u) \in Nat /\ UndoSize(u) <= 56
    BY <1>7, <1>8, <1>12, <1>14 DEF ms
  <1>16. Len(UndoBlockSerialize(u)) = UndoSize(u)
    BY <1>15, SerializedLength DEF UndoBlockSerialize, PUndoBlockSerialize, UndoSize
  <1> QED
    BY <1>5, <1>15, <1>16, WordFacts DEF UndoShort, u

----------------------------------------------------------------------------
(* Streams of files. *)

\* The offset is where the file ends, and the files to come are empty.
StreamGood(s) ==
    /\ s \in Writer!Stream
    /\ s.offset = Len(s.files[s.number])
    /\ \A k \in Writer!FileNumber : k > s.number => s.files[k] = <<>>

\* A text as a file holds it: all of its bytes before the first 0, with room
\* for the rest and the NUL behind it.
Placed(s, k, start, text) ==
    /\ k \in Writer!FileNumber /\ start \in Nat
    /\ start + Len(text) < Len(s.files[k])
    /\ \A i \in 1 .. Len(text) : i < StringEnd(text) => s.files[k][start + i] = text[i]
Where(s, stream, name, start, end, text) ==
    \E k \in Writer!FileNumber :
        /\ name = FileName(stream, k)
        /\ Placed(s, k, start, text)
        /\ end = start + Len(text)

\* Where a text ends for a reader that stops at a 0.
LEMMA StringEndFacts ==
    ASSUME NEW text \in Text
    PROVE  /\ StringEnd(text) \in 1 .. Len(text) + 1
           /\ \A i \in 1 .. StringEnd(text) - 1 : text[i] # 0
           /\ StringEnd(text) <= Len(text) => text[StringEnd(text)] = 0
           /\ 0 \notin ToSet(text) => StringEnd(text) = Len(text) + 1
  <1> DEFINE p == Place(text, 0)
  <1>1. StringEnd(text) = IF p = 0 THEN Len(text) + 1 ELSE p
    BY Zenon DEF StringEnd, Place
  <1>2. text \in Seq(Byte) /\ Len(text) \in Nat
    BY TextFacts DEF Text
  <1>3. /\ 0 \in ToSet(text) => /\ p \in 1 .. Len(text) /\ text[p] = 0
                                /\ \A k \in 1 .. p - 1 : text[k] # 0
        /\ 0 \notin ToSet(text) => p = 0
    BY <1>2, PlaceFacts
  <1> HIDE DEF p
  <1>4. \A k \in 1 .. Len(text) : 0 \notin ToSet(text) => text[k] # 0
    BY <1>2, ToSetFacts
  <1>5. CASE 0 \in ToSet(text)
    <2>1. p # 0 /\ p \in 1 .. Len(text) + 1
      BY <1>2, <1>3, <1>5
    <2> QED
      BY <1>1, <1>3, <1>5, <2>1
  <1>6. CASE 0 \notin ToSet(text)
    <2>1. StringEnd(text) = Len(text) + 1
      BY <1>1, <1>3, <1>6
    <2>2. (Len(text) + 1) - 1 = Len(text) /\ ~(Len(text) + 1 <= Len(text))
          /\ Len(text) + 1 \in 1 .. Len(text) + 1
      BY <1>2
    <2> QED
      BY <1>4, <1>6, <2>1, <2>2
  <1> QED
    BY <1>5, <1>6

\* What a buffer filled by strcpy holds of a text.
LEMMA BufferFacts ==
    ASSUME NEW text \in Text, NEW buffer \in Buffers(text)
    PROVE  /\ buffer \in Text /\ Len(buffer) = Len(text) + 1
           /\ \A i \in 1 .. Len(text) : i < StringEnd(text) => buffer[i] = text[i]
  <1> DEFINE e == StringEnd(text)
             n == Len(text)
  <1>1. PICK residue \in Residues :
            buffer = [i \in 1 .. n + 1 |->
                        CASE i < e -> text[i]
                          [] i = e -> 0
                          [] i > e -> residue[((i - e - 1) % Len(residue)) + 1]]
    BY DEF Buffers
  <1>2. residue \in Text /\ residue # <<>>
    BY ResidueAssumption
  <1>3. Len(residue) \in Nat /\ Len(residue) > 0
    BY <1>2, TextFacts
  <1>4. e \in 1 .. n + 1 /\ n \in Nat
    BY StringEndFacts, TextFacts
  <1> HIDE DEF e, n
  <1>5. e \in Nat /\ e <= n + 1
    BY <1>4
  <1>6. 0 \in Byte
    BY ByteFacts
  <1>7. ASSUME NEW i \in 1 .. n + 1
        PROVE  /\ buffer[i] \in Byte
               /\ i < e => buffer[i] = text[i]
    <2>1. CASE i < e
      <3>1. i \in 1 .. Len(text)
        BY <1>4, <1>5, <2>1 DEF n
      <3>2. text[i] \in Byte
        BY <3>1 DEF Text
      <3>0. i # e /\ ~(i > e)
        BY <1>5, <2>1
      <3>3. buffer[i] = text[i]
        BY <1>1, <2>1, <3>0
      <3> QED
        BY <3>2, <3>3
    <2>2. CASE i = e
      <3>1. ~(i < e)
        BY <1>5, <2>2
      <3>2. buffer[i] = 0
        BY <1>1, <2>2, <3>1
      <3> QED
        BY <1>6, <3>1, <3>2
    <2>3. CASE i > e
      <3>1. ~(i < e) /\ i # e
        BY <1>4, <2>3
      <3> DEFINE j == ((i - e - 1) % Len(residue)) + 1
      <3>2. buffer[i] = residue[j]
        BY <1>1, <2>3, <3>1
      <3>3. j \in 1 .. Len(residue)
        BY <1>3, <1>4, <1>5, <2>3
      <3> HIDE DEF j
      <3>4. residue[j] \in Byte
        BY <1>2, <3>3 DEF Text
      <3> QED
        BY <3>1, <3>2, <3>4
    <2> QED
      BY <1>5, <2>1, <2>2, <2>3
  <1>8. buffer \in Text /\ Len(buffer) = n + 1
    <2>1. buffer \in [1 .. n + 1 -> Byte]
      BY <1>1, <1>7
    <2> QED
      BY <1>4, <2>1 DEF Text
  <1>9. \A i \in 1 .. n : i < e => buffer[i] = text[i]
    BY <1>4, <1>7
  <1> QED
    BY <1>8, <1>9 DEF n, e

\* The members of a stream.
LEMMA StreamFacts ==
    ASSUME NEW s, StreamGood(s)
    PROVE  /\ s = [files |-> s.files, number |-> s.number, offset |-> s.offset]
           /\ s.files \in [Writer!FileNumber -> Text]
           /\ s.number \in Writer!FileNumber /\ s.offset \in UInt16
           /\ s.offset = Len(s.files[s.number])
           /\ \A k \in Writer!FileNumber : Len(s.files[k]) \in Nat
           /\ \A k \in Writer!FileNumber : k > s.number => Len(s.files[k]) = 0
  <1>1. s \in [files : [Writer!FileNumber -> Text], number : Writer!FileNumber, offset : UInt16]
    BY Zenon DEF StreamGood, Writer!Stream, Writer!Offset, UInt16, Text
  <1>2. /\ s.offset = Len(s.files[s.number])
        /\ \A k \in Writer!FileNumber : k > s.number => s.files[k] = <<>>
    BY DEF StreamGood
  <1> DEFINE F == Writer!FileNumber
             O == UInt16
             T == Text
  <1>3. s \in [files : [F -> T], number : F, offset : O]
    BY <1>1
  <1> HIDE DEF F, O, T
  <1>4. /\ s = [files |-> s.files, number |-> s.number, offset |-> s.offset]
        /\ s.files \in [F -> T] /\ s.number \in F /\ s.offset \in O
    BY <1>3
  <1>5. \A k \in F : s.files[k] \in T
    BY <1>4
  <1>6. \A k \in F : Len(s.files[k]) \in Nat
    BY <1>5, TextFacts DEF T
  <1>7. \A k \in F : k > s.number => Len(s.files[k]) = 0
    BY <1>2, TextFacts DEF F
  <1> QED
    BY <1>2, <1>4, <1>6, <1>7 DEF F, O, T

\* The file numbers.
LEMMA FileNumberFacts ==
    /\ Writer!FileNumber = 0 .. MaxFileNumber
    /\ MaxFileNumber \in Nat /\ MaxFileNumber >= 1 /\ MaxFileNumber <= 207
    /\ MaxFileSize \in Nat /\ MaxFileSize + 1 < Word2
  BY SizeAssumption, WordFacts DEF Writer!FileNumber

\* A number below 2^16 is a uint16_t.
LEMMA UInt16Is == \A v \in Nat : v < Word2 => v \in UInt16
  <1>1. \A v, w \in Nat : v < w => v \in 0 .. w - 1
    OBVIOUS
  <1>2. Word2 \in Nat
    BY WordFacts
  <1> QED
    BY <1>1, <1>2, Zenon DEF UInt16

\* Where a text that fits goes: to the end of a file.
LEMMA NewPlace ==
    ASSUME NEW s, StreamGood(s), NEW text \in Text, Len(text) + 1 < Word2,
           Writer!WriteNumber(s, text) <= MaxFileNumber
    PROVE  LET n == Writer!WriteNumber(s, text)
               start == Writer!WriteStart(s, text)
           IN  /\ n \in Writer!FileNumber /\ start \in UInt16
               /\ start = Len(s.files[n])
               /\ start + Len(text) \in UInt16
               /\ start + Len(text) + 1 \in UInt16
               /\ Writer!NewOffset(s, text) = start + Len(text) + 1
               /\ \A k \in Writer!FileNumber : k > n => k > s.number
  <1> DEFINE n == Writer!WriteNumber(s, text)
             start == Writer!WriteStart(s, text)
             m == Len(text)
             o == s.offset
  <1>1. /\ s.number \in Nat /\ s.number <= MaxFileNumber
        /\ o \in Nat /\ o < Word2 /\ o = Len(s.files[s.number])
        /\ \A k \in Writer!FileNumber : k > s.number => Len(s.files[k]) = 0
    BY StreamFacts, FileNumberFacts, UInt16Facts
  <1>2. m \in Nat /\ m + 1 < Word2
    BY TextFacts
  <1>3. n = IF o + m > MaxFileSize THEN s.number + 1 ELSE s.number
    BY DEF Writer!WriteNumber, Writer!RollsOver
  <1>4. start = IF o + m > MaxFileSize THEN 0 ELSE o
    BY DEF Writer!WriteStart, Writer!RollsOver
  <1>5. Writer!NewOffset(s, text) = (start + m + 1) % Word2
    BY Zenon DEF Writer!NewOffset
  <1>6. n <= MaxFileNumber
    OBVIOUS
  <1> HIDE DEF n, start, m, o
  <1>7. start \in Nat /\ start + m + 1 < Word2
    BY <1>1, <1>2, <1>4, FileNumberFacts, WordFacts
  <1>8. n \in Writer!FileNumber /\ n >= s.number
    BY <1>1, <1>3, <1>6, FileNumberFacts
  <1>9. start = Len(s.files[n])
    <2>1. CASE o + m > MaxFileSize
      <3>1. n > s.number /\ start = 0
        BY <1>1, <1>3, <1>4, <2>1
      <3> QED
        BY <1>1, <1>8, <3>1
    <2>2. CASE ~(o + m > MaxFileSize)
      BY <1>1, <1>3, <1>4, <2>2
    <2> QED
      BY <2>1, <2>2
  <1>10. start \in UInt16 /\ start + m \in UInt16 /\ start + m + 1 \in UInt16
    <2>1. \A v \in Nat : v < Word2 => v \in UInt16
      BY UInt16Is
    <2>2. /\ start \in Nat /\ start + m \in Nat /\ start + m + 1 \in Nat
          /\ start < Word2 /\ start + m < Word2 /\ start + m + 1 < Word2
      BY <1>2, <1>7, WordFacts
    <2> QED
      BY <2>1, <2>2
  <1>11. (start + m + 1) % Word2 = start + m + 1
    BY <1>10, UInt16Facts
  <1>12. \A k \in Writer!FileNumber : k > n => k > s.number
    BY <1>1, <1>8, FileNumberFacts
  <1> QED
    BY <1>5, <1>8, <1>9, <1>10, <1>11, <1>12 DEF n, start, m

\* A stream grows at the end of one file.
Grew(s, t) ==
    \A k \in Writer!FileNumber :
        /\ Len(s.files[k]) <= Len(t.files[k])
        /\ \A i \in 1 .. Len(s.files[k]) : t.files[k][i] = s.files[k][i]

\* A write places its text where the file information says, and keeps the
\* stream good.
LEMMA Wrote ==
    ASSUME NEW s, StreamGood(s), NEW text \in Text, Len(text) + 1 < Word2,
           Writer!WriteNumber(s, text) <= MaxFileNumber, NEW t, t \in Written(s, text)
    PROVE  /\ StreamGood(t) /\ Grew(s, t)
           /\ Placed(t, Writer!WriteNumber(s, text), Writer!WriteStart(s, text), text)
  <1> DEFINE n == Writer!WriteNumber(s, text)
             start == Writer!WriteStart(s, text)
             m == Len(text)
             file == s.files[n]
             F == Writer!FileNumber
  <1>1. /\ n \in F /\ start \in UInt16 /\ start = Len(file)
        /\ start + m + 1 \in UInt16 /\ Writer!NewOffset(s, text) = start + m + 1
        /\ \A k \in F : k > n => k > s.number
    BY NewPlace
  <1>2. PICK buffer \in Buffers(text) :
            t = [files |-> [s.files EXCEPT ![n] = @ \o buffer], number |-> n,
                 offset |-> Writer!NewOffset(s, text)]
    BY DEF Written
  <1>3. /\ buffer \in Text /\ Len(buffer) = m + 1
        /\ \A i \in 1 .. m : i < StringEnd(text) => buffer[i] = text[i]
    BY BufferFacts
  <1>4. s.files \in [F -> Text] /\ \A k \in F : k > s.number => s.files[k] = <<>>
    BY StreamFacts DEF StreamGood
  <1>5. m \in Nat
    BY TextFacts
  <1> HIDE DEF n, start, m, F
  <1>6. t.files = [s.files EXCEPT ![n] = @ \o buffer] /\ t.number = n /\ t.offset = start + m + 1
    BY <1>1, <1>2
  <1>7. t.files[n] = file \o buffer /\ \A k \in F : k # n => t.files[k] = s.files[k]
    BY <1>1, <1>4, <1>6
  <1>8. file \in Text
    BY <1>1, <1>4
  <1> HIDE DEF file
  <1>9. /\ file \o buffer \in Text /\ Len(file \o buffer) = Len(file) + Len(buffer)
        /\ \A i \in 1 .. Len(file) : (file \o buffer)[i] = file[i]
        /\ \A i \in 1 .. Len(buffer) : (file \o buffer)[Len(file) + i] = buffer[i]
    <2>1. file \in Seq(Byte) /\ buffer \in Seq(Byte)
      BY <1>3, <1>8 DEF Text
    <2> QED
      BY ONLY <2>1 DEF Text
  <1>10. start \in Nat
    BY <1>1, UInt16Facts
  <1>11. StreamGood(t)
    <2>1. t.files \in [F -> Text]
      <3> DEFINE w == file \o buffer
      <3>1. t.files = [s.files EXCEPT ![n] = w]
        BY <1>6 DEF file
      <3>2. w \in Text
        BY <1>9
      <3> HIDE DEF w
      <3> QED
        BY <1>1, <1>4, <3>1, <3>2
    <2>2. t = [files |-> t.files, number |-> t.number, offset |-> t.offset]
      BY <1>2
    <2>3. t.offset \in UInt16
      BY <1>1, <1>6
    <2>4. t \in Writer!Stream
      BY <1>1, <1>6, <2>1, <2>2, <2>3, Zenon DEF Writer!Stream, Writer!Offset, UInt16, Text, F
    <2>5. t.offset = Len(t.files[t.number])
      <3>1. Len(file \o buffer) = start + (m + 1)
        BY <1>1, <1>3, <1>9
      <3>2. t.files[t.number] = file \o buffer
        BY <1>6, <1>7
      <3>3. start + (m + 1) = t.offset
        BY <1>5, <1>6, <1>10
      <3> QED
        BY <3>1, <3>2, <3>3
    <2>6. \A k \in F : k > t.number => t.files[k] = <<>>
      <3> TAKE k \in F
      <3> HAVE k > t.number
      <3>1. k > n /\ n \in Nat
        BY <1>1, <1>6, FileNumberFacts DEF F
      <3>2. k # n
        BY <3>1
      <3> QED
        BY <1>1, <1>4, <1>7, <3>1, <3>2
    <2> QED
      BY <2>4, <2>5, <2>6 DEF StreamGood, F
  <1>12. Grew(s, t)
    <2>1. Len(file) <= Len(file \o buffer)
      BY <1>1, <1>3, <1>5, <1>9, <1>10
    <2>2. \A k \in F : Len(s.files[k]) \in Nat
      BY <1>4, TextFacts
    <2>3. ASSUME NEW k \in F
          PROVE  /\ Len(s.files[k]) <= Len(t.files[k])
                 /\ \A i \in 1 .. Len(s.files[k]) : t.files[k][i] = s.files[k][i]
      <3>1. CASE k = n
        BY <1>7, <1>9, <2>1, <3>1 DEF file
      <3>2. CASE k # n
        BY <1>7, <2>2, <3>2
      <3> QED
        BY <3>1, <3>2
    <2> QED
      BY <2>3 DEF Grew, F
  <1>13. Placed(t, n, start, text)
    <2>1. start + m < Len(t.files[n])
      BY <1>1, <1>3, <1>5, <1>7, <1>9, <1>10
    <2>2. \A i \in 1 .. m : i < StringEnd(text) => t.files[n][start + i] = text[i]
      <3> TAKE i \in 1 .. m
      <3> HAVE i < StringEnd(text)
      <3>1. i \in 1 .. Len(buffer)
        BY <1>3, <1>5
      <3> QED
        BY <1>1, <1>3, <1>7, <1>9, <3>1
    <2> QED
      BY <1>1, <1>10, <2>1, <2>2 DEF Placed, F, m
  <1> QED
    BY <1>11, <1>12, <1>13 DEF n, start

\* What was placed stays placed.
LEMMA WhereKept ==
    ASSUME NEW s, StreamGood(s), NEW t, StreamGood(t), Grew(s, t), NEW stream, NEW name, NEW start,
           NEW end, NEW text \in Text, Where(s, stream, name, start, end, text)
    PROVE  Where(t, stream, name, start, end, text)
  <1>1. PICK k \in Writer!FileNumber :
            name = FileName(stream, k) /\ Placed(s, k, start, text) /\ end = start + Len(text)
    BY DEF Where
  <1>2. Len(s.files[k]) \in Nat /\ Len(t.files[k]) \in Nat
    BY StreamFacts
  <1>3. /\ Len(s.files[k]) <= Len(t.files[k])
        /\ \A i \in 1 .. Len(s.files[k]) : t.files[k][i] = s.files[k][i]
    BY DEF Grew
  <1>4. /\ start \in Nat /\ start + Len(text) < Len(s.files[k])
        /\ \A i \in 1 .. Len(text) : i < StringEnd(text) => s.files[k][start + i] = text[i]
    BY <1>1 DEF Placed
  <1>5. Len(text) \in Nat
    BY TextFacts
  <1>6. start + Len(text) < Len(t.files[k])
    BY <1>2, <1>3, <1>4, <1>5, SMTT(40)
  <1>7. \A i \in 1 .. Len(text) : start + i \in 1 .. Len(s.files[k])
    BY <1>2, <1>4, <1>5
  <1>8. \A i \in 1 .. Len(text) : i < StringEnd(text) => t.files[k][start + i] = text[i]
    BY <1>3, <1>4, <1>7
  <1>9. Placed(t, k, start, text)
    BY <1>4, <1>6, <1>8 DEF Placed
  <1> QED
    BY <1>1, <1>9 DEF Where

\* A file name gives its number back, and no two files share one.
LEMMA FileNameFacts ==
    ASSUME NEW stream, NEW k \in Writer!FileNumber
    PROVE  /\ FileName(stream, k) \in ShortText
           /\ FileName(stream, k)[2] - 48 = k
           /\ \A j \in Writer!FileNumber : FileName(stream, j) = FileName(stream, k) => j = k
  <1>1. \A j \in Writer!FileNumber : j \in Nat /\ j <= 207
    BY FileNumberFacts
  <1>2. 48 + k \in Byte /\ 117 \in Byte /\ 98 \in Byte
    BY <1>1, ByteFacts
  <1> DEFINE c == IF stream = "undo" THEN 117 ELSE 98
             w == <<c, 48 + k>>
  <1>3. c \in Byte
    BY <1>2
  <1> HIDE DEF c
  <1>4. w \in Text /\ Len(w) = 2 /\ w[2] = 48 + k
    BY <1>2, <1>3 DEF Text
  <1>5. 2 \in Value
    BY ValueFacts
  <1>6. \A j : FileName(stream, j) = <<c, 48 + j>>
    BY DEF FileName, c
  <1>7. \A j : FileName(stream, j)[2] = 48 + j
    BY <1>6
  <1>8. \A j \in Writer!FileNumber : 48 + j = 48 + k => j = k
    BY <1>1
  <1>9. \A j \in Writer!FileNumber : FileName(stream, j) = FileName(stream, k) => j = k
    BY <1>7, <1>8
  <1>10. FileName(stream, k) = w
    BY <1>6
  <1>11. w[2] - 48 = k
    BY <1>1, <1>4
  <1> HIDE DEF w
  <1>12. w \in ShortText
    BY <1>4, <1>5 DEF ShortText
  <1> QED
    BY <1>9, <1>10, <1>11, <1>12

\* Where a write says its text is.
LEMMA WhereNew ==
    ASSUME NEW s, StreamGood(s), NEW text \in Text, Len(text) + 1 < Word2,
           Writer!WriteNumber(s, text) <= MaxFileNumber, NEW t, t \in Written(s, text), NEW stream
    PROVE  LET info == StoredAt(stream, Writer!WrittenInfo(stream, s, text))
           IN  /\ info.file_name \in ShortText /\ info.start \in UInt16 /\ info.end \in UInt16
               /\ info.end - info.start = Len(text)
               /\ Where(t, stream, info.file_name, info.start, info.end, text)
               /\ \A name, start, end : \A old \in Text :
                    Where(s, stream, name, start, end, old) /\ name = info.file_name
                        => end < info.start
  <1> DEFINE n == Writer!WriteNumber(s, text)
             st == Writer!WriteStart(s, text)
             m == Len(text)
             info == StoredAt(stream, Writer!WrittenInfo(stream, s, text))
  <1>1. /\ n \in Writer!FileNumber /\ st \in UInt16 /\ st = Len(s.files[n])
        /\ st + m \in UInt16
    BY NewPlace
  <1>2. Placed(t, n, st, text)
    BY Wrote
  <1>3. info = [file_name |-> FileName(stream, n), start |-> st % Word2,
                end |-> ((st + m) % Word2) % Word2]
    BY DEF StoredAt, FileInfo, Writer!WrittenInfo
  <1> HIDE DEF n, st, m, info
  <1>4. st % Word2 = st /\ (st + m) % Word2 = st + m /\ st \in Nat
    BY <1>1, UInt16Facts
  <1>5. info.file_name = FileName(stream, n) /\ info.start = st /\ info.end = st + m
    BY <1>3, <1>4
  <1>6. info.file_name \in ShortText
    BY <1>1, <1>5, FileNameFacts
  <1>7. info.end - info.start = m
    BY <1>4, <1>5, TextFacts DEF m
  <1>8. Where(t, stream, info.file_name, info.start, info.end, text)
    BY <1>1, <1>2, <1>5 DEF Where, m
  <1>9. ASSUME NEW name, NEW start, NEW end, NEW old \in Text,
               Where(s, stream, name, start, end, old), name = info.file_name
        PROVE  end < info.start
    <2>1. PICK k \in Writer!FileNumber :
            name = FileName(stream, k) /\ Placed(s, k, start, old) /\ end = start + Len(old)
      BY <1>9 DEF Where
    <2>2. k = n
      <3>1. FileName(stream, k) = FileName(stream, n)
        BY <1>5, <1>9, <2>1, Zenon
      <3>2. \A j \in Writer!FileNumber : FileName(stream, j) = FileName(stream, n) => j = n
        BY <1>1, FileNameFacts, Zenon
      <3> QED
        BY <2>1, <3>1, <3>2, Zenon
    <2> QED
      BY <1>1, <1>5, <2>1, <2>2 DEF Placed
  <1>10. \A name, start, end : \A old \in Text :
            Where(s, stream, name, start, end, old) /\ name = info.file_name => end < info.start
    BY <1>9
  <1> QED
    BY <1>1, <1>5, <1>6, <1>7, <1>8, <1>10 DEF info, m

\* What is read where a text was placed.
LEMMA ReadWhere ==
    ASSUME NEW s, StreamGood(s), NEW stream,
           (stream = "block" /\ s = blocks) \/ (stream = "undo" /\ s = undos),
           NEW name, NEW start, NEW end, NEW text \in Text, Where(s, stream, name, start, end, text)
    PROVE  LET read == ReadText(stream, name, start, end)
           IN  /\ read \in Text /\ Len(read) = Len(text)
               /\ \A i \in 1 .. Len(text) : i < StringEnd(text) => read[i] = text[i]
               /\ 0 \notin ToSet(text) => read = text
  <1> DEFINE read == ReadText(stream, name, start, end)
  <1>1. PICK k \in Writer!FileNumber :
            name = FileName(stream, k) /\ Placed(s, k, start, text) /\ end = start + Len(text)
    BY DEF Where
  <1> DEFINE file == s.files[k]
             info == [stream |-> stream, number |-> name[2] - 48, start |-> start, end |-> end]
             m == Len(text)
  <1>2. /\ start \in Nat /\ start + m < Len(file) /\ end = start + m
        /\ \A i \in 1 .. m : i < StringEnd(text) => file[start + i] = text[i]
    BY <1>1 DEF Placed
  <1>3. m \in Nat /\ file \in Text /\ Len(file) \in Nat
    BY StreamFacts, TextFacts
  <1>4. name[2] - 48 = k
    BY <1>1, FileNameFacts
  <1>5. Writer!FileOf(info) = file
    BY <1>4 DEF Writer!FileOf
  <1>6. read = Writer!Read(info).text
    BY Zenon DEF ReadText
  <1>7. info.start = start /\ info.end = end
    OBVIOUS
  <1> HIDE DEF info, file, m, read
  <1>8. end >= start /\ end <= Len(file) /\ ~(end < start) /\ ~(end > Len(file))
    BY <1>2, <1>3
  <1>9. read = SubSeq(file, start + 1, end)
    <2>1. Writer!Read(info) = [status |-> "ok", text |-> SubSeq(file, start + 1, end)]
      BY <1>5, <1>7, <1>8 DEF Writer!Read
    <2> DEFINE got == Writer!Read(info)
               bytes == SubSeq(file, start + 1, end)
    <2>2. got = [status |-> "ok", text |-> bytes] /\ read = got.text
      BY <1>6, <2>1
    <2> HIDE DEF got, bytes
    <2>3. read = bytes
      BY <2>2
    <2> QED
      BY <2>3 DEF bytes
  <1>10. read \in Text /\ Len(read) = m /\ \A i \in 1 .. m : read[i] = file[start + i]
    <2>1. file \in Seq(Byte)
      BY <1>3 DEF Text
    <2>2. /\ SubSeq(file, start + 1, start + m) \in Seq(Byte)
          /\ Len(SubSeq(file, start + 1, start + m)) = m
          /\ \A i \in 1 .. m : SubSeq(file, start + 1, start + m)[i] = file[start + i]
      BY <1>2, <1>3, <2>1, SMTT(40)
    <2> QED
      BY <1>2, <1>9, <2>2 DEF Text
  <1>11. \A i \in 1 .. m : i < StringEnd(text) => read[i] = text[i]
    BY <1>2, <1>10
  <1>12. ASSUME 0 \notin ToSet(text)
         PROVE  read = text
    <2>1. StringEnd(text) = m + 1
      BY <1>12, StringEndFacts DEF m
    <2>2. \A i \in 1 .. m : read[i] = text[i]
      BY <1>3, <1>11, <2>1
    <2>3. read \in Seq(Byte) /\ text \in Seq(Byte) /\ Len(read) = Len(text)
      BY <1>10 DEF Text, m
    <2> QED
      BY <1>10, <2>2, <2>3, SameSequence
  <1> QED
    BY <1>10, <1>11, <1>12 DEF read, m

----------------------------------------------------------------------------
(* The inductive invariant. *)

StoredBlocks == { s.block : s \in ToSet(stored) }
RecordAt(b)  == BlockRecordDeserialize(blockRecords[BlockHash[b]])

EntryGood(s) ==
    /\ s.block \in AllBlocks
    /\ UndoGood(s.undo) /\ UndoShort(s.undo)
    /\ s.height \in 1 .. MaxStored
    /\ s.extends \in BOOLEAN

\* A record of what was stored leads to it.
LeadsTo(bs, us, r, s) ==
    /\ r \in BlockRecords
    /\ r.block_header = s.block.block_header
    /\ r.num_transactions = Len(s.block.transactions)
    /\ r.height = s.height
    /\ Where(bs, "block", r.block_file_stored, r.block_offset_start, r.block_offset_end,
             BlockText[s.block])
    /\ Where(us, "undo", r.undo_file_stored, r.undo_offset_start, r.undo_offset_end,
             UndoBlockSerialize(s.undo))

Entries == [block : AllBlocks, undo : UndoBlocks, height : 1 .. MaxStored, extends : BOOLEAN]

StoredInv ==
    /\ \A i \in 1 .. Len(stored) : EntryGood(stored[i])
    /\ stored \in Seq(Entries)
    /\ Len(stored) > 0 /\ Len(stored) <= MaxStored
    /\ tip \in AllBlocks
    /\ chainLength \in Nat /\ chainLength >= 1 /\ chainLength <= Len(stored)
    /\ removed \subseteq Removable
RecordsInv ==
    /\ blockRecords \in [BlockHashes -> Text]
    /\ \A h \in BlockHashes : (\A b \in StoredBlocks : h # BlockHash[b]) => blockRecords[h] = <<>>
    /\ \A b \in StoredBlocks :
        blockRecords[BlockHash[b]] # <<>> /\ LeadsTo(blocks, undos, RecordAt(b), LastOf(b))
    /\ \A b \in StoredBlocks : \A c \in StoredBlocks :
        b # c => Apart(RecordAt(b), RecordAt(c))
IInv ==
    /\ StreamGood(blocks) /\ StreamGood(undos)
    /\ CoinTexts(coinRecords, removed, OnChain)
    /\ CacheGood(cache)
    /\ StoredInv
    /\ RecordsInv
----------------------------------------------------------------------------
(* What was stored, and stored last. *)

LastPlace(q, b) == SelectLastInSeq(q, LAMBDA s : s.block = b)

\* The place at which a block was stored last.
LEMMA LastPlaceFacts ==
    ASSUME NEW S, NEW q \in Seq(S), NEW b
    PROVE  (\E i \in 1 .. Len(q) : q[i].block = b) =>
                /\ LastPlace(q, b) \in 1 .. Len(q)
                /\ q[LastPlace(q, b)].block = b
                /\ \A i \in 1 .. Len(q) : q[i].block = b => i <= LastPlace(q, b)
  <1> DEFINE I == { i \in 1 .. Len(q) : q[i].block = b }
  <1>1. LastPlace(q, b) = IF I # {} THEN Max(I) ELSE 0
    BY DEF LastPlace, SelectLastInSeq
  <1>2. Len(q) \in Nat /\ I \in SUBSET (1 .. Len(q))
    OBVIOUS
  <1>3. SUFFICES ASSUME NEW j \in 1 .. Len(q), q[j].block = b
                 PROVE  /\ LastPlace(q, b) \in 1 .. Len(q)
                        /\ q[LastPlace(q, b)].block = b
                        /\ \A i \in 1 .. Len(q) : q[i].block = b => i <= LastPlace(q, b)
    OBVIOUS
  <1>4. I # {}
    BY <1>3
  <1>5. Max(I) \in I /\ \A k \in I : k <= Max(I)
    <2> HIDE DEF I
    <2> QED
      BY <1>2, <1>4, LargestIs
  <1>6. LastPlace(q, b) \in I /\ \A k \in I : k <= LastPlace(q, b)
    BY <1>1, <1>4, <1>5
  <1> QED
    BY <1>6

\* That place, known by what is behind it.
LEMMA LastPlaceIs ==
    ASSUME NEW S, NEW q \in Seq(S), NEW b, NEW p \in 1 .. Len(q), q[p].block = b,
           \A i \in 1 .. Len(q) : q[i].block = b => i <= p
    PROVE  LastPlace(q, b) = p
  <1>1. /\ LastPlace(q, b) \in 1 .. Len(q) /\ q[LastPlace(q, b)].block = b
        /\ \A i \in 1 .. Len(q) : q[i].block = b => i <= LastPlace(q, b)
    BY LastPlaceFacts
  <1> DEFINE l == LastPlace(q, b)
  <1>2. l <= p /\ p <= l /\ l \in Nat /\ p \in Nat
    BY <1>1
  <1> HIDE DEF l
  <1>3. l = p
    BY <1>2
  <1> QED
    BY <1>3 DEF l

\* That place after one more block was stored.
LEMMA LastPlaceAppend ==
    ASSUME NEW S, NEW q \in Seq(S), NEW e \in S
    PROVE  /\ LastPlace(Append(q, e), e.block) = Len(q) + 1
           /\ \A b : b # e.block /\ (\E i \in 1 .. Len(q) : q[i].block = b) =>
                LastPlace(Append(q, e), b) = LastPlace(q, b)
  <1> DEFINE r == Append(q, e)
             n == Len(q)
  <1>1. /\ r \in Seq(S) /\ Len(r) = n + 1 /\ n \in Nat /\ r[n + 1] = e
        /\ \A i \in 1 .. n : r[i] = q[i]
    OBVIOUS
  <1> HIDE DEF r, n
  <1>2. LastPlace(r, e.block) = n + 1
    <2>1. n + 1 \in 1 .. Len(r) /\ \A i \in 1 .. Len(r) : i <= n + 1
      BY <1>1
    <2> QED
      BY <1>1, <2>1, LastPlaceIs
  <1>3. ASSUME NEW b, b # e.block, \E i \in 1 .. n : q[i].block = b
        PROVE  LastPlace(r, b) = LastPlace(q, b)
    <2> DEFINE p == LastPlace(q, b)
    <2>1. /\ p \in 1 .. n /\ q[p].block = b
          /\ \A i \in 1 .. n : q[i].block = b => i <= p
      BY <1>3, LastPlaceFacts DEF n
    <2> HIDE DEF p
    <2>2. p \in 1 .. Len(r) /\ r[p].block = b
      BY <1>1, <2>1
    <2>3. \A i \in 1 .. Len(r) : r[i].block = b => i \in 1 .. n
      BY <1>1, <1>3
    <2>4. \A i \in 1 .. Len(r) : r[i].block = b => i <= p
      BY <1>1, <2>1, <2>3
    <2>5. LastPlace(r, b) = p
      BY <1>1, <2>2, <2>4, LastPlaceIs
    <2> QED
      BY <2>5 DEF p
  <1> QED
    BY <1>2, <1>3 DEF r, n

\* What was stored last of a block, as a place.
LEMMA LastOfIs == \A b : LastOf(b) = stored[LastPlace(stored, b)]
  BY Zenon DEF LastOf, LastPlace

\* What was stored, as sets.
LEMMA StoredSets ==
    ASSUME NEW S, stored \in Seq(S)
    PROVE  /\ ToSet(stored) = { stored[i] : i \in 1 .. Len(stored) }
           /\ \A b : b \in StoredBlocks <=> \E i \in 1 .. Len(stored) : stored[i].block = b
           /\ \A b \in StoredBlocks :
                /\ LastPlace(stored, b) \in 1 .. Len(stored)
                /\ LastOf(b).block = b /\ LastOf(b) \in ToSet(stored)
           /\ LastStored = { LastOf(b) : b \in StoredBlocks }
           /\ StoredHashes = { BlockHash[b] : b \in StoredBlocks }
  <1>1. ToSet(stored) = { stored[i] : i \in 1 .. Len(stored) }
    BY ToSetFacts
  <1>2. \A b : b \in StoredBlocks <=> \E i \in 1 .. Len(stored) : stored[i].block = b
    BY <1>1 DEF StoredBlocks
  <1>3. \A b \in StoredBlocks : /\ LastPlace(stored, b) \in 1 .. Len(stored)
                                /\ LastOf(b).block = b
    BY <1>2, LastPlaceFacts, LastOfIs
  <1>4. \A b \in StoredBlocks : LastOf(b) \in ToSet(stored)
    BY <1>1, <1>3, LastOfIs
  <1>5. LastStored = { LastOf(b) : b \in StoredBlocks }
    BY DEF LastStored, StoredBlocks
  <1>6. StoredHashes = { BlockHash[b] : b \in StoredBlocks }
    BY <1>3, <1>5 DEF StoredHashes
  <1> QED
    BY <1>1, <1>2, <1>3, <1>4, <1>5, <1>6

\* These sets after one more block was stored.
LEMMA StoredMore ==
    ASSUME NEW S, stored \in Seq(S), NEW e \in S, stored' = Append(stored, e)
    PROVE  /\ StoredBlocks' = StoredBlocks \cup {e.block}
           /\ LastOf(e.block)' = e
           /\ \A b \in StoredBlocks : b # e.block => LastOf(b)' = LastOf(b)
           /\ e.extends = TRUE => OnChain' = OnChain \cup ToSet(e.block.transactions)
           /\ e.extends = FALSE => OnChain' = OnChain
  <1>1. ToSet(stored') = ToSet(stored) \cup {e}
    BY ToSetAppend
  <1>2. stored' \in Seq(S) /\ Len(stored') = Len(stored) + 1 /\ stored'[Len(stored) + 1] = e
        /\ (\A i \in 1 .. Len(stored) : stored'[i] = stored[i]) /\ Len(stored) \in Nat
    OBVIOUS
  <1>3. StoredBlocks' = StoredBlocks \cup {e.block}
    BY <1>1 DEF StoredBlocks
  <1>4. LastPlace(stored', e.block) = Len(stored) + 1
        /\ \A b : b # e.block /\ (\E i \in 1 .. Len(stored) : stored[i].block = b) =>
                LastPlace(stored', b) = LastPlace(stored, b)
    BY LastPlaceAppend
  <1>5. \A b : LastOf(b)' = stored'[LastPlace(stored', b)]
    BY DEF LastOf, LastPlace, SelectLastInSeq
  <1>6. LastOf(e.block)' = e
    BY <1>2, <1>4, <1>5
  <1>7. ASSUME NEW b \in StoredBlocks, b # e.block
        PROVE  LastOf(b)' = LastOf(b)
    <2>1. LastPlace(stored', b) = LastPlace(stored, b) /\ LastPlace(stored, b) \in 1 .. Len(stored)
      BY <1>4, <1>7, StoredSets
    <2> QED
      BY <1>2, <1>5, <2>1, LastOfIs
  <1>8. e.extends = TRUE => OnChain' = OnChain \cup ToSet(e.block.transactions)
    <2> HAVE e.extends = TRUE
    <2>1. { s \in ToSet(stored') : s.extends } = { s \in ToSet(stored) : s.extends } \cup {e}
      BY <1>1
    <2> QED
      BY <2>1 DEF OnChain
  <1>9. e.extends = FALSE => OnChain' = OnChain
    <2> HAVE e.extends = FALSE
    <2>1. { s \in ToSet(stored') : s.extends } = { s \in ToSet(stored) : s.extends }
      BY <1>1
    <2> QED
      BY <2>1 DEF OnChain
  <1> QED
    BY <1>3, <1>6, <1>7, <1>8, <1>9

\* What was stored fits a file.
LEMMA EntryFacts ==
    ASSUME NEW e, EntryGood(e)
    PROVE  /\ e.block \in AllBlocks /\ BlockText[e.block] \in Text
           /\ Len(BlockText[e.block]) + 1 < Word2
           /\ UndoBlockSerialize(e.undo) \in Text /\ Len(UndoBlockSerialize(e.undo)) + 1 < Word2
           /\ e.height \in Value /\ e.height \in Nat /\ e.height > 0 /\ e.height <= MaxStored
  <1>1. e.block \in AllBlocks /\ UndoGood(e.undo) /\ UndoShort(e.undo) /\ e.height \in 1 .. MaxStored
    BY DEF EntryGood
  <1>2. MaxStored \in Nat /\ MaxStored <= MaxValue
    BY SizeAssumption, ValueFacts
  <1>3. e.height \in Nat /\ e.height > 0 /\ e.height <= MaxStored
    BY <1>1, <1>2
  <1>4. e.height <= MaxValue
    BY <1>2, <1>3, ValueFacts
  <1>5. e.height \in Value
    BY <1>3, <1>4, ValueFacts
  <1>6. UndoBlockSerialize(e.undo) \in Text
    BY <1>1, UndoFacts
  <1>7. BlockText[e.block] \in Text /\ Len(BlockText[e.block]) + 1 < Word2
    BY <1>1, BlockFacts
  <1> QED
    BY <1>1, <1>3, <1>5, <1>6, <1>7 DEF UndoShort

\* What a file name, a start and an end are of a text in a stream.
InfoGood(info) == info.file_name \in ShortText /\ info.start \in UInt16 /\ info.end \in UInt16

\* The record made of two FileInfos.
MadeOf(bs, us, e, bi, ui, r) ==
    /\ EntryGood(e) /\ InfoGood(bi) /\ InfoGood(ui)
    /\ Where(bs, "block", bi.file_name, bi.start, bi.end, BlockText[e.block])
    /\ Where(us, "undo", ui.file_name, ui.start, ui.end, UndoBlockSerialize(e.undo))
    /\ r = BlockRecord(e.block.block_header, Len(e.block.transactions), e.height, bi, ui)

\* A record that is made of a write leads to what was written.
LEMMA RecordMade ==
    ASSUME NEW bs, NEW us, NEW e, NEW bi, NEW ui, NEW r, MadeOf(bs, us, e, bi, ui, r)
    PROVE  /\ LeadsTo(bs, us, r, e)
           /\ r.block_file_stored = bi.file_name
           /\ r.block_offset_start = bi.start /\ r.block_offset_end = bi.end
           /\ r.undo_file_stored = ui.file_name
           /\ r.undo_offset_start = ui.start /\ r.undo_offset_end = ui.end
  <1>0. /\ EntryGood(e) /\ InfoGood(bi) /\ InfoGood(ui)
        /\ Where(bs, "block", bi.file_name, bi.start, bi.end, BlockText[e.block])
        /\ Where(us, "undo", ui.file_name, ui.start, ui.end, UndoBlockSerialize(e.undo))
        /\ r = BlockRecord(e.block.block_header, Len(e.block.transactions), e.height, bi, ui)
    BY Zenon DEF MadeOf
  <1> USE <1>0
  <1>1. e.block \in AllBlocks /\ e.height \in Value
    BY EntryFacts
  <1>2. e.block.block_header \in BlockHeaders
    BY <1>1, BlockFacts
  <1>3. Len(e.block.transactions) \in Value
    BY <1>1, TransactionFacts, WordFacts
  <1>4. /\ bi.file_name \in ShortText /\ bi.start \in UInt16 /\ bi.end \in UInt16
        /\ ui.file_name \in ShortText /\ ui.start \in UInt16 /\ ui.end \in UInt16
    BY DEF InfoGood
  <1> DEFINE h == e.block.block_header
             n == Len(e.block.transactions)
             x == e.height
             b1 == bi.file_name
             b2 == bi.start
             b3 == bi.end
             u1 == ui.file_name
             u2 == ui.start
             u3 == ui.end
  <1>5. r = [block_header |-> h, height |-> x, num_transactions |-> n,
             block_file_stored |-> b1, block_offset_start |-> b2, block_offset_end |-> b3,
             undo_file_stored |-> u1, undo_offset_start |-> u2, undo_offset_end |-> u3]
    BY DEF BlockRecord
  <1>6. /\ h \in BlockHeaders /\ n \in Value /\ x \in Value
        /\ b1 \in ShortText /\ b2 \in UInt16 /\ b3 \in UInt16
        /\ u1 \in ShortText /\ u2 \in UInt16 /\ u3 \in UInt16
    BY <1>1, <1>2, <1>3, <1>4
  <1> HIDE DEF h, n, x, b1, b2, b3, u1, u2, u3
  <1>7. r \in BlockRecords
    BY <1>5, <1>6 DEF BlockRecords
  <1>8. /\ r.block_header = h /\ r.num_transactions = n /\ r.height = x
        /\ r.block_file_stored = b1 /\ r.block_offset_start = b2 /\ r.block_offset_end = b3
        /\ r.undo_file_stored = u1 /\ r.undo_offset_start = u2 /\ r.undo_offset_end = u3
    BY <1>5
  <1>9. Where(bs, "block", r.block_file_stored, r.block_offset_start, r.block_offset_end,
              BlockText[e.block])
    BY <1>8, Zenon DEF b1, b2, b3
  <1>10. Where(us, "undo", r.undo_file_stored, r.undo_offset_start, r.undo_offset_end,
               UndoBlockSerialize(e.undo))
    BY <1>8, Zenon DEF u1, u2, u3
  <1>11. LeadsTo(bs, us, r, e)
    BY <1>7, <1>8, <1>9, <1>10 DEF LeadsTo, h, n, x
  <1> QED
    BY <1>8, <1>11 DEF b1, b2, b3, u1, u2, u3

\* A record keeps leading to what it led to.
LEMMA LeadsStill ==
    ASSUME NEW bs, StreamGood(bs), NEW bs2, StreamGood(bs2), Grew(bs, bs2),
           NEW us, StreamGood(us), NEW us2, StreamGood(us2), Grew(us, us2),
           NEW r, NEW s, EntryGood(s), LeadsTo(bs, us, r, s)
    PROVE  LeadsTo(bs2, us2, r, s)
  <1>1. BlockText[s.block] \in Text /\ UndoBlockSerialize(s.undo) \in Text
    BY EntryFacts
  <1>2. Where(bs2, "block", r.block_file_stored, r.block_offset_start, r.block_offset_end,
              BlockText[s.block])
    BY <1>1, WhereKept, Zenon DEF LeadsTo
  <1>3. Where(us2, "undo", r.undo_file_stored, r.undo_offset_start, r.undo_offset_end,
              UndoBlockSerialize(s.undo))
    BY <1>1, WhereKept, Zenon DEF LeadsTo
  <1> QED
    BY <1>2, <1>3 DEF LeadsTo

\* What store_block stores of an entry, behind everything that is there.
LEMMA StoreBlockFacts ==
    ASSUME StreamGood(blocks), StreamGood(undos), NEW e, EntryGood(e),
           Writer!WriteNumber(blocks, BlockText[e.block]) <= MaxFileNumber,
           Writer!WriteNumber(undos, UndoBlockSerialize(e.undo)) <= MaxFileNumber,
           NEW bs, bs \in Written(blocks, BlockText[e.block]),
           NEW us, us \in Written(undos, UndoBlockSerialize(e.undo)),
           NEW r, r = Record(e.block, BlockText[e.block], UndoBlockSerialize(e.undo), e.height)
    PROVE  /\ StreamGood(bs) /\ StreamGood(us) /\ Grew(blocks, bs) /\ Grew(undos, us)
           /\ LeadsTo(bs, us, r, e)
           /\ \A q, s : EntryGood(s) /\ LeadsTo(blocks, undos, q, s) => Apart(r, q) /\ Apart(q, r)
  <1> DEFINE bt == BlockText[e.block]
             ut == UndoBlockSerialize(e.undo)
             bi == StoredAt("block", Writer!WrittenInfo("block", blocks, bt))
             ui == StoredAt("undo", Writer!WrittenInfo("undo", undos, ut))
  <1>1. bt \in Text /\ Len(bt) + 1 < Word2 /\ ut \in Text /\ Len(ut) + 1 < Word2
    BY EntryFacts
  <1>2. r = BlockRecord(e.block.block_header, Len(e.block.transactions), e.height, bi, ui)
    BY Zenon DEF Record
  <1>3. StreamGood(bs) /\ Grew(blocks, bs)
    BY <1>1, Wrote
  <1>4. StreamGood(us) /\ Grew(undos, us)
    BY <1>1, Wrote
  <1>5. /\ bi.file_name \in ShortText /\ bi.start \in UInt16 /\ bi.end \in UInt16
        /\ Where(bs, "block", bi.file_name, bi.start, bi.end, bt)
        /\ \A name, start, end : \A old \in Text :
                Where(blocks, "block", name, start, end, old) /\ name = bi.file_name
                    => end < bi.start
    BY <1>1, WhereNew
  <1>6. /\ ui.file_name \in ShortText /\ ui.start \in UInt16 /\ ui.end \in UInt16
        /\ Where(us, "undo", ui.file_name, ui.start, ui.end, ut)
        /\ \A name, start, end : \A old \in Text :
                Where(undos, "undo", name, start, end, old) /\ name = ui.file_name
                    => end < ui.start
    BY <1>1, WhereNew
  <1> HIDE DEF bi, ui
  <1>7. InfoGood(bi) /\ InfoGood(ui)
    BY <1>5, <1>6 DEF InfoGood
  <1>8. /\ LeadsTo(bs, us, r, e)
        /\ r.block_file_stored = bi.file_name
        /\ r.block_offset_start = bi.start /\ r.block_offset_end = bi.end
        /\ r.undo_file_stored = ui.file_name
        /\ r.undo_offset_start = ui.start /\ r.undo_offset_end = ui.end
    <2>1. Where(bs, "block", bi.file_name, bi.start, bi.end, BlockText[e.block])
      BY <1>5
    <2>2. Where(us, "undo", ui.file_name, ui.start, ui.end, UndoBlockSerialize(e.undo))
      BY <1>6
    <2> HIDE DEF bt, ut
    <2>3. MadeOf(bs, us, e, bi, ui, r)
      BY <1>2, <1>7, <2>1, <2>2, Zenon DEF MadeOf
    <2> QED
      BY <2>3, RecordMade
  <1>9. ASSUME NEW q, NEW s, EntryGood(s), LeadsTo(blocks, undos, q, s)
        PROVE  Apart(r, q) /\ Apart(q, r)
    <2>1. BlockText[s.block] \in Text /\ UndoBlockSerialize(s.undo) \in Text
      BY <1>9, EntryFacts
    <2>2. /\ Where(blocks, "block", q.block_file_stored, q.block_offset_start, q.block_offset_end,
                   BlockText[s.block])
          /\ Where(undos, "undo", q.undo_file_stored, q.undo_offset_start, q.undo_offset_end,
                   UndoBlockSerialize(s.undo))
      BY <1>9 DEF LeadsTo
    <2>3. q.block_file_stored = bi.file_name => q.block_offset_end < bi.start
      BY <1>5, <2>1, <2>2, Zenon
    <2>4. q.undo_file_stored = ui.file_name => q.undo_offset_end < ui.start
      BY <1>6, <2>1, <2>2, Zenon
    <2> QED
      BY <1>8, <2>3, <2>4 DEF Apart
  <1> QED
    BY <1>3, <1>4, <1>8, <1>9

\* Of the blocks stored, under StoredInv.
LEMMA StoredFacts ==
    ASSUME StoredInv
    PROVE  /\ StoredBlocks \subseteq AllBlocks
           /\ \A b \in StoredBlocks : EntryGood(LastOf(b)) /\ LastOf(b).block = b
                                      /\ LastOf(b) \in ToSet(stored)
           /\ \A s \in ToSet(stored) : EntryGood(s) /\ s.block \in StoredBlocks
           /\ LastStored = { LastOf(b) : b \in StoredBlocks }
           /\ StoredHashes = { BlockHash[b] : b \in StoredBlocks }
  <1> DEFINE S == Entries
  <1>1. stored \in Seq(S) /\ \A i \in 1 .. Len(stored) : EntryGood(stored[i])
    BY DEF StoredInv
  <1> HIDE DEF S
  <1>2. /\ ToSet(stored) = { stored[i] : i \in 1 .. Len(stored) }
        /\ \A b : b \in StoredBlocks <=> \E i \in 1 .. Len(stored) : stored[i].block = b
        /\ \A b \in StoredBlocks :
                /\ LastPlace(stored, b) \in 1 .. Len(stored)
                /\ LastOf(b).block = b /\ LastOf(b) \in ToSet(stored)
        /\ LastStored = { LastOf(b) : b \in StoredBlocks }
        /\ StoredHashes = { BlockHash[b] : b \in StoredBlocks }
    BY <1>1, StoredSets
  <1>3. \A s \in ToSet(stored) : EntryGood(s) /\ s.block \in StoredBlocks
    BY <1>1, <1>2
  <1>4. \A s : EntryGood(s) => s.block \in AllBlocks
    BY DEF EntryGood
  <1>5. StoredBlocks \subseteq AllBlocks
    BY <1>1, <1>2, <1>4
  <1> QED
    BY <1>2, <1>3, <1>5

\* What is stored with a block is an entry.
LEMMA EntryTyped ==
    ASSUME NEW b \in AllBlocks, NEW undo, UndoGood(undo), UndoShort(undo),
           NEW height \in 1 .. MaxStored, NEW extends \in BOOLEAN,
           NEW e, e = [block |-> b, undo |-> undo, height |-> height, extends |-> extends]
    PROVE  EntryGood(e) /\ e \in Entries
  <1>1. undo \in UndoBlocks
    BY DEF UndoGood
  <1>2. e \in Entries
    BY <1>1 DEF Entries
  <1> QED
    BY <1>2 DEF EntryGood

\* StoreTexts and the entry it stands for keep the records right.
LEMMA StoreKeeps ==
    ASSUME StreamGood(blocks), StreamGood(undos), StoredInv, RecordsInv,
           NEW e, EntryGood(e), e \in Entries,
           StoreTexts(e.block, BlockText[e.block], UndoBlockSerialize(e.undo), e.height),
           stored' = Append(stored, e)
    PROVE  StreamGood(blocks)' /\ StreamGood(undos)' /\ RecordsInv'
  <1> DEFINE b == e.block
             bt == BlockText[b]
             ut == UndoBlockSerialize(e.undo)
  <1>1. PICK r : r = Record(b, bt, ut, e.height)
    OBVIOUS
  <1>2. /\ Writer!WriteNumber(blocks, bt) <= MaxFileNumber
        /\ Writer!WriteNumber(undos, ut) <= MaxFileNumber
        /\ blocks' \in Written(blocks, bt) /\ undos' \in Written(undos, ut)
        /\ blockRecords' = [blockRecords EXCEPT ![BlockHash[b]] = BlockRecordSerialize(r)]
    BY <1>1, Zenon DEF StoreTexts
  <1>3. /\ StreamGood(blocks') /\ StreamGood(undos') /\ Grew(blocks, blocks') /\ Grew(undos, undos')
        /\ LeadsTo(blocks', undos', r, e)
        /\ \A q, s : EntryGood(s) /\ LeadsTo(blocks, undos, q, s) => Apart(r, q) /\ Apart(q, r)
    BY <1>1, <1>2, StoreBlockFacts, ZenonT(60)
  <1>4. /\ BlockRecordSerialize(r) \in Text /\ BlockRecordSerialize(r) # <<>>
        /\ BlockRecordDeserialize(BlockRecordSerialize(r)) = r
    <2>1. r \in BlockRecords
      BY <1>3 DEF LeadsTo
    <2> QED
      BY <2>1, BlockRecordTextFacts
  <1>5. b \in AllBlocks /\ BlockHash[b] \in BlockHashes
    BY EntryFacts, BlockFacts
  <1>6. /\ StoredBlocks \subseteq AllBlocks
        /\ \A c \in StoredBlocks : EntryGood(LastOf(c))
    BY StoredFacts
  <1>7. /\ StoredBlocks' = StoredBlocks \cup {b} /\ LastOf(b)' = e
        /\ \A c \in StoredBlocks : c # b => LastOf(c)' = LastOf(c)
    <2> DEFINE S == Entries
    <2>1. stored \in Seq(S) /\ e \in S
      BY DEF StoredInv
    <2> HIDE DEF S
    <2> QED
      BY <2>1, StoredMore
  <1>8. /\ blockRecords \in [BlockHashes -> Text]
        /\ \A h \in BlockHashes : (\A c \in StoredBlocks : h # BlockHash[c]) => blockRecords[h] = <<>>
        /\ \A c \in StoredBlocks :
            blockRecords[BlockHash[c]] # <<>> /\ LeadsTo(blocks, undos, RecordAt(c), LastOf(c))
        /\ \A c \in StoredBlocks : \A d \in StoredBlocks :
            c # d => Apart(RecordAt(c), RecordAt(d))
    BY DEF RecordsInv
  <1> DEFINE text == BlockRecordSerialize(r)
  <1> HIDE DEF b, bt, ut, text
  <1>9. /\ blockRecords' \in [BlockHashes -> Text]
        /\ blockRecords'[BlockHash[b]] = text
        /\ \A h \in BlockHashes : h # BlockHash[b] => blockRecords'[h] = blockRecords[h]
    <2>1. blockRecords' = [blockRecords EXCEPT ![BlockHash[b]] = text] /\ text \in Text
      BY <1>2, <1>4 DEF text
    <2> QED
      BY <1>5, <1>8, <2>1
  <1>10. \A c \in StoredBlocks : c # b => /\ BlockHash[c] \in BlockHashes /\ BlockHash[c] # BlockHash[b]
                                          /\ blockRecords'[BlockHash[c]] = blockRecords[BlockHash[c]]
    <2>1. \A c \in AllBlocks : BlockHash[c] \in BlockHashes
      BY BlockFacts
    <2>2. \A c \in AllBlocks : c # b => BlockHash[c] # BlockHash[b]
      BY <1>5, HashFacts
    <2> QED
      BY <1>6, <1>9, <2>1, <2>2
  <1>11. \A c : RecordAt(c)' = BlockRecordDeserialize(blockRecords'[BlockHash[c]])
    BY DEF RecordAt
  <1>12. RecordAt(b)' = r
    BY <1>4, <1>9, <1>11 DEF text
  <1>13. \A c \in StoredBlocks : c # b => RecordAt(c)' = RecordAt(c)
    BY <1>10, <1>11 DEF RecordAt
  <1>14. \A h \in BlockHashes : (\A c \in StoredBlocks' : h # BlockHash[c]) => blockRecords'[h] = <<>>
    BY <1>7, <1>8, <1>9
  <1>15. \A c \in StoredBlocks' :
            blockRecords'[BlockHash[c]] # <<>> /\ LeadsTo(blocks', undos', RecordAt(c)', LastOf(c)')
    <2> TAKE c \in StoredBlocks'
    <2>1. CASE c = b
      <3>1. blockRecords'[BlockHash[b]] # <<>>
        BY <1>4, <1>9 DEF text
      <3>2. LeadsTo(blocks', undos', RecordAt(b)', LastOf(b)')
        BY <1>3, <1>7, <1>12, Zenon
      <3> QED
        BY <2>1, <3>1, <3>2, Zenon
    <2>2. CASE c # b
      <3>1. c \in StoredBlocks
        BY <1>7, <2>2
      <3>2. blockRecords'[BlockHash[c]] # <<>>
        BY <1>8, <1>10, <2>2, <3>1
      <3>3. LeadsTo(blocks, undos, RecordAt(c), LastOf(c)) /\ EntryGood(LastOf(c))
        BY <1>6, <1>8, <3>1
      <3>4. LeadsTo(blocks', undos', RecordAt(c), LastOf(c))
        BY <1>3, <3>3, LeadsStill
      <3>5. RecordAt(c)' = RecordAt(c) /\ LastOf(c)' = LastOf(c)
        BY <1>7, <1>13, <2>2, <3>1
      <3> QED
        BY <3>2, <3>4, <3>5, Zenon
    <2> QED
      BY <2>1, <2>2
  <1>16. \A c \in StoredBlocks' : \A d \in StoredBlocks' : c # d => Apart(RecordAt(c)', RecordAt(d)')
    <2>1. \A c \in StoredBlocks : Apart(r, RecordAt(c)) /\ Apart(RecordAt(c), r)
      BY <1>3, <1>6, <1>8
    <2> TAKE c \in StoredBlocks'
    <2> TAKE d \in StoredBlocks'
    <2> HAVE c # d
    <2>2. CASE c = b
      <3>1. d \in StoredBlocks /\ RecordAt(d)' = RecordAt(d)
        BY <1>7, <1>13, <2>2
      <3> QED
        BY <1>12, <2>1, <2>2, <3>1, Zenon
    <2>3. CASE d = b
      <3>1. c \in StoredBlocks /\ RecordAt(c)' = RecordAt(c)
        BY <1>7, <1>13, <2>3
      <3> QED
        BY <1>12, <2>1, <2>3, <3>1, Zenon
    <2>4. CASE c # b /\ d # b
      <3>1. /\ c \in StoredBlocks /\ RecordAt(c)' = RecordAt(c)
            /\ d \in StoredBlocks /\ RecordAt(d)' = RecordAt(d)
        BY <1>7, <1>13, <2>4
      <3> QED
        BY <1>8, <3>1, Zenon
    <2> QED
      BY <2>2, <2>3, <2>4
  <1>17. StreamGood(blocks)' /\ StreamGood(undos)'
    BY <1>3
  <1>18. RecordsInv'
    BY <1>9, <1>14, <1>15, <1>16, Zenon DEF RecordsInv
  <1> QED
    BY <1>17, <1>18

----------------------------------------------------------------------------
(* The initial states. *)

\* A new stream is good.
LEMMA NewStreamGood == StreamGood(NewStream)
  <1>1. Writer!FileNumber = 0 .. MaxFileNumber /\ 0 \in Writer!FileNumber
    BY FileNumberFacts
  <1>2. 0 \in UInt16
    BY UInt16Is, WordFacts
  <1>3. NewStream.files \in [Writer!FileNumber -> Text]
        /\ NewStream.number \in Writer!FileNumber /\ NewStream.offset \in UInt16
    BY <1>1, <1>2, TextFacts DEF NewStream
  <1>4. NewStream = [files |-> NewStream.files, number |-> NewStream.number,
                     offset |-> NewStream.offset]
    BY DEF NewStream
  <1>5. NewStream \in Writer!Stream
    BY <1>3, <1>4, Zenon DEF Writer!Stream, Writer!Offset, UInt16, Text
  <1>6. \A k \in Writer!FileNumber : NewStream.files[k] = <<>>
    BY <1>1 DEF NewStream
  <1>7. NewStream.offset = Len(NewStream.files[NewStream.number])
    BY <1>1, <1>6, TextFacts DEF NewStream
  <1> QED
    BY <1>5, <1>6, <1>7 DEF StreamGood

\* The first write may move to the second file, and no further.
LEMMA FirstWrite == \A text : Writer!WriteNumber(NewStream, text) <= MaxFileNumber
  <1>1. NewStream.number = 0
    BY DEF NewStream
  <1>2. \A text : Writer!WriteNumber(NewStream, text) \in {0, 1}
    BY <1>1 DEF Writer!WriteNumber
  <1> QED
    BY <1>2, FileNumberFacts

\* The entry of the genesis block, and the record of it.
GenesisEntry == [block |-> Genesis, undo |-> GenesisUndo, height |-> 1, extends |-> TRUE]
GenesisText  == BlockText[Genesis]
GenesisUndoText == UndoBlockSerialize(GenesisUndo)
GenesisRecord ==
    BlockRecord(Genesis.block_header, 1, 1,
                StoredAt("block", Writer!WrittenInfo("block", NewStream, GenesisText)),
                StoredAt("undo", Writer!WrittenInfo("undo", NewStream, GenesisUndoText)))

\* The entry of the genesis block.
LEMMA GenesisEntryFacts ==
    EntryGood(GenesisEntry) /\ GenesisEntry \in Entries /\ Genesis \in AllBlocks
  <1>1. Genesis \in AllBlocks
    BY HashFacts
  <1>2. 1 \in 1 .. MaxStored
    BY SizeAssumption, ValueFacts
  <1>3. UndoGood(GenesisUndo) /\ UndoShort(GenesisUndo)
    BY GenesisUndoFacts
  <1> QED
    BY <1>1, <1>2, <1>3, EntryTyped DEF GenesisEntry

\* Storing the genesis block makes a record that leads to it.
LEMMA GenesisStored ==
    ASSUME NEW bs, bs \in Written(NewStream, GenesisText),
           NEW us, us \in Written(NewStream, GenesisUndoText)
    PROVE  StreamGood(bs) /\ StreamGood(us) /\ LeadsTo(bs, us, GenesisRecord, GenesisEntry)
  <1> DEFINE bi == StoredAt("block", Writer!WrittenInfo("block", NewStream, GenesisText))
             ui == StoredAt("undo", Writer!WrittenInfo("undo", NewStream, GenesisUndoText))
  <1>1. StreamGood(NewStream)
    BY NewStreamGood
  <1>2. /\ GenesisText \in Text /\ Len(GenesisText) + 1 < Word2
        /\ GenesisUndoText \in Text /\ Len(GenesisUndoText) + 1 < Word2
    <2>1. GenesisEntry.block = Genesis /\ GenesisEntry.undo = GenesisUndo
      BY DEF GenesisEntry
    <2> QED
      BY <2>1, GenesisEntryFacts, EntryFacts DEF GenesisText, GenesisUndoText
  <1>3. Writer!WriteNumber(NewStream, GenesisText) <= MaxFileNumber
        /\ Writer!WriteNumber(NewStream, GenesisUndoText) <= MaxFileNumber
    BY FirstWrite
  <1>4. StreamGood(bs)
    BY <1>1, <1>2, <1>3, Wrote
  <1>5. StreamGood(us)
    BY <1>1, <1>2, <1>3, Wrote
  <1>6. /\ bi.file_name \in ShortText /\ bi.start \in UInt16 /\ bi.end \in UInt16
        /\ Where(bs, "block", bi.file_name, bi.start, bi.end, GenesisText)
    BY <1>1, <1>2, <1>3, WhereNew
  <1>7. /\ ui.file_name \in ShortText /\ ui.start \in UInt16 /\ ui.end \in UInt16
        /\ Where(us, "undo", ui.file_name, ui.start, ui.end, GenesisUndoText)
    BY <1>1, <1>2, <1>3, WhereNew
  <1>8. GenesisRecord = BlockRecord(Genesis.block_header, 1, 1, bi, ui)
    BY Zenon DEF GenesisRecord
  <1> HIDE DEF bi, ui
  <1>9. InfoGood(bi) /\ InfoGood(ui)
    BY <1>6, <1>7 DEF InfoGood
  <1>10. /\ GenesisEntry.block = Genesis /\ GenesisEntry.undo = GenesisUndo
         /\ GenesisEntry.height = 1 /\ Len(GenesisEntry.block.transactions) = 1
    BY DEF GenesisEntry, Genesis
  <1>11. GenesisRecord = BlockRecord(GenesisEntry.block.block_header,
                                     Len(GenesisEntry.block.transactions), GenesisEntry.height, bi, ui)
    BY <1>8, <1>10
  <1>12. Where(bs, "block", bi.file_name, bi.start, bi.end, BlockText[GenesisEntry.block])
    BY <1>6, <1>10 DEF GenesisText
  <1>13. Where(us, "undo", ui.file_name, ui.start, ui.end, UndoBlockSerialize(GenesisEntry.undo))
    BY <1>7, <1>10 DEF GenesisUndoText
  <1>14. MadeOf(bs, us, GenesisEntry, bi, ui, GenesisRecord)
    BY <1>9, <1>11, <1>12, <1>13, GenesisEntryFacts, Zenon DEF MadeOf
  <1> QED
    BY <1>4, <1>5, <1>14, RecordMade

\* The inductive invariant holds at the start: Chain's constructor stores the
\* genesis block.
LEMMA InitHolds == Init => IInv
  <1> SUFFICES ASSUME Init
               PROVE  IInv
    OBVIOUS
  <1>1. /\ blocks \in Written(NewStream, GenesisText) /\ undos \in Written(NewStream, GenesisUndoText)
        /\ blockRecords = [h \in BlockHashes |->
                IF h # BlockHash[Genesis] THEN <<>> ELSE BlockRecordSerialize(GenesisRecord)]
        /\ coinRecords = CoinsWith(NoTexts, Genesis.transactions)
        /\ cache = CacheWith(NoTexts, Genesis.transactions)
        /\ tip = Genesis /\ chainLength = 1 /\ stored = <<GenesisEntry>> /\ removed = {}
    BY Zenon DEF Init, InitWith, GenesisText, GenesisUndoText, GenesisRecord, GenesisEntry
  <1>2. StreamGood(blocks) /\ StreamGood(undos) /\ LeadsTo(blocks, undos, GenesisRecord, GenesisEntry)
    BY <1>1, GenesisStored
  <1>3. Genesis \in AllBlocks /\ EntryGood(GenesisEntry) /\ GenesisEntry \in Entries
        /\ GenesisEntry.block = Genesis /\ GenesisEntry.extends = TRUE
    BY GenesisEntryFacts DEF GenesisEntry
  <1> DEFINE S == Entries
  <1>4. stored \in Seq(S) /\ Len(stored) = 1 /\ stored[1] = GenesisEntry
    BY <1>1, <1>3
  <1> HIDE DEF S
  <1>5. ToSet(stored) = {GenesisEntry}
    BY <1>1, ToSetFacts
  <1>6. StoredInv
    <2>1. 1 <= MaxStored
      BY SizeAssumption, ValueFacts
    <2>2. \A i \in 1 .. Len(stored) : EntryGood(stored[i])
      BY <1>3, <1>4
    <2> QED
      BY <1>1, <1>3, <1>4, <2>1, <2>2 DEF StoredInv, S
  <1>7. CoinTexts(coinRecords, removed, OnChain)
    <2>1. OnChain = {} \cup ToSet(Genesis.transactions)
      BY <1>3, <1>5 DEF OnChain
    <2>2. Untouched(Genesis, {}) = {}
      BY DEF Untouched
    <2>3. CoinTexts(CoinsWith(NoTexts, Genesis.transactions), Untouched(Genesis, {}),
                    {} \cup ToSet(Genesis.transactions))
      BY <1>3, NoCoins, CoinsExtended
    <2> QED
      BY <1>1, <2>1, <2>2, <2>3
  <1>8. CacheGood(cache)
    BY <1>1, <1>3, NoCache, CacheExtended
  <1>9. RecordsInv
    <2>1. StoredBlocks = {Genesis}
      BY <1>3, <1>5 DEF StoredBlocks
    <2>2. LastOf(Genesis) = GenesisEntry
      BY <1>5, <2>1, <1>6, StoredFacts
    <2>3. GenesisRecord \in BlockRecords
      BY <1>2 DEF LeadsTo
    <2> DEFINE text == BlockRecordSerialize(GenesisRecord)
    <2>4. text \in Text /\ text # <<>> /\ BlockRecordDeserialize(text) = GenesisRecord
      BY <2>3, BlockRecordTextFacts
    <2>5. blockRecords = [h \in BlockHashes |-> IF h # BlockHash[Genesis] THEN <<>> ELSE text]
      BY <1>1
    <2> HIDE DEF text
    <2>6. BlockHash[Genesis] \in BlockHashes
      BY <1>3, BlockFacts
    <2>7. blockRecords \in [BlockHashes -> Text] /\ blockRecords[BlockHash[Genesis]] = text
          /\ \A h \in BlockHashes : h # BlockHash[Genesis] => blockRecords[h] = <<>>
      BY <2>4, <2>5, <2>6, TextFacts
    <2>8. RecordAt(Genesis) = GenesisRecord
      BY <2>4, <2>7 DEF RecordAt
    <2>9. LeadsTo(blocks, undos, RecordAt(Genesis), LastOf(Genesis))
      BY <1>2, <2>2, <2>8
    <2>10. \A b \in StoredBlocks :
                blockRecords[BlockHash[b]] # <<>> /\ LeadsTo(blocks, undos, RecordAt(b), LastOf(b))
      BY <2>1, <2>4, <2>7, <2>9
    <2>11. \A b \in StoredBlocks : \A c \in StoredBlocks : b # c => Apart(RecordAt(b), RecordAt(c))
      BY <2>1
    <2>12. \A h \in BlockHashes : (\A b \in StoredBlocks : h # BlockHash[b]) => blockRecords[h] = <<>>
      BY <2>1, <2>7
    <2> QED
      BY <2>7, <2>10, <2>11, <2>12 DEF RecordsInv
  <1> QED
    BY <1>2, <1>6, <1>7, <1>8, <1>9 DEF IInv

----------------------------------------------------------------------------
(* The steps. *)

\* The entries of what is stored, one more of them.
LEMMA StoredMoreGood ==
    ASSUME StoredInv, Len(stored) < MaxStored, NEW e, EntryGood(e), e \in Entries,
           stored' = Append(stored, e)
    PROVE  /\ \A i \in 1 .. Len(stored') : EntryGood(stored'[i])
           /\ stored' \in Seq(Entries) /\ Len(stored') = Len(stored) + 1
           /\ Len(stored') > 0 /\ Len(stored') <= MaxStored
           /\ StoredBlocks' = StoredBlocks \cup {e.block}
           /\ e.extends = TRUE => OnChain' = OnChain \cup ToSet(e.block.transactions)
           /\ e.extends = FALSE => OnChain' = OnChain
  <1> DEFINE S == Entries
             n == Len(stored)
  <1>1. stored \in Seq(S) /\ e \in S /\ \A i \in 1 .. n : EntryGood(stored[i])
    BY DEF StoredInv
  <1>2. n \in Nat /\ MaxStored \in Nat /\ n < MaxStored
    BY <1>1, SizeAssumption, ValueFacts
  <1> HIDE DEF S
  <1>3. /\ StoredBlocks' = StoredBlocks \cup {e.block}
        /\ e.extends = TRUE => OnChain' = OnChain \cup ToSet(e.block.transactions)
        /\ e.extends = FALSE => OnChain' = OnChain
    BY <1>1, StoredMore
  <1>4. /\ stored' \in Seq(S) /\ Len(stored') = n + 1 /\ stored'[n + 1] = e
        /\ \A i \in 1 .. n : stored'[i] = stored[i]
    BY <1>1
  <1> HIDE DEF n
  <1>5. \A i \in 1 .. n + 1 : i \in 1 .. n \/ i = n + 1
    BY <1>2
  <1>6. \A i \in 1 .. Len(stored') : EntryGood(stored'[i])
    BY <1>1, <1>4, <1>5
  <1>7. n + 1 > 0 /\ n + 1 <= MaxStored
    BY <1>2
  <1> QED
    BY <1>3, <1>4, <1>6, <1>7 DEF S, n

\* What Store does, for an undo block of the right kind.
LEMMA StoreFacts ==
    ASSUME IInv, NEW b \in AllBlocks, NEW undo, UndoGood(undo), NEW height \in 1 .. MaxStored,
           NEW extends \in BOOLEAN, Store(b, undo, height, extends)
    PROVE  /\ StreamGood(blocks)' /\ StreamGood(undos)' /\ RecordsInv'
           /\ \A i \in 1 .. Len(stored') : EntryGood(stored'[i])
           /\ stored' \in Seq(Entries) /\ Len(stored') = Len(stored) + 1
           /\ Len(stored') > 0 /\ Len(stored') <= MaxStored
           /\ extends = TRUE => OnChain' = OnChain \cup ToSet(b.transactions)
           /\ extends = FALSE => OnChain' = OnChain
  <1> DEFINE e == [block |-> b, undo |-> undo, height |-> height, extends |-> extends]
  <1>1. /\ Len(stored) < MaxStored
        /\ StoreTexts(b, BlockText[b], UndoBlockSerialize(undo), height)
        /\ stored' = Append(stored, e)
    BY Zenon DEF Store
  <1>2. UndoShort(undo)
    BY <1>1 DEF StoreTexts, Writer!Short, UndoShort
  <1>3. EntryGood(e) /\ e \in Entries
    BY <1>2, EntryTyped
  <1>4. e.block = b /\ e.undo = undo /\ e.height = height /\ e.extends = extends
    OBVIOUS
  <1>5. StreamGood(blocks) /\ StreamGood(undos) /\ StoredInv /\ RecordsInv
    BY DEF IInv
  <1> HIDE DEF e
  <1>6. StoreTexts(e.block, BlockText[e.block], UndoBlockSerialize(e.undo), e.height)
    BY <1>1, <1>4
  <1>7. StreamGood(blocks)' /\ StreamGood(undos)' /\ RecordsInv'
    BY <1>1, <1>3, <1>5, <1>6, StoreKeeps
  <1>8. /\ \A i \in 1 .. Len(stored') : EntryGood(stored'[i])
        /\ stored' \in Seq(Entries) /\ Len(stored') = Len(stored) + 1
        /\ Len(stored') > 0 /\ Len(stored') <= MaxStored
        /\ e.extends = TRUE => OnChain' = OnChain \cup ToSet(e.block.transactions)
        /\ e.extends = FALSE => OnChain' = OnChain
    BY <1>1, <1>3, <1>5, StoredMoreGood
  <1> QED
    BY <1>4, <1>7, <1>8

\* handle_block, of a block that extends the chain, keeps the invariant.
LEMMA ExtendKeeps ==
    ASSUME IInv, NEW b \in Block, Extend(b)
    PROVE  IInv'
  <1>1. b \in AllBlocks
    BY DEF AllBlocks
  <1>2. /\ coinRecords' = CoinsWith(coinRecords, b.transactions)
        /\ cache' = CacheWith(cache, b.transactions)
        /\ removed' = Untouched(b, removed)
        /\ chainLength' = chainLength + 1
        /\ tip' = b
    BY DEF Extend, Untouched
  <1>3. PICK undo : undo = UndoBlockOf(coinRecords', cache', b)
    OBVIOUS
  <1>4. PICK height : height = chainLength + 1
    OBVIOUS
  <1>5. Store(b, undo, height, TRUE)
    BY <1>2, <1>3, <1>4 DEF Extend
  <1>6. CoinTexts(coinRecords', removed', OnChain \cup ToSet(b.transactions))
    BY <1>1, <1>2, CoinsExtended DEF IInv
  <1>7. CacheGood(cache')
    BY <1>1, <1>2, CacheExtended DEF IInv
  <1>8. UndoGood(undo)
    BY <1>1, <1>3, <1>6, <1>7, UndoTyped
  <1>9. /\ chainLength \in Nat /\ chainLength >= 1 /\ chainLength <= Len(stored)
        /\ removed \subseteq Removable
    BY DEF IInv, StoredInv
  <1>10. Len(stored) < MaxStored /\ Len(stored) \in Nat /\ MaxStored \in Nat
    <2>1. Len(stored) < MaxStored
      BY <1>5 DEF Store
    <2>2. Len(stored) \in Nat
      BY LenProperties DEF IInv, StoredInv
    <2> QED
      BY <2>1, <2>2, SizeAssumption, ValueFacts
  <1>11. height \in 1 .. MaxStored
    BY <1>4, <1>9, <1>10
  <1>12. /\ StreamGood(blocks)' /\ StreamGood(undos)' /\ RecordsInv'
         /\ \A i \in 1 .. Len(stored') : EntryGood(stored'[i])
         /\ stored' \in Seq(Entries) /\ Len(stored') = Len(stored) + 1
         /\ Len(stored') > 0 /\ Len(stored') <= MaxStored
         /\ OnChain' = OnChain \cup ToSet(b.transactions)
    BY <1>1, <1>5, <1>8, <1>11, StoreFacts
  <1>13. removed' \subseteq Removable
    BY <1>2, <1>9 DEF Untouched
  <1>14. chainLength' \in Nat /\ chainLength' >= 1 /\ chainLength' <= Len(stored')
    BY <1>2, <1>9, <1>10, <1>12
  <1>15. StoredInv'
    BY <1>1, <1>2, <1>12, <1>13, <1>14 DEF StoredInv
  <1>16. CoinTexts(coinRecords, removed, OnChain)'
    BY <1>6, <1>12
  <1> QED
    BY <1>7, <1>12, <1>15, <1>16 DEF IInv

\* The height a lookup gives: that of a record, or 0.
LEMMA HeightTyped ==
    ASSUME IInv, NEW h \in BlockHashes
    PROVE  GetChainLength(h) \in Nat /\ GetChainLength(h) <= MaxStored
  <1>1. CASE blockRecords[h] = <<>>
    <2>1. GetChainLength(h) = 0
      BY <1>1 DEF GetChainLength, GetBlockRecord, HeightIn
    <2> QED
      BY <2>1, SizeAssumption, ValueFacts
  <1>2. CASE blockRecords[h] # <<>>
    <2>1. PICK b \in StoredBlocks : h = BlockHash[b]
      BY <1>2 DEF IInv, RecordsInv
    <2>2. LeadsTo(blocks, undos, RecordAt(b), LastOf(b))
      BY DEF IInv, RecordsInv
    <2>3. GetBlockRecord(h) = RecordAt(b)
      BY <1>2, <2>1 DEF GetBlockRecord, RecordAt
    <2>4. RecordAt(b).height = LastOf(b).height
      BY <2>2 DEF LeadsTo
    <2>5. EntryGood(LastOf(b))
      BY StoredFacts DEF IInv
    <2>6. LastOf(b).height \in Nat /\ LastOf(b).height <= MaxStored
      BY <2>5, EntryFacts
    <2>7. GetChainLength(h) = 0 \/ GetChainLength(h) = LastOf(b).height
      BY <2>3, <2>4 DEF GetChainLength, HeightIn
    <2> QED
      BY <2>6, <2>7, SizeAssumption, ValueFacts
  <1> QED
    BY <1>1, <1>2

\* handle_block, of a block on a fork, keeps the invariant.
LEMMA StoreForkKeeps ==
    ASSUME IInv, NEW b \in Block, StoreFork(b)
    PROVE  IInv'
  <1>1. b \in AllBlocks
    BY DEF AllBlocks
  <1>2. PICK parent : parent = GetChainLength(b.block_header.previous_block_hash)
    OBVIOUS
  <1>3. parent \in Nat /\ parent <= MaxStored
    BY <1>2, HeightTyped DEF StoreFork
  <1>4. PICK undo : undo = UndoBlockOf(coinRecords, cache, b)
    OBVIOUS
  <1>5. parent # 0 /\ parent + 1 <= chainLength /\ Store(b, undo, parent + 1, FALSE)
        /\ UNCHANGED <<coinRecords, cache, tip, chainLength, removed>>
    BY <1>2, <1>4 DEF StoreFork, StoreAt
  <1>6. CoinTexts(coinRecords, removed, OnChain) /\ CacheGood(cache)
    BY DEF IInv
  <1>7. UndoGood(undo)
    BY <1>1, <1>4, <1>6, UndoTyped
  <1>8. /\ chainLength \in Nat /\ chainLength >= 1 /\ chainLength <= Len(stored)
        /\ Len(stored) <= MaxStored /\ removed \subseteq Removable /\ tip \in AllBlocks
    BY DEF IInv, StoredInv
  <1>9. Len(stored) \in Nat /\ MaxStored \in Nat
    BY LenProperties, SizeAssumption, ValueFacts DEF IInv, StoredInv
  <1>10. parent + 1 \in 1 .. MaxStored
    BY <1>3, <1>5, <1>8, <1>9
  <1>11. PICK height : height = parent + 1
    OBVIOUS
  <1>12. /\ StreamGood(blocks)' /\ StreamGood(undos)' /\ RecordsInv'
         /\ \A i \in 1 .. Len(stored') : EntryGood(stored'[i])
         /\ stored' \in Seq(Entries) /\ Len(stored') = Len(stored) + 1
         /\ Len(stored') > 0 /\ Len(stored') <= MaxStored
         /\ OnChain' = OnChain
    BY <1>1, <1>5, <1>7, <1>10, <1>11, StoreFacts
  <1>13. StoredInv'
    BY <1>5, <1>8, <1>9, <1>12 DEF StoredInv
  <1>14. CoinTexts(coinRecords, removed, OnChain)' /\ CacheGood(cache)'
    BY <1>5, <1>6, <1>12
  <1> QED
    BY <1>12, <1>13, <1>14 DEF IInv

\* What a step that stores nothing leaves alone.
LEMMA StoredSame ==
    ASSUME UNCHANGED <<blocks, undos, blockRecords, stored>>
    PROVE  /\ StreamGood(blocks)' = StreamGood(blocks) /\ StreamGood(undos)' = StreamGood(undos)
           /\ OnChain' = OnChain
           /\ RecordsInv => RecordsInv'
  <1>1. StreamGood(blocks)' = StreamGood(blocks) /\ StreamGood(undos)' = StreamGood(undos)
    OBVIOUS
  <1>2. OnChain' = OnChain /\ StoredBlocks' = StoredBlocks
    BY DEF OnChain, StoredBlocks
  <1>3. \A b : LastOf(b)' = LastOf(b) /\ RecordAt(b)' = RecordAt(b)
    BY DEF LastOf, RecordAt, SelectLastInSeq
  <1>4. RecordsInv => RecordsInv'
    BY <1>2, <1>3 DEF RecordsInv
  <1> QED
    BY <1>1, <1>2, <1>4

\* Removing a coin keeps the invariant.
LEMMA RemoveKeeps ==
    ASSUME IInv, NEW r \in Removable, RemoveCoin(r[1], r[2])
    PROVE  IInv'
  <1>1. r \in TxHashes \X Nat /\ r[1] \in TxHashes /\ r = <<r[1], r[2]>>
    BY RemovableAssumption
  <1>2. PICK h \in TxHashes : h = r[1]
    BY <1>1
  <1>3. PICK i : i = r[2]
    OBVIOUS
  <1>4. /\ coinRecords' = [coinRecords EXCEPT ![h] =
                CoinRecordSerialize(Without(CoinRecordDeserialize(coinRecords[h]), i))]
        /\ removed' = removed \cup {<<h, i>>}
        /\ UNCHANGED <<blocks, undos, blockRecords, cache, tip, chainLength, stored>>
    BY <1>2, <1>3 DEF RemoveCoin, GetCoinRecord
  <1>5. CoinTexts(coinRecords', removed', OnChain)
    BY <1>4, CoinsRemoved DEF IInv
  <1>6. StreamGood(blocks)' /\ StreamGood(undos)' /\ OnChain' = OnChain /\ RecordsInv'
    BY <1>4, StoredSame DEF IInv
  <1>7. StoredInv'
    BY <1>1, <1>2, <1>3, <1>4 DEF IInv, StoredInv
  <1>8. CacheGood(cache)'
    BY <1>4 DEF IInv
  <1>9. CoinTexts(coinRecords, removed, OnChain)'
    BY <1>5, <1>6
  <1> QED
    BY <1>6, <1>7, <1>8, <1>9 DEF IInv

\* A step that changes nothing keeps the invariant.
LEMMA StutterKeeps == IInv /\ UNCHANGED vars => IInv'
  <1> SUFFICES ASSUME IInv, UNCHANGED vars
               PROVE  IInv'
    OBVIOUS
  <1>1. UNCHANGED <<blocks, undos, blockRecords, stored>>
        /\ UNCHANGED <<coinRecords, cache, tip, chainLength, removed>>
    BY DEF vars
  <1>2. StreamGood(blocks)' /\ StreamGood(undos)' /\ OnChain' = OnChain /\ RecordsInv'
    BY <1>1, StoredSame DEF IInv
  <1>3. StoredInv'
    BY <1>1 DEF IInv, StoredInv
  <1>4. CacheGood(cache)' /\ CoinTexts(coinRecords, removed, OnChain)'
    BY <1>1, <1>2 DEF IInv
  <1> QED
    BY <1>2, <1>3, <1>4 DEF IInv

\* The inductive invariant holds in every state.
THEOREM InductiveInvariant == Spec => []IInv
  <1>1. Init => IInv
    BY InitHolds
  <1>2. IInv /\ [Next]_vars => IInv'
    <2> SUFFICES ASSUME IInv, [Next]_vars
                 PROVE  IInv'
      OBVIOUS
    <2>1. ASSUME NEW b \in Block, Extend(b)
          PROVE  IInv'
      BY <2>1, ExtendKeeps
    <2>2. ASSUME NEW b \in Block, StoreFork(b)
          PROVE  IInv'
      BY <2>2, StoreForkKeeps
    <2>3. ASSUME NEW r \in Removable, RemoveCoin(r[1], r[2])
          PROVE  IInv'
      BY <2>3, RemoveKeeps
    <2>4. CASE UNCHANGED vars
      BY <2>4, StutterKeeps
    <2> QED
      BY <2>1, <2>2, <2>3, <2>4, Zenon DEF Next
  <1> QED
    BY <1>1, <1>2, PTL DEF Spec

----------------------------------------------------------------------------
(* The invariants the runs check. *)

\* The invariant implies type correctness.
LEMMA TypeHolds == IInv => TypeOK
  <1> SUFFICES ASSUME IInv
               PROVE  TypeOK
    OBVIOUS
  <1>1. blocks \in Writer!Stream /\ undos \in Writer!Stream
    BY DEF IInv, StreamGood
  <1>2. blockRecords \in [BlockHashes -> Text]
    BY DEF IInv, RecordsInv
  <1>3. coinRecords \in [TxHashes -> Text] /\ cache \in [TxHashes -> Seq(TransactionOutputs)]
    BY DEF IInv, CoinTexts, CacheGood
  <1>4. tip \in AllBlocks /\ removed \subseteq Removable
    BY DEF IInv, StoredInv
  <1>5. chainLength \in 1 .. MaxStored
    <2>1. chainLength \in Nat /\ chainLength >= 1 /\ chainLength <= Len(stored)
          /\ Len(stored) <= MaxStored
      BY DEF IInv, StoredInv
    <2>2. Len(stored) \in Nat /\ MaxStored \in Nat
      BY LenProperties, SizeAssumption, ValueFacts DEF IInv, StoredInv
    <2> QED
      BY <2>1, <2>2
  <1> QED
    BY <1>1, <1>2, <1>3, <1>4, <1>5 DEF TypeOK

\* Every variable has its type in every state.
THEOREM TypeCorrect == Spec => []TypeOK
  BY InductiveInvariant, TypeHolds, PTL

\* The record of a stored block, as a lookup gives it.
LEMMA RecordFound ==
    ASSUME IInv, NEW b \in StoredBlocks
    PROVE  /\ GetBlockRecord(BlockHash[b]) = RecordAt(b)
           /\ RecordAt(b) # Null
           /\ BlockHash[b] \in BlockHashes
           /\ LeadsTo(blocks, undos, RecordAt(b), LastOf(b))
           /\ EntryGood(LastOf(b)) /\ LastOf(b).block = b /\ b \in AllBlocks
  <1>1. blockRecords[BlockHash[b]] # <<>> /\ LeadsTo(blocks, undos, RecordAt(b), LastOf(b))
    BY DEF IInv, RecordsInv
  <1>2. GetBlockRecord(BlockHash[b]) = RecordAt(b)
    BY <1>1 DEF GetBlockRecord, RecordAt
  <1>3. StoredBlocks \subseteq AllBlocks /\ EntryGood(LastOf(b)) /\ LastOf(b).block = b
    BY StoredFacts DEF IInv
  <1>4. BlockHash[b] \in BlockHashes
    BY <1>3, BlockFacts
  <1>5. RecordAt(b) # Null
    <2>1. \A r \in BlockRecords : DOMAIN r # {"null"}
      BY DEF BlockRecords
    <2>2. DOMAIN Null = {"null"}
      BY DEF Null
    <2>3. RecordAt(b) \in BlockRecords
      BY <1>1 DEF LeadsTo
    <2> QED
      BY <2>1, <2>2, <2>3
  <1> QED
    BY <1>1, <1>2, <1>3, <1>4, <1>5

\* The offsets of a record tell how long the text is.
LEMMA WhereLength ==
    ASSUME NEW s, NEW stream, NEW name, NEW start \in UInt16, NEW end \in UInt16, NEW text \in Text,
           Where(s, stream, name, start, end, text)
    PROVE  end - start = Len(text)
  <1>1. end = start + Len(text)
    BY DEF Where
  <1>2. start \in Nat /\ Len(text) \in Nat
    BY UInt16Facts, TextFacts
  <1> QED
    BY <1>1, <1>2

\* The invariant implies that the records are exact.
LEMMA RecordsHold == IInv => RecordsExact
  <1> SUFFICES ASSUME IInv
               PROVE  RecordsExact
    OBVIOUS
  <1> DEFINE rs == [h \in BlockHashes |-> GetBlockRecord(h)]
  <1>1. /\ LastStored = { LastOf(b) : b \in StoredBlocks }
        /\ StoredHashes = { BlockHash[b] : b \in StoredBlocks }
    BY StoredFacts DEF IInv
  <1>2. \A b \in StoredBlocks : rs[BlockHash[b]] = RecordAt(b)
    BY RecordFound
  <1>3. \A h \in BlockHashes \ StoredHashes : rs[h] = Null
    <2> TAKE h \in BlockHashes \ StoredHashes
    <2>1. \A b \in StoredBlocks : h # BlockHash[b]
      BY <1>1
    <2>2. blockRecords[h] = <<>>
      BY <2>1 DEF IInv, RecordsInv
    <2> QED
      BY <2>2 DEF GetBlockRecord
  <1> HIDE DEF rs
  <1>4. \A s \in LastStored : Describes(rs[BlockHash[s.block]], s)
    <2> TAKE s \in LastStored
    <2>1. PICK b \in StoredBlocks : s = LastOf(b)
      BY <1>1
    <2>2. s.block = b /\ EntryGood(s) /\ LeadsTo(blocks, undos, RecordAt(b), s)
      BY <2>1, RecordFound
    <2> DEFINE r == RecordAt(b)
    <2>3. rs[BlockHash[s.block]] = r
      BY <1>2, <2>2
    <2> HIDE DEF r
    <2>4. LeadsTo(blocks, undos, r, s)
      BY <2>2 DEF r
    <2>5. /\ r.block_header = s.block.block_header
          /\ r.num_transactions = Len(s.block.transactions) /\ r.height = s.height
      BY <2>4 DEF LeadsTo
    <2>6. /\ r.block_offset_start \in UInt16 /\ r.block_offset_end \in UInt16
          /\ r.undo_offset_start \in UInt16 /\ r.undo_offset_end \in UInt16
      BY <2>4 DEF LeadsTo, BlockRecords
    <2>7. /\ Where(blocks, "block", r.block_file_stored, r.block_offset_start, r.block_offset_end,
                   BlockText[s.block])
          /\ Where(undos, "undo", r.undo_file_stored, r.undo_offset_start, r.undo_offset_end,
                   UndoBlockSerialize(s.undo))
      BY <2>4 DEF LeadsTo
    <2>8. BlockText[s.block] \in Text /\ UndoBlockSerialize(s.undo) \in Text
      BY <2>2, EntryFacts
    <2>9. r.block_offset_end - r.block_offset_start = Len(BlockText[s.block])
      BY <2>6, <2>7, <2>8, WhereLength
    <2>10. r.undo_offset_end - r.undo_offset_start = Len(UndoBlockSerialize(s.undo))
      BY <2>6, <2>7, <2>8, WhereLength
    <2> QED
      BY <2>3, <2>5, <2>9, <2>10 DEF Describes
  <1>5. \A h, g \in StoredHashes : h # g => Apart(rs[h], rs[g])
    <2> SUFFICES ASSUME NEW h \in StoredHashes, NEW g \in StoredHashes, h # g
                 PROVE  Apart(rs[h], rs[g])
      OBVIOUS
    <2>1. PICK b \in StoredBlocks : h = BlockHash[b]
      BY <1>1
    <2>2. PICK c \in StoredBlocks : g = BlockHash[c]
      BY <1>1
    <2>3. Apart(RecordAt(b), RecordAt(c))
      BY <2>1, <2>2 DEF IInv, RecordsInv
    <2> QED
      BY <1>2, <2>1, <2>2, <2>3, Zenon
  <1>6. RecordsOf(rs)
    BY <1>3, <1>4, <1>5 DEF RecordsOf
  <1> QED
    BY <1>6, Zenon DEF RecordsExact, rs

\* The block records that the database returns are those of the blocks stored
\* last under their hashes; their offsets delimit as many bytes as were
\* serialized, and no two blocks share any of them.
THEOREM RecordsAreExact == Spec => []RecordsExact
  BY InductiveInvariant, RecordsHold, PTL

\* The invariant implies that the coin records are exact.
LEMMA CoinsHold == IInv => CoinRecordsExact
  <1> SUFFICES ASSUME IInv, NEW t \in AllTransactions
               PROVE  IF t \in OnChain
                      THEN GetCoinRecord(TxHash[t]) = RecordOfOutputs(t, Left(t))
                      ELSE coinRecords[TxHash[t]] = <<>>
    BY DEF CoinRecordsExact
  <1>1. coinRecords[TxHash[t]] = IF t \in OnChain
                                 THEN CoinRecordSerialize(RecordOfOutputs(t, LeftOf(t, removed)))
                                 ELSE <<>>
    BY DEF IInv, CoinTexts
  <1>2. CoinRecordDeserialize(CoinRecordSerialize(RecordOfOutputs(t, LeftOf(t, removed))))
            = RecordOfOutputs(t, LeftOf(t, removed))
    BY RecordLeft
  <1>3. Left(t) = LeftOf(t, removed)
    BY LeftIs
  <1> QED
    BY <1>1, <1>2, <1>3 DEF GetCoinRecord

\* The coin record that is deserialized for a transaction on the chain is that
\* of the outputs nobody removed.
THEOREM CoinRecordsAreExact == Spec => []CoinRecordsExact
  BY InductiveInvariant, CoinsHold, PTL

\* The invariant implies that a text has a NUL exactly where the message says.
LEMMA NulHolds == IInv => NulExact
  <1> SUFFICES ASSUME IInv, NEW s \in ToSet(stored)
               PROVE  /\ (0 \in ToSet(BlockText[s.block])) = ~LegibleBlock(s.block)
                      /\ (0 \in ToSet(UndoBlockSerialize(s.undo))) = ~LegibleUndoBlock(s.undo)
    BY DEF NulExact
  <1>1. s.block \in AllBlocks /\ UndoGood(s.undo) /\ UndoShort(s.undo)
    BY StoredFacts DEF IInv, EntryGood
  <1>2. 0 \in ToSet(BlockText[s.block]) <=> ZeroBlock(s.block)
    BY <1>1, BlockFacts
  <1>3. ZeroBlock(s.block) <=> ~LegibleBlock(s.block)
    BY <1>1, LegibleBlockIs
  <1>4. 0 \in ToSet(UndoBlockSerialize(s.undo)) <=> ~LegibleUndoBlock(s.undo)
    BY <1>1, UndoFacts
  <1>5. LegibleBlock(s.block) \in BOOLEAN /\ LegibleUndoBlock(s.undo) \in BOOLEAN
    BY DEF LegibleBlock, LegibleUndoBlock
  <1>6. (0 \in ToSet(BlockText[s.block])) = ~LegibleBlock(s.block)
    BY <1>2, <1>3, <1>5
  <1>7. (0 \in ToSet(UndoBlockSerialize(s.undo))) = ~LegibleUndoBlock(s.undo)
    BY <1>4, <1>5
  <1> QED
    BY <1>6, <1>7

\* A stored text has a 0, at which strcpy cuts it off, if and only if its
\* block or undo block is not legible.
THEOREM NulIsExact == Spec => []NulExact
  BY InductiveInvariant, NulHolds, PTL

\* A legible block is read back.
LEMMA BlockReads ==
    ASSUME IInv, NEW b \in StoredBlocks
    PROVE  LegibleBlock(b) => GetBlock(BlockHash[b]) = b
  <1> HAVE LegibleBlock(b)
  <1> DEFINE r == RecordAt(b)
             text == BlockText[b]
             s == LastOf(b)
             read == ReadText("block", r.block_file_stored, r.block_offset_start, r.block_offset_end)
  <1>1. /\ GetBlockRecord(BlockHash[b]) = r /\ r # Null
        /\ LeadsTo(blocks, undos, r, s) /\ EntryGood(s) /\ s.block = b /\ b \in AllBlocks
    BY RecordFound
  <1>2. text \in Text /\ BlockDeserialize(text) = b /\ (0 \in ToSet(text) <=> ZeroBlock(b))
    BY <1>1, BlockFacts
  <1>3. 0 \notin ToSet(text)
    BY <1>1, <1>2, LegibleBlockIs
  <1>4. Where(blocks, "block", r.block_file_stored, r.block_offset_start, r.block_offset_end, text)
    BY <1>1 DEF LeadsTo
  <1>5. StreamGood(blocks)
    BY DEF IInv
  <1> HIDE DEF r, text, s
  <1>6. /\ read \in Text /\ Len(read) = Len(text)
        /\ \A i \in 1 .. Len(text) : i < StringEnd(text) => read[i] = text[i]
        /\ 0 \notin ToSet(text) => read = text
    BY <1>2, <1>4, <1>5, ReadWhere
  <1>8. ReadBlock(r) = read
    BY Zenon DEF ReadBlock
  <1> HIDE DEF read
  <1>9. ReadBlock(r) = text
    BY <1>3, <1>6, <1>8
  <1>7. BlockUnder(r) = b
    BY <1>1, <1>2, <1>9 DEF BlockUnder
  <1> QED
    BY <1>1, <1>7 DEF GetBlock

\* The invariant implies that blocks are read back.
LEMMA BlocksHold == IInv => BlocksReadBack
  <1> SUFFICES ASSUME IInv, NEW s \in LastStored
               PROVE  LegibleBlock(s.block) => GetBlock(BlockHash[s.block]) = s.block
    BY DEF BlocksReadBack
  <1>1. PICK b \in StoredBlocks : s = LastOf(b)
    BY StoredFacts DEF IInv
  <1>2. s.block = b
    BY <1>1, StoredFacts DEF IInv
  <1> QED
    BY <1>2, BlockReads

\* Every stored block that is legible is read from its file as it was stored.
THEOREM BlocksAreReadBack == Spec => []BlocksReadBack
  BY InductiveInvariant, BlocksHold, PTL

\* What is read for the undo block of a stored block.
LEMMA UndoReads ==
    ASSUME IInv, NEW b \in StoredBlocks
    PROVE  LET u == LastOf(b).undo
               text == UndoBlockSerialize(u)
               read == ReadUndoBlock(GetBlockRecord(BlockHash[b]))
           IN  /\ UndoGood(u) /\ UndoShort(u)
               /\ read \in Text /\ Len(read) = Len(text)
               /\ \A i \in 1 .. Len(text) : i < StringEnd(text) => read[i] = text[i]
               /\ 0 \notin ToSet(text) => read = text
               /\ GetUndoBlock(BlockHash[b]) = UndoBlockDeserialize(read)
  <1> DEFINE r == RecordAt(b)
             s == LastOf(b)
             u == s.undo
             text == UndoBlockSerialize(u)
             read == ReadText("undo", r.undo_file_stored, r.undo_offset_start, r.undo_offset_end)
  <1>1. /\ GetBlockRecord(BlockHash[b]) = r /\ r # Null
        /\ LeadsTo(blocks, undos, r, s) /\ EntryGood(s)
    BY RecordFound
  <1>2. UndoGood(u) /\ UndoShort(u) /\ text \in Text
    BY <1>1, EntryFacts DEF EntryGood
  <1>3. Where(undos, "undo", r.undo_file_stored, r.undo_offset_start, r.undo_offset_end, text)
    BY <1>1 DEF LeadsTo
  <1>4. StreamGood(undos)
    BY DEF IInv
  <1>5. ReadUndoBlock(r) = read
    BY Zenon DEF ReadUndoBlock
  <1> HIDE DEF r, text, s, u
  <1>6. /\ read \in Text /\ Len(read) = Len(text)
        /\ \A i \in 1 .. Len(text) : i < StringEnd(text) => read[i] = text[i]
        /\ 0 \notin ToSet(text) => read = text
    BY <1>2, <1>3, <1>4, ReadWhere
  <1>7. GetUndoBlock(BlockHash[b]) = UndoBlockDeserialize(read)
    BY <1>1, <1>5 DEF GetUndoBlock, UndoBlockUnder
  <1>8. ReadUndoBlock(GetBlockRecord(BlockHash[b])) = read
    BY <1>1, <1>5
  <1> HIDE DEF read
  <1> QED
    BY <1>2, <1>6, <1>7, <1>8 DEF text, u, s

\* The invariant implies that undo blocks are read back.
LEMMA UndosHold == IInv => UndosReadBack
  <1> SUFFICES ASSUME IInv, NEW s \in LastStored
               PROVE  LegibleUndoBlock(s.undo) => GetUndoBlock(BlockHash[s.block]) = s.undo
    BY DEF UndosReadBack
  <1> HAVE LegibleUndoBlock(s.undo)
  <1>1. PICK b \in StoredBlocks : s = LastOf(b)
    BY StoredFacts DEF IInv
  <1>2. s.block = b
    BY <1>1, StoredFacts DEF IInv
  <1> DEFINE u == LastOf(b).undo
             text == UndoBlockSerialize(u)
             read == ReadUndoBlock(GetBlockRecord(BlockHash[b]))
  <1>3. /\ UndoGood(u) /\ UndoShort(u) /\ (0 \notin ToSet(text) => read = text)
        /\ GetUndoBlock(BlockHash[b]) = UndoBlockDeserialize(read)
    BY UndoReads
  <1>4. UndoBlockDeserialize(text) = u /\ (0 \in ToSet(text) <=> ~LegibleUndoBlock(u))
    BY <1>3, UndoFacts
  <1>5. LegibleUndoBlock(u)
    BY <1>1
  <1> HIDE DEF u, text, read
  <1>6. GetUndoBlock(BlockHash[b]) = u
    BY <1>3, <1>4, <1>5
  <1> QED
    BY <1>1, <1>2, <1>6 DEF u

\* Every stored undo block that is legible is read from its file as it was
\* stored.
THEOREM UndosAreReadBack == Spec => []UndosReadBack
  BY InductiveInvariant, UndosHold, PTL

\* Reading a text of which the bytes before the first 0 are known keeps a prefix
\* that has no 0.
ReadOf(read, text) ==
    /\ read \in Text /\ Len(read) = Len(text)
    /\ \A i \in 1 .. Len(text) : i < StringEnd(text) => read[i] = text[i]

StartsWith(text, p) == \E rest \in Text : text = p \o rest

\* What is read keeps a first part that has no 0.
LEMMA PrefixKept ==
    ASSUME NEW text \in Text, NEW read, ReadOf(read, text),
           NEW p \in Text, 0 \notin ToSet(p), StartsWith(text, p)
    PROVE  StartsWith(read, p)
  <1> PICK rest \in Text : text = p \o rest
    BY DEF StartsWith
  <1> USE DEF ReadOf
  <1> DEFINE n == Len(p)
             m == Len(text)
             other == SubSeq(read, n + 1, m)
  <1>1. p \in Seq(Byte) /\ rest \in Seq(Byte) /\ text \in Seq(Byte) /\ read \in Seq(Byte)
    BY DEF Text
  <1>2. n \in Nat /\ m \in Nat /\ n <= m /\ \A i \in 1 .. n : text[i] = p[i]
    BY <1>1
  <1>3. \A i \in 1 .. n : p[i] # 0
    BY <1>1, ToSetFacts
  <1> DEFINE e == StringEnd(text)
  <1>4. e \in 1 .. m + 1 /\ (e <= m => text[e] = 0)
    BY StringEndFacts
  <1> HIDE DEF n, m, e
  <1>5. e \in Nat /\ e >= 1
    BY <1>4
  <1>6. n < e
    <2> SUFFICES ASSUME e <= n
                 PROVE  FALSE
      BY <1>2, <1>5
    <2>1. e \in 1 .. n /\ e <= m
      BY <1>2, <1>5
    <2> QED
      BY <1>2, <1>3, <1>4, <2>1
  <1>7. \A i \in 1 .. n : read[i] = p[i]
    <2> TAKE i \in 1 .. n
    <2>1. i \in 1 .. m /\ i < e
      BY <1>2, <1>5, <1>6
    <2> QED
      BY <1>2, <2>1 DEF m, e
  <1>8. other \in Seq(Byte) /\ Len(other) = m - n /\ \A i \in 1 .. m - n : other[i] = read[n + i]
    BY <1>1, <1>2 DEF m
  <1> HIDE DEF other
  <1>9. /\ p \o other \in Seq(Byte) /\ Len(p \o other) = m
        /\ \A i \in 1 .. n : (p \o other)[i] = p[i]
        /\ \A i \in 1 .. m - n : (p \o other)[n + i] = other[i]
    BY <1>1, <1>2, <1>8 DEF n
  <1>10. \A i \in 1 .. m : read[i] = (p \o other)[i]
    <2> TAKE i \in 1 .. m
    <2>1. CASE i <= n
      <3>1. i \in 1 .. n
        BY <1>2, <2>1
      <3>2. read[i] = p[i]
        BY <1>7, <3>1
      <3>3. (p \o other)[i] = p[i]
        BY <1>9, <3>1
      <3> QED
        BY <3>2, <3>3, Zenon
    <2>2. CASE i > n
      <3>1. i - n \in 1 .. m - n /\ n + (i - n) = i
        BY <1>2, <2>2
      <3>2. other[i - n] = read[n + (i - n)]
        BY <1>8, <3>1
      <3>3. (p \o other)[n + (i - n)] = other[i - n]
        BY <1>9, <3>1
      <3> QED
        BY <3>1, <3>2, <3>3, Zenon
    <2>3. i <= n \/ i > n
      BY <1>2
    <2> QED
      BY <2>1, <2>2, <2>3, Zenon
  <1>11. read = p \o other
    BY <1>1, <1>9, <1>10, SameSequence, SMTT(40) DEF m
  <1> QED
    BY <1>8, <1>11 DEF Text, StartsWith

\* Whatever is read for an undo block of which no transaction hash is 0 keeps them.
LEMMA HashesRead ==
    ASSUME NEW u \in ShortUndos, 0 \notin ToSet(u.transaction_hashes), UndoText(u) \in Text,
           NEW read, ReadOf(read, UndoText(u))
    PROVE  IsPrefix(u.transaction_hashes, PUndoBlockParse(read).transaction_hashes)
  <1> DEFINE text == UndoText(u)
             p == Packed(1, u.transaction_hashes)
  <1>1. /\ WrittenAs(p, PackedFieldSize(u.transaction_hashes),
                     0 \in ToSet(u.transaction_hashes), PackedFields(1, u.transaction_hashes))
        /\ \E rest \in Text : text = p \o rest
    BY UndoWritten
  <1>2. p \in Text /\ 0 \notin ToSet(p)
    BY <1>1 DEF WrittenAs
  <1>3. text \in Text /\ ReadOf(read, text)
    OBVIOUS
  <1>4. StartsWith(text, p)
    BY <1>1, Zenon DEF StartsWith
  <1> HIDE DEF text, p
  <1>7. StartsWith(read, p)
    BY <1>2, <1>3, <1>4, PrefixKept
  <1>5. PICK other \in Text : read = p \o other
    BY <1>7, Zenon DEF StartsWith
  <1>6. IsPrefix(u.transaction_hashes, PUndoBlockParse(p \o other).transaction_hashes)
    BY HashesFirst DEF p
  <1> QED
    BY <1>5, <1>6, Zenon

\* The invariant implies that the hashes of an undo block are kept.
LEMMA HashesHold == IInv => UndoHashesKept
  <1> SUFFICES ASSUME IInv, NEW s \in LastStored
               PROVE  IsPrefix(s.undo.transaction_hashes,
                               PUndoBlockParse(ReadUndoBlock(GetBlockRecord(BlockHash[s.block])))
                                    .transaction_hashes)
    BY DEF UndoHashesKept
  <1>1. PICK b \in StoredBlocks : s = LastOf(b)
    BY StoredFacts DEF IInv
  <1>2. s.block = b
    BY <1>1, StoredFacts DEF IInv
  <1> DEFINE u == LastOf(b).undo
             text == UndoBlockSerialize(u)
             read == ReadUndoBlock(GetBlockRecord(BlockHash[b]))
  <1>3. /\ UndoGood(u) /\ UndoShort(u) /\ ReadOf(read, text)
    BY UndoReads DEF ReadOf
  <1>4. /\ text \in Text /\ u \in ShortUndos /\ text = UndoText(u)
        /\ 0 \notin ToSet(u.transaction_hashes)
    BY <1>3, UndoFacts
  <1> HIDE DEF text, read, u
  <1>5. ReadOf(read, UndoText(u)) /\ UndoText(u) \in Text
    BY <1>3, <1>4
  <1>6. IsPrefix(u.transaction_hashes, PUndoBlockParse(read).transaction_hashes)
    BY <1>4, <1>5, HashesRead
  <1> QED
    BY <1>1, <1>2, <1>6, Zenon DEF u, read

\* Whatever is read for an undo block begins with the transaction hashes that
\* were stored, even where strcpy cut the rest off.
THEOREM UndoHashesAreKept == Spec => []UndoHashesKept
  BY InductiveInvariant, HashesHold, PTL

\* The invariant implies that the parts of a block survive.
LEMMA PartsHold == IInv => PartsRoundTrip
  <1> SUFFICES ASSUME IInv
               PROVE  PartsRoundTrip
    OBVIOUS
  <1> DEFINE b == Last(stored).block
  <1>1. b \in Blocks
    <2>1. stored \in Seq(Entries) /\ Len(stored) > 0
          /\ \A i \in 1 .. Len(stored) : EntryGood(stored[i])
      BY DEF IInv, StoredInv
    <2>2. Len(stored) \in Nat
      BY <2>1, LenProperties
    <2>3. Last(stored) = stored[Len(stored)] /\ Len(stored) \in 1 .. Len(stored)
      BY <2>1, <2>2 DEF Last
    <2>4. b \in AllBlocks
      BY <2>1, <2>3 DEF EntryGood
    <2> QED
      BY <2>4, BlockFacts
  <1> HIDE DEF b
  <1>2. b.block_header \in BlockHeaders /\ b.transactions \in Seq(Transactions)
    BY <1>1 DEF Blocks
  <1>3. \A t \in ToSet(b.transactions) : t \in Transactions
    <2> DEFINE T == Transactions
    <2>1. b.transactions \in Seq(T)
      BY <1>2
    <2> HIDE DEF T
    <2>2. ToSet(b.transactions) \subseteq T
      BY <2>1, ToSetFacts
    <2> QED
      BY <2>2 DEF T
  <1>4. BlockHeaderDeserialize(BlockHeaderSerialize(b.block_header)) = b.block_header
    BY <1>2, BlockHeaderRoundTrip
  <1>5. ASSUME NEW t \in ToSet(b.transactions)
        PROVE  /\ TransactionDeserialize(TransactionSerialize(t)) = t
               /\ \A input \in ToSet(t.transaction_inputs) :
                    TransactionInputDeserialize(TransactionInputSerialize(input)) = input
               /\ \A output \in ToSet(t.transaction_outputs) :
                    TransactionOutputDeserialize(TransactionOutputSerialize(output)) = output
    <2>1. t \in Transactions
      BY <1>3, <1>5
    <2> DEFINE TI == TransactionInputs
               TO == TransactionOutputs
    <2>2. t.transaction_inputs \in Seq(TI) /\ t.transaction_outputs \in Seq(TO)
      BY <2>1 DEF Transactions
    <2> HIDE DEF TI, TO
    <2>3. ToSet(t.transaction_inputs) \subseteq TI
      BY <2>2, ToSetFacts
    <2>4. ToSet(t.transaction_outputs) \subseteq TO
      BY <2>2, ToSetFacts
    <2>5. \A input \in ToSet(t.transaction_inputs) :
             TransactionInputDeserialize(TransactionInputSerialize(input)) = input
      BY <2>3, TransactionInputRoundTrip DEF TI
    <2>6. \A output \in ToSet(t.transaction_outputs) :
             TransactionOutputDeserialize(TransactionOutputSerialize(output)) = output
      BY <2>4, TransactionOutputRoundTrip DEF TO
    <2>7. TransactionDeserialize(TransactionSerialize(t)) = t
      BY <2>1, TransactionRoundTrip
    <2> QED
      BY <2>5, <2>6, <2>7
  <1> QED
    BY <1>4, <1>5, Zenon DEF PartsRoundTrip, b

\* The header, the transactions, the inputs and the outputs of the block
\* stored last are each deserialized as they were.
THEOREM PartsSurvive == Spec => []PartsRoundTrip
  BY InductiveInvariant, PartsHold, PTL
=============================================================================
