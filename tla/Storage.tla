------------------------------ MODULE Storage ------------------------------
(***************************************************************************)
(* What a node writes down of a block, and what it reads back: the bytes   *)
(* that Chain, ChainWriter, BlockInfoDatabase and CoinDatabase store when  *)
(* a block is handled.                                                     *)
(*                                                                         *)
(* Values are stored as the texts their serialize gives, under the hashes  *)
(* of texts: blocks and undo blocks in files, block records and coin       *)
(* records in databases, in which a missing entry and an empty text are    *)
(* the same.  Which block is the tip, and what a reorganisation does, is   *)
(* the subject of Chain; here forks are stored and none overtakes.         *)
(***************************************************************************)
EXTENDS Primitives

CONSTANTS
    Hash(_),        \* RathCrypto::hash, of a text
    Block,          \* the blocks that arrive
    UnknownHash,    \* a hash of no block and no transaction
    Residues,       \* bound: what an uninitialised buffer may hold, over and over
    MaxFileSize,    \* _max_block_file_size and _max_undo_file_size: 1000
    Window,         \* 5: how deep a fork may be
    MaxFileNumber,  \* bound: the last file of a stream
    MaxStored,      \* bound: blocks stored, the genesis block among them
    Removable,      \* bound: the coins that may be removed, as <<hash, index>>
    MaxRemoved      \* bound: coins removed from their records

\* construct_genesis_block.
Genesis ==
    [block_header |-> [version |-> 1, previous_block_hash |-> 0, merkle_root |-> 0,
                       difficulty_target |-> 0, nonce |-> 0, timestamp |-> 0],
     transactions |-> <<
        [version |-> 1,
         transaction_inputs |->
            <<[reference_transaction_hash |-> 0, utxo_index |-> 0, signature |-> 0]>>,
         transaction_outputs |->
            <<[amount |-> 100, public_key |-> 12345], [amount |-> 200, public_key |-> 67891],
              [amount |-> 300, public_key |-> 23456]>>,
         lock_time |-> 1]>>]

AllBlocks == Block \cup {Genesis}
AllTransactions == UNION { ToSet(b.transactions) : b \in AllBlocks }

\* The texts and hashes of the values, each computed once.
BlockText == [b \in AllBlocks |-> BlockSerialize(b)]
BlockHash == [b \in AllBlocks |-> Hash(BlockText[b])]
TxHash    == [t \in AllTransactions |-> Hash(TransactionSerialize(t))]

BlockHashes == { BlockHash[b] : b \in AllBlocks } \cup {UnknownHash}
TxHashes    == { TxHash[t] : t \in AllTransactions } \cup {UnknownHash}

ASSUME BlockAssumption ==
    Block \subseteq Blocks /\ \A b \in AllBlocks : Len(BlockText[b]) + 1 < Word2
\* No two hashes collide, and none is 0.
ASSUME HashAssumption ==
    /\ \A b, c \in AllBlocks : BlockHash[b] = BlockHash[c] => b = c
    /\ \A t, u \in AllTransactions : TxHash[t] = TxHash[u] => t = u
    /\ \A b \in AllBlocks : BlockHash[b] # UnknownHash
    /\ \A t \in AllTransactions : TxHash[t] \in Value /\ TxHash[t] \notin {0, UnknownHash}
ASSUME RemovableAssumption == Removable \subseteq TxHashes \X Nat
ASSUME ResidueAssumption == \A r \in Residues : r \in Text /\ r # <<>>
\* A genesis block longer than a file goes to file 1, and a file name has two bytes.
ASSUME SizeAssumption == /\ MaxFileSize \in Nat /\ MaxFileSize + 1 < Word2
                         /\ MaxFileNumber \in 1 .. 207 /\ MaxStored \in Value /\ MaxStored > 0
                         /\ Window \in Nat /\ MaxRemoved \in Nat

VARIABLES
    blocks, undos,  \* the two streams of files, as in ChainWriter
    blockRecords,   \* the database of block records: hash -> text
    coinRecords,    \* the database of coin records: hash -> text
    cache,          \* the main cache: hash of a transaction -> its outputs by index
    tip,            \* _active_chain_last_block
    chainLength,    \* _active_chain_length
    stored,         \* history: the blocks stored, with their undo blocks and heights, and
                    \* whether they extended the chain
    removed         \* history: the coins taken out of their records, as <<hash, index>>

vars == <<blocks, undos, blockRecords, coinRecords, cache, tip, chainLength, stored, removed>>

Writer == INSTANCE ChainWriter WITH
    NUL <- 0, BlockTexts <- {}, UndoTexts <- {}, Word <- Word2,
    MaxFileBytes <- 0, MaxIssued <- 0, intact <- TRUE, issued <- {}

----------------------------------------------------------------------------
(* Writing to files. *)

\* Where strcpy stops in a text.
StringEnd(text) ==
    LET nul == SelectInSeq(text, LAMBDA byte : byte = 0)
    IN  IF nul = 0 THEN Len(text) + 1 ELSE nul

\* What the buffer of a write holds: the text as a C string, and a residue.
\* (Mutant: bytes from 128 on count as negative.)
BuffersSigned(text) ==
    { [i \in 1 .. Len(text) + 1 |->
          IF i < StringEnd(text) THEN ((text[i] + 128) % 256) - 128 ELSE 0] :
      residue \in Residues }
Buffers(text) ==
    { [i \in 1 .. Len(text) + 1 |->
          CASE i < StringEnd(text) -> text[i]
            [] i = StringEnd(text) -> 0
            [] i > StringEnd(text) -> residue[((i - StringEnd(text) - 1) % Len(residue)) + 1]] :
      residue \in Residues }

Written(s, text) ==
    { [files  |-> [s.files EXCEPT ![Writer!WriteNumber(s, text)] = @ \o buffer],
       number |-> Writer!WriteNumber(s, text),
       offset |-> Writer!NewOffset(s, text)] : buffer \in Buffers(text) }

\* A file name: what tells the files apart, as two characters.
FileName(stream, number) == <<IF stream = "undo" THEN 117 ELSE 98, 48 + number>>

\* The FileInfo a write returns.
StoredAt(stream, info) == FileInfo(FileName(stream, info.number), info.start, info.end)

----------------------------------------------------------------------------
(* Coin records. *)

RecordOf(t) ==
    LET outputs == t.transaction_outputs
    IN  CoinRecord(t.version, [i \in DOMAIN outputs |-> i - 1],
                   [i \in DOMAIN outputs |-> outputs[i].amount],
                   [i \in DOMAIN outputs |-> outputs[i].public_key])

\* store_transactions_to_main_cache.
CoinsWith(texts, txs) ==
    [h \in TxHashes |->
        LET k == SelectLastInSeq(txs, LAMBDA t : TxHash[t] = h)
        IN  IF k = 0 THEN texts[h] ELSE CoinRecordSerialize(RecordOf(txs[k]))]
\* The main cache has one byte for the index of an output: the last output with
\* an index that ends in that byte takes the place of the others.
ByIndex(outputs) ==
    LET n == Len(outputs)
    IN  [i \in 1 .. (IF n < Byte2 THEN n ELSE Byte2) |-> outputs[i + Byte2 * ((n - i) \div Byte2)]]
CacheWith(outputs, txs) ==
    [h \in TxHashes |->
        LET k == SelectLastInSeq(txs, LAMBDA t : TxHash[t] = h)
        IN  IF k = 0 THEN outputs[h] ELSE ByIndex(txs[k].transaction_outputs)]

RecordUnder(texts, h) == CoinRecordDeserialize(IF h \in TxHashes THEN texts[h] ELSE <<>>)

Cached(outputs, input) ==
    /\ input.reference_transaction_hash \in TxHashes
    /\ input.utxo_index < Len(outputs[input.reference_transaction_hash])

\* validate_transactionInput, of coins that nothing marks as spent.
ValidInput(input) ==
    \/ Cached(cache, input)
    \/ input.utxo_index \in ToSet(RecordUnder(coinRecords, input.reference_transaction_hash).utxo)

Valid(b) ==
    /\ b.transactions # <<>>
    /\ \A t \in ToSet(b.transactions) :
        /\ t.transaction_inputs # <<>>
        /\ \A input \in ToSet(t.transaction_inputs) : ValidInput(input)

\* return_matching_utxo.
Utxo(amount, public_key) == [amount |-> amount, public_key |-> public_key]
UtxoAt(record, a) ==
    IF a = 0 THEN Utxo(0, 0) ELSE Utxo(record.amounts[a], record.public_keys[a])
UtxoIn(record, i) == UtxoAt(record, SelectInSeq(record.utxo, LAMBDA u : u = i))
MatchingUtxo(texts, outputs, input) ==
    IF Cached(outputs, input)
    THEN outputs[input.reference_transaction_hash][input.utxo_index + 1]
    ELSE UtxoIn(RecordUnder(texts, input.reference_transaction_hash), input.utxo_index)

\* make_undo_block.
UndoRecord(version, inputs, utxos) ==
    CoinRecord(version, [a \in DOMAIN inputs |-> inputs[a].utxo_index],
               [a \in DOMAIN inputs |-> utxos[a].amount],
               [a \in DOMAIN inputs |-> utxos[a].public_key])
UndoRecordOf(texts, outputs, t) ==
    UndoRecord(t.version, t.transaction_inputs,
               [a \in DOMAIN t.transaction_inputs |->
                    MatchingUtxo(texts, outputs, t.transaction_inputs[a])])
UndoBlockOf(texts, outputs, b) ==
    [transaction_hashes |-> [k \in DOMAIN b.transactions |-> TxHash[b.transactions[k]]],
     undo_coin_records |->
        [k \in DOMAIN b.transactions |-> UndoRecordOf(texts, outputs, b.transactions[k])]]

----------------------------------------------------------------------------
(* Reading. *)

Null == [null |-> TRUE]

GetBlockRecord(h) == IF blockRecords[h] = <<>> THEN Null ELSE BlockRecordDeserialize(blockRecords[h])
HeightIn(record) == IF record = Null THEN 0 ELSE record.height
GetChainLength(h) == HeightIn(GetBlockRecord(h))
GetCoinRecord(h)  == CoinRecordDeserialize(coinRecords[h])

ReadText(stream, file_name, start, end) ==
    Writer!Read([stream |-> stream, number |-> file_name[2] - 48, start |-> start, end |-> end]).text

\* The text a record leads to: the file of the block, and that of the undo block.
ReadBlock(record) ==
    ReadText("block", record.block_file_stored, record.block_offset_start, record.block_offset_end)
ReadUndoBlock(record) ==
    ReadText("undo", record.undo_file_stored, record.undo_offset_start, record.undo_offset_end)

BlockUnder(record) == IF record = Null THEN Null ELSE BlockDeserialize(ReadBlock(record))
GetBlock(h) == BlockUnder(GetBlockRecord(h))

UndoBlockUnder(record) ==
    IF record = Null THEN Null ELSE UndoBlockDeserialize(ReadUndoBlock(record))
GetUndoBlock(h) == UndoBlockUnder(GetBlockRecord(h))

----------------------------------------------------------------------------
(* Storing. *)

\* ChainWriter::store_block, and the record it returns put into the database.
Record(b, text, undoText, height) ==
    BlockRecord(b.block_header, Len(b.transactions), height,
                StoredAt("block", Writer!WrittenInfo("block", blocks, text)),
                StoredAt("undo", Writer!WrittenInfo("undo", undos, undoText)))

StoreTexts(b, text, undoText, height) ==
    /\ Writer!WriteNumber(blocks, text) <= MaxFileNumber
    /\ Writer!WriteNumber(undos, undoText) <= MaxFileNumber
    /\ Writer!Short(undoText)
    /\ blocks' \in Written(blocks, text)
    /\ undos' \in Written(undos, undoText)
    /\ blockRecords' = [blockRecords EXCEPT ![BlockHash[b]] =
                            BlockRecordSerialize(Record(b, text, undoText, height))]

Store(b, undo, height, extends) ==
    /\ Len(stored) < MaxStored
    /\ StoreTexts(b, BlockText[b], UndoBlockSerialize(undo), height)
    /\ stored' = Append(stored, [block |-> b, undo |-> undo, height |-> height, extends |-> extends])

\* A block on the tip.  Its coins are stored before its undo block is made.
Extend(b) ==
    /\ b.block_header.previous_block_hash = BlockHash[tip]
    /\ Valid(b)
    /\ coinRecords' = CoinsWith(coinRecords, b.transactions)
    /\ cache' = CacheWith(cache, b.transactions)
    /\ removed' = { r \in removed : \A t \in ToSet(b.transactions) : TxHash[t] # r[1] }
    /\ chainLength' = chainLength + 1
    /\ tip' = b
    /\ Store(b, UndoBlockOf(coinRecords', cache', b), chainLength', TRUE)

\* A block off the tip with a known parent: part of a fork, valid or not.
StoreAt(b, parentHeight) ==
    /\ parentHeight # 0
    /\ chainLength - parentHeight < Window
    /\ parentHeight + 1 <= chainLength
    /\ Store(b, UndoBlockOf(coinRecords, cache, b), parentHeight + 1, FALSE)
StoreFork(b) ==
    /\ b.block_header.previous_block_hash # BlockHash[tip]
    /\ b.block_header.previous_block_hash \in BlockHashes
    /\ StoreAt(b, GetChainLength(b.block_header.previous_block_hash))
    /\ UNCHANGED <<coinRecords, cache, tip, chainLength, removed>>

\* (Mutant: the amount that belongs to the index stays.)
WithoutKeptAmount(record, i) ==
    LET at == SelectInSeq(record.utxo, LAMBDA u : u = i)
    IN  IF at = 0 THEN record
        ELSE CoinRecord(record.version, RemoveAt(record.utxo, at), record.amounts,
                        RemoveAt(record.public_keys, at))
Without(record, i) ==
    LET at == SelectInSeq(record.utxo, LAMBDA u : u = i)
    IN  IF at = 0 THEN record
        ELSE CoinRecord(record.version, RemoveAt(record.utxo, at), RemoveAt(record.amounts, at),
                        RemoveAt(record.public_keys, at))

\* remove_coin_from_database, of a coin that is there or not.
RemoveCoin(h, i) ==
    /\ Cardinality(removed) < MaxRemoved
    /\ coinRecords' = [coinRecords EXCEPT ![h] = CoinRecordSerialize(Without(GetCoinRecord(h), i))]
    /\ removed' = removed \cup {<<h, i>>}
    /\ UNCHANGED <<blocks, undos, blockRecords, cache, tip, chainLength, stored>>

----------------------------------------------------------------------------
NoTexts   == [h \in TxHashes |-> <<>>]
NewStream == [files |-> [k \in 0 .. MaxFileNumber |-> <<>>], number |-> 0, offset |-> 0]

\* The constructor: the undo block of the genesis block is made before its
\* coins are stored.
InitWith(text, undo, undoText) ==
    /\ blocks \in Written(NewStream, text)
    /\ undos \in Written(NewStream, undoText)
    /\ blockRecords = [h \in BlockHashes |->
            IF h # BlockHash[Genesis] THEN <<>>
            ELSE BlockRecordSerialize(
                    BlockRecord(Genesis.block_header, 1, 1,
                        StoredAt("block", Writer!WrittenInfo("block", NewStream, text)),
                        StoredAt("undo", Writer!WrittenInfo("undo", NewStream, undoText))))]
    /\ coinRecords = CoinsWith(NoTexts, Genesis.transactions)
    /\ cache = CacheWith(NoTexts, Genesis.transactions)
    /\ tip = Genesis
    /\ chainLength = 1
    /\ stored = <<[block |-> Genesis, undo |-> undo, height |-> 1, extends |-> TRUE]>>
    /\ removed = {}
GenesisUndo == UndoBlockOf(NoTexts, NoTexts, Genesis)
Init == InitWith(BlockText[Genesis], GenesisUndo, UndoBlockSerialize(GenesisUndo))

Next ==
    \/ \E b \in Block : Extend(b) \/ StoreFork(b)
    \/ \E r \in Removable : RemoveCoin(r[1], r[2])

Spec == Init /\ [][Next]_vars

----------------------------------------------------------------------------
(* Properties. *)

\* Every variable has its type: files and databases hold bytes, offsets and
\* file numbers stay in 16 bits.
TypeOK ==
    /\ blocks \in Writer!Stream /\ undos \in Writer!Stream
    /\ blockRecords \in [BlockHashes -> Text]
    /\ coinRecords \in [TxHashes -> Text]
    /\ cache \in [TxHashes -> Seq(TransactionOutputs)]
    /\ tip \in AllBlocks /\ chainLength \in 1 .. MaxStored
    /\ removed \subseteq Removable

\* The blocks stored, each with what was stored of it last.
LastOf(b) == stored[SelectLastInSeq(stored, LAMBDA s : s.block = b)]
LastStored == { LastOf(s.block) : s \in ToSet(stored) }
StoredHashes == { BlockHash[s.block] : s \in LastStored }

Describes(record, s) ==
    /\ record.block_header = s.block.block_header
    /\ record.num_transactions = Len(s.block.transactions)
    /\ record.height = s.height
    /\ record.block_offset_end - record.block_offset_start = Len(BlockText[s.block])
    /\ record.undo_offset_end - record.undo_offset_start = Len(UndoBlockSerialize(s.undo))
Apart(r, q) ==
    /\ r.block_file_stored = q.block_file_stored =>
           r.block_offset_end < q.block_offset_start \/ q.block_offset_end < r.block_offset_start
    /\ r.undo_file_stored = q.undo_file_stored =>
           r.undo_offset_end < q.undo_offset_start \/ q.undo_offset_end < r.undo_offset_start

\* A record read back describes the block stored under its hash last: its
\* header, its height and number of transactions, and where its data lie, the
\* block data in the block files and the undo data in the undo files, disjoint
\* from those of every other record (BlockRecord::deserialize against serialize and
\* store_block; chain.cpp:217).  No other hash has one.
RecordsOf(records) ==
    /\ \A h \in BlockHashes \ StoredHashes : records[h] = Null
    /\ \A s \in LastStored : Describes(records[BlockHash[s.block]], s)
    /\ \A h, g \in StoredHashes : h # g => Apart(records[h], records[g])
RecordsExact == RecordsOf([h \in BlockHashes |-> GetBlockRecord(h)])

\* What survives strcpy: no submessage is empty, and no element of a packed
\* list is 0.
LegibleTransaction(t) ==
    /\ \A input \in ToSet(t.transaction_inputs) : \E f \in DOMAIN input : input[f] # 0
    /\ \A output \in ToSet(t.transaction_outputs) : \E f \in DOMAIN output : output[f] # 0
    /\ t.version # 0 \/ t.lock_time # 0 \/ t.transaction_inputs # <<>> \/ t.transaction_outputs # <<>>
LegibleBlock(b) ==
    /\ \E f \in DOMAIN b.block_header : b.block_header[f] # 0
    /\ \A t \in ToSet(b.transactions) : LegibleTransaction(t)
LegibleUndoRecord(r) ==
    /\ r.version # 0 \/ r.utxo # <<>>
    /\ 0 \notin ToSet(r.utxo) \cup ToSet(r.amounts) \cup ToSet(r.public_keys)
LegibleUndoBlock(u) == \A r \in ToSet(u.undo_coin_records) : LegibleUndoRecord(r)

\* A block comes back from disk as it was handed in (Chain::get_block), field
\* by field, if it is legible: whatever else was stored before and after it,
\* in whatever files.
BlocksReadBack ==
    \A s \in LastStored :
        LegibleBlock(s.block) => GetBlock(BlockHash[s.block]) = s.block

\* So does an undo block (Chain::get_undo_block), with the amounts its inputs
\* had when it was made.
UndosReadBack ==
    \A s \in LastStored :
        LegibleUndoBlock(s.undo) => GetUndoBlock(BlockHash[s.block]) = s.undo

\* Being legible is all that stands between a text and strcpy: a serialized
\* block or undo block has a zero byte if and only if it is not legible, so
\* zero numbers in headers, versions and amounts do no harm (chain_writer.cpp:64).
NulExact ==
    \A s \in ToSet(stored) :
        /\ (0 \in ToSet(BlockText[s.block])) = ~LegibleBlock(s.block)
        /\ (0 \in ToSet(UndoBlockSerialize(s.undo))) = ~LegibleUndoBlock(s.undo)

\* Whatever is behind the zero byte of a damaged undo block, the hashes of its
\* transactions are read first and unharmed: what undo_coins writes back of a
\* damaged undo block never goes under the hash of another transaction
\* (coin_database.cpp:284, 287).
UndoHashesKept ==
    \A s \in LastStored :
        IsPrefix(s.undo.transaction_hashes,
                 PUndoBlockParse(ReadUndoBlock(GetBlockRecord(BlockHash[s.block]))).transaction_hashes)

\* The outputs of a transaction that were not removed since it was stored.
Left(t) ==
    FlattenSeq([i \in DOMAIN t.transaction_outputs |->
        IF <<TxHash[t], i - 1>> \in removed THEN <<>> ELSE <<i - 1>>])
OnChain == UNION { ToSet(s.block.transactions) : s \in { s \in ToSet(stored) : s.extends } }

\* A coin record read back has the outputs of its transaction that were not
\* removed, in their order, each with its own amount and public key, in
\* whatever order and however often coins were removed; a transaction that is
\* in no block of the active chain has none (coin_database.cpp:237).
RecordOfOutputs(t, left) ==
    CoinRecord(t.version, left,
               [k \in DOMAIN left |-> t.transaction_outputs[left[k] + 1].amount],
               [k \in DOMAIN left |-> t.transaction_outputs[left[k] + 1].public_key])
CoinRecordsExact ==
    \A t \in AllTransactions :
        IF t \in OnChain
        THEN GetCoinRecord(TxHash[t]) = RecordOfOutputs(t, Left(t))
        ELSE coinRecords[TxHash[t]] = <<>>

\* The parts of a stored block survive their own serialize and deserialize,
\* which are written apart from those of a block.
PartsRoundTrip ==
    LET b == Last(stored).block
    IN  /\ BlockHeaderDeserialize(BlockHeaderSerialize(b.block_header)) = b.block_header
        /\ \A t \in ToSet(b.transactions) :
            /\ TransactionDeserialize(TransactionSerialize(t)) = t
            /\ \A input \in ToSet(t.transaction_inputs) :
                TransactionInputDeserialize(TransactionInputSerialize(input)) = input
            /\ \A output \in ToSet(t.transaction_outputs) :
                TransactionOutputDeserialize(TransactionOutputSerialize(output)) = output
=============================================================================
