----------------------------- MODULE Primitives -----------------------------
(***************************************************************************)
(* The values a node handles and their serialize and deserialize: Block,   *)
(* BlockHeader, Transaction, TransactionInput and TransactionOutput, and   *)
(* the records a node keeps of them: UndoBlock, CoinRecord, BlockRecord.   *)
(*                                                                         *)
(* A value is a record of its members, named as in the code.  uint8_t and  *)
(* uint16_t members are cut when a uint32 of a message is put into them.   *)
(***************************************************************************)
EXTENDS Messages

Byte2 == 256
Word2 == 65536

----------------------------------------------------------------------------
(* The values.  Numbers are uint8_t, or as large as a message holds.       *)

UInt8 == 0 .. Byte2 - 1

BlockHeaders ==
    [version : UInt8, previous_block_hash : Value, merkle_root : Value,
     difficulty_target : Value, nonce : Value, timestamp : Value]
TransactionInputs ==
    [reference_transaction_hash : Value, utxo_index : UInt8, signature : Value]
TransactionOutputs == [amount : Value, public_key : Value]
Transactions ==
    [version : UInt8, transaction_inputs : Seq(TransactionInputs),
     transaction_outputs : Seq(TransactionOutputs), lock_time : Value]
Blocks == [block_header : BlockHeaders, transactions : Seq(Transactions)]

----------------------------------------------------------------------------
(* BlockHeader, TransactionInput, TransactionOutput: each member is set in  *)
(* the message and taken from it again.                                    *)

BlockHeader(m) == [m EXCEPT !.version = @ % Byte2]
BlockHeaderSerialize(h)      == SerializeToString(PBlockHeaderSize(h), PBlockHeaderText(h))
BlockHeaderDeserialize(text) == BlockHeader(PBlockHeaderParse(text))

TransactionInput(m) == [m EXCEPT !.utxo_index = @ % Byte2]
TransactionInputSerialize(input) ==
    SerializeToString(PTransactionInputSize(input), PTransactionInputText(input))
TransactionInputDeserialize(text) == TransactionInput(PTransactionInputParse(text))

TransactionOutputSerialize(output) ==
    SerializeToString(PTransactionOutputSize(output), PTransactionOutputText(output))
TransactionOutputDeserialize(text) == PTransactionOutputParse(text)

----------------------------------------------------------------------------
(* Transaction *)

Transaction(m) ==
    [version |-> m.version % Byte2,
     transaction_inputs |->
        [i \in DOMAIN m.transaction_inputs |-> TransactionInput(m.transaction_inputs[i])],
     transaction_outputs |-> m.transaction_outputs,
     lock_time |-> m.lock_time]

TransactionSerialize(t) == SerializeToString(PTransactionSize(t), PTransactionText(t))

\* (Mutant: the constructor's arguments version and lock_time change places.)
TransactionSwapped(m) ==
    [version |-> m.lock_time,
     transaction_inputs |->
        [i \in DOMAIN m.transaction_inputs |-> TransactionInput(m.transaction_inputs[i])],
     transaction_outputs |-> m.transaction_outputs,
     lock_time |-> m.version % Byte2]
TransactionDeserializeSwapped(text) == TransactionSwapped(PTransactionParse(text))
TransactionDeserialize(text)        == Transaction(PTransactionParse(text))

----------------------------------------------------------------------------
(* Block.  Its hash and fees are never set in the message.                 *)

PBlockOf(b) ==
    [has_block_header |-> TRUE, block_header |-> b.block_header,
     transactions |-> b.transactions, hash |-> 0, calculate_fees |-> 0, obtain_merkle_root |-> 0]

PBlockSerialize(m) == SerializeToString(PBlockSize(m), PBlockText(m))
BlockSerialize(b)  == PBlockSerialize(PBlockOf(b))

BlockIn(m) ==
    [block_header |-> BlockHeader(m.block_header),
     transactions |-> [i \in DOMAIN m.transactions |-> Transaction(m.transactions[i])]]
BlockDeserialize(text) == BlockIn(PBlockParse(text))

----------------------------------------------------------------------------
(* CoinRecord and UndoCoinRecord: three lists of one length, of which the  *)
(* first decides how many elements are written and read of each.           *)

CoinRecord(version, utxo, amounts, public_keys) ==
    [version |-> version, utxo |-> utxo, amounts |-> amounts, public_keys |-> public_keys]

PCoinRecordOf(r) ==
    [version |-> r.version, is_coin_base |-> FALSE, height |-> 0,
     utxo |-> r.utxo,
     amounts |-> [i \in DOMAIN r.utxo |-> r.amounts[i]],
     public_keys |-> [i \in DOMAIN r.utxo |-> r.public_keys[i]]]

PCoinRecordSerialize(m) == SerializeToString(PCoinRecordSize(m), PCoinRecordText(m))
CoinRecordSerialize(r)  == PCoinRecordSerialize(PCoinRecordOf(r))

\* A message whose lists have the elements its utxo list makes a reader index.
Indexable(m) == Len(m.utxo) <= Len(m.amounts) /\ Len(m.utxo) <= Len(m.public_keys)

\* (Mutant: the amounts are read for the public keys, too.)
CoinRecordInAmounts(m) ==
    CoinRecord(m.version % Byte2, m.utxo,
               [i \in DOMAIN m.utxo |-> m.amounts[i]], [i \in DOMAIN m.utxo |-> m.amounts[i]])
CoinRecordIn(m) ==
    CoinRecord(m.version % Byte2, m.utxo,
               [i \in DOMAIN m.utxo |-> m.amounts[i]], [i \in DOMAIN m.utxo |-> m.public_keys[i]])
CoinRecordDeserialize(text) == CoinRecordIn(PCoinRecordParse(text))

----------------------------------------------------------------------------
(* UndoBlock: the hashes decide how many undo coin records are written and *)
(* read.                                                                   *)

PUndoBlockOf(u) ==
    [transaction_hashes |-> u.transaction_hashes,
     undo_coin_records |->
        [i \in DOMAIN u.transaction_hashes |-> PCoinRecordOf(u.undo_coin_records[i])]]
PUndoBlockSerialize(m) == SerializeToString(PUndoBlockSize(m), PUndoBlockText(m))
UndoBlockSerialize(u)  == PUndoBlockSerialize(PUndoBlockOf(u))

\* Whether deserialize reads behind the end of a list of the message.
Overruns(m) ==
    \E i \in DOMAIN m.transaction_hashes :
        \/ i > Len(m.undo_coin_records)
        \/ ~Indexable(m.undo_coin_records[i])
Overrun == [overrun |-> TRUE]
UndoBlockIn(m) ==
    IF Overruns(m) THEN Overrun
    ELSE [transaction_hashes |-> m.transaction_hashes,
          undo_coin_records |->
             [i \in DOMAIN m.transaction_hashes |-> CoinRecordIn(m.undo_coin_records[i])]]
UndoBlockDeserialize(text) == UndoBlockIn(PUndoBlockParse(text))

----------------------------------------------------------------------------
(* BlockRecord: what a node keeps of a stored block.                       *)

BlockRecord(header, num_transactions, height, block_info, undo_info) ==
    [block_header |-> header, height |-> height, num_transactions |-> num_transactions,
     block_file_stored |-> block_info.file_name,
     block_offset_start |-> block_info.start, block_offset_end |-> block_info.end,
     undo_file_stored |-> undo_info.file_name,
     undo_offset_start |-> undo_info.start, undo_offset_end |-> undo_info.end]

PBlockRecordOf(r) ==
    [f \in DOMAIN r \cup {"has_block_header"} |-> IF f = "has_block_header" THEN TRUE ELSE r[f]]
PBlockRecordSerialize(m) == SerializeToString(PBlockRecordSize(m), PBlockRecordText(m))
BlockRecordSerialize(r)  == PBlockRecordSerialize(PBlockRecordOf(r))

\* The constructor of FileInfo takes uint16_t offsets.
FileInfo(file_name, start, end) ==
    [file_name |-> file_name, start |-> start % Word2, end |-> end % Word2]
BlockRecordIn(m) ==
    BlockRecord(BlockHeader(m.block_header), m.num_transactions, m.height,
                FileInfo(m.block_file_stored, m.block_offset_start, m.block_offset_end),
                FileInfo(m.undo_file_stored, m.undo_offset_start, m.undo_offset_end))
\* (Mutant: the undo data are looked for where the block ends.)
BlockRecordMixed(m) ==
    BlockRecord(BlockHeader(m.block_header), m.num_transactions, m.height,
                FileInfo(m.block_file_stored, m.block_offset_start, m.block_offset_end),
                FileInfo(m.undo_file_stored, m.undo_offset_start, m.block_offset_end))
BlockRecordDeserializeMixed(text) == BlockRecordMixed(PBlockRecordParse(text))
BlockRecordDeserialize(text)      == BlockRecordIn(PBlockRecordParse(text))
=============================================================================
