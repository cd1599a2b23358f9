------------------------------ MODULE Messages ------------------------------
(***************************************************************************)
(* The messages of rath.proto: what their generated classes in rath.pb.cc  *)
(* write (_InternalSerialize), the size they announce (ByteSizeLong) and   *)
(* what they read (_InternalParse).                                        *)
(*                                                                         *)
(* A message is a record of its fields.  Parsing returns the message as it *)
(* stands when the parse ends or fails: no caller in the repository looks  *)
(* at the result of ParseFromString.  ...Fails tells whether it failed,    *)
(* which ends the parse of a message around it.                            *)
(***************************************************************************)
EXTENDS Wire

----------------------------------------------------------------------------
(* PBlockHeader *)

PBlockHeaderText(m) ==
    UInt32(1, m.version) \o UInt32(2, m.previous_block_hash) \o UInt32(3, m.merkle_root)
        \o UInt32(4, m.difficulty_target) \o UInt32(5, m.nonce) \o UInt32(6, m.timestamp)

PBlockHeaderSize(m) ==
    UInt32Size(m.version) + UInt32Size(m.previous_block_hash) + UInt32Size(m.merkle_root)
        + UInt32Size(m.difficulty_target) + UInt32Size(m.nonce) + UInt32Size(m.timestamp)

PBlockHeaderFails(text) == Unparsed(text, NoSubmessage)
PBlockHeaderFrom(f) ==
    [version |-> UInt32In(f, 1), previous_block_hash |-> UInt32In(f, 2),
     merkle_root |-> UInt32In(f, 3), difficulty_target |-> UInt32In(f, 4),
     nonce |-> UInt32In(f, 5), timestamp |-> UInt32In(f, 6)]
PBlockHeaderParse(text) == PBlockHeaderFrom(FieldsUntil(text, NoSubmessage))

----------------------------------------------------------------------------
(* PTransactionInput *)

\* (Mutant: the index and the signature change places.)
PTransactionInputTextSwapped(m) ==
    UInt32(1, m.reference_transaction_hash) \o UInt32(2, m.signature) \o UInt32(3, m.utxo_index)
PTransactionInputText(m) ==
    UInt32(1, m.reference_transaction_hash) \o UInt32(2, m.utxo_index) \o UInt32(3, m.signature)

PTransactionInputSize(m) ==
    UInt32Size(m.reference_transaction_hash) + UInt32Size(m.utxo_index) + UInt32Size(m.signature)

PTransactionInputFails(text) == Unparsed(text, NoSubmessage)
PTransactionInputFrom(f) ==
    [reference_transaction_hash |-> UInt32In(f, 1), utxo_index |-> UInt32In(f, 2),
     signature |-> UInt32In(f, 3)]
PTransactionInputParse(text) == PTransactionInputFrom(FieldsUntil(text, NoSubmessage))

----------------------------------------------------------------------------
(* PTransactionOutput *)

PTransactionOutputText(m) == UInt32(1, m.amount) \o UInt32(2, m.public_key)

PTransactionOutputSize(m) == UInt32Size(m.amount) + UInt32Size(m.public_key)

PTransactionOutputFails(text) == Unparsed(text, NoSubmessage)
PTransactionOutputFrom(f) ==
    [amount |-> UInt32In(f, 1), public_key |-> UInt32In(f, 2)]
PTransactionOutputParse(text) == PTransactionOutputFrom(FieldsUntil(text, NoSubmessage))

----------------------------------------------------------------------------
(* PTransaction *)

PTransactionText(m) ==
    UInt32(1, m.version)
        \o FlattenSeq([i \in DOMAIN m.transaction_inputs |->
               Message(2, PTransactionInputSize(m.transaction_inputs[i]),
                          PTransactionInputText(m.transaction_inputs[i]))])
        \o FlattenSeq([i \in DOMAIN m.transaction_outputs |->
               Message(3, PTransactionOutputSize(m.transaction_outputs[i]),
                          PTransactionOutputText(m.transaction_outputs[i]))])
        \o UInt32(4, m.lock_time)

PTransactionSize(m) ==
    UInt32Size(m.version)
        + SumOf([i \in DOMAIN m.transaction_inputs |->
                     RunSize(PTransactionInputSize(m.transaction_inputs[i]))])
        + SumOf([i \in DOMAIN m.transaction_outputs |->
                     RunSize(PTransactionOutputSize(m.transaction_outputs[i]))])
        + UInt32Size(m.lock_time)

PTransactionSubmessageFails(f) == \/ IsRun(f, 2) /\ PTransactionInputFails(f.bytes)
                                  \/ IsRun(f, 3) /\ PTransactionOutputFails(f.bytes)
PTransactionFails(text) == Unparsed(text, PTransactionSubmessageFails)
PTransactionFrom(f, inputs, outputs) ==
    [version |-> UInt32In(f, 1),
     transaction_inputs |-> [i \in DOMAIN inputs |-> PTransactionInputParse(inputs[i])],
     transaction_outputs |-> [i \in DOMAIN outputs |-> PTransactionOutputParse(outputs[i])],
     lock_time |-> UInt32In(f, 4)]
PTransactionIn(f) == PTransactionFrom(f, RunsIn(f, 2), RunsIn(f, 3))
PTransactionParse(text) == PTransactionIn(FieldsUntil(text, PTransactionSubmessageFails))

----------------------------------------------------------------------------
(* PBlock.  Its header is the message or, when it was never set, nothing:  *)
(* has_block_header tells.                                                 *)

PBlockText(m) ==
    (IF m.has_block_header
     THEN Message(1, PBlockHeaderSize(m.block_header), PBlockHeaderText(m.block_header))
     ELSE <<>>)
        \o FlattenSeq([i \in DOMAIN m.transactions |->
               Message(2, PTransactionSize(m.transactions[i]), PTransactionText(m.transactions[i]))])
        \o UInt32(3, m.hash) \o UInt32(4, m.calculate_fees) \o UInt32(5, m.obtain_merkle_root)

PBlockSize(m) ==
    (IF m.has_block_header THEN RunSize(PBlockHeaderSize(m.block_header)) ELSE 0)
        + SumOf([i \in DOMAIN m.transactions |-> RunSize(PTransactionSize(m.transactions[i]))])
        + UInt32Size(m.hash) + UInt32Size(m.calculate_fees) + UInt32Size(m.obtain_merkle_root)

PBlockSubmessageFails(f) == \/ IsRun(f, 1) /\ PBlockHeaderFails(f.bytes)
                            \/ IsRun(f, 2) /\ PTransactionFails(f.bytes)
PBlockFrom(f, headers, transactions) ==
    [has_block_header |-> headers # <<>>,
     block_header |-> PBlockHeaderParse(FlattenSeq(headers)),
     transactions |-> [i \in DOMAIN transactions |-> PTransactionParse(transactions[i])],
     hash |-> UInt32In(f, 3), calculate_fees |-> UInt32In(f, 4),
     obtain_merkle_root |-> UInt32In(f, 5)]
PBlockIn(f) == PBlockFrom(f, RunsIn(f, 1), RunsIn(f, 2))
PBlockParse(text) == PBlockIn(FieldsUntil(text, PBlockSubmessageFails))

----------------------------------------------------------------------------
(* PBlockRecord *)

PBlockRecordText(m) ==
    (IF m.has_block_header
     THEN Message(1, PBlockHeaderSize(m.block_header), PBlockHeaderText(m.block_header))
     ELSE <<>>)
        \o UInt32(2, m.height) \o UInt32(3, m.num_transactions)
        \o String(4, m.block_file_stored)
        \o UInt32(5, m.block_offset_start) \o UInt32(6, m.block_offset_end)
        \o String(7, m.undo_file_stored)
        \o UInt32(8, m.undo_offset_start) \o UInt32(9, m.undo_offset_end)

PBlockRecordSize(m) ==
    (IF m.has_block_header THEN RunSize(PBlockHeaderSize(m.block_header)) ELSE 0)
        + UInt32Size(m.height) + UInt32Size(m.num_transactions)
        + StringSize(m.block_file_stored)
        + UInt32Size(m.block_offset_start) + UInt32Size(m.block_offset_end)
        + StringSize(m.undo_file_stored)
        + UInt32Size(m.undo_offset_start) + UInt32Size(m.undo_offset_end)

PBlockRecordSubmessageFails(f) == IsRun(f, 1) /\ PBlockHeaderFails(f.bytes)
PBlockRecordFrom(f, headers) ==
    [has_block_header |-> headers # <<>>,
     block_header |-> PBlockHeaderParse(FlattenSeq(headers)),
     height |-> UInt32In(f, 2), num_transactions |-> UInt32In(f, 3),
     block_file_stored |-> StringIn(f, 4),
     block_offset_start |-> UInt32In(f, 5), block_offset_end |-> UInt32In(f, 6),
     undo_file_stored |-> StringIn(f, 7),
     undo_offset_start |-> UInt32In(f, 8), undo_offset_end |-> UInt32In(f, 9)]
PBlockRecordIn(f) == PBlockRecordFrom(f, RunsIn(f, 1))
PBlockRecordParse(text) == PBlockRecordIn(FieldsUntil(text, PBlockRecordSubmessageFails))

----------------------------------------------------------------------------
(* PCoinRecord *)

PCoinRecordText(m) ==
    UInt32(1, m.version) \o Bool(2, m.is_coin_base) \o UInt32(3, m.height)
        \o Packed(4, m.utxo) \o Packed(5, m.amounts) \o Packed(6, m.public_keys)

PCoinRecordSize(m) ==
    UInt32Size(m.version) + BoolSize(m.is_coin_base) + UInt32Size(m.height)
        + PackedFieldSize(m.utxo) + PackedFieldSize(m.amounts) + PackedFieldSize(m.public_keys)

PCoinRecordFails(text) == Unparsed(text, NoSubmessage)
PCoinRecordFrom(f) ==
    [version |-> UInt32In(f, 1), is_coin_base |-> BoolIn(f, 2), height |-> UInt32In(f, 3),
     utxo |-> UInt32sIn(f, 4), amounts |-> UInt32sIn(f, 5), public_keys |-> UInt32sIn(f, 6)]
PCoinRecordParse(text) == PCoinRecordFrom(FieldsUntil(text, NoSubmessage))

----------------------------------------------------------------------------
(* PUndoCoinRecord: a class of its own, with the fields of a PCoinRecord.  *)

\* (Mutant: is_coin_base is written although it is false.)
PUndoCoinRecordTextFlag(m) == <<16, 0>> \o PCoinRecordText(m)
PUndoCoinRecordText(m)     == PCoinRecordText(m)
PUndoCoinRecordSize(m)     == PCoinRecordSize(m)
PUndoCoinRecordFails(text) == PCoinRecordFails(text)
PUndoCoinRecordParse(text) == PCoinRecordParse(text)

----------------------------------------------------------------------------
(* PUndoBlock *)

\* (Mutant: the hashes come last.)
PUndoBlockTextHashesLast(m) ==
    FlattenSeq([i \in DOMAIN m.undo_coin_records |->
               Message(2, PUndoCoinRecordSize(m.undo_coin_records[i]),
                          PUndoCoinRecordText(m.undo_coin_records[i]))])
        \o Packed(1, m.transaction_hashes)
PUndoBlockText(m) ==
    Packed(1, m.transaction_hashes)
        \o FlattenSeq([i \in DOMAIN m.undo_coin_records |->
               Message(2, PUndoCoinRecordSize(m.undo_coin_records[i]),
                          PUndoCoinRecordText(m.undo_coin_records[i]))])

PUndoBlockSize(m) ==
    PackedFieldSize(m.transaction_hashes)
        + SumOf([i \in DOMAIN m.undo_coin_records |->
                     RunSize(PUndoCoinRecordSize(m.undo_coin_records[i]))])

PUndoBlockSubmessageFails(f) == IsRun(f, 2) /\ PUndoCoinRecordFails(f.bytes)
PUndoBlockFrom(f, records) ==
    [transaction_hashes |-> UInt32sIn(f, 1),
     undo_coin_records |-> [i \in DOMAIN records |-> PUndoCoinRecordParse(records[i])]]
PUndoBlockIn(f) == PUndoBlockFrom(f, RunsIn(f, 2))
PUndoBlockParse(text) == PUndoBlockIn(FieldsUntil(text, PUndoBlockSubmessageFails))
=============================================================================
