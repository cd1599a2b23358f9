----------------------------- MODULE MCStorage -----------------------------
(* A small instance of Storage.                                              *)
(*                                                                           *)
(*    Genesis --- A --- C        A, C: blocks with several inputs, outputs   *)
(*       | \                             or transactions                     *)
(*       |  \--- B               B: a transaction longer than 127 bytes      *)
(*        \----- D               D: spends what no transaction provides, and *)
(*                                  has an output of nothing but zeros       *)
EXTENDS Storage, RathCrypto

In(t, i, signature) ==
    [reference_transaction_hash |-> t, utxo_index |-> i, signature |-> signature]
Out(amount, public_key) == [amount |-> amount, public_key |-> public_key]
Tx(version, inputs, outputs, lock_time) ==
    [version |-> version, transaction_inputs |-> inputs, transaction_outputs |-> outputs,
     lock_time |-> lock_time]
Header(previous) ==
    [version |-> 200, previous_block_hash |-> previous, merkle_root |-> 2147483647,
     difficulty_target |-> 0, nonce |-> 128, timestamp |-> 127]
On(parent, txs) == [block_header |-> Header(parent), transactions |-> txs]

\* The hashes of these blocks and transactions, with 1000 for Accumulator:
\* the sums of the SHA-256 digests of the serialized values, from another
\* implementation of protobuf and SHA-256.
GenesisHash   == 5259
AHash         == 5985
GenesisTxHash == 4417
T1Hash        == 5298

\* Spends outputs 1 and 2 of the genesis block.
T1 == Tx(1, <<In(GenesisTxHash, 1, 7), In(GenesisTxHash, 2, 0)>>,
         <<Out(300, 5), Out(200, 0), Out(16384, 16383)>>, 0)
\* Spends output 0.
T2 == Tx(0, <<In(GenesisTxHash, 0, 9)>>,
         [k \in 1 .. 10 |-> Out(2147483647 - k, 2^30 + k)], 2147483647)
\* Spend what T1 provides.
T3 == Tx(0, <<In(T1Hash, 1, 1)>>, <<Out(5, 6)>>, 3)
T4 == Tx(255, <<In(T1Hash, 2, 0)>>, <<>>, 0)
\* Spends what no transaction provides.
T5 == Tx(0, <<In(1, 255, 1)>>, <<Out(1, 0), Out(0, 0)>>, 0)

A == On(GenesisHash, <<T1>>)
B == On(GenesisHash, <<T2>>)
C == On(AHash, <<T3, T4>>)
D == On(GenesisHash, <<T5>>)

MCBlock    == {A, B, C, D}
MCResidues == { <<10, 1, 5>>, <<255>> }
\* Two coins of one record, and the only coin of another.
MCRemovable == { <<TxHash[T1], 0>>, <<TxHash[T1], 1>>, <<TxHash[T3], 0>> }

----------------------------------------------------------------------------
KnownBlocks == { <<Genesis, GenesisHash>>, <<A, AHash>>, <<B, 4947>>, <<C, 4774>>, <<D, 5116>> }
KnownTransactions ==
    { <<Genesis.transactions[1], GenesisTxHash>>, <<T1, T1Hash>>, <<T2, 4758>>, <<T3, 4693>>,
      <<T4, 5313>>, <<T5, 4810>> }

\* Blocks are filed under the sum of the SHA-256 digest of their text, and undo
\* blocks and coin records name transactions by it (rathcrypto.cpp:135): texts
\* of one to three blocks of SHA-256, with short and long padding.
HashIsSha256 ==
    \A s \in ToSet(stored) :
        /\ \A known \in KnownBlocks :
            known[1] = s.block =>
                known[2] \in { h \in BlockHashes : blockRecords[h] # <<>> }
        /\ \A known \in KnownTransactions, k \in DOMAIN s.block.transactions :
            known[1] = s.block.transactions[k] => s.undo.transaction_hashes[k] = known[2]

\* The padding of SHA-256, as its standard defines it: a bit 1, zeros, and the
\* length in bits.
Padded(message) ==
    LET zeros == (119 - (Len(message) % 64)) % 64
        bits  == 8 * Len(message)
    IN  message \o <<128>> \o [i \in 1 .. zeros |-> 0]
            \o [i \in 1 .. 8 |-> IF i <= 4 THEN 0 ELSE ((bits \div 256^(8 - i)) % 256)]

\* hash() hands transform the padded message and nothing else, for a text of
\* any length around the ends of a block, although its buffer still holds the
\* block before (rathcrypto.cpp:97).
PaddingIsSha ==
    \A n \in 0 .. Len(BlockText[Last(stored).block]) :
        \A text \in {SubSeq(BlockText[Last(stored).block], 1, n)} :
            FlattenSeq(Transformed(text)) = Padded(text)
=============================================================================
