-------------------------------- MODULE Chain --------------------------------
(***************************************************************************)
(* The blockchain a node keeps: class Chain, over the coin database and    *)
(* the block-info database.                                                *)
(*                                                                         *)
(* A block that extends the tip is validated against the coins and becomes *)
(* the new tip.  Any other block is kept as part of a fork, if its parent  *)
(* is known and not too deep, until a fork overtakes the active chain.     *)
(*                                                                         *)
(* The record of a block is what the header said when the block was stored;*)
(* the block itself is read back from disk, and comes back as it was only  *)
(* if its text has no zero byte (see ChainWriter and Storage).             *)
(***************************************************************************)
EXTENDS Integers, Sequences, FiniteSets

CONSTANTS
    Block, Genesis,     \* the blocks, and the one of construct_genesis_block
    HashValue,          \* what RathCrypto::hash returns for a block
    BlockHash,          \* [Block -> HashValue]
    Legible,            \* the blocks whose text has no zero byte
    Damaged,            \* what a text with a zero byte may be read back as
    PrevHash,           \* [Block \cup Damaged -> HashValue]: previous_block_hash
    Txs,                \* [Block -> sequence of transactions]
    Window,             \* 5: the hashes kept, the depth of a fork, the steps of a walk
    NoInfo,             \* no record in the block-info database
    Garbage             \* values the uninitialised _branching_height may hold

CONSTANTS Tx, Hash, TxHash, Inputs, Outputs, CacheCapacity, MempoolCapacity,
          Word, IndexWord, NoCoin, NoRecord, FallOff, MaxStored

\* Blocks are told apart by their hash, and no block is its own ancestor or
\* the parent of the genesis block.  The text of the genesis block has a zero
\* byte (NulExact in Storage).
ASSUME BlockAssumption ==
    /\ Genesis \in Block
    /\ BlockHash \in [Block -> HashValue]
    /\ Legible \subseteq Block \ {Genesis}
    /\ PrevHash \in [Block \cup Damaged -> HashValue]
    /\ Txs \in [Block -> Seq(Tx)]
    /\ \A b, c \in Block : BlockHash[b] = BlockHash[c] => b = c
    /\ \A b \in Block : BlockHash[b] # PrevHash[Genesis]
    /\ Window \in Nat \ {0}
    /\ Garbage \subseteq Nat
ASSUME NoInfoAssumption == NoInfo \notin [height : Nat, block : Block, read : Block \cup Damaged]

VARIABLES
    length,         \* _active_chain_length
    tip,            \* _active_chain_last_block
    infos,          \* _block_info_database: hash -> [height, block, block on disk]
    lastHashes,     \* _last_five_hashes, oldest first
    branching,      \* _branching_height, set by no constructor
    active          \* history: the blocks that became the tip, in order

VARIABLES db, cache, cacheSize, mempool, mempoolSize, status, iterator,
          stored, marked, repeated, clashed

Coins == INSTANCE CoinDatabase WITH Blocks <- {Txs[b] : b \in Block}

\* What the coin database assumes of its constants.
ASSUME CoinAssumption ==
    /\ Coins!SizeAssumption
    /\ Coins!TxAssumption
    /\ Coins!AbsentAssumption
    /\ Coins!FallOffAssumption

chainVars == <<length, tip, infos, lastHashes, branching, active>>
coinVars  == <<db, cache, cacheSize, mempool, mempoolSize, status, iterator, stored, marked,
               repeated, clashed>>
vars == <<chainVars, coinVars>>

\* A record: the height and the header of a block, and what the text it points
\* to is read back as.
Info == [height : Nat, block : Block, read : Block \cup Damaged]

----------------------------------------------------------------------------
(* Handling a block. *)

\* What a block just written is read back as.  strcpy cuts the text at its first
\* zero byte and the file gets what was in the buffer before: the rest of the
\* text by luck, or anything else.
ReadAs(b) == IF b \in Legible THEN {b} ELSE {b} \cup Damaged

\* (Mutant: a record keeps the height of the parent.)
WithInfoLow(b, height, read) ==
    [infos EXCEPT ![BlockHash[b]] = [height |-> height - 1, block |-> b, read |-> read]]

\* Storing a record under the hash of the block: an older record of the same
\* block is overwritten, and points to the text just written.
WithInfo(b, height, read) ==
    [infos EXCEPT ![BlockHash[b]] = [height |-> height, block |-> b, read |-> read]]

\* (Mutants: the newest hash makes way for the next; none does.)
PushedOver(hash) ==
    IF Len(lastHashes) < Window THEN Append(lastHashes, hash)
    ELSE Append(SubSeq(lastHashes, 1, Window - 1), hash)
PushedOnly(hash) == Append(lastHashes, hash)

\* The oldest hash makes way.
Pushed(hash) ==
    Append(IF Len(lastHashes) < Window THEN lastHashes ELSE Tail(lastHashes), hash)

\* (Mutant: any block with a known parent becomes the tip.)
OnTipKnown(b) == infos[PrevHash[b]] # NoInfo
OnTip(b)      == PrevHash[b] = BlockHash[tip]

\* (Mutant: the coins are stored, whether the block is valid or not.)
AcceptUnchecked(b, valid) == valid /\ Coins!StoreBlock(Txs[b])
Accept(b, valid)          == Coins!ValidateAndStoreBlock(Txs[b], valid)

\* The block extends the tip.
Extend(b) ==
    /\ OnTip(b)
    /\ \E valid \in BOOLEAN :
        /\ Accept(b, valid)
        /\ IF valid /\ status' = "running"
           THEN /\ length' = length + 1
                /\ tip' = b
                /\ \E read \in ReadAs(b) : infos' = WithInfo(b, length + 1, read)
                /\ lastHashes' = Pushed(BlockHash[b])
                /\ active' = Append(active, b)
                /\ UNCHANGED branching
           ELSE UNCHANGED chainVars

\* The other blocks.  Whether they are valid is computed and not used; a block
\* with an unknown parent has the code follow a null pointer.
OffTip(b) == PrevHash[b] # BlockHash[tip]
Parent(b) == infos[PrevHash[b]]

Orphan(b) ==
    /\ OffTip(b)
    /\ Parent(b) = NoInfo
    /\ Coins!Crash
    /\ UNCHANGED chainVars

\* _active_chain_length - prev_record->height < 5
InReach(b) == length - Parent(b).height < Window

TooDeep(b) ==
    /\ OffTip(b) /\ Parent(b) # NoInfo /\ ~InReach(b)
    /\ UNCHANGED vars

\* (Mutant: the coins of a fork are stored with it.)
StoreForkCoins(b) ==
    /\ OffTip(b) /\ Parent(b) # NoInfo /\ InReach(b)
    /\ Parent(b).height + 1 <= length
    /\ \E read \in ReadAs(b) : infos' = WithInfo(b, Parent(b).height + 1, read)
    /\ Coins!StoreBlock(Txs[b])
    /\ UNCHANGED <<length, tip, lastHashes, branching, active>>

StoreFork(b) ==
    /\ OffTip(b) /\ Parent(b) # NoInfo /\ InReach(b)
    /\ Parent(b).height + 1 <= length
    /\ \E read \in ReadAs(b) : infos' = WithInfo(b, Parent(b).height + 1, read)
    /\ UNCHANGED <<length, tip, lastHashes, branching, active, coinVars>>

\* The fork that b extends is as long as the active chain: b overtakes it.
Overtakes(b) ==
    /\ OffTip(b) /\ Parent(b) # NoInfo /\ InReach(b)
    /\ Parent(b).height + 1 > length

\* The reorganisation hands undo_coins one undo block more than it hands it
\* blocks (see OvertakeOverruns): the process reads past the last block and
\* dies, before it has changed a hash or a coin of the new branch.
Reorganise(b) ==
    /\ Overtakes(b)
    /\ Coins!Crash
    /\ UNCHANGED chainVars

HandleBlock(b) ==
    Extend(b) \/ Orphan(b) \/ TooDeep(b) \/ StoreFork(b) \/ Reorganise(b)

HandleTransaction(t) ==
    /\ Coins!ValidateAndStoreTransaction(t)
    /\ UNCHANGED chainVars

----------------------------------------------------------------------------
(* Queries and walks over the stored blocks. *)

\* get_block: what the text of the block is read back as.  NoInfo, the null
\* pointer of get_block, in the result of a walk below stands for a process that
\* follows it and dies.
GetBlock(hash) == IF infos[hash] = NoInfo THEN NoInfo ELSE infos[hash].read

\* The hash a walk down the stored blocks is at after n steps from a hash.  It
\* follows the blocks as they are read back; a hash with no block behind it
\* stays where it is.
Below(hash, n) ==
    LET below[k \in 0 .. n] ==
            IF k = 0 THEN hash
            ELSE IF infos[below[k - 1]] = NoInfo THEN below[k - 1]
                 ELSE PrevHash[infos[below[k - 1]].read]
    IN  below[n]

\* The block n steps behind the tip, the tip itself read back as well.
BlockBehind(n) == GetBlock(Below(BlockHash[tip], n))

Smaller(i, j) == IF i <= j THEN i ELSE j
Larger(i, j)  == IF i <= j THEN j ELSE i

\* (Mutant: the blocks are left in the order of the walk.)
GetActiveChainDown(start, end) ==
    LET low  == Larger(start, 1)
        high == Smaller(Smaller(end, length) + 1, length)
    IN  IF end < start \/ high < low THEN <<>>
        ELSE [i \in 1 .. high - low + 1 |-> BlockBehind(length - high + i - 1)]

\* The loop walks from the tip down to height start and keeps a block once
\* the height, which it has lowered already, is at most end.
GetActiveChain(start, end) ==
    LET low  == Larger(start, 1)
        high == Smaller(Smaller(end, length) + 1, length)
    IN  IF end < start \/ high < low THEN <<>>
        ELSE [i \in 1 .. high - low + 1 |-> BlockBehind(length - (low + i - 1))]

\* The same loop over hashes.  The hash it means to move down the chain is
\* declared anew inside the loop: every turn reads that of the tip.
GetActiveChainHashes(start, end) ==
    LET low  == Larger(start, 1)
        high == Smaller(Smaller(end, length) + 1, length)
    IN  IF end < start \/ high < low THEN <<>>
        ELSE [i \in 1 .. high - low + 1 |-> BlockHash[tip]]

\* The hash of the block n steps behind the tip.  The header of the tip comes
\* from memory, those below from disk.
UndoHash(n) == IF n = 0 THEN BlockHash[tip] ELSE Below(PrevHash[tip], n - 1)

\* (Mutant: the walk stops above the common ancestor.)
UndoQueueShort(height) == [i \in 1 .. Larger(length - height, 0) |-> UndoHash(i - 1)]

\* get_undo_blocks_queue: the hashes whose undo blocks it collects, from the tip
\* down to the one at the branching height.
UndoQueue(height) == [i \in 1 .. Larger(length - height, 0) + 1 |-> UndoHash(i - 1)]

\* get_forked_blocks_stack: the hash it looks for after n turns from the stored
\* block start.
HashAfter(start, n) == Below(start, n + 1)

Recent == { lastHashes[i] : i \in DOMAIN lastHashes }

\* The steps of the walk that meet the active chain.
Meets(start) == { n \in 0 .. Window - 1 : HashAfter(start, n) \in Recent }

\* The walk reads a block that is not there, and the code a null pointer.
WalksOff(start) ==
    \E n \in 0 .. Window - 1 :
        /\ infos[HashAfter(start, n)] = NoInfo
        /\ \A m \in 0 .. n : m \notin Meets(start)

\* The branching height after the walk: it stays what it was if the walk gives
\* up after Window steps.
BranchingHeight(start) ==
    IF Meets(start) = {} THEN branching
    ELSE infos[HashAfter(start, CHOOSE n \in Meets(start) :
                                    \A m \in Meets(start) : n <= m)].height

----------------------------------------------------------------------------
\* The constructor: the genesis block is stored without validation.
Init ==
    /\ length = 1
    /\ tip = Genesis
    /\ \E read \in ReadAs(Genesis) :
           infos = [h \in HashValue |-> IF h # BlockHash[Genesis] THEN NoInfo
                                        ELSE [height |-> 1, block |-> Genesis, read |-> read]]
    /\ lastHashes = <<BlockHash[Genesis]>>
    /\ branching \in Garbage
    /\ active = <<Genesis>>
    /\ Coins!InitWith(Txs[Genesis])

Next ==
    /\ status = "running"
    /\ \/ \E b \in Block : HandleBlock(b)
       \/ \E t \in Tx : HandleTransaction(t)

Spec == Init /\ [][Next]_vars

----------------------------------------------------------------------------
(* Properties. *)

\* Every variable of the chain has its type.
TypeOK ==
    /\ length \in Nat
    /\ tip \in Block
    /\ infos \in [HashValue -> Info \cup {NoInfo}]
    /\ lastHashes \in Seq(HashValue) /\ Len(lastHashes) <= Window
    /\ branching \in Nat
    /\ active \in Seq(Block)

\* The records on disk describe the active chain: the block at every height
\* has a record with that height and a text that was its own when written, links
\* to the block below, and the last one is the tip, whatever forks were stored or
\* blocks handed in again.
ActiveChainStored ==
    /\ Len(active) = length
    /\ active[1] = Genesis /\ active[length] = tip
    /\ \A h \in 1 .. length :
        /\ \E read \in ReadAs(active[h]) :
               infos[BlockHash[active[h]]] = [height |-> h, block |-> active[h], read |-> read]
        /\ h > 1 => PrevHash[active[h]] = BlockHash[active[h - 1]]

\* A record is filed under the hash of its block, one above the record of its
\* parent, and never above the tip: the unsigned _active_chain_length -
\* prev_record->height cannot wrap around, and a walk down a fork ends.
ForkHeights ==
    \A h \in HashValue : infos[h] # NoInfo =>
        LET b == infos[h].block
        IN  /\ BlockHash[b] = h
            /\ infos[h].height \in 1 .. length
            /\ b # Genesis => /\ Parent(b) # NoInfo
                              /\ infos[h].height = Parent(b).height + 1

\* _last_five_hashes are the hashes of the last blocks of the active chain, in
\* order: what a fork is looked up in is never stale.
LastHashesAreTail ==
    /\ Len(lastHashes) = Smaller(length, Window)
    /\ \A i \in DOMAIN lastHashes :
           lastHashes[i] = BlockHash[active[length - Len(lastHashes) + i]]

\* The coin database and the chain agree on what was stored: the blocks whose
\* coins were stored are those of the active chain, in its order.  Forks leave
\* no coins.  (A loop or a crash in the coin database leaves both as they are.)
CoinsFollowChain ==
    /\ Len(stored) = length
    /\ \A h \in 1 .. length : stored[h].txs = Txs[active[h]]

\* The outputs a block provides, and the outputs its inputs name.
Provides(b) ==
    UNION { { [hash |-> TxHash[Txs[b][k]], index |-> i] : i \in Coins!OutputIndexes(Txs[b][k]) } :
            k \in DOMAIN Txs[b] }
Spends(b) ==
    UNION { { Inputs[Txs[b][k]][a] : a \in DOMAIN Inputs[Txs[b][k]] } : k \in DOMAIN Txs[b] }

\* Every input of a block of the active chain names an output of a block below
\* it: no block is accepted whose coins come from a fork, from a later block,
\* from itself or from nowhere.
LedgerClosed ==
    \A h \in 2 .. length :
        /\ Spends(active[h]) # {}
        /\ Spends(active[h]) \subseteq UNION { Provides(active[i]) : i \in 1 .. h - 1 }

\* The active chain alone decides what a node accepts: a block passes validation
\* if it has transactions, each has inputs and each input names an output of a
\* block of the active chain, and fails it otherwise.  Neither forks, nor the
\* mempool, nor a hanging flush, nor transactions with one hash make a
\* difference, and validation never runs past its last return.  Outputs that
\* are spent are accepted as well: nothing marks a coin (validate_block against
\* store_block).
JudgedByActiveChain ==
    \A b \in Block :
        Coins!BlockOutcomes(Txs[b]) =
            IF /\ Txs[b] # <<>>
               /\ \A k \in DOMAIN Txs[b] : Inputs[Txs[b][k]] # <<>>
               /\ Spends(b) \subseteq UNION { Provides(active[h]) : h \in 1 .. length }
            THEN {"true"}
            ELSE {"false"}

\* The outputs of a block, and of the first n blocks of the active chain.
OutputsOf(b) == UNION { {k} \X Coins!OutputIndexes(Txs[b][k]) : k \in DOMAIN Txs[b] }
OutputsTo(n) == UNION { {h} \X OutputsOf(active[h]) : h \in 1 .. n }

\* A node lives until its outputs fill the main cache, and no longer: what is
\* counted is every output of the active chain, spent or not, since nothing ever
\* leaves the cache; every block but the genesis block was stored while these
\* outputs and its transactions stayed within the capacity; and a process hangs
\* in a flush only if the block handed in did not (store_block against
\* flush_main_cache, over a whole chain).
ChainFitsCache ==
    /\ cacheSize = Cardinality(OutputsTo(length)) % Word
    /\ \A h \in 2 .. length :
           LET below == OutputsTo(h - 1)
           IN  below # {} => Len(Txs[active[h]]) + (Cardinality(below) % Word) <= CacheCapacity
    /\ status = "flushing" =>
           \E b \in Block : OnTip(b) /\ Len(Txs[b]) + cacheSize > CacheCapacity

\* The active chain is a log that is only appended to, one linked block at a
\* time: no call of handle_block replaces or drops a block of it.
Log == INSTANCE BlockLog WITH log <- active
LogSpec == Log!Spec

\* For each height asked for, and below the tip for one more, get_active_chain
\* returns a block, oldest first, and returns the block of the active chain at
\* that height if no text from there up to the tip has a zero byte, above the
\* range included: the walk starts at the tip, and one damaged header on its way
\* leads it off the chain (chain.cpp:272-284).  Forks and repeated blocks do not.
QueryActiveChain ==
    \A start \in 0 .. length : \A end \in start .. length + 1 :
        LET blocks == GetActiveChain(start, end)
            low    == Larger(start, 1)
        IN  /\ Len(blocks) = Smaller(end + 1, length) - low + 1
            /\ \A i \in DOMAIN blocks :
                   (\A h \in low + i - 1 .. length : active[h] \in Legible)
                       => blocks[i] = active[low + i - 1]

\* get_active_chain_hashes "Gets some block hashes on the active chain in order"
\* (chain.h:78): each hash it returns is that of the block of the active chain
\* at its height.
HashesOfActiveChain ==
    \A start \in 0 .. length, end \in 0 .. length + 1 :
        LET hashes == GetActiveChainHashes(start, end)
        IN  \A i \in DOMAIN hashes : hashes[i] = BlockHash[active[Larger(start, 1) + i - 1]]

\* Whenever a block overtakes the active chain, the reorganisation follows a
\* null pointer or hands undo_coins more undo blocks than blocks.
OvertakeOverruns ==
    \A b \in Block : Overtakes(b) =>
        LET height == BranchingHeight(PrevHash[b])
        IN  \/ WalksOff(PrevHash[b])
            \/ height = 0
            \/ Len(UndoQueue(height)) > Len(GetActiveChain(height + 1, length))

\* What undo_coins is said to take (coin_database.h:97, "takes two
\* corresponding lists of blocks and undo blocks"), of every fork that meets
\* the active chain among the last hashes.
UndoListsCorrespond ==
    \A b \in Block : Overtakes(b) /\ Meets(PrevHash[b]) # {} =>
        LET height == BranchingHeight(PrevHash[b])
            undos  == UndoQueue(height)
        IN  [i \in DOMAIN undos |-> GetBlock(undos[i])] = GetActiveChain(height + 1, length)

\* A coin is an unspent output (coin.h:17, "Unspent TransactionOutput"): no two
\* blocks of the active chain spend the same output.
NoDoubleSpend ==
    \A h, i \in 2 .. length : h # i => Spends(active[h]) \cap Spends(active[i]) = {}
=============================================================================
