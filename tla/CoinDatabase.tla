---------------------------- MODULE CoinDatabase ----------------------------
(***************************************************************************)
(* The transaction outputs a node accepts as inputs: class CoinDatabase.   *)
(*                                                                         *)
(* Every stored transaction has a coin record in the database; its outputs *)
(* are also coins of the main cache, which is meant to be flushed when it  *)
(* is full.  Transactions that are valid but in no block wait in the       *)
(* mempool.                                                                *)
(*                                                                         *)
(* A public key goes everywhere its amount goes, and is left out.          *)
(***************************************************************************)
EXTENDS Integers, Sequences, FiniteSets

CONSTANTS
    Tx,                 \* the transactions
    Hash,               \* what RathCrypto::hash returns
    TxHash,             \* [Tx -> Hash]: the hash of the serialized transaction
    Inputs,             \* [Tx -> sequence of [hash, index]]
    Outputs,            \* [Tx -> sequence of amounts]
    Blocks,             \* sequences of transactions, as blocks carry them
    CacheCapacity,      \* _main_cache_capacity: 1000
    MempoolCapacity,    \* _mempool_capacity: 1000
    Word,               \* 2^16: the two sizes are uint16_t
    IndexWord,          \* 2^8: the indexes of CoinLocators and inputs are uint8_t
    NoCoin, NoRecord,   \* no entry in the cache, in the database
    FallOff,            \* what a bool function that ends without return does
    MaxStored           \* bound: blocks stored and not undone

ASSUME SizeAssumption ==
    /\ CacheCapacity \in Nat /\ MempoolCapacity \in Nat
    /\ Word \in Nat \ {0} /\ IndexWord \in Nat \ {0}
    /\ MaxStored \in Nat
ASSUME TxAssumption ==
    /\ TxHash \in [Tx -> Hash]
    /\ Inputs \in [Tx -> Seq([hash : Hash, index : 0 .. IndexWord - 1])]
    /\ Outputs \in [Tx -> Seq(Nat)]
    /\ Blocks \subseteq Seq(Tx)
ASSUME AbsentAssumption ==
    /\ NoCoin \notin [amount : Nat, spent : BOOLEAN]
    /\ \A t \in Tx : \A kept \in SUBSET (0 .. Len(Outputs[t]) - 1) : NoRecord \notin [kept -> Nat]
ASSUME FallOffAssumption == FallOff \subseteq {"true", "false", "proceed", "trap"}

VARIABLES
    db,             \* _database: hash -> record, a function from output index to amount
    cache,          \* _main_cache: locator -> coin
    cacheSize,      \* _main_cache_size
    mempool,        \* _mempool_cache, the transactions of it
    mempoolSize,    \* _mempool_size
    status,         \* "running", "flushing" (in the loop of a flush) or "crashed"
    iterator,       \* the cache entry the loop of flush_main_cache is at
    stored,         \* history: the blocks stored and not undone, with their undo amounts
    marked,         \* history: the locators marked as spent
    repeated,       \* history: a transaction was stored that was stored already
    clashed         \* history: one was stored with the hash of another, or too wide

coinVars    == <<db, cache, cacheSize>>
mempoolVars == <<mempool, mempoolSize>>
history     == <<stored, marked, repeated, clashed>>
vars == <<db, cache, cacheSize, mempool, mempoolSize, status, iterator, stored, marked,
          repeated, clashed>>

Locator == Hash \X (0 .. IndexWord - 1)
Coin    == [amount : Nat, spent : BOOLEAN]

\* The locator made of a hash and an index: the index is cut to its low byte.
LocatorOf(hash, index) == <<hash, index % IndexWord>>

OutputIndexes(t) == 0 .. Len(Outputs[t]) - 1
Amount(t, i)     == Outputs[t][i + 1]

----------------------------------------------------------------------------
(* Validation. *)

\* (Mutant: validation looks into the record only.)
RecordOutcomes(input) ==
    IF db[input.hash] # NoRecord /\ input.index \in DOMAIN db[input.hash]
    THEN {"true"}
    ELSE {"false"}

\* What validate_transactionInput returns: a spent coin of the cache takes it
\* past the last return.
InputOutcomes(input) ==
    LET coin == cache[LocatorOf(input.hash, input.index)]
    IN  IF coin # NoCoin
        THEN IF coin.spent THEN FallOff \ {"proceed"} ELSE {"true"}
        ELSE IF db[input.hash] # NoRecord /\ input.index \in DOMAIN db[input.hash]
             THEN {"true"}
             ELSE {"false"}

\* The outcomes of checking one after another and stopping at the first that
\* is not true.
InTurn(outcomes) ==
    { o \in {"true", "false", "trap"} :
        IF o = "true"
        THEN \A k \in DOMAIN outcomes : "true" \in outcomes[k]
        ELSE \E k \in DOMAIN outcomes : /\ o \in outcomes[k]
                                        /\ \A j \in 1 .. k - 1 : "true" \in outcomes[j] }

TxOutcomes(t) ==
    IF Inputs[t] = <<>>
    THEN {"false"}
    ELSE InTurn([k \in DOMAIN Inputs[t] |-> InputOutcomes(Inputs[t][k])])

BlockOutcomes(txs) ==
    IF txs = <<>>
    THEN {"false"}
    ELSE InTurn([k \in DOMAIN txs |-> TxOutcomes(txs[k])])

\* return_matching_utxo: the amount of the coin an input names, 0 if none.
MatchingAmount(coinDb, coinCache, input) ==
    LET coin   == coinCache[LocatorOf(input.hash, input.index)]
        record == coinDb[input.hash]
    IN  IF coin # NoCoin THEN coin.amount
        ELSE IF record # NoRecord /\ input.index \in DOMAIN record THEN record[input.index]
        ELSE 0

\* The amounts of the undo coin records Chain::make_undo_block makes of txs.
UndoAmounts(coinDb, coinCache, txs) ==
    [k \in DOMAIN txs |->
        [a \in DOMAIN Inputs[txs[k]] |-> MatchingAmount(coinDb, coinCache, Inputs[txs[k]][a])]]

----------------------------------------------------------------------------
(* Storing a block. *)

HashesOf(txs) == { TxHash[txs[k]] : k \in DOMAIN txs }

\* The last transaction of txs with a hash: the one whose writes remain.
LastWith(txs, hash) ==
    txs[CHOOSE k \in DOMAIN txs :
            /\ TxHash[txs[k]] = hash
            /\ \A j \in DOMAIN txs : TxHash[txs[j]] = hash => j <= k]

RecordOf(t) == [i \in OutputIndexes(t) |-> Amount(t, i)]

\* (Mutant: the records are left for the flush to write.)
DbWithLater(coinDb, txs) == coinDb

DbWith(coinDb, txs) ==
    [h \in Hash |-> IF h \in HashesOf(txs) THEN RecordOf(LastWith(txs, h)) ELSE coinDb[h]]

LocatorsOf(t) == { LocatorOf(TxHash[t], i) : i \in OutputIndexes(t) }

\* Writes to a locator, each the number of a transaction and that of an output.
WritesTo(txs, locator) ==
    { w \in (DOMAIN txs) \X (UNION { OutputIndexes(txs[k]) : k \in DOMAIN txs }) :
        w[2] \in OutputIndexes(txs[w[1]]) /\ LocatorOf(TxHash[txs[w[1]]], w[2]) = locator }

CacheWith(coinCache, txs) ==
    [locator \in Locator |->
        LET writes == WritesTo(txs, locator)
            last   == CHOOSE w \in writes :
                          \A v \in writes : v[1] < w[1] \/ (v[1] = w[1] /\ v[2] <= w[2])
        IN  IF writes = {} THEN coinCache[locator]
            ELSE [amount |-> Amount(txs[last[1]], last[2]), spent |-> FALSE]]

OutputCount(txs) ==
    Cardinality(UNION { {k} \X OutputIndexes(txs[k]) : k \in DOMAIN txs })

StoredTxs == UNION { {stored[n].txs[k] : k \in DOMAIN stored[n].txs} : n \in DOMAIN stored }

\* A transaction of txs is among the earlier ones; it has the hash of an earlier
\* one, or more outputs than the indexes of a CoinLocator tell apart.
Narrow(t) == Len(Outputs[t]) <= IndexWord
Repeats(earlier, txs) ==
    \E k \in DOMAIN txs : txs[k] \in earlier \/ \E j \in 1 .. k - 1 : txs[j] = txs[k]
Clashes(earlier, txs) ==
    \E k \in DOMAIN txs :
        \/ ~Narrow(txs[k])
        \/ \E t \in earlier : TxHash[t] = TxHash[txs[k]]
        \/ \E j \in 1 .. k - 1 : TxHash[txs[j]] = TxHash[txs[k]]

\* remove_transactions_from_mempool: by hash; a size that counted entries twice
\* loses one for each.
RemoveFromMempool(txs) ==
    LET gone == { t \in mempool : TxHash[t] \in HashesOf(txs) }
    IN  /\ mempool' = mempool \ gone
        /\ mempoolSize' = (mempoolSize - Cardinality(gone)) % Word

\* store_transactions_to_main_cache, with size the _main_cache_size before it.
StoreToMainCache(txs, size) ==
    /\ db' = DbWith(db, txs)
    /\ cache' = CacheWith(cache, txs)
    /\ cacheSize' = (size + OutputCount(txs)) % Word
    /\ stored' = Append(stored, [txs |-> txs, undo |-> UndoAmounts(db', cache', txs)])
    /\ marked' = marked \ UNION { LocatorsOf(txs[k]) : k \in DOMAIN txs }
    /\ repeated' = (repeated \/ Repeats(StoredTxs, txs))
    /\ clashed' = (clashed \/ Clashes(StoredTxs, txs))

Cached == { l \in Locator : cache[l] # NoCoin }

\* flush_main_cache with entries in the cache: the process enters its loop, at
\* whatever entry begin() gives.
EnterFlush ==
    /\ Cached # {}
    /\ iterator' \in Cached
    /\ status' = "flushing"
    /\ UNCHANGED <<coinVars, mempoolVars, history>>

\* (Mutant: the capacity is not looked at.)
StoreBlockAnyway(txs) ==
    /\ Len(stored) < MaxStored
    /\ RemoveFromMempool(txs)
    /\ StoreToMainCache(txs, cacheSize)
    /\ UNCHANGED <<status, iterator>>

\* With no entry it sets the size to 0 and returns.
StoreBlock(txs) ==
    /\ Len(stored) < MaxStored
    /\ IF Len(txs) + cacheSize > CacheCapacity
       THEN \/ EnterFlush
            \/ /\ Cached = {}
               /\ RemoveFromMempool(txs)
               /\ StoreToMainCache(txs, 0)
               /\ UNCHANGED <<status, iterator>>
       ELSE /\ RemoveFromMempool(txs)
            /\ StoreToMainCache(txs, cacheSize)
            /\ UNCHANGED <<status, iterator>>

\* flush_main_cache, as a caller may call it.
FlushMainCache ==
    \/ EnterFlush
    \/ /\ Cached = {}
       /\ cacheSize' = 0
       /\ UNCHANGED <<db, cache, mempoolVars, status, iterator, history>>

Crash ==
    /\ status' = "crashed"
    /\ UNCHANGED <<coinVars, mempoolVars, iterator, history>>

\* validate_and_store_block, returning ret.  For an invalid block the function
\* ends without a return: its caller reads either value, the process traps, or
\* an optimising build has dropped the test and stores the block.
ValidateAndStoreBlock(txs, ret) ==
    \/ /\ "true" \in BlockOutcomes(txs) \/ ("false" \in BlockOutcomes(txs) /\ "proceed" \in FallOff)
       /\ ret = TRUE
       /\ StoreBlock(txs)
    \/ /\ "false" \in BlockOutcomes(txs)
       /\ ret \in { o = "true" : o \in FallOff \cap {"true", "false"} }
       /\ UNCHANGED vars
    \/ /\ \/ "trap" \in BlockOutcomes(txs)
          \/ "false" \in BlockOutcomes(txs) /\ "trap" \in FallOff
       /\ ret = FALSE
       /\ Crash

----------------------------------------------------------------------------
(* The mempool. *)

\* (Mutant: the test lets one too many in.)
HasRoomPlusOne == Cardinality(mempool) <= MempoolCapacity
HasRoom        == Cardinality(mempool) < MempoolCapacity

\* (Mutant: a size of more than 16 bits.)
GrownWide(n) == mempoolSize + n
Grown(n)     == (mempoolSize + n) % Word

\* store_transaction: the size goes up once for the call and once for the
\* entry, and the entry replaces one with the same hash.  Like its caller it
\* ends without a return.
StoreTransaction(t) ==
    /\ IF HasRoom
       THEN /\ mempool' = {u \in mempool : TxHash[u] # TxHash[t]} \cup {t}
            /\ mempoolSize' = Grown(2)
       ELSE /\ mempoolSize' = Grown(1)
            /\ UNCHANGED mempool
    /\ UNCHANGED <<coinVars, status, iterator, history>>

\* The returned value is used by no caller.
ValidateAndStoreTransaction(t) ==
    \/ /\ "true" \in TxOutcomes(t) \/ ("false" \in TxOutcomes(t) /\ "proceed" \in FallOff)
       /\ StoreTransaction(t)
    \/ /\ "false" \in TxOutcomes(t)
       /\ FallOff \cap {"true", "false"} # {}
       /\ UNCHANGED vars
    \/ /\ "trap" \in TxOutcomes(t) \/ "trap" \in FallOff
       /\ Crash

----------------------------------------------------------------------------
(* Flushing. *)

\* One turn of the loop of flush_main_cache.  A spent coin is taken out of its
\* record (remove_coin_from_database); nothing moves the iterator.
FlushStep ==
    /\ status = "flushing"
    /\ db' = IF cache[iterator].spent
             THEN LET hash   == iterator[1]
                      record == db[hash]
                  IN  IF record = NoRecord THEN db
                      ELSE [db EXCEPT ![hash] =
                               [i \in DOMAIN record \ {iterator[2]} |-> record[i]]]
             ELSE db
    /\ UNCHANGED <<cache, cacheSize, mempoolVars, status, iterator, history>>

\* quick_cache_remove, of a coin that is cached.
QuickCacheRemove(locator) ==
    /\ cache[locator] # NoCoin
    /\ cache' = [cache EXCEPT ![locator].spent = TRUE]
    /\ marked' = marked \cup {locator}
    /\ UNCHANGED <<db, cacheSize, mempoolVars, status, iterator, stored, repeated, clashed>>

----------------------------------------------------------------------------
(* Undoing a block. *)

\* add_utxo finds a record for transaction k: there is one, and no earlier
\* transaction of the block had its hash and took the record with it.
FindsRecord(txs, k) ==
    /\ db[TxHash[txs[k]]] # NoRecord
    /\ \A j \in 1 .. k - 1 : TxHash[txs[j]] # TxHash[txs[k]]

\* Then it takes the amounts of the undo block for indexes of coins.
Sought(txs, undo) ==
    UNION { { LocatorOf(TxHash[txs[k]], undo[k][a]) : a \in DOMAIN undo[k] } :
            k \in { j \in DOMAIN txs : FindsRecord(txs, j) } }

\* For one that is not cached it searches the record, and may run off its end
\* (find_index).  What it writes to the record, remove_utxo deletes next.
Overruns(txs, undo, k) ==
    LET hash == TxHash[txs[k]]
    IN  /\ FindsRecord(txs, k)
        /\ \E a \in DOMAIN undo[k] :
               /\ cache[LocatorOf(hash, undo[k][a])] = NoCoin
               /\ \A i \in DOMAIN db[hash] : i < Inputs[txs[k]][a].index

\* One that is cached is not spent any more.  It outlives the remove_utxo of the
\* block, which erases the coins of every transaction, if a transaction with the
\* same hash and more outputs was stored.
\* (Mutant: the coins stay in the cache.)
CacheKept(txs, undo) == cache
CacheWithout(txs, undo) ==
    [l \in Locator |->
        IF \E k \in DOMAIN txs : l \in LocatorsOf(txs[k]) THEN NoCoin
        ELSE IF cache[l] # NoCoin /\ l \in Sought(txs, undo)
             THEN [cache[l] EXCEPT !.spent = FALSE]
             ELSE cache[l]]

\* The outputs of every transaction are taken off the size, cached or not.
\* (Mutant: the size stays what it was.)
SizeKept(txs)    == cacheSize
SizeWithout(txs) == (cacheSize - OutputCount(txs)) % Word

\* undo_coins of any stored block, with the undo block made of it; a call with
\* several blocks is one such step after the other.  A search that overruns ends
\* the process or finds a large enough word behind the record.
UndoCoins(n) ==
    LET txs  == stored[n].txs
        undo == stored[n].undo
        gone == UNION { LocatorsOf(txs[k]) : k \in DOMAIN txs }
    IN  \/ /\ db' = [h \in Hash |-> IF h \in HashesOf(txs) THEN NoRecord ELSE db[h]]
           /\ cache' = CacheWithout(txs, undo)
           /\ cacheSize' = SizeWithout(txs)
           /\ stored' = SubSeq(stored, 1, n - 1) \o SubSeq(stored, n + 1, Len(stored))
           /\ marked' = marked \ gone
           /\ UNCHANGED <<mempoolVars, status, iterator, repeated, clashed>>
        \/ /\ \E k \in DOMAIN txs : Overruns(txs, undo, k)
           /\ Crash

----------------------------------------------------------------------------
EmptyDb    == [h \in Hash |-> NoRecord]
EmptyCache == [l \in Locator |-> NoCoin]

\* The database when nothing but txs was stored, without validation, and the
\* undo block of txs was made before: Chain's constructor and its genesis block.
InitWith(txs) ==
    /\ db = DbWith(EmptyDb, txs)
    /\ cache = CacheWith(EmptyCache, txs)
    /\ cacheSize = OutputCount(txs) % Word
    /\ mempool = {}
    /\ mempoolSize = 0
    /\ status = "running"
    /\ iterator = NoCoin
    /\ stored = <<[txs |-> txs, undo |-> UndoAmounts(EmptyDb, EmptyCache, txs)]>>
    /\ marked = {}
    /\ repeated = Repeats({}, txs)
    /\ clashed = Clashes({}, txs)

Init ==
    /\ db = EmptyDb
    /\ cache = EmptyCache
    /\ cacheSize = 0
    /\ mempool = {}
    /\ mempoolSize = 0
    /\ status = "running"
    /\ iterator = NoCoin
    /\ stored = <<>>
    /\ marked = {}
    /\ repeated = FALSE
    /\ clashed = FALSE

Call ==
    \/ \E txs \in Blocks : StoreBlock(txs)
    \/ \E txs \in Blocks, ret \in BOOLEAN : ValidateAndStoreBlock(txs, ret)
    \/ \E t \in Tx : ValidateAndStoreTransaction(t)
    \/ \E l \in Locator : QuickCacheRemove(l)
    \/ \E n \in DOMAIN stored : UndoCoins(n)
    \/ FlushMainCache

Next ==
    \/ status = "running" /\ Call
    \/ FlushStep

Spec == Init /\ [][Next]_vars

\* The process keeps running: a loop it is in goes on.
FairSpec == Spec /\ WF_vars(FlushStep)
----------------------------------------------------------------------------
(* Properties. *)

\* A transaction no other shares its hash with, and that is not too wide.
Alone(t)  == \A u \in Tx : TxHash[u] = TxHash[t] => u = t
Plain(t)  == Alone(t) /\ Narrow(t)

IsRecord(r) == \A i \in DOMAIN r : i \in Nat /\ r[i] \in Nat

\* Every variable has its type: the sizes stay in 16 bits, and the cache and
\* the database hold amounts.
TypeOK ==
    /\ db = [h \in Hash |-> db[h]]
    /\ \A h \in Hash : db[h] = NoRecord \/ IsRecord(db[h])
    /\ cache \in [Locator -> Coin \cup {NoCoin}]
    /\ cacheSize \in 0 .. Word - 1
    /\ mempool \subseteq Tx
    /\ mempoolSize \in 0 .. Word - 1
    /\ status \in {"running", "flushing", "crashed"}
    /\ iterator \in Locator \cup {NoCoin}
    /\ stored \in Seq([txs : Blocks, undo : Seq(Seq(Nat))])
    /\ marked \subseteq Locator
    /\ repeated \in BOOLEAN /\ clashed \in BOOLEAN

\* Validation answers from the cache, the database or a half-flushed mix of
\* both, yet it accepts exactly the outputs of the transactions stored and not
\* undone that nobody marked spent: whatever was stored, undone or marked
\* before (validate_transactionInput against store_block, undo_coins and
\* flush_main_cache).  It needs that no transaction was stored twice.  For the
\* other outputs it says false, or runs past its last return.
ValidationExact ==
    ~repeated =>
        \A t \in Tx, i \in 0 .. IndexWord - 1 :
            Plain(t) =>
                LET input  == [hash |-> TxHash[t], index |-> i]
                    unspent == /\ t \in StoredTxs /\ i \in OutputIndexes(t)
                               /\ LocatorOf(TxHash[t], i) \notin marked
                IN  unspent <=> InputOutcomes(input) = {"true"}

\* What a coin is worth does not depend on where it is found: the database and
\* the cache both give the amount of the output (return_matching_utxo, from
\* which undo blocks are made).  So emptying the cache loses no coin.
CacheBacked ==
    \A t \in Tx : \A i \in OutputIndexes(t) :
        LET coin   == cache[LocatorOf(TxHash[t], i)]
            record == db[TxHash[t]]
        IN  Plain(t) /\ coin # NoCoin =>
                /\ coin.amount = Amount(t, i)
                /\ ~coin.spent => /\ record # NoRecord
                                  /\ i \in DOMAIN record
                                  /\ record[i] = Amount(t, i)

\* _main_cache_size, which decides when to flush, is the number of coins in the
\* cache ("current number of entries in the cache", coin_database.h:43), as
\* long as no two transactions stored ever had one hash.  After a clash it need
\* not become exact again, even with every block undone: undoing takes off the
\* outputs of both, and the wrapped size makes every later block flush.
CacheSizeExact == ~clashed => cacheSize = Cardinality(Cached) % Word

\* The mempool never holds more transactions than its capacity, nor two with
\* one hash, although its size counter runs ahead of it (store_transaction).
MempoolBounded ==
    /\ Cardinality(mempool) <= MempoolCapacity
    /\ \A t, u \in mempool : TxHash[t] = TxHash[u] => t = u

\* A flush ends (coin_database_tests.cpp:370, which goes on to expect a cache
\* of size 0).
FlushEnds == status = "flushing" ~> status = "running"
=============================================================================
