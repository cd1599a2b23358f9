# RathDB in TLA+

RathDB is the storage layer of a blockchain node, written in C++: it validates
blocks and transactions, keeps the active chain and its forks, the transaction
outputs that may be spent, and the blocks on disk. This directory holds TLA+
modules of its core, the TLC configurations that check them, and TLAPS proofs.

## 1. The system

| Part | Source | State | Operations |
|---|---|---|---|
| Chain | `core/src/chain/chain.cpp` | length and last block of the active chain, hashes of its last five blocks, `_branching_height` | `handle_block`, `handle_transaction`, `get_block`, `get_active_chain`, `get_active_chain_hashes`, `get_chain_length` |
| CoinDatabase | `core/src/coin_database/*.cpp` | a database of coin records by transaction hash, the main cache of coins by locator, the mempool, a counter for each of the last two | `validate_*`, `store_block`, `store_transaction`, `validate_and_store_*`, `flush_main_cache`, `undo_coins`, `return_matching_utxo` |
| ChainWriter | `core/src/chain_writer/*.cpp` | number and offset of the current block file and undo file; the files | `write_block`, `write_undo_block`, `store_block`, `read_block`, `read_undo_block` |
| BlockInfoDatabase | `core/src/block_info_database/*.cpp` | block records by block hash | `store_block_record`, `get_block_record` |
| Database | `core/src/db/db.cpp` | a hash map of strings and a mutex | get, put, delete, batches |
| RathCrypto | `core/src/crypto/rathcrypto.cpp` | none | `hash` |
| Primitives | `core/src/primitives/*.cpp` | none | serialize, deserialize |

A node runs in one thread, by calls. `Chain` owns the other objects:

    handle_block ----> CoinDatabase (validate, store the coins)
                 ----> ChainWriter (store the block and its undo block: FileInfos)
                 ----> BlockInfoDatabase (file a record with height and FileInfos)
    get_block    ----> BlockInfoDatabase ----> ChainWriter (read)
    all of them  ----> Primitives (serialize, deserialize) ----> protobuf messages
                 ----> RathCrypto (hash of a serialized block or transaction)

Databases live in memory although they are meant for disk; only block and undo
files outlive the process. Only `Database` is made for several threads, with a
mutex that five of its seven operations take; what is hard elsewhere is *order*
and *agreement*:

- four stores (coins, records, files, the members of `Chain`) must tell one
  story after any sequence of blocks, forks, repeated blocks and transactions;
- a fork may overtake the active chain, and then much is undone and redone;
- a coin is looked up in a cache first and in a database second;
- counters kept by hand, 16-bit offsets, and file rollovers;
- a restart on a directory that still has the files;
- bytes: a block is hashed, serialized, copied by `strcpy` and parsed again, and
  what comes back depends on where its zero bytes are;
- undefined behaviour: bool functions that end without a return, a member, an
  accumulator and a buffer that are never initialised, reads past the end of a
  vector, data races.

What makes each part correct:

- *Chain*: records, recent hashes and coins agree with the active chain; its
  blocks link; a block enters it only if its inputs name outputs below it; a
  fork is filed one above its parent and never above the tip.
- *CoinDatabase*: validation accepts exactly the outputs stored, not undone and
  not spent; cache and database agree; the counters count.
- *ChainWriter*: what is written is what is read, always.
- *Database*: operations under the mutex are atomic; none keeps it for good.
- *RathCrypto*, *Primitives*, *records*: the hash is that of SHA-256; a value
  read back is the value stored, down to each field.

## 2. Modules

| Module | What it is |
|---|---|
| `ChainWriter` | block and undo files; `MCChainWriter` instantiates it |
| `WriteOnceStore` | the abstract store: entries are added under fresh keys and never change; `ChainWriter` implements it |
| `ChainWriterProofs` | the TLAPS proofs about `ChainWriter` |
| `CoinDatabase` | coins, cache and mempool; `MCCoinDatabase` instantiates it |
| `Chain` | the chain, composed with `CoinDatabase` (`Coins == INSTANCE`); `MCChain` instantiates it |
| `BlockLog` | the abstract chain: a linked log that is only appended to; `Chain` implements it |
| `Database` | the shared hash table, its threads and its mutex; `MCDatabase` instantiates it |
| `AtomicMap` | the abstract database: batches, and reads that answer from one state; `Database` implements it |
| `DatabaseProofs` | the TLAPS proofs about `Database` |
| `ChainProofs` | the TLAPS proofs about `Chain` |
| `CoinDatabaseProofs` | the TLAPS proofs about `CoinDatabase` |
| `NodeProofs` | the TLAPS proofs about both together: extends `ChainProofs` and instantiates `CoinDatabaseProofs` with a node's blocks |
| `Storage` | a node's data as bytes: files, block records, coin records, hashes, over `ChainWriter`'s file arithmetic; `MCStorage` instantiates it |
| `Primitives` | serialize and deserialize of blocks, transactions and records (pure operators) |
| `Messages` | what the generated classes of `rath.proto` write, measure and parse (pure operators) |
| `Wire` | the protobuf wire format, which the repository does not contain (external) |
| `RathCrypto` | the hash (pure operators) |
| `WireProofs` | the TLAPS proofs about `Wire`: what is written as fields is read as these fields |
| `PrimitivesProofs` | the TLAPS proofs about `Messages` and `Primitives`: every value is deserialized as it was |
| `StorageProofs` | the TLAPS proofs about `Storage` |

`Storage` extends `Primitives`, which extends `Messages`, which extends `Wire`.
Its hash is a constant, `Hash`, for which `MCStorage` puts `hash` of
`RathCrypto`. The proof modules extend each other in the same order.

### ChainWriter

`blocks` and `undos` are the two streams, each with the content of its files,
the current number and the offset as a `uint16_t` (`Word` stands for 2^16,
`MaxFileSize` for the 1000 bytes of both kinds of file). An action is a call:
`WriteBlock`, `WriteUndoBlock`, `StoreBlock` (both), and `Restart`, a new
process on the same directory. Reads are operators with the two `exit` calls as
results. `CharBlock` is what the buffer can hold after `strcpy`: everything
behind the first NUL is arbitrary, since it was never initialised. A serialized
block is a sequence of bytes; only NUL is told apart from the others.

History variables: `issued` collects the FileInfos returned, and `intact` is
true until a restart or a text so long that `offset + n + 1` may wrap. Each
entry keeps the value of `intact` at its write.

### CoinDatabase

`db` maps a transaction hash to a record (output index to amount) or
`NoRecord`; a missing key and the empty string are the same, as in the code.
`cache` maps a locator to a coin. Transactions are opaque, with their inputs,
outputs and hash as constants, and two may share a hash. A public key goes
everywhere its amount goes and is left out.

- A bool function that ends without a return (`validate_transactionInput` for a
  spent coin, `validate_and_store_block` and `validate_and_store_transaction`)
  has the outcomes of `FallOff`: it reads as true, reads as false, traps, or the
  compiler has dropped the test and it proceeds. All have been observed in g++
  builds at different optimisation levels, except reading true.
- A flush of a non-empty cache enters a loop (`status = "flushing"`) of which
  `FlushStep` is one turn, at an arbitrary entry, as the order of an
  `unordered_map` is. The loop never moves on.
- `UndoCoins` undoes any stored block; `undo_coins` of a list of blocks with
  their undo blocks is several such steps. `remove_utxo` deletes the record that
  `add_utxo` has written, and the coins of the transaction. What is left of
  `add_utxo` is, first, the coins it makes unspent: it takes the amounts of the
  undo block for indexes of outputs (`Sought`), and such a coin stays in the cache
  if a transaction with the same hash and more outputs was stored
  (`CacheWithout`); second, the search that may run off the end of a record
  (`Overruns`), which may end the process or be survived.
- `QuickCacheRemove` is the helper by which the tests mark a coin as spent;
  nothing else in the code does.

History variables: `stored` (blocks stored and not undone, with the amounts of
their undo blocks), `marked`, `repeated` (some transaction was stored twice),
`clashed` (two transactions with one hash were stored, or one with more outputs
than the indexes of a `CoinLocator` tell apart).

### Chain

Constants give each block its hash, its parent's hash and its transactions;
hashes are assumed to tell blocks apart (section 6). `infos` is the block-info
database: the height and the header of a block, as the record keeps them, and
`read`, what the text that the record locates is read back as. `Legible` are the
blocks whose text has no zero byte, and come back as they were; the text of any
other block, the genesis block among them, is cut by `strcpy` when it is written
and comes back whole or as any of `Damaged` (`ReadAs`). `HandleBlock` is the
whole of `handle_block`, by the path taken: `Extend` (the block extends the
tip; validated, and stored if valid), `Orphan` (unknown parent: a null pointer
is followed), `TooDeep`, `StoreFork`, `Reorganise`. The process stops being
`"running"` in a loop of a flush or in a crash, and then handles nothing.

`Reorganise` ends the process. The code calls `undo_coins` with
`get_undo_blocks_queue(b)` and `get_active_chain(b + 1, length)`; the first has
one element more, and `undo_coins` reads a pointer past the end of the second.
The invariant `OvertakeOverruns` shows that every reachable overtaking block
comes to this, or to a null pointer before; every such fork (one to three
blocks undone) ended in a segmentation fault in g++ builds at -O0 and -O2. The
lines of `handle_block` behind that call are therefore not modelled.

`active`, the history of the blocks that became the tip, is what properties
compare the rest with. `GetBlock` is `get_block`, with `NoInfo` for the null
pointer. The walks of the queries and of a reorganisation follow the headers of
the blocks as they are read back (`Below`), so that a damaged header may lead a
walk to another branch or to no block. `NoInfo` in the result of a walk stands
for a process that follows the null pointer. `GetActiveChain` and
`GetActiveChainHashes` are the queries; the second returns the hash of the tip
throughout, since its loop declares a `hash` of its own. Between the blocks a
walk returns and the active chain, `QueryActiveChain` claims what the code gives:
their number, and each block with no damaged text from it up to the tip. The
block that a test reads back first, the genesis block, is not among these
(findings of `chain_writer_nul`).

A block off the tip is stored although it was found invalid: the test of its
validity is commented out (`chain.cpp:144`, `148`), where `chain.h:60` says that a
block is stored if validated. `StoreFork` does the same; no run is spent on it.
`CoinsFollowChain` and `JudgedByActiveChain` show that such blocks leave no coins
and change no verdict.

### Database

A call is `idle`, then `waiting` for the mutex if it takes it, then works off
its list of accesses to the table one by one, each from `Enter` to `Leave`, and
ends with `Return`. So other threads take steps before, during and after each
access. Two threads *race* when their accesses overlap and one may write what
the other uses: any insertion or removal of a node, an assignment to the same
key. A lookup of a missing key is an insertion, as `operator[]` is. A race is
undefined behaviour: from then on an access may get lost, a lookup may find
nothing, and the process may crash. After the first race no new call begins
(bound).

`store` is the table; a missing key and the empty string look the same to every
reader (`View`). History variables: `settled` is the view as the last holder of
the mutex left it, `done` what the last locked call asked and read; both are what
`AtomicMap` speaks of. `Unlocked` are the threads that call `get` and
`batch_read`.

### Storage and the modules below it

Everything a node keeps is a sequence of bytes here. `RathCrypto` translates
`hash` line by line, with words as pairs of 16-bit halves; `Wire` writes numbers,
strings, packed numbers and submessages, and reads a text as its fields (`FieldsOf`,
a recursive function: each field leaves a shorter text); `Messages` has for
each generated class its `_InternalSerialize` (`...Text`), `ByteSizeLong`
(`...Size`) and `_InternalParse` (`...Parse`, and `...Fails` for a parse that
returns null, whose result no caller looks at: the message is taken as far as it
was filled). `SerializeToString` makes a string of the announced size.

`Storage` composes them: `Extend` and `StoreFork` are the two ways
`handle_block` stores a block, with validation, undo block, file writes, block
record and coin records; `RemoveCoin` is `remove_coin_from_database`. The file
arithmetic (rollover, offsets, reads) is that of `ChainWriter`, by `INSTANCE`.
The buffer of a write holds the text up to its first zero byte and then a
residue, chosen among `Residues`. The cache holds the outputs of a transaction by
one byte of their index (`ByIndex`). `GetBlockRecord`, `GetBlock`, `GetUndoBlock`
and `GetCoinRecord` read all of it back.

What survives `strcpy` is said by *legible*: a block is legible if none of its
submessages is empty (an input, output or header whose fields are all zero), an
undo block if none of its indexes, amounts and keys is zero, since repeated
numbers are packed and a zero among them is a zero byte. `NulExact` shows that
this is exactly when a text has no zero byte. So the undo block of every block
that spends an output 0 is damaged on disk, as is the genesis block, whose
input is all zeros.

## 3. Runs

| Run | Shows |
|---|---|
| `chain_writer` | `ReadBack`: a NUL-free text reads back as written whatever follows; `ReadNeverExits`; `FileSizeBounded`: a file overshoots by at most the NUL; `StoreSpec`: refinement of `WriteOnceStore` |
| `coin_database` | `ValidationExact`: validation accepts exactly the stored, not undone, not marked outputs, from cache or database; `CacheBacked`: both give one amount; `CacheSizeExact`: the size counts the cached coins until two transactions clash, after which it may wrap and make every later block flush; `MempoolBounded` |
| `chain` | `ActiveChainStored`, `ForkHeights`, `LastHashesAreTail`, `CoinsFollowChain`: records, hashes and coins agree with the active chain; `LedgerClosed`: every input of the active chain names an output below; `JudgedByActiveChain`: the active chain alone decides what validation accepts; `ChainFitsCache`: a node takes blocks until the outputs of its chain fill the cache, and then hangs; `QueryActiveChain`: a block for each height, and the right one above the last damaged text; `OvertakeOverruns`; `LogSpec`: refinement of `BlockLog` |
| `database` | `RacesNeedUnlocked`: operations under the mutex never race with each other; `AtomicSpec`: until the first race they are atomic; `MutexReleased`, `UnlockedReturn`: nobody keeps the mutex, and a call without it returns |
| `storage` | `RecordsExact`: a record describes the block stored under its hash and data of its own; `BlocksReadBack`, `UndosReadBack`: legible blocks and undo blocks read back field by field; `NulExact`; `UndoHashesKept`: even a damaged undo block names its transactions; `CoinRecordsExact`: a coin record has the outputs not removed, each with its amount and key; `HashIsSha256`, `PaddingIsSha`; `PartsRoundTrip` |
| `chain_double_spend` | *violated*: a coin is an unspent output |
| `chain_hashes` | *violated*: the hashes of the active chain are returned in order |
| `chain_reorg` | *violated*: `undo_coins` takes two corresponding lists |
| `chain_missing_return` | *violated*: blocks of the active chain were validated, under every outcome of the missing return |
| `coin_database_flush` | *violated*: a flush ends |
| `chain_writer_nul` | *violated*: a block reads back as it was serialized |
| `chain_writer_restart` | *violated*: the offset is where the next byte goes |

Each violated run checks one statement of a comment or a test of the
repository, quoted in `PROJECT.json` under `findings`.

### Bounds

- `ChainWriter`: files of 3 bytes and words of 5, so that texts of 1, 2, 3 and
  4 bytes make a rollover, a file filled to the last byte, an overshoot, and an
  offset that wraps to 0 happen within three writes (`MaxIssued = 3`). Three
  files (`MaxFileNumber = 2`) let two rollovers happen; `MaxFileBytes = 8` stops
  a file that grows after restarts. The wrap of the file number after 65536
  files is excluded by `MaxFileNumber < Word`. Texts of the violated restart run
  are as in the passing run.
- `CoinDatabase`: `CacheCapacity = 3` makes the second or third call flush;
  `MempoolCapacity = 2` is passed by the third transaction; `Word = 8` makes the
  counters wrap; `IndexWord = 2` is passed by a transaction with three outputs;
  `MaxStored = 2` blocks stored and not undone, of which the older may be undone
  first. Two of five transactions share a hash, and are stored together in one
  block or one of them alone; one has an output more than a locator can name;
  one spends an output with a larger index than any of its own (the case in
  which `find_index` overruns). The narrower of the two that share a hash spends
  an output whose amount is the index of the other's second coin, so that an undo
  makes a spent coin unspent that stays in the cache.
- `Chain`: `Window = 2` for the five recent hashes, the depth of a fork and the
  steps of a walk, so a chain of five blocks pushes hashes out and buries forks;
  ten blocks form a main branch of five, a fork of three, an invalid block (of
  two inputs, of which one names nothing) and an orphan without inputs; two
  blocks of the main branch have transactions of one hash. The genesis block, a
  block of the main branch and one of the fork are not legible; one damaged value
  with a header that names a block of the fork, which may be stored or not, leads
  walks down, across and off the blocks. `CacheCapacity = 6`
  is passed by the fifth block, where the node hangs. `Garbage` holds values of
  the uninitialised `_branching_height` below, at and above the height of the
  chain; 2^32 - 1, for which `_branching_height + 1` wraps, is left out. The
  passing run takes a build in which a missing return reads as false or traps;
  the run `chain_missing_return` takes every outcome.

- `Database`: three threads, one of them without locks, two keys, two values;
  batches that write both keys or one key twice and a list of both keys, so that
  half a batch can be told from a whole one.
- `Storage`: `MaxFileSize = 300` for 1000, so that the blocks (36 to 175 bytes)
  fill a file and roll over within four stores; five blocks with several
  transactions, inputs and outputs, texts of one to three blocks of SHA-256,
  numbers of one to five bytes, a submessage longer than 127 bytes, zeros
  everywhere a field allows them; two residues, one of bytes that parse and one
  of bytes that do not. Two coins of one record and the only coin of another may
  be removed. Numbers stay below 2^31, the integers of TLC; the sum of the
  digest starts from `Accumulator = 1000`.

Deadlock is not checked where the bounds, a crash or the end of the blocks stop
a behaviour on purpose.

### Fairness

- `Database`: `WF_vars(Step(t))` for every thread: a thread inside a call keeps
  running. No fairness is assumed of calls or of the mutex: `std::mutex` gives
  no waiting thread a turn, so no property says that a locked call returns;
  `MutexReleased` says that whoever holds the mutex lets go of it, and
  `UnlockedReturn` that calls without it return.
- `coin_database_flush`: `WF_vars(FlushStep)`: a process inside a loop keeps
  executing it.

No other property is a liveness property: every other operation is a call that
runs to its end, and nothing obliges a caller to call.

## 4. Proofs

`ChainWriterProofs` proves, for every set of bytes, texts, file size and word
size that meet the assumptions of `ChainWriter`:

| Theorem | Statement |
|---|---|
| `TypeCorrect` | `Spec => []TypeOK` |
| `TextsReadBack` | `Spec => []ReadBack` |
| `ReadsNeverExit` | `Spec => []ReadNeverExits` |
| `FilesStayBounded` | `Spec => []FileSizeBounded` |
| `ImplementsStore` | `Spec => StoreSpec` |

Assumptions: NUL is a byte, texts are sequences of bytes, and
`MaxFileSize + 1 < Word`, which holds of 1000 and 2^16 and without which the
start of a write could wrap.

None of the invariants is inductive. What makes them so (`IInv`):

- the offset never lies beyond the end of the current file (`OffsetInFile`), so
  that whatever is appended, the bytes a FileInfo names exist. This survives a
  restart and a wrapped offset, and gives `ReadNeverExits`;
- while `intact`, the offset *is* the end of the file, and the files after it
  are empty (`AtEnd`), so that a rollover starts at the beginning of a file;
- each entry names bytes of its file (`EntryInFile`), and if it was intact and
  NUL-free, exactly its text (`EntryBytes`);
- no FileInfo of an intact entry was issued before (`OneTextPerInfo`): it starts
  at the end of the file, where every older entry has ended.

Files only grow (`Grown`), so old entries keep their bytes; `NewInfoFacts` and
`IntactFacts` say what a write adds. The refinement follows because an entry of
the invariant reads the same bytes before and after any step, those of texts
with NULs included.

`DatabaseProofs` proves, for any threads, of which any may be unlocked, and any
keys, values, batches and lists of keys:

| Theorem | Statement |
|---|---|
| `TypeCorrect` | `Spec => []TypeOK` |
| `RacesCorrect` | `Spec => []RacesNeedUnlocked` |
| `AtomicCorrect` | `Spec => AtomicSpec` |

Assumptions: no thread has the name of the free mutex, the empty string is a
value and a missing key is none, batches are sequences of writes and lists of
keys are sequences (`ThreadAssumption`, `ValueAssumption`, `CallAssumption`).

That two locked threads are never inside the table together does not follow from
its own truth; nor does the refinement, as `settled` says nothing of a table
that a batch has half written. The inductive invariant (`Inv`) adds:

- a thread holds the mutex exactly while its call, a locked one, is between
  `Lock` and `Return` (`MutexHeld`): a race of two locked accesses would need two
  holders, which gives `RacesNeedUnlocked`;
- a call of an unlocked thread takes no lock and asks for lookups only, and any
  other call is one of the lists that the locked operations make (`CallKind`);
  no call goes beyond its list (`CallProgress`);
- until a race, the table is what `settled` says while the mutex is free, and
  while a thread holds it, `settled` after the first `at` writes of its batch;
  what it has read so far is what `settled` says of those keys (`Settling`).

A lookup of a missing key inserts an empty string, which no reader can tell from
a missing key (`AccessView`), so unlocked lookups leave `Settling` as it is.
`AfterFirstStep` says what one more write does, and `AfterFirstAll` that after
all of them the table is what the atomic map makes of the batch; so `Return` is
its step, and every other step leaves `settled` alone.

`ChainProofs` proves, for any tree of blocks, any window and any transactions:

| Theorem | Statement |
|---|---|
| `TypeCorrect` | `Spec => []TypeOK` |
| `RecordsFollowChain` | `Spec => []ActiveChainStored` |
| `ForksGrounded` | `Spec => []ForkHeights` |
| `RecentHashesCorrect` | `Spec => []LastHashesAreTail` |
| `ImplementsLog` | `Spec => LogSpec` |
| `ChainQueryCorrect` | `Spec => []QueryActiveChain` |
| `OvertakingOverruns` | `Spec => []OvertakeOverruns` |
| `CoinsAgree` | `"true" \notin FallOff => (Spec => []CoinsFollowChain)` |
| `LedgerCorrect` | `FallOff \cap {"true", "proceed"} = {} => (Spec => []LedgerClosed)` |

Assumptions: hashes tell blocks apart, the genesis block has no parent and is not
legible, the window is not empty and `Damaged` is any set of values with a header
(`BlockAssumption`), no record is `NoInfo`
(`NoInfoAssumption`), and those of the coin database (`CoinAssumption`). The
hypotheses about `FallOff` speak of the build. If a missing return may read as
true, a rejected block may become the tip without its coins; if the test may be
dropped, its coins may be stored unvalidated. `chain_missing_return` shows that
`LedgerClosed` does not hold of every build. Reading true has not been observed;
a build that proceeds has.

The inductive invariant of the first seven is `ChainInv`: `TypeOK`,
`ActiveChainStored`, `ForkHeights` and `LastHashesAreTail` together, with
`length >= 1`. The first three need each other. A fork must not overwrite a record
of the active chain: it is filed under its own hash, so the only danger is a block
of the active chain handed in a second time; its parent is one below it in the
chain (`ActiveChainStored`), so it is filed at the height it has, and the record
stays. A new tip is one above its parent (`ForkHeights`) because the old tip has a
record of height `length`. That a walk back from the tip visits `active` in
reverse as long as the blocks it reads are legible (`WalkMeetsChain`) is proved
from the least step at which the two would differ; the query follows. Its length
does not depend on what is read. The branching height of a reorganisation is
a natural number, whether the walk down the fork sets it or not
(`BranchingFacts`), and for every such number `get_undo_blocks_queue` collects one
block more than `get_active_chain` returns.

`LedgerInv` adds to `LedgerClosed` that every coin, in the cache or in a record,
is an output of the active chain (`CoinsProvided`): no step but `Extend` writes
coins, and those it writes are outputs of the new tip; so what validation accepts
was provided below.

`CoinDatabaseProofs` proves, for any transactions, of which any may share a hash,
any blocks of them, any capacities and any word sizes:

| Theorem | Statement |
|---|---|
| `TypeCorrect` | `Spec => []TypeOK` |
| `MempoolCorrect` | `Spec => []MempoolBounded` |
| `CacheBackedCorrect` | `Spec => []CacheBacked` |
| `CacheSizeCorrect` | `Spec => []CacheSizeExact` |
| `ValidationCorrect` | `(FallOff \ {"proceed"} # {"true"}) => (Spec => []ValidationExact)` |

Assumptions: the types of the constants (`SizeAssumption`, `TxAssumption`,
`FallOffAssumption`) and that no coin is `NoCoin` and no record `NoRecord`
(`AbsentAssumption`). The hypothesis of the last theorem excludes a build in which
a validation that falls off its end always returns true: there a spent coin is
accepted.

The inductive invariant is `DbInv`:

- for each transaction with a hash of its own that is not too wide, what cache
  and record hold (`CoinsSound`): a cached coin is an output of it with its
  amount, spent exactly if marked, and in the record if not spent; a record has
  outputs of it only; and if no transaction was stored twice, all its coins are
  cached. `CacheBacked` and `ValidationExact` follow from it. A flush needs
  `IteratorCached`: the coin it looks at is cached, so that it takes only a
  *spent* output out of a record;
- while no transaction is stored twice, no two places in the stored blocks have
  the same one (`StoredOnce`): undoing one block leaves the others' coins alone;
- without clashes, the same of hashes, and the cached locators are those of the
  stored outputs (`CacheOfBlocks`), each of one output only: a block to store adds
  as many coins to the cache as it has outputs, a block to undo takes as many
  away, and so the size stays exact modulo the word (`StoreSize`, `UndoSize`);
- the cache and the mempool are finite (`FiniteParts`), which cardinalities need.

`CacheSizeExact` speaks of clashes in the whole history, not of those among the
blocks stored at the moment: two transactions with one hash are counted twice, and
taken off twice when undone, although they share coins, and the size stays wrong
when both are gone.

`NodeProofs` proves of a whole node:

| Theorem | Statement |
|---|---|
| `ChainJudges` | `"true" \notin FallOff => (Spec => []JudgedByActiveChain)` |
| `ChainFits` | `"true" \notin FallOff => (Spec => []ChainFitsCache)` |
| `NodeCoinsCorrect` | `Spec => []CoinsCorrect`: everything `CoinDatabase` promises, of the database inside a node |

- `JudgeInv`: every coin is an output of the active chain (`CoinsProvided`), every
  output of the active chain has a coin in the cache (`OutputsCached`), and no coin
  is spent (`NothingSpent`). So validation finds in the cache exactly the outputs
  of the active chain, and never looks further.
- `FitInv`: the size is the number of the outputs of the active chain in 16 bits.
  `StoreBlock` stores only within the capacity or into an empty cache, which is
  one of a chain without outputs; else it enters the loop.
- `NodeCalls`: every step of a node is a step of `CoinDatabase`, a crash in `Chain`
  itself, or leaves the coins alone. `DbInv` survives each (`DbInvStep`,
  `QuietKeeps`), and holds when the genesis block has been stored without
  validation (`InitWithInv`). `Coins` and the instance of the proofs (`Db`) are two
  copies of one module; the lemmas `Same...` say that they agree.

`PrimitivesProofs` proves, for every value, with lists of any length:

| Theorem | Statement |
|---|---|
| `BlockHeaderRoundTrip`, `TransactionInputRoundTrip`, `TransactionOutputRoundTrip`, `TransactionRoundTrip` | `XDeserialize(XSerialize(x)) = x` for every header, input, output, transaction |
| `BlockRoundTrip` | the same of every block whose text is no longer than 2^31 - 1 |
| `CoinRecordRoundTrip` | the same of a coin record with a text of such a length and a version that fits the `uint8_t` it is read into |
| `UndoBlockRoundTrip` | the same of an undo block whose records have such versions (`UncutUndo`) |
| `BlockRecordRoundTrip` | the same of every block record whose numbers fit the words they are declared with |

There are no assumptions. The hypotheses are those the code needs: a submessage is
written with a length that a varint of 31 bits holds (`MaxValue`, the bound of the
model), and `CoinRecord::version` and the offsets are read into fewer bits than a
message has.

The argument has three layers. What is written is a list of fields, of the announced
size (`WrittenAs`): the size, the text, whether it has a zero byte and the fields go
together through concatenation (`WrittenConcat`), so one lemma per kind of field
(`UInt32Written`, `StringWritten`, `PackedWritten`, `MessagesWritten`) gives that of
every message. A text of such fields is read as them, whatever follows (`RunFieldRead`
and its like, by induction on the fields). Last, from a list of fields the
parse takes each member back, since fields of other numbers do not disturb it
(`UInt32In`, `StringIn`, `RunsIn`, `UInt32sIn`). An induction is over a *set* of numbers
or sequences (`CountingUp`, `AppendingOn`, `PrependingOn`), and a recursive function
is shown to exist from the set of its approximations (`IterationExists`,
`ReadingExists`), so that no theorem with an operator as a parameter is needed.

`StorageProofs` proves, for any blocks, any hash, any residues of a buffer, any file
size and any number of files:

| Theorem | Statement |
|---|---|
| `InductiveInvariant` | `Spec => []IInv` |
| `TypeCorrect` | `Spec => []TypeOK` |
| `RecordsAreExact` | `Spec => []RecordsExact` |
| `BlocksAreReadBack` | `Spec => []BlocksReadBack` |
| `UndosAreReadBack` | `Spec => []UndosReadBack` |
| `UndoHashesAreKept` | `Spec => []UndoHashesKept` |
| `CoinRecordsAreExact` | `Spec => []CoinRecordsExact` |
| `NulIsExact` | `Spec => []NulExact` |
| `PartsSurvive` | `Spec => []PartsRoundTrip` |

Assumptions: blocks fit a 16-bit offset (`BlockAssumption`); hashes tell blocks and
transactions apart, are neither 0 nor that of an unknown block (`HashAssumption`,
section 6); a residue is a text that is not empty (`ResidueAssumption`); removable
coins are hashes with indexes (`RemovableAssumption`); and `MaxFileSize + 1 < 2^16`,
one file or more behind the first, as a genesis block longer than `MaxFileSize` needs
(`SizeAssumption`). `MaxStored`, `MaxRemoved` and `MaxFileNumber` bound a run; 207 file
numbers are what two bytes of a file name tell apart.

None of these invariants is inductive. `IInv`, which TLC checked on the instance of
`MCStorage` before it was proved, has these parts:

- `StreamGood`, of both streams: the offset is where the current file ends, and the
  files to come are empty, so that a write neither overlaps nor is overlapped;
- `CoinTexts`: the text under a transaction's hash is that of the record of the
  outputs left, for *every* transaction on the chain, and empty for the others. Taking
  out one output removes the same place from the three parallel lists
  (`RecordWithout`), so the order of removals does not matter;
- `CacheGood`: the cache has lists of outputs, from which an undo block takes amounts
  and keys;
- `StoredInv`: every stored entry has a block and an undo block whose texts fit a
  file, whose hashes are not 0, and whose versions are not cut (`EntryGood`): the
  hypotheses of the round trips;
- `RecordsInv`: the record filed under the hash of a stored block leads to the block
  stored *last* under it and to its undo block (`LeadsTo`), and the records of
  different blocks to different bytes (`Apart`). A block stored a second time
  overwrites its record, and the older bytes stay where nothing points to them.

`LeadsTo` says of bytes only what `strcpy` leaves of them (`Placed`): those before the
first 0. Files only grow (`Grew`), so old places keep them (`WhereKept`), and a new place
lies behind every older one (`NewPlace`). With `NulIsExact`, by which a legible text has
no 0, whole blocks are read back (`ReadWhere`); without it, the first field of an
undo block, the transaction hashes, still is (`PrefixKept`, `HashesRead`).

Model-checked only:

- `HashIsSha256` and `PaddingIsSha` of the run `storage`: `RathCrypto` uses bit
  operations, which the provers do not have. The proofs about `Storage` hold of any
  hash that meets `HashAssumption`;
- liveness: `MutexReleased`, `UnlockedReturn`, and the violated `FlushEnds`.

## 5. What is not modelled

- The protobuf library, beyond the wire format (`Wire`), and of the generated
  code what the repository does not call: clearing, merging, copying,
  reflection, arenas, and the checks of UTF-8 (file names are ASCII). Numbers
  from 2^31 on.
- I/O errors: `fopen` of a missing directory, a full disk, a short write. A
  process that dies of one is a write followed by a `Restart` of `ChainWriter`.
- In `Chain`: what follows `undo_coins` in a reorganisation, which is never
  reached. The copies `copy_block`, `copy_transactions` and `get_last_block` are
  the identity.
- In `CoinDatabase`: `undo_coins` with lists that do not correspond, other than
  as the crash it ends in; helpers that only tests call on their own.
- In `Database`: what an unlocked read returns while others write.

## 6. Assumptions a reader should know

- *Hashes tell blocks apart* (`BlockAssumption`). The code's hash is a sum of 32
  bytes, at most 8160, added to an uninitialised variable; at -O0 two calls on
  one string have been seen to differ. Everything shown of `Chain` is under the
  assumption that they do not, and `Storage` takes one start value for all calls
  (`Accumulator` of `MCStorage`) and blocks with different sums (`HashAssumption`, also that
  none is 0 or the hash of an unknown block). `CoinDatabase` allows equal transaction
  hashes.
- *Blocks without a zero byte read back from disk as they were stored*: `ReadBack`
  of `ChainWriter` and `BlocksReadBack` of `Storage` show it, and `NulExact` which
  blocks these are; `Chain` takes it over as `Legible`. Of other blocks, the
  genesis block among them, `Chain` assumes only that they are read back as
  something.
- *A crash is the end*: undefined behaviour that was observed to end the process
  is modelled as ending it.

## 7. Status

`ChainWriter`, `Database` and `Chain` are modelled with their refinements and proofs;
`CoinDatabase`, a whole node and `Storage`, down to its bytes, with their proofs. Every
safety property of a passing run but the two about `RathCrypto` is a theorem.

What a further step would take up: the rest of a reorganisation, once
`undo_coins` is called with lists that correspond; numbers from 2^31 on, which TLC's
integers do not reach; and `Chain` over the bytes of `Storage` instead of blocks, with
`Infos` as the abstraction of `RecordsExact`.
