----------------------------- MODULE NodeProofs -----------------------------
(***************************************************************************)
(* Proofs about a whole node: Chain together with the coin database it     *)
(* owns, by way of what CoinDatabaseProofs shows of storing a block.       *)
(***************************************************************************)
EXTENDS ChainProofs, FiniteSetTheorems

Db == INSTANCE CoinDatabaseProofs WITH Blocks <- {Txs[b] : b \in Block}

LEMMA DbAssumptions ==
    Db!SizeAssumption /\ Db!TxAssumption /\ Db!AbsentAssumption /\ Db!FallOffAssumption
  BY CoinAssumption
  DEF Coins!SizeAssumption, Coins!TxAssumption, Coins!AbsentAssumption, Coins!FallOffAssumption,
      Db!SizeAssumption, Db!TxAssumption, Db!AbsentAssumption, Db!FallOffAssumption

----------------------------------------------------------------------------
(* What a node does to its coins. *)

\* The coins of b are stored: within the capacity, or into an empty cache.
Filled(b) ==
    \/ /\ Len(Txs[b]) + cacheSize <= CacheCapacity
       /\ Coins!StoreToMainCache(Txs[b], cacheSize)
    \/ /\ Coins!Cached = {}
       /\ Coins!StoreToMainCache(Txs[b], 0)

\* A block on the tip that does not fit.
Overfull == \E b \in Block : OnTip(b) /\ Len(Txs[b]) + cacheSize > CacheCapacity

LEMMA NodeCases ==
    ASSUME [Next]_vars, "true" \notin FallOff, cacheSize \in Nat
    PROVE  \/ \E b \in Block : Appended(b) /\ Filled(b) /\ status' = "running"
           \/ /\ UNCHANGED <<length, tip, active, db, cache, cacheSize, stored>>
              /\ status' = "flushing" => status = "flushing" \/ Overfull
  <1> DEFINE Still == UNCHANGED <<length, tip, active, db, cache, cacheSize, stored>>
  <1>1. ASSUME NEW b \in Block, Next, Extend(b)
        PROVE  \/ Appended(b) /\ Filled(b) /\ status' = "running"
               \/ Still /\ (status' = "flushing" => status = "flushing" \/ Overfull)
    <2>1. PICK valid \in BOOLEAN :
              /\ Coins!ValidateAndStoreBlock(Txs[b], valid)
              /\ IF valid /\ status' = "running" THEN Appended(b) ELSE UNCHANGED chainVars
      BY <1>1 DEF Extend, Accept, Appended
    <2>2. status = "running" /\ OnTip(b)
      BY <1>1 DEF Next, Extend
    <2>3. CASE Coins!StoreBlock(Txs[b]) /\ valid
      <3>1. CASE Coins!EnterFlush /\ Len(Txs[b]) + cacheSize > CacheCapacity
        <4>1. ~(status' = "running") /\ UNCHANGED <<db, cache, cacheSize, stored>>
          BY <3>1 DEF Coins!EnterFlush, Coins!coinVars, Coins!history
        <4>2. Overfull
          BY <2>2, <3>1 DEF Overfull
        <4> QED
          BY <2>1, <4>1, <4>2 DEF chainVars
      <3>2. CASE Coins!Cached = {} /\ Coins!StoreToMainCache(Txs[b], 0) /\ status' = status
        BY <2>1, <2>2, <2>3, <3>2 DEF Filled
      <3>3. CASE /\ ~(Len(Txs[b]) + cacheSize > CacheCapacity)
                 /\ Coins!StoreToMainCache(Txs[b], cacheSize) /\ status' = status
        <4>1. Len(Txs[b]) \in Nat /\ CacheCapacity \in Nat
          BY TxsFacts, ConstantFacts
        <4>2. Filled(b)
          BY <3>3, <4>1 DEF Filled
        <4> QED
          BY <2>1, <2>2, <2>3, <3>3, <4>2
      <3> QED
        BY <2>3, <3>1, <3>2, <3>3 DEF Coins!StoreBlock
    <2>4. CASE UNCHANGED Coins!vars /\ ~valid
      BY <2>1, <2>4 DEF Coins!vars, chainVars
    <2>5. CASE Coins!Crash /\ ~valid
      BY <2>1, <2>5 DEF Coins!Crash, Coins!coinVars, Coins!history, chainVars
    <2> QED
      BY <2>1, <2>3, <2>4, <2>5 DEF Coins!ValidateAndStoreBlock
  <1>2. ASSUME NEW b \in Block, Orphan(b) \/ TooDeep(b) \/ Reorganise(b) \/ StoreFork(b)
        PROVE  Still /\ (status' = "flushing" => status = "flushing")
    BY <1>2 DEF Orphan, TooDeep, Reorganise, StoreFork, Coins!Crash, Coins!coinVars,
                Coins!history, vars, chainVars, coinVars
  <1>3. ASSUME NEW t \in Tx, HandleTransaction(t)
        PROVE  Still /\ (status' = "flushing" => status = "flushing")
    BY <1>3 DEF HandleTransaction, Coins!ValidateAndStoreTransaction, Coins!StoreTransaction,
                Coins!Crash, Coins!coinVars, Coins!history, Coins!vars, chainVars
  <1>4. UNCHANGED vars => Still /\ (status' = "flushing" => status = "flushing")
    BY DEF vars, chainVars, coinVars
  <1> QED
    BY <1>1, <1>2, <1>3, <1>4 DEF Next, HandleBlock

\* Filling is storing, as ChainProofs speaks of it.
LEMMA FilledStored ==
    ASSUME NEW b \in Block, Filled(b)
    PROVE  /\ CoinsStored(b)
           /\ db' = Coins!DbWith(db, Txs[b]) /\ cache' = Coins!CacheWith(cache, Txs[b])
  BY DEF Filled, CoinsStored, Coins!StoreToMainCache

----------------------------------------------------------------------------
(* The active chain alone decides what validation accepts. *)

Written(b) == Db!Written(Txs[b])

\* A block writes an unspent coin for each of its outputs and no other.
LEMMA CacheWritten ==
    ASSUME NEW b \in Block, NEW c, NEW l \in Coins!Locator
    PROVE  /\ l \in Written(b) => /\ Coins!CacheWith(c, Txs[b])[l] # NoCoin
                                  /\ Coins!CacheWith(c, Txs[b])[l].spent = FALSE
           /\ l \notin Written(b) => Coins!CacheWith(c, Txs[b])[l] = c[l]
  <1> DEFINE new == Coins!CacheWith(c, Txs[b])
  <1>1. new = Db!CacheWith(c, Txs[b]) /\ l \in Db!Locator
    BY DEF Coins!CacheWith, Coins!WritesTo, Coins!LocatorOf, Coins!OutputIndexes, Coins!Amount,
           Coins!Locator, Db!CacheWith, Db!WritesTo, Db!LocatorOf, Db!OutputIndexes, Db!Amount,
           Db!Locator
  <1>2. Txs[b] \in {Txs[a] : a \in Block}
    OBVIOUS
  <1> HIDE DEF new
  <1>3. ASSUME l \in Written(b)
        PROVE  Db!CacheWith(c, Txs[b])[l] \in {d \in Db!Coin : d # NoCoin /\ d.spent = FALSE}
    BY <1>1, <1>2, <1>3, DbAssumptions, Db!CoinWritten DEF Written
  <1>4. ASSUME l \notin Written(b)
        PROVE  Db!CacheWith(c, Txs[b])[l] = c[l]
    BY <1>1, <1>2, <1>4, DbAssumptions, Db!CoinKept DEF Written
  <1>5. /\ l \notin Written(b) => new[l] = c[l]
        /\ l \in Written(b) => new[l] # NoCoin /\ new[l].spent = FALSE
    BY <1>1, <1>3, <1>4
  <1> QED
    BY <1>5 DEF new

OutputLocator(output) == Coins!LocatorOf(output.hash, output.index)

LEMMA ProvidesWritten ==
    ASSUME NEW b \in Block, NEW output \in Provides(b)
    PROVE  OutputLocator(output) \in Written(b) /\ OutputLocator(output) \in Coins!Locator
  <1>1. PICK k \in DOMAIN Txs[b] : \E i \in Coins!OutputIndexes(Txs[b][k]) :
            output = [hash |-> TxHash[Txs[b][k]], index |-> i]
    BY DEF Provides
  <1>2. PICK i \in Coins!OutputIndexes(Txs[b][k]) :
            output = [hash |-> TxHash[Txs[b][k]], index |-> i]
    BY <1>1
  <1>3. OutputLocator(output) = Db!LocatorOf(TxHash[Txs[b][k]], i)
        /\ i \in Db!OutputIndexes(Txs[b][k])
    BY <1>2 DEF OutputLocator, Coins!LocatorOf, Db!LocatorOf, Coins!OutputIndexes, Db!OutputIndexes
  <1>4. OutputLocator(output) \in Written(b)
    BY <1>3 DEF Written, Db!Written, Db!LocatorsOf
  <1>5. Txs[b] \in {Txs[a] : a \in Block}
    OBVIOUS
  <1>6. Written(b) \subseteq Db!Locator
    BY <1>5, DbAssumptions, Db!WrittenFacts DEF Written
  <1> QED
    BY <1>4, <1>6 DEF Db!Locator, Coins!Locator

\* Every output of the active chain has a coin in the cache, and no coin is
\* spent: blocks write coins, and nothing takes one out or marks it.
OutputsCached ==
    \A h \in 1 .. length : \A output \in Provides(active[h]) : cache[OutputLocator(output)] # NoCoin
NothingSpent == \A l \in Coins!Locator : cache[l] # NoCoin => cache[l].spent = FALSE

JudgeInv == CoinsProvided /\ OutputsCached /\ NothingSpent

LEMMA JudgeInitially == Init => JudgeInv
  <1> SUFFICES ASSUME Init PROVE JudgeInv
    OBVIOUS
  <1>1. /\ length = 1 /\ active = <<Genesis>> /\ Genesis \in Block
        /\ cache = Coins!CacheWith(Coins!EmptyCache, Txs[Genesis])
    BY HashFacts DEF Init, Coins!InitWith
  <1>2. \A l \in Coins!Locator : Coins!EmptyCache[l] = NoCoin
    BY DEF Coins!EmptyCache
  <1>3. OutputsCached
    <2> SUFFICES ASSUME NEW h \in 1 .. length, NEW output \in Provides(active[h])
                 PROVE  cache[OutputLocator(output)] # NoCoin
      BY DEF OutputsCached
    <2>1. h = 1 /\ active[h] = Genesis
      BY <1>1
    <2>2. OutputLocator(output) \in Written(Genesis) /\ OutputLocator(output) \in Coins!Locator
      BY <1>1, <2>1, ProvidesWritten
    <2> QED
      BY <1>1, <2>2, CacheWritten
  <1>4. NothingSpent
    <2> SUFFICES ASSUME NEW l \in Coins!Locator, cache[l] # NoCoin
                 PROVE  cache[l].spent = FALSE
      BY DEF NothingSpent
    <2> QED
      BY <1>1, <1>2, CacheWritten
  <1> QED
    BY <1>3, <1>4, LedgerInitially DEF JudgeInv, LedgerInv

LEMMA JudgeStored ==
    ASSUME ChainInv, JudgeInv, NEW b \in Block, Appended(b), CoinsStored(b)
    PROVE  JudgeInv'
  <1>1. /\ length \in Nat /\ active \in Seq(Block) /\ Len(active) = length
        /\ length' = length + 1 /\ active' = Append(active, b)
    BY TipFacts DEF Appended
  <1>2. /\ active'[length + 1] = b
        /\ \A h \in 1 .. length : active'[h] = active[h] /\ active[h] \in Block
    BY <1>1
  <1>3. cache' = Coins!CacheWith(cache, Txs[b])
    BY DEF CoinsStored, Coins!StoreToMainCache
  <1>4. ASSUME NEW h \in 1 .. length', NEW output \in Provides(active'[h])
        PROVE  cache'[OutputLocator(output)] # NoCoin
    <2>1. CASE h = length + 1
      BY <1>2, <1>3, <1>4, <2>1, ProvidesWritten, CacheWritten
    <2>2. CASE h \in 1 .. length
      <3>1. active[h] \in Block /\ output \in Provides(active[h])
        BY <1>2, <1>4, <2>2
      <3>2. cache[OutputLocator(output)] # NoCoin
        BY <2>2, <3>1 DEF JudgeInv, OutputsCached
      <3>3. OutputLocator(output) \in Coins!Locator
        BY <3>1, ProvidesWritten
      <3> QED
        BY <1>3, <3>2, <3>3, CacheWritten
    <2>3. h = length + 1 \/ h \in 1 .. length
      BY <1>1
    <2> QED
      BY <2>1, <2>2, <2>3
  <1>5. OutputsCached'
    BY <1>4 DEF OutputsCached, OutputLocator, Provides
  <1>6. ASSUME NEW l \in Coins!Locator, cache'[l] # NoCoin
        PROVE  cache'[l].spent = FALSE
    <2>1. cache[l] # NoCoin => cache[l].spent = FALSE
      BY DEF JudgeInv, NothingSpent
    <2> QED
      BY <1>3, <1>6, <2>1, CacheWritten
  <1>7. NothingSpent'
    BY <1>6 DEF NothingSpent, Coins!Locator
  <1> QED
    BY <1>5, <1>7, CoinsProvidedKeeps DEF JudgeInv

LEMMA JudgeStays ==
    ASSUME JudgeInv, UNCHANGED <<length, active, db, cache>>
    PROVE  JudgeInv'
  <1>1. OutputsCached'
    BY DEF JudgeInv, OutputsCached, OutputLocator, Provides
  <1>2. NothingSpent'
    BY DEF JudgeInv, NothingSpent, Coins!Locator
  <1> QED
    BY <1>1, <1>2, CoinsProvidedStays DEF JudgeInv

LEMMA JudgeInductive ==
    "true" \notin FallOff /\ ChainInv /\ JudgeInv /\ [Next]_vars => JudgeInv'
  <1> SUFFICES ASSUME "true" \notin FallOff, ChainInv, JudgeInv, [Next]_vars
               PROVE  JudgeInv'
    OBVIOUS
  <1>1. ASSUME NEW b \in Block, Appended(b), CoinsStored(b)
        PROVE  JudgeInv'
    BY <1>1, JudgeStored
  <1>2. CASE UNCHANGED <<length, active, db, cache, stored>>
    BY <1>2, JudgeStays
  <1> QED
    BY <1>1, <1>2, CoinCases

----------------------------------------------------------------------------
(* Validation. *)

\* Whether an input names an output of the active chain is all that counts.
LEMMA InputJudged ==
    ASSUME ChainInv, JudgeInv, NEW input \in Input
    PROVE  Coins!InputOutcomes(input) = IF Provided(length, input) THEN {"true"} ELSE {"false"}
  <1> DEFINE l == Coins!LocatorOf(input.hash, input.index)
  <1>1. input.hash \in Hash /\ input.index \in 0 .. IndexWord - 1
        /\ input = Output(input.hash, input.index)
    BY DEF Input, Output
  <1>2. l = <<input.hash, input.index>>
    <2>1. IndexWord \in Nat \ {0} /\ input.index \in Nat /\ input.index < IndexWord
      BY <1>1, ConstantFacts
    <2>2. input.index % IndexWord = input.index
      BY <2>1, RemainderFacts
    <2> QED
      BY <2>2 DEF Coins!LocatorOf
  <1>3. l \in Coins!Locator /\ l[1] = input.hash /\ l[2] = input.index
    BY <1>1, <1>2 DEF Coins!Locator
  <1>4. CASE cache[l] # NoCoin
    <2>1. cache[l].spent = FALSE
      BY <1>3, <1>4 DEF JudgeInv, NothingSpent
    <2>2. Provided(length, input)
      BY <1>1, <1>3, <1>4 DEF JudgeInv, CoinsProvided
    <2> QED
      BY <1>4, <2>1, <2>2 DEF Coins!InputOutcomes
  <1>5. CASE cache[l] = NoCoin
    <2>1. ~Provided(length, input)
      <3> SUFFICES ASSUME NEW h \in 1 .. length, input \in Provides(active[h])
                   PROVE  FALSE
        BY DEF Provided
      <3> QED
        BY <1>5 DEF JudgeInv, OutputsCached, OutputLocator
    <2>2. ~(db[input.hash] # NoRecord /\ input.index \in DOMAIN db[input.hash])
      BY <1>1, <2>1 DEF JudgeInv, CoinsProvided
    <2> QED
      BY <1>5, <2>1, <2>2 DEF Coins!InputOutcomes
  <1> QED
    BY <1>4, <1>5

\* Checking one after another, when every check has one outcome.
LEMMA InTurnJudged ==
    ASSUME NEW n \in Nat, NEW outcomes, DOMAIN outcomes = 1 .. n,
           \A k \in 1 .. n : outcomes[k] \in {{"true"}, {"false"}}
    PROVE  Coins!InTurn(outcomes) =
               IF \A k \in 1 .. n : outcomes[k] = {"true"} THEN {"true"} ELSE {"false"}
  <1>1. \A o \in {"true", "false", "trap"} : \A k \in 1 .. n :
            o \in outcomes[k] <=> outcomes[k] = {o}
    OBVIOUS
  <1>2. CASE \A k \in 1 .. n : outcomes[k] = {"true"}
    BY <1>2 DEF Coins!InTurn
  <1>3. CASE ~(\A k \in 1 .. n : outcomes[k] = {"true"})
    <2> DEFINE bad == { k \in 1 .. n : outcomes[k] # {"true"} }
    <2>1. bad \subseteq Nat /\ bad # {}
      BY <1>3
    <2>2. PICK m \in bad : \A k \in bad : m <= k
      <3> HIDE DEF bad
      <3> QED
        BY <2>1, LeastExists
    <2>3. /\ m \in 1 .. n /\ outcomes[m] = {"false"}
          /\ \A j \in 1 .. m - 1 : outcomes[j] = {"true"}
      <3>1. m \in 1 .. n /\ outcomes[m] # {"true"}
        BY <2>2
      <3>2. ASSUME NEW j \in 1 .. m - 1
            PROVE  outcomes[j] = {"true"}
        <4>1. j \in 1 .. n /\ ~(m <= j)
          BY <3>1
        <4> QED
          BY <2>2, <4>1
      <3> QED
        BY <3>1, <3>2
    <2>4. "false" \in Coins!InTurn(outcomes)
      BY <2>3 DEF Coins!InTurn
    <2>5. "true" \notin Coins!InTurn(outcomes)
      <3>1. "true" \notin outcomes[m]
        BY <2>3
      <3> QED
        BY <2>3, <3>1 DEF Coins!InTurn
    <2>6. "trap" \notin Coins!InTurn(outcomes)
      <3>1. \A k \in 1 .. n : "trap" \notin outcomes[k]
        OBVIOUS
      <3> QED
        BY <3>1 DEF Coins!InTurn
    <2>7. Coins!InTurn(outcomes) \subseteq {"true", "false", "trap"}
      BY DEF Coins!InTurn
    <2> QED
      BY <1>3, <2>4, <2>5, <2>6, <2>7
  <1> QED
    BY <1>2, <1>3

LEMMA TxJudged ==
    ASSUME ChainInv, JudgeInv, NEW t \in Tx
    PROVE  Coins!TxOutcomes(t) =
               IF /\ Inputs[t] # <<>>
                  /\ \A a \in DOMAIN Inputs[t] : Provided(length, Inputs[t][a])
               THEN {"true"} ELSE {"false"}
  <1> DEFINE outcomes == [a \in DOMAIN Inputs[t] |-> Coins!InputOutcomes(Inputs[t][a])]
             n == Len(Inputs[t])
  <1>1. Inputs[t] \in Seq(Input) /\ n \in Nat /\ DOMAIN Inputs[t] = 1 .. n
    BY ConstantFacts
  <1>2. \A a \in 1 .. n : Inputs[t][a] \in Input
    BY <1>1
  <1>3. \A a \in 1 .. n :
            outcomes[a] = IF Provided(length, Inputs[t][a]) THEN {"true"} ELSE {"false"}
    BY <1>1, <1>2, InputJudged
  <1>4. DOMAIN outcomes = 1 .. n
    BY <1>1
  <1>5. Coins!TxOutcomes(t) = IF Inputs[t] = <<>> THEN {"false"} ELSE Coins!InTurn(outcomes)
    BY DEF Coins!TxOutcomes
  <1> HIDE DEF outcomes, n
  <1>6. Coins!InTurn(outcomes) =
            IF \A a \in 1 .. n : outcomes[a] = {"true"} THEN {"true"} ELSE {"false"}
    BY <1>1, <1>3, <1>4, InTurnJudged
  <1>7. \A a \in 1 .. n : outcomes[a] = {"true"} <=> Provided(length, Inputs[t][a])
    BY <1>3
  <1> QED
    BY <1>1, <1>5, <1>6, <1>7

LEMMA BlockJudged ==
    ASSUME ChainInv, JudgeInv, NEW b \in Block
    PROVE  Coins!BlockOutcomes(Txs[b]) =
               IF /\ Txs[b] # <<>>
                  /\ \A k \in DOMAIN Txs[b] : Inputs[Txs[b][k]] # <<>>
                  /\ \A output \in Spends(b) : Provided(length, output)
               THEN {"true"} ELSE {"false"}
  <1> DEFINE Passes(t) == /\ Inputs[t] # <<>>
                          /\ \A a \in DOMAIN Inputs[t] : Provided(length, Inputs[t][a])
             outcomes == [k \in DOMAIN Txs[b] |-> Coins!TxOutcomes(Txs[b][k])]
             n == Len(Txs[b])
  <1>1. Txs[b] \in Seq(Tx) /\ n \in Nat /\ DOMAIN Txs[b] = 1 .. n
    BY TxsFacts
  <1>2. \A k \in 1 .. n : Txs[b][k] \in Tx
    BY <1>1
  <1>3. \A k \in 1 .. n : outcomes[k] = IF Passes(Txs[b][k]) THEN {"true"} ELSE {"false"}
    BY <1>1, <1>2, TxJudged
  <1>4. DOMAIN outcomes = 1 .. n
    BY <1>1
  <1>5. Coins!BlockOutcomes(Txs[b]) = IF Txs[b] = <<>> THEN {"false"} ELSE Coins!InTurn(outcomes)
    BY DEF Coins!BlockOutcomes
  <1>6. (\A k \in 1 .. n : Passes(Txs[b][k])) <=>
            /\ \A k \in DOMAIN Txs[b] : Inputs[Txs[b][k]] # <<>>
            /\ \A output \in Spends(b) : Provided(length, output)
    <2>1. (\A output \in Spends(b) : Provided(length, output)) <=>
              \A k \in 1 .. n : \A a \in DOMAIN Inputs[Txs[b][k]] :
                  Provided(length, Inputs[Txs[b][k]][a])
      <3>1. ASSUME NEW k \in 1 .. n, NEW a \in DOMAIN Inputs[Txs[b][k]]
            PROVE  Inputs[Txs[b][k]][a] \in Spends(b)
        BY <1>1, SpendsFacts
      <3>2. ASSUME NEW output \in Spends(b)
            PROVE  \E k \in 1 .. n : \E a \in DOMAIN Inputs[Txs[b][k]] :
                       output = Inputs[Txs[b][k]][a]
        BY <1>1, SpendsFacts
      <3> HIDE DEF n
      <3> QED
        BY <3>1, <3>2
    <2> QED
      BY <1>1, <2>1
  <1> HIDE DEF outcomes, n, Passes
  <1>7. Coins!InTurn(outcomes) =
            IF \A k \in 1 .. n : outcomes[k] = {"true"} THEN {"true"} ELSE {"false"}
    BY <1>1, <1>3, <1>4, InTurnJudged
  <1>8. \A k \in 1 .. n : outcomes[k] = {"true"} <=> Passes(Txs[b][k])
    BY <1>3
  <1> QED
    BY <1>5, <1>6, <1>7, <1>8

\* A block passes validation exactly if every transaction has inputs and every
\* input names an output of the active chain, whatever was stored besides and
\* however the missing returns behave, as long as that of
\* validate_and_store_block does not read as true (validate_block,
\* validate_transactionInput, store_transactions_to_main_cache).
THEOREM ChainJudges == "true" \notin FallOff => (Spec => []JudgedByActiveChain)
  <1> SUFFICES ASSUME "true" \notin FallOff PROVE Spec => []JudgedByActiveChain
    OBVIOUS
  <1>1. ChainInv /\ JudgeInv => JudgedByActiveChain
    <2> SUFFICES ASSUME ChainInv, JudgeInv, NEW b \in Block
                 PROVE  Coins!BlockOutcomes(Txs[b]) =
                            IF /\ Txs[b] # <<>>
                               /\ \A k \in DOMAIN Txs[b] : Inputs[Txs[b][k]] # <<>>
                               /\ Spends(b) \subseteq UNION { Provides(active[h]) : h \in 1 .. length }
                            THEN {"true"}
                            ELSE {"false"}
      BY DEF JudgedByActiveChain
    <2>1. Spends(b) \subseteq UNION { Provides(active[h]) : h \in 1 .. length } <=>
              \A output \in Spends(b) : Provided(length, output)
      BY DEF Provided
    <2> QED
      BY <2>1, BlockJudged
  <1>2. ChainInv /\ JudgeInv /\ [Next]_vars => JudgeInv'
    BY JudgeInductive
  <1> QED
    BY <1>1, <1>2, JudgeInitially, ChainInvariant, PTL DEF Spec

----------------------------------------------------------------------------
(* How many blocks a node takes. *)

FitInv == ChainFitsCache /\ IsFiniteSet(OutputsTo(length))

LEMMA SumFacts ==
    ASSUME NEW a \in Nat, NEW b \in Nat, NEW w \in Nat \ {0}
    PROVE  ((a % w) + b) % w = (a + b) % w
  <1>1. a \in Int /\ b \in Int
    OBVIOUS
  <1> QED
    BY <1>1, DbAssumptions, Db!RemainderSum

\* Finite sets and their sizes, as the instances speak of them.
LEMMA SameFinite == ASSUME NEW S PROVE Db!IsFiniteSet(S) <=> IsFiniteSet(S)
  BY DEF Db!IsFiniteSet, IsFiniteSet

LEMMA SameCardinality == ASSUME NEW S PROVE Coins!Cardinality(S) = Cardinality(S)
  BY DEF Coins!Cardinality, Cardinality, Coins!IsFiniteSet, IsFiniteSet

\* The outputs of a block, counted.
LEMMA OutputsOfFacts ==
    ASSUME NEW b \in Block
    PROVE  /\ IsFiniteSet(OutputsOf(b))
           /\ Coins!OutputCount(Txs[b]) = Cardinality(OutputsOf(b))
  <1>1. Txs[b] \in {Txs[a] : a \in Block}
    OBVIOUS
  <1>2. IsFiniteSet(Db!Pairs(Txs[b]))
    BY <1>1, DbAssumptions, SameFinite, Db!PairsFinite
  <1>3. OutputsOf(b) = Db!Pairs(Txs[b])
    BY DEF OutputsOf, Db!Pairs, Coins!OutputIndexes, Db!OutputIndexes
  <1>4. Coins!OutputCount(Txs[b]) = Cardinality(OutputsOf(b))
    BY SameCardinality DEF Coins!OutputCount, OutputsOf
  <1> QED
    BY <1>2, <1>3, <1>4

\* A row of outputs has as many as the block.
LEMMA RowFacts ==
    ASSUME NEW b \in Block, NEW h \in Nat
    PROVE  /\ IsFiniteSet({h} \X OutputsOf(b))
           /\ Cardinality({h} \X OutputsOf(b)) = Cardinality(OutputsOf(b))
  <1>1. IsFiniteSet({h}) /\ Cardinality({h}) = 1
    BY FS_Singleton
  <1>2. IsFiniteSet(OutputsOf(b))
    BY OutputsOfFacts
  <1>3. /\ IsFiniteSet({h} \X OutputsOf(b))
        /\ Cardinality({h} \X OutputsOf(b)) = Cardinality({h}) * Cardinality(OutputsOf(b))
    BY <1>1, <1>2, FS_Product
  <1>4. Cardinality(OutputsOf(b)) \in Nat
    BY <1>2, FS_CardinalityType
  <1> QED
    BY <1>1, <1>3, <1>4

LEMMA OutputsToFacts ==
    ASSUME NEW n
    PROVE  \A p : p \in OutputsTo(n) <=>
               \E h \in 1 .. n : \E output \in OutputsOf(active[h]) : p = <<h, output>>
  BY DEF OutputsTo

\* A new tip adds its outputs to those below.
LEMMA OutputsAdded ==
    ASSUME ChainInv, NEW b \in Block, Appended(b)
    PROVE  /\ \A n \in 1 .. length : OutputsTo(n)' = OutputsTo(n)
           /\ OutputsTo(length)' = OutputsTo(length) \cup ({length + 1} \X OutputsOf(b))
           /\ OutputsTo(length) \cap ({length + 1} \X OutputsOf(b)) = {}
  <1>1. /\ length \in Nat /\ active \in Seq(Block) /\ Len(active) = length
        /\ length' = length + 1 /\ active' = Append(active, b)
    BY TipFacts DEF Appended
  <1>2. active'[length + 1] = b /\ \A h \in 1 .. length : active'[h] = active[h]
    BY <1>1
  <1>3. OutputsTo(length)' = UNION { {h} \X OutputsOf(active'[h]) : h \in 1 .. length + 1 }
    BY <1>1 DEF OutputsTo, OutputsOf
  <1>4. \A n \in 1 .. length : OutputsTo(n)' = UNION { {h} \X OutputsOf(active'[h]) : h \in 1 .. n }
    BY DEF OutputsTo, OutputsOf
  <1>5. \A n \in 1 .. length : \A h \in 1 .. n : active'[h] = active[h]
    BY <1>1, <1>2
  <1>6. \A n \in 1 .. length : OutputsTo(n)' = OutputsTo(n)
    BY <1>4, <1>5 DEF OutputsTo
  <1>7. \A h : h \in 1 .. length + 1 <=> h \in 1 .. length \/ h = length + 1
    BY <1>1
  <1>8. \A p : p \in OutputsTo(length)' <=>
            p \in OutputsTo(length) \/ p \in {length + 1} \X OutputsOf(b)
    <2>1. \A p : p \in OutputsTo(length)' <=>
              \E h \in 1 .. length + 1 : \E output \in OutputsOf(active'[h]) : p = <<h, output>>
      BY <1>3
    <2>2. \A p : p \in {length + 1} \X OutputsOf(b) <=>
              \E output \in OutputsOf(b) : p = <<length + 1, output>>
      OBVIOUS
    <2> QED
      BY <1>2, <1>7, <2>1, <2>2, OutputsToFacts
  <1>9. ASSUME NEW p \in OutputsTo(length), p \in {length + 1} \X OutputsOf(b)
        PROVE  FALSE
    <2>1. p[1] = length + 1
      BY <1>9
    <2>2. PICK h \in 1 .. length : \E output \in OutputsOf(active[h]) : p = <<h, output>>
      BY OutputsToFacts
    <2>3. p[1] = h
      BY <2>2
    <2> QED
      BY <1>1, <2>1, <2>3
  <1> QED
    BY <1>6, <1>8, <1>9

\* An empty cache means a chain without outputs.
LEMMA NothingCached ==
    ASSUME ChainInv, JudgeInv, Coins!Cached = {}
    PROVE  OutputsTo(length) = {}
  <1> SUFFICES ASSUME NEW p \in OutputsTo(length) PROVE FALSE
    OBVIOUS
  <1>1. PICK h \in 1 .. length : \E output \in OutputsOf(active[h]) : p = <<h, output>>
    BY OutputsToFacts
  <1>2. active[h] \in Block
    BY ActiveFacts
  <1>3. PICK k \in DOMAIN Txs[active[h]] : Coins!OutputIndexes(Txs[active[h]][k]) # {}
    BY <1>1 DEF OutputsOf
  <1>4. PICK i \in Coins!OutputIndexes(Txs[active[h]][k]) : TRUE
    BY <1>3
  <1> DEFINE output == [hash |-> TxHash[Txs[active[h]][k]], index |-> i]
  <1>5. output \in Provides(active[h])
    BY <1>3, <1>4 DEF Provides
  <1> HIDE DEF output
  <1>6. OutputLocator(output) \in Coins!Locator
    BY <1>2, <1>5, ProvidesWritten
  <1>7. cache[OutputLocator(output)] # NoCoin
    BY <1>5 DEF JudgeInv, OutputsCached
  <1> QED
    BY <1>6, <1>7 DEF Coins!Cached

\* The capacity has been kept up to height n.
FitTo(n) ==
    \A h \in 2 .. n :
        OutputsTo(h - 1) # {} =>
            Len(Txs[active[h]]) + (Cardinality(OutputsTo(h - 1)) % Word) <= CacheCapacity

LEMMA FitParts ==
    ChainFitsCache <=> /\ cacheSize = Cardinality(OutputsTo(length)) % Word
                       /\ FitTo(length)
                       /\ status = "flushing" => Overfull
  BY DEF ChainFitsCache, FitTo, Overfull

LEMMA FitInitially == Init => FitInv
  <1> SUFFICES ASSUME Init PROVE FitInv
    OBVIOUS
  <1>1. /\ length = 1 /\ active = <<Genesis>> /\ Genesis \in Block /\ status = "running"
        /\ cacheSize = Coins!OutputCount(Txs[Genesis]) % Word
    BY HashFacts DEF Init, Coins!InitWith
  <1>2. OutputsTo(length) = {1} \X OutputsOf(Genesis)
    BY <1>1 DEF OutputsTo
  <1>3. IsFiniteSet(OutputsTo(length)) /\ Cardinality(OutputsTo(length)) = Coins!OutputCount(Txs[Genesis])
    BY <1>1, <1>2, RowFacts, OutputsOfFacts
  <1>4. FitTo(length)
    BY <1>1 DEF FitTo
  <1> QED
    BY <1>1, <1>3, <1>4, FitParts DEF FitInv

LEMMA FitFilled ==
    ASSUME ChainInv, JudgeInv, FitInv, NEW b \in Block, Appended(b), Filled(b), status' = "running"
    PROVE  FitInv'
  <1> DEFINE below == OutputsTo(length)
             row   == {length + 1} \X OutputsOf(b)
  <1>1. /\ length \in Nat /\ active \in Seq(Block) /\ Len(active) = length
        /\ length' = length + 1 /\ active' = Append(active, b)
    BY TipFacts DEF Appended
  <1>2. /\ \A n \in 1 .. length : OutputsTo(n)' = OutputsTo(n)
        /\ OutputsTo(length)' = below \cup row
        /\ below \cap row = {}
    BY OutputsAdded
  <1>3. /\ IsFiniteSet(below) /\ IsFiniteSet(row)
        /\ Cardinality(row) = Coins!OutputCount(Txs[b])
    BY <1>1, RowFacts, OutputsOfFacts DEF FitInv
  <1>4. Cardinality(below) \in Nat /\ Cardinality(row) \in Nat
    BY <1>3, FS_CardinalityType
  <1> HIDE DEF below, row
  <1>5. IsFiniteSet(below \cup row) /\ Cardinality(below \cup row) = Cardinality(below) + Cardinality(row)
    <2>1. /\ IsFiniteSet(below \cup row)
          /\ Cardinality(below \cup row) =
                 Cardinality(below) + Cardinality(row) - Cardinality(below \cap row)
      BY <1>3, FS_Union
    <2>2. Cardinality(below \cap row) = 0
      BY <1>2, FS_EmptySet
    <2> QED
      BY <1>4, <2>1, <2>2
  <1>6. cacheSize = Cardinality(below) % Word /\ FitTo(length)
    BY FitParts DEF FitInv, below
  <1>7. Word \in Nat \ {0} /\ CacheCapacity \in Nat /\ Len(Txs[b]) \in Nat
    BY ConstantFacts, TxsFacts
  <1>8. /\ cacheSize' = Cardinality(OutputsTo(length)') % Word
        /\ below # {} => Len(Txs[b]) + (Cardinality(below) % Word) <= CacheCapacity
    <2>1. CASE Len(Txs[b]) + cacheSize <= CacheCapacity /\ Coins!StoreToMainCache(Txs[b], cacheSize)
      <3>1. cacheSize' = ((Cardinality(below) % Word) + Cardinality(row)) % Word
        BY <1>3, <1>6, <2>1 DEF Coins!StoreToMainCache
      <3>2. cacheSize' = (Cardinality(below) + Cardinality(row)) % Word
        BY <1>4, <1>7, <3>1, SumFacts
      <3> QED
        BY <1>2, <1>5, <1>6, <2>1, <3>2
    <2>2. CASE Coins!Cached = {} /\ Coins!StoreToMainCache(Txs[b], 0)
      <3>1. below = {}
        BY <2>2, NothingCached DEF below
      <3>2. Cardinality(below) = 0
        BY <3>1, FS_EmptySet
      <3>3. cacheSize' = (0 + Cardinality(row)) % Word
        BY <1>3, <2>2 DEF Coins!StoreToMainCache
      <3> QED
        BY <1>2, <1>5, <3>1, <3>2, <3>3
    <2> QED
      BY <2>1, <2>2 DEF Filled
  <1>9. FitTo(length)'
    <2>1. FitTo(length)' <=>
              \A h \in 2 .. length + 1 :
                  OutputsTo(h - 1)' # {} =>
                      Len(Txs[active'[h]]) + (Cardinality(OutputsTo(h - 1)') % Word) <= CacheCapacity
      BY <1>1 DEF FitTo, OutputsTo, OutputsOf
    <2>2. ASSUME NEW h \in 2 .. length + 1, OutputsTo(h - 1)' # {}
          PROVE  Len(Txs[active'[h]]) + (Cardinality(OutputsTo(h - 1)') % Word) <= CacheCapacity
      <3>1. h - 1 \in 1 .. length
        BY <1>1
      <3>2. OutputsTo(h - 1)' = OutputsTo(h - 1)
        BY <1>2, <3>1
      <3>3. CASE h = length + 1
        <4>1. active'[h] = b /\ h - 1 = length
          BY <1>1, <3>3
        <4>2. OutputsTo(h - 1)' = below
          BY <3>2, <4>1 DEF below
        <4> QED
          BY <1>8, <2>2, <4>1, <4>2
      <3>4. CASE h \in 2 .. length
        <4>1. active'[h] = active[h]
          BY <1>1, <3>4
        <4> QED
          BY <1>6, <2>2, <3>2, <3>4, <4>1 DEF FitTo
      <3>5. h = length + 1 \/ h \in 2 .. length
        BY <1>1
      <3> QED
        BY <3>3, <3>4, <3>5
    <2> QED
      BY <2>1, <2>2
  <1>10. ChainFitsCache' <=> /\ cacheSize' = Cardinality(OutputsTo(length)') % Word
                             /\ FitTo(length)'
                             /\ status' = "flushing" => Overfull'
    BY DEF ChainFitsCache, FitTo, Overfull
  <1> QED
    BY <1>2, <1>5, <1>8, <1>9, <1>10 DEF FitInv

LEMMA FitStays ==
    ASSUME FitInv, UNCHANGED <<length, tip, active, cacheSize>>,
           status' = "flushing" => status = "flushing" \/ Overfull
    PROVE  FitInv'
  <1>1. OutputsTo(length)' = OutputsTo(length) /\ (FitTo(length)' <=> FitTo(length))
    BY DEF OutputsTo, OutputsOf, FitTo
  <1>2. Overfull' <=> Overfull
    BY DEF Overfull, OnTip
  <1>3. ChainFitsCache' <=> /\ cacheSize' = Cardinality(OutputsTo(length)') % Word
                            /\ FitTo(length)'
                            /\ status' = "flushing" => Overfull'
    BY DEF ChainFitsCache, FitTo, Overfull
  <1> QED
    BY <1>1, <1>2, <1>3, FitParts DEF FitInv

LEMMA FitInductive ==
    "true" \notin FallOff /\ ChainInv /\ JudgeInv /\ FitInv /\ [Next]_vars => FitInv'
  <1> SUFFICES ASSUME "true" \notin FallOff, ChainInv, JudgeInv, FitInv, [Next]_vars
               PROVE  FitInv'
    OBVIOUS
  <1>1. cacheSize \in Nat
    <2>1. cacheSize = Cardinality(OutputsTo(length)) % Word
      BY FitParts DEF FitInv
    <2>2. Cardinality(OutputsTo(length)) \in Nat /\ Word \in Nat \ {0}
      BY FS_CardinalityType, ConstantFacts DEF FitInv
    <2> QED
      BY <2>1, <2>2, RemainderFacts
  <1>2. ASSUME NEW b \in Block, Appended(b), Filled(b), status' = "running"
        PROVE  FitInv'
    BY <1>2, FitFilled
  <1>3. CASE /\ UNCHANGED <<length, tip, active, db, cache, cacheSize, stored>>
             /\ status' = "flushing" => status = "flushing" \/ Overfull
    BY <1>3, FitStays
  <1> QED
    BY <1>1, <1>2, <1>3, NodeCases

\* For any blocks and any capacity, a node takes blocks until the outputs of its
\* active chain, spent or not, leave no room for the transactions of the next,
\* and is caught in the loop of a flush only by a block that does not fit
\* (store_block, flush_main_cache and handle_block together), as long as the
\* missing return of validate_and_store_block does not read as true.
THEOREM ChainFits == "true" \notin FallOff => (Spec => []ChainFitsCache)
  <1> SUFFICES ASSUME "true" \notin FallOff PROVE Spec => []ChainFitsCache
    OBVIOUS
  <1>1. FitInv => ChainFitsCache
    BY DEF FitInv
  <1>2. ChainInv /\ JudgeInv /\ [Next]_vars => JudgeInv'
    BY JudgeInductive
  <1>3. ChainInv /\ JudgeInv /\ FitInv /\ [Next]_vars => FitInv'
    BY FitInductive
  <1> QED
    BY <1>1, <1>2, <1>3, JudgeInitially, FitInitially, ChainInvariant, PTL DEF Spec

----------------------------------------------------------------------------
(* A node keeps the invariant of its coin database.  The calls that Chain   *)
(* makes are calls of CoinDatabase; the crashes of Chain itself are not.    *)

LEMMA SameCount ==
    ASSUME NEW S
    PROVE  Coins!Cardinality(S) = Db!Cardinality(S)
  BY DEF Coins!Cardinality, Db!Cardinality, Coins!IsFiniteSet, Db!IsFiniteSet

LEMMA SameOutcomes ==
    /\ \A t \in Tx : Coins!TxOutcomes(t) = Db!TxOutcomes(t)
    /\ \A b \in Block : Coins!BlockOutcomes(Txs[b]) = Db!BlockOutcomes(Txs[b])
  BY DEF Coins!TxOutcomes, Coins!BlockOutcomes, Coins!InTurn, Coins!InputOutcomes, Coins!LocatorOf,
         Db!TxOutcomes, Db!BlockOutcomes, Db!InTurn, Db!InputOutcomes, Db!LocatorOf

LEMMA SameRemove ==
    ASSUME NEW txs, Coins!RemoveFromMempool(txs)
    PROVE  Db!RemoveFromMempool(txs)
  BY SameCount DEF Coins!RemoveFromMempool, Db!RemoveFromMempool, Coins!HashesOf, Db!HashesOf

LEMMA SameWritten ==
    ASSUME NEW d, NEW c, NEW txs
    PROVE  /\ Coins!DbWith(d, txs) = Db!DbWith(d, txs)
           /\ Coins!CacheWith(c, txs) = Db!CacheWith(c, txs)
           /\ Coins!UndoAmounts(d, c, txs) = Db!UndoAmounts(d, c, txs)
           /\ Coins!OutputCount(txs) = Db!OutputCount(txs)
  <1>1. Coins!DbWith(d, txs) = Db!DbWith(d, txs)
    BY DEF Coins!DbWith, Coins!HashesOf, Coins!RecordOf, Coins!LastWith, Coins!OutputIndexes,
           Coins!Amount, Db!DbWith, Db!HashesOf, Db!RecordOf, Db!LastWith, Db!OutputIndexes,
           Db!Amount
  <1>2. Coins!CacheWith(c, txs) = Db!CacheWith(c, txs)
    BY DEF Coins!CacheWith, Coins!WritesTo, Coins!LocatorOf, Coins!OutputIndexes, Coins!Amount,
           Coins!Locator, Db!CacheWith, Db!WritesTo, Db!LocatorOf, Db!OutputIndexes, Db!Amount,
           Db!Locator
  <1>3. Coins!UndoAmounts(d, c, txs) = Db!UndoAmounts(d, c, txs)
    BY DEF Coins!UndoAmounts, Coins!MatchingAmount, Coins!LocatorOf, Db!UndoAmounts,
           Db!MatchingAmount, Db!LocatorOf
  <1>4. Coins!OutputCount(txs) = Db!OutputCount(txs)
    BY SameCount DEF Coins!OutputCount, Db!OutputCount, Coins!OutputIndexes, Db!OutputIndexes
  <1> QED
    BY <1>1, <1>2, <1>3, <1>4

LEMMA SameStore ==
    ASSUME NEW txs, NEW size, Coins!StoreToMainCache(txs, size)
    PROVE  Db!StoreToMainCache(txs, size)
  <1>1. /\ Coins!StoredTxs = Db!StoredTxs
        /\ \A earlier : Coins!Repeats(earlier, txs) = Db!Repeats(earlier, txs)
        /\ \A earlier : Coins!Clashes(earlier, txs) = Db!Clashes(earlier, txs)
        /\ \A t : Coins!LocatorsOf(t) = Db!LocatorsOf(t)
    BY DEF Coins!StoredTxs, Db!StoredTxs, Coins!Repeats, Db!Repeats, Coins!Clashes, Db!Clashes,
           Coins!Narrow, Db!Narrow, Coins!LocatorsOf, Db!LocatorsOf, Coins!LocatorOf, Db!LocatorOf,
           Coins!OutputIndexes, Db!OutputIndexes
  <1> QED
    BY <1>1, SameWritten DEF Coins!StoreToMainCache, Db!StoreToMainCache

LEMMA SameStoreBlock ==
    ASSUME NEW b \in Block, Coins!StoreBlock(Txs[b])
    PROVE  Db!StoreBlock(Txs[b])
  <1>1. Coins!Cached = Db!Cached
    BY DEF Coins!Cached, Db!Cached, Coins!Locator, Db!Locator
  <1>2. Coins!EnterFlush => Db!EnterFlush
    BY <1>1 DEF Coins!EnterFlush, Db!EnterFlush, Coins!coinVars, Db!coinVars, Coins!mempoolVars,
                Db!mempoolVars, Coins!history, Db!history
  <1> QED
    BY <1>1, <1>2, SameRemove, SameStore DEF Coins!StoreBlock, Db!StoreBlock

LEMMA SameCrash == Coins!Crash => Db!Crash
  BY DEF Coins!Crash, Db!Crash, Coins!coinVars, Db!coinVars, Coins!mempoolVars, Db!mempoolVars,
         Coins!history, Db!history

\* Each step of a node is a call of its coin database, or kills it, or leaves it.
LEMMA NodeCalls ==
    ASSUME [Next]_vars
    PROVE  Db!Next \/ Db!Crash \/ UNCHANGED Db!vars
  <1>1. ASSUME NEW b \in Block, Next, Extend(b)
        PROVE  Db!Next
    <2>1. PICK valid \in BOOLEAN : Coins!ValidateAndStoreBlock(Txs[b], valid)
      BY <1>1 DEF Extend, Accept
    <2>2. Db!ValidateAndStoreBlock(Txs[b], valid)
      <3>1. Coins!BlockOutcomes(Txs[b]) = Db!BlockOutcomes(Txs[b])
        BY SameOutcomes
      <3>2. UNCHANGED Coins!vars => UNCHANGED Db!vars
        BY DEF Coins!vars, Db!vars
      <3> QED
        BY <2>1, <3>1, <3>2, SameStoreBlock, SameCrash
        DEF Coins!ValidateAndStoreBlock, Db!ValidateAndStoreBlock
    <2>3. status = "running" /\ Txs[b] \in {Txs[a] : a \in Block}
      BY <1>1 DEF Next
    <2> QED
      BY <2>2, <2>3 DEF Db!Next, Db!Call
  <1>2. ASSUME NEW b \in Block, Orphan(b) \/ Reorganise(b)
        PROVE  Db!Crash
    BY <1>2, SameCrash DEF Orphan, Reorganise
  <1>3. ASSUME NEW b \in Block, TooDeep(b) \/ StoreFork(b)
        PROVE  UNCHANGED Db!vars
    BY <1>3 DEF TooDeep, StoreFork, vars, coinVars, Db!vars
  <1>4. ASSUME NEW t \in Tx, Next, HandleTransaction(t)
        PROVE  Db!Next
    <2>1. Coins!ValidateAndStoreTransaction(t)
      BY <1>4 DEF HandleTransaction
    <2>2. Coins!StoreTransaction(t) => Db!StoreTransaction(t)
      BY SameCount DEF Coins!StoreTransaction, Db!StoreTransaction, Coins!HasRoom, Db!HasRoom,
                       Coins!Grown, Db!Grown, Coins!coinVars, Db!coinVars, Coins!history, Db!history
    <2>3. Db!ValidateAndStoreTransaction(t)
      <3>1. Coins!TxOutcomes(t) = Db!TxOutcomes(t)
        BY SameOutcomes
      <3>2. UNCHANGED Coins!vars => UNCHANGED Db!vars
        BY DEF Coins!vars, Db!vars
      <3> QED
        BY <2>1, <2>2, <3>1, <3>2, SameCrash
        DEF Coins!ValidateAndStoreTransaction, Db!ValidateAndStoreTransaction
    <2> QED
      BY <1>4, <2>3 DEF Next, Db!Next, Db!Call
  <1>5. UNCHANGED vars => UNCHANGED Db!vars
    BY DEF vars, coinVars, Db!vars
  <1> QED
    BY <1>1, <1>2, <1>3, <1>4, <1>5 DEF Next, HandleBlock

LEMMA NodeDbInitially == Init => Db!DbInv
  <1> SUFFICES ASSUME Init PROVE Db!DbInv
    OBVIOUS
  <1>1. Genesis \in Block /\ Txs[Genesis] \in {Txs[a] : a \in Block}
    BY HashFacts
  <1>2. Coins!EmptyDb = Db!EmptyDb /\ Coins!EmptyCache = Db!EmptyCache
    BY DEF Coins!EmptyDb, Db!EmptyDb, Coins!EmptyCache, Db!EmptyCache, Coins!Locator, Db!Locator
  <1>3. \A txs : /\ Coins!Repeats({}, txs) = Db!Repeats({}, txs)
                 /\ Coins!Clashes({}, txs) = Db!Clashes({}, txs)
    BY DEF Coins!Repeats, Db!Repeats, Coins!Clashes, Db!Clashes, Coins!Narrow, Db!Narrow
  <1>4. Coins!InitWith(Txs[Genesis])
    BY DEF Init
  <1>5. Db!InitWith(Txs[Genesis])
    BY <1>2, <1>3, <1>4, SameWritten DEF Coins!InitWith, Db!InitWith
  <1> QED
    BY <1>1, <1>5, DbAssumptions, Db!InitWithInv

LEMMA NodeDbStep == Db!DbInv /\ [Next]_vars => Db!DbInv'
  <1> SUFFICES ASSUME Db!DbInv, [Next]_vars PROVE Db!DbInv'
    OBVIOUS
  <1>1. CASE Db!Next
    BY <1>1, DbAssumptions, Db!DbInvStep
  <1>2. CASE Db!Crash \/ UNCHANGED Db!vars
    BY <1>2, DbAssumptions, Db!QuietKeeps
  <1> QED
    BY <1>1, <1>2, NodeCalls

\* What CoinDatabase promises, of the coin database inside a node.
CoinsCorrect ==
    /\ Coins!TypeOK /\ Coins!MempoolBounded /\ Coins!CacheBacked /\ Coins!CacheSizeExact
    /\ (FallOff \ {"proceed"} # {"true"}) => Coins!ValidationExact

LEMMA SamePromises == Db!DbInv => CoinsCorrect
  <1> SUFFICES ASSUME Db!DbInv PROVE CoinsCorrect
    OBVIOUS
  <1>1. Db!TypeOK /\ Db!MempoolBounded /\ Db!CacheSizeExact
    BY DEF Db!DbInv
  <1>2. Coins!TypeOK
    BY <1>1 DEF Coins!TypeOK, Db!TypeOK, Coins!IsRecord, Db!IsRecord, Coins!Locator, Db!Locator,
                Coins!Coin, Db!Coin
  <1>3. Coins!MempoolBounded
    BY <1>1, SameCount DEF Coins!MempoolBounded, Db!MempoolBounded
  <1>4. Coins!CacheSizeExact
    <2>1. Coins!Cached = Db!Cached
      BY DEF Coins!Cached, Db!Cached, Coins!Locator, Db!Locator
    <2> QED
      BY <1>1, <2>1, SameCount DEF Coins!CacheSizeExact, Db!CacheSizeExact
  <1>5. \A t : Coins!Plain(t) = Db!Plain(t)
    BY DEF Coins!Plain, Db!Plain, Coins!Alone, Db!Alone, Coins!Narrow, Db!Narrow
  <1>6. Coins!CacheBacked
    <2>1. Db!CacheBacked
      BY DbAssumptions, Db!CacheBackedFact
    <2> QED
      BY <1>5, <2>1 DEF Coins!CacheBacked, Db!CacheBacked, Coins!OutputIndexes, Db!OutputIndexes,
                        Coins!LocatorOf, Db!LocatorOf, Coins!Amount, Db!Amount
  <1>7. (FallOff \ {"proceed"} # {"true"}) => Coins!ValidationExact
    <2> SUFFICES ASSUME FallOff \ {"proceed"} # {"true"} PROVE Coins!ValidationExact
      OBVIOUS
    <2>1. Db!ValidationExact
      BY DbAssumptions, Db!ValidationFact
    <2> QED
      BY <1>5, <2>1 DEF Coins!ValidationExact, Db!ValidationExact, Coins!StoredTxs, Db!StoredTxs,
                        Coins!OutputIndexes, Db!OutputIndexes, Coins!LocatorOf, Db!LocatorOf,
                        Coins!InputOutcomes, Db!InputOutcomes
  <1> QED
    BY <1>2, <1>3, <1>4, <1>6, <1>7 DEF CoinsCorrect

\* Everything CoinDatabase promises holds of the one a node owns, which starts
\* with the genesis block stored unvalidated and may be killed by a block with
\* an unknown parent or by a reorganisation, between any two calls: types, the
\* mempool, the worth of coins, the size of the cache and what validation
\* accepts (handle_block and handle_transaction over CoinDatabase).
THEOREM NodeCoinsCorrect == Spec => []CoinsCorrect
  <1>1. Init => Db!DbInv
    BY NodeDbInitially
  <1>2. Db!DbInv /\ [Next]_vars => Db!DbInv'
    BY NodeDbStep
  <1>3. Db!DbInv => CoinsCorrect
    BY SamePromises
  <1> QED
    BY <1>1, <1>2, <1>3, PTL DEF Spec
=============================================================================
