------------------------- MODULE CoinDatabaseProofs -------------------------
(***************************************************************************)
(* Proofs about CoinDatabase, for any transactions, hashes and capacities. *)
(***************************************************************************)
EXTENDS CoinDatabase, FiniteSetTheorems, FunctionTheorems, WellFoundedInduction, TLAPS

----------------------------------------------------------------------------
(* Numbers. *)

LEMMA RemainderFacts ==
    ASSUME NEW x \in Int, NEW w \in Nat \ {0}
    PROVE  /\ x % w \in 0 .. w - 1
           /\ x \in 0 .. w - 1 => x % w = x
  OBVIOUS

\* Reducing a size before or after something is added to it makes no difference.
LEMMA RemainderSum ==
    ASSUME NEW a \in Int, NEW b \in Int, NEW w \in Nat \ {0}
    PROVE  ((a % w) + b) % w = (a + b) % w
  <1> DEFINE p == a \div w
             q == ((a % w) + b) \div w
             r == (a + b) \div w
             k == (p + q) - r
  <1>1. /\ p \in Int /\ q \in Int /\ r \in Int /\ k \in Int
        /\ (a % w) \in Int
        /\ (((a % w) + b) % w) \in 0 .. w - 1 /\ ((a + b) % w) \in 0 .. w - 1
    OBVIOUS
  <1>2. a = (w * p) + (a % w)
    OBVIOUS
  <1>3. (a % w) + b = (w * q) + (((a % w) + b) % w)
    <2> DEFINE c == (a % w) + b
    <2>1. c \in Int
      BY <1>1
    <2> HIDE DEF c
    <2>2. c = (w * (c \div w)) + (c % w)
      BY <2>1
    <2> QED
      BY <2>2 DEF c
  <1>4. a + b = (w * r) + ((a + b) % w)
    <2> DEFINE c == a + b
    <2>1. c \in Int
      OBVIOUS
    <2> HIDE DEF c
    <2>2. c = (w * (c \div w)) + (c % w)
      BY <2>1
    <2> QED
      BY <2>2 DEF c
  <1> HIDE DEF p, q, r
  <1>5. w * k = ((a + b) % w) - (((a % w) + b) % w)
    <2>1. w * k = ((w * p) + (w * q)) - (w * r)
      BY <1>1
    <2> DEFINE wp == w * p
               wq == w * q
               wr == w * r
               x == a % w
               y == ((a % w) + b) % w
               z == (a + b) % w
    <2>2. /\ wp \in Int /\ wq \in Int /\ wr \in Int
          /\ x \in Int /\ y \in Int /\ z \in Int
      BY <1>1
    <2>3. a = wp + x /\ x + b = wq + y /\ a + b = wr + z
      BY <1>2, <1>3, <1>4
    <2> HIDE DEF wp, wq, wr, x, y, z
    <2>4. (wp + wq) - wr = z - y
      BY <2>2, <2>3
    <2> QED
      BY <2>1, <2>4 DEF wp, wq, wr, y, z
  <1>6. -w < w * k /\ w * k < w
    BY <1>1, <1>5
  <1>7. k = 0
    <2> HIDE DEF k
    <2>1. k <= -1 => w * k <= -w
      BY <1>1
    <2>2. k >= 1 => w * k >= w
      BY <1>1
    <2> QED
      BY <1>1, <1>6, <2>1, <2>2
  <1>8. w * k = 0
    BY <1>7
  <1> QED
    BY <1>1, <1>5, <1>8

\* The largest of the numbers up to n that are in S.
LEMMA LargestExists ==
    ASSUME NEW n \in Nat, NEW S \in SUBSET (0 .. n), S # {}
    PROVE  \E m \in S : \A j \in S : j <= m
  <1> DEFINE above == { m \in Nat : \A j \in S : j <= m }
             less == OpToRel(<, Nat)
  <1>1. n \in above
    OBVIOUS
  <1>2. PICK m \in above : \A k \in above : ~(<<k, m>> \in less)
    <2>1. above \subseteq Nat /\ above # {}
      BY <1>1
    <2> HIDE DEF above, less
    <2> QED
      BY <2>1, NatLessThanWellFounded, WFMin DEF less
  <1>3. \A k \in above : ~(k < m)
    BY <1>2 DEF OpToRel
  <1>4. m \in Nat /\ \A j \in S : j <= m
    BY <1>2
  <1>5. CASE m = 0
    <2>1. PICK j \in S : TRUE
      OBVIOUS
    <2>2. j = m
      BY <1>4, <1>5, <2>1
    <2> QED
      BY <1>4, <2>2
  <1>6. CASE m # 0
    <2>1. m - 1 \in Nat /\ m - 1 \notin above
      BY <1>3, <1>4, <1>6
    <2>2. PICK j \in S : ~(j <= m - 1)
      BY <2>1
    <2>3. j = m
      BY <1>4, <2>2
    <2> QED
      BY <1>4, <2>3
  <1> QED
    BY <1>5, <1>6

LEMMA ElementOf ==
    ASSUME NEW S, NEW s \in Seq(S), NEW a \in DOMAIN s
    PROVE  s[a] \in S
  OBVIOUS

----------------------------------------------------------------------------
(* Transactions, blocks and locators. *)

\* The locators of the outputs of a block.
Written(txs) == UNION { LocatorsOf(txs[k]) : k \in DOMAIN txs }

LEMMA TxFacts ==
    ASSUME NEW t \in Tx
    PROVE  /\ TxHash[t] \in Hash /\ Outputs[t] \in Seq(Nat) /\ Len(Outputs[t]) \in Nat
           /\ OutputIndexes(t) = 0 .. Len(Outputs[t]) - 1
           /\ \A i \in OutputIndexes(t) : i \in Nat /\ Amount(t, i) \in Nat
           /\ IsFiniteSet(OutputIndexes(t))
  <1>1. TxHash[t] \in Hash /\ Outputs[t] \in Seq(Nat)
    BY TxAssumption
  <1>2. OutputIndexes(t) = 0 .. Len(Outputs[t]) - 1 /\ Len(Outputs[t]) \in Nat
    BY <1>1 DEF OutputIndexes
  <1>3. \A i \in OutputIndexes(t) : i \in Nat /\ Amount(t, i) \in Nat
    BY <1>1, <1>2 DEF Amount
  <1>4. IsFiniteSet(0 .. Len(Outputs[t]) - 1)
    BY <1>2, FS_Interval
  <1> QED
    BY <1>1, <1>2, <1>3, <1>4

LEMMA BlockFacts ==
    ASSUME NEW txs \in Blocks
    PROVE  /\ txs \in Seq(Tx) /\ Len(txs) \in Nat /\ DOMAIN txs = 1 .. Len(txs)
           /\ \A k \in DOMAIN txs : k \in Nat /\ txs[k] \in Tx /\ TxHash[txs[k]] \in Hash
  <1>1. txs \in Seq(Tx)
    BY TxAssumption
  <1> QED
    BY <1>1, TxFacts

LEMMA LocatorFacts ==
    ASSUME NEW h \in Hash, NEW i \in Nat
    PROVE  /\ LocatorOf(h, i) \in Locator /\ LocatorOf(h, i)[1] = h
           /\ i < IndexWord => LocatorOf(h, i) = <<h, i>>
  <1>1. IndexWord \in Nat \ {0}
    BY SizeAssumption
  <1>2. i % IndexWord \in 0 .. IndexWord - 1 /\ (i \in 0 .. IndexWord - 1 => i % IndexWord = i)
    BY <1>1, RemainderFacts
  <1> QED
    BY <1>1, <1>2 DEF LocatorOf, Locator

\* What is in Written, and that all of it are locators.
LEMMA WrittenFacts ==
    ASSUME NEW txs \in Blocks
    PROVE  /\ Written(txs) \subseteq Locator
           /\ \A l : l \in Written(txs) <=>
                  \E k \in DOMAIN txs : \E i \in OutputIndexes(txs[k]) :
                      l = LocatorOf(TxHash[txs[k]], i)
           /\ \A l \in Written(txs) : l[1] \in HashesOf(txs)
  <1>1. \A l : l \in Written(txs) <=>
            \E k \in DOMAIN txs : \E i \in OutputIndexes(txs[k]) : l = LocatorOf(TxHash[txs[k]], i)
    BY DEF Written, LocatorsOf
  <1>2. ASSUME NEW k \in DOMAIN txs, NEW i \in OutputIndexes(txs[k])
        PROVE  LocatorOf(TxHash[txs[k]], i) \in Locator
               /\ LocatorOf(TxHash[txs[k]], i)[1] \in HashesOf(txs)
    <2>1. txs[k] \in Tx /\ TxHash[txs[k]] \in Hash
      BY BlockFacts
    <2>2. i \in Nat
      BY <2>1, TxFacts
    <2> QED
      BY <2>1, <2>2, LocatorFacts DEF HashesOf
  <1> QED
    BY <1>1, <1>2

\* The outputs of a block, as pairs of numbers.
Pairs(txs) == UNION { {k} \X OutputIndexes(txs[k]) : k \in DOMAIN txs }

LEMMA PairsFacts ==
    ASSUME NEW txs \in Blocks
    PROVE  /\ \A p : p \in Pairs(txs) <=>
                  \E k \in DOMAIN txs : \E i \in OutputIndexes(txs[k]) : p = <<k, i>>
           /\ IsFiniteSet(Pairs(txs))
           /\ OutputCount(txs) = Cardinality(Pairs(txs)) /\ OutputCount(txs) \in Nat
  <1>1. \A p : p \in Pairs(txs) <=>
            \E k \in DOMAIN txs : \E i \in OutputIndexes(txs[k]) : p = <<k, i>>
    BY DEF Pairs
  <1>2. IsFiniteSet(Pairs(txs))
    <2> DEFINE rows == { {k} \X OutputIndexes(txs[k]) : k \in DOMAIN txs }
               row == [k \in DOMAIN txs |-> {k} \X OutputIndexes(txs[k])]
    <2>1. row \in Surjection(DOMAIN txs, rows)
      BY DEF Surjection
    <2>2. IsFiniteSet(DOMAIN txs)
      BY BlockFacts, FS_Interval
    <2>3. IsFiniteSet(rows)
      <3> HIDE DEF row, rows
      <3> QED
        BY <2>1, <2>2, FS_Surjection
    <2>4. ASSUME NEW k \in DOMAIN txs
          PROVE  IsFiniteSet({k} \X OutputIndexes(txs[k]))
      <3>1. IsFiniteSet({k}) /\ IsFiniteSet(OutputIndexes(txs[k]))
        BY BlockFacts, TxFacts, FS_Singleton
      <3> QED
        BY <3>1, FS_Product
    <2>5. \A S \in rows : IsFiniteSet(S)
      BY <2>4
    <2> HIDE DEF rows
    <2>6. IsFiniteSet(UNION rows)
      BY <2>3, <2>5, FS_UNION
    <2> QED
      BY <2>6 DEF rows, Pairs
  <1>3. OutputCount(txs) = Cardinality(Pairs(txs))
    BY DEF OutputCount, Pairs
  <1> QED
    BY <1>1, <1>2, <1>3, FS_CardinalityType

LEMMA PairsFinite ==
    ASSUME NEW txs \in Blocks
    PROVE  IsFiniteSet(Pairs(txs))
  BY PairsFacts

----------------------------------------------------------------------------
(* What storing a block writes. *)

\* The record of a hash of the block is that of a transaction with that hash.
LEMMA DbWithFacts ==
    ASSUME NEW coinDb, NEW txs \in Blocks
    PROVE  /\ DbWith(coinDb, txs) = [h \in Hash |-> DbWith(coinDb, txs)[h]]
           /\ \A h \in Hash :
                  /\ h \notin HashesOf(txs) => DbWith(coinDb, txs)[h] = coinDb[h]
                  /\ h \in HashesOf(txs) =>
                         \E k \in DOMAIN txs : /\ TxHash[txs[k]] = h
                                               /\ DbWith(coinDb, txs)[h] = RecordOf(txs[k])
  <1>1. DbWith(coinDb, txs) = [h \in Hash |-> DbWith(coinDb, txs)[h]]
    BY DEF DbWith
  <1>2. ASSUME NEW h \in Hash, h \notin HashesOf(txs)
        PROVE  DbWith(coinDb, txs)[h] = coinDb[h]
    BY <1>2 DEF DbWith
  <1>3. ASSUME NEW h \in Hash, h \in HashesOf(txs)
        PROVE  \E k \in DOMAIN txs : /\ TxHash[txs[k]] = h
                                     /\ DbWith(coinDb, txs)[h] = RecordOf(txs[k])
    <2> DEFINE with == { k \in DOMAIN txs : TxHash[txs[k]] = h }
    <2>1. with \subseteq 0 .. Len(txs) /\ with # {} /\ Len(txs) \in Nat
      BY <1>3, BlockFacts DEF HashesOf
    <2>2. \E k \in with : \A j \in with : j <= k
      BY <2>1, LargestExists
    <2>3. PICK k \in DOMAIN txs : /\ TxHash[txs[k]] = h
                                 /\ LastWith(txs, h) = txs[k]
      BY <2>2 DEF LastWith
    <2>4. DbWith(coinDb, txs)[h] = RecordOf(LastWith(txs, h))
      BY <1>3 DEF DbWith
    <2> QED
      BY <2>3, <2>4
  <1> QED
    BY <1>1, <1>2, <1>3

\* The coin of a written locator is unspent and worth one of the outputs
\* written to it.
LEMMA CacheWithFacts ==
    ASSUME NEW coinCache, NEW txs \in Blocks
    PROVE  /\ CacheWith(coinCache, txs) = [l \in Locator |-> CacheWith(coinCache, txs)[l]]
           /\ \A l \in Locator :
                  /\ l \notin Written(txs) => CacheWith(coinCache, txs)[l] = coinCache[l]
                  /\ l \in Written(txs) =>
                         \E k \in DOMAIN txs : \E i \in OutputIndexes(txs[k]) :
                             /\ l = LocatorOf(TxHash[txs[k]], i)
                             /\ CacheWith(coinCache, txs)[l] =
                                    [amount |-> Amount(txs[k], i), spent |-> FALSE]
  <1>1. CacheWith(coinCache, txs) = [l \in Locator |-> CacheWith(coinCache, txs)[l]]
    BY DEF CacheWith
  <1> DEFINE last(l) == CHOOSE w \in WritesTo(txs, l) :
                            \A v \in WritesTo(txs, l) :
                                v[1] < w[1] \/ (v[1] = w[1] /\ v[2] <= w[2])
  <1>2. \A l \in Locator :
            CacheWith(coinCache, txs)[l] =
                IF WritesTo(txs, l) = {} THEN coinCache[l]
                ELSE [amount |-> Amount(txs[last(l)[1]], last(l)[2]), spent |-> FALSE]
    BY DEF CacheWith
  <1>3. ASSUME NEW l
        PROVE  \A w : w \in WritesTo(txs, l) <=>
                   \E k \in DOMAIN txs : \E i \in OutputIndexes(txs[k]) :
                       w = <<k, i>> /\ l = LocatorOf(TxHash[txs[k]], i)
    BY DEF WritesTo
  <1>4. ASSUME NEW l \in Locator, l \notin Written(txs)
        PROVE  CacheWith(coinCache, txs)[l] = coinCache[l]
    <2>1. WritesTo(txs, l) = {}
      BY <1>3, <1>4, WrittenFacts
    <2> QED
      BY <1>2, <2>1
  <1>5. ASSUME NEW l \in Locator, l \in Written(txs)
        PROVE  \E k \in DOMAIN txs : \E i \in OutputIndexes(txs[k]) :
                   /\ l = LocatorOf(TxHash[txs[k]], i)
                   /\ CacheWith(coinCache, txs)[l] =
                          [amount |-> Amount(txs[k], i), spent |-> FALSE]
    <2> DEFINE hits(k) == { i \in OutputIndexes(txs[k]) : l = LocatorOf(TxHash[txs[k]], i) }
               with == { k \in DOMAIN txs : hits(k) # {} }
    <2>1. with \subseteq 0 .. Len(txs) /\ with # {} /\ Len(txs) \in Nat
      <3>1. PICK k \in DOMAIN txs : \E i \in OutputIndexes(txs[k]) : l = LocatorOf(TxHash[txs[k]], i)
        BY <1>5, WrittenFacts
      <3>2. k \in with
        BY <3>1
      <3>3. with \subseteq DOMAIN txs
        OBVIOUS
      <3> HIDE DEF with
      <3> QED
        BY <3>2, <3>3, BlockFacts
    <2>2. PICK k \in with : \A j \in with : j <= k
      <3> HIDE DEF with
      <3> QED
        BY <2>1, LargestExists
    <2>3. k \in DOMAIN txs /\ txs[k] \in Tx /\ hits(k) # {}
      BY <2>2, BlockFacts
    <2>4. hits(k) \subseteq 0 .. Len(Outputs[txs[k]]) /\ Len(Outputs[txs[k]]) \in Nat
      BY <2>3, TxFacts
    <2>5. PICK i \in hits(k) : \A j \in hits(k) : j <= i
      <3> HIDE DEF hits
      <3> QED
        BY <2>3, <2>4, LargestExists
    <2>6. <<k, i>> \in WritesTo(txs, l)
      BY <1>3, <2>3, <2>5
    <2>7. ASSUME NEW v \in WritesTo(txs, l)
          PROVE  v[1] < k \/ (v[1] = k /\ v[2] <= i)
      <3>0. PICK n \in DOMAIN txs : \E m \in OutputIndexes(txs[n]) :
                v = <<n, m>> /\ l = LocatorOf(TxHash[txs[n]], m)
        BY <1>3, <2>7
      <3>1. PICK m \in OutputIndexes(txs[n]) :
                v = <<n, m>> /\ l = LocatorOf(TxHash[txs[n]], m)
        BY <3>0
      <3>2. n \in with /\ m \in hits(n)
        BY <3>1
      <3>3. n \in Nat /\ k \in Nat /\ n <= k
        BY <2>2, <2>3, <3>2, BlockFacts
      <3>4. n = k => m <= i
        BY <2>5, <3>2
      <3> QED
        BY <3>1, <3>3, <3>4
    <2>8. /\ last(l) \in WritesTo(txs, l)
          /\ CacheWith(coinCache, txs)[l] =
                 [amount |-> Amount(txs[last(l)[1]], last(l)[2]), spent |-> FALSE]
      <3>1. \E w \in WritesTo(txs, l) :
                \A v \in WritesTo(txs, l) : v[1] < w[1] \/ (v[1] = w[1] /\ v[2] <= w[2])
        <4> WITNESS <<k, i>> \in WritesTo(txs, l)
        <4> QED
          BY <2>7
      <3>2. last(l) \in WritesTo(txs, l)
        BY <3>1
      <3> HIDE DEF last
      <3> QED
        BY <1>2, <2>6, <3>2
    <2> HIDE DEF last
    <2>9. PICK n \in DOMAIN txs : \E m \in OutputIndexes(txs[n]) :
              last(l) = <<n, m>> /\ l = LocatorOf(TxHash[txs[n]], m)
      BY <1>3, <2>8
    <2>10. PICK m \in OutputIndexes(txs[n]) :
              last(l) = <<n, m>> /\ l = LocatorOf(TxHash[txs[n]], m)
      BY <2>9
    <2>11. CacheWith(coinCache, txs)[l] = [amount |-> Amount(txs[n], m), spent |-> FALSE]
      BY <2>8, <2>10
    <2> QED
      BY <2>10, <2>11
  <1> QED
    BY <1>1, <1>4, <1>5

\* What is written has the types of the cache, the database and an undo block.
LEMMA WriteTypes ==
    ASSUME NEW coinDb, NEW coinCache, NEW txs \in Blocks,
           \A h \in Hash : coinDb[h] = NoRecord \/ IsRecord(coinDb[h]),
           coinCache \in [Locator -> Coin \cup {NoCoin}]
    PROVE  /\ \A h \in Hash : DbWith(coinDb, txs)[h] = NoRecord \/ IsRecord(DbWith(coinDb, txs)[h])
           /\ CacheWith(coinCache, txs) \in [Locator -> Coin \cup {NoCoin}]
           /\ UndoAmounts(coinDb, coinCache, txs) \in Seq(Seq(Nat))
  <1>1. ASSUME NEW h \in Hash
        PROVE  DbWith(coinDb, txs)[h] = NoRecord \/ IsRecord(DbWith(coinDb, txs)[h])
    <2>1. CASE h \notin HashesOf(txs)
      BY <2>1, DbWithFacts
    <2>2. CASE h \in HashesOf(txs)
      <3>1. PICK k \in DOMAIN txs : DbWith(coinDb, txs)[h] = RecordOf(txs[k])
        BY <2>2, DbWithFacts
      <3>2. IsRecord(RecordOf(txs[k]))
        BY BlockFacts, TxFacts DEF IsRecord, RecordOf
      <3> QED
        BY <3>1, <3>2
    <2> QED
      BY <2>1, <2>2
  <1>2. ASSUME NEW l \in Locator
        PROVE  CacheWith(coinCache, txs)[l] \in Coin \cup {NoCoin}
    <2>1. CASE l \notin Written(txs)
      BY <2>1, CacheWithFacts
    <2>2. CASE l \in Written(txs)
      <3>1. \E k \in DOMAIN txs : \E i \in OutputIndexes(txs[k]) :
                CacheWith(coinCache, txs)[l] = [amount |-> Amount(txs[k], i), spent |-> FALSE]
        BY <2>2, CacheWithFacts
      <3>2. \A k \in DOMAIN txs : \A i \in OutputIndexes(txs[k]) : Amount(txs[k], i) \in Nat
        BY BlockFacts, TxFacts
      <3> QED
        BY <3>1, <3>2 DEF Coin
    <2> QED
      BY <2>1, <2>2
  <1>3. ASSUME NEW input \in [hash : Hash, index : 0 .. IndexWord - 1]
        PROVE  MatchingAmount(coinDb, coinCache, input) \in Nat
    <2>1. LocatorOf(input.hash, input.index) \in Locator
      BY LocatorFacts, SizeAssumption
    <2>2. coinCache[LocatorOf(input.hash, input.index)] \in Coin \cup {NoCoin}
      BY <2>1
    <2>3. coinDb[input.hash] = NoRecord \/ IsRecord(coinDb[input.hash])
      OBVIOUS
    <2> QED
      BY <2>2, <2>3 DEF MatchingAmount, IsRecord, Coin
  <1>4. ASSUME NEW k \in DOMAIN txs
        PROVE  [a \in DOMAIN Inputs[txs[k]] |->
                   MatchingAmount(coinDb, coinCache, Inputs[txs[k]][a])] \in Seq(Nat)
    <2>1. Inputs[txs[k]] \in Seq([hash : Hash, index : 0 .. IndexWord - 1])
      BY BlockFacts, TxAssumption
    <2>2. ASSUME NEW a \in DOMAIN Inputs[txs[k]]
          PROVE  MatchingAmount(coinDb, coinCache, Inputs[txs[k]][a]) \in Nat
      <3>1. Inputs[txs[k]][a] \in [hash : Hash, index : 0 .. IndexWord - 1]
        BY <2>1, ElementOf
      <3> QED
        BY <1>3, <3>1
    <2>3. DOMAIN Inputs[txs[k]] = 1 .. Len(Inputs[txs[k]]) /\ Len(Inputs[txs[k]]) \in Nat
      BY <2>1
    <2> HIDE DEF MatchingAmount
    <2> QED
      BY <2>2, <2>3
  <1>5. UndoAmounts(coinDb, coinCache, txs) \in Seq(Seq(Nat))
    <2>1. DOMAIN txs = 1 .. Len(txs) /\ Len(txs) \in Nat
      BY BlockFacts
    <2> QED
      BY <1>4, <2>1 DEF UndoAmounts
  <1> QED
    BY <1>1, <1>2, <1>5, CacheWithFacts

\* The locators of a block are finitely many; as many as its outputs if its
\* transactions are narrow and have different hashes.
LEMMA WrittenCount ==
    ASSUME NEW txs \in Blocks
    PROVE  /\ IsFiniteSet(Written(txs))
           /\ (/\ \A k \in DOMAIN txs : Narrow(txs[k])
               /\ \A j, k \in DOMAIN txs : TxHash[txs[j]] = TxHash[txs[k]] => j = k)
              => Cardinality(Written(txs)) = OutputCount(txs)
  <1> DEFINE place == [p \in Pairs(txs) |-> LocatorOf(TxHash[txs[p[1]]], p[2])]
  <1>1. place \in Surjection(Pairs(txs), Written(txs))
    <2>1. ASSUME NEW p \in Pairs(txs)
          PROVE  place[p] \in Written(txs)
      <3>1. PICK k \in DOMAIN txs : \E i \in OutputIndexes(txs[k]) : p = <<k, i>>
        BY PairsFacts
      <3>2. PICK i \in OutputIndexes(txs[k]) : p = <<k, i>>
        BY <3>1
      <3>3. place[p] = LocatorOf(TxHash[txs[k]], i)
        BY <3>2
      <3> QED
        BY <3>3, WrittenFacts
    <2>2. ASSUME NEW l \in Written(txs)
          PROVE  \E p \in Pairs(txs) : place[p] = l
      <3>1. PICK k \in DOMAIN txs : \E i \in OutputIndexes(txs[k]) : l = LocatorOf(TxHash[txs[k]], i)
        BY WrittenFacts
      <3>2. PICK i \in OutputIndexes(txs[k]) : l = LocatorOf(TxHash[txs[k]], i)
        BY <3>1
      <3>3. <<k, i>> \in Pairs(txs) /\ place[<<k, i>>] = l
        BY <3>2, PairsFacts
      <3> QED
        BY <3>3
    <2>3. place \in [Pairs(txs) -> Written(txs)]
      BY <2>1
    <2> HIDE DEF place
    <2> QED
      BY <2>2, <2>3 DEF Surjection
  <1>2. /\ IsFiniteSet(Written(txs))
        /\ place \in Injection(Pairs(txs), Written(txs))
               => Cardinality(Written(txs)) = Cardinality(Pairs(txs))
    <2> HIDE DEF place
    <2> QED
      BY <1>1, PairsFacts, FS_Surjection
  <1>3. ASSUME \A k \in DOMAIN txs : Narrow(txs[k]),
               \A j, k \in DOMAIN txs : TxHash[txs[j]] = TxHash[txs[k]] => j = k
        PROVE  place \in Injection(Pairs(txs), Written(txs))
    <2>1. ASSUME NEW p \in Pairs(txs), NEW r \in Pairs(txs), place[p] = place[r]
          PROVE  p = r
      <3>1. ASSUME NEW q \in Pairs(txs)
            PROVE  /\ q[1] \in DOMAIN txs /\ q = <<q[1], q[2]>>
                   /\ place[q] = <<TxHash[txs[q[1]]], q[2]>>
        <4>1. PICK k \in DOMAIN txs : \E i \in OutputIndexes(txs[k]) : q = <<k, i>>
          BY PairsFacts
        <4>2. PICK i \in OutputIndexes(txs[k]) : q = <<k, i>>
          BY <4>1
        <4>3. i \in Nat /\ i < IndexWord /\ TxHash[txs[k]] \in Hash
          BY <1>3, BlockFacts, TxFacts, SizeAssumption DEF Narrow
        <4>4. place[q] = LocatorOf(TxHash[txs[k]], i)
          BY <4>2
        <4> QED
          BY <4>2, <4>3, <4>4, LocatorFacts
      <3>2. TxHash[txs[p[1]]] = TxHash[txs[r[1]]] /\ p[2] = r[2]
        BY <2>1, <3>1
      <3>3. p[1] = r[1]
        BY <1>3, <3>1, <3>2
      <3> QED
        BY <3>1, <3>2, <3>3
    <2> HIDE DEF place
    <2>2. place \in [Pairs(txs) -> Written(txs)]
      BY <1>1 DEF Surjection
    <2> QED
      BY <2>1, <2>2 DEF Injection, IsInjective
  <1> QED
    BY <1>2, <1>3, PairsFacts

----------------------------------------------------------------------------
(* The list of stored blocks. *)

\* The transactions of a block, and of a list of stored blocks.
TxsIn(txs)  == { txs[k] : k \in DOMAIN txs }
TxsOf(list) == UNION { TxsIn(list[n].txs) : n \in DOMAIN list }

\* A list without its n-th element (UndoCoins).
Without(list, n) == SubSeq(list, 1, n - 1) \o SubSeq(list, n + 1, Len(list))

StoredBlock == [txs : Blocks, undo : Seq(Seq(Nat))]

\* No two places in the blocks of a list hold transactions with the same key.
Once(key, list) ==
    \A n, m \in DOMAIN list : \A j \in DOMAIN list[n].txs : \A k \in DOMAIN list[m].txs :
        key[list[n].txs[j]] = key[list[m].txs[k]] => n = m /\ j = k

LEMMA TxsOfFacts ==
    ASSUME NEW list
    PROVE  /\ \A t : t \in TxsOf(list) <=>
                  \E n \in DOMAIN list : \E k \in DOMAIN list[n].txs : t = list[n].txs[k]
           /\ list \in Seq(StoredBlock) => TxsOf(list) \subseteq Tx
  <1>1. \A t : t \in TxsOf(list) <=>
            \E n \in DOMAIN list : \E k \in DOMAIN list[n].txs : t = list[n].txs[k]
    BY DEF TxsOf, TxsIn
  <1>2. ASSUME list \in Seq(StoredBlock), NEW n \in DOMAIN list, NEW k \in DOMAIN list[n].txs
        PROVE  list[n].txs[k] \in Tx
    <2>1. list[n] \in StoredBlock
      BY <1>2, ElementOf
    <2>2. list[n].txs \in Blocks
      BY <2>1 DEF StoredBlock
    <2> QED
      BY <2>2, BlockFacts
  <1> QED
    BY <1>1, <1>2

LEMMA AppendFacts ==
    ASSUME NEW S, NEW list \in Seq(S), NEW e \in S
    PROVE  /\ Append(list, e) \in Seq(S) /\ Len(list) \in Nat
           /\ DOMAIN list = 1 .. Len(list)
           /\ DOMAIN Append(list, e) = 1 .. Len(list) + 1
           /\ \A n \in DOMAIN list : Append(list, e)[n] = list[n]
           /\ Append(list, e)[Len(list) + 1] = e
  OBVIOUS

LEMMA ConcatFacts ==
    ASSUME NEW S, NEW f \in Seq(S), NEW g \in Seq(S)
    PROVE  /\ f \o g \in Seq(S) /\ Len(f \o g) = Len(f) + Len(g)
           /\ \A m \in 1 .. Len(f) + Len(g) :
                  (f \o g)[m] = IF m <= Len(f) THEN f[m] ELSE g[m - Len(f)]
  OBVIOUS

LEMMA WithoutFacts ==
    ASSUME NEW S, NEW list \in Seq(S), NEW n \in DOMAIN list
    PROVE  /\ Without(list, n) \in Seq(S) /\ Len(list) \in Nat
           /\ DOMAIN list = 1 .. Len(list)
           /\ DOMAIN Without(list, n) = 1 .. Len(list) - 1
           /\ \A m \in DOMAIN Without(list, n) :
                  Without(list, n)[m] = IF m < n THEN list[m] ELSE list[m + 1]
  <1> DEFINE front == SubSeq(list, 1, n - 1)
             back == SubSeq(list, n + 1, Len(list))
  <1>1. Len(list) \in Nat /\ DOMAIN list = 1 .. Len(list) /\ n \in 1 .. Len(list)
    OBVIOUS
  <1>2. /\ front \in Seq(S) /\ Len(front) = n - 1
        /\ \A m \in 1 .. n - 1 : front[m] = list[m]
    BY <1>1
  <1>3. /\ back \in Seq(S) /\ Len(back) = Len(list) - n
        /\ \A m \in 1 .. Len(list) - n : back[m] = list[n + m]
    BY <1>1
  <1> HIDE DEF front, back
  <1>4. /\ front \o back \in Seq(S) /\ Len(front \o back) = Len(list) - 1
        /\ \A m \in 1 .. Len(list) - 1 :
               (front \o back)[m] = IF m < n THEN front[m] ELSE back[m - (n - 1)]
    <2>1. /\ front \o back \in Seq(S) /\ Len(front \o back) = Len(front) + Len(back)
          /\ \A m \in 1 .. Len(front) + Len(back) :
                 (front \o back)[m] = IF m <= Len(front) THEN front[m] ELSE back[m - Len(front)]
      BY <1>2, <1>3, ConcatFacts
    <2>2. Len(front) + Len(back) = Len(list) - 1
      BY <1>1, <1>2, <1>3
    <2>3. \A m \in 1 .. Len(list) - 1 : m <= n - 1 <=> m < n
      BY <1>1
    <2> QED
      BY <1>1, <1>2, <2>1, <2>2, <2>3
  <1>5. DOMAIN (front \o back) = 1 .. Len(list) - 1
    BY <1>4
  <1>6. ASSUME NEW m \in 1 .. Len(list) - 1
        PROVE  (front \o back)[m] = IF m < n THEN list[m] ELSE list[m + 1]
    <2>1. CASE m < n
      BY <1>1, <1>2, <1>4, <2>1
    <2>2. CASE ~(m < n)
      <3>1. m - (n - 1) \in 1 .. Len(list) - n /\ n + (m - (n - 1)) = m + 1
        BY <1>1, <2>2
      <3> QED
        BY <1>3, <1>4, <2>2, <3>1
    <2> QED
      BY <2>1, <2>2
  <1> QED
    BY <1>1, <1>4, <1>5, <1>6 DEF Without, front, back

LEMMA TxsOfAppend ==
    ASSUME NEW list \in Seq(StoredBlock), NEW e \in StoredBlock
    PROVE  TxsOf(Append(list, e)) = TxsOf(list) \cup TxsIn(e.txs)
  <1> DEFINE longer == Append(list, e)
  <1>1. /\ Len(list) \in Nat /\ DOMAIN list = 1 .. Len(list)
        /\ DOMAIN longer = 1 .. Len(list) + 1
        /\ \A n \in DOMAIN list : longer[n] = list[n]
        /\ longer[Len(list) + 1] = e
    BY AppendFacts
  <1> HIDE DEF longer
  <1>2. ASSUME NEW t \in TxsOf(longer)
        PROVE  t \in TxsOf(list) \cup TxsIn(e.txs)
    BY <1>1 DEF TxsOf
  <1>3. ASSUME NEW t \in TxsOf(list) \cup TxsIn(e.txs)
        PROVE  t \in TxsOf(longer)
    <2>1. CASE t \in TxsOf(list)
      BY <1>1, <2>1 DEF TxsOf
    <2>2. CASE t \in TxsIn(e.txs)
      BY <1>1, <2>2 DEF TxsOf
    <2> QED
      BY <1>3, <2>1, <2>2
  <1> QED
    BY <1>2, <1>3 DEF longer

\* Undoing a block leaves the transactions of the others.
LEMMA TxsOfWithout ==
    ASSUME NEW list \in Seq(StoredBlock), NEW n \in DOMAIN list
    PROVE  /\ TxsOf(Without(list, n)) \subseteq TxsOf(list)
           /\ TxsOf(list) \subseteq TxsOf(Without(list, n)) \cup TxsIn(list[n].txs)
           /\ \A key : Once(key, list) =>
                  \A t \in TxsOf(Without(list, n)), u \in TxsIn(list[n].txs) : key[t] # key[u]
  <1> DEFINE shorter == Without(list, n)
  <1>1. /\ Len(list) \in Nat /\ n \in 1 .. Len(list) /\ DOMAIN list = 1 .. Len(list)
        /\ DOMAIN shorter = 1 .. Len(list) - 1
        /\ \A m \in DOMAIN shorter : shorter[m] = IF m < n THEN list[m] ELSE list[m + 1]
    BY WithoutFacts
  <1> HIDE DEF shorter
  <1>2. ASSUME NEW t \in TxsOf(shorter)
        PROVE  \E m \in DOMAIN list : m # n /\ t \in TxsIn(list[m].txs)
    <2>1. PICK m \in DOMAIN shorter : t \in TxsIn(shorter[m].txs)
      BY DEF TxsOf
    <2>2. CASE m < n
      BY <1>1, <2>1, <2>2
    <2>3. CASE ~(m < n)
      <3>1. m + 1 \in DOMAIN list /\ m + 1 # n /\ t \in TxsIn(list[m + 1].txs)
        BY <1>1, <2>1, <2>3
      <3> QED
        BY <3>1
    <2> QED
      BY <2>2, <2>3
  <1>3. ASSUME NEW m \in DOMAIN list, m # n
        PROVE  TxsIn(list[m].txs) \subseteq TxsOf(shorter)
    <2>1. CASE m < n
      <3>1. m \in DOMAIN shorter /\ shorter[m] = list[m]
        BY <1>1, <2>1
      <3> QED
        BY <3>1 DEF TxsOf
    <2>2. CASE ~(m < n)
      <3>1. m - 1 \in DOMAIN shorter /\ shorter[m - 1] = list[m]
        BY <1>1, <1>3, <2>2
      <3> QED
        BY <3>1 DEF TxsOf
    <2> QED
      BY <2>1, <2>2
  <1>4. TxsOf(shorter) \subseteq TxsOf(list)
    BY <1>2 DEF TxsOf
  <1>5. TxsOf(list) \subseteq TxsOf(shorter) \cup TxsIn(list[n].txs)
    <2> SUFFICES ASSUME NEW t \in TxsOf(list)
                 PROVE  t \in TxsOf(shorter) \cup TxsIn(list[n].txs)
      OBVIOUS
    <2>1. PICK m \in DOMAIN list : t \in TxsIn(list[m].txs)
      BY DEF TxsOf
    <2> QED
      BY <1>3, <2>1
  <1>6. ASSUME NEW key, Once(key, list), NEW t \in TxsOf(shorter), NEW u \in TxsIn(list[n].txs)
        PROVE  key[t] # key[u]
    <2>1. PICK m \in DOMAIN list : m # n /\ t \in TxsIn(list[m].txs)
      BY <1>2, <1>6
    <2>2. PICK j \in DOMAIN list[m].txs : t = list[m].txs[j]
      BY <2>1 DEF TxsIn
    <2>3. PICK k \in DOMAIN list[n].txs : u = list[n].txs[k]
      BY <1>6 DEF TxsIn
    <2> QED
      BY <1>6, <2>1, <2>2, <2>3 DEF Once
  <1> QED
    BY <1>4, <1>5, <1>6 DEF shorter

LEMMA OnceWithout ==
    ASSUME NEW list \in Seq(StoredBlock), NEW n \in DOMAIN list, NEW key, Once(key, list)
    PROVE  Once(key, Without(list, n))
  <1> DEFINE shorter == Without(list, n)
  <1>1. /\ Len(list) \in Nat /\ n \in 1 .. Len(list) /\ DOMAIN list = 1 .. Len(list)
        /\ DOMAIN shorter = 1 .. Len(list) - 1
        /\ \A m \in DOMAIN shorter : shorter[m] = IF m < n THEN list[m] ELSE list[m + 1]
    BY WithoutFacts
  <1> HIDE DEF shorter
  <1>2. ASSUME NEW a \in DOMAIN shorter, NEW b \in DOMAIN shorter,
               NEW j \in DOMAIN shorter[a].txs, NEW k \in DOMAIN shorter[b].txs,
               key[shorter[a].txs[j]] = key[shorter[b].txs[k]]
        PROVE  a = b /\ j = k
    <2> DEFINE from(m) == IF m < n THEN m ELSE m + 1
    <2>1. \A m \in DOMAIN shorter : from(m) \in DOMAIN list /\ shorter[m] = list[from(m)]
      BY <1>1
    <2>2. from(a) = from(b) => a = b
      BY <1>1
    <2> HIDE DEF from
    <2> QED
      BY <1>2, <2>1, <2>2 DEF Once
  <1> QED
    BY <1>2 DEF Once, shorter

LEMMA OnceAppend ==
    ASSUME NEW list \in Seq(StoredBlock), NEW e \in StoredBlock, NEW key, Once(key, list),
           \A t \in TxsOf(list), u \in TxsIn(e.txs) : key[t] # key[u],
           \A j, k \in DOMAIN e.txs : key[e.txs[j]] = key[e.txs[k]] => j = k
    PROVE  Once(key, Append(list, e))
  <1> DEFINE longer == Append(list, e)
  <1>1. /\ Len(list) \in Nat /\ DOMAIN list = 1 .. Len(list)
        /\ DOMAIN longer = 1 .. Len(list) + 1
        /\ \A n \in DOMAIN list : longer[n] = list[n]
        /\ longer[Len(list) + 1] = e
    BY AppendFacts
  <1> HIDE DEF longer
  <1>2. ASSUME NEW a \in DOMAIN longer, NEW b \in DOMAIN longer,
               NEW j \in DOMAIN longer[a].txs, NEW k \in DOMAIN longer[b].txs,
               key[longer[a].txs[j]] = key[longer[b].txs[k]]
        PROVE  a = b /\ j = k
    <2>1. ASSUME NEW n \in DOMAIN list, NEW i \in DOMAIN longer[n].txs
          PROVE  longer[n].txs[i] \in TxsOf(list)
      BY <1>1 DEF TxsOf, TxsIn
    <2>2. \A i \in DOMAIN e.txs : e.txs[i] \in TxsIn(e.txs)
      BY DEF TxsIn
    <2>3. CASE a \in DOMAIN list /\ b \in DOMAIN list
      BY <1>1, <1>2, <2>3 DEF Once
    <2>4. CASE a \in DOMAIN list /\ b = Len(list) + 1
      <3>1. longer[b] = e
        BY <1>1, <2>4
      <3> QED
        BY <1>2, <2>1, <2>2, <2>4, <3>1
    <2>5. CASE a = Len(list) + 1 /\ b \in DOMAIN list
      <3>1. longer[a] = e
        BY <1>1, <2>5
      <3> QED
        BY <1>2, <2>1, <2>2, <2>5, <3>1
    <2>6. CASE a = Len(list) + 1 /\ b = Len(list) + 1
      <3>1. longer[a] = e /\ longer[b] = e
        BY <1>1, <2>6
      <3> QED
        BY <1>2, <2>6, <3>1
    <2> QED
      BY <1>1, <2>3, <2>4, <2>5, <2>6
  <1> QED
    BY <1>2 DEF Once, longer

----------------------------------------------------------------------------
(* The inductive invariant. *)

Self == [t \in Tx |-> t]

\* What the cache and the database hold for a transaction t that has a hash of
\* its own and is not too wide.  A cached coin is an output of t, t is stored,
\* the coin is spent if it was marked, and if not the record has it as well.
CoinsOf(t) ==
    \A i \in 0 .. IndexWord - 1 :
        LET coin   == cache[<<TxHash[t], i>>]
            record == db[TxHash[t]]
        IN  coin # NoCoin =>
                /\ t \in StoredTxs /\ i \in OutputIndexes(t) /\ coin.amount = Amount(t, i)
                /\ coin.spent <=> <<TxHash[t], i>> \in marked
                /\ ~coin.spent => record # NoRecord /\ i \in DOMAIN record

\* A record has outputs of t, and t is stored.
RecordsOf(t) ==
    LET record == db[TxHash[t]]
    IN  record # NoRecord =>
            /\ t \in StoredTxs
            /\ \A i \in DOMAIN record : i \in OutputIndexes(t) /\ record[i] = Amount(t, i)

\* A stored t has all its coins in the cache: no flush takes one out.
CoinsPresent(t) ==
    ~repeated /\ t \in StoredTxs =>
        \A i \in OutputIndexes(t) : cache[<<TxHash[t], i>>] # NoCoin

CoinsSound == \A t \in Tx : Plain(t) => CoinsOf(t) /\ RecordsOf(t) /\ CoinsPresent(t)

StoredOnce == ~repeated => Once(Self, stored)

\* Without clashes the cached locators are those of the stored blocks, and no
\* two outputs share one.
CacheOfBlocks ==
    ~clashed =>
        /\ Once(TxHash, stored)
        /\ \A t \in TxsOf(stored) : Narrow(t)
        /\ Cached = UNION { LocatorsOf(t) : t \in TxsOf(stored) }

FiniteParts == IsFiniteSet(mempool) /\ IsFiniteSet(Cached)

IteratorCached == status = "flushing" => iterator \in Cached

DbInv ==
    /\ TypeOK /\ FiniteParts /\ MempoolBounded /\ IteratorCached
    /\ CoinsSound /\ StoredOnce /\ CacheOfBlocks /\ CacheSizeExact

\* The steps of StoreBlock that store, of FlushMainCache with an empty cache,
\* and of UndoCoins that undo.
StoreStep(txs, size) ==
    /\ size = cacheSize \/ (size = 0 /\ Cached = {})
    /\ RemoveFromMempool(txs)
    /\ StoreToMainCache(txs, size)
    /\ UNCHANGED <<status, iterator>>

ClearSize ==
    /\ Cached = {}
    /\ cacheSize' = 0
    /\ UNCHANGED <<db, cache, mempoolVars, status, iterator, history>>

UndoStep(n) ==
    /\ db' = [h \in Hash |-> IF h \in HashesOf(stored[n].txs) THEN NoRecord ELSE db[h]]
    /\ cache' = CacheWithout(stored[n].txs, stored[n].undo)
    /\ cacheSize' = SizeWithout(stored[n].txs)
    /\ stored' = Without(stored, n)
    /\ marked' = marked \ Written(stored[n].txs)
    /\ UNCHANGED <<mempoolVars, status, iterator, repeated, clashed>>

LEMMA StepCases ==
    ASSUME [Next]_vars
    PROVE  \/ \E txs \in Blocks : \E size \in {0, cacheSize} :
                  status = "running" /\ StoreStep(txs, size)
           \/ status = "running" /\ EnterFlush
           \/ ClearSize
           \/ Crash
           \/ \E t \in Tx : StoreTransaction(t)
           \/ \E l \in Locator : QuickCacheRemove(l)
           \/ \E n \in DOMAIN stored : status = "running" /\ UndoStep(n)
           \/ FlushStep
           \/ UNCHANGED vars
  <1>1. ASSUME NEW txs \in Blocks, StoreBlock(txs), status = "running"
        PROVE  \/ \E size \in {0, cacheSize} : status = "running" /\ StoreStep(txs, size)
               \/ status = "running" /\ EnterFlush
    <2>1. CASE EnterFlush
      BY <1>1, <2>1
    <2>2. CASE Cached = {} /\ RemoveFromMempool(txs) /\ StoreToMainCache(txs, 0)
               /\ UNCHANGED <<status, iterator>>
      <3>1. StoreStep(txs, 0)
        BY <2>2 DEF StoreStep
      <3> QED
        BY <1>1, <3>1
    <2>3. CASE RemoveFromMempool(txs) /\ StoreToMainCache(txs, cacheSize)
               /\ UNCHANGED <<status, iterator>>
      <3>1. StoreStep(txs, cacheSize)
        BY <2>3 DEF StoreStep
      <3> QED
        BY <1>1, <3>1
    <2> QED
      BY <1>1, <2>1, <2>2, <2>3 DEF StoreBlock
  <1>2. CASE status = "running" /\ \E txs \in Blocks : StoreBlock(txs)
    BY <1>1, <1>2
  <1>3. CASE status = "running" /\ \E txs \in Blocks, ret \in BOOLEAN : ValidateAndStoreBlock(txs, ret)
    <2>1. PICK txs \in Blocks, ret \in BOOLEAN : ValidateAndStoreBlock(txs, ret)
      BY <1>3
    <2>2. StoreBlock(txs) \/ UNCHANGED vars \/ Crash
      BY <2>1 DEF ValidateAndStoreBlock
    <2> QED
      BY <1>1, <1>3, <2>2
  <1>4. CASE \E t \in Tx : ValidateAndStoreTransaction(t)
    BY <1>4 DEF ValidateAndStoreTransaction
  <1>5. CASE \E n \in DOMAIN stored : status = "running" /\ UndoCoins(n)
    <2>1. PICK n \in DOMAIN stored : status = "running" /\ UndoCoins(n)
      BY <1>5
    <2>2. UndoStep(n) \/ Crash
      BY <2>1 DEF UndoCoins, UndoStep, Without, Written
    <2> QED
      BY <2>1, <2>2
  <1>6. CASE status = "running" /\ FlushMainCache
    BY <1>6 DEF FlushMainCache, ClearSize
  <1> QED
    BY <1>2, <1>3, <1>4, <1>5, <1>6 DEF Next, Call

----------------------------------------------------------------------------
(* Steps that store. *)

\* The transactions of a block that a transaction with a hash of its own is
\* among, by its hash and by its locators.
LEMMA PlainFacts ==
    ASSUME NEW txs \in Blocks, NEW t \in Tx, Plain(t)
    PROVE  /\ t \in TxsIn(txs) <=> TxHash[t] \in HashesOf(txs)
           /\ \A k \in DOMAIN txs : TxHash[txs[k]] = TxHash[t] => txs[k] = t
           /\ OutputIndexes(t) \subseteq 0 .. IndexWord - 1
           /\ \A i \in OutputIndexes(t) : LocatorOf(TxHash[t], i) = <<TxHash[t], i>>
           /\ \A i \in 0 .. IndexWord - 1 :
                  /\ <<TxHash[t], i>> \in Locator
                  /\ <<TxHash[t], i>> \in Written(txs) <=> t \in TxsIn(txs) /\ i \in OutputIndexes(t)
  <1>1. \A k \in DOMAIN txs : TxHash[txs[k]] = TxHash[t] => txs[k] = t
    BY BlockFacts DEF Plain, Alone
  <1>2. t \in TxsIn(txs) <=> TxHash[t] \in HashesOf(txs)
    BY <1>1 DEF TxsIn, HashesOf
  <1>3. IndexWord \in Nat /\ TxHash[t] \in Hash /\ OutputIndexes(t) \subseteq 0 .. IndexWord - 1
    BY TxFacts, SizeAssumption DEF Plain, Narrow
  <1>4. ASSUME NEW i \in OutputIndexes(t)
        PROVE  LocatorOf(TxHash[t], i) = <<TxHash[t], i>>
    <2>1. i \in Nat /\ i < IndexWord
      BY <1>3
    <2> QED
      BY <1>3, <2>1, LocatorFacts
  <1>5. ASSUME NEW i \in 0 .. IndexWord - 1
        PROVE  /\ <<TxHash[t], i>> \in Locator
               /\ <<TxHash[t], i>> \in Written(txs) <=> t \in TxsIn(txs) /\ i \in OutputIndexes(t)
    <2>1. <<TxHash[t], i>> \in Locator
      BY <1>3 DEF Locator
    <2>2. ASSUME <<TxHash[t], i>> \in Written(txs)
          PROVE  t \in TxsIn(txs) /\ i \in OutputIndexes(t)
      <3>1. PICK k \in DOMAIN txs : \E j \in OutputIndexes(txs[k]) :
                <<TxHash[t], i>> = LocatorOf(TxHash[txs[k]], j)
        BY <2>2, WrittenFacts
      <3>2. PICK j \in OutputIndexes(txs[k]) : <<TxHash[t], i>> = LocatorOf(TxHash[txs[k]], j)
        BY <3>1
      <3>3. txs[k] = t
        BY <1>1, <3>2 DEF LocatorOf
      <3>4. j = i
        BY <1>4, <3>2, <3>3
      <3> QED
        BY <3>3, <3>4 DEF TxsIn
    <2>3. ASSUME t \in TxsIn(txs), i \in OutputIndexes(t)
          PROVE  <<TxHash[t], i>> \in Written(txs)
      <3>1. PICK k \in DOMAIN txs : t = txs[k]
        BY <2>3 DEF TxsIn
      <3>2. <<TxHash[t], i>> = LocatorOf(TxHash[txs[k]], i)
        BY <1>4, <2>3, <3>1
      <3> QED
        BY <2>3, <3>1, <3>2, WrittenFacts
    <2> QED
      BY <2>1, <2>2, <2>3
  <1> QED
    BY <1>1, <1>2, <1>3, <1>4, <1>5

\* The list and the sets that the history variables are read through.
LEMMA StoredFacts ==
    ASSUME TypeOK
    PROVE  /\ stored \in Seq(StoredBlock)
           /\ StoredTxs = TxsOf(stored) /\ StoredTxs \subseteq Tx
           /\ \A n \in DOMAIN stored : stored[n] \in StoredBlock /\ stored[n].txs \in Blocks
           /\ Word \in Nat \ {0} /\ IndexWord \in Nat \ {0} /\ cacheSize \in 0 .. Word - 1
  <1>1. stored \in Seq(StoredBlock)
    BY DEF TypeOK, StoredBlock
  <1>2. StoredTxs = TxsOf(stored)
    BY DEF StoredTxs, TxsOf, TxsIn
  <1>3. \A n \in DOMAIN stored : stored[n] \in StoredBlock
    BY <1>1, ElementOf
  <1>4. \A n \in DOMAIN stored : stored[n].txs \in Blocks
    BY <1>3 DEF StoredBlock
  <1> QED
    BY <1>1, <1>2, <1>3, <1>4, TxsOfFacts, SizeAssumption DEF TypeOK

LEMMA RemoveFromMempoolFacts ==
    ASSUME DbInv, NEW txs, RemoveFromMempool(txs)
    PROVE  /\ mempool' \subseteq mempool /\ IsFiniteSet(mempool')
           /\ mempoolSize' \in 0 .. Word - 1
           /\ MempoolBounded'
  <1> DEFINE gone == { t \in mempool : TxHash[t] \in HashesOf(txs) }
  <1>1. mempool' = mempool \ gone /\ mempoolSize' = (mempoolSize - Cardinality(gone)) % Word
    BY DEF RemoveFromMempool
  <1>2. IsFiniteSet(gone) /\ Cardinality(gone) \in Nat
    BY FS_Subset, FS_CardinalityType DEF DbInv, FiniteParts
  <1>3. mempoolSize \in Nat /\ Word \in Nat \ {0}
    BY SizeAssumption DEF DbInv, TypeOK
  <1>4. mempoolSize' \in 0 .. Word - 1
    <2> DEFINE x == mempoolSize - Cardinality(gone)
    <2>1. x \in Int /\ mempoolSize' = x % Word
      BY <1>1, <1>2, <1>3
    <2> HIDE DEF x
    <2> QED
      BY <1>3, <2>1, RemainderFacts
  <1>5. mempool' \subseteq mempool
    BY <1>1
  <1>6. IsFiniteSet(mempool') /\ Cardinality(mempool') <= Cardinality(mempool)
        /\ Cardinality(mempool') \in Nat /\ Cardinality(mempool) \in Nat
    BY <1>5, FS_Subset, FS_CardinalityType DEF DbInv, FiniteParts
  <1>7. MempoolBounded'
    BY <1>5, <1>6, SizeAssumption DEF DbInv, MempoolBounded
  <1> QED
    BY <1>4, <1>5, <1>6, <1>7

LEMMA CoinFacts ==
    ASSUME NEW amount \in Nat, NEW spent \in BOOLEAN
    PROVE  LET coin == [amount |-> amount, spent |-> spent]
           IN  /\ coin \in Coin /\ coin # NoCoin
               /\ coin.amount = amount /\ coin.spent = spent
  BY AbsentAssumption DEF Coin

\* A written locator has an unspent coin, and any other what it had.
LEMMA CoinWritten ==
    ASSUME NEW coinCache, NEW txs \in Blocks, NEW l \in Locator, l \in Written(txs)
    PROVE  CacheWith(coinCache, txs)[l] \in {c \in Coin : c # NoCoin /\ c.spent = FALSE}
  <1>1. PICK k \in DOMAIN txs : \E i \in OutputIndexes(txs[k]) :
            CacheWith(coinCache, txs)[l] = [amount |-> Amount(txs[k], i), spent |-> FALSE]
    BY CacheWithFacts
  <1>2. PICK i \in OutputIndexes(txs[k]) :
            CacheWith(coinCache, txs)[l] = [amount |-> Amount(txs[k], i), spent |-> FALSE]
    BY <1>1
  <1>3. Amount(txs[k], i) \in Nat
    BY BlockFacts, TxFacts
  <1> QED
    BY <1>2, <1>3, CoinFacts

LEMMA CoinKept ==
    ASSUME NEW coinCache, NEW txs \in Blocks, NEW l \in Locator, l \notin Written(txs)
    PROVE  CacheWith(coinCache, txs)[l] = coinCache[l]
  BY CacheWithFacts

LEMMA StoreStepFacts ==
    ASSUME DbInv, NEW txs \in Blocks, NEW size, StoreStep(txs, size)
    PROVE  /\ size \in 0 .. Word - 1
           /\ DOMAIN stored' = 1 .. Len(stored) + 1
           /\ stored' \in Seq(StoredBlock)
           /\ TxsOf(stored') = TxsOf(stored) \cup TxsIn(txs)
           /\ \E e \in StoredBlock : e.txs = txs /\ stored' = Append(stored, e)
           /\ Cached' = Cached \cup Written(txs)
           /\ marked' = marked \ Written(txs)
  <1> DEFINE e == [txs |-> txs, undo |-> UndoAmounts(db', cache', txs)]
  <1>1. /\ db' = DbWith(db, txs) /\ cache' = CacheWith(cache, txs)
        /\ stored' = Append(stored, e)
        /\ marked' = marked \ Written(txs)
    BY DEF StoreStep, StoreToMainCache, Written
  <1>2. /\ \A h \in Hash : db[h] = NoRecord \/ IsRecord(db[h])
        /\ cache \in [Locator -> Coin \cup {NoCoin}]
    BY DEF DbInv, TypeOK
  <1>3. /\ \A h \in Hash : db'[h] = NoRecord \/ IsRecord(db'[h])
        /\ cache' \in [Locator -> Coin \cup {NoCoin}]
    BY <1>1, <1>2, WriteTypes
  <1>4. UndoAmounts(db', cache', txs) \in Seq(Seq(Nat))
    BY <1>3, WriteTypes
  <1>5. e \in StoredBlock /\ e.txs = txs
    BY <1>4 DEF StoredBlock
  <1>6. stored \in Seq(StoredBlock)
    BY StoredFacts DEF DbInv
  <1> HIDE DEF e
  <1>7. /\ stored' \in Seq(StoredBlock) /\ DOMAIN stored' = 1 .. Len(stored) + 1
        /\ TxsOf(stored') = TxsOf(stored) \cup TxsIn(txs)
    BY <1>1, <1>5, <1>6, AppendFacts, TxsOfAppend
  <1>8. ASSUME NEW l \in Locator
        PROVE  cache'[l] # NoCoin <=> l \in Written(txs) \/ cache[l] # NoCoin
    BY <1>1, CoinWritten, CoinKept
  <1>9. Cached' = Cached \cup Written(txs)
    BY <1>8, WrittenFacts DEF Cached
  <1>10. size \in 0 .. Word - 1
    BY StoredFacts DEF StoreStep, DbInv
  <1> QED
    BY <1>1, <1>5, <1>7, <1>9, <1>10

LEMMA StoreType ==
    ASSUME DbInv, NEW txs \in Blocks, NEW size, StoreStep(txs, size)
    PROVE  (TypeOK /\ FiniteParts /\ MempoolBounded)'
  <1>1. /\ db' = DbWith(db, txs) /\ cache' = CacheWith(cache, txs)
        /\ cacheSize' = (size + OutputCount(txs)) % Word
        /\ repeated' \in BOOLEAN /\ clashed' \in BOOLEAN
        /\ UNCHANGED <<status, iterator>>
    BY DEF StoreStep, StoreToMainCache
  <1>2. /\ db' = [h \in Hash |-> db'[h]]
        /\ \A h \in Hash : db'[h] = NoRecord \/ IsRecord(db'[h])
        /\ cache' \in [Locator -> Coin \cup {NoCoin}]
    <2>1. /\ \A h \in Hash : db[h] = NoRecord \/ IsRecord(db[h])
          /\ cache \in [Locator -> Coin \cup {NoCoin}]
      BY DEF DbInv, TypeOK
    <2>2. db' = [h \in Hash |-> db'[h]]
      BY <1>1 DEF DbWith
    <2> QED
      BY <1>1, <2>1, <2>2, WriteTypes
  <1>3. cacheSize' \in 0 .. Word - 1
    <2> DEFINE x == size + OutputCount(txs)
    <2>1. x \in Int /\ Word \in Nat \ {0}
      BY StoreStepFacts, PairsFacts, SizeAssumption
    <2>2. cacheSize' = x % Word
      BY <1>1
    <2> HIDE DEF x
    <2> QED
      BY <2>1, <2>2, RemainderFacts
  <1>4. /\ mempool' \subseteq mempool /\ mempoolSize' \in 0 .. Word - 1
        /\ IsFiniteSet(mempool') /\ MempoolBounded'
    BY RemoveFromMempoolFacts DEF StoreStep
  <1>5. stored' \in Seq([txs : Blocks, undo : Seq(Seq(Nat))]) /\ marked' \subseteq marked
    BY StoreStepFacts DEF StoredBlock
  <1>6. IsFiniteSet(Cached')
    <2>1. Cached' = Cached \cup Written(txs)
      BY StoreStepFacts
    <2>2. IsFiniteSet(Cached) /\ IsFiniteSet(Written(txs))
      BY WrittenCount DEF DbInv, FiniteParts
    <2> QED
      BY <2>1, <2>2, FS_Union
  <1>7. TypeOK'
    BY <1>1, <1>2, <1>3, <1>4, <1>5 DEF DbInv, TypeOK
  <1> QED
    BY <1>4, <1>6, <1>7 DEF FiniteParts

LEMMA StoreCoins ==
    ASSUME DbInv, NEW txs \in Blocks, NEW size, StoreStep(txs, size)
    PROVE  CoinsSound'
  <1> SUFFICES ASSUME NEW t \in Tx, Plain(t)
               PROVE  (CoinsOf(t) /\ RecordsOf(t) /\ CoinsPresent(t))'
    BY DEF CoinsSound, Plain, Alone, Narrow
  <1> DEFINE h == TxHash[t]
  <1>1. /\ db' = DbWith(db, txs) /\ cache' = CacheWith(cache, txs)
        /\ marked' = marked \ Written(txs)
        /\ ~repeated' => ~repeated
    BY StoreStepFacts DEF StoreStep, StoreToMainCache
  <1>2. StoredTxs' = StoredTxs \cup TxsIn(txs)
    <2>1. StoredTxs' = TxsOf(stored')
      BY DEF StoredTxs, TxsOf, TxsIn
    <2> QED
      BY <2>1, StoreStepFacts, StoredFacts DEF DbInv
  <1>3. CoinsOf(t) /\ RecordsOf(t) /\ CoinsPresent(t)
    BY DEF DbInv, CoinsSound
  <1>4. h \in Hash
    BY TxFacts
  <1>5. CASE t \notin TxsIn(txs)
    <2>1. h \notin HashesOf(txs) /\ db'[h] = db[h]
      BY <1>1, <1>4, <1>5, PlainFacts, DbWithFacts
    <2>2. \A i \in 0 .. IndexWord - 1 :
              /\ <<h, i>> \in Locator /\ <<h, i>> \notin Written(txs)
              /\ cache'[<<h, i>>] = cache[<<h, i>>]
              /\ <<h, i>> \in marked' <=> <<h, i>> \in marked
      BY <1>1, <1>5, PlainFacts, CacheWithFacts
    <2>3. t \in StoredTxs' <=> t \in StoredTxs
      BY <1>2, <1>5
    <2>4. CoinsOf(t)'
      BY <1>3, <2>1, <2>2, <2>3 DEF CoinsOf
    <2>5. RecordsOf(t)'
      BY <1>3, <2>1, <2>3 DEF RecordsOf
    <2>6. CoinsPresent(t)'
      BY <1>1, <1>3, <2>2, <2>3, PlainFacts DEF CoinsPresent
    <2> QED
      BY <2>4, <2>5, <2>6
  <1>6. CASE t \in TxsIn(txs)
    <2>1. db'[h] = RecordOf(t)
      <3>1. PICK k \in DOMAIN txs : TxHash[txs[k]] = h /\ db'[h] = RecordOf(txs[k])
        BY <1>1, <1>4, <1>6, PlainFacts, DbWithFacts
      <3> QED
        BY <3>1, PlainFacts
    <2>2. db'[h] # NoRecord
      <3>1. RecordOf(t) \in [0 .. Len(Outputs[t]) - 1 -> Nat]
        BY TxFacts DEF RecordOf
      <3> QED
        BY <2>1, <3>1, AbsentAssumption
    <2>3. DOMAIN db'[h] = OutputIndexes(t) /\ \A i \in OutputIndexes(t) : db'[h][i] = Amount(t, i)
      BY <2>1 DEF RecordOf
    <2>4. t \in StoredTxs'
      BY <1>2, <1>6
    <2>5. ASSUME NEW i \in OutputIndexes(t)
          PROVE  /\ cache'[<<h, i>>] # NoCoin
                 /\ cache'[<<h, i>>].amount = Amount(t, i) /\ cache'[<<h, i>>].spent = FALSE
                 /\ <<h, i>> \notin marked'
      <3>1. i \in 0 .. IndexWord - 1 /\ <<h, i>> \in Locator /\ <<h, i>> \in Written(txs)
        BY <1>6, PlainFacts
      <3>2. PICK k \in DOMAIN txs : \E j \in OutputIndexes(txs[k]) :
                /\ <<h, i>> = LocatorOf(TxHash[txs[k]], j)
                /\ cache'[<<h, i>>] = [amount |-> Amount(txs[k], j), spent |-> FALSE]
        BY <1>1, <3>1, CacheWithFacts
      <3>3. PICK j \in OutputIndexes(txs[k]) :
                /\ <<h, i>> = LocatorOf(TxHash[txs[k]], j)
                /\ cache'[<<h, i>>] = [amount |-> Amount(txs[k], j), spent |-> FALSE]
        BY <3>2
      <3>4. txs[k] = t
        BY <3>3, PlainFacts DEF LocatorOf
      <3>5. j = i
        BY <3>3, <3>4, PlainFacts
      <3>6. cache'[<<h, i>>] = [amount |-> Amount(t, i), spent |-> FALSE]
        BY <3>3, <3>4, <3>5
      <3>7. Amount(t, i) \in Nat
        BY TxFacts
      <3>8. /\ cache'[<<h, i>>] # NoCoin
            /\ cache'[<<h, i>>].amount = Amount(t, i) /\ cache'[<<h, i>>].spent = FALSE
        BY <3>6, <3>7, CoinFacts
      <3> QED
        BY <1>1, <3>1, <3>8
    <2>6. ASSUME NEW i \in 0 .. IndexWord - 1, i \notin OutputIndexes(t)
          PROVE  cache'[<<h, i>>] = NoCoin
      <3>1. cache'[<<h, i>>] = cache[<<h, i>>]
        BY <1>1, <2>6, PlainFacts, CacheWithFacts
      <3> QED
        BY <1>3, <2>6, <3>1 DEF CoinsOf
    <2>7. CoinsOf(t)'
      <3> SUFFICES ASSUME NEW i \in 0 .. IndexWord - 1, cache'[<<h, i>>] # NoCoin
                   PROVE  /\ t \in StoredTxs' /\ i \in OutputIndexes(t)
                          /\ cache'[<<h, i>>].amount = Amount(t, i)
                          /\ cache'[<<h, i>>].spent <=> <<h, i>> \in marked'
                          /\ ~cache'[<<h, i>>].spent => db'[h] # NoRecord /\ i \in DOMAIN db'[h]
        BY DEF CoinsOf, OutputIndexes, Amount
      <3>1. i \in OutputIndexes(t)
        BY <2>6
      <3>2. cache'[<<h, i>>].amount = Amount(t, i) /\ cache'[<<h, i>>].spent = FALSE
            /\ <<h, i>> \notin marked'
        BY <2>5, <3>1
      <3> QED
        BY <2>2, <2>3, <2>4, <3>1, <3>2
    <2>8. RecordsOf(t)'
      BY <2>3, <2>4 DEF RecordsOf
    <2>9. CoinsPresent(t)'
      BY <2>5 DEF CoinsPresent, OutputIndexes
    <2> QED
      BY <2>7, <2>8, <2>9
  <1> QED
    BY <1>5, <1>6

LEMMA StoreOnce ==
    ASSUME DbInv, NEW txs \in Blocks, NEW size, StoreStep(txs, size)
    PROVE  StoredOnce'
  <1> SUFFICES ASSUME ~repeated'
               PROVE  Once(Self, stored')
    BY DEF StoredOnce, Once, Self
  <1>1. ~repeated /\ ~Repeats(StoredTxs, txs)
    BY DEF StoreStep, StoreToMainCache
  <1>2. PICK e \in StoredBlock : e.txs = txs /\ stored' = Append(stored, e)
    BY StoreStepFacts
  <1>3. stored \in Seq(StoredBlock) /\ Once(Self, stored)
    BY <1>1, StoredFacts DEF DbInv, StoredOnce
  <1>4. \A t \in TxsOf(stored), u \in TxsIn(txs) : Self[t] # Self[u]
    <2> SUFFICES ASSUME NEW t \in TxsOf(stored), NEW u \in TxsIn(txs), Self[t] = Self[u]
                 PROVE  FALSE
      OBVIOUS
    <2>1. PICK k \in DOMAIN txs : u = txs[k]
      BY DEF TxsIn
    <2>2. t \in Tx /\ u \in Tx /\ t \in StoredTxs
      BY <2>1, BlockFacts, StoredFacts DEF DbInv
    <2>3. t = u
      BY <2>2 DEF Self
    <2> QED
      BY <1>1, <2>1, <2>2, <2>3 DEF Repeats
  <1>5. \A j, k \in DOMAIN txs : Self[txs[j]] = Self[txs[k]] => j = k
    <2> SUFFICES ASSUME NEW j \in DOMAIN txs, NEW k \in DOMAIN txs, txs[j] = txs[k]
                 PROVE  j = k
      BY BlockFacts DEF Self
    <2>1. j \in Nat /\ k \in Nat /\ j \in 1 .. Len(txs) /\ k \in 1 .. Len(txs)
      BY BlockFacts
    <2>2. ~(j \in 1 .. k - 1) /\ ~(k \in 1 .. j - 1)
      BY <1>1 DEF Repeats
    <2> QED
      BY <2>1, <2>2
  <1> QED
    BY <1>2, <1>3, <1>4, <1>5, OnceAppend

\* The locators of a block, transaction by transaction: each has the hash of
\* its own.
LEMMA LocatorsByTx ==
    ASSUME NEW txs
    PROVE  /\ Written(txs) = UNION { LocatorsOf(t) : t \in TxsIn(txs) }
           /\ \A t : \A l \in LocatorsOf(t) : l[1] = TxHash[t]
  BY DEF Written, TxsIn, LocatorsOf, LocatorOf

LEMMA StoreSize ==
    ASSUME DbInv, NEW txs \in Blocks, NEW size, StoreStep(txs, size)
    PROVE  (CacheOfBlocks /\ CacheSizeExact)'
  <1> SUFFICES ASSUME ~clashed'
               PROVE  /\ Once(TxHash, stored')
                      /\ \A t \in TxsOf(stored') : Narrow(t)
                      /\ Cached' = UNION { LocatorsOf(t) : t \in TxsOf(stored') }
                      /\ cacheSize' = Cardinality(Cached') % Word
    BY DEF CacheOfBlocks, CacheSizeExact, Once, TxsOf, TxsIn, Narrow, LocatorsOf, OutputIndexes, LocatorOf
  <1>1. ~clashed /\ ~Clashes(StoredTxs, txs)
    BY DEF StoreStep, StoreToMainCache
  <1>2. PICK e \in StoredBlock : e.txs = txs /\ stored' = Append(stored, e)
    BY StoreStepFacts
  <1>3. /\ Once(TxHash, stored)
        /\ \A t \in TxsOf(stored) : Narrow(t)
        /\ Cached = UNION { LocatorsOf(t) : t \in TxsOf(stored) }
        /\ cacheSize = Cardinality(Cached) % Word
    BY <1>1 DEF DbInv, CacheOfBlocks, CacheSizeExact
  <1>4. /\ stored \in Seq(StoredBlock) /\ StoredTxs = TxsOf(stored)
        /\ Word \in Nat \ {0}
    BY StoredFacts DEF DbInv
  <1>5. \A k \in DOMAIN txs : Narrow(txs[k])
    BY <1>1 DEF Clashes
  <1>6. \A t \in TxsOf(stored), u \in TxsIn(txs) : TxHash[t] # TxHash[u]
    BY <1>1, <1>4 DEF Clashes, TxsIn
  <1>7. \A j, k \in DOMAIN txs : TxHash[txs[j]] = TxHash[txs[k]] => j = k
    <2> SUFFICES ASSUME NEW j \in DOMAIN txs, NEW k \in DOMAIN txs, TxHash[txs[j]] = TxHash[txs[k]]
                 PROVE  j = k
      OBVIOUS
    <2>1. j \in Nat /\ k \in Nat /\ j \in 1 .. Len(txs) /\ k \in 1 .. Len(txs)
      BY BlockFacts
    <2>2. ~(j \in 1 .. k - 1) /\ ~(k \in 1 .. j - 1)
      BY <1>1 DEF Clashes
    <2> QED
      BY <2>1, <2>2
  <1>8. Once(TxHash, stored')
    BY <1>2, <1>3, <1>4, <1>6, <1>7, OnceAppend
  <1>9. TxsOf(stored') = TxsOf(stored) \cup TxsIn(txs) /\ Cached' = Cached \cup Written(txs)
    BY StoreStepFacts
  <1>10. \A t \in TxsOf(stored') : Narrow(t)
    BY <1>3, <1>5, <1>9 DEF TxsIn
  <1>11. Cached' = UNION { LocatorsOf(t) : t \in TxsOf(stored') }
    BY <1>3, <1>9, LocatorsByTx
  <1>12. Cached \cap Written(txs) = {}
    BY <1>3, <1>6, LocatorsByTx
  <1>13. Cardinality(Cached') = Cardinality(Cached) + OutputCount(txs)
    <2>1. IsFiniteSet(Cached) /\ IsFiniteSet(Written(txs)) /\ Cardinality(Written(txs)) = OutputCount(txs)
      BY <1>5, <1>7, WrittenCount DEF DbInv, FiniteParts
    <2>2. /\ Cardinality(Cached) \in Nat /\ Cardinality(Written(txs)) \in Nat
          /\ Cardinality(Cached \cap Written(txs)) = 0
      BY <1>12, <2>1, FS_CardinalityType, FS_EmptySet
    <2>3. Cardinality(Cached \cup Written(txs)) =
              Cardinality(Cached) + Cardinality(Written(txs)) - Cardinality(Cached \cap Written(txs))
      BY <2>1, FS_Union
    <2> QED
      BY <1>9, <2>1, <2>2, <2>3
  <1>14. cacheSize' = Cardinality(Cached') % Word
    <2>1. Cardinality(Cached) \in Nat /\ OutputCount(txs) \in Nat
      BY PairsFacts, FS_CardinalityType DEF DbInv, FiniteParts
    <2>2. size = Cardinality(Cached) % Word
      <3>1. CASE size = cacheSize
        BY <1>3, <3>1
      <3>2. CASE size = 0 /\ Cached = {}
        <4>1. Cardinality(Cached) = 0
          BY <3>2, FS_EmptySet
        <4>2. 0 \in 0 .. Word - 1
          BY <1>4
        <4> QED
          BY <1>4, <3>2, <4>1, <4>2, RemainderFacts
      <3> QED
        BY <3>1, <3>2 DEF StoreStep
    <2>3. cacheSize' = (size + OutputCount(txs)) % Word
      BY DEF StoreStep, StoreToMainCache
    <2>4. ((Cardinality(Cached) % Word) + OutputCount(txs)) % Word =
              (Cardinality(Cached) + OutputCount(txs)) % Word
      BY <1>4, <2>1, RemainderSum
    <2> QED
      BY <1>13, <2>2, <2>3, <2>4
  <1> QED
    BY <1>8, <1>10, <1>11, <1>14

LEMMA StoreKeeps ==
    ASSUME DbInv, NEW txs \in Blocks, NEW size, StoreStep(txs, size), status = "running"
    PROVE  DbInv'
  <1>1. IteratorCached'
    BY DEF StoreStep, IteratorCached
  <1> QED
    BY <1>1, StoreType, StoreCoins, StoreOnce, StoreSize DEF DbInv

----------------------------------------------------------------------------
(* Steps that undo. *)

LEMMA UndoStepFacts ==
    ASSUME DbInv, NEW n \in DOMAIN stored, UndoStep(n)
    PROVE  LET txs == stored[n].txs
           IN  /\ txs \in Blocks
               /\ stored' \in Seq(StoredBlock) /\ stored' = Without(stored, n)
               /\ StoredTxs = TxsOf(stored) /\ StoredTxs' = TxsOf(stored')
               /\ \A l \in Locator :
                      IF l \in Written(txs) THEN cache'[l] = NoCoin
                      ELSE \/ cache'[l] = cache[l]
                           \/ /\ cache[l] # NoCoin /\ l[1] \in HashesOf(txs)
                              /\ cache'[l] = [cache[l] EXCEPT !.spent = FALSE]
                              /\ cache'[l] \in Coin /\ cache'[l] # NoCoin
               /\ Cached' = Cached \ Written(txs)
               /\ marked' = marked \ Written(txs)
  <1> DEFINE txs == stored[n].txs
  <1>1. txs \in Blocks /\ stored \in Seq(StoredBlock)
    BY StoredFacts DEF DbInv
  <1>2. stored' \in Seq(StoredBlock) /\ stored' = Without(stored, n)
    BY <1>1, WithoutFacts DEF UndoStep
  <1>3. StoredTxs = TxsOf(stored) /\ StoredTxs' = TxsOf(stored')
    BY DEF StoredTxs, TxsOf, TxsIn
  <1>4. \A l : l \in Written(txs) <=> \E k \in DOMAIN txs : l \in LocatorsOf(txs[k])
    BY DEF Written
  <1> HIDE DEF txs
  <1>5. ASSUME NEW l \in Locator
        PROVE  IF l \in Written(txs) THEN cache'[l] = NoCoin
               ELSE \/ cache'[l] = cache[l]
                    \/ /\ cache[l] # NoCoin /\ l[1] \in HashesOf(txs)
                       /\ cache'[l] = [cache[l] EXCEPT !.spent = FALSE]
                       /\ cache'[l] \in Coin /\ cache'[l] # NoCoin
    <2> DEFINE undo == stored[n].undo
               unspent == [cache[l] EXCEPT !.spent = FALSE]
    <2>1. cache'[l] = IF l \in Written(txs) THEN NoCoin
                      ELSE IF cache[l] # NoCoin /\ l \in Sought(txs, undo) THEN unspent
                      ELSE cache[l]
      BY <1>4 DEF UndoStep, CacheWithout, txs
    <2>2. ASSUME l \in Sought(txs, undo)
          PROVE  l[1] \in HashesOf(txs)
      <3>1. PICK k \in DOMAIN txs : \E a \in DOMAIN undo[k] :
                l = LocatorOf(TxHash[txs[k]], undo[k][a])
        BY <2>2 DEF Sought
      <3>2. l[1] = TxHash[txs[k]]
        BY <3>1 DEF LocatorOf
      <3> QED
        BY <3>2 DEF HashesOf
    <2>3. ASSUME cache[l] # NoCoin
          PROVE  unspent \in Coin /\ unspent # NoCoin
      <3>1. cache[l] \in Coin
        BY <2>3 DEF DbInv, TypeOK
      <3>2. unspent \in Coin
        BY <3>1 DEF Coin
      <3>3. NoCoin \notin Coin
        BY AbsentAssumption DEF Coin
      <3> QED
        BY <3>2, <3>3
    <2> HIDE DEF unspent, undo
    <2>4. CASE l \in Written(txs)
      BY <2>1, <2>4
    <2>5. CASE l \notin Written(txs) /\ cache[l] # NoCoin /\ l \in Sought(txs, undo)
      BY <2>1, <2>2, <2>3, <2>5 DEF unspent
    <2>6. CASE l \notin Written(txs) /\ ~(cache[l] # NoCoin /\ l \in Sought(txs, undo))
      BY <2>1, <2>6
    <2> QED
      BY <2>4, <2>5, <2>6
  <1>6. Cached' = Cached \ Written(txs)
    BY <1>5 DEF Cached
  <1>7. marked' = marked \ Written(txs)
    BY DEF UndoStep, txs
  <1> QED
    BY <1>1, <1>2, <1>3, <1>5, <1>6, <1>7 DEF txs

LEMMA UndoType ==
    ASSUME DbInv, NEW n \in DOMAIN stored, UndoStep(n)
    PROVE  (TypeOK /\ FiniteParts /\ MempoolBounded)'
  <1> DEFINE txs == stored[n].txs
  <1>1. txs \in Blocks
    BY UndoStepFacts
  <1>2. /\ db' = [h \in Hash |-> db'[h]]
        /\ \A h \in Hash : db'[h] = NoRecord \/ IsRecord(db'[h])
    BY DEF UndoStep, DbInv, TypeOK
  <1>3. cache' \in [Locator -> Coin \cup {NoCoin}]
    <2>1. \A l \in Locator : cache'[l] \in Coin \cup {NoCoin}
      BY UndoStepFacts DEF DbInv, TypeOK
    <2>2. cache' = [l \in Locator |-> cache'[l]]
      BY DEF UndoStep, CacheWithout
    <2> QED
      BY <2>1, <2>2
  <1>4. cacheSize' \in 0 .. Word - 1
    <2> DEFINE x == cacheSize - OutputCount(txs)
    <2>1. x \in Int /\ Word \in Nat \ {0}
      BY <1>1, PairsFacts, SizeAssumption DEF DbInv, TypeOK
    <2>2. cacheSize' = x % Word
      BY DEF UndoStep, SizeWithout
    <2> HIDE DEF x
    <2> QED
      BY <2>1, <2>2, RemainderFacts
  <1>5. stored' \in Seq([txs : Blocks, undo : Seq(Seq(Nat))]) /\ marked' \subseteq marked
    BY UndoStepFacts DEF StoredBlock
  <1>6. UNCHANGED <<mempool, mempoolSize, status, iterator, repeated, clashed>>
    BY DEF UndoStep, mempoolVars
  <1>7. IsFiniteSet(Cached')
    <2>1. IsFiniteSet(Cached) /\ Cached' = Cached \ Written(txs)
      BY UndoStepFacts DEF DbInv, FiniteParts
    <2> HIDE DEF txs
    <2> QED
      BY <2>1, FS_Difference
  <1>8. TypeOK'
    BY <1>2, <1>3, <1>4, <1>5, <1>6 DEF DbInv, TypeOK
  <1> QED
    BY <1>6, <1>7, <1>8 DEF DbInv, FiniteParts, MempoolBounded

LEMMA UndoCoinsSound ==
    ASSUME DbInv, NEW n \in DOMAIN stored, UndoStep(n)
    PROVE  CoinsSound'
  <1> SUFFICES ASSUME NEW t \in Tx, Plain(t)
               PROVE  (CoinsOf(t) /\ RecordsOf(t) /\ CoinsPresent(t))'
    BY DEF CoinsSound, Plain, Alone, Narrow
  <1> DEFINE h == TxHash[t]
             txs == stored[n].txs
  <1>1. txs \in Blocks
    BY UndoStepFacts
  <1>2. CoinsOf(t) /\ RecordsOf(t) /\ CoinsPresent(t)
    BY DEF DbInv, CoinsSound
  <1>3. /\ h \in Hash
        /\ db'[h] = IF h \in HashesOf(txs) THEN NoRecord ELSE db[h]
        /\ repeated' = repeated
    BY TxFacts DEF UndoStep
  <1>4. /\ TxsOf(Without(stored, n)) \subseteq TxsOf(stored)
        /\ TxsOf(stored) \subseteq TxsOf(Without(stored, n)) \cup TxsIn(txs)
        /\ Once(Self, stored) =>
               \A u \in TxsOf(Without(stored, n)), v \in TxsIn(txs) : Self[u] # Self[v]
    BY StoredFacts, TxsOfWithout DEF DbInv
  <1>5. CASE t \notin TxsIn(txs)
    <2>1. db'[h] = db[h]
      BY <1>1, <1>3, <1>5, PlainFacts
    <2>2. \A i \in 0 .. IndexWord - 1 :
              /\ cache'[<<h, i>>] = cache[<<h, i>>]
              /\ <<h, i>> \in marked' <=> <<h, i>> \in marked
      <3> TAKE i \in 0 .. IndexWord - 1
      <3> DEFINE l == <<h, i>>
      <3>1. l \in Locator /\ l \notin Written(txs) /\ l[1] = h /\ h \notin HashesOf(txs)
        BY <1>1, <1>5, PlainFacts
      <3> HIDE DEF l
      <3>2. cache'[l] = cache[l]
        BY <3>1, UndoStepFacts
      <3>3. marked' = marked \ Written(txs)
        BY UndoStepFacts
      <3>4. l \in marked' <=> l \in marked
        BY <3>1, <3>3
      <3> QED
        BY <3>2, <3>4 DEF l
    <2>3. t \in StoredTxs' <=> t \in StoredTxs
      BY <1>4, <1>5, UndoStepFacts
    <2>4. CoinsOf(t)'
      BY <1>2, <2>1, <2>2, <2>3 DEF CoinsOf
    <2>5. RecordsOf(t)'
      BY <1>2, <2>1, <2>3 DEF RecordsOf
    <2>6. CoinsPresent(t)'
      BY <1>1, <1>2, <1>3, <2>2, <2>3, PlainFacts DEF CoinsPresent
    <2> QED
      BY <2>4, <2>5, <2>6
  <1>6. CASE t \in TxsIn(txs)
    <2>1. db'[h] = NoRecord
      BY <1>1, <1>3, <1>6, PlainFacts
    <2>2. ASSUME NEW i \in 0 .. IndexWord - 1
          PROVE  cache'[<<h, i>>] = NoCoin
      <3>1. <<h, i>> \in Locator /\ (<<h, i>> \in Written(txs) <=> i \in OutputIndexes(t))
        BY <1>1, <1>6, PlainFacts
      <3>2. cache[<<h, i>>] # NoCoin => i \in OutputIndexes(t)
        BY <1>2 DEF CoinsOf
      <3> QED
        BY <3>1, <3>2, UndoStepFacts
    <2>3. repeated \/ t \notin StoredTxs'
      <3> SUFFICES ASSUME ~repeated, t \in TxsOf(Without(stored, n))
                   PROVE  FALSE
        BY UndoStepFacts
      <3>1. Once(Self, stored)
        BY DEF DbInv, StoredOnce
      <3> QED
        BY <1>4, <1>6, <3>1
    <2>4. CoinsOf(t)'
      BY <2>2 DEF CoinsOf
    <2>5. RecordsOf(t)'
      BY <2>1 DEF RecordsOf
    <2>6. CoinsPresent(t)'
      BY <1>3, <2>3 DEF CoinsPresent
    <2> QED
      BY <2>4, <2>5, <2>6
  <1> QED
    BY <1>5, <1>6

LEMMA UndoSize ==
    ASSUME DbInv, NEW n \in DOMAIN stored, UndoStep(n)
    PROVE  (StoredOnce /\ CacheOfBlocks /\ CacheSizeExact)'
  <1> DEFINE txs == stored[n].txs
  <1>1. /\ txs \in Blocks /\ stored \in Seq(StoredBlock) /\ stored' = Without(stored, n)
        /\ Word \in Nat \ {0} /\ stored[n] \in StoredBlock
    BY UndoStepFacts, StoredFacts DEF DbInv
  <1>2. repeated' = repeated /\ clashed' = clashed
    BY DEF UndoStep
  <1>3. StoredOnce'
    <2> SUFFICES ASSUME ~repeated
                 PROVE  Once(Self, stored')
      BY <1>2 DEF StoredOnce, Once, Self
    <2> QED
      BY <1>1, OnceWithout DEF DbInv, StoredOnce
  <1>4. ASSUME ~clashed
        PROVE  /\ Once(TxHash, stored')
               /\ \A t \in TxsOf(stored') : Narrow(t)
               /\ Cached' = UNION { LocatorsOf(t) : t \in TxsOf(stored') }
               /\ cacheSize' = Cardinality(Cached') % Word
    <2>1. /\ Once(TxHash, stored)
          /\ \A t \in TxsOf(stored) : Narrow(t)
          /\ Cached = UNION { LocatorsOf(t) : t \in TxsOf(stored) }
          /\ cacheSize = Cardinality(Cached) % Word
      BY <1>4 DEF DbInv, CacheOfBlocks, CacheSizeExact
    <2>2. Once(TxHash, stored')
      BY <1>1, <2>1, OnceWithout
    <2>3. /\ TxsOf(stored') \subseteq TxsOf(stored)
          /\ TxsOf(stored) \subseteq TxsOf(stored') \cup TxsIn(txs)
          /\ \A t \in TxsOf(stored'), u \in TxsIn(txs) : TxHash[t] # TxHash[u]
      BY <1>1, <2>1, TxsOfWithout
    <2>4. Cached' = Cached \ Written(txs)
      BY UndoStepFacts
    <2>5. Cached' = UNION { LocatorsOf(t) : t \in TxsOf(stored') }
      BY <2>1, <2>3, <2>4, LocatorsByTx
    <2>6. TxsIn(txs) \subseteq TxsOf(stored)
      BY DEF TxsOf
    <2>7. Written(txs) \subseteq Cached
      BY <2>1, <2>6, LocatorsByTx
    <2>8. Cardinality(Written(txs)) = OutputCount(txs) /\ OutputCount(txs) \in Nat
      <3>1. \A k \in DOMAIN txs : Narrow(txs[k])
        BY <2>1, <2>6 DEF TxsIn
      <3>2. \A j, k \in DOMAIN txs : TxHash[txs[j]] = TxHash[txs[k]] => j = k
        BY <2>1 DEF Once
      <3> QED
        BY <1>1, <3>1, <3>2, WrittenCount, PairsFacts
    <2>9. /\ Cardinality(Cached') = Cardinality(Cached) - OutputCount(txs)
          /\ Cardinality(Cached) \in Nat
      <3>1. Cached \cap Written(txs) = Written(txs)
        BY <2>7
      <3>2. IsFiniteSet(Cached)
        BY DEF DbInv, FiniteParts
      <3> HIDE DEF txs
      <3>3. Cardinality(Cached \ Written(txs)) = Cardinality(Cached) - Cardinality(Cached \cap Written(txs))
        BY <3>2, FS_Difference
      <3> QED
        BY <2>4, <2>8, <3>1, <3>2, <3>3, FS_CardinalityType
    <2>10. cacheSize' = Cardinality(Cached') % Word
      <3>1. cacheSize' = (cacheSize - OutputCount(txs)) % Word
        BY DEF UndoStep, SizeWithout
      <3> DEFINE less == -OutputCount(txs)
                 x == Cardinality(Cached)
      <3>2. less \in Int /\ x \in Int
        BY <2>8, <2>9
      <3>3. (x % Word) \in Int
        BY <1>1, <3>2, RemainderFacts
      <3>4. ((x % Word) + less) % Word = (x + less) % Word
        BY <1>1, <3>2, RemainderSum
      <3>5. cacheSize - OutputCount(txs) = (x % Word) + less
        BY <2>1, <2>8, <3>3
      <3>6. Cardinality(Cached') = x + less
        BY <2>8, <2>9
      <3> QED
        BY <3>1, <3>4, <3>5, <3>6
    <2> QED
      BY <2>1, <2>2, <2>3, <2>5, <2>10
  <1>5. CacheOfBlocks' /\ CacheSizeExact'
    BY <1>2, <1>4 DEF CacheOfBlocks, CacheSizeExact, Once, TxsOf, TxsIn, Narrow, LocatorsOf, OutputIndexes, LocatorOf
  <1> QED
    BY <1>3, <1>5

LEMMA UndoKeeps ==
    ASSUME DbInv, NEW n \in DOMAIN stored, UndoStep(n), status = "running"
    PROVE  DbInv'
  <1>1. IteratorCached'
    BY DEF UndoStep, IteratorCached
  <1> QED
    BY <1>1, UndoType, UndoCoinsSound, UndoSize DEF DbInv

----------------------------------------------------------------------------
(* The other steps. *)

\* The part of the invariant that is about coins and stored blocks keeps when
\* they do.
LEMMA CoinsKept ==
    ASSUME DbInv, UNCHANGED <<db, cache, history>>
    PROVE  (CoinsSound /\ StoredOnce /\ CacheOfBlocks)' /\ Cached' = Cached
  <1>1. UNCHANGED <<db, cache, stored, marked, repeated, clashed>>
    BY DEF history
  <1>2. Cached' = Cached /\ StoredTxs' = StoredTxs
    BY <1>1 DEF Cached, StoredTxs
  <1>3. CoinsSound'
    <2>1. ASSUME NEW t \in Tx, CoinsOf(t) /\ RecordsOf(t) /\ CoinsPresent(t)
          PROVE  (CoinsOf(t) /\ RecordsOf(t) /\ CoinsPresent(t))'
      BY <1>1, <1>2, <2>1 DEF CoinsOf, RecordsOf, CoinsPresent, OutputIndexes, Amount
    <2> QED
      BY <2>1 DEF DbInv, CoinsSound, Plain, Alone, Narrow
  <1>4. StoredOnce'
    BY <1>1 DEF DbInv, StoredOnce, Once, Self
  <1>5. CacheOfBlocks'
    BY <1>1, <1>2 DEF DbInv, CacheOfBlocks, Once, TxsOf, TxsIn, Narrow, LocatorsOf, OutputIndexes, LocatorOf
  <1> QED
    BY <1>2, <1>3, <1>4, <1>5

\* The steps that change no coin, and a size only when the cache is empty.
LEMMA QuietKeeps ==
    ASSUME DbInv, EnterFlush \/ ClearSize \/ Crash \/ UNCHANGED vars
    PROVE  DbInv'
  <1>1. /\ UNCHANGED <<db, cache, history>> /\ UNCHANGED <<mempool, mempoolSize>>
        /\ UNCHANGED <<db, cache, stored, marked, repeated, clashed>>
    BY DEF EnterFlush, ClearSize, Crash, vars, coinVars, history, mempoolVars
  <1>2. /\ status' \in {"running", "flushing", "crashed"}
        /\ iterator' \in Locator \cup {NoCoin}
        /\ IteratorCached'
    <2>1. Cached' = Cached /\ Cached \subseteq Locator
      BY <1>1 DEF Cached
    <2>2. status \in {"running", "flushing", "crashed"} /\ iterator \in Locator \cup {NoCoin}
          /\ (status = "flushing" => iterator \in Cached)
      BY DEF DbInv, TypeOK, IteratorCached
    <2>3. CASE EnterFlush
      BY <2>1, <2>3 DEF EnterFlush, IteratorCached
    <2>4. CASE Crash
      BY <2>1, <2>2, <2>4 DEF Crash, IteratorCached
    <2>5. CASE ClearSize \/ UNCHANGED vars
      <3>1. UNCHANGED <<status, iterator>>
        BY <2>5 DEF ClearSize, vars
      <3> QED
        BY <2>1, <2>2, <3>1 DEF IteratorCached
    <2> QED
      BY <2>3, <2>4, <2>5
  <1>3. cacheSize' \in 0 .. Word - 1 /\ CacheSizeExact'
    <2>1. Cached' = Cached /\ clashed' = clashed
      BY <1>1 DEF Cached
    <2>2. CASE ClearSize
      <3>1. Word \in Nat \ {0} /\ 0 \in 0 .. Word - 1
        BY SizeAssumption
      <3>2. 0 % Word = 0
        BY <3>1, RemainderFacts
      <3>3. Cardinality(Cached') = 0
        BY <2>1, <2>2, FS_EmptySet DEF ClearSize
      <3> QED
        BY <2>2, <3>1, <3>2, <3>3 DEF ClearSize, CacheSizeExact
    <2>3. CASE EnterFlush \/ Crash \/ UNCHANGED vars
      <3>1. cacheSize' = cacheSize
        BY <2>3 DEF EnterFlush, Crash, vars, coinVars
      <3> QED
        BY <2>1, <3>1 DEF DbInv, TypeOK, CacheSizeExact
    <2> QED
      BY <2>2, <2>3
  <1>4. TypeOK'
    BY <1>1, <1>2, <1>3 DEF DbInv, TypeOK, IsRecord
  <1>5. FiniteParts' /\ MempoolBounded'
    BY <1>1, CoinsKept DEF DbInv, FiniteParts, MempoolBounded
  <1> QED
    BY <1>1, <1>2, <1>3, <1>4, <1>5, CoinsKept DEF DbInv

\* Storing a transaction keeps the mempool in its bound: it replaces one with
\* its hash, or there was room for it.
LEMMA StoreTransactionKeeps ==
    ASSUME DbInv, NEW t \in Tx, StoreTransaction(t)
    PROVE  DbInv'
  <1>1. /\ UNCHANGED <<db, cache, history>> /\ UNCHANGED <<cacheSize, status, iterator>>
        /\ UNCHANGED <<db, cache, stored, marked, repeated, clashed>>
    BY DEF StoreTransaction, coinVars, history
  <1>2. mempoolSize' \in 0 .. Word - 1
    <2>1. mempoolSize + 1 \in Int /\ mempoolSize + 2 \in Int /\ Word \in Nat \ {0}
      BY SizeAssumption DEF DbInv, TypeOK
    <2>2. (mempoolSize + 1) % Word \in 0 .. Word - 1 /\ (mempoolSize + 2) % Word \in 0 .. Word - 1
      BY <2>1, RemainderFacts
    <2> QED
      BY <2>2 DEF StoreTransaction, Grown
  <1>3. mempool \subseteq Tx /\ IsFiniteSet(mempool) /\ MempoolBounded
    BY DEF DbInv, TypeOK, FiniteParts
  <1>4. mempool' \subseteq Tx /\ IsFiniteSet(mempool') /\ MempoolBounded'
    <2>1. CASE HasRoom
      <3> DEFINE others == { u \in mempool : TxHash[u] # TxHash[t] }
      <3>1. mempool' = others \cup {t}
        BY <2>1 DEF StoreTransaction
      <3>2. IsFiniteSet(others) /\ Cardinality(others) <= Cardinality(mempool)
            /\ Cardinality(others) \in Nat /\ Cardinality(mempool) \in Nat
        <4>1. others \in SUBSET mempool
          OBVIOUS
        <4> HIDE DEF others
        <4> QED
          BY <1>3, <4>1, FS_Subset, FS_CardinalityType
      <3>3. IsFiniteSet(others \cup {t}) /\ Cardinality(others \cup {t}) <= Cardinality(others) + 1
            /\ Cardinality(others \cup {t}) \in Nat
        <4> HIDE DEF others
        <4>1. /\ IsFiniteSet(others \cup {t})
              /\ Cardinality(others \cup {t}) =
                     IF t \in others THEN Cardinality(others) ELSE Cardinality(others) + 1
          BY <1>3, <3>2, FS_AddElement, FS_Subset
        <4> QED
          BY <3>2, <4>1
      <3>4. Cardinality(mempool) < MempoolCapacity /\ MempoolCapacity \in Nat
        BY <2>1, SizeAssumption DEF HasRoom
      <3>5. \A u, v \in mempool' : TxHash[u] = TxHash[v] => u = v
        BY <1>3, <3>1 DEF MempoolBounded
      <3>6. Cardinality(mempool') <= MempoolCapacity
        <4> HIDE DEF others
        <4> QED
          BY <3>1, <3>2, <3>3, <3>4
      <3>7. mempool' \subseteq Tx /\ IsFiniteSet(mempool')
        BY <1>3, <3>1, <3>3
      <3> QED
        BY <3>5, <3>6, <3>7 DEF MempoolBounded
    <2>2. CASE ~HasRoom
      <3>1. mempool' = mempool
        BY <2>2 DEF StoreTransaction
      <3> QED
        BY <1>3, <3>1 DEF MempoolBounded
    <2> QED
      BY <2>1, <2>2
  <1>5. TypeOK'
    BY <1>1, <1>2, <1>4 DEF DbInv, TypeOK, IsRecord
  <1>6. FiniteParts' /\ IteratorCached' /\ CacheSizeExact'
    BY <1>1, <1>4, CoinsKept DEF DbInv, FiniteParts, IteratorCached, CacheSizeExact
  <1> QED
    BY <1>1, <1>4, <1>5, <1>6, CoinsKept DEF DbInv

LEMMA SpentCoin ==
    ASSUME NEW coin \in Coin
    PROVE  LET after == [coin EXCEPT !.spent = TRUE]
           IN  /\ after \in Coin /\ after # NoCoin
               /\ after.amount = coin.amount /\ after.spent = TRUE
  BY AbsentAssumption DEF Coin

\* Marking a coin spent changes that coin only, and marks its locator.
LEMMA QuickCacheRemoveKeeps ==
    ASSUME DbInv, NEW l \in Locator, QuickCacheRemove(l)
    PROVE  DbInv'
  <1> DEFINE spent == [cache[l] EXCEPT !.spent = TRUE]
  <1>1. /\ cache[l] # NoCoin /\ marked' = marked \cup {l}
        /\ UNCHANGED <<db, cacheSize, mempool, mempoolSize, status, iterator, stored, repeated, clashed>>
    BY DEF QuickCacheRemove, mempoolVars
  <1>2. cache \in [Locator -> Coin \cup {NoCoin}] /\ cache[l] \in Coin
    BY <1>1 DEF DbInv, TypeOK
  <1>3. cache' = [cache EXCEPT ![l] = spent]
    BY DEF QuickCacheRemove
  <1>4. spent \in Coin /\ spent # NoCoin /\ spent.amount = cache[l].amount /\ spent.spent = TRUE
    BY <1>2, SpentCoin
  <1> HIDE DEF spent
  <1>5. /\ cache' \in [Locator -> Coin \cup {NoCoin}]
        /\ cache'[l] = spent
        /\ \A m \in Locator : m # l => cache'[m] = cache[m]
    BY <1>2, <1>3, <1>4
  <1>6. Cached' = Cached
    BY <1>1, <1>4, <1>5 DEF Cached
  <1>7. TypeOK' /\ FiniteParts' /\ MempoolBounded' /\ IteratorCached' /\ CacheSizeExact'
    BY <1>1, <1>5, <1>6 DEF DbInv, TypeOK, FiniteParts, MempoolBounded, IteratorCached, CacheSizeExact, IsRecord
  <1>8. StoredOnce' /\ CacheOfBlocks'
    BY <1>1, <1>6 DEF DbInv, StoredOnce, Self, CacheOfBlocks, Once, TxsOf, TxsIn, Narrow,
                      LocatorsOf, OutputIndexes, LocatorOf
  <1>9. CoinsSound'
    <2> SUFFICES ASSUME NEW t \in Tx, Plain(t)
                 PROVE  (CoinsOf(t) /\ RecordsOf(t) /\ CoinsPresent(t))'
      BY DEF CoinsSound, Plain, Alone, Narrow
    <2>1. CoinsOf(t) /\ RecordsOf(t) /\ CoinsPresent(t)
      BY DEF DbInv, CoinsSound
    <2>2. StoredTxs' = StoredTxs
      BY <1>1 DEF StoredTxs
    <2>3. \A i \in 0 .. IndexWord - 1 : <<TxHash[t], i>> \in Locator
      BY TxFacts DEF Locator
    <2>4. CoinsOf(t)'
      <3> SUFFICES ASSUME NEW i \in 0 .. IndexWord - 1, cache'[<<TxHash[t], i>>] # NoCoin
                   PROVE  /\ t \in StoredTxs /\ i \in OutputIndexes(t)
                          /\ cache'[<<TxHash[t], i>>].amount = Amount(t, i)
                          /\ cache'[<<TxHash[t], i>>].spent <=> <<TxHash[t], i>> \in marked'
                          /\ ~cache'[<<TxHash[t], i>>].spent =>
                                 db[TxHash[t]] # NoRecord /\ i \in DOMAIN db[TxHash[t]]
        BY <1>1, <2>2 DEF CoinsOf, OutputIndexes, Amount
      <3> DEFINE m == <<TxHash[t], i>>
      <3>1. m \in Locator
        BY <2>3
      <3>2. CASE m = l
        <4>1. cache[m] # NoCoin /\ cache'[m] = spent /\ m \in marked'
          BY <1>1, <1>5, <3>2
        <4>2. t \in StoredTxs /\ i \in OutputIndexes(t) /\ cache[m].amount = Amount(t, i)
          BY <2>1, <4>1 DEF CoinsOf
        <4> QED
          BY <1>4, <3>2, <4>1, <4>2
      <3>3. CASE m # l
        <4>1. cache'[m] = cache[m] /\ (m \in marked' <=> m \in marked)
          BY <1>1, <1>5, <3>1, <3>3
        <4> QED
          BY <2>1, <4>1 DEF CoinsOf
      <3> QED
        BY <3>2, <3>3
    <2>5. RecordsOf(t)'
      BY <1>1, <2>1, <2>2 DEF RecordsOf, OutputIndexes, Amount
    <2>6. CoinsPresent(t)'
      <3>1. \A i \in OutputIndexes(t) : <<TxHash[t], i>> \in Locator
        BY <2>3, TxFacts, SizeAssumption DEF Plain, Narrow
      <3>2. \A m \in Locator : cache[m] # NoCoin => cache'[m] # NoCoin
        BY <1>4, <1>5
      <3> QED
        BY <1>1, <2>1, <2>2, <3>1, <3>2 DEF CoinsPresent, OutputIndexes
    <2> QED
      BY <2>4, <2>5, <2>6
  <1> QED
    BY <1>7, <1>8, <1>9 DEF DbInv

\* A turn of the loop of a flush takes at most a spent coin out of its record.
LEMMA FlushStepKeeps ==
    ASSUME DbInv, FlushStep
    PROVE  DbInv'
  <1> DEFINE h == iterator[1]
             record == db[h]
             kept == DOMAIN record \ {iterator[2]}
             less == [i \in kept |-> record[i]]
  <1>1. UNCHANGED <<cache, cacheSize, mempool, mempoolSize, status, iterator, stored, marked,
                    repeated, clashed>>
    BY DEF FlushStep, mempoolVars, history
  <1>2. iterator \in Cached /\ iterator \in Locator /\ cache[iterator] # NoCoin
    BY DEF FlushStep, DbInv, IteratorCached, Cached
  <1>3. h \in Hash /\ iterator = <<h, iterator[2]>>
    BY <1>2 DEF Locator
  <1>4. \/ db' = db
        \/ /\ cache[iterator].spent /\ record # NoRecord
           /\ db' = [db EXCEPT ![h] = less]
    BY DEF FlushStep
  <1>5. /\ db = [g \in Hash |-> db[g]]
        /\ \A g \in Hash : db[g] = NoRecord \/ IsRecord(db[g])
    BY DEF DbInv, TypeOK
  <1>6. record # NoRecord => IsRecord(less) /\ DOMAIN less = kept /\ \A i \in kept : less[i] = record[i]
    BY <1>3, <1>5 DEF IsRecord
  <1> HIDE DEF less, kept
  <1>7. /\ db' = [g \in Hash |-> db'[g]]
        /\ \A g \in Hash : db'[g] = NoRecord \/ IsRecord(db'[g])
    BY <1>3, <1>4, <1>5, <1>6
  <1>8. TypeOK'
    BY <1>1, <1>7 DEF DbInv, TypeOK
  <1>9. Cached' = Cached
    BY <1>1 DEF Cached
  <1>10. FiniteParts' /\ MempoolBounded' /\ IteratorCached' /\ CacheSizeExact'
    BY <1>1, <1>9 DEF DbInv, FiniteParts, MempoolBounded, IteratorCached, CacheSizeExact
  <1>11. StoredOnce' /\ CacheOfBlocks'
    BY <1>1, <1>9 DEF DbInv, StoredOnce, Self, CacheOfBlocks, Once, TxsOf, TxsIn, Narrow,
                      LocatorsOf, OutputIndexes, LocatorOf
  <1>12. CoinsSound'
    <2> SUFFICES ASSUME NEW t \in Tx, Plain(t)
                 PROVE  (CoinsOf(t) /\ RecordsOf(t) /\ CoinsPresent(t))'
      BY DEF CoinsSound, Plain, Alone, Narrow
    <2>1. CoinsOf(t) /\ RecordsOf(t) /\ CoinsPresent(t)
      BY DEF DbInv, CoinsSound
    <2>2. StoredTxs' = StoredTxs /\ TxHash[t] \in Hash
      BY <1>1, TxFacts DEF StoredTxs
    <2>3. CoinsPresent(t)'
      BY <1>1, <2>1, <2>2 DEF CoinsPresent, OutputIndexes
    <2>4. CASE db'[TxHash[t]] = db[TxHash[t]]
      <3>1. CoinsOf(t)'
        BY <1>1, <2>1, <2>2, <2>4 DEF CoinsOf, OutputIndexes, Amount
      <3>2. RecordsOf(t)'
        BY <1>1, <2>1, <2>2, <2>4 DEF RecordsOf, OutputIndexes, Amount
      <3> QED
        BY <2>3, <3>1, <3>2
    <2>5. CASE db'[TxHash[t]] # db[TxHash[t]]
      <3>1. /\ TxHash[t] = h /\ cache[iterator].spent /\ record # NoRecord
            /\ db'[h] = less
        BY <1>3, <1>4, <1>5, <2>2, <2>5
      <3>2. /\ t \in StoredTxs
            /\ \A i \in DOMAIN record : i \in OutputIndexes(t) /\ record[i] = Amount(t, i)
        BY <2>1, <3>1 DEF RecordsOf
      <3>3. DOMAIN less = kept /\ \A i \in kept : less[i] = record[i]
        BY <1>6, <3>1
      <3>4. kept \subseteq DOMAIN record /\ \A i \in DOMAIN record : i # iterator[2] => i \in kept
        BY DEF kept
      <3>5. less # NoRecord
        <4>1. kept \in SUBSET (0 .. Len(Outputs[t]) - 1)
          BY <3>2, <3>4, TxFacts
        <4>2. less \in [kept -> Nat]
          <5>1. \A i \in kept : less[i] \in Nat
            BY <3>2, <3>3, <3>4, TxFacts
          <5>2. less = [i \in kept |-> record[i]]
            BY DEF less
          <5> QED
            BY <3>3, <5>1, <5>2
        <4> QED
          BY <4>1, <4>2, AbsentAssumption
      <3>6. RecordsOf(t)'
        BY <2>2, <3>1, <3>2, <3>3, <3>4 DEF RecordsOf, OutputIndexes, Amount
      <3>7. CoinsOf(t)'
        <4> SUFFICES ASSUME NEW i \in 0 .. IndexWord - 1, cache[<<h, i>>] # NoCoin
                     PROVE  /\ t \in StoredTxs /\ i \in OutputIndexes(t)
                            /\ cache[<<h, i>>].amount = Amount(t, i)
                            /\ cache[<<h, i>>].spent <=> <<h, i>> \in marked
                            /\ ~cache[<<h, i>>].spent => db'[h] # NoRecord /\ i \in DOMAIN db'[h]
          BY <1>1, <2>2, <3>1 DEF CoinsOf, OutputIndexes, Amount
        <4>1. /\ t \in StoredTxs /\ i \in OutputIndexes(t)
              /\ cache[<<h, i>>].amount = Amount(t, i)
              /\ cache[<<h, i>>].spent <=> <<h, i>> \in marked
              /\ ~cache[<<h, i>>].spent => i \in DOMAIN record
          BY <2>1, <3>1 DEF CoinsOf
        <4>2. ~cache[<<h, i>>].spent => i # iterator[2]
          BY <1>3, <3>1
        <4> QED
          BY <3>1, <3>3, <3>4, <3>5, <4>1, <4>2
      <3> QED
        BY <2>3, <3>6, <3>7
    <2> QED
      BY <2>4, <2>5
  <1> QED
    BY <1>8, <1>10, <1>11, <1>12 DEF DbInv

----------------------------------------------------------------------------
(* The theorems. *)

LEMMA DbInvInit == Init => DbInv
  <1> SUFFICES ASSUME Init
               PROVE  DbInv
    OBVIOUS
  <1>1. /\ db = [h \in Hash |-> NoRecord] /\ cache = [l \in Locator |-> NoCoin]
        /\ cacheSize = 0 /\ mempool = {} /\ mempoolSize = 0 /\ status = "running"
        /\ iterator = NoCoin /\ stored = <<>> /\ marked = {}
        /\ repeated = FALSE /\ clashed = FALSE
    BY DEF Init, EmptyDb, EmptyCache
  <1>2. Cached = {} /\ TxsOf(stored) = {}
    BY <1>1 DEF Cached, TxsOf
  <1>3. Word \in Nat \ {0} /\ 0 \in 0 .. Word - 1 /\ 0 % Word = 0
    BY SizeAssumption, RemainderFacts
  <1>4. TypeOK
    <2>1. /\ db = [h \in Hash |-> db[h]] /\ \A h \in Hash : db[h] = NoRecord
          /\ cache \in [Locator -> Coin \cup {NoCoin}]
      BY <1>1
    <2>2. stored \in Seq([txs : Blocks, undo : Seq(Seq(Nat))])
      BY <1>1
    <2> QED
      BY <1>1, <1>3, <2>1, <2>2 DEF TypeOK
  <1>5. FiniteParts /\ MempoolBounded /\ CacheSizeExact
    BY <1>1, <1>2, <1>3, FS_EmptySet, SizeAssumption DEF FiniteParts, MempoolBounded, CacheSizeExact
  <1>6. IteratorCached /\ StoredOnce /\ CacheOfBlocks
    BY <1>1, <1>2 DEF IteratorCached, StoredOnce, CacheOfBlocks, Once
  <1>7. CoinsSound
    <2> SUFFICES ASSUME NEW t \in Tx, Plain(t)
                 PROVE  CoinsOf(t) /\ RecordsOf(t) /\ CoinsPresent(t)
      BY DEF CoinsSound
    <2>1. TxHash[t] \in Hash /\ \A i \in 0 .. IndexWord - 1 : <<TxHash[t], i>> \in Locator
      BY TxFacts DEF Locator
    <2>2. t \notin StoredTxs
      BY <1>1 DEF StoredTxs
    <2> QED
      BY <1>1, <2>1, <2>2 DEF CoinsOf, RecordsOf, CoinsPresent
  <1> QED
    BY <1>4, <1>5, <1>6, <1>7 DEF DbInv

\* A database in which one block was stored without validation, that of the
\* constructor of Chain.
LEMMA InitWithFacts ==
    ASSUME NEW txs \in Blocks, InitWith(txs)
    PROVE  /\ TypeOK /\ stored \in Seq(StoredBlock) /\ Cached = Written(txs)
           /\ TxsOf(stored) = TxsIn(txs)
           /\ \E e \in StoredBlock : e.txs = txs /\ stored = Append(<<>>, e)
  <1> DEFINE e == [txs |-> txs, undo |-> UndoAmounts(EmptyDb, EmptyCache, txs)]
  <1>1. /\ db = DbWith(EmptyDb, txs) /\ cache = CacheWith(EmptyCache, txs)
        /\ cacheSize = OutputCount(txs) % Word
        /\ mempool = {} /\ mempoolSize = 0 /\ status = "running" /\ iterator = NoCoin
        /\ stored = <<e>> /\ marked = {}
        /\ repeated = Repeats({}, txs) /\ clashed = Clashes({}, txs)
    BY DEF InitWith
  <1>2. /\ \A h \in Hash : EmptyDb[h] = NoRecord
        /\ \A l \in Locator : EmptyCache[l] = NoCoin
        /\ EmptyCache \in [Locator -> Coin \cup {NoCoin}]
    BY DEF EmptyDb, EmptyCache
  <1>3. /\ \A h \in Hash : db[h] = NoRecord \/ IsRecord(db[h])
        /\ cache \in [Locator -> Coin \cup {NoCoin}]
        /\ UndoAmounts(EmptyDb, EmptyCache, txs) \in Seq(Seq(Nat))
    BY <1>1, <1>2, WriteTypes
  <1>4. e \in StoredBlock /\ e.txs = txs
    BY <1>3 DEF StoredBlock
  <1> HIDE DEF e
  <1>5. /\ <<>> \in Seq(StoredBlock) /\ <<e>> = Append(<<>>, e) /\ TxsOf(<<>>) = {}
        /\ <<e>> \in Seq(StoredBlock)
    BY <1>4 DEF TxsOf
  <1>6. TxsOf(stored) = TxsIn(txs)
    <2>1. TxsOf(Append(<<>>, e)) = TxsOf(<<>>) \cup TxsIn(e.txs)
      BY <1>4, <1>5, TxsOfAppend
    <2> QED
      BY <1>1, <1>4, <1>5, <2>1
  <1>7. ASSUME NEW l \in Locator
        PROVE  cache[l] # NoCoin <=> l \in Written(txs)
    BY <1>1, <1>2, CoinWritten, CoinKept
  <1>8. Cached = Written(txs)
    BY <1>7, WrittenFacts DEF Cached
  <1>9. cacheSize \in 0 .. Word - 1 /\ 0 \in 0 .. Word - 1
    <2> DEFINE x == OutputCount(txs)
    <2>1. x \in Int /\ Word \in Nat \ {0} /\ cacheSize = x % Word
      BY <1>1, PairsFacts, SizeAssumption
    <2> HIDE DEF x
    <2>2. x % Word \in 0 .. Word - 1
      BY <2>1, RemainderFacts
    <2>3. 0 \in 0 .. Word - 1
      BY <2>1
    <2> QED
      BY <2>1, <2>2, <2>3
  <1>10. db = [h \in Hash |-> db[h]]
    BY <1>1 DEF DbWith
  <1>11. repeated \in BOOLEAN /\ clashed \in BOOLEAN
    BY <1>1 DEF Repeats, Clashes
  <1>12. TypeOK
    BY <1>1, <1>3, <1>5, <1>9, <1>10, <1>11 DEF TypeOK, StoredBlock
  <1> QED
    BY <1>1, <1>4, <1>5, <1>6, <1>8, <1>12

LEMMA InitWithCoins ==
    ASSUME NEW txs \in Blocks, InitWith(txs)
    PROVE  CoinsSound
  <1> SUFFICES ASSUME NEW t \in Tx, Plain(t)
               PROVE  CoinsOf(t) /\ RecordsOf(t) /\ CoinsPresent(t)
    BY DEF CoinsSound
  <1> DEFINE h == TxHash[t]
  <1>1. /\ db = DbWith(EmptyDb, txs) /\ cache = CacheWith(EmptyCache, txs) /\ marked = {}
    BY DEF InitWith
  <1>2. StoredTxs = TxsIn(txs)
    BY InitWithFacts, StoredFacts
  <1>3. h \in Hash
    BY TxFacts
  <1>4. \A i \in 0 .. IndexWord - 1 : <<h, i>> \in Locator
    BY PlainFacts
  <1>5. ASSUME NEW i \in 0 .. IndexWord - 1
        PROVE  cache[<<h, i>>] # NoCoin <=> t \in TxsIn(txs) /\ i \in OutputIndexes(t)
    <2>1. <<h, i>> \in Cached <=> <<h, i>> \in Written(txs)
      BY InitWithFacts
    <2> QED
      BY <1>4, <2>1, PlainFacts DEF Cached
  <1>6. ASSUME NEW i \in 0 .. IndexWord - 1, t \in TxsIn(txs), i \in OutputIndexes(t)
        PROVE  cache[<<h, i>>].amount = Amount(t, i) /\ cache[<<h, i>>].spent = FALSE
    <2>1. <<h, i>> \in Locator /\ <<h, i>> \in Written(txs)
      BY <1>6, PlainFacts
    <2>2. PICK k \in DOMAIN txs : \E j \in OutputIndexes(txs[k]) :
              /\ <<h, i>> = LocatorOf(TxHash[txs[k]], j)
              /\ cache[<<h, i>>] = [amount |-> Amount(txs[k], j), spent |-> FALSE]
      BY <1>1, <2>1, CacheWithFacts
    <2>3. PICK j \in OutputIndexes(txs[k]) :
              /\ <<h, i>> = LocatorOf(TxHash[txs[k]], j)
              /\ cache[<<h, i>>] = [amount |-> Amount(txs[k], j), spent |-> FALSE]
      BY <2>2
    <2>4. txs[k] = t
      BY <2>3, PlainFacts DEF LocatorOf
    <2>5. j = i
      BY <2>3, <2>4, PlainFacts
    <2>6. cache[<<h, i>>] = [amount |-> Amount(t, i), spent |-> FALSE]
      BY <2>3, <2>4, <2>5
    <2> QED
      BY <2>6
  <1>7. CASE t \in TxsIn(txs)
    <2>1. db[h] = RecordOf(t)
      <3>1. PICK k \in DOMAIN txs : TxHash[txs[k]] = h /\ db[h] = RecordOf(txs[k])
        BY <1>1, <1>3, <1>7, PlainFacts, DbWithFacts
      <3> QED
        BY <3>1, PlainFacts
    <2>2. db[h] # NoRecord
      <3>1. RecordOf(t) \in [0 .. Len(Outputs[t]) - 1 -> Nat]
        BY TxFacts DEF RecordOf
      <3> QED
        BY <2>1, <3>1, AbsentAssumption
    <2>3. DOMAIN db[h] = OutputIndexes(t) /\ \A i \in OutputIndexes(t) : db[h][i] = Amount(t, i)
      BY <2>1 DEF RecordOf
    <2>4. CoinsOf(t)
      BY <1>1, <1>2, <1>5, <1>6, <1>7, <2>2, <2>3 DEF CoinsOf
    <2>5. RecordsOf(t)
      BY <1>2, <1>7, <2>3 DEF RecordsOf
    <2>6. CoinsPresent(t)
      BY <1>5, <1>7, PlainFacts DEF CoinsPresent
    <2> QED
      BY <2>4, <2>5, <2>6
  <1>8. CASE t \notin TxsIn(txs)
    <2>1. db[h] = NoRecord
      BY <1>1, <1>3, <1>8, PlainFacts, DbWithFacts DEF EmptyDb
    <2> QED
      BY <1>2, <1>5, <1>8, <2>1 DEF CoinsOf, RecordsOf, CoinsPresent
  <1> QED
    BY <1>7, <1>8

LEMMA InitWithOnce ==
    ASSUME NEW txs \in Blocks, InitWith(txs), NEW key,
           \A j, k \in DOMAIN txs : key[txs[j]] = key[txs[k]] => j = k
    PROVE  Once(key, stored)
  <1>1. PICK e \in StoredBlock : e.txs = txs /\ stored = Append(<<>>, e)
    BY InitWithFacts
  <1>2. <<>> \in Seq(StoredBlock) /\ Once(key, <<>>) /\ TxsOf(<<>>) = {}
    BY DEF Once, TxsOf
  <1> QED
    BY <1>1, <1>2, OnceAppend

LEMMA InitWithInv ==
    ASSUME NEW txs \in Blocks, InitWith(txs)
    PROVE  DbInv
  <1>1. /\ mempool = {} /\ status = "running" /\ cacheSize = OutputCount(txs) % Word
        /\ repeated = Repeats({}, txs) /\ clashed = Clashes({}, txs)
    BY DEF InitWith
  <1>2. ASSUME NEW key, NEW j \in DOMAIN txs, NEW k \in DOMAIN txs, key[txs[j]] = key[txs[k]],
               \A n \in DOMAIN txs : \A m \in 1 .. n - 1 : key[txs[m]] # key[txs[n]]
        PROVE  j = k
    <2>1. j \in Nat /\ k \in Nat /\ j \in 1 .. Len(txs) /\ k \in 1 .. Len(txs)
      BY BlockFacts
    <2>2. ~(j \in 1 .. k - 1) /\ ~(k \in 1 .. j - 1)
      BY <1>2
    <2> QED
      BY <2>1, <2>2
  <1>3. FiniteParts /\ MempoolBounded /\ IteratorCached
    <2>1. IsFiniteSet(Cached)
      BY InitWithFacts, WrittenCount
    <2> QED
      BY <1>1, <2>1, FS_EmptySet, SizeAssumption DEF FiniteParts, MempoolBounded, IteratorCached
  <1>4. StoredOnce
    <2> SUFFICES ASSUME ~repeated PROVE Once(Self, stored)
      BY DEF StoredOnce
    <2>1. \A n \in DOMAIN txs : txs[n] \in Tx /\ Self[txs[n]] = txs[n]
      BY BlockFacts DEF Self
    <2>2. \A n \in DOMAIN txs : \A m \in 1 .. n - 1 : txs[m] # txs[n]
      BY <1>1 DEF Repeats
    <2>3. \A n \in DOMAIN txs : \A m \in 1 .. n - 1 : m \in DOMAIN txs
      BY BlockFacts
    <2>4. \A j, k \in DOMAIN txs : Self[txs[j]] = Self[txs[k]] => j = k
      BY <1>2, <2>1, <2>2, <2>3
    <2> QED
      BY <2>4, InitWithOnce
  <1>5. CacheOfBlocks /\ CacheSizeExact
    <2> SUFFICES ASSUME ~clashed
                 PROVE  /\ Once(TxHash, stored)
                        /\ \A t \in TxsOf(stored) : Narrow(t)
                        /\ Cached = UNION { LocatorsOf(t) : t \in TxsOf(stored) }
                        /\ cacheSize = Cardinality(Cached) % Word
      BY DEF CacheOfBlocks, CacheSizeExact
    <2>1. \A k \in DOMAIN txs : Narrow(txs[k]) /\ \A j \in 1 .. k - 1 : TxHash[txs[j]] # TxHash[txs[k]]
      BY <1>1 DEF Clashes
    <2>2. \A j, k \in DOMAIN txs : TxHash[txs[j]] = TxHash[txs[k]] => j = k
      BY <1>2, <2>1
    <2>3. Once(TxHash, stored)
      BY <2>2, InitWithOnce
    <2>4. \A t \in TxsOf(stored) : Narrow(t)
      BY <2>1, InitWithFacts DEF TxsIn
    <2>5. Cached = UNION { LocatorsOf(t) : t \in TxsOf(stored) }
      BY InitWithFacts, LocatorsByTx
    <2>6. cacheSize = Cardinality(Cached) % Word
      BY <1>1, <2>1, <2>2, WrittenCount, InitWithFacts
    <2> QED
      BY <2>3, <2>4, <2>5, <2>6
  <1> QED
    BY <1>3, <1>4, <1>5, InitWithFacts, InitWithCoins DEF DbInv

LEMMA DbInvStep == DbInv /\ [Next]_vars => DbInv'
  <1> SUFFICES ASSUME DbInv, [Next]_vars
               PROVE  DbInv'
    OBVIOUS
  <1>1. CASE \E txs \in Blocks : \E size \in {0, cacheSize} : status = "running" /\ StoreStep(txs, size)
    BY <1>1, StoreKeeps
  <1>2. CASE EnterFlush \/ ClearSize \/ Crash \/ UNCHANGED vars
    BY <1>2, QuietKeeps
  <1>3. CASE \E t \in Tx : StoreTransaction(t)
    BY <1>3, StoreTransactionKeeps
  <1>4. CASE \E l \in Locator : QuickCacheRemove(l)
    BY <1>4, QuickCacheRemoveKeeps
  <1>5. CASE \E n \in DOMAIN stored : status = "running" /\ UndoStep(n)
    BY <1>5, UndoKeeps
  <1>6. CASE FlushStep
    BY <1>6, FlushStepKeeps
  <1> QED
    BY <1>1, <1>2, <1>3, <1>4, <1>5, <1>6, StepCases

LEMMA DbInvCorrect == Spec => []DbInv
  BY DbInvInit, DbInvStep, PTL DEF Spec

\* What the invariant says of the worth of a coin.
LEMMA CacheBackedFact == DbInv => CacheBacked
  <1> SUFFICES ASSUME DbInv, NEW t \in Tx, NEW i \in OutputIndexes(t), Plain(t),
                      cache[LocatorOf(TxHash[t], i)] # NoCoin
               PROVE  LET coin   == cache[LocatorOf(TxHash[t], i)]
                          record == db[TxHash[t]]
                      IN  /\ coin.amount = Amount(t, i)
                          /\ ~coin.spent => /\ record # NoRecord
                                            /\ i \in DOMAIN record
                                            /\ record[i] = Amount(t, i)
    BY DEF CacheBacked
  <1>1. LocatorOf(TxHash[t], i) = <<TxHash[t], i>> /\ i \in 0 .. IndexWord - 1
    <2>1. /\ TxHash[t] \in Hash /\ IndexWord \in Nat /\ i \in Nat
          /\ OutputIndexes(t) = 0 .. Len(Outputs[t]) - 1 /\ Len(Outputs[t]) \in Nat
      BY TxFacts, SizeAssumption
    <2>2. i < IndexWord
      BY <2>1 DEF Plain, Narrow
    <2> QED
      BY <2>1, <2>2, LocatorFacts
  <1>2. CoinsOf(t) /\ RecordsOf(t)
    BY DEF DbInv, CoinsSound
  <1> QED
    BY <1>1, <1>2 DEF CoinsOf, RecordsOf

\* And of what validation accepts.
LEMMA ValidationFact == (FallOff \ {"proceed"} # {"true"}) => (DbInv => ValidationExact)
  <1> SUFFICES ASSUME FallOff \ {"proceed"} # {"true"}, DbInv, ~repeated,
                      NEW t \in Tx, NEW i \in 0 .. IndexWord - 1, Plain(t)
               PROVE  (/\ t \in StoredTxs /\ i \in OutputIndexes(t)
                       /\ LocatorOf(TxHash[t], i) \notin marked)
                      <=> InputOutcomes([hash |-> TxHash[t], index |-> i]) = {"true"}
    BY DEF ValidationExact
  <1> DEFINE l == <<TxHash[t], i>>
             record == db[TxHash[t]]
  <1>1. LocatorOf(TxHash[t], i) = l
    BY TxFacts, LocatorFacts, SizeAssumption
  <1>2. CoinsOf(t) /\ RecordsOf(t) /\ CoinsPresent(t)
    BY DEF DbInv, CoinsSound
  <1>3. InputOutcomes([hash |-> TxHash[t], index |-> i]) =
            IF cache[l] # NoCoin
            THEN IF cache[l].spent THEN FallOff \ {"proceed"} ELSE {"true"}
            ELSE IF record # NoRecord /\ i \in DOMAIN record THEN {"true"} ELSE {"false"}
    BY <1>1 DEF InputOutcomes
  <1>4. CASE cache[l] # NoCoin
    <2>1. /\ t \in StoredTxs /\ i \in OutputIndexes(t)
          /\ cache[l].spent <=> l \in marked
      BY <1>2, <1>4 DEF CoinsOf
    <2> QED
      BY <1>1, <1>3, <1>4, <2>1
  <1>5. CASE cache[l] = NoCoin
    <2>1. ~(t \in StoredTxs /\ i \in OutputIndexes(t))
      BY <1>2, <1>5 DEF CoinsPresent
    <2>2. ~(record # NoRecord /\ i \in DOMAIN record)
      BY <1>2, <2>1 DEF RecordsOf
    <2> QED
      BY <1>3, <1>5, <2>1, <2>2
  <1> QED
    BY <1>4, <1>5

\* Every variable keeps its type: the two sizes stay in their 16 bits, and the
\* cache and the database hold amounts, whatever is stored, undone, marked or
\* flushed (the members of CoinDatabase).
THEOREM TypeCorrect == Spec => []TypeOK
  BY DbInvCorrect, PTL DEF DbInv

\* The mempool holds at most its capacity, and no two transactions with one
\* hash, however far its size counter runs ahead (store_transaction against
\* remove_transactions_from_mempool).
THEOREM MempoolCorrect == Spec => []MempoolBounded
  BY DbInvCorrect, PTL DEF DbInv

\* The cache and the database agree on the worth of every coin of a transaction
\* with a hash of its own, and an unspent coin is in both: what a flush, a mark
\* or an undo leaves of the one never contradicts the other
\* (store_transactions_to_main_cache, remove_coin_from_database, remove_utxo).
THEOREM CacheBackedCorrect == Spec => []CacheBacked
  BY CacheBackedFact, DbInvCorrect, PTL

\* While no transaction is stored twice, validation accepts exactly the unspent
\* outputs of stored transactions, in every mix of cache and database that
\* storing, marking, flushing and undoing leave.  It needs that a bool function
\* that ends without a return can do something else than return true: else
\* validate_transactionInput accepts a spent coin.
THEOREM ValidationCorrect == (FallOff \ {"proceed"} # {"true"}) => (Spec => []ValidationExact)
  <1> SUFFICES ASSUME FallOff \ {"proceed"} # {"true"} PROVE Spec => []ValidationExact
    OBVIOUS
  <1>1. DbInv => ValidationExact
    BY ValidationFact
  <1> QED
    BY <1>1, DbInvCorrect, PTL

\* As long as no two transactions stored had one hash and none was too wide, the
\* size that decides when to flush is the number of cached coins, in 16 bits:
\* the additions of storing and the subtractions of undoing match, in any order
\* (store_transactions_to_main_cache, remove_utxo, flush_main_cache).
THEOREM CacheSizeCorrect == Spec => []CacheSizeExact
  BY DbInvCorrect, PTL DEF DbInv
=============================================================================
