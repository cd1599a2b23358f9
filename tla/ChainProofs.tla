----------------------------- MODULE ChainProofs -----------------------------
(***************************************************************************)
(* Proofs about Chain, for any tree of blocks, any window and any coins.   *)
(***************************************************************************)
EXTENDS Chain, WellFoundedInduction, TLAPS

----------------------------------------------------------------------------
(* The chain, its records and its recent hashes. *)

ChainInv == TypeOK /\ length >= 1 /\ ActiveChainStored /\ ForkHeights /\ LastHashesAreTail

\* The records that storing b at a height may write.
Records(b, n) == { [height |-> n, block |-> b, read |-> read] : read \in ReadAs(b) }

\* Blocks are told apart by their hashes.
LEMMA HashFacts ==
    /\ \A b \in Block : BlockHash[b] \in HashValue /\ PrevHash[b] \in HashValue
    /\ \A b, c \in Block : BlockHash[b] = BlockHash[c] => b = c
    /\ \A b \in Block : BlockHash[b] # PrevHash[Genesis]
    /\ Genesis \in Block /\ Window \in Nat /\ Window > 0
  BY BlockAssumption

\* A record has a height and a block.
LEMMA InfoFacts ==
    ASSUME TypeOK, NEW h \in HashValue, infos[h] # NoInfo
    PROVE  infos[h] \in Info /\ infos[h].height \in Nat /\ infos[h].block \in Block
  BY DEF TypeOK, Info

LEMMA RecordFacts ==
    ASSUME NEW b \in Block, NEW n \in Nat, NEW i \in Records(b, n)
    PROVE  /\ i \in Info /\ i # NoInfo /\ i.height = n /\ i.block = b
           /\ b \in Legible => i.read = b
  <1>1. PICK read \in ReadAs(b) : i = [height |-> n, block |-> b, read |-> read]
    BY DEF Records
  <1>2. read \in Block \cup Damaged /\ (b \in Legible => read = b)
    BY DEF ReadAs
  <1> QED
    BY <1>1, <1>2, NoInfoAssumption DEF Info

\* ActiveChainStored, by the records.
LEMMA StoredFacts ==
    ActiveChainStored <=>
        /\ Len(active) = length
        /\ active[1] = Genesis /\ active[length] = tip
        /\ \A h \in 1 .. length :
            /\ infos[BlockHash[active[h]]] \in Records(active[h], h)
            /\ h > 1 => PrevHash[active[h]] = BlockHash[active[h - 1]]
  BY DEF ActiveChainStored, Records

\* The chain is never empty, and its last block is recorded at its height.
LEMMA TipFacts ==
    ASSUME ChainInv
    PROVE  /\ length \in Nat /\ length >= 1 /\ Len(active) = length
           /\ active \in Seq(Block) /\ tip \in Block /\ active[length] = tip
           /\ infos[BlockHash[tip]] \in Records(tip, length)
  <1>1. /\ length \in Nat /\ length >= 1 /\ Len(active) = length /\ active \in Seq(Block)
        /\ tip \in Block /\ active[length] = tip
    BY DEF ChainInv, TypeOK, ActiveChainStored
  <1>2. \A h \in 1 .. length : infos[BlockHash[active[h]]] \in Records(active[h], h)
    BY StoredFacts DEF ChainInv
  <1> QED
    BY <1>1, <1>2

\* Every block of the active chain has its record.
LEMMA ActiveFacts ==
    ASSUME ChainInv, NEW h \in 1 .. length
    PROVE  /\ active[h] \in Block /\ BlockHash[active[h]] \in HashValue
           /\ infos[BlockHash[active[h]]] \in Records(active[h], h)
           /\ infos[BlockHash[active[h]]] # NoInfo
           /\ infos[BlockHash[active[h]]].height = h /\ h \in Nat
           /\ active[h] \in Legible => infos[BlockHash[active[h]]].read = active[h]
  <1>1. active[h] \in Block /\ BlockHash[active[h]] \in HashValue
    BY TipFacts, HashFacts
  <1>2. infos[BlockHash[active[h]]] \in Records(active[h], h)
    BY StoredFacts DEF ChainInv
  <1>3. h \in Nat
    BY TipFacts
  <1> QED
    BY <1>1, <1>2, <1>3, RecordFacts

\* A block that extends the tip has no record yet: it is in no fork, since the
\* record of its parent is as high as the chain.
LEMMA ExtensionIsNew ==
    ASSUME ChainInv, NEW b \in Block, OnTip(b)
    PROVE  infos[BlockHash[b]] = NoInfo /\ b # Genesis
  <1>1. PrevHash[b] = BlockHash[tip] /\ tip \in Block
    BY TipFacts DEF OnTip
  <1>2. b # Genesis
    BY <1>1, HashFacts
  <1>3. ASSUME infos[BlockHash[b]] # NoInfo
        PROVE  FALSE
    <2> DEFINE i == infos[BlockHash[b]]
    <2>1. BlockHash[b] \in HashValue
      BY HashFacts
    <2>2. /\ i.block \in Block /\ BlockHash[i.block] = BlockHash[b]
          /\ i.height \in 1 .. length
          /\ i.block # Genesis => i.height = Parent(i.block).height + 1
      BY <1>3, <2>1, InfoFacts DEF ChainInv, ForkHeights
    <2>3. i.block = b
      BY <2>2, HashFacts
    <2>4. Parent(b).height = length /\ length \in Nat
      BY <1>1, TipFacts, RecordFacts DEF Parent
    <2> QED
      BY <1>2, <2>2, <2>3, <2>4
  <1> QED
    BY <1>2, <1>3

\* A fork cannot replace a record: a block stored again gets the height it had.
LEMMA ForkKeepsRecord ==
    ASSUME ChainInv, NEW b \in Block, Parent(b) # NoInfo, infos[BlockHash[b]] # NoInfo
    PROVE  infos[BlockHash[b]].height = Parent(b).height + 1 /\ b # Genesis
  <1> DEFINE i == infos[BlockHash[b]]
  <1>1. BlockHash[b] \in HashValue /\ PrevHash[b] \in HashValue
    BY HashFacts
  <1>2. i \in Info /\ i.block \in Block /\ BlockHash[i.block] = BlockHash[b]
    BY <1>1, InfoFacts DEF ChainInv, ForkHeights
  <1>3. i.block = b
    BY <1>2, HashFacts
  <1>4. Parent(b).block \in Block /\ BlockHash[Parent(b).block] = PrevHash[b]
    BY <1>1, InfoFacts DEF ChainInv, ForkHeights, Parent
  <1>5. b # Genesis
    BY <1>4, HashFacts
  <1>6. i.height = Parent(b).height + 1
    BY <1>1, <1>3, <1>5 DEF ChainInv, ForkHeights
  <1> QED
    BY <1>5, <1>6

----------------------------------------------------------------------------
(* A step that adds a record for a new block, filed above its parent. *)

LEMMA NewRecord ==
    ASSUME TypeOK, ForkHeights, NEW b \in Block, NEW n \in Nat,
           b # Genesis, infos[BlockHash[b]] = NoInfo,
           Parent(b) # NoInfo, n = Parent(b).height + 1,
           \E read \in ReadAs(b) : infos' = WithInfo(b, n, read),
           length' \in Nat, length' >= length, n <= length'
    PROVE  /\ infos' \in [HashValue -> Info \cup {NoInfo}]
           /\ ForkHeights'
           /\ infos'[BlockHash[b]] \in Records(b, n)
           /\ \A h \in HashValue : infos[h] # NoInfo => infos'[h] = infos[h]
  <1>1. BlockHash[b] \in HashValue /\ PrevHash[b] \in HashValue
    BY HashFacts
  <1>2. PICK i \in Records(b, n) : infos' = [infos EXCEPT ![BlockHash[b]] = i]
    BY DEF Records, WithInfo
  <1> i \in Info /\ i # NoInfo /\ i.height = n /\ i.block = b
    BY RecordFacts
  <1>3. /\ infos' \in [HashValue -> Info \cup {NoInfo}]
        /\ infos'[BlockHash[b]] = i
        /\ \A h \in HashValue : h # BlockHash[b] => infos'[h] = infos[h]
    BY <1>1, <1>2 DEF TypeOK
  <1>4. \A h \in HashValue : infos[h] # NoInfo => infos'[h] = infos[h]
    BY <1>3
  <1>5. Parent(b).height \in Nat
    BY <1>1, InfoFacts DEF Parent
  <1>6. ASSUME NEW h \in HashValue, infos'[h] # NoInfo
        PROVE  LET c == infos'[h].block
               IN  /\ BlockHash[c] = h
                   /\ infos'[h].height \in 1 .. length'
                   /\ c # Genesis => /\ infos'[PrevHash[c]] # NoInfo
                                     /\ infos'[h].height = infos'[PrevHash[c]].height + 1
    <2>1. CASE h = BlockHash[b]
      <3>1. infos'[PrevHash[b]] = infos[PrevHash[b]]
        BY <1>1, <1>4 DEF Parent
      <3> QED
        BY <1>3, <1>5, <2>1, <3>1 DEF Parent
    <2>2. CASE h # BlockHash[b]
      <3> DEFINE c == infos[h].block
      <3>1. infos'[h] = infos[h]
        BY <1>3, <2>2
      <3>2. /\ BlockHash[c] = h /\ infos[h].height \in 1 .. length
            /\ c # Genesis => /\ infos[PrevHash[c]] # NoInfo
                              /\ infos[h].height = infos[PrevHash[c]].height + 1
        BY <1>6, <3>1 DEF ForkHeights, Parent
      <3>3. c \in Block /\ PrevHash[c] \in HashValue
        BY <1>6, <3>1, InfoFacts, HashFacts
      <3>4. c # Genesis => infos'[PrevHash[c]] = infos[PrevHash[c]]
        BY <1>4, <3>2, <3>3
      <3>5. length \in Nat
        BY DEF TypeOK
      <3> QED
        BY <3>1, <3>2, <3>4, <3>5
    <2> QED
      BY <2>1, <2>2
  <1> QED
    BY <1>3, <1>4, <1>6 DEF ForkHeights, Parent
----------------------------------------------------------------------------
(* Steps, as far as the chain is concerned. *)

\* The block b becomes the tip.
Appended(b) ==
    /\ OnTip(b)
    /\ length' = length + 1 /\ tip' = b
    /\ \E read \in ReadAs(b) : infos' = WithInfo(b, length + 1, read)
    /\ lastHashes' = Pushed(BlockHash[b])
    /\ active' = Append(active, b)
    /\ branching' = branching

\* The block b is stored as part of a fork.
Forked(b) ==
    /\ Parent(b) # NoInfo /\ Parent(b).height + 1 <= length
    /\ \E read \in ReadAs(b) : infos' = WithInfo(b, Parent(b).height + 1, read)
    /\ UNCHANGED <<length, tip, lastHashes, branching, active>>

LEMMA StepCases ==
    ASSUME [Next]_vars
    PROVE  \/ \E b \in Block : Appended(b)
           \/ \E b \in Block : Forked(b)
           \/ UNCHANGED chainVars
  <1>1. ASSUME NEW b \in Block, Extend(b)
        PROVE  Appended(b) \/ UNCHANGED chainVars
    BY <1>1 DEF Extend, Appended
  <1>2. ASSUME NEW b \in Block, Orphan(b) \/ TooDeep(b) \/ Reorganise(b)
        PROVE  UNCHANGED chainVars
    BY <1>2 DEF Orphan, TooDeep, Reorganise, vars
  <1>3. ASSUME NEW b \in Block, StoreFork(b)
        PROVE  Forked(b)
    BY <1>3 DEF StoreFork, Forked
  <1>4. ASSUME NEW t \in Tx, HandleTransaction(t)
        PROVE  UNCHANGED chainVars
    BY <1>4 DEF HandleTransaction
  <1>5. UNCHANGED vars => UNCHANGED chainVars
    BY DEF vars
  <1> QED
    BY <1>1, <1>2, <1>3, <1>4, <1>5 DEF Next, HandleBlock

----------------------------------------------------------------------------
(* The invariant is inductive. *)

LEMMA PushedTail ==
    ASSUME ChainInv, NEW b \in Block, Appended(b)
    PROVE  lastHashes' \in Seq(HashValue) /\ Len(lastHashes') <= Window /\ LastHashesAreTail'
  <1> DEFINE n == Len(lastHashes)
             kept == IF n < Window THEN lastHashes ELSE Tail(lastHashes)
  <1>1. /\ length \in Nat /\ length >= 1 /\ active \in Seq(Block) /\ Len(active) = length
        /\ Window \in Nat /\ Window > 0 /\ BlockHash[b] \in HashValue
    BY TipFacts, HashFacts
  <1>2. /\ lastHashes \in Seq(HashValue) /\ n \in Nat /\ n = Smaller(length, Window)
        /\ \A i \in 1 .. n : lastHashes[i] = BlockHash[active[length - n + i]]
    BY DEF ChainInv, TypeOK, LastHashesAreTail
  <1>3. n <= length /\ n <= Window /\ (n < Window => n = length)
    BY <1>1, <1>2 DEF Smaller
  <1>4. /\ active' = Append(active, b) /\ length' = length + 1
        /\ lastHashes' = Append(kept, BlockHash[b])
    BY DEF Appended, Pushed
  <1>5. CASE n < Window
    <2>1. /\ lastHashes' \in Seq(HashValue) /\ Len(lastHashes') = n + 1
          /\ \A i \in 1 .. n : lastHashes'[i] = lastHashes[i]
          /\ lastHashes'[n + 1] = BlockHash[b]
      BY <1>1, <1>2, <1>4, <1>5
    <2>2. n = length /\ length' - Len(lastHashes') = 0
      BY <1>1, <1>3, <1>4, <1>5, <2>1
    <2>3. \A i \in 1 .. n + 1 : lastHashes'[i] = BlockHash[active'[i]]
      BY <1>1, <1>2, <1>4, <2>1, <2>2
    <2>4. Len(lastHashes') = Smaller(length', Window)
      BY <1>1, <1>4, <1>5, <2>1, <2>2 DEF Smaller
    <2>5. n + 1 <= Window /\ DOMAIN lastHashes' = 1 .. n + 1
      BY <1>1, <1>2, <1>5, <2>1
    <2>6. \A i \in 1 .. n + 1 : length' - Len(lastHashes') + i = i
      BY <1>2, <2>2
    <2>7. \A i \in DOMAIN lastHashes' :
              lastHashes'[i] = BlockHash[active'[length' - Len(lastHashes') + i]]
      BY <2>3, <2>5, <2>6
    <2>8. LastHashesAreTail'
      BY <2>4, <2>7 DEF LastHashesAreTail
    <2> QED
      BY <2>1, <2>5, <2>8
  <1>6. CASE ~(n < Window)
    <2>1. n = Window /\ n >= 1
      BY <1>1, <1>2, <1>3, <1>6
    <2>2. /\ lastHashes' \in Seq(HashValue) /\ Len(lastHashes') = n
          /\ \A i \in 1 .. n - 1 : lastHashes'[i] = lastHashes[i + 1]
          /\ lastHashes'[n] = BlockHash[b]
      <3>1. kept = Tail(lastHashes) /\ kept \in Seq(HashValue) /\ Len(kept) = n - 1
        BY <1>2, <1>6, <2>1
      <3>2. \A i \in 1 .. n - 1 : kept[i] = lastHashes[i + 1]
        BY <1>2, <2>1, <3>1
      <3> HIDE DEF kept
      <3> QED
        BY <1>1, <1>2, <1>4, <2>1, <3>1, <3>2
    <2>3. \A i \in 1 .. n : lastHashes'[i] = BlockHash[active'[length + 1 - n + i]]
      <3>1. \A i \in 1 .. n - 1 :
                /\ lastHashes[i + 1] = BlockHash[active[length - n + (i + 1)]]
                /\ length - n + (i + 1) \in 1 .. length
        BY <1>1, <1>2, <1>3, <2>1
      <3>2. \A i \in 1 .. length : active'[i] = active[i]
        BY <1>1, <1>4
      <3>3. active'[length + 1] = b
        BY <1>1, <1>4
      <3> QED
        BY <1>1, <2>1, <2>2, <3>1, <3>2, <3>3
    <2>4. Len(lastHashes') = Smaller(length', Window)
      BY <1>1, <1>3, <1>4, <2>1, <2>2 DEF Smaller
    <2>5. n <= Window /\ DOMAIN lastHashes' = 1 .. n
      BY <1>2, <2>1, <2>2
    <2>6. length' - Len(lastHashes') = length + 1 - n
      <3>1. length' = length + 1 /\ Len(lastHashes') = n /\ length \in Int /\ n \in Int
        BY <1>1, <1>2, <1>4, <2>2
      <3> HIDE DEF n
      <3> QED
        BY <3>1
    <2>7. \A i \in DOMAIN lastHashes' :
              lastHashes'[i] = BlockHash[active'[length' - Len(lastHashes') + i]]
      BY <2>3, <2>5, <2>6
    <2>8. LastHashesAreTail'
      BY <2>4, <2>7 DEF LastHashesAreTail
    <2> QED
      BY <2>2, <2>5, <2>8
  <1> QED
    BY <1>5, <1>6

LEMMA AppendedInv ==
    ASSUME ChainInv, NEW b \in Block, Appended(b)
    PROVE  ChainInv'
  <1>1. /\ length \in Nat /\ length >= 1 /\ active \in Seq(Block) /\ Len(active) = length
        /\ tip \in Block /\ active[length] = tip
        /\ infos[BlockHash[tip]] \in Records(tip, length)
        /\ PrevHash[b] = BlockHash[tip]
    BY TipFacts DEF Appended, OnTip
  <1>2. infos[BlockHash[b]] = NoInfo /\ b # Genesis
    BY ExtensionIsNew DEF Appended
  <1>3. Parent(b) # NoInfo /\ length + 1 = Parent(b).height + 1
    BY <1>1, RecordFacts DEF Parent
  <1>4. /\ infos' \in [HashValue -> Info \cup {NoInfo}]
        /\ ForkHeights'
        /\ infos'[BlockHash[b]] \in Records(b, length + 1)
        /\ \A h \in HashValue : infos[h] # NoInfo => infos'[h] = infos[h]
    BY <1>1, <1>2, <1>3, NewRecord DEF ChainInv, Appended
  <1>5. /\ active' \in Seq(Block) /\ Len(active') = length + 1
        /\ \A h \in 1 .. length : active'[h] = active[h]
        /\ active'[length + 1] = b
    BY <1>1 DEF Appended
  <1>6. ActiveChainStored'
    <2>1. ASSUME NEW h \in 1 .. length
          PROVE  /\ infos'[BlockHash[active'[h]]] \in Records(active'[h], h)
                 /\ h > 1 => PrevHash[active'[h]] = BlockHash[active'[h - 1]]
      <3>1. /\ infos[BlockHash[active[h]]] \in Records(active[h], h)
            /\ h > 1 => PrevHash[active[h]] = BlockHash[active[h - 1]]
            /\ infos[BlockHash[active[h]]] # NoInfo
        BY StoredFacts, ActiveFacts DEF ChainInv
      <3>2. active[h] \in Block /\ BlockHash[active[h]] \in HashValue
        BY <1>1, HashFacts
      <3>3. infos'[BlockHash[active[h]]] = infos[BlockHash[active[h]]]
        BY <1>4, <3>1, <3>2
      <3> QED
        BY <1>1, <1>5, <3>1, <3>3
    <2>2. /\ infos'[BlockHash[active'[length + 1]]] \in Records(active'[length + 1], length + 1)
          /\ PrevHash[active'[length + 1]] = BlockHash[active'[length]]
      BY <1>1, <1>4, <1>5
    <2>3. active'[1] = Genesis
      BY <1>1, <1>5 DEF ChainInv, ActiveChainStored
    <2>4. length' = length + 1 /\ tip' = b
      BY DEF Appended
    <2>5. \A h \in 1 .. length + 1 :
              /\ infos'[BlockHash[active'[h]]] \in Records(active'[h], h)
              /\ h > 1 => PrevHash[active'[h]] = BlockHash[active'[h - 1]]
      <3> TAKE h \in 1 .. length + 1
      <3>1. CASE h = length + 1
        <4>1. h - 1 = length
          BY <1>1, <3>1
        <4> QED
          BY <2>2, <3>1, <4>1
      <3>2. CASE h \in 1 .. length
        BY <2>1, <3>2
      <3> QED
        BY <1>1, <3>1, <3>2
    <2> QED
      <3>1. ActiveChainStored' <=>
                /\ Len(active') = length'
                /\ active'[1] = Genesis /\ active'[length'] = tip'
                /\ \A h \in 1 .. length' :
                    /\ infos'[BlockHash[active'[h]]] \in Records(active'[h], h)
                    /\ h > 1 => PrevHash[active'[h]] = BlockHash[active'[h - 1]]
        BY DEF ActiveChainStored, Records
      <3> QED
        BY <1>5, <2>3, <2>4, <2>5, <3>1
  <1>7. TypeOK'
    <2>1. lastHashes' \in Seq(HashValue) /\ Len(lastHashes') <= Window
      BY PushedTail
    <2>2. length' \in Nat /\ tip' \in Block /\ branching' \in Nat
      BY <1>1 DEF Appended, ChainInv, TypeOK
    <2> QED
      BY <1>4, <1>5, <2>1, <2>2 DEF TypeOK
  <1>8. length' >= 1
    BY <1>1 DEF Appended
  <1> QED
    BY <1>4, <1>6, <1>7, <1>8, PushedTail DEF ChainInv

LEMMA ForkedInv ==
    ASSUME ChainInv, NEW b \in Block, Forked(b)
    PROVE  ChainInv'
  <1> DEFINE n == Parent(b).height + 1
  <1>1. /\ Parent(b) # NoInfo /\ n <= length
        /\ \E read \in ReadAs(b) : infos' = WithInfo(b, n, read)
        /\ UNCHANGED <<length, tip, lastHashes, branching, active>>
    BY DEF Forked
  <1>2. BlockHash[b] \in HashValue /\ PrevHash[b] \in HashValue
    BY HashFacts
  <1>3. n \in Nat /\ length \in Nat
    BY <1>1, <1>2, InfoFacts, TipFacts DEF Parent, ChainInv
  <1> HIDE DEF n
  <1>4. /\ infos' \in [HashValue -> Info \cup {NoInfo}]
        /\ ForkHeights'
        /\ \A h \in HashValue : infos[h] # NoInfo =>
               \/ infos'[h] = infos[h]
               \/ h = BlockHash[b] /\ infos[h].height = n /\ infos'[h] \in Records(b, n)
    <2>1. CASE infos[BlockHash[b]] # NoInfo
      <3>1. infos[BlockHash[b]].height = n
        BY <1>1, <2>1, ForkKeepsRecord DEF n
      <3>2. PICK i \in Records(b, n) : infos' = [infos EXCEPT ![BlockHash[b]] = i]
        BY <1>1 DEF Records, WithInfo
      <3>3. i \in Info /\ i # NoInfo /\ i.height = n /\ i.block = b
        BY <1>3, RecordFacts
      <3>4. infos \in [HashValue -> Info \cup {NoInfo}]
        BY DEF ChainInv, TypeOK
      <3>5. /\ infos' \in [HashValue -> Info \cup {NoInfo}]
            /\ infos'[BlockHash[b]] = i
            /\ \A h \in HashValue : h # BlockHash[b] => infos'[h] = infos[h]
        BY <1>2, <3>2, <3>3, <3>4
      <3>6. infos[BlockHash[b]].block = b
        <4>1. infos[BlockHash[b]].block \in Block
              /\ BlockHash[infos[BlockHash[b]].block] = BlockHash[b]
          BY <1>2, <2>1, InfoFacts DEF ChainInv, ForkHeights
        <4> QED
          BY <4>1, HashFacts
      <3>7. \A h \in HashValue :
                /\ (infos'[h] = NoInfo) = (infos[h] = NoInfo)
                /\ infos[h] # NoInfo => /\ infos'[h].height = infos[h].height
                                        /\ infos'[h].block = infos[h].block
        BY <2>1, <3>1, <3>3, <3>5, <3>6
      <3>8. ForkHeights'
        <4>1. ASSUME NEW h \in HashValue, infos'[h] # NoInfo
              PROVE  LET c == infos'[h].block
                     IN  /\ BlockHash[c] = h
                         /\ infos'[h].height \in 1 .. length'
                         /\ c # Genesis => /\ infos'[PrevHash[c]] # NoInfo
                                           /\ infos'[h].height = infos'[PrevHash[c]].height + 1
          <5> DEFINE c == infos[h].block
          <5>1. infos[h] # NoInfo /\ infos'[h].height = infos[h].height
                /\ infos'[h].block = c
            BY <3>7, <4>1
          <5>2. /\ BlockHash[c] = h /\ infos[h].height \in 1 .. length
                /\ c # Genesis => /\ infos[PrevHash[c]] # NoInfo
                                  /\ infos[h].height = infos[PrevHash[c]].height + 1
            BY <5>1 DEF ChainInv, ForkHeights, Parent
          <5>3. c \in Block /\ PrevHash[c] \in HashValue
            BY <5>1, InfoFacts, HashFacts DEF ChainInv
          <5>4. c # Genesis => /\ infos'[PrevHash[c]] # NoInfo
                              /\ infos'[PrevHash[c]].height = infos[PrevHash[c]].height
            BY <3>7, <5>2, <5>3
          <5> QED
            BY <1>1, <5>1, <5>2, <5>4
        <4> QED
          BY <4>1 DEF ForkHeights, Parent
      <3> QED
        BY <3>1, <3>5, <3>8
    <2>2. CASE infos[BlockHash[b]] = NoInfo
      <3>1. b # Genesis
        <4>1. 1 \in 1 .. length /\ active[1] = Genesis
          BY <1>3 DEF ChainInv, ActiveChainStored
        <4> QED
          BY <2>2, <4>1, ActiveFacts
      <3>2. length' \in Nat /\ length' >= length /\ n <= length' /\ n = Parent(b).height + 1
        BY <1>1, <1>3 DEF n
      <3> QED
        BY <1>1, <1>3, <2>2, <3>1, <3>2, NewRecord DEF ChainInv
    <2> QED
      BY <2>1, <2>2
  <1>5. TypeOK' /\ length' >= 1 /\ LastHashesAreTail'
    BY <1>1, <1>4 DEF ChainInv, TypeOK, LastHashesAreTail
  <1>6. ActiveChainStored'
    <2>1. ASSUME NEW h \in 1 .. length
          PROVE  infos'[BlockHash[active[h]]] \in Records(active[h], h)
      <3>1. /\ infos[BlockHash[active[h]]] \in Records(active[h], h)
            /\ infos[BlockHash[active[h]]] # NoInfo /\ BlockHash[active[h]] \in HashValue
            /\ infos[BlockHash[active[h]]].height = h /\ active[h] \in Block
        BY ActiveFacts
      <3>2. BlockHash[active[h]] = BlockHash[b] => active[h] = b
        BY <3>1, HashFacts
      <3> QED
        BY <1>4, <3>1, <3>2
    <2>2. ActiveChainStored' <=>
              /\ Len(active') = length'
              /\ active'[1] = Genesis /\ active'[length'] = tip'
              /\ \A h \in 1 .. length' :
                  /\ infos'[BlockHash[active'[h]]] \in Records(active'[h], h)
                  /\ h > 1 => PrevHash[active'[h]] = BlockHash[active'[h - 1]]
      BY DEF ActiveChainStored, Records
    <2> QED
      BY <1>1, <2>1, <2>2, StoredFacts DEF ChainInv
  <1> QED
    BY <1>4, <1>5, <1>6 DEF ChainInv

LEMMA ChainInitially == Init => ChainInv
  <1> SUFFICES ASSUME Init PROVE ChainInv
    OBVIOUS
  <1>0. PICK g \in Records(Genesis, 1) :
            infos = [h \in HashValue |-> IF h # BlockHash[Genesis] THEN NoInfo ELSE g]
    BY DEF Init, Records
  <1>1. /\ length = 1 /\ tip = Genesis /\ active = <<Genesis>>
        /\ lastHashes = <<BlockHash[Genesis]>> /\ branching \in Garbage
    BY DEF Init
  <1>2. /\ Genesis \in Block /\ BlockHash[Genesis] \in HashValue
        /\ g \in Info /\ g.height = 1 /\ g.block = Genesis
    BY HashFacts, RecordFacts
  <1>3. TypeOK
    <2>1. infos \in [HashValue -> Info \cup {NoInfo}]
      BY <1>0, <1>2
    <2>2. branching \in Nat /\ Window \in Nat /\ Window >= 1
      BY <1>1, BlockAssumption
    <2>3. lastHashes \in Seq(HashValue) /\ Len(lastHashes) = 1 /\ active \in Seq(Block)
      BY <1>1, <1>2
    <2> QED
      BY <1>1, <1>2, <2>1, <2>2, <2>3 DEF TypeOK
  <1>4. infos[BlockHash[Genesis]] = g
    BY <1>0, <1>2
  <1>5. ActiveChainStored
    BY <1>1, <1>4, StoredFacts
  <1>6. ForkHeights
    BY <1>0, <1>1, <1>2 DEF ForkHeights
  <1>7. LastHashesAreTail
    BY <1>1, HashFacts DEF LastHashesAreTail, Smaller
  <1> QED
    BY <1>1, <1>3, <1>5, <1>6, <1>7 DEF ChainInv

LEMMA ChainInductive == ChainInv /\ [Next]_vars => ChainInv'
  <1> SUFFICES ASSUME ChainInv, [Next]_vars PROVE ChainInv'
    OBVIOUS
  <1>1. CASE UNCHANGED chainVars
    <2>1. TypeOK' /\ length' >= 1 /\ ForkHeights' /\ LastHashesAreTail'
      BY <1>1 DEF chainVars, ChainInv, TypeOK, ForkHeights, Parent, LastHashesAreTail
    <2>2. ActiveChainStored'
      BY <1>1 DEF chainVars, ChainInv, ActiveChainStored, ReadAs
    <2> QED
      BY <2>1, <2>2 DEF ChainInv
  <1> QED
    BY <1>1, StepCases, AppendedInv, ForkedInv

LEMMA ChainInvariant == Spec => []ChainInv
  BY ChainInitially, ChainInductive, PTL DEF Spec

\* In every execution, whatever blocks are handed in and in whatever order, the
\* members of Chain and the block-info database keep their types.
THEOREM TypeCorrect == Spec => []TypeOK
  <1>1. ChainInv => TypeOK
    BY DEF ChainInv
  <1> QED
    BY <1>1, ChainInvariant, PTL

\* The records always describe the active chain, block by block, down to the
\* genesis block: no fork and no repeated block overwrites one of them.
THEOREM RecordsFollowChain == Spec => []ActiveChainStored
  <1>1. ChainInv => ActiveChainStored
    BY DEF ChainInv
  <1> QED
    BY <1>1, ChainInvariant, PTL

\* Every record is one above that of its parent and at most as high as the
\* chain, so the unsigned difference of heights in handle_block never wraps.
THEOREM ForksGrounded == Spec => []ForkHeights
  <1>1. ChainInv => ForkHeights
    BY DEF ChainInv
  <1> QED
    BY <1>1, ChainInvariant, PTL

\* The recent hashes are always those of the end of the active chain.
THEOREM RecentHashesCorrect == Spec => []LastHashesAreTail
  <1>1. ChainInv => LastHashesAreTail
    BY DEF ChainInv
  <1> QED
    BY <1>1, ChainInvariant, PTL

----------------------------------------------------------------------------
(* Chain implements BlockLog. *)

\* The active chain only grows, by blocks that link to its last one.
THEOREM ImplementsLog == Spec => LogSpec
  <1>1. Init => Log!Init
    BY DEF Init, Log!Init
  <1>2. ASSUME ChainInv, [Next]_vars
        PROVE  [Log!Next]_active
    <2>1. ASSUME NEW b \in Block, Appended(b)
          PROVE  Log!AppendBlock(b)
      <3>1. active[Len(active)] = tip
        BY <1>2, TipFacts
      <3> QED
        BY <2>1, <3>1 DEF Appended, OnTip, Log!AppendBlock
    <2>2. ASSUME NEW b \in Block, Forked(b)
          PROVE  UNCHANGED active
      BY <2>2 DEF Forked
    <2>3. UNCHANGED chainVars => UNCHANGED active
      BY DEF chainVars
    <2> QED
      BY <1>2, <2>1, <2>2, <2>3, StepCases DEF Log!Next
  <1> QED
    BY <1>1, <1>2, ChainInvariant, PTL DEF Spec, LogSpec, Log!Spec

----------------------------------------------------------------------------
(* The coins follow the chain, unless a missing return reads as true. *)

\* The coin database stores the coins of b and says so.
CoinsStored(b) ==
    \E size \in {0, cacheSize} : Coins!StoreToMainCache(Txs[b], size)

\* What a step does to the coins, by what it does to the chain.
LEMMA CoinCases ==
    ASSUME [Next]_vars, "true" \notin FallOff
    PROVE  \/ \E b \in Block :
                 /\ Appended(b) /\ CoinsStored(b)
                 /\ \/ "true" \in Coins!BlockOutcomes(Txs[b])
                    \/ "proceed" \in FallOff
           \/ /\ UNCHANGED <<length, active, db, cache, stored>>
  <1>1. ASSUME NEW b \in Block, Next, Extend(b)
        PROVE  \/ /\ Appended(b) /\ CoinsStored(b)
                  /\ \/ "true" \in Coins!BlockOutcomes(Txs[b])
                     \/ "proceed" \in FallOff
               \/ /\ UNCHANGED <<length, active, db, cache, stored>>
    <2>1. PICK valid \in BOOLEAN :
              /\ Coins!ValidateAndStoreBlock(Txs[b], valid)
              /\ IF valid /\ status' = "running" THEN Appended(b) ELSE UNCHANGED chainVars
      BY <1>1 DEF Extend, Accept, Appended
    <2>2. status = "running"
      BY <1>1 DEF Next
    <2>3. CASE Coins!StoreBlock(Txs[b]) /\ valid
               /\ ("true" \in Coins!BlockOutcomes(Txs[b]) \/ "proceed" \in FallOff)
      <3>1. CASE Coins!EnterFlush
        <4>1. ~(status' = "running") /\ UNCHANGED <<db, cache, stored>>
          BY <3>1 DEF Coins!EnterFlush, Coins!coinVars, Coins!history
        <4> QED
          BY <2>1, <4>1 DEF chainVars
      <3>2. CASE CoinsStored(b) /\ status' = status
        BY <2>1, <2>2, <2>3, <3>2
      <3> QED
        BY <2>3, <3>1, <3>2 DEF Coins!StoreBlock, CoinsStored
    <2>4. CASE UNCHANGED Coins!vars /\ ~valid
      BY <2>1, <2>4 DEF Coins!vars, chainVars
    <2>5. CASE Coins!Crash /\ ~valid
      BY <2>1, <2>5 DEF Coins!Crash, Coins!coinVars, Coins!history, chainVars
    <2> QED
      BY <2>1, <2>3, <2>4, <2>5 DEF Coins!ValidateAndStoreBlock
  <1>2. ASSUME NEW b \in Block, Orphan(b) \/ TooDeep(b) \/ Reorganise(b) \/ StoreFork(b)
        PROVE  UNCHANGED <<length, active, db, cache, stored>>
    BY <1>2 DEF Orphan, TooDeep, Reorganise, StoreFork, Coins!Crash, Coins!coinVars,
                Coins!history, vars, chainVars, coinVars
  <1>3. ASSUME NEW t \in Tx, HandleTransaction(t)
        PROVE  UNCHANGED <<length, active, db, cache, stored>>
    BY <1>3 DEF HandleTransaction, Coins!ValidateAndStoreTransaction, Coins!StoreTransaction,
                Coins!Crash, Coins!coinVars, Coins!history, Coins!vars, chainVars
  <1>4. UNCHANGED vars => UNCHANGED <<length, active, db, cache, stored>>
    BY DEF vars, chainVars, coinVars
  <1> QED
    BY <1>1, <1>2, <1>3, <1>4 DEF Next, HandleBlock

\* The list of stored blocks is a sequence.
CoinsInv == CoinsFollowChain /\ stored = [h \in 1 .. length |-> stored[h]]

LEMMA CoinsInitially == Init => CoinsInv
  <1> SUFFICES ASSUME Init PROVE CoinsInv
    OBVIOUS
  <1>1. /\ length = 1 /\ active = <<Genesis>>
        /\ stored = <<[txs  |-> Txs[Genesis],
                       undo |-> Coins!UndoAmounts(Coins!EmptyDb, Coins!EmptyCache, Txs[Genesis])]>>
    BY DEF Init, Coins!InitWith
  <1> QED
    BY <1>1 DEF CoinsInv, CoinsFollowChain

LEMMA CoinsInductive ==
    "true" \notin FallOff /\ ChainInv /\ CoinsInv /\ [Next]_vars => CoinsInv'
  <1> SUFFICES ASSUME "true" \notin FallOff, ChainInv, CoinsInv, [Next]_vars
               PROVE  CoinsInv'
    OBVIOUS
  <1>1. ASSUME NEW b \in Block, Appended(b), CoinsStored(b)
        PROVE  CoinsInv'
    <2>1. /\ length \in Nat /\ active \in Seq(Block) /\ Len(active) = length
          /\ length' = length + 1 /\ active' = Append(active, b)
      BY <1>1, TipFacts DEF Appended
    <2>2. PICK undo : stored' = Append(stored, [txs |-> Txs[b], undo |-> undo])
      BY <1>1 DEF CoinsStored, Coins!StoreToMainCache
    <2> DEFINE new == [txs |-> Txs[b], undo |-> undo]
    <2>3. stored = [h \in 1 .. length |-> stored[h]] /\ Len(stored) = length
      BY DEF CoinsInv, CoinsFollowChain
    <2>4. /\ Len(stored') = length + 1
          /\ stored' = [h \in 1 .. length + 1 |-> IF h = length + 1 THEN new ELSE stored[h]]
      BY <2>1, <2>2, <2>3
    <2>5. /\ \A h \in 1 .. length : active'[h] = active[h]
          /\ active'[length + 1] = b
      BY <2>1
    <2>6. \A h \in 1 .. length : stored[h].txs = Txs[active[h]]
      BY DEF CoinsInv, CoinsFollowChain
    <2>7. \A h \in 1 .. length + 1 : stored'[h].txs = Txs[active'[h]]
      BY <2>1, <2>4, <2>5, <2>6
    <2> QED
      BY <2>1, <2>4, <2>7 DEF CoinsInv, CoinsFollowChain
  <1>2. CASE UNCHANGED <<length, active, db, cache, stored>>
    BY <1>2 DEF CoinsInv, CoinsFollowChain
  <1> QED
    BY <1>1, <1>2, CoinCases

\* The blocks whose coins are stored are those of the active chain, in its
\* order, however blocks, forks and transactions come, in every build in which
\* the missing return of validate_and_store_block does not read as true.
THEOREM CoinsAgree == "true" \notin FallOff => (Spec => []CoinsFollowChain)
  <1> SUFFICES ASSUME "true" \notin FallOff PROVE Spec => []CoinsFollowChain
    OBVIOUS
  <1>1. CoinsInv => CoinsFollowChain
    BY DEF CoinsInv
  <1>2. ChainInv /\ CoinsInv /\ [Next]_vars => CoinsInv'
    BY CoinsInductive
  <1> QED
    BY <1>1, <1>2, CoinsInitially, ChainInvariant, PTL DEF Spec

----------------------------------------------------------------------------
(* Inputs name outputs of blocks below, in builds whose missing return neither *)
(* reads as true nor lets a block through.                                  *)

Input == [hash : Hash, index : 0 .. IndexWord - 1]
Output(hash, index) == [hash |-> hash, index |-> index]

\* Some block up to height n provides an output.
Provided(n, output) == \E i \in 1 .. n : output \in Provides(active[i])

\* Every coin, in the cache or in a record, is an output of the active chain.
CoinsProvided ==
    /\ \A l \in Coins!Locator :
           cache[l] # NoCoin => Provided(length, Output(l[1], l[2]))
    /\ \A h \in Hash : db[h] # NoRecord =>
           \A j \in DOMAIN db[h] : Provided(length, Output(h, j))

\* What the coin database assumes of its constants, as far as it is used here.
LEMMA ConstantFacts ==
    /\ IndexWord \in Nat \ {0} /\ Word \in Nat \ {0} /\ CacheCapacity \in Nat
    /\ TxHash \in [Tx -> Hash] /\ Inputs \in [Tx -> Seq(Input)] /\ Outputs \in [Tx -> Seq(Nat)]
  BY CoinAssumption DEF Coins!SizeAssumption, Coins!TxAssumption, Input

LEMMA RemainderFacts ==
    ASSUME NEW x \in Nat, NEW w \in Nat \ {0}
    PROVE  x % w \in 0 .. w - 1 /\ x % w <= x /\ (x < w => x % w = x)
  OBVIOUS

\* The indexes of the outputs of a transaction start at 0.
LEMMA IndexFacts ==
    ASSUME NEW t \in Tx
    PROVE  /\ Len(Outputs[t]) \in Nat
           /\ \A i \in Coins!OutputIndexes(t) :
                  i \in Nat /\ \A j \in 0 .. i : j \in Coins!OutputIndexes(t)
  <1>1. Len(Outputs[t]) \in Nat
    BY ConstantFacts
  <1> QED
    BY <1>1 DEF Coins!OutputIndexes

LEMMA TxsFacts ==
    ASSUME NEW b \in Block
    PROVE  Txs[b] \in Seq(Tx) /\ \A k \in DOMAIN Txs[b] : Txs[b][k] \in Tx
  BY BlockAssumption

\* An output of a transaction of b, or one before it, is provided by b.
LEMMA ProvidesFacts ==
    ASSUME NEW b \in Block, NEW k \in DOMAIN Txs[b],
           NEW i \in Coins!OutputIndexes(Txs[b][k]), NEW j \in 0 .. i
    PROVE  Output(TxHash[Txs[b][k]], j) \in Provides(b)
  <1>1. j \in Coins!OutputIndexes(Txs[b][k])
    BY TxsFacts, IndexFacts
  <1> QED
    BY <1>1 DEF Provides, Output

\* What storing the coins of b writes to the cache.
LEMMA CacheProvided ==
    ASSUME NEW b \in Block, NEW c, NEW l \in Coins!Locator,
           Coins!CacheWith(c, Txs[b])[l] # NoCoin
    PROVE  c[l] # NoCoin \/ Output(l[1], l[2]) \in Provides(b)
  <1>1. CASE Coins!WritesTo(Txs[b], l) = {}
    BY <1>1 DEF Coins!CacheWith
  <1>2. ASSUME NEW w \in Coins!WritesTo(Txs[b], l)
        PROVE  Output(l[1], l[2]) \in Provides(b)
    <2>1. /\ w[1] \in DOMAIN Txs[b] /\ w[2] \in Coins!OutputIndexes(Txs[b][w[1]])
          /\ l = <<TxHash[Txs[b][w[1]]], w[2] % IndexWord>>
      BY <1>2 DEF Coins!WritesTo, Coins!LocatorOf
    <2>2. w[2] \in Nat
      BY <2>1, TxsFacts, IndexFacts
    <2>3. w[2] % IndexWord \in 0 .. w[2]
      <3>1. IndexWord \in Nat \ {0}
        BY ConstantFacts
      <3>2. w[2] % IndexWord \in 0 .. IndexWord - 1 /\ w[2] % IndexWord <= w[2]
        BY <2>2, <3>1, RemainderFacts
      <3> QED
        BY <2>2, <3>1, <3>2
    <2> QED
      BY <2>1, <2>3, ProvidesFacts
  <1> QED
    BY <1>1, <1>2

\* The largest of the numbers up to n that are in S.
LEMMA LargestExists ==
    ASSUME NEW n \in Nat, NEW S \in SUBSET (1 .. n), S # {}
    PROVE  \E m \in S : \A j \in S : j <= m
  <1> DEFINE above == { m \in Nat : \A j \in S : j <= m }
             less == OpToRel(<, Nat)
  <1>1. n \in above
    OBVIOUS
  <1>2. PICK m \in above : \A k \in above : ~(<<k, m>> \in less)
    <2>1. above \subseteq Nat /\ above # {}
      BY <1>1
    <2> HIDE DEF above, less
    <2> QED
      BY <2>1, NatLessThanWellFounded, WFMin DEF less
  <1>3. \A k \in above : ~(k < m)
    BY <1>2 DEF OpToRel
  <1>4. PICK s \in S : TRUE
    OBVIOUS
  <1>5. m >= 1 /\ m - 1 \in Nat
    BY <1>4
  <1>6. m - 1 \notin above
    BY <1>3, <1>5
  <1>7. PICK j \in S : ~(j <= m - 1)
    BY <1>5, <1>6
  <1>8. j = m
    BY <1>7
  <1> QED
    BY <1>7, <1>8

\* What storing the coins of b writes to the records.
LEMMA RecordsProvided ==
    ASSUME NEW b \in Block, NEW d, NEW h \in Hash,
           Coins!DbWith(d, Txs[b])[h] # NoRecord, NEW j \in DOMAIN Coins!DbWith(d, Txs[b])[h]
    PROVE  Coins!DbWith(d, Txs[b])[h] = d[h] \/ Output(h, j) \in Provides(b)
  <1> DEFINE with == { k \in DOMAIN Txs[b] : TxHash[Txs[b][k]] = h }
             k == CHOOSE m \in DOMAIN Txs[b] :
                      /\ TxHash[Txs[b][m]] = h
                      /\ \A i \in DOMAIN Txs[b] : TxHash[Txs[b][i]] = h => i <= m
  <1>1. CASE h \notin Coins!HashesOf(Txs[b])
    BY <1>1 DEF Coins!DbWith
  <1>2. CASE h \in Coins!HashesOf(Txs[b])
    <2>1. with # {} /\ with \subseteq 1 .. Len(Txs[b]) /\ Len(Txs[b]) \in Nat
      BY <1>2, TxsFacts DEF Coins!HashesOf
    <2>2. \E m \in with : \A i \in with : i <= m
      <3> HIDE DEF with
      <3> QED
        BY <2>1, LargestExists
    <2>3. k \in DOMAIN Txs[b] /\ TxHash[Txs[b][k]] = h
      BY <2>2
    <2>4. Coins!DbWith(d, Txs[b])[h] = Coins!RecordOf(Txs[b][k])
      BY <1>2 DEF Coins!DbWith, Coins!LastWith
    <2> HIDE DEF k
    <2>5. j \in Coins!OutputIndexes(Txs[b][k])
      BY <2>4 DEF Coins!RecordOf
    <2>6. j \in Nat
      BY <2>3, <2>5, TxsFacts, IndexFacts
    <2>7. j \in 0 .. j
      BY <2>6
    <2> QED
      BY <2>3, <2>5, <2>7, ProvidesFacts
  <1> QED
    BY <1>1, <1>2

LEMMA SpendsFacts ==
    ASSUME NEW b \in Block
    PROVE  \A output : output \in Spends(b) <=>
               \E k \in DOMAIN Txs[b] : \E a \in DOMAIN Inputs[Txs[b][k]] :
                   output = Inputs[Txs[b][k]][a]
  BY DEF Spends

\* What a block that passes validation spends is provided by the chain.
LEMMA ValidSpends ==
    ASSUME CoinsProvided, "true" \notin FallOff,
           NEW b \in Block, "true" \in Coins!BlockOutcomes(Txs[b])
    PROVE  Spends(b) # {} /\ \A output \in Spends(b) : Provided(length, output)
  <1>1. /\ Txs[b] # <<>>
        /\ \A k \in DOMAIN Txs[b] : "true" \in Coins!TxOutcomes(Txs[b][k])
    BY DEF Coins!BlockOutcomes, Coins!InTurn
  <1>2. ASSUME NEW k \in DOMAIN Txs[b]
        PROVE  LET inputs == Inputs[Txs[b][k]]
               IN  /\ inputs \in Seq(Input)
                   /\ inputs # <<>>
                   /\ \A a \in DOMAIN inputs : "true" \in Coins!InputOutcomes(inputs[a])
    <2>1. Inputs[Txs[b][k]] \in Seq(Input)
      BY TxsFacts, ConstantFacts
    <2> QED
      BY <1>1, <2>1 DEF Coins!TxOutcomes, Coins!InTurn
  <1>3. ASSUME NEW input \in Input,
               "true" \in Coins!InputOutcomes(input)
        PROVE  Provided(length, input)
    <2> DEFINE l == Coins!LocatorOf(input.hash, input.index)
    <2>1. input.hash \in Hash /\ input.index \in 0 .. IndexWord - 1
          /\ input = Output(input.hash, input.index)
      BY <1>3 DEF Input, Output
    <2>2. l = <<input.hash, input.index>>
      <3>1. IndexWord \in Nat \ {0}
        BY ConstantFacts
      <3>2. input.index \in Nat /\ input.index < IndexWord
        BY <2>1, <3>1
      <3>3. input.index % IndexWord = input.index
        BY <3>1, <3>2, RemainderFacts
      <3> QED
        BY <3>3 DEF Coins!LocatorOf
    <2>3. l \in Coins!Locator /\ l[1] = input.hash /\ l[2] = input.index
      BY <2>1, <2>2 DEF Coins!Locator
    <2>4. \/ cache[l] # NoCoin
          \/ db[input.hash] # NoRecord /\ input.index \in DOMAIN db[input.hash]
      BY <1>3 DEF Coins!InputOutcomes
    <2> QED
      BY <2>1, <2>3, <2>4 DEF CoinsProvided
  <1>4. ASSUME NEW output \in Spends(b)
        PROVE  Provided(length, output)
    <2>1. PICK k \in DOMAIN Txs[b] : \E a \in DOMAIN Inputs[Txs[b][k]] :
              output = Inputs[Txs[b][k]][a]
      BY <1>4, SpendsFacts
    <2>2. PICK a \in DOMAIN Inputs[Txs[b][k]] : output = Inputs[Txs[b][k]][a]
      BY <2>1
    <2>3. Inputs[Txs[b][k]] \in Seq(Input)
          /\ "true" \in Coins!InputOutcomes(output)
      BY <1>2, <2>2
    <2>4. output \in Input
      BY <2>2, <2>3
    <2> QED
      BY <1>3, <2>3, <2>4
  <1>5. Spends(b) # {}
    <2>1. 1 \in DOMAIN Txs[b]
      BY <1>1, TxsFacts
    <2>2. 1 \in DOMAIN Inputs[Txs[b][1]]
      BY <1>2, <2>1
    <2> QED
      BY <2>1, <2>2, SpendsFacts
  <1> QED
    BY <1>4, <1>5

LedgerInv == LedgerClosed /\ CoinsProvided

LEMMA LedgerInitially == Init => LedgerInv
  <1> SUFFICES ASSUME Init PROVE LedgerInv
    OBVIOUS
  <1>1. /\ length = 1 /\ active = <<Genesis>>
        /\ db = Coins!DbWith(Coins!EmptyDb, Txs[Genesis])
        /\ cache = Coins!CacheWith(Coins!EmptyCache, Txs[Genesis])
    BY DEF Init, Coins!InitWith
  <1>2. Genesis \in Block
    BY HashFacts
  <1>3. \A output \in Provides(Genesis) : Provided(length, output)
    BY <1>1 DEF Provided
  <1>4. ASSUME NEW l \in Coins!Locator, cache[l] # NoCoin
        PROVE  Output(l[1], l[2]) \in Provides(Genesis)
    <2>1. Coins!EmptyCache[l] = NoCoin
      BY DEF Coins!EmptyCache
    <2> QED
      BY <1>1, <1>2, <1>4, <2>1, CacheProvided
  <1>5. ASSUME NEW h \in Hash, db[h] # NoRecord, NEW j \in DOMAIN db[h]
        PROVE  Output(h, j) \in Provides(Genesis)
    <2>1. Coins!EmptyDb[h] = NoRecord
      BY DEF Coins!EmptyDb
    <2> QED
      BY <1>1, <1>2, <1>5, <2>1, RecordsProvided
  <1>6. LedgerClosed
    BY <1>1 DEF LedgerClosed
  <1> QED
    BY <1>3, <1>4, <1>5, <1>6 DEF LedgerInv, CoinsProvided

\* A stored block provides the coins it writes.
LEMMA CoinsProvidedKeeps ==
    ASSUME ChainInv, CoinsProvided, NEW b \in Block, Appended(b), CoinsStored(b)
    PROVE  CoinsProvided'
  <1>1. /\ length \in Nat /\ active \in Seq(Block) /\ Len(active) = length
        /\ length' = length + 1 /\ active' = Append(active, b)
    BY TipFacts DEF Appended
  <1>2. active'[length + 1] = b /\ \A i \in 1 .. length : active'[i] = active[i]
    BY <1>1
  <1>3. db' = Coins!DbWith(db, Txs[b]) /\ cache' = Coins!CacheWith(cache, Txs[b])
    BY DEF CoinsStored, Coins!StoreToMainCache
  <1>4. /\ \A output : Provided(length, output) => Provided(length, output)'
        /\ \A output \in Provides(b) : Provided(length, output)'
    <2>1. \A i \in 1 .. length : i \in 1 .. length'
      BY <1>1
    <2>2. length + 1 \in 1 .. length'
      BY <1>1
    <2>3. \A output : Provided(length, output)' <=>
              \E i \in 1 .. length' : output \in Provides(active'[i])
      BY DEF Provided, Provides
    <2> QED
      BY <1>2, <2>1, <2>2, <2>3 DEF Provided
  <1>5. ASSUME NEW l \in Coins!Locator, cache'[l] # NoCoin
        PROVE  Provided(length, Output(l[1], l[2]))'
    <2>1. cache[l] # NoCoin \/ Output(l[1], l[2]) \in Provides(b)
      BY <1>3, <1>5, CacheProvided
    <2>2. cache[l] # NoCoin => Provided(length, Output(l[1], l[2]))
      BY <1>5 DEF CoinsProvided
    <2> QED
      BY <1>4, <2>1, <2>2
  <1>6. ASSUME NEW h \in Hash, db'[h] # NoRecord, NEW j \in DOMAIN db'[h]
        PROVE  Provided(length, Output(h, j))'
    <2>1. db'[h] = db[h] \/ Output(h, j) \in Provides(b)
      BY <1>3, <1>6, RecordsProvided
    <2>2. db'[h] = db[h] => Provided(length, Output(h, j))
      BY <1>6 DEF CoinsProvided
    <2> QED
      BY <1>4, <2>1, <2>2
  <1> QED
    BY <1>5, <1>6 DEF CoinsProvided

LEMMA CoinsProvidedStays ==
    ASSUME CoinsProvided, UNCHANGED <<length, active, db, cache>>
    PROVE  CoinsProvided'
  <1>1. \A output : Provided(length, output)' <=> Provided(length, output)
    BY DEF Provided, Provides
  <1> QED
    BY <1>1 DEF CoinsProvided

LEMMA LedgerInductive ==
    FallOff \cap {"true", "proceed"} = {} /\ ChainInv /\ LedgerInv /\ [Next]_vars => LedgerInv'
  <1> SUFFICES ASSUME FallOff \cap {"true", "proceed"} = {}, ChainInv, LedgerInv, [Next]_vars
               PROVE  LedgerInv'
    OBVIOUS
  <1>1. ASSUME NEW b \in Block, Appended(b), CoinsStored(b),
               "true" \in Coins!BlockOutcomes(Txs[b])
        PROVE  LedgerInv'
    <2>1. /\ length \in Nat /\ active \in Seq(Block) /\ Len(active) = length
          /\ length' = length + 1 /\ active' = Append(active, b)
      BY <1>1, TipFacts DEF Appended
    <2>2. active'[length + 1] = b /\ \A i \in 1 .. length : active'[i] = active[i]
      BY <2>1
    <2>3. CoinsProvided'
      BY <1>1, CoinsProvidedKeeps DEF LedgerInv
    <2>4. Spends(b) # {} /\ \A output \in Spends(b) : Provided(length, output)
      BY <1>1, ValidSpends DEF LedgerInv
    <2>5. ASSUME NEW h \in 2 .. length + 1
          PROVE  /\ Spends(active'[h]) # {}
                 /\ \A output \in Spends(active'[h]) :
                        \E i \in 1 .. h - 1 : output \in Provides(active'[i])
      <3>1. CASE h = length + 1
        <4>1. \A i \in 1 .. h - 1 : active'[i] = active[i]
          BY <2>1, <2>2, <3>1
        <4>2. active'[h] = b /\ h - 1 = length
          BY <2>1, <2>2, <3>1
        <4>3. \A output \in Spends(b) : \E i \in 1 .. h - 1 : output \in Provides(active[i])
          BY <2>4, <4>2 DEF Provided
        <4> QED
          BY <2>4, <4>1, <4>2, <4>3
      <3>2. CASE h \in 2 .. length
        <4>1. Spends(active[h]) # {}
              /\ Spends(active[h]) \subseteq UNION { Provides(active[i]) : i \in 1 .. h - 1 }
          BY <3>2 DEF LedgerInv, LedgerClosed
        <4>2. h \in 1 .. length /\ \A i \in 1 .. h - 1 : i \in 1 .. length
          BY <2>1, <3>2
        <4>3. \A output \in Spends(active[h]) : \E i \in 1 .. h - 1 : output \in Provides(active[i])
          BY <4>1
        <4>4. \A i \in 1 .. h - 1 : active'[i] = active[i]
          BY <2>2, <4>2
        <4>5. active'[h] = active[h]
          BY <2>2, <4>2
        <4> QED
          BY <4>1, <4>3, <4>4, <4>5
      <3>3. h = length + 1 \/ h \in 2 .. length
        BY <2>1
      <3> QED
        BY <3>1, <3>2, <3>3
    <2>6. LedgerClosed'
      <3>1. LedgerClosed' <=>
                \A h \in 2 .. length' :
                    /\ Spends(active'[h]) # {}
                    /\ Spends(active'[h]) \subseteq UNION { Provides(active'[i]) : i \in 1 .. h - 1 }
        BY DEF LedgerClosed, Provides, Spends
      <3> QED
        BY <2>1, <2>5, <3>1
    <2> QED
      BY <2>3, <2>6 DEF LedgerInv
  <1>2. CASE UNCHANGED <<length, active, db, cache, stored>>
    <2>1. LedgerClosed'
      <3>1. LedgerClosed' <=>
                \A h \in 2 .. length' :
                    /\ Spends(active'[h]) # {}
                    /\ Spends(active'[h]) \subseteq UNION { Provides(active'[i]) : i \in 1 .. h - 1 }
        BY DEF LedgerClosed, Provides, Spends
      <3>2. length' = length /\ active' = active /\ LedgerClosed
        BY <1>2 DEF LedgerInv
      <3> QED
        BY <3>1, <3>2 DEF LedgerClosed
    <2>2. CoinsProvided'
      BY <1>2, CoinsProvidedStays DEF LedgerInv
    <2> QED
      BY <2>1, <2>2 DEF LedgerInv
  <1> QED
    BY <1>1, <1>2, CoinCases

\* Whatever forks and transactions come in between, every input of a block of
\* the active chain names an output of a block below it, in every build in which
\* the missing return of validate_and_store_block neither reads as true nor
\* makes the compiler store the block unchecked.
THEOREM LedgerCorrect ==
    FallOff \cap {"true", "proceed"} = {} => (Spec => []LedgerClosed)
  <1> SUFFICES ASSUME FallOff \cap {"true", "proceed"} = {} PROVE Spec => []LedgerClosed
    OBVIOUS
  <1>1. LedgerInv => LedgerClosed
    BY DEF LedgerInv
  <1>2. ChainInv /\ LedgerInv /\ [Next]_vars => LedgerInv'
    BY LedgerInductive
  <1> QED
    BY <1>1, <1>2, LedgerInitially, ChainInvariant, PTL DEF Spec

----------------------------------------------------------------------------
(* Queries. *)

LEMMA LeastExists ==
    ASSUME NEW S \in SUBSET Nat, S # {}
    PROVE  \E m \in S : \A k \in S : m <= k
  <1> DEFINE less == OpToRel(<, Nat)
  <1>1. PICK m \in S : \A k \in S : ~(<<k, m>> \in less)
    <2> HIDE DEF less
    <2> QED
      BY NatLessThanWellFounded, WFMin DEF less
  <1>2. \A k \in S : ~(k < m)
    BY <1>1 DEF OpToRel
  <1> QED
    BY <1>2

\* The blocks of the active chain from a height up are read back as they were.
LegibleFrom(h) == \A i \in h .. length : active[i] \in Legible

\* The walk from the tip meets the blocks of the active chain, as far as those
\* it reads on its way are read back as they were.
LEMMA WalkMeetsChain ==
    ASSUME ChainInv, NEW n \in 0 .. length - 1, LegibleFrom(length - n)
    PROVE  BlockBehind(n) = active[length - n]
  <1> DEFINE Walk(f) == [k \in 0 .. n |->
                             IF k = 0 THEN BlockHash[tip]
                             ELSE IF infos[f[k - 1]] = NoInfo THEN f[k - 1]
                                  ELSE PrevHash[infos[f[k - 1]].read]]
             chain == [k \in 0 .. n |-> BlockHash[active[length - k]]]
             below == CHOOSE f : f = Walk(f)
  <1>1. length \in Nat /\ n \in Nat
    BY TipFacts
  <1>2. chain = Walk(chain)
    <2>1. ASSUME NEW k \in 0 .. n
          PROVE  chain[k] = Walk(chain)[k]
      <3>1. CASE k = 0
        BY <1>1, <3>1, TipFacts
      <3>2. CASE k # 0
        <4> DEFINE h == length - k
        <4>1. k \in Nat /\ k - 1 \in 0 .. n /\ h \in 1 .. length /\ h + 1 \in 1 .. length
              /\ h + 1 \in length - n .. length
          BY <1>1, <3>2
        <4>2. chain[k - 1] = BlockHash[active[h + 1]]
          BY <1>1, <4>1
        <4>3. PrevHash[active[h + 1]] = BlockHash[active[h]]
          <5> HIDE DEF h
          <5>1. h + 1 > 1 /\ (h + 1) - 1 = h
            BY <1>1, <4>1
          <5> QED
            BY <4>1, <5>1 DEF ChainInv, ActiveChainStored
        <4>4. infos[BlockHash[active[h + 1]]] # NoInfo
              /\ infos[BlockHash[active[h + 1]]].read = active[h + 1]
          <5> HIDE DEF h
          <5>1. active[h + 1] \in Legible
            BY <4>1 DEF LegibleFrom
          <5> QED
            BY <4>1, <5>1, ActiveFacts
        <4> QED
          BY <3>2, <4>2, <4>3, <4>4
      <3> QED
        BY <3>1, <3>2
    <2> QED
      BY <2>1
  <1>3. below = Walk(below)
    BY <1>2
  <1>4. \A k \in 0 .. n : below[k] = chain[k]
    <2> DEFINE differ == { k \in 0 .. n : below[k] # chain[k] }
    <2>1. ASSUME differ # {}
          PROVE  FALSE
      <3>1. differ \subseteq Nat
        BY <1>1
      <3>2. PICK m \in differ : \A k \in differ : m <= k
        <4> HIDE DEF differ
        <4> QED
          BY <2>1, <3>1, LeastExists
      <3> HIDE DEF chain, below
      <3>3. m \in 0 .. n /\ below[m] # chain[m]
        BY <3>2
      <3>4. CASE m = 0
        BY <1>2, <1>3, <3>3, <3>4
      <3>5. CASE m # 0
        <4>1. m - 1 \in 0 .. n /\ m - 1 \notin differ
          BY <1>1, <3>2, <3>3, <3>5
        <4>2. below[m - 1] = chain[m - 1]
          BY <4>1
        <4> QED
          BY <1>2, <1>3, <3>3, <3>5, <4>2
      <3> QED
        BY <3>4, <3>5
    <2> QED
      BY <2>1
  <1>5. Below(BlockHash[tip], n) = below[n]
    BY DEF Below
  <1>6. Below(BlockHash[tip], n) = BlockHash[active[length - n]]
    BY <1>1, <1>4, <1>5
  <1>7. length - n \in 1 .. length /\ active[length - n] \in Legible
    BY <1>1 DEF LegibleFrom
  <1> QED
    BY <1>6, <1>7, ActiveFacts DEF BlockBehind, GetBlock

LEMMA SmallerFacts ==
    ASSUME NEW i \in Int, NEW j \in Int
    PROVE  /\ Smaller(i, j) \in Int /\ Smaller(i, j) <= i /\ Smaller(i, j) <= j
           /\ Smaller(i, j) = i \/ Smaller(i, j) = j
           /\ Larger(i, j) \in Int /\ Larger(i, j) >= i /\ Larger(i, j) >= j
           /\ Larger(i, j) = i \/ Larger(i, j) = j
  BY DEF Smaller, Larger

\* The range of heights that the query walks over.
LEMMA RangeFacts ==
    ASSUME ChainInv, NEW start \in 0 .. length, NEW end \in start .. length + 1
    PROVE  LET low  == Larger(start, 1)
               high == Smaller(Smaller(end, length) + 1, length)
           IN  /\ low \in 1 .. length /\ high \in low .. length
               /\ high = Smaller(end + 1, length)
               /\ ~(end < start) /\ ~(high < low) /\ length \in Nat
  <1>1. length \in Nat /\ length >= 1
    BY TipFacts
  <1> QED
    BY <1>1 DEF Smaller, Larger

\* For every range of heights, and whatever forks are stored besides, the walk
\* of get_active_chain returns one block for each height in that range and, below
\* the tip, for the one above it; and what it returns is the block of the active
\* chain if the texts of the blocks from there up to the tip have no zero byte.
THEOREM ChainQueryCorrect == Spec => []QueryActiveChain
  <1>1. ASSUME ChainInv, NEW start \in 0 .. length, NEW end \in start .. length + 1
        PROVE  LET blocks == GetActiveChain(start, end)
                   low    == Larger(start, 1)
               IN  /\ Len(blocks) = Smaller(end + 1, length) - low + 1
                   /\ \A i \in DOMAIN blocks :
                          LegibleFrom(low + i - 1) => blocks[i] = active[low + i - 1]
    <2> DEFINE low  == Larger(start, 1)
               high == Smaller(Smaller(end, length) + 1, length)
               blocks == GetActiveChain(start, end)
    <2>1. /\ low \in 1 .. length /\ high \in low .. length /\ high = Smaller(end + 1, length)
          /\ ~(end < start) /\ ~(high < low) /\ length \in Nat
      BY <1>1, RangeFacts
    <2>2. blocks = [i \in 1 .. high - low + 1 |-> BlockBehind(length - (low + i - 1))]
      BY <2>1 DEF GetActiveChain
    <2> HIDE DEF low, high, blocks
    <2>3. high - low + 1 \in Nat
      BY <2>1
    <2>4. DOMAIN blocks = 1 .. high - low + 1 /\ Len(blocks) = high - low + 1
      BY <2>2, <2>3
    <2>5. ASSUME NEW i \in 1 .. high - low + 1, LegibleFrom(low + i - 1)
          PROVE  blocks[i] = active[low + i - 1]
      <3> DEFINE n == length - (low + i - 1)
      <3>1. n \in 0 .. length - 1 /\ length - n = low + i - 1
        BY <2>1
      <3> HIDE DEF n
      <3>2. BlockBehind(n) = active[length - n]
        BY <1>1, <2>5, <3>1, WalkMeetsChain
      <3> QED
        BY <2>2, <3>1, <3>2 DEF n
    <2> QED
      BY <2>1, <2>4, <2>5 DEF low, high, blocks
  <1>2. ChainInv => QueryActiveChain
    BY <1>1 DEF QueryActiveChain, LegibleFrom
  <1> QED
    BY <1>2, ChainInvariant, PTL

----------------------------------------------------------------------------
(* Reorganisations. *)

\* The branching height is what it was, or the height of a record of the
\* active chain.
LEMMA BranchingFacts ==
    ASSUME ChainInv, NEW hash
    PROVE  BranchingHeight(hash) \in Nat
  <1>1. CASE Meets(hash) = {}
    BY <1>1 DEF BranchingHeight, ChainInv, TypeOK
  <1>2. CASE Meets(hash) # {}
    <2> DEFINE n == CHOOSE n \in Meets(hash) : \A m \in Meets(hash) : n <= m
    <2>1. n \in Meets(hash)
      <3>1. Meets(hash) \subseteq Nat
        BY HashFacts DEF Meets
      <3> QED
        BY <1>2, <3>1, LeastExists
    <2>2. BranchingHeight(hash) = infos[HashAfter(hash, n)].height
      BY <1>2 DEF BranchingHeight
    <2> HIDE DEF n
    <2>3. HashAfter(hash, n) \in Recent
      BY <2>1 DEF Meets
    <2>4. PICK i \in DOMAIN lastHashes : HashAfter(hash, n) = lastHashes[i]
      BY <2>3 DEF Recent
    <2> DEFINE h == length - Len(lastHashes) + i
    <2>5. lastHashes[i] = BlockHash[active[h]]
      BY DEF ChainInv, LastHashesAreTail
    <2>6. h \in 1 .. length
      <3>1. lastHashes \in Seq(HashValue) /\ length \in Nat
        BY DEF ChainInv, TypeOK
      <3>2. Len(lastHashes) = Smaller(length, Window) /\ Window \in Nat
        BY HashFacts DEF ChainInv, LastHashesAreTail
      <3>3. Len(lastHashes) <= length
        BY <3>1, <3>2 DEF Smaller
      <3>4. i \in 1 .. Len(lastHashes)
        BY <3>1
      <3> QED
        BY <3>1, <3>3, <3>4
    <2> HIDE DEF h
    <2>7. infos[BlockHash[active[h]]].height = h /\ h \in Nat
      BY <2>6, ActiveFacts
    <2> QED
      BY <2>2, <2>4, <2>5, <2>7
  <1> QED
    BY <1>1, <1>2

\* Every block that overtakes the active chain has the reorganisation follow a
\* null pointer or hand undo_coins one undo block more than it hands it blocks,
\* whatever the depth of the fork and the window of recent hashes.
THEOREM OvertakingOverruns == Spec => []OvertakeOverruns
  <1>1. ASSUME ChainInv, NEW b \in Block
        PROVE  LET height == BranchingHeight(PrevHash[b])
               IN  \/ height = 0
                   \/ Len(UndoQueue(height)) > Len(GetActiveChain(height + 1, length))
    <2> DEFINE height == BranchingHeight(PrevHash[b])
    <2>1. height \in Nat /\ length \in Nat /\ length >= 1
      BY <1>1, BranchingFacts, TipFacts
    <2> HIDE DEF height
    <2>2. Len(UndoQueue(height)) = Larger(length - height, 0) + 1
      <3>1. Larger(length - height, 0) + 1 \in Nat
        BY <2>1 DEF Larger
      <3> QED
        BY <3>1 DEF UndoQueue
    <2>3. Len(GetActiveChain(height + 1, length)) = Larger(length - height, 0)
      <3> DEFINE low  == Larger(height + 1, 1)
                 high == Smaller(Smaller(length, length) + 1, length)
      <3>1. low = height + 1 /\ high = length
        BY <2>1 DEF Larger, Smaller
      <3>2. CASE length < height + 1
        <4>1. GetActiveChain(height + 1, length) = <<>>
          BY <3>2 DEF GetActiveChain
        <4>2. Larger(length - height, 0) = 0
          BY <2>1, <3>2 DEF Larger
        <4> QED
          BY <4>1, <4>2
      <3>3. CASE ~(length < height + 1)
        <4>1. GetActiveChain(height + 1, length) =
                  [i \in 1 .. high - low + 1 |-> BlockBehind(length - (low + i - 1))]
          BY <2>1, <3>1, <3>3 DEF GetActiveChain
        <4>2. high - low + 1 = length - height /\ length - height \in Nat
              /\ Larger(length - height, 0) = length - height
          BY <2>1, <3>1, <3>3 DEF Larger
        <4> HIDE DEF low, high
        <4> QED
          BY <4>1, <4>2
      <3> QED
        BY <3>2, <3>3
    <2> QED
      BY <2>1, <2>2, <2>3 DEF height, Larger
  <1>2. ChainInv => OvertakeOverruns
    BY <1>1 DEF OvertakeOverruns
  <1> QED
    BY <1>2, ChainInvariant, PTL
=============================================================================
