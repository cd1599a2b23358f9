----------------------------- MODULE AtomicMap -----------------------------
(***************************************************************************)
(* What the operations of a key-value store that end in "safely" promise:  *)
(* a map from keys to values that a batch of writes changes in one step,   *)
(* and that a batch of reads sees in one state.                            *)
(***************************************************************************)
EXTENDS Sequences, Integers

CONSTANTS Key, Value, Empty,
          Batches, Lookups    \* the lists of writes, and of lookups, of the calls

VARIABLES map, done     \* the map, and the last call: what it asked and what it read

Empties == [k \in Key |-> Empty]

\* The map after a batch: the last operation on a key decides.
After(m, batch) ==
    [k \in Key |->
        LET on == { i \in DOMAIN batch : batch[i].key = k }
        IN  IF on = {} THEN m[k]
            ELSE LET last == batch[CHOOSE i \in on : \A j \in on : j <= i]
                 IN  IF last.op = "delete" THEN Empty ELSE last.value]

Nothing == [asked |-> <<>>, reads |-> <<>>]

Init  == map = Empties /\ done = Nothing
Write == \E batch \in Batches :
            /\ map' = After(map, batch)
            /\ done' = [asked |-> batch, reads |-> <<>>]
Read  == \E lookups \in Lookups :
            /\ done' = [asked |-> lookups,
                        reads |-> [i \in DOMAIN lookups |-> map[lookups[i].key]]]
            /\ UNCHANGED map
Forget == done' = Nothing /\ UNCHANGED map

Spec == Init /\ [][Write \/ Read \/ Forget]_<<map, done>>
=============================================================================
