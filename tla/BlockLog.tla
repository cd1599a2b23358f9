------------------------------ MODULE BlockLog ------------------------------
(***************************************************************************)
(* What the active chain is to its readers: a log of blocks that starts    *)
(* with the genesis block.  Every block after it links to the one before,  *)
(* blocks are only ever appended, one at a time, and none is replaced.     *)
(***************************************************************************)
EXTENDS Integers, Sequences

CONSTANTS Block, Genesis, BlockHash, PrevHash

VARIABLE log

Init == log = <<Genesis>>

AppendBlock(b) ==
    /\ PrevHash[b] = BlockHash[log[Len(log)]]
    /\ log' = Append(log, b)

Next == \E b \in Block : AppendBlock(b)

Spec == Init /\ [][Next]_log
=============================================================================
