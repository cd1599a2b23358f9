------------------------------ MODULE MCChain ------------------------------
(* Small instances of Chain: a tree of blocks with one transaction each.     *)
(*                                                                           *)
(*    G --- A2 --- A3 --- A4 --- A5       A4 spends again what A2 spent, and *)
(*     \--- B2 --- B3 --- B4              both have transactions of one hash;*)
(*     \--- I2                            A5 and B3 spend outputs of A2, I2  *)
(*    (unknown parent) --- X              what no block provides, X nothing  *)
EXTENDS Chain

CONSTANTS G, A2, A3, A4, A5, B2, B3, B4, I2, X,     \* blocks
          D,                                        \* what damaged texts are read as
          hz, hx, hn                                \* hashes of no block

MCBlock     == {G, A2, A3, A4, A5, B2, B3, B4, I2, X}
MCHashValue == MCBlock \cup {hz, hx}
MCBlockHash == [b \in MCBlock |-> b]
\* The genesis block and a block of each branch have a zero byte in their text;
\* the damaged header names a block of a branch, which may not be stored.
MCDamaged   == {D}
MCLegible   == MCBlock \ {G, A3, B2}
MCPrevHash  == [b \in MCBlock \cup MCDamaged |->
    CASE b = G -> hz [] b \in {A2, B2, I2} -> G [] b = A3 -> A2 [] b = A4 -> A3
      [] b = A5 -> A4 [] b = B3 -> B2 [] b = B4 -> B3 [] b = D -> B2 [] OTHER -> hx]

\* One transaction in each block, known by the name of the block.
MCTxs       == [b \in MCBlock |-> <<b>>]
MCHash      == MCBlock \cup {hn}
MCTxHash    == [t \in MCBlock |-> IF t = A4 THEN A2 ELSE t]
In(h, i)    == [hash |-> h, index |-> i]
MCInputs    == [t \in MCBlock |->
    CASE t = G -> <<In(hn, 0)>> [] t = A2 -> <<In(G, 0)>> [] t = A3 -> <<In(A2, 0)>>
      [] t = A4 -> <<In(G, 0)>> [] t = A5 -> <<In(A2, 1)>> [] t = B2 -> <<In(G, 1)>>
      [] t = B3 -> <<In(A2, 0)>> [] t = B4 -> <<In(G, 1)>>
      [] t = I2 -> <<In(G, 0), In(hn, 1)>> [] OTHER -> <<>>]
MCOutputs   == [t \in MCBlock |-> IF t = G THEN <<1, 2>> ELSE IF t = A2 THEN <<3, 4>> ELSE <<3>>]
=============================================================================
