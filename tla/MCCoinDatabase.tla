--------------------------- MODULE MCCoinDatabase ---------------------------
(* Small instances of CoinDatabase: five transactions, of which a and c have *)
(* the same hash and a spends the output c has more than it, whose amount    *)
(* reads as its index; b spends an output with a larger index than its own,  *)
(* and w has an output more than a locator can name.                         *)
EXTENDS CoinDatabase

CONSTANTS g, a, b, c, w,            \* transactions
          hg, ha, hb, hw, h0        \* hashes

In(h, i) == [hash |-> h, index |-> i]

MCTx      == {g, a, b, c, w}
MCHash    == {hg, ha, hb, hw, h0}
MCTxHash  == [t \in MCTx |-> CASE t = g -> hg [] t = b -> hb [] t = w -> hw [] OTHER -> ha]
MCInputs  == [t \in MCTx |-> CASE t = g -> <<In(h0, 0)>>
                               [] t = a -> <<In(ha, 1)>>
                               [] t = b -> <<In(hg, 0), In(hg, 1)>>
                               [] t = c -> <<In(hg, 1)>>
                               [] OTHER -> <<In(hb, 0)>>]
MCOutputs == [t \in MCTx |-> CASE t = g -> <<1, 2>>
                               [] t = a -> <<3>>
                               [] t = b -> <<4>>
                               [] t = c -> <<5, 7>>
                               [] OTHER -> <<6, 8, 9>>]
MCBlocks  == { <<g>>, <<a>>, <<a, c>>, <<b>>, <<w>> }
=============================================================================
