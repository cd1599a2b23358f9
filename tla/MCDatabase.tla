----------------------------- MODULE MCDatabase -----------------------------
(* A small instance of Database: two keys, two values besides the missing     *)
(* entry, batches that write both keys or one key twice.                      *)
EXTENDS Database

CONSTANTS t1, t2, t3, k1, k2, v

MCBatches  == { <<Put(k1, v), Put(k2, v)>>, <<Delete(k1), Put(k2, Empty)>>,
                <<Put(k1, v), Delete(k1)>> }
MCKeyLists == { <<k1, k2>> }
=============================================================================
