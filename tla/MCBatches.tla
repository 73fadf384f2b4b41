----------------------------- MODULE MCBatches -----------------------------
(* Model-checking instances of Batches: which tasks a batch fans out to,    *)
(* and a request that came with max_concurrency 0.                          *)
EXTENDS Batches

CONSTANTS b1, t1, t2, h1

OneBatch == [b \in {b1} |-> <<t1, t2>>]

Serial == [b \in Batch |-> 0]
=============================================================================
