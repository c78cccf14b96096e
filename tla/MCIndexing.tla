----------------------------- MODULE MCIndexing -----------------------------
(* Values for TLC: two keys, two handlers, a queue of one or two tasks.    *)
EXTENDS Indexing, TLC

MCKeys == 1 .. 2
=============================================================================
