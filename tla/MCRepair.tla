------------------------------ MODULE MCRepair ------------------------------
(* Values for TLC: two buckets, a batch of one attempt, one stubborn       *)
(* object between two that can be repaired.                                *)
EXTENDS Repair, TLC

MCLayout == <<<<"a", "b">>, <<"c">>>>
=============================================================================
