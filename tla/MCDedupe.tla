------------------------------ MODULE MCDedupe ------------------------------
(* Values for TLC: one bucket, two objects with home directories of their  *)
(* own, one request at a time next to one scanner.                         *)
EXTENDS Dedupe, TLC

CONSTANTS p1, b1, o1, o2, h1, h2, s1

OneBucket == [o \in Objects |-> b1]
OwnDirs == [o \in Objects |-> IF o = o1 THEN 1 ELSE 2]
=============================================================================
