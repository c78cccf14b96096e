--------------------------- MODULE MCObjectStore ---------------------------
(***************************************************************************)
(* Instances of ObjectStore for TLC: one bucket or two, two or three        *)
(* objects whose keys start with different or with the same two letters.    *)
(***************************************************************************)
EXTENDS ObjectStore, TLC

CONSTANTS p1, p2, b1, b2, o1, o2, o3, h1, h2

OneBucket == [o \in Objects |-> b1]
SameDir == [o \in Objects |-> 1]
OwnDirs == [o \in Objects |-> IF o = o1 THEN 1 ELSE 2]

\* Requests are interchangeable, and so are contents.
RequestSymmetry == Permutations(Procs) \cup Permutations(Hashes)
=============================================================================
