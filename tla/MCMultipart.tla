----------------------------- MODULE MCMultipart -----------------------------
(* Values for TLC: two clients race on the parts of one or two uploads.    *)
EXTENDS Multipart, TLC

MCPartNumbers == 1 .. 2

(* A client never differs from another, and no content does either except  *)
(* in its size.                                                            *)
ClientSymmetry == Permutations(Clients)
=============================================================================
