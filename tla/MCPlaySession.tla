--------------------------- MODULE MCPlaySession ---------------------------
(* Instances of PlaySession for TLC. *)
EXTENDS PlaySession, TLC

Interchangeable == Permutations(Sessions)
============================================================================
