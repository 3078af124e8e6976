--------------------------- MODULE MCEventStore ---------------------------
(* Instances of EventStore for TLC.  Sessions and action ids are           *)
(* interchangeable, so runs without liveness take their permutations.      *)
EXTENDS EventStore, TLC

Interchangeable == Permutations(Sessions) \cup Permutations(ActionIds)
===========================================================================
