---------------------------- MODULE MCLoreLines ----------------------------
(* Instances of LoreLines for TLC: the tiers keep the order of the code's  *)
(* lifespans (3, 7, 20 days), caps (15, 8, 2) and stages (2, 3, 5) and of  *)
(* IDLE_DEMOTE_DAYS = 2 and REFRESH_INTERVAL_DAYS = 3, on a shorter clock. *)
EXTENDS LoreLines, TLC

\* Lives of the lifecycle runs, within MaxDay = 4.
ShortLives == [simple |-> 2, medium |-> 2, complex |-> 3]
Stages == [simple |-> 1, medium |-> 2, complex |-> 3]

\* The caps are out of reach there.
ManySlots == [tier \in Tiers |-> 3]

\* The run about caps: the simple tier is full from the start, the others have
\* a slot each, which the narrator frees by closing a line.  With Target = 2 a
\* tier may hold two lines, and there are four: batch after batch, each of the
\* open tiers could grow past its bound.
FewSlots == [simple |-> 0, medium |-> 1, complex |-> 1]
OneDay == [tier \in Tiers |-> 1]
OneStage == [tier \in Tiers |-> 1]

\* Bound of that run: four lines at a time, with either one stage told among
\* them or one line that the narrator or the backstop coined.
FewLines ==
    /\ Cardinality(Live) <= 4
    /\ Cardinality(told) + Cardinality(Live \cap NarratedLines) <= 1

\* Generated ids are interchangeable, and so are towns.
Interchangeable == Permutations(GeneratedLines) \cup Permutations(Towns)
============================================================================
