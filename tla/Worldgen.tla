------------------------------- MODULE Worldgen -------------------------------
(***************************************************************************)
(* The generators of world genesis, loop/genesis: which things each step   *)
(* creates, where it puts them and who worded them.  The dice decide how   *)
(* many, the model words them, and what the player asked for comes first.  *)
(*                                                                         *)
(* A thing has a kind and a number (from 1; the ids in the code count from *)
(* 0), the thing it is attached to, its author (a wish of the player,      *)
(* "model" or "stub") and the attempt whose dice were used.                *)
(***************************************************************************)
EXTENDS GenesisSpec, FiniteSets

CONSTANTS
    Dice(_, _, _, _),   \* Dice(step, attempt, lo, hi): the seeded draw
    Personal            \* the wished threads that are bound to the protagonist

\* The steps of bootstrap_world, in order.
Steps == <<"campaign_seeded", "frame", "regions", "local_map", "protagonist",
           "factions", "npcs", "codex", "threads", "opening">>
Written == ToSet(Steps) \ {"campaign_seeded"}

Thing(kind, n, at, by, attempt) ==
    [id |-> <<kind, n>>, at |-> at, by |-> by, dice |-> attempt]

Nowhere == <<"nowhere", 0>>
Region(n) == <<"region", n>>
Town == <<"town", 1>>
Venue(n) == <<"venue", n>>

\* Mutant: the dice alone decide how many.
AtLeast_dice(wishes, n) == n

AtLeast(wishes, n) == IF Len(wishes) > n THEN Len(wishes) ELSE n
By(wishes, i, made) == IF i <= Len(wishes) THEN wishes[i] ELSE made

GenFrame(spec, made, a) == <<Thing("world", 1, Nowhere, By(spec["genre"], 1, made), a)>>

NRegions(spec, a) == AtLeast(spec["regions"], Dice("frame", a, 3, 5))
NFactions(spec, a) == AtLeast(spec["factions"], Dice("frame", a, 3, 5))
NVenues(spec, a) == AtLeast(spec["venues"], Dice("local_map", a, 2, 4))
NNeighbors(spec, a) == AtLeast(spec["neighbors"], Dice("local_map", a, 1, 2))

\* The first region is the start; every other one is linked to it.
GenRegions(spec, made, a) ==
    [i \in 1..NRegions(spec, a) |->
        Thing("region", i, IF i = 1 THEN Nowhere ELSE Region(1), By(spec["regions"], i, made), a)]

\* The start town and its neighbours in the start region, its venues in the town.
GenLocalMap(spec, made, a) ==
    <<Thing("town", 1, Region(1), made, a)>>
    \o [i \in 1..NNeighbors(spec, a) |->
            Thing("neighbor", i, Region(1), By(spec["neighbors"], i, made), a)]
    \o [i \in 1..NVenues(spec, a) |->
            Thing("venue", i, Town, By(spec["venues"], i, made), a)]

GenProtagonist(spec, made, a) ==
    <<Thing("protagonist", 1, Venue(1), By(spec["name"], 1, made), a)>>

\* n comes from the frame, whose attempt may be older.
GenFactions(spec, made, a, n) ==
    [i \in 1..n |-> Thing("faction", i, Nowhere, By(spec["factions"], i, made), a)]

\* The venues take the characters in turn.
GenNpcs(spec, made, a, venues) ==
    [i \in 1..AtLeast(spec["npcs"], Dice("npcs", a, 2, 4)) |->
        Thing("npc", i, Venue(1 + ((i - 1) % venues)), By(spec["npcs"], i, made), a)]

\* The model writes two to four entries; two are enough here.
GenCodex(made, a) == [i \in 1..2 |-> Thing("codex", i, Nowhere, made, a)]

\* The campaign's lines, then the protagonist's own.  A wished line whose place
\* is no venue starts in the first one; the others take the venues in turn.
ThreadVenue(wishes, i, venues) ==
    IF i <= Len(wishes) THEN Venue(1) ELSE Venue(1 + ((i - 1) % venues))

GenThreads(spec, made, a, venues) ==
    LET campaign == SelectSeq(spec["threads"], LAMBDA w : w \notin Personal)
        personal == SelectSeq(spec["threads"], LAMBDA w : w \in Personal)
    IN  [i \in 1..AtLeast(campaign, Dice("threads", a, 3, 5)) |->
            Thing("thread", i, ThreadVenue(campaign, i, venues), By(campaign, i, made), a)]
        \o [i \in 1..AtLeast(personal, Dice("threads", a, 1, 2)) |->
            Thing("pthread", i, ThreadVenue(personal, i, venues), By(personal, i, made), a)]

\* Prose, without dice.
GenOpening(wishes, made) == <<Thing("opening", 1, Venue(1), By(wishes, 1, made), 0)>>
=============================================================================
