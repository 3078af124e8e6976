------------------------------- MODULE Cascade -------------------------------
(***************************************************************************)
(* The world cascade: a change the narrator declares in some places runs   *)
(* down the places they contain, one bounded round of model calls at a     *)
(* time, and may spread once, to adjacent regions whose turn comes later.  *)
(* CascadeSystem keeps the regions put off in a queue that is never        *)
(* popped: a watermark on the turn says how far it has been drained.       *)
(***************************************************************************)
EXTENDS Director, Sequences, SequencesExt

CONSTANTS
    Places,             \* the Place entities
    Below,              \* the places each place contains, in the graph's order
    Beside,             \* the places each place is adjacent to
    Breadth,            \* CASCADE_BREADTH: places asked about in one round
    NodeBudget,         \* CASCADE_NODE_BUDGET: places asked about in one walk
    SecondaryBreadth    \* CASCADE_SECONDARY_BREADTH: regions one walk spreads to

ASSUME CascadeAssumption ==
    /\ NoPlace \notin Places /\ IsFiniteSet(Places)
    /\ Below \in [Places -> Seq(Places)]
    /\ Beside \in [Places -> SUBSET Places]
    /\ Breadth \in Nat \ {0}
    /\ NodeBudget \in Nat
    /\ SecondaryBreadth \in Nat

-----------------------------------------------------------------------------
(* The graph. *)

Children(p) == ToSet(Below[p])
Parents(p) == {q \in Places : p \in Children(q)}

AdjacentRegions(p) ==
    (Beside[p] \cup UNION {Beside[q] \cup Children(q) : q \in Parents(p)}) \ {p}

\* Every verdict the model can give on p: no change, or a change and the regions it
\* should spread to, in order.  An unusable answer and a call that raised count as
\* no change; a name that is no neighbour of p is ignored and left out.
Verdicts(p) == {[evolve |-> FALSE, spread |-> <<>>]}
               \cup [evolve : {TRUE},
                     spread : UNION {SetToSeqs(rs) : rs \in SUBSET AdjacentRegions(p)}]

\* The places reached from p in any number of steps.
Reach(step(_), p) ==
    LET within[n \in 0..Cardinality(Places)] ==
            IF n = 0 THEN {p}
            ELSE within[n - 1] \cup UNION {step(q) : q \in within[n - 1]}
    IN within[Cardinality(Places)]

\* _scene_subtree: up to the root of the scene and down again.  A scene that is
\* no place has no parent and no child.
SceneSubtree(scene) ==
    IF scene \notin Places THEN {scene}
    ELSE UNION {Reach(Children, root) :
                root \in {q \in Reach(Parents, scene) : Parents(q) = {}}}

-----------------------------------------------------------------------------
(* The queue of regions put off. *)

DrainedThrough(history) == Latest({e.n : e \in Of(history, "watermark")})

\* Mutant: the turn the watermark names is drained again.
Pending_again(history) ==
    {e \in Of(history, "deferred") : e.turn >= DrainedThrough(history)}

Pending(history) == {e \in Of(history, "deferred") : e.turn > DrainedThrough(history)}

Watermark(history, turn) ==
    IF Pending(history) = {} THEN {}
    ELSE {Event("watermark", turn, NoPlace, Latest(Turns(Pending(history))))}

\* cascade_trigger: what the narrator declared in the player's turn, the last one
\* with an event that is not the harness's own (every action states the clock).
\* A deferral or a watermark is a world_change too, and triggers nothing; a hop
\* done in place is not told apart from a declared change.
Roots(history) ==
    LET player == Latest(Turns(Of(history, "clock_advanced")))
    IN {e.place : e \in {d \in history : /\ d.type \in {"declared", "hop"}
                                         /\ d.turn = player
                                         /\ d.place \in Places}}

\* The members of s that are not in skipped, in order.
Without(s, skipped) ==
    FoldLeft(LAMBDA kept, p : IF p \in skipped THEN kept ELSE Append(kept, p), <<>>, s)

-----------------------------------------------------------------------------
(* One breadth-first walk: the level to ask about next, the places met, the *)
(* number asked about, the places that changed in this call and the regions *)
(* to spread to.  Only the walk from the declared places opens a ring.      *)

NoWalk == [frontier |-> <<>>, seen |-> {}, nodes |-> 0, changed |-> {},
           targets |-> <<>>, ring |-> FALSE]

WalkFrom(frontier, seen, changed, ring) ==
    [frontier |-> frontier, seen |-> seen, nodes |-> 0, changed |-> changed,
     targets |-> <<>>, ring |-> ring]

\* The region changed when it was put off: only what it contains is asked about.
DrainWalk(region, changed) ==
    WalkFrom(Without(Below[region], {region}),
             {region} \cup Children(region), changed, FALSE)

DescendWalk(order, changed) == WalkFrom(order, ToSet(order), changed, TRUE)

\* The part of the level the caps leave; the rest is skipped for good.
Asked(w) ==
    SubSeq(w.frontier, 1, Min({Len(w.frontier), Breadth, NodeBudget - w.nodes}))

\* The effect of the verdict on p, taken in the order of the level.
Visit(w, p, v) ==
    LET kids == Without(Below[p], w.seen)
        met == w.changed \cup {p} \cup w.seen \cup ToSet(w.targets)
        spread == IF w.ring THEN Without(v.spread, met) ELSE <<>>
    IN IF ~v.evolve THEN w
       ELSE [w EXCEPT !.frontier = @ \o kids,
                      !.seen = @ \cup ToSet(kids),
                      !.changed = @ \cup {p},
                      !.targets = @ \o spread]

\* A whole level: the answers come back in any order and are put in the order
\* of the level before they have an effect.
Level(w, verdict) ==
    FoldLeft(LAMBDA acc, p : Visit(acc, p, verdict[p]),
             [w EXCEPT !.frontier = <<>>, !.nodes = @ + Len(Asked(w))],
             Asked(w))

Evolved(w, verdict, turn) ==
    {Event("place_evolved", turn, p, 0) : p \in {q \in ToSet(Asked(w)) : verdict[q].evolve}}

\* Mutant: one region too many.
Hops_extra(w, scene, turn) ==
    {Event(IF r \in SceneSubtree(scene) THEN "hop" ELSE "deferred", turn, r, 0) :
        r \in ToSet(SubSeq(w.targets, 1, Min({Len(w.targets), SecondaryBreadth + 1})))}

\* _emit_hops: the first regions named; one outside the scene's subtree waits.
Hops(w, scene, turn) ==
    {Event(IF r \in SceneSubtree(scene) THEN "hop" ELSE "deferred", turn, r, 0) :
        r \in ToSet(SubSeq(w.targets, 1, Min({Len(w.targets), SecondaryBreadth})))}

=============================================================================
