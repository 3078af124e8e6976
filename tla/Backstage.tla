------------------------------ MODULE Backstage ------------------------------
(***************************************************************************)
(* One turn of play as the hidden-dice director and the world cascade see  *)
(* it, and the player's /rewind.  A turn prepares its events in private:   *)
(* the narrator's commit, then the digest of old scenes, the director, and *)
(* the cascade with its model calls.  A hook that raises loses its own events only; the whole   *)
(* proposal may be dropped at any point, and is published whole.           *)
(*                                                                         *)
(* log is the history still visible.  The other hooks of the turn add no   *)
(* event these two read.                                                   *)
(***************************************************************************)
EXTENDS Cascade, Recap

CONSTANTS
    Declarations,   \* the sets of places a narrator may declare changed
    MaxTurn         \* bound: turns of a history

ASSUME BackstageAssumption == MaxTurn \in Nat /\ Declarations \subseteq SUBSET Places

VARIABLES
    log,      \* the published events
    staged,   \* the events of the turn being prepared
    pc,       \* what the turn does next
    mark,     \* the savepoint of the cascade hook
    drain,    \* the queued regions still to be walked
    walk,     \* the walk under way
    asked     \* the model calls of the cascade in this turn

cascadeVars == <<mark, drain, walk, asked>>
vars == <<log, staged, pc, cascadeVars>>

\* EventBatch.iter_events: what the hooks of the turn see.
Seen == log \cup staged
Turn == Latest(Turns(log)) + 1

\* The scene of the turn: scenes are numbered, and no place is a number.
Scene == Max({1} \cup {e.n : e \in Of(log, "scene_advanced")})

Stage(events) == staged' = staged \cup {Stamp(e, Turn) : e \in events}

Init ==
    /\ log = {}
    /\ staged = {}
    /\ pc = "idle"
    /\ mark = {}
    /\ drain = {}
    /\ walk = NoWalk
    /\ asked = 0

-----------------------------------------------------------------------------
\* The narrator is shown the pending directive and commits: the clock, the prose
\* and perhaps a change of the world.  That the prose remembers what it was shown
\* is an addition of the model.
Narrate(areas) ==
    /\ pc = "idle"
    /\ Turn <= MaxTurn
    /\ Stage({Event("clock_advanced", Turn, NoPlace, 0),
              Event("narration_recorded", Turn, Scene, Inject(log))}
             \cup {Event("declared", Turn, p, 0) : p \in areas})
    /\ pc' = "digest"
    /\ UNCHANGED <<log, cascadeVars>>

\* Phase 3 of digest_fleet; a hook that fails has the effect of no summary.
Digest(events) ==
    /\ pc = "digest"
    /\ Stage(events)
    /\ pc' = "direct"
    /\ UNCHANGED <<log, cascadeVars>>

Direct(out) ==
    /\ pc = "direct"
    /\ Stage(Directed(Seen, Turn, out))
    /\ pc' = "cascade"
    /\ UNCHANGED <<log, cascadeVars>>

DirectorFails ==
    /\ pc = "direct"
    /\ pc' = "cascade"
    /\ UNCHANGED <<log, staged, cascadeVars>>

\* run_cascade begins with the queue, if there is anything to do at all.
BeginCascade ==
    /\ pc = "cascade"
    /\ Pending(Seen) \cup Roots(Seen) # {}
    /\ pc' = "drain"
    /\ mark' = staged
    /\ drain' = Pending(Seen)
    /\ UNCHANGED <<log, staged, walk, asked>>

NothingToCascade ==
    /\ pc = "cascade"
    /\ Pending(Seen) \cup Roots(Seen) = {}
    /\ pc' = "publish"
    /\ UNCHANGED <<log, staged, cascadeVars>>

\* run_cascade returns.
LeaveCascade ==
    /\ mark' = {}
    /\ drain' = {}
    /\ walk' = NoWalk
    /\ asked' = 0

\* The next queued region.  That it was walked is an addition of the model.
DrainRegion(e) ==
    /\ pc = "drain"
    /\ Asked(walk) = <<>>
    /\ e \in drain
    /\ drain' = drain \ {e}
    /\ walk' = DrainWalk(e.place, walk.changed)
    /\ Stage({Event("drained", Turn, e.place, e.turn)} \cup Hops(walk, Scene, Turn))
    /\ UNCHANGED <<log, pc, mark, asked>>

\* One level: every place of it is asked about at once.
AskLevel ==
    /\ pc \in {"drain", "descend"}
    /\ Asked(walk) # <<>>
    /\ \E verdict \in [ToSet(Asked(walk)) -> UNION {Verdicts(p) : p \in ToSet(Asked(walk))}] :
        /\ \A p \in DOMAIN verdict : verdict[p] \in Verdicts(p)
        /\ Stage(Evolved(walk, verdict, Turn))
        /\ walk' = Level(walk, verdict)
    /\ asked' = asked + Len(Asked(walk))
    /\ UNCHANGED <<log, pc, mark, drain>>

\* The queue is done with: the watermark moves, and
\* the places declared in this turn are next, in the order they were declared.
BeginDescent ==
    /\ pc = "drain"
    /\ drain = {}
    /\ Asked(walk) = <<>>
    /\ Stage(Hops(walk, Scene, Turn) \cup Watermark(Seen, Turn))
    /\ \E order \in SetToSeqs(Roots(Seen)) : walk' = DescendWalk(order, walk.changed)
    /\ pc' = "descend"
    /\ UNCHANGED <<log, mark, drain, asked>>

EndCascade ==
    /\ pc = "descend"
    /\ Asked(walk) = <<>>
    /\ Stage(Hops(walk, Scene, Turn))
    /\ pc' = "publish"
    /\ LeaveCascade
    /\ UNCHANGED log

CascadeFails ==
    /\ pc \in {"drain", "descend"}
    /\ staged' = mark
    /\ pc' = "publish"
    /\ LeaveCascade
    /\ UNCHANGED log

EndTurn ==
    /\ pc' = "idle"
    /\ staged' = {}
    /\ LeaveCascade

\* The protagonist moved or a day went by, and the next turn is a new scene; or not.
Publish(moved) ==
    /\ pc = "publish"
    /\ log' = Seen \cup (IF moved THEN {Event("scene_advanced", Turn, NoPlace, Scene + 1)}
                         ELSE {})
    /\ EndTurn

\* The narration or the publication failed, or the process died.
Drop == pc # "idle" /\ UNCHANGED log /\ EndTurn

\* /rewind, between turns.
Rewind(turn) ==
    /\ pc = "idle"
    /\ turn \in Turns(log)
    /\ log' = {e \in log : e.turn < turn}
    /\ UNCHANGED <<staged, pc, cascadeVars>>

Next ==
    \/ \E areas \in Declarations : Narrate(areas)
    \/ \E events \in Digests(Seen, Turn) : Digest(events)
    \/ \E out \in Outcomes : Direct(out)
    \/ DirectorFails
    \/ BeginCascade
    \/ NothingToCascade
    \/ \E e \in drain : DrainRegion(e)
    \/ AskLevel
    \/ BeginDescent
    \/ EndCascade
    \/ CascadeFails
    \/ \E moved \in BOOLEAN : Publish(moved)
    \/ Drop
    \/ \E turn \in 1..MaxTurn : Rewind(turn)

Spec == Init /\ [][Next]_vars

-----------------------------------------------------------------------------
(* Properties. *)

Woven(t) == {e.turn : e \in {d \in Of(log, "narration_recorded") : d.n = t}}

\* Every directive of the history that survives is given to the narrator of the
\* very next turn, and again only while the director's hook has failed since:
\* whatever is rewound, dropped or lost in between, it is neither skipped nor
\* shown after it was consumed.
DirectiveShown ==
    \A t \in Fires(log) :
        /\ t < Latest(Turns(log)) => t + 1 \in Woven(t)
        /\ \A u \in Woven(t) :
            /\ t < u
            /\ \A c \in Of(log, "directive_consumed") : t <= c.n => u <= c.turn

\* The director never fires in two turns in a row, rewinds and lost hooks included.
NeverTwiceRunning == \A t \in Fires(Seen) : t + 1 \notin Fires(Seen)

\* At most one directive waits, so showing the newest one hides no other.
NoneOvertaken == Cardinality(Unshown(Seen)) <= 1

\* The director's mailbox over turns that fail, are dropped and are rewound.
DirectivesInOrder == DirectiveShown /\ NeverTwiceRunning /\ NoneOvertaken

\* A region put off is walked exactly once before the watermark passes it, and
\* never again, although the turn numbers the watermark speaks of are used again
\* after a rewind.
DrainedOnce ==
    \A d \in Of(log, "deferred") :
        LET walks == {e \in Of(log, "drained") : e.place = d.place /\ e.n = d.turn}
        IN Cardinality(walks) = (IF d.turn <= DrainedThrough(log) THEN 1 ELSE 0)

\* The queue never holds more than one turn's regions, however often the hook
\* fails, and the model is asked at most the budget of each walk.
QueueBounded ==
    /\ Cardinality(Pending(Seen)) <= SecondaryBreadth
    /\ pc \in {"drain", "descend"} =>
          asked <= NodeBudget * (1 + Cardinality(Of(staged, "drained")))

\* Spreading stops after one ring: a turn spreads a change only if its narrator
\* declared one, and to no more regions than one walk may, however many it makes.
OneRing == \A t \in Turns(Seen) :
    LET spread == {e \in Of(Seen, "deferred") \cup Of(Seen, "hop") : e.turn = t}
    IN /\ Cardinality(spread) <= SecondaryBreadth
       /\ spread # {} => \E c \in Of(Seen, "declared") : c.turn = t

\* A place changes only as one that was declared, one directly inside a region
\* drained in that turn, or one whose container changed in the same turn.
ChangeHasCause ==
    \A e \in Of(Seen, "place_evolved") :
        \/ \E c \in Of(Seen, "declared") : c.turn = e.turn /\ c.place = e.place
        \/ \E c \in Of(Seen, "drained") : c.turn = e.turn /\ e.place \in Children(c.place)
        \/ \E c \in Of(Seen, "place_evolved") :
              c.turn = e.turn /\ e.place \in Children(c.place)

\* No declaration costs the model, or the map, more than the limits allow, and no
\* place changes without a cause in its turn.
SpreadIsBounded == QueueBounded /\ OneRing /\ ChangeHasCause

\* Turns whose digest owed a summary and wrote none.
Unpaid == {t \in Turns(log) :
    /\ t \notin Turns(Of(log, "scene_summarized"))
    /\ AgedOut(Story({e \in log : e.turn <= t})) # {}}

\* The narrator is shown no turn twice.  What it is not shown at all are scenes
\* that wait for a summary, never more of them than digests that failed, and they
\* lie between what is summarised and what is shown word for word: whatever
\* fails, is dropped or is rewound, no summary lands on the wrong scene.
MemoryIsWhole ==
    LET story == Story(log)
        shown == Shown(story)
        waiting == UNION {story.scenes[i].raw : i \in AgedOut(story)}
    IN /\ (UNION shown) \cup waiting = Turns(log)
       /\ \A x, y \in shown : x # y => x \cap y = {}
       /\ (UNION shown) \cap waiting = {}
       /\ Cardinality(AgedOut(story)) <= Cardinality(Unpaid)
       /\ \A i \in AgedOut(story), j \in DOMAIN story.scenes :
             story.scenes[j].summary # {} => j < i

=============================================================================
