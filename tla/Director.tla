------------------------------ MODULE Director ------------------------------
(***************************************************************************)
(* The hidden-dice director: what DirectorSystem projects from the events  *)
(* that are visible, what it shows the narrator, and what run_director     *)
(* adds at the end of a turn.                                              *)
(*                                                                         *)
(* An event is its type, the turn it is stamped with, the place it names   *)
(* and one number.  The order of the events of one turn does not matter to *)
(* any projection here, so a history is a set of events.                   *)
(***************************************************************************)
EXTENDS Integers, FiniteSetsExt

CONSTANTS
    NoPlace,      \* the place of an event that names none
    MaxThreads    \* _MAX_THREADS: threads the director keeps open

ASSUME MaxThreadsAssumption == MaxThreads \in Nat

Event(type, turn, place, n) ==
    [type |-> type, turn |-> turn, place |-> place, n |-> n]

Of(history, type) == {e \in history : e.type = type}
Turns(events) == {e.turn : e \in events}
Latest(numbers) == Max({0} \cup numbers)

\* EventBatch.append overwrites the turn the event was built with.
\* Mutant: the event keeps it.
Stamp_kept(e, turn) == e
Stamp(e, turn) == [e EXCEPT !.turn = turn]

-----------------------------------------------------------------------------
(* The projection: the directives ever fired, each named by its turn, and   *)
(* the turn up to which they have been consumed.                            *)

Fires(history) == Turns(Of(history, "director_fired"))

ConsumedThrough(history) ==
    Latest({e.n : e \in Of(history, "directive_consumed")})

Threads(history) == {e.n : e \in Of(history, "thread_open")}

\* The directives the narrator has not been shown.
Unshown(history) == {t \in Fires(history) : t > ConsumedThrough(history)}

\* inject: the narrator is shown the newest of them; 0 is none.
Inject(history) == Latest(Unshown(history))

-----------------------------------------------------------------------------
(* The hook.                                                                *)

\* Everything fired so far was shown by now.  The event is built with the turn
\* it consumes.
Consumption(history) ==
    {Event("directive_consumed", t, NoPlace, t) :
        t \in {u \in Fires(history) : \A v \in Fires(history) : v <= u}}

\* Backstop: no fire in this turn or the one before.
Rested(history) ==
    Fires(history) = {} \/ Latest(Fires(history)) < Latest(Turns(history)) - 1

\* _handle_dormant.  Every thread the director opens is dormant and the scheduler
\* skips those, so no thread is due and a new one is opened while there is room.
Dormant(history, turn) ==
    IF Cardinality(Threads(history)) < MaxThreads
    THEN {Event("thread_open", turn, NoPlace, Cardinality(Threads(history)) + 1)}
    ELSE {}

\* What the dice may say, the pacing deciding only how often.  A dormant roll
\* without an unused archetype changes as little as a quiet one: the oracle_roll
\* kept for the record is left out.
Outcomes == {"quiet", "front_stage", "dormant_thread"}

\* Everything one call of run_director appends in the given turn.
Directed(history, turn, out) ==
    Consumption(history)
    \cup (IF ~Rested(history) \/ out = "quiet" THEN {}
          ELSE IF out = "front_stage" THEN {Event("director_fired", turn, NoPlace, 0)}
          ELSE Dormant(history, turn))

=============================================================================
