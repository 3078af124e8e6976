----------------------------- MODULE FactGraph -----------------------------
(* The clock and the dated facts of a world: kernel/clock.py, facts/*.py.   *)
(* A history is the list of one (subject, predicate) or one single-valued   *)
(* (source, relation): FactGraph keeps both the same way.                   *)
EXTENDS Integers, Sequences, SequencesExt, FiniteSetsExt

CONSTANT Nothing      \* Python's None

ASSUME NothingAssumption == Nothing \notin Int

BandsPerDay == 4

\* to_units and advance: days carry, bands wrap.
Units(day, band) == day * BandsPerDay + band
Advance(now, by) ==
  LET units == Units(now.day, now.band) + by.days * BandsPerDay + by.bands
  IN  [day |-> units \div BandsPerDay, band |-> units % BandsPerDay]

\* A dated value; the one in force has no end.
Dated(value, day) == [value |-> value, start |-> day, end |-> Nothing]
Current(f) == f.end = Nothing
ValidAt(f, day) == f.start <= day /\ (Current(f) \/ day < f.end)

\* value_at, neighbors: the first value in force on that day.
ValueAt(history, day) ==
  LET valid == {i \in DOMAIN history : ValidAt(history[i], day)}
  IN  IF valid = {} THEN Nothing ELSE history[Min(valid)].value

\* "non-monotonic assert": a value may not start before the one it replaces.
OutOfOrder(history, day) ==
  \E i \in DOMAIN history : Current(history[i]) /\ history[i].start > day

\* A bug to find: the value replaced stays in force.
Supersede_open(history, value, day) == Append(history, Dated(value, day))

\* assert_fact, add_relation: close what was in force, open the new value.
Supersede(history, value, day) ==
  LET Close(f) == IF Current(f) THEN [f EXCEPT !.end = day] ELSE f
  IN  Append([i \in DOMAIN history |-> Close(history[i])], Dated(value, day))
============================================================================
