------------------------------- MODULE Commit -------------------------------
(***************************************************************************)
(* The commit a language model answers a turn with, as the gate reads it:  *)
(* kernel/turncommit.py, kernel/validation.py, loop/entity_resolve.py and  *)
(* the validators of the sections modelled.                                *)
(*                                                                         *)
(* A commit is a function from the keys given to their values.  The        *)
(* narration is told apart by what the gate can see of it.  moves is a set *)
(* of references, cast a set of people to create, facts the true names     *)
(* asserted, in order, clock the declared advance.  The section places is  *)
(* resolved and minted like cast, links and materialize refer like moves:  *)
(* one kind of reference stands for all.  Sections no system owns have no  *)
(* content.                                                                *)
(***************************************************************************)
EXTENDS Integers, Sequences, FiniteSetsExt

CONSTANTS
    Names,      \* what the model may call somebody by, beside an id
    Known,      \* the people of the generated world
    Drafted,    \* the ids the model may give the people it creates
    NpcAuto,    \* the ids npc_auto_<day>_<k> of a mint, by k
    Resembles,  \* <<id, name>>: the sketch of a bystander holds the name
    NoName,
    NotAList    \* a value that is not a list of objects

AutoIds == {NpcAuto[k] : k \in DOMAIN NpcAuto}
Ids == Known \cup Drafted \cup AutoIds
\* An id written where a person is meant is a reference like any name.
Refs == Names \cup Ids

Owned == {"moves", "cast", "facts", "clock"}
Required == Owned

\* story: prose; told: a published passage again; fields: JSON of a commit in
\* the prose; silent: the neutral line of a turn with no usable answer; empty:
\* none.
Proses == {"story", "told", "fields", "silent", "empty"}
Person == [id : Ids, name : Names \cup {NoName}, whole : BOOLEAN]
Fact == [subject : Ids, name : Refs]
World == [people : SUBSET Ids, trueNames : SUBSET Fact]

Genesis == [people |-> Known, trueNames |-> {}]

\* dict.update: c with the keys of d.
Updated(c, d) ==
    [k \in DOMAIN c \cup DOMAIN d |-> IF k \in DOMAIN d THEN d[k] ELSE c[k]]

-----------------------------------------------------------------------------
(* entity_resolve. *)

ItemsOf(c, s) == IF s \in DOMAIN c /\ c[s] # NotAList THEN c[s] ELSE {}
Cast(c) == ItemsOf(c, "cast")
Moves(c) == ItemsOf(c, "moves")
Facts(c) ==
    IF "facts" \in DOMAIN c /\ c["facts"] # NotAList THEN c["facts"] ELSE <<>>
FactSet(c) == {Facts(c)[k] : k \in DOMAIN Facts(c)}

\* A JSON object with a narration; the content of a section that is a list.
IsCommit(c) ==
    /\ c = [k \in DOMAIN c |-> c[k]]
    /\ IsFiniteSet(DOMAIN c) /\ "narration" \in DOMAIN c
    /\ Moves(c) \subseteq Refs /\ IsFiniteSet(Moves(c))
    /\ Cast(c) \subseteq Person
    /\ Facts(c) \in Seq(Fact)

\* Ids that will exist after the commit.
Pending(c) == {p.id : p \in Cast(c)}
Exists(r, c, w) == r \in w.people \cup Pending(c)

\* Mutant: the true names recorded in earlier turns are not asked for.
Bearers_unrecorded(r, c, w) ==
    {p.id : p \in {q \in Cast(c) : q.name = r}}
    \cup {f.subject : f \in {g \in FactSet(c) : g.name = r}}

\* The people a name means, in the order the code asks: recorded true names,
\* people created by this commit, its facts, bystanders who look like it.
Bearers(r, c, w) ==
    LET recorded == {f.subject : f \in {g \in w.trueNames : g.name = r}}
        created == {p.id : p \in {q \in Cast(c) : q.name = r}}
        asserted == {f.subject : f \in {g \in FactSet(c) : g.name = r}}
        alike == {i \in w.people : <<i, r>> \in Resembles}
        answers == <<recorded, created, asserted, alike>>
        found == {k \in 1..4 : answers[k] # {}}
    IN IF found = {} THEN {} ELSE answers[Min(found)]

\* The first counter that gives an id nobody has.
FreshId(c, w) == NpcAuto[Min({k \in DOMAIN NpcAuto : ~Exists(NpcAuto[k], c, w)})]

\* A create in cast, whatever cast was, and the true name in facts.
Minted(r, c, w) ==
    LET i == FreshId(c, w) IN
    Updated(c, [cast |-> Cast(c) \cup {[id |-> i, name |-> NoName, whole |-> TRUE]},
                facts |-> Append(Facts(c), [subject |-> i, name |-> r])])

\* One reference made an id; a new name is minted.
Referring(r, c, w) ==
    LET move(d, i) == [d EXCEPT !["moves"] = @ \cup {i}] IN
    IF Exists(r, c, w) THEN move(c, r)
    ELSE IF Bearers(r, c, w) # {} THEN move(c, CHOOSE i \in Bearers(r, c, w) : TRUE)
    ELSE move(Minted(r, c, w), FreshId(c, w))

Augmented(c, w) ==
    IF Moves(c) = {} THEN c
    ELSE FoldSet(LAMBDA r, d : Referring(r, d, w), [c EXCEPT !["moves"] = {}], Moves(c))

-----------------------------------------------------------------------------
(* validate_commit with the validators of the owners, and validate_narration. *)

\* Mutant: whoever a fact speaks of is taken to be created by the commit.
Created_named(c) == Pending(c) \cup {f.subject : f \in FactSet(c)}

\* Entities stubbed while the sections are validated.
Created(c) == {p.id : p \in Cast(c)}

BadNarration(c) == c["narration"] \in {"empty", "fields", "told"}
BadShape(c, s) == c[s] = NotAList
Dangling(c, s, w) ==
    LET there == w.people \cup Created(c) IN
    \/ s = "moves" /\ ~(Moves(c) \subseteq there)
    \/ s = "facts" /\ \E f \in FactSet(c) : f.subject \notin there
Incomplete(c, s) == s = "cast" /\ \E p \in Cast(c) : ~p.whole
NoClock(c, s) == s = "clock" /\ c[s] = {}

Sections(c) == DOMAIN c \ {"narration"}
Unowned(c) == Sections(c) \ Owned
Missing(c) == Required \ Sections(c)

\* The keys the errors name.
Failing(c, w) ==
    {"narration" : x \in {y \in {c} : BadNarration(y)}}
    \cup Unowned(c) \cup Missing(c)
    \cup {s \in Sections(c) \cap Owned :
             \/ BadShape(c, s)
             \/ Dangling(c, s, w)
             \/ Incomplete(c, s)
             \/ NoClock(c, s)}

-----------------------------------------------------------------------------
(* apply_turn and the projection, for people and true names. *)

\* The last fact about a subject holds.  The name a person was created under
\* stays in the event: no fact is made of it.
Applied(c, w) ==
    LET latest == {f \in FactSet(c) :
                      \E k \in DOMAIN Facts(c) :
                         /\ Facts(c)[k] = f
                         /\ \A j \in DOMAIN Facts(c) : j > k => Facts(c)[j].subject # f.subject}
        created == {p.id : p \in {q \in Cast(c) : q.whole}}
        renamed == {f.subject : f \in latest}
    IN [people |-> w.people \cup created,
        trueNames |-> {f \in w.trueNames : f.subject \notin renamed} \cup latest]
=============================================================================
