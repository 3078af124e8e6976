------------------------------- MODULE Genesis -------------------------------
(***************************************************************************)
(* The start of a campaign: bootstrap_world, the rerolls of the intro      *)
(* dialogue and the hand-over to play, by processes that share one event   *)
(* store and may die at any point.                                         *)
(*                                                                         *)
(* A generation prepares its rows on a snapshot and publishes them in one  *)
(* transaction, so it is two steps here.  The played turn is one row.      *)
(***************************************************************************)
EXTENDS Worldgen, FiniteSetsExt

CONSTANTS
    Sessions,       \* the processes
    Sources,        \* what a player may bring to a new game
    MaxRevision,    \* bound: committed changes
    MaxTurn         \* bound: played turns

ASSUME GenesisAssumption == MaxRevision \in Nat /\ MaxTurn \in Nat

VARIABLES
    log,        \* the rows of the store: a thing, its turn, is it shown
    revision,   \* the store's revision
    phase,      \* where each process is
    offline,    \* runs it on the offline provider
    work,       \* the generation under way
    result      \* the world it holds: _state and _boundaries

vars == <<log, revision, phase, offline, work, result>>

Leaves == {"factions", "npcs", "threads"}
Shown(rows) == {i \in DOMAIN rows : rows[i].shown}
Row(thing) == [thing |-> thing, turn |-> 0, shown |-> TRUE]
Rows(things) == [i \in DOMAIN things |-> Row(things[i])]
HideFrom(rows, Cut(_)) == [i \in DOMAIN rows |-> [rows[i] EXCEPT !.shown = @ /\ ~Cut(i)]]

Idle == [command |-> "none", base |-> 0, spec |-> Nothing, sources |-> {}]
NoResult == [spec |-> Nothing, sources |-> {}, attempts |-> [st \in Written |-> 0],
             first |-> [st \in ToSet(Steps) |-> 0], revision |-> 0, alone |-> FALSE]

Init ==
    /\ log = <<>>
    /\ revision = 0
    /\ phase = [s \in Sessions |-> "off"]
    /\ offline = [s \in Sessions |-> FALSE]
    /\ work = [s \in Sessions |-> Idle]
    /\ result = [s \in Sessions |-> NoResult]

-----------------------------------------------------------------------------
(* Generating. *)

\* What one step appends; wishes is what is left of the opening the player wrote.
Content(step, spec, wishes, made, at) ==
    LET venues == NVenues(spec, at["local_map"]) IN
    CASE step = "campaign_seeded" -> <<Thing("seed", 1, Nowhere, "model", 0)>>
      [] step = "frame" -> GenFrame(spec, made["frame"], at["frame"])
      [] step = "regions" -> GenRegions(spec, made["regions"], at["regions"])
      [] step = "local_map" -> GenLocalMap(spec, made["local_map"], at["local_map"])
      [] step = "protagonist" -> GenProtagonist(spec, made["protagonist"], at["protagonist"])
      [] step = "factions" -> GenFactions(spec, made["factions"], at["factions"],
                                          NFactions(spec, at["frame"]))
      [] step = "npcs" -> GenNpcs(spec, made["npcs"], at["npcs"], venues)
      [] step = "codex" -> GenCodex(made["codex"], at["codex"])
      [] step = "threads" -> GenThreads(spec, made["threads"], at["threads"], venues)
      [] step = "opening" -> GenOpening(wishes, made["opening"])

IsLore(thing) == thing.id[1] \in {"thread", "pthread"}

\* _find_first_lore_seq: the first line shown, whoever wrote it.
FirstLore(rows) == Min({i \in Shown(rows) : IsLore(rows[i].thing)})

\* rows followed by the steps, and the seq at which each of them begins.
Laid(rows, steps, spec, wishes, made, at) ==
    LET Lay(acc, st) == [rows |-> acc.rows \o Rows(Content(st, spec, wishes, made, at)),
                         first |-> [acc.first EXCEPT ![st] = Len(acc.rows) + 1]]
        laid == FoldLeft(Lay, [rows |-> rows, first |-> [st \in ToSet(Steps) |-> 0]], steps)
    IN  [laid EXCEPT !.first["threads"] = FirstLore(laid.rows)]

\* Mutant: the things that refer to the rerolled step stay hidden.
Reruns_alone(step) == <<step, "threads", "opening">>

\* reroll_step generates a leaf and the leaves after it, and the opening again.
Reruns(step) == CASE step = "factions" -> <<"factions", "npcs", "threads", "opening">>
                  [] step = "npcs" -> <<"npcs", "threads", "opening">>
                  [] step = "threads" -> <<"threads", "opening">>

\* bootstrap_world with one attempt for every step.
Bootstrapped(rows, spec, made, a) ==
    LET at == [st \in Written |-> a]
        laid == Laid(rows, Steps, spec, spec["opening"], made, at)
    IN  [rows |-> laid.rows, first |-> laid.first, attempts |-> at]

\* Mutant: the attempt of the step is not remembered.
Bumped_fixed(attempts, step) == [attempts EXCEPT ![step] = 1]

Bumped(attempts, step) == [attempts EXCEPT ![step] = @ + 1]

\* Mutant: the new rows are laid where the old boundaries were.
Refirst_old(old, laid, step) == old

\* The boundaries of what was generated again are new; codex keeps its old one.
Refirst(old, laid, step) ==
    [st \in DOMAIN old |-> IF st \in ToSet(Reruns(step)) THEN laid[st] ELSE old[st]]

\* reroll_step: what lies after the boundary goes; an authored opening is not
\* handed to the generator again.
Rerolled(rows, held, made, step) ==
    LET at == Bumped(held.attempts, step)
        kept == HideFrom(rows, LAMBDA i : i >= held.first[step])
        laid == Laid(kept, Reruns(step), held.spec, <<>>, made, at)
    IN  [rows |-> laid.rows, first |-> Refirst(held.first, laid.first, step), attempts |-> at]

\* The batch of the generation under way, given who wrote each step.
Generated(s, made) ==
    LET job == work[s]
        held == result[s]
    IN CASE job.command = "new" -> Bootstrapped(log, job.spec, made, 0)
         [] job.command = "all" -> Bootstrapped(HideFrom(log, LAMBDA i : log[i].turn >= 0),
                                                job.spec, made, held.attempts["frame"] + 1)
         [] job.command \in Leaves -> Rerolled(log, held, made, job.command)

\* collect_failures: one exhausted model call and nothing is published, unless the
\* provider is explicitly offline.
Complete(s, failed) == failed = {} \/ offline[s]

\* Who words a step: the offline provider always the canned text, the real one
\* the model's unless it failed.  A blank opening is replaced, and no failure.
Author(s, failed, blank) ==
    [st \in Written |-> IF offline[s] THEN "canned"
                        ELSE IF st \in failed \/ (blank /\ st = "opening") THEN "stub"
                        ELSE "model"]

Publish(s, failed, blank) ==
    LET world == Generated(s, Author(s, failed, blank)) IN
    /\ phase[s] = "making"
    /\ work[s].base = revision
    /\ Complete(s, failed)
    /\ revision < MaxRevision
    /\ log' = world.rows
    /\ revision' = revision + 1
    /\ phase' = [phase EXCEPT ![s] = "intro"]
    /\ result' = [result EXCEPT ![s] =
                    [spec |-> work[s].spec, sources |-> work[s].sources,
                     attempts |-> world.attempts, first |-> world.first,
                     revision |-> revision + 1,
                     alone |-> CASE work[s].command = "new" -> Shown(log) = {}
                                 [] work[s].command = "all" -> TRUE
                                 [] OTHER -> @.alone /\ @.revision = revision]]
    /\ work' = [work EXCEPT ![s] = Idle]
    /\ UNCHANGED offline

\* GenesisError or RevisionConflict: nobody catches it, and the process ends.
GiveUp(s, failed) ==
    /\ phase[s] = "making"
    /\ ~Complete(s, failed) \/ work[s].base # revision
    /\ phase' = [phase EXCEPT ![s] = "off"]
    /\ work' = [work EXCEPT ![s] = Idle]
    /\ result' = [result EXCEPT ![s] = NoResult]
    /\ UNCHANGED <<log, revision, offline>>

-----------------------------------------------------------------------------
(* app/__main__.py. *)

\* main looks at the log once: empty is a new game, anything else is loaded.
Boot(s, canned) ==
    /\ phase[s] = "off"
    /\ phase' = [phase EXCEPT ![s] = IF Shown(log) = {} THEN "asking" ELSE "play"]
    /\ offline' = [offline EXCEPT ![s] = canned]
    /\ UNCHANGED <<log, revision, work, result>>

\* The pitch and session zero take the player's time; only then the batch opens.
Begin(s, sources) ==
    /\ phase[s] = "asking"
    /\ phase' = [phase EXCEPT ![s] = "making"]
    /\ work' = [work EXCEPT ![s] = [command |-> "new", base |-> revision,
                                    spec |-> ResolveSpec(sources), sources |-> {sources}]]
    /\ UNCHANGED <<log, revision, offline, result>>

Reroll(s, command) ==
    /\ phase[s] = "intro"
    /\ phase' = [phase EXCEPT ![s] = "making"]
    /\ work' = [work EXCEPT ![s] = [command |-> command, base |-> revision,
                                    spec |-> result[s].spec, sources |-> result[s].sources]]
    /\ UNCHANGED <<log, revision, offline, result>>

Accept(s) ==
    /\ phase[s] = "intro"
    /\ phase' = [phase EXCEPT ![s] = "play"]
    /\ result' = [result EXCEPT ![s] = NoResult]
    /\ UNCHANGED <<log, revision, offline, work>>

NextTurn == 1 + Max({0} \cup {log[i].turn : i \in Shown(log)})

PlayTurn(s) ==
    /\ phase[s] = "play"
    /\ NextTurn <= MaxTurn
    /\ revision < MaxRevision
    /\ log' = Append(log, [thing |-> Thing("turn", NextTurn, Nowhere, "model", 0),
                           turn |-> NextTurn, shown |-> TRUE])
    /\ revision' = revision + 1
    /\ UNCHANGED <<phase, offline, work, result>>

\* /rewind t; nothing keeps t above 0, and 0 takes the world with it.
Rewind(s, t) ==
    /\ phase[s] = "play"
    /\ revision < MaxRevision
    /\ \E i \in Shown(log) : log[i].turn >= t
    /\ log' = HideFrom(log, LAMBDA i : log[i].turn >= t)
    /\ revision' = revision + 1
    /\ UNCHANGED <<phase, offline, work, result>>

Crash(s) ==
    /\ phase[s] # "off"
    /\ phase' = [phase EXCEPT ![s] = "off"]
    /\ work' = [work EXCEPT ![s] = Idle]
    /\ result' = [result EXCEPT ![s] = NoResult]
    /\ UNCHANGED <<log, revision, offline>>

Failures == {{}, Written} \cup {{st} : st \in Written}

Generation(s) ==
    \/ \E failed \in Failures, blank \in BOOLEAN : Publish(s, failed, blank)
    \/ \E failed \in Failures : GiveUp(s, failed)

Dialogue(s) ==
    \/ \E canned \in BOOLEAN : Boot(s, canned)
    \/ \E sources \in Sources : Begin(s, sources)
    \/ \E command \in Leaves \cup {"all"} : Reroll(s, command)
    \/ Accept(s)

Playing(s) == PlayTurn(s) \/ \E t \in 0..MaxTurn : Rewind(s, t)

Next == \E s \in Sessions : Generation(s) \/ Dialogue(s) \/ Playing(s) \/ Crash(s)

Spec == Init /\ [][Next]_vars

-----------------------------------------------------------------------------
(* Properties. *)

\* The process holds the intro of a world it generated, over nothing else, and
\* nobody has written since.
Undisturbed(s) ==
    phase[s] \in {"intro", "making"} /\ result[s].alone /\ result[s].revision = revision

Things(rows) == {rows[i].thing : i \in Shown(rows)}
Kinds == {"seed", "world", "region", "town", "neighbor", "venue", "protagonist",
          "faction", "npc", "thread", "pthread", "opening"}

\* A real provider never leaves a stub in a published world, even if only one
\* of its many calls failed (a blank opening aside, which is no failure).
NoStubPublished ==
    \A t \in Things(log) : t.by = "stub" => t.id[1] = "opening"

\* However often a world is rerolled, in part or as a whole, it is one world:
\* no id twice, nothing attached to a thing that is gone, no step missing
\* (the codex aside, which reroll_step does not bring back), no stub in it.
WorldIsWhole ==
    /\ NoStubPublished
    /\ \A s \in Sessions : Undisturbed(s) =>
          /\ \A i, j \in Shown(log) : log[i].thing.id = log[j].thing.id => i = j
          /\ \A t \in Things(log) : t.at = Nowhere \/ \E u \in Things(log) : u.id = t.at
          /\ Kinds \subseteq {t.id[1] : t \in Things(log)}

StepOf(thing) ==
    CASE thing.id[1] = "faction" -> "factions"
      [] thing.id[1] = "npc" -> "npcs"
      [] IsLore(thing) -> "threads"
      [] thing.id[1] = "codex" -> "codex"
      [] thing.id[1] = "opening" -> "opening"
      [] OTHER -> "upstream"

\* The seq a reroll cuts at was recorded by an earlier generation, and the steps
\* before and after it were perhaps generated again since; it still divides the
\* visible world into exactly what will be regenerated and what must stay.
BoundariesDivide ==
    \A s \in Sessions : Undisturbed(s) =>
        \A step \in Leaves, i \in Shown(log) :
            StepOf(log[i].thing) # "codex"
              => (i >= result[s].first[step]
                    <=> StepOf(log[i].thing) \in ToSet(Reruns(step)))

\* Of two sources the later one wins, and no source is lost: a scalar part is the
\* last wish written for it, a named part holds every name once.
Writings(src) == <<Only("genre", <<src.pitch>>), src.imported, src.blueprint, src.flags>>
Asked(src, p) == {i \in 1..4 : p \in DOMAIN Writings(src)[i]
                                /\ ToSet(Writings(src)[i][p]) \ {Blank} # {}}
LastWishWins ==
    \A s \in Sessions : \A src \in result[s].sources :
        /\ \A p \in Scalars : Asked(src, p) # {} =>
              Head(result[s].spec[p]) \in ToSet(Writings(src)[Max(Asked(src, p))][p])
        /\ \A p \in Named : \A i \in Asked(src, p) :
              \A w \in ToSet(Writings(src)[i][p]) \ {Blank} :
                  Cardinality({k \in DOMAIN result[s].spec[p] : result[s].spec[p][k] = w}) = 1

\* What the player asked for by name is in the world, whatever was rerolled (an
\* authored opening aside, which reroll_step does not pass on), and what was asked
\* for by several sources is what the last one said.
WishesKept ==
    /\ LastWishWins
    /\ \A s \in Sessions : Undisturbed(s) =>
          \A p \in Parts \ {"opening", "tone"}, w \in Wishes :
              Contains(result[s].spec[p], w) => \E t \in Things(log) : t.by = w

\* A player who rerolls a step of a world gets dice that step has not had yet in
\* this world, however often it was rerolled and whatever else was.
Rolled(rows, kind) == {rows[i].thing.dice : i \in {k \in DOMAIN rows : rows[k].thing.id[1] = kind}}
ThisWorld(rows) == SubSeq(rows, Max({i \in DOMAIN rows : rows[i].thing.id[1] = "seed"}), Len(rows))
Again(s, step) ==
    work[s].command = step /\ Undisturbed(s) /\ phase'[s] = "intro"
FreshDice ==
    [][\A s \in Sessions :
          /\ Again(s, "npcs") => result'[s].attempts["npcs"] \notin Rolled(ThisWorld(log), "npc")
          /\ Again(s, "threads") =>
                result'[s].attempts["threads"] \notin Rolled(ThisWorld(log), "thread")]_vars

=============================================================================
