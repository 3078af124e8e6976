------------------------------ MODULE LoreLines ------------------------------
(***************************************************************************)
(* The quest lines of the world and what a turn does to them: the          *)
(* narrator's quests section, the backstop of the digest hook, the dice of *)
(* run_lore, demotion, and density generation, in the order of             *)
(* _run_turn_staged.  A line is dark (暗, only the world knows it), open   *)
(* (明, in the player's ledger) or closed (了结).                          *)
(*                                                                         *)
(* A hook that fails leaves nothing (EventStore's savepoints), so a failed *)
(* hook is a step that only goes on.  Dice are choices: their seeds are    *)
(* hashes of the campaign, the line and the turn or day.  A turn that is   *)
(* rejected is a turn that never happened (PlaySession).                   *)
(***************************************************************************)
EXTENDS Integers, FiniteSets

CONSTANTS
    GenesisLines,    \* lines created with the world
    PersonalLines,   \* of these, the protagonist's own (pthread_*)
    GeneratedLines,  \* ids that density generation can give
    NarratedLines,   \* ids the narrator or the backstop can coin
    Towns,           \* the towns of one region
    Nowhere,         \* the protagonist's town cannot be resolved
    Hero,            \* the anchor of a personal line: the protagonist
    NoAnchor,        \* the anchor of a coined line
    Lifespan,        \* days, by tier
    Cap,             \* unresolved lines, by tier
    StageCount,      \* stages of a new line, by tier
    Target,          \* lines generated when a town is first entered
    IdleDays,        \* IDLE_DEMOTE_DAYS
    RefreshDays,     \* REFRESH_INTERVAL_DAYS
    MaxStages,       \* bound: stages of a rewritten line
    MaxDay           \* bound: the clock

Tiers == {"simple", "medium", "complex"}
Lines == GenesisLines \cup GeneratedLines \cup NarratedLines

ASSUME LoreAssumption ==
    /\ PersonalLines \subseteq GenesisLines
    /\ GenesisLines \cap GeneratedLines = {}   \* gen_<town>_<hash>
    /\ IsFiniteSet(Lines)
    /\ {Nowhere, Hero, NoAnchor} \cap Towns = {}
    /\ Lifespan \in [Tiers -> Nat] /\ Cap \in [Tiers -> Nat]
    /\ StageCount \in [Tiers -> Nat \ {0}]
    /\ Target \in Nat /\ IdleDays \in Nat \ {0} /\ RefreshDays \in Nat
    /\ MaxStages \in Nat /\ MaxDay \in Nat \ {0}

VARIABLES
    line,       \* the lines there are, by id
    told,       \* the stages for which a lore_advanced event is visible
    fresh,      \* lines whose surfaced_turn is this turn
    refreshed,  \* gen: the last refresh day of a seeded town
    day,        \* meta.day
    town,       \* the protagonist's town
    phase       \* the step of the turn

vars == <<line, told, fresh, refreshed, day, town, phase>>

Never == -1
Live == DOMAIN line

\* lore_created, quest_created and quest_opened; born today.
NewLine(state, tier, anchor, stages, today) ==
    [state |-> state, tier |-> tier, anchor |-> anchor, stages |-> stages, idx |-> -1,
     pending |-> FALSE, born |-> today, touched |-> IF state = "open" THEN today ELSE Never,
     by |-> "nobody"]

\* The world begins in a town with its campaign lines and the protagonist's own.
Init ==
    /\ day = 1
    /\ town \in Towns
    /\ \E tier \in [GenesisLines -> Tiers] :
          line = [l \in GenesisLines |->
                     NewLine("dark", tier[l], IF l \in PersonalLines THEN Hero ELSE town,
                             StageCount[tier[l]], 1)]
    /\ told = {}
    /\ fresh = {}
    /\ refreshed = [t \in Towns |-> Never]
    /\ phase = "narrate"

\* quest_surfaced
Surfaced(ln, today) == [ln EXCEPT !.state = "open", !.touched = today]

\* lore_advanced
Stepped(ln, today) == [ln EXCEPT !.idx = @ + 1, !.touched = today]

\* quest_expired, quest_world_resolved, quest_catastrophe
Closed(ln, by) == [ln EXCEPT !.state = "closed", !.pending = FALSE, !.by = by]

-----------------------------------------------------------------------------
(* The narrator's commit: the clock, a move, and quest operations. *)

\* LoreSystem.validate
Valid(ln, op) ==
    \/ op = "none"
    \/ (op = "surface" /\ ln.state = "dark")
    \/ (op \in {"advance", "resolve"} /\ ln.state = "open")

Played(ln, op, today) ==
    CASE op = "none"    -> ln
      [] op = "surface" -> Surfaced(ln, today)
      [] op = "advance" -> [ln EXCEPT !.touched = today]
      [] op = "resolve" -> [ln EXCEPT !.state = "closed", !.by = "player"]

Narrate ==
    /\ phase = "narrate"
    /\ \E today \in day..MaxDay,
          op \in [Live -> {"none", "surface", "advance", "resolve"}],
          opened \in SUBSET (NarratedLines \ Live) :
          /\ \A l \in Live : Valid(line[l], op[l])
          /\ day' = today
          /\ line' = [l \in Live \cup opened |->
                         IF l \in opened THEN NewLine("open", "none", NoAnchor, 0, today)
                         ELSE Played(line[l], op[l], today)]
          /\ fresh' = opened \cup {l \in Live : op[l] = "surface"}
    /\ town' \in Towns \cup {Nowhere}
    /\ phase' = "digest"
    /\ UNCHANGED <<told, refreshed>>

\* digest_fleet: with no open line, a weighty turn is flagged as a dark one.
Flag(l) ==
    /\ phase = "digest"
    /\ l \in NarratedLines \ Live
    /\ \A k \in Live : line[k].state # "open"
    /\ line' = [k \in Live \cup {l} |->
                   IF k = l THEN NewLine("dark", "none", NoAnchor, 0, day) ELSE line[k]]
    /\ phase' = "lore"
    /\ UNCHANGED <<told, fresh, refreshed, day, town>>

-----------------------------------------------------------------------------
(* run_lore *)

Elapsed(ln) == ln.tier \in Tiers /\ day - ln.born >= Lifespan[ln.tier]

\* Town-bound lines rest while the protagonist is elsewhere.
Dormant(ln) == ln.tier \in {"simple", "medium"} /\ ln.anchor # town

Mortal(l) == l \notin PersonalLines

\* Mutant: the day of birth counts as a day lived.
LifeOver_early(l) == Mortal(l) /\ line[l].tier \in Tiers /\ day - line[l].born + 1 >= Lifespan[line[l].tier]

\* Mutant: a line rests with its town, its lifespan too.
LifeOver_awake(l) == Elapsed(line[l]) /\ Mortal(l) /\ ~Dormant(line[l])

FinaleDue(l) == line[l].tier = "complex" /\ line[l].pending /\ Mortal(l)
LifeOver(l) == Elapsed(line[l]) /\ Mortal(l)

CanAdvance(l) == LET ln == line[l] IN
    ~Dormant(ln) /\ ln.idx + 1 < ln.stages /\ <<l, ln.idx + 1>> \notin told

\* The last chance of a complex line: a rescue or a catastrophe.
Finale(ln) == {Closed(ln, "rescue"), Closed(ln, "catastrophe")}

\* A line whose days are over closes; a complex one is marked for its finale.
Expired(ln) == IF ln.tier = "complex" THEN [ln EXCEPT !.pending = TRUE] ELSE Closed(ln, "expiry")

\* A stage forward.  A complex line may be rescued on the way after its first
\* stage, and erupts into the open at its last.
Advanced(ln) ==
    LET next == Stepped(ln, day)
    IN IF ln.tier # "complex" \/ (next.idx = 0 /\ ln.stages > 1) THEN {next}
       ELSE IF next.idx = ln.stages - 1 THEN {Surfaced(next, day)}
       ELSE {next, Closed(next, "rescue")}

\* What the pass over the lines can make of l.
Outcomes(l) ==
    LET ln == line[l]
    IN IF ln.state # "dark" THEN {ln}
       ELSE IF FinaleDue(l) THEN Finale(ln)
       ELSE IF LifeOver(l) THEN {Expired(ln)}
       ELSE {ln} \cup IF CanAdvance(l) THEN Advanced(ln) ELSE {}

RunLore ==
    /\ phase = "lore"
    /\ line' \in [Live -> UNION {Outcomes(l) : l \in Live}]
    /\ \A l \in Live : line'[l] \in Outcomes(l)
    /\ told' = told \cup {<<l, line'[l].idx>> : l \in {k \in Live : line'[k].idx # line[k].idx}}
    /\ fresh' = fresh \cup {l \in Live : line[l].state = "dark" /\ line'[l].state = "open"}
    /\ phase' = "demote"
    /\ UNCHANGED <<refreshed, day, town>>

-----------------------------------------------------------------------------
(* _run_demote_on_leave *)

\* Mutant: a line that erupted this turn is not spared.
LeftTown_atonce(l) == line[l].anchor \notin {NoAnchor, town}

\* The protagonist is not in the town of the line, which did not surface just now.
LeftTown(l) == line[l].anchor \notin {NoAnchor, town} /\ l \notin fresh

Idle(ln) == day - ln.touched >= IdleDays

\* Mutant: closed lines are not left out.
Demotable_closed(l) == LeftTown(l) \/ Idle(line[l])

Demotable(l) == line[l].state = "open" /\ (LeftTown(l) \/ Idle(line[l]))

\* jit_resequence: stages the model writes, or what was left of the old ones.
NewStages(ln) == 1..MaxStages \cup {ln.stages - ln.idx - 1}

\* Mutant: the line goes on counting from where it was.
Demoted_counting(ln, stages) == [ln EXCEPT !.state = "dark", !.stages = stages]

\* quest_demoted
Demoted(ln, stages) == [ln EXCEPT !.state = "dark", !.stages = stages, !.idx = -1]

RunDemote ==
    LET demoted == {l \in Live : town # Nowhere /\ Demotable(l)} IN
    /\ phase = "demote"
    /\ \E n \in [demoted -> UNION {NewStages(line[l]) : l \in demoted}] :
          /\ \A l \in demoted : n[l] \in NewStages(line[l])
          /\ line' = [l \in Live |->
                         IF l \in demoted THEN Demoted(line[l], n[l]) ELSE line[l]]
    /\ phase' = "density"
    /\ UNCHANGED <<told, fresh, refreshed, day, town>>

-----------------------------------------------------------------------------
(* run_density *)

\* Mutant: a line in the open frees its slot.
Count_dark(tier) == Cardinality({l \in Live :
    /\ line[l].state = "dark"
    /\ line[l].tier = tier
    /\ line[l].anchor \in IF tier = "complex" THEN Towns ELSE {town}})

\* count_tier: unresolved lines of the town, complex ones of the region
Count(tier) == Cardinality({l \in Live :
    /\ line[l].state # "closed"
    /\ line[l].tier = tier
    /\ line[l].anchor \in IF tier = "complex" THEN Towns ELSE {town}})

Full(tier) == Count(tier) >= Cap[tier]

\* roll_complexity: a full tier gives way to the one below, {} when all are full.
Rolled(roll) ==
    LET medium == roll = "medium" \/ (roll = "complex" /\ Full("complex"))
        simple == roll = "simple" \/ (medium /\ Full("medium"))
    IN IF ~medium /\ ~simple THEN {"complex"}
       ELSE IF ~simple THEN {"medium"}
       ELSE IF Full("simple") THEN {} ELSE {"simple"}

\* create_lore_line for ids; every roll sees the lines as they were.
Generate(ids) ==
    \E tier \in [ids -> UNION {Rolled(roll) : roll \in Tiers}] :
        line' = [l \in Live \cup ids |->
            IF l \in ids THEN NewLine("dark", tier[l], town, StageCount[tier[l]], day) ELSE line[l]]

\* A town entered for the first time is seeded, even with nothing.
Seed ==
    /\ phase = "density"
    /\ town \in Towns
    /\ refreshed[town] = Never
    /\ \E ids \in SUBSET (GeneratedLines \ Live) : Cardinality(ids) <= Target /\ Generate(ids)
    /\ refreshed' = [refreshed EXCEPT ![town] = day]
    /\ phase' = "narrate"
    /\ UNCHANGED <<told, fresh, day, town>>

\* Later a line may be added every RefreshDays.  Its id is a hash of the town,
\* its theme and its place in the batch: a theme the model repeats gives the id
\* of an earlier line, which lore_created overwrites.
Refresh ==
    /\ phase = "density"
    /\ town \in Towns
    /\ refreshed[town] # Never
    /\ day - refreshed[town] >= RefreshDays
    /\ \/ UNCHANGED line
       \/ \E l \in GeneratedLines : (l \in Live => line[l].anchor = town) /\ Generate({l})
    /\ refreshed' = [refreshed EXCEPT ![town] = day]
    /\ phase' = "narrate"
    /\ UNCHANGED <<told, fresh, day, town>>

-----------------------------------------------------------------------------
After == [digest |-> "lore", lore |-> "demote", demote |-> "density", density |-> "narrate"]

\* A hook with nothing to do, without a provider, or that failed.
SkipHook ==
    /\ phase # "narrate"
    /\ phase' = After[phase]
    /\ UNCHANGED <<line, told, fresh, refreshed, day, town>>

Next ==
    \/ Narrate
    \/ \E l \in NarratedLines : Flag(l)
    \/ RunLore
    \/ RunDemote
    \/ Seed
    \/ Refresh
    \/ SkipHook

\* Turns go on, and run_lore, which calls no model, does not fail for ever.
Fairness == WF_vars(Next) /\ SF_vars(RunLore)

Spec == Init /\ [][Next]_vars /\ Fairness

-----------------------------------------------------------------------------
(* Properties. *)

States == {"dark", "open", "closed"}
Deciders == {"nobody", "player", "rescue", "catastrophe", "expiry"}

Line == [state : States, tier : Tiers \cup {"none"}, anchor : Towns \cup {Hero, NoAnchor},
         stages : Nat, idx : Nat \cup {-1}, pending : BOOLEAN, born : Nat,
         touched : Nat \cup {Never}, by : Deciders]

\* A line is closed by somebody, an open one has been touched, and no stage
\* beyond its last is reached.
Sound(ln) ==
    /\ ln \in Line
    /\ ln.idx < ln.stages
    /\ ln.born \in 1..day
    /\ ln.touched <= day
    /\ ln.state = "closed" <=> ln.by # "nobody"
    /\ ln.state = "open" => ln.touched # Never

\* Every variable keeps its type, and every line is sound.
TypeOK ==
    /\ Live \subseteq Lines
    /\ \A l \in Live : Sound(line[l])
    /\ told \subseteq Lines \X Nat
    /\ fresh \subseteq Live
    /\ refreshed \in [Towns -> {Never} \cup 1..MaxDay]
    /\ day \in 1..MaxDay
    /\ town \in Towns \cup {Nowhere}
    /\ phase \in {"narrate"} \cup DOMAIN After

\* A finale is earned: only a complex line that is not the protagonist's own
\* and whose days are over is marked for one or ends in a catastrophe.
FinaleIsDue ==
    \A l \in Live : LET ln == line[l] IN
        ln.pending \/ ln.by = "catastrophe"
            => ln.tier = "complex" /\ l \notin PersonalLines /\ Elapsed(ln)

\* A line the world pushes into the open "THIS turn gets one turn to reach the
\* player" (turn.py:617-618): no demotion of the same turn takes it back, wherever
\* the protagonist is and however long the line lay idle.
NewsReachesPlayer ==
    phase = "density" => \A l \in fresh : line[l].state # "dark"

\* Closed lines stay closed, with the same ending, unless density generation
\* hands out their id again.
NothingReopens ==
    [][\A l \in Live : line[l].state = "closed"
          => line'[l] = line[l] \/ (phase = "density" /\ l \in GeneratedLines)]_vars

\* Tiers stay bounded: "the batch [may] exceed a cap by at most (target - 1)
\* lines" (density.py:484), on top of what the world began with and of what the
\* narrator opened: wherever a batch is made, lines of other makers count too.
CapsHold ==
    \A tier \in Tiers, t \in Towns :
        LET mine == {l \in Live : /\ line[l].state # "closed"
                                  /\ line[l].tier = tier
                                  /\ line[l].anchor \in IF tier = "complex" THEN Towns ELSE {t}}
            excess == IF Target > 0 THEN Target - 1 ELSE 0
        IN Cardinality(mine \cap GeneratedLines) <= Cap[tier] + excess

\* A dark line whose days are over ends or comes into the open, wherever the
\* protagonist stays (it would hold a slot of its tier for ever).
AbandonedLinesEnd ==
    \A l \in Lines \ PersonalLines :
        (l \in Live /\ line[l].state = "dark" /\ Elapsed(line[l]))
            ~> (l \in Live /\ (line[l].state # "dark" \/ ~Elapsed(line[l])))

\* "so that the dice can walk on by themselves" (lore.py:305, 让暗骰能接着自走): a
\* dark line with stages left can still be told the next one.
RewrittenLinesWalkOn ==
    \A l \in Live : line[l].state = "dark" /\ line[l].idx + 1 < line[l].stages
                       => <<l, line[l].idx + 1>> \notin told

=============================================================================
