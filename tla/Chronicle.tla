----------------------------- MODULE Chronicle -----------------------------
(* One player's turns over the world's time and accounts.  An action is     *)
(* classified and settled first (loop/resources.py), then told: the commit  *)
(* moves the clock, people and facts (systems/time.py, place.py,            *)
(* ontology.py, character.py); the digest may change somebody's arc, people *)
(* who enter the scene are caught up (loop/time.py), the scene number       *)
(* follows, and the whole is published or dropped (loop/turn.py).  The      *)
(* world is the fold of the events that stand (kernel/projection.py), and a *)
(* rewind folds fewer of them.                                              *)
(*   log      published events that stand                                   *)
(*   batch    events of the action being prepared (EventBatch)              *)
(*   world    Project(log \o batch), as engine.world and new_world hold it  *)
(*   stage    how far the action has come                                   *)
(*   scene    the scene dict of the action, built before it                 *)
(*   prev     the people of the previous action's scene, or Nothing         *)
EXTENDS FactGraph, FiniteSets, Folds

CONSTANTS
  Hero, Npcs,            \* persons; the resource is the protagonist's
  Places, Start,         \* Start: where the protagonist begins
  Home,                  \* Home[n]: where an npc begins
  Purse, Floor,          \* 'initial' and 'min' of the configured resource
  Amounts,               \* amounts a player may ask to spend
  Waits,                 \* clock instants a player may ask to wait for
  Clocks,                \* advances a clock section may declare
  Tellings,              \* the other sections of a commit, as lists of items
  Arcs,                  \* lists of <<person, value>>, the reflections of a digest
  Replies,               \* values a catch-up answer may give
  Refusals,              \* <<npc, value>> that the npc's own fact_rules refuse
  Budget,                \* CATCHUP_BUDGET
  MaxTurn, MaxDay        \* bounds of the instance

People == {Hero} \cup Npcs
Tiers == {"mentioned", "tracked"}

\* An item of a commit: a section's element, with the day a move declares.
Item(kind, who, value, day) ==
  [kind |-> kind, who |-> who, value |-> value, day |-> day]
Items ==
        [kind : {"moved"}, who : People, value : Places, day : Int \cup {Nothing}]
  \cup [kind : {"declared"}, who : People, value : Tiers, day : {Nothing}]
  \cup [kind : {"fact"}, who : {Hero}, value : Int, day : {Nothing}]
  \cup [kind : {"evolved"}, who : People, value : Int, day : {Nothing}]

ASSUME ChronicleAssumption ==
  /\ Hero \notin Npcs /\ IsFiniteSet(Npcs)
  /\ Start \in Places /\ Home \in [Npcs -> Places]
  /\ Purse \in Int /\ Floor \in Int /\ Floor <= Purse
  /\ Amounts \subseteq Int
  /\ Clocks \subseteq [days : Nat, bands : Nat]
  /\ Tellings \subseteq Seq(Items)
  /\ Arcs \subseteq Seq(People \X Int)
  /\ \A arcs \in Arcs : \A i, j \in DOMAIN arcs : arcs[i][1] = arcs[j][1] => i = j
  /\ Replies \subseteq Int /\ Refusals \subseteq Npcs \X Int
  /\ Budget \in Nat \ {0} /\ MaxTurn \in Nat /\ MaxDay \in Nat \ {0}

VARIABLES log, batch, world, stage, scene, prev
vars == <<log, batch, world, stage, scene, prev>>

----------------------------------------------------------------------------
\* Events and their projection.

Event(kind, turn, day, who, value) ==
  [kind |-> kind, turn |-> turn, day |-> day, who |-> who, value |-> value]

\* _next_turn: one more than the greatest turn that stands.
Turn == 1 + Max({0} \cup {e.turn : e \in Range(log)})

\* Before the first event; resources_configured needs the owner to exist.
EmptyWorld ==
  [day |-> Nothing, band |-> 0, ok |-> TRUE,
   place |-> [p \in People |-> <<>>], purse |-> <<>>, ruled |-> FALSE,
   tier |-> [p \in People |-> Nothing], seen |-> [p \in People |-> Nothing],
   sceneNo |-> 1, anchor |-> Nothing]

At(w, p) == ValueAt(w.place[p], w.day)
Balance(w) == ValueAt(w.purse, w.day)

\* check_value: the rule of the resource bounds it from below; an npc's
\* fact_rules come with the npc and refuse what they refuse.
BreaksRule(w, who, value) ==
  IF who = Hero THEN w.ruled /\ value < Floor ELSE <<who, value>> \in Refusals

SetsFact(e) == e.kind \in {"fact", "evolved"}
SetsPurse(e) == SetsFact(e) /\ e.who = Hero

\* The projection raises: a dated value out of order, or against its rule.
Refused(w, e) ==
  \/ e.kind = "moved" /\ OutOfOrder(w.place[e.who], e.day)
  \/ SetsFact(e) /\ BreaksRule(w, e.who, e.value)
  \/ (SetsPurse(e) \/ e.kind = "resolved") /\ OutOfOrder(w.purse, e.day)

\* add_entity over an entity keeps its fact_rules and nothing else.
AddEntity(w, who, tier) ==
  [w EXCEPT !.tier[who] = tier, !.seen[who] = Nothing]

\* Each system's apply.
OntologyApplied(w, e) ==
  IF e.kind = "declared" THEN AddEntity(w, e.who, e.value)
  ELSE [w EXCEPT !.purse = Supersede(@, e.value, e.day)]

CharacterApplied(w, e) ==
  LET w1 == CASE e.kind = "created" -> AddEntity(w, e.who, e.value)
              [] SetsPurse(e) -> [w EXCEPT !.purse = Supersede(@, e.value, e.day)]
              [] OTHER -> w
  IN  [w1 EXCEPT !.seen[e.who] = e.day]

PlaceApplied(w, e) == [w EXCEPT !.place[e.who] = Supersede(@, e.value, e.day)]

\* A balance that did not change is not asserted again.
ResourceApplied(w, e) ==
  IF e.kind = "resolved" /\ e.value = Balance(w) THEN w
  ELSE [w EXCEPT !.purse = Supersede(@, e.value, e.day),
                 !.ruled = @ \/ e.kind = "configured"]

\* The day is the kernel's; last_update only moves forward.
TimeApplied(w, e) ==
  IF e.kind = "clock" THEN [w EXCEPT !.band = (@ + e.value) % BandsPerDay]
  ELSE [w EXCEPT !.seen[e.who] = IF @ = Nothing THEN e.day ELSE Max({@, e.day})]

SceneApplied(w, e) ==
  [w EXCEPT !.sceneNo = @ + 1, !.anchor = [at |-> e.value, day |-> e.day]]

\* Every event has one owner.
Owned(w, e) ==
  CASE e.kind \in {"declared", "fact"} -> OntologyApplied(w, e)
    [] e.kind \in {"created", "evolved"} -> CharacterApplied(w, e)
    [] e.kind \in {"configured", "resolved"} -> ResourceApplied(w, e)
    [] e.kind = "moved" -> PlaceApplied(w, e)
    [] e.kind \in {"clock", "current"} -> TimeApplied(w, e)
    [] e.kind = "scene" -> SceneApplied(w, e)

\* project, for one event: the day only moves forward, then the owner applies.
Fold(w, e) ==
  LET w1 == IF w.day = Nothing \/ e.day >= w.day THEN [w EXCEPT !.day = e.day] ELSE w
  IN  IF ~w.ok \/ Refused(w1, e) THEN [w EXCEPT !.ok = FALSE] ELSE Owned(w1, e)

Extend(w, events) == FoldLeft(Fold, w, events)
Project(events) == Extend(EmptyWorld, events)

\* Genesis: the people, where they are, and the configured resource.
Genesis ==
  LET npcs == SetToSeq(Npcs)
  IN  << Event("created", 0, 1, Hero, "tracked"), Event("moved", 0, 1, Hero, Start),
         Event("configured", 0, 1, Hero, Purse) >>
        \o [i \in DOMAIN npcs |-> Event("created", 0, 1, npcs[i], "tracked")]
        \o [i \in DOMAIN npcs |-> Event("moved", 0, 1, npcs[i], Home[npcs[i]])]

----------------------------------------------------------------------------
\* The scene and the settlement of an action.

\* _build_scene: the other tracked persons where the protagonist is.
Present(w) ==
  {p \in Npcs : w.tier[p] = "tracked" /\ At(w, Hero) # Nothing /\ At(w, p) = At(w, Hero)}

Idle == [present |-> {}, expected |-> Nothing, wait |-> Nothing]

\* Nobody pays what would take the balance below the rule's minimum.
Settle(balance, amount) ==
  IF balance - amount < Floor THEN balance ELSE balance - amount

Init ==
  /\ log = Genesis /\ batch = <<>> /\ world = Project(Genesis)
  /\ stage = "idle" /\ scene = Idle /\ prev = Nothing

\* Appending to the batch re-projects the world.
Stage(events) ==
  /\ batch' = batch \o events
  /\ world' = Extend(world, events)

\* prepare_resources: without a rule there is nothing to settle.
Begin(amount, wait) ==
  LET now == Units(world.day, world.band)
      after == Settle(Balance(world), amount)
  IN  /\ stage = "idle" /\ Turn <= MaxTurn
      /\ wait # Nothing => Units(wait.day, wait.band) > now
      /\ stage' = "settled"
      /\ IF world.ruled
         THEN /\ Stage(<< Event("resolved", Turn, world.day, Hero, after) >>)
              /\ scene' = [present |-> Present(world), expected |-> after, wait |-> wait]
         ELSE /\ scene' = [Idle EXCEPT !.present = Present(world)]
              /\ UNCHANGED <<batch, world>>
      /\ UNCHANGED <<log, prev>>

----------------------------------------------------------------------------
\* The commit.

\* validate_resources: a fact about the resource repeats the settled balance,
\* and an explicit wait ends exactly where the player asked.
Contradicts(w, s, by, items) ==
  \/ \E i \in DOMAIN items : /\ items[i].kind = "fact" /\ s.expected # Nothing
                             /\ items[i].value # s.expected
  \/ s.wait # Nothing /\ Advance(w, by) # s.wait

\* OntologySystem.validate applies the rule to facts; cast has no such check.
Invalid(w, items) ==
  \E i \in DOMAIN items : items[i].kind = "fact" /\ BreaksRule(w, Hero, items[i].value)

\* A bug to find: a move is dated by its arrive_day alone.
MoveDay_arrives(item, day) == IF item.day = Nothing THEN day ELSE item.day

\* to_events of each section: all on the day after the clock's advance, a move
\* on its arrive_day when that is later.
MoveDay(item, day) == IF item.day = Nothing THEN day ELSE Max({item.day, day})
ToEvents(turn, day, by, items) ==
  LET Of(item) == IF item.kind = "moved"
                  THEN Event("moved", turn, MoveDay(item, day), item.who, item.value)
                  ELSE Event(item.kind, turn, day, item.who, item.value)
  IN  << Event("clock", turn, day, Hero, by.bands) >>
        \o [i \in DOMAIN items |-> Of(items[i])]

\* produce_turn, apply_turn: a commit without errors whose events project.
Write(by, items) ==
  LET events == ToEvents(Turn, Advance(world, by).day, by, items)
  IN  /\ stage = "settled"
      /\ ~Contradicts(world, scene, by, items) /\ ~Invalid(world, items)
      /\ Extend(world, events).ok
      /\ Extend(world, events).day <= MaxDay
      /\ Stage(events)
      /\ stage' = "told"
      /\ UNCHANGED <<log, scene, prev>>

\* digest_fleet: reflections evolve people the turn was about.
Reflect(arcs) ==
  LET Of(arc) == Event("evolved", Turn, world.day, arc[1], arc[2])
      events == [i \in DOMAIN arcs |-> Of(arcs[i])]
  IN  /\ stage = "told"
      /\ \A i \in DOMAIN arcs : \E j \in DOMAIN batch : batch[j].who = arcs[i][1]
      /\ Extend(world, events).ok
      /\ Stage(events)
      /\ stage' = "digested"
      /\ UNCHANGED <<log, scene, prev>>

\* Nobody reflects, or the projection refuses one reflection and the savepoint
\* drops them all.
NoArc ==
  /\ stage = "told" /\ stage' = "digested"
  /\ UNCHANGED <<log, batch, world, scene, prev>>

----------------------------------------------------------------------------
\* Catch-up, the scene number, publication.

\* stale_entering_scope.
Stale(w, p) == w.tier[p] = "tracked" /\ w.seen[p] # Nothing /\ w.seen[p] < w.day
Entrants == IF prev = Nothing THEN scene.present ELSE scene.present \ prev
StaleEntrants(w) == {p \in Entrants : Stale(w, p)}

\* The first Budget ids in order; which ids come first is not fixed here.
Asked(w) ==
  LET stale == StaleEntrants(w)
      n == Cardinality(stale)
  IN  kSubset(IF n > Budget THEN Budget ELSE n, stale)

\* An answer to a catch-up: the new value of everybody asked, Nothing for who has
\* not changed or whose answer is unusable.
PossibleAnswers(w) ==
  UNION {[asked -> Replies \cup {Nothing}] : asked \in Asked(w)}

\* A bug to find: whoever has not changed gets no event.
Answers_silent(turn, day, answer) ==
  LET order == SetToSeq({p \in DOMAIN answer : answer[p] # Nothing})
  IN  [i \in DOMAIN order |-> Event("evolved", turn, day, order[i], answer[order[i]])]

\* One event for each: evolved with the value given, or current.
Answers(turn, day, answer) ==
  LET order == SetToSeq(DOMAIN answer)
      Of(p) == IF answer[p] = Nothing THEN Event("current", turn, day, p, 0)
               ELSE Event("evolved", turn, day, p, answer[p])
  IN  [i \in DOMAIN order |-> Of(order[i])]

\* run_catchup, in a savepoint whose preflight projects all its events.
CatchUp(answer) ==
  LET events == Answers(Turn, world.day, answer)
  IN  /\ stage = "digested"
      /\ Extend(world, events).ok
      /\ Stage(events)
      /\ stage' = "caughtup"
      /\ UNCHANGED <<log, scene, prev>>

\* The projection refuses one value: the savepoint drops the events of everybody
\* asked, and the turn goes on ("non-fatal, backstage").
CatchUpFails(answer) ==
  /\ stage = "digested"
  /\ ~Extend(world, Answers(Turn, world.day, answer)).ok
  /\ stage' = "caughtup"
  /\ UNCHANGED <<log, batch, world, scene, prev>>

\* A bug to find: nobody looks at the balance again.
Settled_trusted(w, s) == TRUE

\* The balance the whole turn leaves is the settled one.
Settled(w, s) == s.expected # Nothing => Balance(w) = s.expected

\* A bug to find: only a change of place ends a scene.
Moved_place(before, w) == At(w, Hero) # At(before, Hero)

\* A scene ends when the turn moved the protagonist or the day.
Moved(before, w) == At(w, Hero) # At(before, Hero) \/ w.day # before.day

Ending ==
  IF Moved(Project(log), world)
  THEN << Event("scene", Turn, world.day, Hero, At(world, Hero)) >>
  ELSE <<>>

Publish ==
  /\ stage = "caughtup" /\ Settled(world, scene)
  /\ log' = log \o batch \o Ending
  /\ world' = Extend(world, Ending)
  /\ batch' = <<>> /\ stage' = "idle" /\ scene' = Idle
  /\ prev' = scene.present

\* TurnRejected, or any error of the model or the projection: the batch goes.
Drop ==
  /\ stage # "idle"
  /\ batch' = <<>> /\ world' = Project(log)
  /\ stage' = "idle" /\ scene' = Idle
  /\ UNCHANGED <<log, prev>>

\* retract_from_turn hides the events of turn t and later ones.
Standing(events, t) ==
  FoldLeft(LAMBDA kept, e : IF e.turn < t THEN Append(kept, e) ELSE kept, <<>>, events)

\* A bug to find: the world is kept as it was.
Rewind_cached(t) ==
  /\ stage = "idle" /\ t \in 1 .. Turn - 1
  /\ log' = Standing(log, t)
  /\ prev' = Nothing
  /\ UNCHANGED <<batch, world, stage, scene>>

\* /rewind: the turns from t on are retracted, and the loop forgets its scene.
Rewind(t) ==
  /\ stage = "idle" /\ t \in 1 .. Turn - 1
  /\ log' = Standing(log, t)
  /\ world' = Project(log')
  /\ prev' = Nothing
  /\ UNCHANGED <<batch, stage, scene>>

Next ==
  \/ \E amount \in Amounts, wait \in Waits \cup {Nothing} : Begin(amount, wait)
  \/ \E by \in Clocks, items \in Tellings : Write(by, items)
  \/ \E arcs \in Arcs : Reflect(arcs)
  \/ NoArc
  \/ \E answer \in PossibleAnswers(world) : CatchUp(answer)
  \/ \E answer \in PossibleAnswers(world) : CatchUpFails(answer)
  \/ Publish
  \/ Drop
  \/ \E t \in 1 .. MaxTurn : Rewind(t)

Spec == Init /\ [][Next]_vars

----------------------------------------------------------------------------
\* Properties.

Days == 1 .. MaxDay

Kinds == {"created", "configured", "declared", "resolved", "moved", "clock",
          "fact", "evolved", "current", "scene"}

\* A subject has one value at a time: each value of a history ends where the
\* next begins, and only the last has no end (FactGraph's supersession).
Tiled(history) ==
  \A i \in DOMAIN history :
    history[i].end = IF i = Len(history) THEN Nothing ELSE history[i + 1].start
HistoriesTile == Tiled(world.purse) /\ \A p \in People : Tiled(world.place[p])

\* The variables have the values that the code's dicts and lists have, and every
\* history of facts is one.
TypeOK ==
  /\ HistoriesTile
  /\ \A e \in Range(log \o batch) :
       /\ e.kind \in Kinds /\ e.turn \in 0 .. MaxTurn /\ e.day \in Days
       /\ e.who \in People
  /\ world.ok /\ world.day \in Days /\ world.band \in 0 .. BandsPerDay - 1
  /\ \A p \in People : world.seen[p] \in Days \cup {Nothing}
  /\ stage \in {"idle", "settled", "told", "digested", "caughtup"}
  /\ (stage = "idle") <=> (scene = Idle)
  /\ scene.present \subseteq Npcs /\ prev \in (SUBSET Npcs) \cup {Nothing}

\* The world a session works on is the one its events tell, at every step of an
\* action, after a drop and after a rewind (run_turn and play_loop cache it).
WorldIsFold == world = Project(log \o batch)

\* The balance is what the last settlement that stands left: no fact, evolution
\* or reflection of any turn touched it, and no rewind left it behind.
Settlements(events) == {k \in DOMAIN events : events[k].kind \in {"configured", "resolved"}}
PurseIsSettled == stage = "idle" => /\ Balance(world) = log[Max(Settlements(log))].value
                                   /\ Balance(world) >= Floor

\* Turns never rewrite the past: whoever was somewhere, and whatever the balance
\* was, on a day before the action began, is so after it.
ThePastStands ==
  [][stage # "idle" \/ stage' # "idle" =>
       \A d \in 1 .. Project(log).day - 1 :
         /\ ValueAt(world'.purse, d) = ValueAt(world.purse, d)
         /\ \A p \in People :
              ValueAt(world'.place[p], d) = ValueAt(world.place[p], d)]_vars

\* A published turn leaves nothing open.  It was settled: no declaration of the
\* protagonist takes the rules of the resource away.  Whatever moved the player or
\* the day, its scene is anchored where and when the player is.  A player who
\* asked to wait is in the band asked for, on that day or on a later one that a
\* move arrived on.
TurnsAreClosed ==
  [][log' # log /\ stage # "idle" =>
       /\ \E e \in Range(log') : e.turn = Turn /\ e.kind = "resolved"
       /\ world'.anchor # Nothing => world'.anchor = [at |-> At(world', Hero), day |-> world'.day]
       /\ scene.wait # Nothing =>
            world'.band = scene.wait.band /\ world'.day >= scene.wait.day]_vars

\* Catch-up is all or nothing.  After it nobody who entered the scene is behind the
\* clock except those beyond the budget, whoever changed and whatever an answer was
\* worth; or an entrant's own fact_rules refuse a value the model may have given,
\* and then nothing of the hook is in the turn: not the records of the other
\* entrants either (turn.py:411-421, store.py:301-309).
EntrantsCaughtUp ==
  [][stage' = "caughtup" =>
       \/ Cardinality(StaleEntrants(world'))
            <= Max({0, Cardinality(StaleEntrants(world)) - Budget})
       \/ /\ batch' = batch
          /\ \E p \in StaleEntrants(world), value \in Replies : <<p, value>> \in Refusals]_vars

============================================================================
