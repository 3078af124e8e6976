# Verification of the RPG engine: models, checks and proofs

The program is a single-player role-playing engine. A language model narrates;
every change of the world is an event in an append-only SQLite log; the world is
the fold of the visible events; undo hides events. Several processes may have
the same campaign open (a player's loop, the legacy CLI, a hook script), each
with its own cached world and its own conversation with the narrator, and no
process holds a lock while a model call runs. The hard part of the program is
to keep log, caches and export consistent under that optimism, and to keep the
many backstage rules (quest lines, pacing, cascades, clocks) consistent under
rewinds, failures and replays.

This directory holds TLA+ modules translated from `src/`, TLC configurations
that check them on small instances, and TLAPS proofs for all instances.
`PROJECT.json` maps every definition to the lines it stands for.

## 1. Inventory

| Component | State | Operations | Talks to |
|---|---|---|---|
| Event store (`engine/store.py`) | `events` rows with seq, turn, retracted flag; `store_revision`; `action_receipts` | `append`, `append_many` (receipt, revision, retractions, preflight, insert, bump, receipt), `retract_from_seq/turn`, `snapshot`; `EventBatch`: stage, savepoint, staged retraction, publish | all below |
| JSONL mirror (same file) | `events.jsonl`, `mirror_error` | `sync_jsonl` after every commit, temporary file and rename | SQLite lock of the store |
| Turn gateway (`loop/turn.py`) | one `EventBatch` per turn | `run_turn`: version check, resources, variation, produce/validate/repair, apply, eight backstage hooks, publish or roll everything back | store, strategy, hooks |
| Play loop (`app/play.py`, `app/engine.py`) | `engine.world` with its `_revision`, `prev_scene`, compare flag | player turn, compare turn, `/undo`, `/rewind`, `//veto`, `//retcon`, display commands, reload on conflict | gateway, store |
| Narration strategies (`loop/strategy.py`) | `_thread`, `_messages`, `_pending_user`, `_compaction_due`, `_committed_revision` | `produce`, `commit_to_thread`, `reset` | LLM, gateway |
| Lore lines (`loop/lore.py`, `systems/lore.py`, `loop/endgame.py`, `loop/density.py`) | quest lines 暗/明/了结 with stage, lifespan, anchor; seeded towns | nightly dice, surfacing, advance, resolve, demotion, expiry, finale, seeding and refresh under caps | turn hooks, cascade |
| Director (`loop/director.py`, `systems/director.py`) | pending directives, `consumed_through_turn`, threads | roll, fire, consume, show in the next turn | narrator's context |
| Cascade (`loop/cascade.py`, `systems/cascade.py`) | queue of deferred consequences with a watermark | drain, traverse down and sideways, evolve, prune, defer | lore (catastrophes), ontology |
| Time, facts, resources (`systems/time.py`, `facts/`, `systems/ontology.py`, `loop/resources.py`, `loop/time.py`) | day, band; bitemporal facts and relations | advance clock, supersede facts, resolve affordability, lazy catch-up | every hook |
| Narrative memory (`systems/narrative.py`, `systems/knowledge.py`, `memory/`) | recap levels, importance counters | bucket, recompress, reflect at a threshold | digest hook |
| Fleet (`loop/fleet.py`) | none of its own | the digest hook's calls | memory |
| Genesis and reroll (`loop/bootstrap.py`, `loop/genesis/`) | `_boundaries`: first seq of each step | nine generation steps in one batch; `reroll_all`, `reroll_step` | store, LLM |
| World state systems (`systems/character.py`, `faction`, `place`, `object`, `scene`, `codex`) | slices of the world | one fold step per event | projection |
| Projection kernel (`kernel/`) | none | fold, registry, validation of shapes | store |
| LLM access (`llm/`), context (`context/`), helpers, settings, tracing | process-wide switches | provider calls, repair loop, prompt text | strategy, hooks |
| Legacy engine and CLI (`engine/*`) | archive index, vector index | unversioned appends, rewind by seq, linters, dice | store |

### What is hard, and what makes each part correct

* **Store.** Work is prepared without a lock against a copied snapshot and
  checked by one integer at publication. Correct: equal revision means equal
  history; what is committed is what was prepared; receipts name exact rows; an
  action is visible whole or not at all; undo is for ever; turn numbers stay
  1..n although they are reused after a rewind.
* **Mirror.** A second transaction after the commit, which may fail, time out,
  race with another process's or never happen. Correct: an older export never
  replaces a newer one; any lag has a living or recorded reason; a receipt
  without `mirror_pending` is true; no lock is leaked.
* **Gateway, play loop, strategy.** Two caches (world, conversation) outlive
  conflicts, undo, failures and other processes' writes. Correct: the
  conversation continued is always the end of the story it continues; a failed
  turn leaves nothing; a process sees its own writes; nothing is published from
  a stale world.
* **Lore lines.** A state machine driven by a narrator, dice, days and places,
  with idempotence keyed on the log. Correct: terminal states are terminal,
  finales come only after their due, lines cannot get stuck, caps hold up to
  the documented drift.
* **Director, cascade.** Watermarks over turn numbers that a rewind reuses;
  budgets per traversal. Correct: shown exactly once, consumed exactly once,
  bounded work per turn.
* **Clock, facts.** Dates only move forward within a history; supersession keeps
  at most one current value.
* **Genesis.** Recorded boundaries outlive the rows they point to.

Every hazard, with its line and the properties aimed at it, is in
`PROJECT.json`.

## 2. Plan

| Order | Module | About | State |
|---|---|---|---|
| 1 | `VersionedLog` | abstract promise: an optimistic, append-and-hide log | done |
| 2 | `EventStore`, `EventStoreProofs` | the store; implements `VersionedLog` | checked, safety proved |
| 3 | `JsonlMirror`, `JsonlMirrorProofs` | the export | checked, safety proved |
| 4 | `PlaySession`, `PlaySessionProofs` | play loop, caches, commands | checked, safety proved |
| 5 | `LoreLines`, `LoreLinesProofs` | quest-line lifecycle over turns, days and places | checked, safety proved |
| 6 | `Commit`, `Narration`, `NarrationProofs` | a turn as a conversation with a model: resolve, validate, repair | checked, proved in part |
| 7 | `Director`, `Cascade`, `Backstage`, `BackstageProofs` | the two watermark queues, and a turn that composes them with the recap | checked, proved |
| 8 | `GenesisSpec`, `Worldgen`, `Genesis` | wishes, generation steps, boundaries and rerolls | checked |
| 9 | `FactGraph`, `Chronicle`, `ChronicleProofs` | clock, facts, purse, catch-up and the fold over whole turns | checked, proved |
| 10 | `Recap` | recap buckets, summaries and their merge; the digest step of `Backstage` | checked, proved with `Backstage` |

Proofs worth having next: of `Genesis`, `BoundariesDivide` and `WorldIsWhole` from an
invariant that boundaries name rows of genesis in the order of the steps, then
`WishesKept` and `FreshDice`.

## 3. Models

### EventStore (`src/engine/store.py`)

| Model | Code |
|---|---|
| `rows`, position = seq | table `events`; AUTOINCREMENT, so a hidden row keeps its seq |
| `revision`, `receipts` | tables `store_revision`, `action_receipts` |
| `open`, `batch` | an `EventBatch` per process: snapshot, base revision, staged events and retractions, the savepoint mark |
| `OpenTurn`, `OpenGenesis`, `Stage`, `RetractStaged`, `Discard` | `EventBatch.__init__`, `append`, `retract_from_*`; the caller drops it |
| `BeginHook`, `EndHook`, `FailHook` | `EventBatch.savepoint` |
| `Publish`, `DirectAppend` | `append_many` with and without an expected revision: receipt, revision, retractions, preflight, inserts, bump, receipt |
| `RetractFrom` | `retract_from_turn`, `retract_from_seq` |

One SQLite write transaction is one step. Everything a batch does is a step of
its own, so two processes interleave at every point where the code can wait for
a model. JSON columns, timestamps and the type filter of `_insert` are left out.

`VersionedLog` is what the store promises: a session begins with a copy of the
log, edits in private, and commits only if the log has not changed since. It has
no numbers: `fresh` says "nothing changed". `EventStore!VLSpec` is the refinement
in which `fresh` is the equality of two integers.

### JsonlMirror (the export in the same file)

A process goes `idle` - `unsynced` (committed) - `locked` - `read` - `replaced` -
`idle`; `SyncFails` and `Die` may happen at any of these points. The log is its
revision number: by `EventStore`'s `SnapshotCurrent` a revision names a history.

### PlaySession (`app/play.py`, `app/engine.py`, `loop/turn.py`, `loop/strategy.py`)

One row of its log is one whole action (justified by `WholeActions`). `world[s]`
is `engine.world`: the set of rows it was folded from and the revision it is
labelled with, read in two steps as the code does. `strategy[s]` is the state of
`AuthorStrategy`; its thread holds the rows its exchanges are about. `Prepare`,
`Produce`, `Fail`, `Conflict` and `Publish` are `run_turn`; `Rewind`, `Undo`,
`FindLastTurn` and `RetractFromTurn` the commands; `Project`, `Label`, `Settle`
the reload after a command or a conflict. `OwnWritesSeen` relates the two ways in which a
process comes by a world, from its own turn's batch and from a reload: whoever wrote last
goes on from all that was written. That a turn which fails leaves no row is not stated: the
log is written in one step, and a death inside SQLite's transaction is SQLite's to undo.

### LoreLines (`loop/lore.py`, `systems/lore.py`, `loop/density.py`, parts of `loop/turn.py` and `loop/fleet.py`)

`line[l]` is the record of `world["systems"]["lore"]["lines"]`; `told` the
`already` set of `run_lore`, which is read from the log; `fresh` the lines whose
`surfaced_turn` is this turn; `refreshed` the `gen` slice. A turn is `Narrate`
(the commit: clock, move, quest operations), `Flag` (backstop), `RunLore`,
`RunDemote`, `Seed` or `Refresh`; any hook may be skipped or fail (`SkipHook`).
Dice are choices, because their seeds are hashes. Texts, clues and graded
disclosure are left out; so is the spread of a catastrophe over the map.

### Commit and Narration (`kernel/validation.py`, `loop/entity_resolve.py`, `loop/strategy.py`, `produce_turn` of `loop/turn.py`, `llm/provider.py`)

| Model | Code |
|---|---|
| a commit, a function from keys to values | `TurnCommit` (narration and sections) |
| `Augmented`: `Bearers`, `FreshId`, `Minted` | `augment_unresolved_refs`; its ids `npc_auto_<day>_<k>` are `NpcAuto` |
| `Failing` | `validate_commit`, the owners' validators, `validate_narration`: the sections the errors name |
| `Applied` | `apply_turn` and the folds of people and true names |
| `Start`, `CallTools`, `Tell`, `Answer`, `AskAgain`, `Repair` | `produce` and `repair_sections` of both strategies, the tool loop |
| `Retry`, `CallFails` | `_do_post`'s retries, an exception |
| `Publish`, `Drop` | the rest of the turn, which succeeds or not |

What a model says is a choice among whole commits, right and wrong in the ways
the gate tells apart; a broken answer with or without a narration to salvage; and
bare prose. Places are resolved as people are, and stand for nothing of their own.

### Director, Cascade, Recap, Backstage (`loop/director.py`, `loop/cascade.py`, phase 3 of `loop/fleet.py`, their folds in `systems/`)

The three components keep their state in the log: what is pending is a function of
the events and of the last watermark, and the recap a fold over them. `Director`,
`Cascade` and `Recap` are those functions, `Backstage` the turn that runs them as
steps: `Narrate` (which shows the directive), `Digest` (a summary, a summary and a
merge, or neither), `Direct` or `DirectorFails`, `BeginCascade`, `DrainRegion` for each
region put off, `AskLevel` for each breadth-first level, `BeginDescent`,
`EndCascade` or `CascadeFails`, `EndTurn`, `Publish` or `Drop`, and `Rewind`
between turns. A cascade that fails half way loses what it staged (`mark` is its
savepoint). `Publish` also decides whether the next turn is a new scene. A turn's
prose is its number and a summary the set of turns it was made from, so that what
the narrator remembers can be compared with what was told.

### GenesisSpec, Worldgen, Genesis (`loop/bootstrap.py`, `loop/genesis/`, `loop/genesis_spec.py`, `app/__main__.py`)

`GenesisSpec` merges wishes from five sources as the code does. `Worldgen` says of
every generator what it creates, what it attaches it to, and whether a wish, the
model or a stub made it; dice are a function of step and attempt. `Genesis` is the
process: a boot over an empty or existing campaign, the dialogue, one batch per
generation with its recorded boundaries, rerolls, acceptance, turns, rewinds and
crashes, in two processes at once.

### FactGraph, Chronicle (`facts/graph.py`, `kernel/clock.py`, `loop/resources.py`, `loop/time.py`, folds of `systems/`)

`FactGraph` is the supersession of one-valued facts and their value on a day.
`Chronicle` is a turn as seen by the world: `Begin` (the purchase or the wait is
settled), `Write` (the commit's events), `Reflect` or `NoArc`, `CatchUp` or `CatchUpFails`,
`Publish` (the final balance check and the scene) or `Drop`, and `Rewind`, after
which the log is `Standing`: the events of the turns before the one named. `Fold`
is `project`: one event after another, each of which may be refused: by the floor of the
purse, by a day too early, or by the `fact_rules` of a person (`Refusals`). A reflection of
several subjects and a catch-up of several entrants are each one savepoint, kept whole or
dropped whole. `Answers` is what catch-up writes: one event for each entrant the budget
reaches, changed or not; if the projection refuses one of them, the turn goes on without
any (`CatchUpFails`).

## 4. Runs

| Run | Question | Bounds, and why they are enough |
|---|---|---|
| `store_play` | do two racing processes keep actions whole and turns 1..n? | 3 rows, 3 action ids, 5 revisions: a two-event turn, its undo, its replacement with the same turn number and a retry of the first |
| `store_direct` | with retractions staged in batches, legacy unversioned appends and seq rewinds: are receipts exact, is what was prepared what is stored, does the store implement `VersionedLog`? | 2 action ids reused by appends, one staged retraction by turn or seq, one rewind boundary inside an action's reach |
| `mirror` | does the export settle, never regress, and account for its lag? | 2 processes, 3 commits: one exporting, one committing, one failed export behind them; deaths and reopening unlimited |
| `play` | conversation, world cache and undo with two play loops | 4 changes, 2 kept exchanges: the thread is cut, undone, resumed, and left behind by the other process |
| `play_stale`, `lore_stuck` | see Findings | as `play` and `lore_story` |
| `lore_story` | a line's whole life: finale, eruption, demotion, expiry | one line of any tier, 4 days, lives of 2-3 days, 2 towns: born, left, erupted, idle, demoted, due and ended all fit |
| `lore_density` | do caps hold when batches are rolled blind, and who reopens closed lines? | caps of 0, 1 and 1, batches of 2, 2 towns of one region, 4 generated lines, or 3 beside a narrated one, at most one stage told (`FewLines`): the bound of the medium and of the complex tier is 2, so both could be passed by the third line of a later batch, and the mutant passes both |
| `narration` | can whatever is accepted be applied, do repairs keep what passed, does every turn end? | 2 turns, 2 repairs, one tool round, one retry; a stranger with a name, an elder who stands by, three ids to mint, an unknown section: every pair of errors of different sections, and a name of the first turn used in the second |
| `backstage` | are directives and deferred regions delivered once, is spreading bounded, what does the narrator remember? | 3 turns and rewinds to any of them; a capital with two levels of places beside two regions, breadth 1, budget 2, one region spread to: a drain and a descent in one turn, each cut short by its bound; a window of one bucket of two turns and merges of one summary: a bucket split by scene and by size, a late summary and a merge |
| `genesis` | is a published world whole, however it came about? | 2 processes, 3 revisions, no wishes or overlapping ones from all sources: a generation, two rerolls of any kind, or a reroll after a turn or another process's write |
| `chronicle` | are the purse, the clock, the places and the scene consistent after any turn? | 3 turns, 3 days, two places, three others and a budget of two, one of whom refuses the value an answer may give, a purse that two purchases exhaust and a price nobody can pay, commits of two items: a travel, a late arrival, a second declaration, a conflict with the settlement, and rewinds over all |

Sessions, action ids, towns and generated ids are symmetric in the runs without
liveness. Deadlock is checked in every run but two: `narration` stops after its
last turn and `genesis` after its last revision, which are bounds of the model.

**Fairness.** Three specifications need any. `JsonlMirror` has
`WF(Sync(s))`: `_sync_mirror_safely` follows the commit in the same call, and the
busy timeout makes `SyncFails` possible wherever a lock is awaited; nothing is
assumed of commits, deaths or restarts. `LoreLines` has `WF(Next)` and
`SF(RunLore)`: turns go on as long as somebody plays, and `run_lore` calls no
model, so it does not fail in every turn. Nothing is assumed of dice, days,
movements or the narrator; `AbandonedLinesEnd` holds wherever the protagonist is.
`Narration` has `WF(Step)`: a turn under way is one thread that runs on, every
post has a timeout, and what the post brings, good or bad, stays open.

## 5. Findings

1. **A stale world may be published** (`play_stale`). `rewind`, `build_engine`
   and the conflict handler fold the world and read the revision afterwards. A
   commit of another process in between labels a stale world as fresh. The
   README of the program promises that stale writes are rejected. `play` checks
   that this is the only way (`StaleOnlyWhenLate`).
2. **Rewritten lines never walk on** (`lore_stuck`). Demotion resets the stage
   index, but the record of told stages is keyed by line and index and survives.

Observed while modelling; no run is kept for these, the lines show them:

* `/undo` without a played turn retracts from turn 0, the turn of genesis
  (`app/engine.py:166`), and `/rewind 0` takes the world too; the turn to cut at is
  read before the transaction that cuts. `UndoTakesTheLastTurn` states what holds.
* The checkpoint rescue of `run_lore` lacks the exemption of the protagonist's own
  lines that finale and expiry have (`loop/lore.py:245-268` against the docstring
  at 73-74). An open personal line is demoted on the next turn, since its anchor is
  a person; a flagged line has no lifespan and may stay dark for ever; a theme
  repeated by density generation overwrites the earlier line.
* `run_catchup` promises a record for everybody it asks, "so entity is not re-queried"
  (`loop/time.py:185`), changed or not. The hook is one savepoint: if one answer's value breaks the
  `fact_rules` of its person, the preflight (`engine/store.py:301-309`) refuses all of it, the
  records of the other entrants are dropped with it and the turn is published
  (`loop/turn.py:411-421`). In the next turn `prev_scene` holds these people, so they are no
  entrants any more and stay behind the clock until they leave and return, or something else
  happens to them. `EntrantsCaughtUp` states what holds.
* The name a character is created under is not recorded
  (`systems/character.py:83-95`), so a later turn that uses it mints a second
  person, although `loop/entity_resolve.py:15-16` says a name is never created
  twice. A name recorded as a fact is never minted again (`RecordedNamesNotMinted`).
* `PlaceSystem.to_events` dates a move at its arrival (`systems/place.py:357-381`);
  two moves of one commit, the first arriving later, are refused by the fact graph
  when they are applied, after validation has passed them: the turn is dropped.
* The cascade's node budget caps each walk (`loop/cascade.py:572-597`), while the
  comment at 56-59 has it cap a whole call; `SpreadIsBounded` states what holds.
  The play loop's scene is a number, so a hop into the region of the scene is put
  off rather than done in place.
* A digest writes one summary, of the oldest scene that waits for one
  (`loop/fleet.py:300-316`), while every turn that opens a scene ages another. After a
  failed summary the narrator is shown nothing of one scene between the summaries and the
  window, until a turn that opens no scene lets it catch up. `MemoryIsWhole`
  states that this is all that is lost, and never more than one scene per failure.
* A section that no system owns cannot be repaired: `produce_turn` only updates
  sections, so the turn spends its repairs and is rejected
  (`KnownErrorsRepairable` excludes it). A minted person replaces a facts section
  that was no list, and hides that error.
* Two processes that start on an empty campaign one after the other both seed it
  (`app/__main__.py:400-404`). `reroll_all` retracts played turns too
  (`loop/bootstrap.py:434`). `reroll_step` drops the codex and an authored opening.

## 6. Proofs

For every value of the constants (any number of processes, lines, towns, turns,
any map, drafts and bounds), under the named assumptions of the modules. Where a
theorem has a hypothesis of its own, it is named below with its reason. Before an
inductive invariant was proved, TLC checked it in the states of the component's run.

* `EventStoreProofs`: `TypeCorrect`, `RevisionNamesHistory`,
  `PublishesWhatItPrepared`, `UndoIsForEver`, `StoreImplementsLog`. The inductive
  invariant is `TypeOK /\ MarksInRange /\ SnapshotCurrent`. `SnapshotCurrent`
  carries the argument: while revisions are equal nothing was written, since
  every write that changes a row also raises the number (`NextRevision`), and a
  staged retraction hides the same rows in the copy as it will in the store. `MarksInRange` keeps a savepoint's mark
  within the staged events, so that failing a hook is a prefix. Refinement: each
  step of the store is mapped to a step of `VersionedLog` or a stutter, by action.
  The module continues with the store's actions, over one lemma on what a
  transaction can be (a batch's publication, an append, a retraction).
  `ReceiptsNameTheirRows` (`ReceiptsExact`) needs no more than types: a
  receipt is written with the rows that are appended after all others.
  `ActionsStayWhole` (`WholeActions`) needs `AInv`: a receipt's rows carry one
  turn and are hidden together (`AllTogether`), and every batch is `Coherent`, its events
  carrying its turn and its cuts falling at turns or at rows of genesis, so that by
  `SnapshotCurrent` they fall there in the stored log too. `TurnsStayInOrder`
  (`PlayTurnsOrdered`) adds that a batch's turn is the next of its snapshot. Its
  hypothesis `DirectTurns \subseteq {0}` says that appends outside a batch carry
  no played turn; the play loop writes its turns through batches only, and the
  legacy CLI, which may append anything, promises no such order.
* `JsonlMirrorProofs`: `NoLockLeaks`, `EveryLagIsAccounted`, `ReceiptsAreHonest`,
  `NeverRegresses`. The lock's holder is exactly the exporter
  (`LockHeldByExporter`, `ExporterHoldsLock`), so what it read is still the whole
  log when it renames (`ReadIsCurrent`), and a warning that dies with its process
  is recorded (`LostWarnings`).
* `PlaySessionProofs`: `ConversationFollowsStory` (`ConversationEndsStory`),
  `OnlyLateWorldsAreStale` (`StaleOnlyWhenLate`), `OwnChangesAreSeen`
  (`OwnWritesSeen`), `UndoTakesOneTurn` (`UndoTakesTheLastTurn`). The
  invariant `PInv` treats the three caches of a process alike: a number below the
  store's says nothing, the store's own number says that the cache is current.
  `WorldLabelled` has it for the world, except between fold and label;
  `BatchTaken` for the batch; `Tells` for the conversation and for the copy that a
  failure restores, which must satisfy it as well, since the restored one is
  continued. `OwnInv` adds that the
  world of the last writer is not only labelled but current, at the prompt and in a turn,
  and that where it is not, a reload is under way. `OneRowPerTurn` and `UndoAimed` are for undo: the turn found is still
  the last when nobody else wrote, and only one visible row has its number.
* `LoreLinesProofs`: `TypeCorrect`, `FinalesAreEarned`, `NewsGetsATurn`,
  `ClosedStaysClosed`, `CapsAreKept` (`CapsHold`). The invariant adds `FreshIsOpen`
  to `TypeOK` and `FinaleIsDue`: a line that surfaced this turn is open and was
  touched today, hence neither left nor idle. Lemmas say what each update does to
  one line. `CapsHold` is inductive beside it: a tier that is drawn had a slot free
  when all makers' lines were counted (`RolledHasRoom`), a batch adds at most its
  size to the generated ones among them (`BatchFits`), and no other step makes a
  generated line, moves one or takes one back from its ending (`OnlyNew`).
* `NarrationProofs`: `NobodyIsImaginary` (`NobodyImaginary`), because an accepted
  commit is one that the last validation found no error in, and what is validated
  to exist is what `Applied` creates. `RepairsTakeNothing` (`PassingSectionsKept`)
  and `NamesLeadToBearers` (`RecordedNamesNotMinted`) need `TurnOK`: the commit under
  way is one (`CommitOK`), facts are recorded of people who exist, and whom the
  commit names anew bears no recorded name. The work is in
  `AugmentedResolves`: resolving the references one after another, in any order,
  takes nothing from the commit. `ListsAreLists` is a hypothesis about the model's
  constant only: what is no list differs from every list. `NoMintWritten` says
  that no answer writes a fact about an id of a mint: these ids are made after the
  answer was given, in the turn that mints them. Ids of *earlier* turns are people
  of the world, whom the model may name.
* `BackstageProofs`: `DirectivesArriveInOrder` (`DirectivesInOrder`),
  `RegionsAreDrainedOnce` (`DrainedOnce`), `ChangesStayBounded`
  (`SpreadIsBounded`). `Shape` says that turns are numbered without a gap and that
  staged events carry the turn under way. `Letters` is the director's part: `Mail` of a
  history (every directive is consumed in a later turn and before or when the next is
  fired) and `Handled` of what a turn has staged. `Queued` is the cascade's: the
  watermark covers exactly the regions drained (`Queue`), and the turn under way
  has drained what the loop is past (`Walked`) or all of it (`Swept`). `Mail`,
  `Queue` and `Ring` hold of a history by themselves, and the lemmas show that
  they survive the two things that happen to one: a turn is added (`MailGrows`,
  `QueueGrows`, `SpreadGrows`) or the last turns are cut off (`MailShrinks`,
  `QueueShrinks`, `SpreadShrinks`), which is why reused turn numbers do no harm.
  `Spreading` adds the cause of every place on the frontier and the budget that
  the walks begun so far allow; a level is a fold over its places, so
  `LevelStays` shows what a visit keeps for all visits.
  `MemoryStaysWhole` (`MemoryIsWhole`) is about the recap, a fold over the turns.
  `Tale(h, n)` is that fold after turn `n`; it is `Story` at the last turn, and a
  history that is cut has the tale it had then (`StoryCut`), so a rewind needs no
  argument of its own. `Laid` and `Sound` say how a recap lies: its buckets divide
  the turns told in order, a prefix of them has its summary, a prefix of that is
  merged, and no bucket of the window is among them. `RecordLaid`,
  `SummarizeLaid` and `RecompressLaid` show it of each event, for any window, bucket
  size and fanout. The invariant `Memory` is that the history seen is `Remembered`:
  after *every* turn of it the recap is sound and no more scenes wait for a summary
  than digests failed until then, but for the one of a turn whose digest is still
  to come. The last lemma reads what the narrator is shown off that layout.
* `ChronicleProofs`: `TypeCorrect`, `WorldFromEvents` (`WorldIsFold`),
  `PurseFromSettlement` (`PurseIsSettled`), `PastStands` (`ThePastStands`),
  `TurnsClose` (`TurnsAreClosed`), `EntrantsAreCaughtUp` (`EntrantsCaughtUp`): every
  property of the component's run. `ChronicleInvariant` states what they rest on.
  Of the log: its events are in the order of their turns, and at the end of *each*
  turn the books are closed: the fold of what is published until then has the
  purse the last settlement left and a scene that is where and when the
  player is. It must be said of each turn, because a rewind ends the log at any of
  them; that `Standing` is such a prefix follows from the order. Of the turn under
  way: its first event is the settlement, nothing after it settles again, and what
  it staged leaves every day before the log's last as the log has it. For this a
  supersession ends a value at its day and begins the next there, so the value of
  an earlier day is found where it was, and a move that arrives late does not
  disturb the days in between. For `EntrantsAreCaughtUp`: a world that stands at
  the end of a list stood after each event of it (`StoodBefore`), so a list that is kept
  brings everybody in it to the clock; and the list of answers is kept unless somebody's
  rules refuse a value (`AnswersAccepted`, from `NothingToRefuse`). The fold is a
  recursive function of the length; that folding an extended list is folding the
  extension from the result is shown from the definition of the loop, with `DataLemmas`.
* `DataLemmas`: what these need of numbers and loops. `MaxOfBounded` and its like
  are about `max(.., default=0)`. `LoopExists` and `ListLoop` say that a fold over
  a finite set or a list is some recursive function, and `LoopStays` that a set
  closed under every step contains the result; both come from the well-foundedness
  of the numbers (`FirstNumber`), without an induction rule.

Changes made to the models for the proofs, none of which changes a behaviour: `Commit`
writes `dict.update` as `Updated`, `Cascade` a filter as the fold `Without`, and
`LoreAssumption` and `CascadeAssumption` say that ids and places are finitely many
and that density generation's ids (`gen_<town>_<hash>`) are not those of genesis.
`FactGraph` says that `Nothing` is no number and takes the value of a day with `Min`;
`Chronicle` names the people, ranks and items its constants are made of,
bounds them by these in `ChronicleAssumption`, and writes `Genesis` and catch-up as lists.

Only model-checked:

* Liveness (`TurnEnds`, `MirrorSettles`, `AbandonedLinesEnd`): fairness and
  `ENABLED` are out of the provers' reach.
* `KnownErrorsRepairable`: which errors a repair can mend depends on the answers
  the model is given, so it is a statement about the instance.
* `WorldIsWhole`, `BoundariesDivide`, `WishesKept` and `FreshDice` of `Genesis`: no
  inductive invariant of the generation's process has been worked out (see the plan).

## 7. Not modelled

* The counts of regions and factions a blueprint may fix (`loop/genesis/world.py:106-107`):
  `Worldgen` draws them. A thread the model words starts in a venue of its choice, which is
  fixed here to the one a stub would take; nothing depends on which.
* Prompt and context assembly beyond what of the recap is shown, and the read-only tools (pure text over a projected
  world), HTTP request formats, settings and tracing (process-wide switches).
* The folds of factions, objects and the codex: sequential dictionary updates by
  one event each, with unit tests. Many-valued relations and spans of the fact graph.
* The legacy engine's linters and indexes: they change no state of a campaign that
  others read.
