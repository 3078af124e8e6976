----------------------------- MODULE PlaySession -----------------------------
(***************************************************************************)
(* The play loop of app/play.py and the turn gateway of loop/turn.py: how  *)
(* a process keeps its two caches, the projected world and the narrator's  *)
(* conversation, in step with a store that other processes write too.      *)
(*                                                                         *)
(* A row of the log is one whole action (EventStore!WholeActions): genesis *)
(* in turn 0 or a played turn.  A turn is named by its row's position, a   *)
(* projected world by the set of rows it was folded from.  Every read of   *)
(* the store outside a write transaction is a step of its own.             *)
(***************************************************************************)
EXTENDS Integers, Sequences, FiniteSetsExt

CONSTANTS
    Sessions,        \* processes playing the campaign
    NoSession,       \* nobody has written yet
    KeepExchanges,   \* exchanges the conversation keeps (8 in the code)
    MaxRevision      \* bound: committed changes after genesis

ASSUME PlayAssumption == KeepExchanges \in Nat \ {0} /\ MaxRevision \in Nat \ {0}

VARIABLES
    log,        \* the stored actions
    revision,   \* their revision
    pc,         \* where each process is
    world,      \* engine.world: the rows folded and the revision it is labelled with
    strategy,   \* the state AuthorStrategy carries from turn to turn
    batch,      \* the EventBatch of the turn being prepared
    saved,      \* run_turn's old_state
    compare,    \* the turn runs with a PreparedCandidate (compare mode)
    before,     \* play_loop's revision_before
    target,     \* the turn a rewind cuts at
    writer,     \* history: the process that wrote last
    late        \* history: the processes another one wrote between fold and label of

storeVars == <<log, revision, writer>>
vars == <<log, revision, pc, world, strategy, batch, saved, compare, before, target,
          writer, late>>

NoRevision == -1

Seqs(l) == 1..Len(l)
Active(l) == {i \in Seqs(l) : ~l[i].retracted}

\* Mutant: turns taken back count.
LastTurn_hidden(l) == Max({0} \cup {l[i].turn : i \in Seqs(l)})

LastTurn(l) == Max({0} \cup {l[i].turn : i \in Active(l)})
Played(l) == {i \in Active(l) : l[i].turn > 0}

Row(t) == [event |-> IF t = 0 THEN "genesis" ELSE "turn", turn |-> t, retracted |-> FALSE]

\* retract_from_turn
Cut(l, t) == [i \in Seqs(l) |-> [l[i] EXCEPT !.retracted = @ \/ l[i].turn >= t]]

\* live: _thread is not None; pending: _pending_user is not None;
\* due: _compaction_due; committed: _committed_revision
NewStrategy == [live |-> FALSE, thread |-> <<>>, pending |-> FALSE, due |-> FALSE,
                committed |-> NoRevision]

\* AuthorStrategy.reset, which leaves _committed_revision alone
Reset(st) == [NewStrategy EXCEPT !.committed = st.committed]

NoBatch == [revision |-> NoRevision, snapshot |-> <<>>]

\* A new process projects the world, then reads the revision (build_engine).
Init ==
    /\ log = <<Row(0)>>
    /\ revision = 1
    /\ pc = [s \in Sessions |-> "project"]
    /\ world = [s \in Sessions |-> [folded |-> {}, revision |-> NoRevision]]
    /\ strategy = [s \in Sessions |-> NewStrategy]
    /\ batch = [s \in Sessions |-> NoBatch]
    /\ saved = [s \in Sessions |-> NewStrategy]
    /\ compare = [s \in Sessions |-> FALSE]
    /\ before = [s \in Sessions |-> NoRevision]
    /\ target = [s \in Sessions |-> 0]
    /\ writer = NoSession
    /\ late = {}

Goto(s, place) == pc' = [pc EXCEPT ![s] = place]

\* run_turn returns or raises: its locals are gone.
EndTurn(s) ==
    /\ batch' = [batch EXCEPT ![s] = NoBatch]
    /\ saved' = [saved EXCEPT ![s] = NewStrategy]
    /\ compare' = [compare EXCEPT ![s] = FALSE]

\* What a write leaves for the histories.
Wrote(s) ==
    /\ writer' = s
    /\ late' = late \cup {o \in Sessions \ {s} : pc[o] = "label"}

-----------------------------------------------------------------------------
(* Loading a world: build_engine, rewind and the RevisionConflict handler    *)
(* fold the log first and ask for its revision afterwards.                   *)

Project(s) ==
    /\ pc[s] = "project"
    /\ world' = [world EXCEPT ![s].folded = Active(log)]
    /\ late' = late \ {s}
    /\ Goto(s, "label")
    /\ UNCHANGED <<storeVars, strategy, batch, saved, compare, before, target>>

Label(s) ==
    /\ pc[s] = "label"
    /\ world' = [world EXCEPT ![s].revision = revision]
    /\ Goto(s, "settle")
    /\ UNCHANGED <<storeVars, strategy, batch, saved, compare, before, target, late>>

\* After a command the conversation is reset if the revision changed; the
\* handler of a conflict (before = NoRevision) resets it always.
Settle(s) ==
    /\ pc[s] = "settle"
    /\ strategy' = [strategy EXCEPT ![s] = IF revision # before[s] THEN Reset(@) ELSE @]
    /\ before' = [before EXCEPT ![s] = NoRevision]
    /\ Goto(s, "prompt")
    /\ UNCHANGED <<storeVars, world, batch, saved, compare, target, late>>

-----------------------------------------------------------------------------
(* Commands. *)

\* /rewind N and //retcon N
Rewind(s, t) ==
    /\ pc[s] = "prompt"
    /\ before' = [before EXCEPT ![s] = revision]
    /\ target' = [target EXCEPT ![s] = t]
    /\ Goto(s, "retract")
    /\ UNCHANGED <<storeVars, world, strategy, batch, saved, compare, late>>

\* /undo, /oops and //veto
Undo(s) ==
    /\ pc[s] = "prompt"
    /\ before' = [before EXCEPT ![s] = revision]
    /\ Goto(s, "undo")
    /\ UNCHANGED <<storeVars, world, strategy, batch, saved, compare, target, late>>

\* last_turn reads the log, before the transaction that cuts it
FindLastTurn(s) ==
    /\ pc[s] = "undo"
    /\ target' = [target EXCEPT ![s] = LastTurn(log)]
    /\ Goto(s, "undo_retract")
    /\ UNCHANGED <<storeVars, world, strategy, batch, saved, compare, before, late>>

RetractFromTurn(s) ==
    LET kept == Cut(log, target[s]) IN
    /\ pc[s] \in {"retract", "undo_retract"}
    /\ kept # log => revision < MaxRevision
    /\ log' = kept
    /\ revision' = IF kept # log THEN revision + 1 ELSE revision
    /\ IF kept # log THEN Wrote(s) ELSE UNCHANGED <<writer, late>>
    /\ target' = [target EXCEPT ![s] = 0]
    /\ Goto(s, "project")
    /\ UNCHANGED <<world, strategy, batch, saved, compare, before>>

\* The retraction raises (a busy database): the error leaves play_loop, which
\* guards only the turn, and the process with it.  Also /quit, and any crash.
Die(s) ==
    /\ pc' = [pc EXCEPT ![s] = "project"]
    /\ strategy' = [strategy EXCEPT ![s] = NewStrategy]
    /\ world' = [world EXCEPT ![s] = [folded |-> {}, revision |-> NoRevision]]
    /\ EndTurn(s)
    /\ before' = [before EXCEPT ![s] = NoRevision]
    /\ target' = [target EXCEPT ![s] = 0]
    /\ UNCHANGED <<storeVars, late>>

-----------------------------------------------------------------------------
(* A turn: run_turn. *)

\* Mutant: run_turn does not compare the labels.
WorldIsCurrent_always(s) == TRUE

\* run_turn: world['_revision'] against the revision of the snapshot.
WorldIsCurrent(s) == world[s].revision = revision

\* Mutant: run_turn keeps the conversation whatever its revision.
ConversationIsStale_never(s) == FALSE

\* run_turn: strategy._committed_revision against the revision of the snapshot.
ConversationIsStale(s) == strategy[s].committed \notin {NoRevision, revision}

\* The snapshot is taken; a world labelled with another revision is refused and
\* a conversation committed at another revision is dropped.
Prepare(s, candidate) ==
    /\ pc[s] = "prompt"
    /\ WorldIsCurrent(s)
    /\ batch' = [batch EXCEPT ![s] = [revision |-> revision, snapshot |-> log]]
    /\ strategy' = [strategy EXCEPT ![s] =
                        IF ConversationIsStale(s) /\ ~candidate THEN Reset(@) ELSE @]
    /\ saved' = [saved EXCEPT ![s] = strategy'[s]]
    /\ compare' = [compare EXCEPT ![s] = candidate]
    /\ Goto(s, "produce")
    /\ UNCHANGED <<storeVars, world, before, target, late>>

\* RevisionConflict before anything was prepared.
Refuse(s) ==
    /\ pc[s] = "prompt"
    /\ ~WorldIsCurrent(s)
    /\ Goto(s, "project")
    /\ UNCHANGED <<storeVars, world, strategy, batch, saved, compare, before, target, late>>

\* AuthorStrategy.produce continues the conversation, or rebuilds it from the
\* world when there is none or it was found too long; this call may find it so.
Produce(s) ==
    /\ pc[s] = "produce"
    /\ ~compare[s]
    /\ \E due \in BOOLEAN :
          LET st == strategy[s]
              continued == st.live /\ ~st.due
          IN strategy' = [strategy EXCEPT ![s] =
                [st EXCEPT !.live = TRUE, !.pending = TRUE, !.due = due,
                           !.thread = IF continued THEN @ ELSE <<>>]]
    /\ Goto(s, "publish")
    /\ UNCHANGED <<storeVars, world, batch, saved, compare, before, target, late>>

\* Compare mode: the prepared candidate is returned as it is.
ProduceCandidate(s) ==
    /\ pc[s] = "produce"
    /\ compare[s]
    /\ Goto(s, "publish")
    /\ UNCHANGED <<storeVars, world, strategy, batch, saved, compare, before, target, late>>

Restored(s) == saved[s]

\* TurnRejected, a provider error, a failed preflight or write: old_state is
\* restored and the world stays.
Fail(s) ==
    /\ pc[s] \in {"produce", "publish"}
    /\ strategy' = [strategy EXCEPT ![s] = Restored(s)]
    /\ EndTurn(s)
    /\ Goto(s, "prompt")
    /\ UNCHANGED <<storeVars, world, before, target, late>>

\* append_many: expected_revision against the store's.
BatchIsCurrent(s) == batch[s].revision = revision

\* RevisionConflict at publication: old_state is restored, then play_loop
\* reloads the world.
Conflict(s) ==
    /\ pc[s] = "publish"
    /\ ~BatchIsCurrent(s)
    /\ strategy' = [strategy EXCEPT ![s] = Restored(s)]
    /\ EndTurn(s)
    /\ Goto(s, "project")
    /\ UNCHANGED <<storeVars, world, before, target, late>>

LastExchanges(th) == SubSeq(th, Max({1, Len(th) - KeepExchanges + 1}), Len(th))

\* commit_to_thread
Remember(st, row) ==
    IF st.live /\ st.pending
    THEN [st EXCEPT !.thread = LastExchanges(Append(@, row)), !.pending = FALSE]
    ELSE st

\* What the batch folds its world from and publishes.
Proposal(s) == Append(batch[s].snapshot, Row(LastTurn(batch[s].snapshot) + 1))

\* Mutant: the label is the revision the batch was prepared at.
ResultWorld_before(s) == [folded |-> Active(Proposal(s)), revision |-> revision]

\* The fold of the batch, labelled with the receipt's revision.
ResultWorld(s) == [folded |-> Active(Proposal(s)), revision |-> revision + 1]

\* The write transaction, then the caches of this process: the result's world,
\* the label of the receipt, and the conversation (reset when its update fails,
\* and after a compared turn).
Publish(s) ==
    /\ pc[s] = "publish"
    /\ BatchIsCurrent(s)
    /\ revision < MaxRevision
    /\ log' = Proposal(s)
    /\ revision' = revision + 1
    /\ world' = [world EXCEPT ![s] = ResultWorld(s)]
    /\ LET st == [strategy[s] EXCEPT !.committed = revision'] IN
       \/ /\ ~compare[s]
          /\ strategy' = [strategy EXCEPT ![s] = Remember(st, Len(log'))]
       \/ /\ ~compare[s]
          /\ strategy' = [strategy EXCEPT ![s] = Reset(st)]
       \/ /\ compare[s]
          /\ strategy' = [strategy EXCEPT ![s] = Reset(@)]
    /\ EndTurn(s)
    /\ Wrote(s)
    /\ Goto(s, "prompt")
    /\ UNCHANGED <<before, target>>

-----------------------------------------------------------------------------
Command(s) ==
    \/ \E t \in 0..(LastTurn(log) + 1) : Rewind(s, t)
    \/ Undo(s)
    \/ FindLastTurn(s)
    \/ RetractFromTurn(s)

Turn(s) ==
    \/ \E candidate \in BOOLEAN : Prepare(s, candidate)
    \/ Refuse(s)
    \/ Produce(s)
    \/ ProduceCandidate(s)
    \/ Fail(s)
    \/ Conflict(s)
    \/ Publish(s)

Load(s) == Project(s) \/ Label(s) \/ Settle(s)

Next == \E s \in Sessions : Load(s) \/ Command(s) \/ Turn(s) \/ Die(s)

Spec == Init /\ [][Next]_vars

-----------------------------------------------------------------------------
(* Properties. *)

\* A conversation th is the end of story l.
Ends(th, l) ==
    \A k \in DOMAIN th :
        /\ th[k] \in Played(l)
        /\ l[th[k]].turn = LastTurn(l) - (Len(th) - k)

\* The conversation the narrator continues is the end of the story it adds to:
\* the last turns of the snapshot, in order, none undone, none of another
\* process missing in between ("Discard derived conversation after rewind,
\* reload or a failed cache write", strategy.py:414), and no more of them than the
\* narrator keeps (strategy.py:432).
ConversationEndsStory ==
    \A s \in Sessions :
        /\ Len(strategy[s].thread) <= KeepExchanges
        /\ pc[s] \in {"produce", "publish"} /\ ~compare[s]
              => Ends(strategy[s].thread, batch[s].snapshot)

Preparing(s) == pc[s] \in {"produce", "publish"}

\* A process sees what it wrote.  While nobody else has written since it last did,
\* the world it holds at the prompt and in a turn is the fold of the whole log under
\* the store's revision (turn.py:554, play.py:534), and the turn it prepares is
\* current: through any order of turns, rewinds, failures and compared turns it meets
\* no conflict with itself, and no turn it plays misses its own last change.
OwnWritesSeen ==
    \A s \in Sessions : writer = s =>
        /\ pc[s] = "prompt" \/ Preparing(s)
              => world[s] = [folded |-> Active(log), revision |-> revision]
        /\ Preparing(s) => BatchIsCurrent(s)

\* "Source revisions reject stale writes" (README.md:47): what is published was
\* prepared from a world folded from exactly the history it extends.
StaleWorldsRejected ==
    [][\A s \in Sessions :
          Publish(s) => world[s].folded = Active(log)]_vars

\* ... and that fails only when another process wrote between the fold of this
\* world and the reading of its label.
StaleOnlyWhenLate ==
    [][\A s \in Sessions :
          Publish(s) => s \in late \/ world[s].folded = Active(log)]_vars

\* /undo takes back the last turn (play.py, dispatch_ooc): exactly the last visible
\* one, if one was played and nobody else wrote since this process did.
UndoTakesTheLastTurn ==
    [][\A s \in Sessions :
          pc[s] = "undo_retract" /\ RetractFromTurn(s) /\ writer = s /\ Played(log) # {}
             => \E i \in Played(log) :
                   /\ Active(log) \ Active(log') = {i}
                   /\ \A j \in Played(log) : log[j].turn <= log[i].turn]_vars

=============================================================================
