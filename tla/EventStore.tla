----------------------------- MODULE EventStore -----------------------------
(***************************************************************************)
(* The durable core of the engine: the SQLite event store of               *)
(* engine/store.py and the in-memory proposals (EventBatch) that several   *)
(* connections prepare against it.                                         *)
(*                                                                         *)
(* A session is one process holding one EventStore connection.  It reads a *)
(* snapshot, stages events for as long as the language model takes, and    *)
(* publishes them in one short write transaction.  A write transaction     *)
(* (BEGIN IMMEDIATE .. COMMIT) is one step here, because SQLite serializes *)
(* writers; a process that dies before COMMIT leaves nothing but a lost    *)
(* batch.                                                                  *)
(*                                                                         *)
(* A row's seq is its position: AUTOINCREMENT never reuses a number and a  *)
(* rolled-back insert consumes none.  An event is its payload (a member of *)
(* Events), the turn it is stamped with and its retracted flag.  The       *)
(* SHA-256 fingerprint of an action is the pair it hashes.  The JSONL      *)
(* export that follows each transaction is module JsonlMirror.             *)
(***************************************************************************)
EXTENDS Integers, Sequences, FiniteSetsExt

CONSTANTS
    Sessions,        \* processes with a connection to the campaign
    Events,          \* event payloads
    ActionIds,       \* identities a caller may give an action
    NoAction,        \* append_many without an action_id
    DirectTurns,     \* turns that unversioned append() calls may carry
    DirectSeqs,      \* boundaries of retract_from_seq() calls on the store
    MaxRows,         \* bound: rows ever inserted
    MaxRevision,     \* bound: committed changes
    MaxStaged,       \* bound: events staged in one batch
    MaxRetractions   \* bound: retractions staged in one batch

ASSUME ConstantsAssumption ==
    /\ NoAction \notin ActionIds
    /\ DirectTurns \subseteq Nat
    /\ DirectSeqs \subseteq Nat
    /\ MaxRows \in Nat
    /\ MaxRevision \in Nat
    /\ MaxStaged \in Nat
    /\ MaxRetractions \in Nat

VARIABLES
    rows,       \* table events: position is seq
    revision,   \* table store_revision
    receipts,   \* table action_receipts: the actions that have one
    open,       \* the sessions preparing a batch
    batch       \* each session's EventBatch

storeVars == <<rows, revision, receipts>>
vars == <<rows, revision, receipts, open, batch>>

Row == [event : Events, turn : Nat, retracted : BOOLEAN]
Boundary == [kind : {"seq", "turn"}, value : Nat]
Receipt == [events : Seq(Row), retractions : Seq(Boundary),
            first : Nat, last : Nat, revision : Nat]
NoMark == -1
Batch == [revision : Nat, snapshot : Seq(Row), turn : Nat, events : Seq(Row),
          retractions : Seq(Boundary), mark : Nat \cup {NoMark}]

EmptyBatch == [revision |-> 0, snapshot |-> <<>>, turn |-> 0, events |-> <<>>,
               retractions |-> <<>>, mark |-> NoMark]

-----------------------------------------------------------------------------
(* Reading the log. *)

Seqs(rs) == 1..Len(rs)
Active(rs) == {i \in Seqs(rs) : ~rs[i].retracted}

\* The turn the next action gets: one past the last turn still visible.
NextTurn(rs) == 1 + Max({0} \cup {rs[i].turn : i \in Active(rs)})

\* Boundary b reaches the row r stored (or staged) at seq i.
Hits(b, r, i) == b.value <= (IF b.kind = "seq" THEN i ELSE r.turn)

\* Mutant: the flag is set to the condition instead of raised by it.
Retract_recomputed(rs, bs) ==
    [i \in Seqs(rs) |->
        [rs[i] EXCEPT !.retracted = \E k \in DOMAIN bs : Hits(bs[k], rs[i], i)]]

\* UPDATE events SET retracted=1 WHERE .., once per boundary.
Retract(rs, bs) ==
    [i \in Seqs(rs) |->
        [rs[i] EXCEPT !.retracted = @ \/ \E k \in DOMAIN bs : Hits(bs[k], rs[i], i)]]

\* What a batch shows its hooks: the snapshot followed by the staged events.
View(b) == b.snapshot \o b.events

NewBatch(t) == [revision |-> revision, snapshot |-> rows, turn |-> t, events |-> <<>>,
                retractions |-> <<>>, mark |-> NoMark]

-----------------------------------------------------------------------------
Init ==
    /\ rows = <<>>
    /\ revision = 0
    /\ receipts = [a \in {} |-> <<>>]
    /\ open = [s \in Sessions |-> FALSE]
    /\ batch = [s \in Sessions |-> EmptyBatch]

-----------------------------------------------------------------------------
(* Preparing a proposal.  Nothing here touches the database or its lock. *)

Open(s, t) ==
    /\ ~open[s]
    /\ open' = [open EXCEPT ![s] = TRUE]
    /\ batch' = [batch EXCEPT ![s] = NewBatch(t)]
    /\ UNCHANGED storeVars

\* run_turn: the batch takes the next visible turn.
OpenTurn(s) == Open(s, NextTurn(rows))

\* _atomic_genesis: every event of world generation is turn 0.
OpenGenesis(s) == Open(s, 0)

Stage(s, e) ==
    LET b == batch[s] IN
    /\ open[s]
    /\ Len(b.events) < MaxStaged
    /\ batch' = [batch EXCEPT ![s].events =
                    Append(@, [event |-> e, turn |-> b.turn, retracted |-> FALSE])]
    /\ UNCHANGED <<storeVars, open>>

\* reroll_all and reroll_step, which run in a genesis batch, retract first and
\* regenerate; the seq boundary of reroll_step is the seq of a genesis event.
RetractStaged(s, bd) ==
    LET b == batch[s]
        view == Retract(View(b), <<bd>>)
        n == Len(b.snapshot)
    IN
    /\ open[s]
    /\ b.turn = 0
    /\ b.mark = NoMark
    /\ Len(b.retractions) < MaxRetractions
    /\ \/ bd.kind = "turn" /\ bd.value = 0
       \/ bd.kind = "seq" /\ bd.value \in Seqs(View(b)) /\ View(b)[bd.value].turn = 0
    /\ batch' = [batch EXCEPT ![s].snapshot = SubSeq(view, 1, n),
                              ![s].events = SubSeq(view, n + 1, Len(view)),
                              ![s].retractions = Append(@, bd)]
    /\ UNCHANGED <<storeVars, open>>

\* A backstage hook of run_turn runs in a savepoint; hooks do not nest, and world
\* generation has none.
BeginHook(s) ==
    /\ open[s]
    /\ batch[s].turn > 0
    /\ batch[s].mark = NoMark
    /\ batch' = [batch EXCEPT ![s].mark = Len(batch[s].events)]
    /\ UNCHANGED <<storeVars, open>>

EndHook(s) ==
    /\ open[s]
    /\ batch[s].mark # NoMark
    /\ batch' = [batch EXCEPT ![s].mark = NoMark]
    /\ UNCHANGED <<storeVars, open>>

\* The hook raised, or its events do not fold: only its own events go.
FailHook(s) ==
    LET b == batch[s] IN
    /\ open[s]
    /\ b.mark # NoMark
    /\ batch' = [batch EXCEPT ![s].events = SubSeq(b.events, 1, b.mark), ![s].mark = NoMark]
    /\ UNCHANGED <<storeVars, open>>

\* The proposal is dropped: TurnRejected, a provider error, a failed preflight,
\* a busy database, a RevisionConflict at publication, a duplicate receipt, or
\* the death of the process.
Discard(s) ==
    /\ open[s]
    /\ open' = [open EXCEPT ![s] = FALSE]
    /\ batch' = [batch EXCEPT ![s] = EmptyBatch]
    /\ UNCHANGED storeVars

-----------------------------------------------------------------------------
(* Writing. *)

\* The action has no receipt yet.  With one, the call returns it as a duplicate
\* or raises RevisionConflict, and writes nothing either way.
NotReceived(a) == a \notin DOMAIN receipts

\* Mutant: rows are numbered after the last visible row.
Span_visible(evs) ==
    LET n == Max({0} \cup Active(rows))
    IN IF evs = <<>> THEN <<0, 0>> ELSE <<n + 1, n + Len(evs)>>

\* The seqs the inserted rows get.
Span(evs) == IF evs = <<>> THEN <<0, 0>> ELSE <<Len(rows) + 1, Len(rows) + Len(evs)>>

\* Mutant: hiding rows is not a new revision.
NextRevision_inserts(evs, kept) == IF evs # <<>> THEN revision + 1 ELSE revision

\* A transaction that inserts or hides something is a new revision.
NextRevision(evs, kept) ==
    IF evs # <<>> \/ kept # rows THEN revision + 1 ELSE revision

\* Mutant: a receipt is stored for every call.
WithReceipt_always(a, receipt) ==
    [x \in DOMAIN receipts \cup {a} |-> IF x = a THEN receipt ELSE receipts[x]]

\* INSERT INTO action_receipts, when the caller named the action.
WithReceipt(a, receipt) ==
    IF a = NoAction THEN receipts
    ELSE [x \in DOMAIN receipts \cup {a} |-> IF x = a THEN receipt ELSE receipts[x]]

\* One append_many transaction, from the retractions to the receipt.
AppendMany(evs, bs, a) ==
    LET kept == Retract(rows, bs) IN
    /\ Len(rows) + Len(evs) <= MaxRows
    /\ rows' = kept \o evs
    /\ revision' = NextRevision(evs, kept)
    /\ revision' <= MaxRevision
    /\ receipts' = WithReceipt(a, [events |-> evs, retractions |-> bs,
                                   first |-> Span(evs)[1], last |-> Span(evs)[2],
                                   revision |-> revision'])

\* Mutant: publication does not look at the revision.
IsCurrent_always(s) == TRUE

\* publish: the snapshot's revision must still be the store's.
IsCurrent(s) == batch[s].revision = revision

Publish(s, a) ==
    LET b == batch[s] IN
    /\ open[s]
    /\ b.mark = NoMark
    /\ NotReceived(a)
    /\ IsCurrent(s)
    /\ AppendMany(b.events, b.retractions, a)
    /\ open' = [open EXCEPT ![s] = FALSE]
    /\ batch' = [batch EXCEPT ![s] = EmptyBatch]

\* append and append_many outside a batch carry no expected revision.
DirectAppend(s, e, t, a) ==
    /\ ~open[s]
    /\ NotReceived(a)
    /\ AppendMany(<<[event |-> e, turn |-> t, retracted |-> FALSE]>>, <<>>, a)
    /\ UNCHANGED <<open, batch>>

\* retract_from_turn (/rewind N, /undo) and retract_from_seq.
RetractFrom(s, bd) ==
    LET kept == Retract(rows, <<bd>>) IN
    /\ ~open[s]
    /\ revision < MaxRevision
    /\ rows' = kept
    /\ revision' = NextRevision(<<>>, kept)
    /\ UNCHANGED <<receipts, open, batch>>

\* Mutant: the turn is compared with the wrong column.
TurnBoundary_seq(t) == [kind |-> "seq", value |-> t]

TurnBoundary(t) == [kind |-> "turn", value |-> t]
SeqBoundary(i) == [kind |-> "seq", value |-> i]

-----------------------------------------------------------------------------
Prepare(s) ==
    \/ OpenTurn(s)
    \/ OpenGenesis(s)
    \/ \E e \in Events : Stage(s, e)
    \/ \E v \in 0..(MaxRows + MaxStaged) : RetractStaged(s, SeqBoundary(v))
    \/ RetractStaged(s, TurnBoundary(0))
    \/ BeginHook(s)
    \/ EndHook(s)
    \/ FailHook(s)
    \/ Discard(s)

Write(s) ==
    \/ \E a \in ActionIds : Publish(s, a)
    \/ \E e \in Events, t \in DirectTurns, a \in ActionIds \cup {NoAction} :
          DirectAppend(s, e, t, a)
    \/ \E t \in 0..NextTurn(rows) : RetractFrom(s, TurnBoundary(t))
    \/ \E i \in DirectSeqs : RetractFrom(s, SeqBoundary(i))

Next == \E s \in Sessions : Prepare(s) \/ Write(s)

Spec == Init /\ [][Next]_vars

-----------------------------------------------------------------------------
(* Properties. *)

\* Every variable keeps its type, and every receipt names an action.
TypeOK ==
    /\ rows \in Seq(Row)
    /\ revision \in Nat
    /\ DOMAIN receipts \subseteq ActionIds
    /\ receipts \in [DOMAIN receipts -> Receipt]
    /\ open \in [Sessions -> BOOLEAN]
    /\ batch \in [Sessions -> Batch]

\* A revision number names one history: whenever an open batch carries the
\* store's revision, its private copy is the stored log with its own staged
\* retractions applied, whatever the other sessions did in between
\* (the check of append_many compares numbers, never contents).
SnapshotCurrent ==
    \A s \in Sessions : open[s] =>
        /\ batch[s].revision <= revision
        /\ IsCurrent(s) => batch[s].snapshot = Retract(rows, batch[s].retractions)

\* A session's publication, as a step of the store.
Published(s) == \E a \in ActionIds : Publish(s, a)

\* What is committed is exactly what was prepared: the rows after publication
\* are the rows the batch showed to every hook and folded in its preflight, at
\* the same seqs (EventBatch numbers its events before SQLite does).
PublishedIsPrepared ==
    [][\A s \in Sessions : Published(s) => rows' = View(batch[s])]_vars

Extends(old, new) ==
    /\ Len(old) <= Len(new)
    /\ \A i \in Seqs(old) :
          /\ new[i].event = old[i].event
          /\ new[i].turn = old[i].turn
          /\ old[i].retracted => new[i].retracted

\* The log only grows and undo is for ever: no step drops a row, changes its
\* payload or turn, or makes a retracted row visible again.
NothingComesBack == [][Extends(rows, rows')]_vars

Stored(r) == r.first..r.last
Wrote(r) == r.events # <<>>

\* A receipt identifies its exact batch (README.md:47): the rows it names hold
\* the events of its fingerprint in order, and no row belongs to two actions.
ReceiptsExact ==
    /\ \A a \in DOMAIN receipts : LET r == receipts[a] IN Wrote(r) =>
          /\ Stored(r) \subseteq Seqs(rows)
          /\ Len(r.events) = r.last - r.first + 1
          /\ r.first >= 1
          /\ \A i \in Stored(r) : /\ rows[i].event = r.events[i - r.first + 1].event
                                /\ rows[i].turn = r.events[i - r.first + 1].turn
    /\ \A a, c \in DOMAIN receipts :
          a # c /\ Wrote(receipts[a]) /\ Wrote(receipts[c])
            => Stored(receipts[a]) \cap Stored(receipts[c]) = {}

\* No rewind by seq falls between two rows of the action.
Undivided(r) == \A cut \in DirectSeqs : ~(r.first < cut /\ cut <= r.last)

\* An action is applied whole and undone whole: no rewind, reroll or crash
\* leaves some events of a played turn visible and others retracted, unless
\* retract_from_seq is asked to cut through it.
WholeActions ==
    \A a \in DOMAIN receipts : LET r == receipts[a] IN
        \A i, j \in Stored(r) :
            Wrote(r) /\ Undivided(r) /\ rows[i].turn > 0
                => rows[i].retracted = rows[j].retracted

SameAction(i, j) == \E a \in DOMAIN receipts : {i, j} \subseteq Stored(receipts[a])

\* The visible played turns are 1..n in storage order, one action each, so
\* "/rewind N" cuts a suffix of the story and NextTurn never collides, although
\* turn numbers are reused after a rewind and computed outside the transaction.
PlayTurnsOrdered ==
    LET Played == {i \in Active(rows) : rows[i].turn > 0} IN
    /\ \A i, j \in Played : /\ i < j => rows[i].turn <= rows[j].turn
                            /\ rows[i].turn = rows[j].turn => SameAction(i, j)
    /\ \A i \in Played : rows[i].turn > 1 => \E j \in Played : rows[j].turn = rows[i].turn - 1

-----------------------------------------------------------------------------
VL == INSTANCE VersionedLog WITH
        log <- rows,
        fresh <- [s \in Sessions |-> open[s] /\ IsCurrent(s)],
        draft <- [s \in Sessions |-> View(batch[s])]

\* The store implements the optimistic log of VersionedLog: the integer
\* revision is a sound stand-in for "nothing changed since I began".
VLSpec == VL!Spec
=============================================================================
