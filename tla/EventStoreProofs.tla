--------------------------- MODULE EventStoreProofs ---------------------------
(***************************************************************************)
(* Proofs about EventStore, for every number of sessions, events, actions  *)
(* and every value of the bounds: its types and invariants, that it keeps   *)
(* the versioned log, and then what its actions do: that a receipt names    *)
(* its rows, that an action is applied and undone whole, and that the       *)
(* visible turns of a played story stay in order.                           *)
(***************************************************************************)
EXTENDS EventStore, DataLemmas, SequenceTheorems, TLAPS

-----------------------------------------------------------------------------
(* Rows and lists of rows. *)

\* The fields of a row.
LEMMA RowFields ==
    ASSUME NEW r \in Row
    PROVE  r.event \in Events /\ r.turn \in Nat /\ r.retracted \in BOOLEAN
BY DEF Row

\* Hiding a row makes a row.
LEMMA HiddenRow ==
    ASSUME NEW r \in Row, NEW h \in BOOLEAN
    PROVE  /\ [r EXCEPT !.retracted = @ \/ h] \in Row
           /\ [r EXCEPT !.retracted = @ \/ h].event = r.event
           /\ [r EXCEPT !.retracted = @ \/ h].turn = r.turn
           /\ [r EXCEPT !.retracted = @ \/ h].retracted = (r.retracted \/ h)
BY DEF Row

\* The members of a list of rows.
LEMMA RowsOfSeq ==
    ASSUME NEW rs \in Seq(Row)
    PROVE  Len(rs) \in Nat /\ DOMAIN rs = 1..Len(rs) /\ \A i \in 1..Len(rs) : rs[i] \in Row
OBVIOUS

\* A function on 1..n is a sequence of length n.
LEMMA FunctionIsSeq ==
    ASSUME NEW n \in Nat, NEW S, NEW f \in [1..n -> S]
    PROVE  f \in Seq(S) /\ Len(f) = n
OBVIOUS

\* Retraction keeps the length and changes one row by hiding it.
LEMMA RetractRows ==
    ASSUME NEW rs \in Seq(Row), NEW bs
    PROVE  /\ Retract(rs, bs) \in Seq(Row)
           /\ Len(Retract(rs, bs)) = Len(rs)
           /\ \A i \in 1..Len(rs) :
                 /\ Retract(rs, bs)[i] \in Row
                 /\ Retract(rs, bs)[i].event = rs[i].event
                 /\ Retract(rs, bs)[i].turn = rs[i].turn
                 /\ Retract(rs, bs)[i].retracted =
                        (rs[i].retracted \/ \E k \in DOMAIN bs : Hits(bs[k], rs[i], i))
<1>1. Len(rs) \in Nat /\ \A i \in 1..Len(rs) : rs[i] \in Row
  BY RowsOfSeq
<1> DEFINE hit(i) == \E k \in DOMAIN bs : Hits(bs[k], rs[i], i)
<1>2. Retract(rs, bs) = [i \in 1..Len(rs) |-> [rs[i] EXCEPT !.retracted = @ \/ hit(i)]]
  BY DEF Retract, Seqs
<1>3. \A i \in 1..Len(rs) : hit(i) \in BOOLEAN
  OBVIOUS
<1> HIDE DEF hit
<1>4. \A i \in 1..Len(rs) :
         /\ Retract(rs, bs)[i] \in Row
         /\ Retract(rs, bs)[i].event = rs[i].event
         /\ Retract(rs, bs)[i].turn = rs[i].turn
         /\ Retract(rs, bs)[i].retracted = (rs[i].retracted \/ hit(i))
  <2>1. TAKE i \in 1..Len(rs)
  <2>2. Retract(rs, bs)[i] = [rs[i] EXCEPT !.retracted = @ \/ hit(i)]
    BY <1>2
  <2>3. rs[i] \in Row /\ hit(i) \in BOOLEAN
    BY <1>1, <1>3
  <2> QED
    BY <2>2, <2>3, HiddenRow
<1>5. Retract(rs, bs) \in Seq(Row) /\ Len(Retract(rs, bs)) = Len(rs)
  <2>1. Retract(rs, bs) \in [1..Len(rs) -> Row]
    BY <1>2, <1>4
  <2> QED
    BY <1>1, <2>1, FunctionIsSeq
<1> QED
  BY <1>4, <1>5 DEF hit

\* Rows are equal when their fields are.
LEMMA RowEqual ==
    ASSUME NEW q \in Row, NEW r \in Row,
           q.event = r.event, q.turn = r.turn, q.retracted = r.retracted
    PROVE  q = r
BY DEF Row

\* Lists of rows are equal when their rows are.
LEMMA RowsEqual ==
    ASSUME NEW a \in Seq(Row), NEW b \in Seq(Row), Len(a) = Len(b),
           \A i \in 1..Len(a) : /\ a[i].event = b[i].event
                               /\ a[i].turn = b[i].turn
                               /\ a[i].retracted = b[i].retracted
    PROVE  a = b
<1>1. \A i \in 1..Len(a) : a[i] = b[i]
  BY RowsOfSeq, RowEqual
<1> QED
  BY <1>1, SeqEqual

\* No boundary retracts nothing.
LEMMA RetractNone ==
    ASSUME NEW rs \in Seq(Row)
    PROVE  Retract(rs, <<>>) = rs
<1>1. \A i \in 1..Len(rs) : rs[i].retracted \in BOOLEAN
  BY RowsOfSeq, RowFields
<1> QED
  BY <1>1, RetractRows, RowsEqual

\* One boundary after others is the list of them all.
LEMMA RetractTwice ==
    ASSUME NEW rs \in Seq(Row), NEW bs \in Seq(Boundary), NEW bd \in Boundary
    PROVE  Retract(Retract(rs, bs), <<bd>>) = Retract(rs, Append(bs, bd))
<1> DEFINE once == Retract(rs, bs)
           all == Append(bs, bd)
<1>1. /\ once \in Seq(Row) /\ Len(once) = Len(rs)
      /\ Retract(once, <<bd>>) \in Seq(Row) /\ Len(Retract(once, <<bd>>)) = Len(rs)
      /\ Retract(rs, all) \in Seq(Row) /\ Len(Retract(rs, all)) = Len(rs)
  BY RetractRows
<1>2. ASSUME NEW i \in 1..Len(rs)
      PROVE  /\ Retract(once, <<bd>>)[i].event = Retract(rs, all)[i].event
             /\ Retract(once, <<bd>>)[i].turn = Retract(rs, all)[i].turn
             /\ Retract(once, <<bd>>)[i].retracted = Retract(rs, all)[i].retracted
  <2>1. once[i].event = rs[i].event /\ once[i].turn = rs[i].turn
    BY RetractRows
  <2>2. \A b : Hits(b, once[i], i) <=> Hits(b, rs[i], i)
    BY <2>1 DEF Hits
  <2>3. (\E k \in DOMAIN all : Hits(all[k], rs[i], i))
          <=> (\E k \in DOMAIN bs : Hits(bs[k], rs[i], i)) \/ Hits(bd, rs[i], i)
    <3>1. /\ DOMAIN bs = 1..Len(bs) /\ DOMAIN all = 1..(Len(bs) + 1) /\ Len(bs) \in Nat
          /\ all[Len(bs) + 1] = bd /\ \A k \in 1..Len(bs) : all[k] = bs[k]
      BY AppendProperties
    <3> HIDE DEF all
    <3>2. \A k : k \in DOMAIN all <=> k \in DOMAIN bs \/ k = Len(bs) + 1
      BY <3>1
    <3> QED
      BY <3>1, <3>2
  <2>4. (\E k \in DOMAIN <<bd>> : Hits(<<bd>>[k], once[i], i)) <=> Hits(bd, once[i], i)
    OBVIOUS
  <2>5. Retract(once, <<bd>>)[i].retracted
          = (once[i].retracted \/ \E k \in DOMAIN <<bd>> : Hits(<<bd>>[k], once[i], i))
    BY <1>1, RetractRows
  <2>6. /\ once[i].retracted = (rs[i].retracted \/ \E k \in DOMAIN bs : Hits(bs[k], rs[i], i))
        /\ Retract(rs, all)[i].retracted
             = (rs[i].retracted \/ \E k \in DOMAIN all : Hits(all[k], rs[i], i))
    BY RetractRows
  <2>7. Retract(once, <<bd>>)[i].retracted = Retract(rs, all)[i].retracted
    BY <2>2, <2>3, <2>4, <2>5, <2>6, Zenon
  <2>8. /\ Retract(once, <<bd>>)[i].event = once[i].event
        /\ Retract(once, <<bd>>)[i].turn = once[i].turn
        /\ Retract(rs, all)[i].event = rs[i].event
        /\ Retract(rs, all)[i].turn = rs[i].turn
    BY <1>1, RetractRows
  <2> QED
    BY <2>1, <2>7, <2>8
<1> QED
  BY <1>1, <1>2, RowsEqual

\* Retracting a list cuts its head as it cuts the whole.
LEMMA RetractPrefix ==
    ASSUME NEW a \in Seq(Row), NEW b \in Seq(Row), NEW bs
    PROVE  /\ SubSeq(Retract(a \o b, bs), 1, Len(a)) = Retract(a, bs)
           /\ SubSeq(Retract(a \o b, bs), Len(a) + 1, Len(Retract(a \o b, bs))) \in Seq(Row)
           /\ Len(SubSeq(Retract(a \o b, bs), Len(a) + 1, Len(Retract(a \o b, bs)))) = Len(b)
<1> DEFINE w == Retract(a \o b, bs)
           h == SubSeq(w, 1, Len(a))
<1>1. /\ a \o b \in Seq(Row) /\ Len(a \o b) = Len(a) + Len(b)
      /\ \A i \in 1..Len(a) : (a \o b)[i] = a[i]
      /\ Len(a) \in Nat /\ Len(b) \in Nat
  BY ConcatProperties
<1>2. w \in Seq(Row) /\ Len(w) = Len(a) + Len(b)
  BY <1>1, RetractRows
<1>3. h \in Seq(Row) /\ Len(h) = Len(a) /\ \A i \in 1..Len(a) : h[i] = w[i]
  BY <1>1, <1>2, SubSeqProperties
<1>4. Retract(a, bs) \in Seq(Row) /\ Len(Retract(a, bs)) = Len(a)
  BY RetractRows
<1>5. \A i \in 1..Len(a) : /\ h[i].event = Retract(a, bs)[i].event
                           /\ h[i].turn = Retract(a, bs)[i].turn
                           /\ h[i].retracted = Retract(a, bs)[i].retracted
  <2>1. TAKE i \in 1..Len(a)
  <2>2. i \in 1..Len(a \o b) /\ (a \o b)[i] = a[i] /\ h[i] = w[i]
    BY <1>1, <1>3
  <2>3. /\ w[i].event = a[i].event /\ w[i].turn = a[i].turn
        /\ w[i].retracted = (a[i].retracted \/ \E k \in DOMAIN bs : Hits(bs[k], a[i], i))
    <3>1. /\ w[i].event = (a \o b)[i].event /\ w[i].turn = (a \o b)[i].turn
          /\ w[i].retracted = ((a \o b)[i].retracted
                                \/ \E k \in DOMAIN bs : Hits(bs[k], (a \o b)[i], i))
      BY <1>1, <2>2, RetractRows, Zenon
    <3> QED
      BY <2>2, <3>1, Zenon
  <2>4. /\ Retract(a, bs)[i].event = a[i].event /\ Retract(a, bs)[i].turn = a[i].turn
        /\ Retract(a, bs)[i].retracted
             = (a[i].retracted \/ \E k \in DOMAIN bs : Hits(bs[k], a[i], i))
    BY RetractRows
  <2> QED
    BY <2>2, <2>3, <2>4
<1>6. h = Retract(a, bs)
  <2> HIDE DEF h
  <2> QED
    BY <1>3, <1>4, <1>5, RowsEqual
<1>7. SubSeq(w, Len(a) + 1, Len(w)) \in Seq(Row) /\ Len(SubSeq(w, Len(a) + 1, Len(w))) = Len(b)
  BY <1>1, <1>2, SubSeqProperties
<1> QED
  BY <1>6, <1>7

-----------------------------------------------------------------------------
(* The next turn. *)

\* The turn run_turn gives its batch is a number.
LEMMA NextTurnType ==
    ASSUME NEW rs \in Seq(Row)
    PROVE  NextTurn(rs) \in Nat \ {0}
<1> DEFINE f == [i \in 1..Len(rs) |-> rs[i].turn]
<1>1. Len(rs) \in Nat /\ \A i \in 1..Len(rs) : rs[i].turn \in Nat
  BY RowsOfSeq, RowFields
<1>2. f \in [1..Len(rs) -> Nat] /\ Active(rs) \subseteq 1..Len(rs)
  BY <1>1 DEF Active, Seqs
<1>3. {rs[i].turn : i \in Active(rs)} = {f[i] : i \in Active(rs)}
  BY <1>2
<1> HIDE DEF f
<1> DEFINE m == Max({0} \cup {f[i] : i \in Active(rs)})
<1>4. m \in Nat
  BY <1>1, <1>2, LargestNumber
<1>5. NextTurn(rs) = 1 + m
  BY <1>3 DEF NextTurn
<1> HIDE DEF m
<1> QED
  BY <1>4, <1>5

-----------------------------------------------------------------------------
(* One write transaction. *)

\* What append_many leaves: the kept rows followed by the new ones, a revision
\* that moves exactly when the rows do, and receipts of the right type.
LEMMA AppendManyEffect ==
    ASSUME TypeOK, NEW evs \in Seq(Row), NEW bs \in Seq(Boundary),
           NEW a \in ActionIds \cup {NoAction}, AppendMany(evs, bs, a)
    PROVE  /\ rows' = Retract(rows, bs) \o evs
           /\ rows' \in Seq(Row)
           /\ revision' \in {revision, revision + 1}
           /\ rows' = rows <=> revision' = revision
           /\ DOMAIN receipts' \subseteq ActionIds
           /\ receipts' \in [DOMAIN receipts' -> Receipt]
<1> DEFINE kept == Retract(rows, bs)
           receipt == [events |-> evs, retractions |-> bs,
                       first |-> Span(evs)[1], last |-> Span(evs)[2], revision |-> revision']
<1>1. rows \in Seq(Row) /\ revision \in Nat /\ Len(rows) \in Nat /\ Len(evs) \in Nat
  BY DEF TypeOK
<1>2. /\ rows' = kept \o evs
      /\ revision' = IF evs # <<>> \/ kept # rows THEN revision + 1 ELSE revision
  BY DEF AppendMany, NextRevision
<1>3. kept \in Seq(Row) /\ Len(kept) = Len(rows)
  BY <1>1, RetractRows
<1>4. rows' \in Seq(Row) /\ Len(rows') = Len(rows) + Len(evs)
  <2> HIDE DEF kept
  <2>1. kept \o evs \in Seq(Row) /\ Len(kept \o evs) = Len(kept) + Len(evs)
    BY <1>3, ConcatProperties
  <2> QED
    BY <1>2, <1>3, <2>1
<1>5. rows' = rows <=> revision' = revision
  <2>1. CASE evs = <<>>
    <3>1. rows' = kept
      BY <1>2, <1>3, <2>1, ConcatEmptySeq
    <3> QED
      BY <1>1, <1>2, <2>1, <3>1
  <2>2. CASE evs # <<>>
    <3>1. Len(evs) > 0
      BY <2>2, EmptySeq
    <3> QED
      BY <1>1, <1>2, <1>4, <2>2, <3>1
  <2> QED
    BY <2>1, <2>2
<1>6. revision' \in {revision, revision + 1} /\ revision' \in Nat
  BY <1>1, <1>2
<1>7. DOMAIN receipts' \subseteq ActionIds /\ receipts' \in [DOMAIN receipts' -> Receipt]
  <2>1. receipt \in Receipt
    <3>1. Span(evs)[1] \in Nat /\ Span(evs)[2] \in Nat
      BY <1>1 DEF Span
    <3> QED
      BY <1>6, <3>1 DEF Receipt
  <2>2. DOMAIN receipts \subseteq ActionIds /\ receipts \in [DOMAIN receipts -> Receipt]
    BY DEF TypeOK
  <2>3. receipts' = IF a = NoAction THEN receipts
                    ELSE [x \in DOMAIN receipts \cup {a} |->
                             IF x = a THEN receipt ELSE receipts[x]]
    BY DEF AppendMany, WithReceipt
  <2> HIDE DEF receipt
  <2> QED
    BY <2>1, <2>2, <2>3
<1> QED
  BY <1>2, <1>4, <1>5, <1>6, <1>7

\* retract_from_turn and retract_from_seq, likewise.
LEMMA RetractFromEffect ==
    ASSUME TypeOK, NEW s \in Sessions, NEW bd, RetractFrom(s, bd)
    PROVE  /\ rows' = Retract(rows, <<bd>>)
           /\ rows' \in Seq(Row)
           /\ revision' \in {revision, revision + 1}
           /\ rows' = rows <=> revision' = revision
<1>1. rows \in Seq(Row) /\ revision \in Nat
  BY DEF TypeOK
<1>2. rows' = Retract(rows, <<bd>>) /\ revision' = IF rows' # rows THEN revision + 1 ELSE revision
  BY DEF RetractFrom, NextRevision
<1> QED
  BY <1>1, <1>2, RetractRows

-----------------------------------------------------------------------------
(* Type correctness. *)

\* A savepoint is taken inside the staged events.
MarksInRange ==
    \A s \in Sessions : batch[s].mark # NoMark => batch[s].mark <= Len(batch[s].events)

\* The fields of a batch.
LEMMA BatchFields ==
    ASSUME NEW b \in Batch
    PROVE  /\ b.revision \in Nat
           /\ b.snapshot \in Seq(Row)
           /\ b.turn \in Nat
           /\ b.events \in Seq(Row)
           /\ b.retractions \in Seq(Boundary)
           /\ b.mark \in Nat \cup {NoMark}
BY DEF Batch

\* The empty batch is one, and shows nothing.
LEMMA EmptyBatchType ==
    EmptyBatch \in Batch /\ EmptyBatch.mark = NoMark /\ View(EmptyBatch) = <<>>
<1>1. <<>> \in Seq(Row) /\ <<>> \in Seq(Boundary) /\ 0 \in Nat /\ NoMark \in Nat \cup {NoMark}
  OBVIOUS
<1>2. EmptyBatch \in Batch /\ EmptyBatch.mark = NoMark
  BY <1>1 DEF EmptyBatch, Batch
<1>3. View(EmptyBatch) = <<>>
  BY <1>1, ConcatEmptySeq DEF View, EmptyBatch
<1> QED
  BY <1>2, <1>3

\* The rows of a batch's view, and what retracting it leaves of the batch.
LEMMA StagedRetraction ==
    ASSUME NEW b \in Batch, NEW bd \in Boundary
    PROVE  LET view == Retract(View(b), <<bd>>)
               n == Len(b.snapshot)
           IN  /\ SubSeq(view, 1, n) = Retract(b.snapshot, <<bd>>)
               /\ SubSeq(view, 1, n) \in Seq(Row)
               /\ SubSeq(view, n + 1, Len(view)) \in Seq(Row)
               /\ Len(SubSeq(view, n + 1, Len(view))) = Len(b.events)
<1>1. b.snapshot \in Seq(Row) /\ b.events \in Seq(Row)
  BY BatchFields
<1>2. View(b) = b.snapshot \o b.events
  BY DEF View
<1>3. Retract(b.snapshot, <<bd>>) \in Seq(Row)
  BY <1>1, RetractRows
<1> DEFINE whole == b.snapshot \o b.events
           n == Len(b.snapshot)
<1>4. /\ SubSeq(Retract(whole, <<bd>>), 1, n) = Retract(b.snapshot, <<bd>>)
      /\ SubSeq(Retract(whole, <<bd>>), n + 1, Len(Retract(whole, <<bd>>))) \in Seq(Row)
      /\ Len(SubSeq(Retract(whole, <<bd>>), n + 1, Len(Retract(whole, <<bd>>)))) = Len(b.events)
  BY <1>1, RetractPrefix, Zenon
<1> QED
  BY <1>2, <1>3, <1>4, Zenon

\* A step that only replaces one session's batch.
LEMMA BatchStep ==
    ASSUME TypeOK, MarksInRange, UNCHANGED storeVars, open' \in [Sessions -> BOOLEAN],
           NEW s \in Sessions, NEW nb \in Batch, batch' = [batch EXCEPT ![s] = nb],
           nb.mark # NoMark => nb.mark <= Len(nb.events)
    PROVE  TypeOK' /\ MarksInRange'
<1>1. batch \in [Sessions -> Batch]
  BY DEF TypeOK
<1>2. batch' \in [Sessions -> Batch] /\ batch'[s] = nb
      /\ \A o \in Sessions \ {s} : batch'[o] = batch[o]
  BY <1>1
<1>3. TypeOK'
  BY <1>2 DEF TypeOK, storeVars
<1>4. MarksInRange'
  BY <1>2 DEF MarksInRange
<1> QED
  BY <1>3, <1>4

\* Preparing a proposal keeps the types.
LEMMA PrepareType ==
    ASSUME TypeOK, MarksInRange, NEW s \in Sessions, Prepare(s)
    PROVE  TypeOK' /\ MarksInRange'
<1>1. /\ rows \in Seq(Row) /\ revision \in Nat /\ open \in [Sessions -> BOOLEAN]
      /\ batch \in [Sessions -> Batch] /\ batch[s] \in Batch
  BY DEF TypeOK
<1>2. /\ batch[s].revision \in Nat /\ batch[s].snapshot \in Seq(Row)
      /\ batch[s].turn \in Nat /\ batch[s].events \in Seq(Row)
      /\ batch[s].retractions \in Seq(Boundary) /\ batch[s].mark \in Nat \cup {NoMark}
      /\ batch[s].mark # NoMark => batch[s].mark <= Len(batch[s].events)
  BY <1>1, BatchFields DEF MarksInRange
<1>3. ASSUME NEW t \in Nat, Open(s, t)
      PROVE  TypeOK' /\ MarksInRange'
  <2>1. NewBatch(t) \in Batch /\ NewBatch(t).mark = NoMark
    <3>1. <<>> \in Seq(Row) /\ <<>> \in Seq(Boundary)
      OBVIOUS
    <3> QED
      BY <1>1, <3>1 DEF NewBatch, Batch
  <2>2. /\ batch' = [batch EXCEPT ![s] = NewBatch(t)] /\ open' \in [Sessions -> BOOLEAN]
        /\ UNCHANGED storeVars
    BY <1>1, <1>3 DEF Open
  <2> QED
    BY <2>1, <2>2, BatchStep
<1>4. CASE OpenTurn(s)
  BY <1>1, <1>3, <1>4, NextTurnType DEF OpenTurn
<1>5. CASE OpenGenesis(s)
  BY <1>3, <1>5 DEF OpenGenesis
<1>6. ASSUME NEW e \in Events, Stage(s, e)
      PROVE  TypeOK' /\ MarksInRange'
  <2> DEFINE r == [event |-> e, turn |-> batch[s].turn, retracted |-> FALSE]
             nb == [batch[s] EXCEPT !.events = Append(batch[s].events, r)]
  <2>1. r \in Row
    BY <1>2 DEF Row
  <2>2. /\ Append(batch[s].events, r) \in Seq(Row)
        /\ Len(Append(batch[s].events, r)) = Len(batch[s].events) + 1
        /\ Len(batch[s].events) \in Nat
    BY <1>2, <2>1, AppendProperties
  <2>3. nb \in Batch /\ nb.mark = batch[s].mark /\ nb.events = Append(batch[s].events, r)
    <3> HIDE DEF r
    <3> QED
      BY <1>1, <2>2 DEF Batch
  <2>4. nb.mark # NoMark => nb.mark <= Len(nb.events)
    BY <1>2, <2>2, <2>3
  <2>5. batch' = [batch EXCEPT ![s] = nb] /\ open' = open /\ UNCHANGED storeVars
    BY <1>6 DEF Stage
  <2> HIDE DEF nb
  <2> QED
    BY <1>1, <2>3, <2>4, <2>5, BatchStep
<1>7. ASSUME NEW bd \in Boundary, RetractStaged(s, bd)
      PROVE  TypeOK' /\ MarksInRange'
  <2> DEFINE view == Retract(View(batch[s]), <<bd>>)
             n == Len(batch[s].snapshot)
             nb == [batch[s] EXCEPT !.snapshot = SubSeq(view, 1, n),
                                    !.events = SubSeq(view, n + 1, Len(view)),
                                    !.retractions = Append(batch[s].retractions, bd)]
  <2>1. /\ SubSeq(view, 1, n) \in Seq(Row) /\ SubSeq(view, n + 1, Len(view)) \in Seq(Row)
        /\ Append(batch[s].retractions, bd) \in Seq(Boundary)
    BY <1>1, <1>2, StagedRetraction, AppendProperties
  <2>2. batch' = [batch EXCEPT ![s] = nb] /\ open' = open /\ UNCHANGED storeVars
        /\ batch[s].mark = NoMark
    BY <1>7 DEF RetractStaged
  <2> HIDE DEF view, n
  <2>3. nb \in Batch /\ nb.mark = NoMark
    BY <1>1, <2>1, <2>2 DEF Batch
  <2> HIDE DEF nb
  <2> QED
    BY <1>1, <2>2, <2>3, BatchStep
<1>8. \A v \in Nat : SeqBoundary(v) \in Boundary /\ TurnBoundary(v) \in Boundary
  BY DEF SeqBoundary, TurnBoundary, Boundary
<1>9. ASSUME NEW m \in Nat \cup {NoMark}, batch' = [batch EXCEPT ![s].mark = m],
             m # NoMark => m <= Len(batch[s].events), open' = open, UNCHANGED storeVars
      PROVE  TypeOK' /\ MarksInRange'
  <2> DEFINE nb == [batch[s] EXCEPT !.mark = m]
  <2>1. nb \in Batch /\ nb.mark = m /\ nb.events = batch[s].events
    BY <1>1 DEF Batch
  <2>2. batch' = [batch EXCEPT ![s] = nb]
    BY <1>9
  <2> HIDE DEF nb
  <2> QED
    BY <1>1, <1>9, <2>1, <2>2, BatchStep
<1>10. CASE BeginHook(s)
  <2>1. Len(batch[s].events) \in Nat /\ Len(batch[s].events) <= Len(batch[s].events)
    BY <1>2
  <2>2. /\ batch' = [batch EXCEPT ![s].mark = Len(batch[s].events)]
        /\ open' = open /\ UNCHANGED storeVars
    BY <1>10 DEF BeginHook
  <2> QED
    BY <1>9, <2>1, <2>2
<1>11. CASE EndHook(s)
  BY <1>9, <1>11 DEF EndHook
<1>12. CASE FailHook(s)
  <2> DEFINE kept == SubSeq(batch[s].events, 1, batch[s].mark)
             nb == [batch[s] EXCEPT !.events = kept, !.mark = NoMark]
  <2>1. /\ batch[s].mark \in Nat /\ batch[s].mark <= Len(batch[s].events)
        /\ batch' = [batch EXCEPT ![s] = nb] /\ open' = open /\ UNCHANGED storeVars
    BY <1>2, <1>12 DEF FailHook
  <2>2. kept \in Seq(Row)
    BY <1>2, <2>1, SubSeqProperties
  <2> HIDE DEF kept
  <2>3. nb \in Batch /\ nb.mark = NoMark
    BY <1>1, <2>2 DEF Batch
  <2> HIDE DEF nb
  <2> QED
    BY <1>1, <2>1, <2>3, BatchStep
<1>13. CASE Discard(s)
  <2>1. /\ batch' = [batch EXCEPT ![s] = EmptyBatch] /\ open' \in [Sessions -> BOOLEAN]
        /\ UNCHANGED storeVars
    BY <1>1, <1>13 DEF Discard
  <2> QED
    BY <2>1, EmptyBatchType, BatchStep
<1> QED
  <2>1. ASSUME NEW v \in 0..(MaxRows + MaxStaged), RetractStaged(s, SeqBoundary(v))
        PROVE  TypeOK' /\ MarksInRange'
    BY <1>7, <1>8, <2>1, ConstantsAssumption
  <2>2. CASE RetractStaged(s, TurnBoundary(0))
    BY <1>7, <1>8, <2>2
  <2> QED
    BY <1>4, <1>5, <1>6, <1>10, <1>11, <1>12, <1>13, <2>1, <2>2 DEF Prepare

\* Keeping rows, hidden or not, and appending others is an extension.
LEMMA KeptExtends ==
    ASSUME NEW rs \in Seq(Row), NEW bs, NEW evs \in Seq(Row)
    PROVE  Extends(rs, Retract(rs, bs) \o evs) /\ Extends(rs, Retract(rs, bs))
<1> DEFINE kept == Retract(rs, bs)
<1>1. Len(rs) \in Nat /\ Len(evs) \in Nat
  OBVIOUS
<1>2. kept \in Seq(Row) /\ Len(kept) = Len(rs)
  BY RetractRows
<1>3. \A i \in 1..Len(rs) : /\ kept[i].event = rs[i].event
                            /\ kept[i].turn = rs[i].turn
                            /\ rs[i].retracted => kept[i].retracted
  <2>1. TAKE i \in 1..Len(rs)
  <2>2. /\ kept[i].event = rs[i].event /\ kept[i].turn = rs[i].turn
        /\ kept[i].retracted = (rs[i].retracted \/ \E k \in DOMAIN bs : Hits(bs[k], rs[i], i))
    BY RetractRows
  <2> QED
    BY <2>2
<1> HIDE DEF kept
<1>4. Extends(rs, kept)
  BY <1>1, <1>2, <1>3 DEF Extends, Seqs
<1>5. /\ Len(kept \o evs) = Len(rs) + Len(evs)
      /\ \A i \in 1..Len(rs) : (kept \o evs)[i] = kept[i]
  BY <1>1, <1>2, ConcatProperties
<1>6. Extends(rs, kept \o evs)
  BY <1>1, <1>3, <1>5 DEF Extends, Seqs
<1> QED
  BY <1>4, <1>6 DEF kept

\* How a write leaves the batches: its own is published, or none is touched.
Ended(s) == /\ open[s]
            /\ open' = [open EXCEPT ![s] = FALSE]
            /\ batch' = [batch EXCEPT ![s] = EmptyBatch]
Aside(s) == ~open[s] /\ open' = open /\ batch' = batch

\* What every write has in common.
LEMMA WriteEffect ==
    ASSUME TypeOK, NEW s \in Sessions, Write(s)
    PROVE  /\ rows' \in Seq(Row)
           /\ revision' \in {revision, revision + 1}
           /\ rows' = rows <=> revision' = revision
           /\ DOMAIN receipts' \subseteq ActionIds
           /\ receipts' \in [DOMAIN receipts' -> Receipt]
           /\ Extends(rows, rows')
           /\ \/ Ended(s) /\ rows' = Retract(rows, batch[s].retractions) \o batch[s].events
                            /\ IsCurrent(s)
              \/ Aside(s)
<1>1. rows \in Seq(Row) /\ batch[s] \in Batch
  BY DEF TypeOK
<1>2. batch[s].events \in Seq(Row) /\ batch[s].retractions \in Seq(Boundary)
  BY <1>1, BatchFields
<1>3. ASSUME NEW a \in ActionIds, Publish(s, a)
      PROVE  /\ AppendMany(batch[s].events, batch[s].retractions, a)
             /\ Ended(s) /\ IsCurrent(s)
  BY <1>3 DEF Publish, Ended
<1>4. CASE \E a \in ActionIds : Publish(s, a)
  <2>1. PICK a \in ActionIds : Publish(s, a)
    BY <1>4
  <2> QED
    BY <1>1, <1>2, <1>3, <2>1, AppendManyEffect, KeptExtends
<1>5. ASSUME NEW e \in Events, NEW t \in DirectTurns, NEW a \in ActionIds \cup {NoAction},
             DirectAppend(s, e, t, a)
      PROVE  /\ AppendMany(<<[event |-> e, turn |-> t, retracted |-> FALSE]>>, <<>>, a)
             /\ Aside(s) /\ <<[event |-> e, turn |-> t, retracted |-> FALSE]>> \in Seq(Row)
  <2>1. [event |-> e, turn |-> t, retracted |-> FALSE] \in Row
    BY ConstantsAssumption DEF Row
  <2>2. AppendMany(<<[event |-> e, turn |-> t, retracted |-> FALSE]>>, <<>>, a) /\ Aside(s)
    BY <1>5 DEF DirectAppend, Aside
  <2> QED
    BY <2>1, <2>2
<1>6. CASE \E e \in Events, t \in DirectTurns, a \in ActionIds \cup {NoAction} :
               DirectAppend(s, e, t, a)
  <2>1. PICK e \in Events, t \in DirectTurns, a \in ActionIds \cup {NoAction} :
               DirectAppend(s, e, t, a)
    BY <1>6
  <2>2. <<>> \in Seq(Boundary)
    OBVIOUS
  <2> DEFINE evs == <<[event |-> e, turn |-> t, retracted |-> FALSE]>>
  <2>3. AppendMany(evs, <<>>, a) /\ Aside(s) /\ evs \in Seq(Row)
    BY <1>5, <2>1
  <2> HIDE DEF evs
  <2> QED
    BY <1>1, <2>2, <2>3, AppendManyEffect, KeptExtends
<1>7. ASSUME NEW bd, RetractFrom(s, bd)
      PROVE  /\ Extends(rows, rows') /\ Aside(s) /\ receipts' = receipts
             /\ rows' \in Seq(Row)
             /\ revision' \in {revision, revision + 1}
             /\ rows' = rows <=> revision' = revision
  <2>1. Aside(s) /\ receipts' = receipts
    BY <1>7 DEF RetractFrom, Aside
  <2>2. <<>> \in Seq(Row)
    OBVIOUS
  <2> QED
    BY <1>1, <1>7, <2>1, <2>2, RetractFromEffect, KeptExtends
<1>8. DOMAIN receipts \subseteq ActionIds /\ receipts \in [DOMAIN receipts -> Receipt]
  BY DEF TypeOK
<1>9. CASE \E bd : RetractFrom(s, bd)
  BY <1>7, <1>8, <1>9
<1> QED
  BY <1>4, <1>6, <1>9 DEF Write

\* Writing keeps the types.
LEMMA WriteType ==
    ASSUME TypeOK, MarksInRange, NEW s \in Sessions, Write(s)
    PROVE  TypeOK' /\ MarksInRange'
<1>1. /\ revision \in Nat /\ open \in [Sessions -> BOOLEAN] /\ batch \in [Sessions -> Batch]
  BY DEF TypeOK
<1>2. open' \in [Sessions -> BOOLEAN] /\ batch' \in [Sessions -> Batch]
      /\ \A o \in Sessions : batch'[o] = batch[o] \/ batch'[o] = EmptyBatch
  BY <1>1, WriteEffect, EmptyBatchType DEF Ended, Aside
<1>3. TypeOK'
  <2>1. /\ rows' \in Seq(Row) /\ revision' \in {revision, revision + 1}
        /\ DOMAIN receipts' \subseteq ActionIds /\ receipts' \in [DOMAIN receipts' -> Receipt]
    BY WriteEffect
  <2>2. revision' \in Nat
    BY <1>1, <2>1
  <2> QED
    BY <1>2, <2>1, <2>2 DEF TypeOK
<1>4. MarksInRange'
  BY <1>2, EmptyBatchType DEF MarksInRange
<1> QED
  BY <1>3, <1>4

\* The types hold at the start.
LEMMA InitType == Init => TypeOK /\ MarksInRange
<1>1. SUFFICES ASSUME Init PROVE TypeOK /\ MarksInRange
  OBVIOUS
<1>2. /\ rows \in Seq(Row) /\ revision \in Nat /\ open \in [Sessions -> BOOLEAN]
      /\ DOMAIN receipts \subseteq ActionIds /\ receipts \in [DOMAIN receipts -> Receipt]
  BY <1>1 DEF Init
<1>3. batch \in [Sessions -> Batch] /\ \A s \in Sessions : batch[s].mark = NoMark
  BY <1>1, EmptyBatchType DEF Init
<1> QED
  BY <1>2, <1>3 DEF TypeOK, MarksInRange

\* Every step keeps them.
LEMMA StepType ==
    ASSUME TypeOK, MarksInRange, [Next]_vars
    PROVE  TypeOK' /\ MarksInRange'
<1>1. CASE Next
  BY <1>1, PrepareType, WriteType DEF Next
<1>2. CASE UNCHANGED vars
  BY <1>2 DEF vars, TypeOK, MarksInRange
<1> QED
  BY <1>1, <1>2

\* Every variable keeps its type: the rows, receipts and batches that EventStore
\* and EventBatch build are the ones their readers expect.
THEOREM TypeCorrect == Spec => []TypeOK
<1>1. TypeOK /\ MarksInRange /\ [Next]_vars => (TypeOK /\ MarksInRange)'
  BY StepType
<1> QED
  BY <1>1, InitType, PTL DEF Spec

-----------------------------------------------------------------------------
(* A revision names one history. *)

\* Preparing leaves the log alone and keeps the private copies what they were
\* taken from.
LEMMA PrepareCurrent ==
    ASSUME TypeOK, SnapshotCurrent, NEW s \in Sessions, Prepare(s)
    PROVE  SnapshotCurrent'
<1>1. /\ rows \in Seq(Row) /\ revision \in Nat /\ open \in [Sessions -> BOOLEAN]
      /\ batch \in [Sessions -> Batch] /\ batch[s] \in Batch
  BY DEF TypeOK
<1>2. rows' = rows /\ revision' = revision
  BY DEF Prepare, OpenTurn, OpenGenesis, Open, Stage, RetractStaged, BeginHook, EndHook,
         FailHook, Discard, storeVars
<1>3. \A o \in Sessions \ {s} : open'[o] = open[o] /\ batch'[o] = batch[o]
  BY <1>1 DEF Prepare, OpenTurn, OpenGenesis, Open, Stage, RetractStaged, BeginHook, EndHook,
              FailHook, Discard, storeVars
<1> DEFINE Good(b) == /\ b.revision <= revision
                      /\ b.revision = revision => b.snapshot = Retract(rows, b.retractions)
<1>4. SUFFICES open'[s] => Good(batch'[s])
  <2>1. \A o \in Sessions : open[o] => Good(batch[o])
    BY DEF SnapshotCurrent, IsCurrent
  <2>2. \A o \in Sessions : open'[o] => Good(batch'[o])
    BY <1>3, <1>4, <2>1
  <2> HIDE DEF Good
  <2>3. \A o \in Sessions : Good(batch'[o]) =>
            /\ batch'[o].revision <= revision'
            /\ batch'[o].revision = revision'
                  => batch'[o].snapshot = Retract(rows', batch'[o].retractions)
    BY <1>2 DEF Good
  <2> QED
    BY <2>2, <2>3 DEF SnapshotCurrent, IsCurrent
<1>5. ASSUME NEW t \in Nat, Open(s, t) PROVE Good(batch'[s])
  <2>1. batch'[s] = NewBatch(t)
    BY <1>1, <1>5 DEF Open
  <2>2. /\ batch'[s].revision = revision /\ batch'[s].snapshot = rows
        /\ batch'[s].retractions = <<>>
    BY <2>1 DEF NewBatch
  <2> QED
    BY <1>1, <2>2, RetractNone
<1>6. CASE open[s] /\ /\ batch'[s].revision = batch[s].revision
                     /\ batch'[s].snapshot = batch[s].snapshot
                     /\ batch'[s].retractions = batch[s].retractions
  BY <1>6 DEF SnapshotCurrent, IsCurrent
<1>7. ASSUME NEW bd \in Boundary, RetractStaged(s, bd) PROVE Good(batch'[s])
  <2> DEFINE b == batch[s]
             view == Retract(View(b), <<bd>>)
             cut == SubSeq(view, 1, Len(b.snapshot))
             rest == SubSeq(view, Len(b.snapshot) + 1, Len(view))
             more == Append(b.retractions, bd)
  <2>1. batch' = [batch EXCEPT ![s].snapshot = cut, ![s].events = rest,
                               ![s].retractions = more]
    BY <1>7 DEF RetractStaged
  <2>2. open[s]
    BY <1>7 DEF RetractStaged
  <2>3. cut = Retract(b.snapshot, <<bd>>)
    BY <1>1, StagedRetraction
  <2> HIDE DEF cut, rest, more
  <2>4. /\ batch'[s].revision = b.revision /\ batch'[s].snapshot = cut
        /\ batch'[s].retractions = more
    BY <1>1, <2>1 DEF Batch
  <2>5. Good(b)
    BY <2>2 DEF SnapshotCurrent, IsCurrent
  <2>6. b.retractions \in Seq(Boundary)
    BY <1>1, BatchFields
  <2>7. Retract(Retract(rows, b.retractions), <<bd>>) = Retract(rows, more)
    BY <1>1, <2>6, RetractTwice DEF more
  <2> QED
    BY <2>3, <2>4, <2>5, <2>7
<1>8. CASE OpenTurn(s)
  BY <1>1, <1>5, <1>8, NextTurnType DEF OpenTurn
<1>9. CASE OpenGenesis(s)
  BY <1>5, <1>9 DEF OpenGenesis
<1>10. CASE Discard(s)
  BY <1>1, <1>10 DEF Discard
<1>11. CASE (\E e \in Events : Stage(s, e)) \/ BeginHook(s) \/ EndHook(s) \/ FailHook(s)
  <2>1. open[s] /\ /\ batch'[s].revision = batch[s].revision
                  /\ batch'[s].snapshot = batch[s].snapshot
                  /\ batch'[s].retractions = batch[s].retractions
    BY <1>1, <1>11 DEF Stage, BeginHook, EndHook, FailHook, Batch
  <2> QED
    BY <1>6, <2>1
<1>12. \A v \in Nat : SeqBoundary(v) \in Boundary /\ TurnBoundary(v) \in Boundary
  BY DEF SeqBoundary, TurnBoundary, Boundary
<1>13. ASSUME NEW v \in 0..(MaxRows + MaxStaged), RetractStaged(s, SeqBoundary(v))
       PROVE  Good(batch'[s])
  BY <1>7, <1>12, <1>13, ConstantsAssumption
<1>14. CASE RetractStaged(s, TurnBoundary(0))
  BY <1>7, <1>12, <1>14
<1> QED
  BY <1>8, <1>9, <1>10, <1>11, <1>13, <1>14 DEF Prepare

\* A write that changes the log outdates every other open batch.
LEMMA WriteCurrent ==
    ASSUME TypeOK, SnapshotCurrent, NEW s \in Sessions, Write(s)
    PROVE  SnapshotCurrent'
<1>1. /\ revision \in Nat /\ open \in [Sessions -> BOOLEAN]
      /\ batch \in [Sessions -> Batch]
  BY DEF TypeOK
<1>2. /\ revision' \in {revision, revision + 1}
      /\ rows' = rows <=> revision' = revision
      /\ Ended(s) \/ Aside(s)
  BY WriteEffect
<1>3. SUFFICES ASSUME NEW o \in Sessions, open'[o]
               PROVE  /\ batch'[o].revision <= revision'
                      /\ batch'[o].revision = revision'
                            => batch'[o].snapshot = Retract(rows', batch'[o].retractions)
  BY DEF SnapshotCurrent, IsCurrent
<1>4. open[o] /\ batch'[o] = batch[o]
  BY <1>1, <1>2, <1>3 DEF Ended, Aside
<1>5. /\ batch[o].revision <= revision
      /\ batch[o].revision = revision => batch[o].snapshot = Retract(rows, batch[o].retractions)
  BY <1>4 DEF SnapshotCurrent, IsCurrent
<1>6. batch[o].revision \in Nat
  BY <1>1, BatchFields
<1> QED
  BY <1>1, <1>2, <1>4, <1>5, <1>6

\* The inductive invariant: a revision names one history, with the types and the
\* savepoint positions that the steps of a batch rely on.
IInv == TypeOK /\ MarksInRange /\ SnapshotCurrent

\* The invariant holds in every reachable state.
LEMMA Invariance == Spec => []IInv
<1>1. Init => IInv
  <2>1. SUFFICES ASSUME Init PROVE IInv
    OBVIOUS
  <2>2. \A s \in Sessions : ~open[s]
    BY <2>1 DEF Init
  <2> QED
    BY <2>1, <2>2, InitType DEF IInv, SnapshotCurrent
<1>2. IInv /\ [Next]_vars => IInv'
  <2>1. SUFFICES ASSUME IInv, [Next]_vars PROVE IInv'
    OBVIOUS
  <2>2. TypeOK /\ MarksInRange /\ SnapshotCurrent
    BY <2>1 DEF IInv
  <2>3. TypeOK' /\ MarksInRange'
    BY <2>1, <2>2, StepType
  <2>4. SnapshotCurrent'
    <3>1. CASE Next
      BY <2>2, <3>1, PrepareCurrent, WriteCurrent DEF Next
    <3>2. CASE UNCHANGED vars
      BY <2>2, <3>2 DEF vars, SnapshotCurrent, IsCurrent
    <3> QED
      BY <2>1, <3>1, <3>2
  <2> QED
    BY <2>3, <2>4 DEF IInv
<1> QED
  BY <1>1, <1>2, PTL DEF Spec

\* A revision number names one history: a batch that carries the store's
\* revision holds the stored log, its own retractions applied (what the revision
\* check of append_many, store.py:101-103, takes for granted).
THEOREM RevisionNamesHistory == Spec => []SnapshotCurrent
<1>1. IInv => SnapshotCurrent
  BY DEF IInv
<1> QED
  BY <1>1, Invariance, PTL

-----------------------------------------------------------------------------
(* What a step may do. *)

\* What is committed is what every hook of the turn was shown and what the
\* preflight folded, row for row and seq for seq.
THEOREM PublishesWhatItPrepared == Spec => PublishedIsPrepared
<1> DEFINE A == \A s \in Sessions : Published(s) => rows' = View(batch[s])
<1>1. ASSUME IInv PROVE A
  <2>1. TypeOK /\ SnapshotCurrent
    BY <1>1 DEF IInv
  <2>2. SUFFICES ASSUME NEW s \in Sessions, Published(s) PROVE rows' = View(batch[s])
    OBVIOUS
  <2>3. PICK a \in ActionIds : Publish(s, a)
    BY <2>2 DEF Published
  <2>4. open[s] /\ IsCurrent(s) /\ AppendMany(batch[s].events, batch[s].retractions, a)
    BY <2>3 DEF Publish
  <2>5. rows' = Retract(rows, batch[s].retractions) \o batch[s].events
    BY <2>4 DEF AppendMany
  <2>6. batch[s].snapshot = Retract(rows, batch[s].retractions)
    BY <2>1, <2>4 DEF SnapshotCurrent
  <2> QED
    BY <2>5, <2>6 DEF View
<1> QED
  BY <1>1, Invariance, PTL DEF PublishedIsPrepared

\* The log only grows, and what was undone stays undone.
THEOREM UndoIsForEver == Spec => NothingComesBack
<1>1. ASSUME TypeOK, [Next]_vars PROVE [Extends(rows, rows')]_rows
  <2>1. CASE \E s \in Sessions : Write(s)
    BY <1>1, <2>1, WriteEffect
  <2>2. CASE \E s \in Sessions : Prepare(s)
    BY <2>2 DEF Prepare, OpenTurn, OpenGenesis, Open, Stage, RetractStaged, BeginHook,
                EndHook, FailHook, Discard, storeVars
  <2>3. CASE UNCHANGED vars
    BY <2>3 DEF vars
  <2> QED
    BY <1>1, <2>1, <2>2, <2>3 DEF Next
<1>2. ASSUME TypeOK, [Next]_vars PROVE [Extends(rows, rows')]_vars
  <2>1. rows' = rows => Extends(rows, rows')
    BY <1>1, <1>2 DEF Extends, Seqs
  <2> QED
    BY <1>1, <1>2, <2>1
<1> QED
  BY <1>2, TypeCorrect, PTL DEF Spec, NothingComesBack

-----------------------------------------------------------------------------
(* The store implements the optimistic log. *)

Fresh == [s \in Sessions |-> open[s] /\ IsCurrent(s)]
Draft == [s \in Sessions |-> View(batch[s])]

\* One session's step changes one entry of the mapped functions.
LEMMA MapUpdate ==
    ASSUME NEW s \in Sessions, \A o \in Sessions \ {s} : open'[o] = open[o] /\ batch'[o] = batch[o]
    PROVE  /\ Draft' = [Draft EXCEPT ![s] = View(batch'[s])]
           /\ \A o \in Sessions \ {s} : Draft'[o] = Draft[o]
           /\ revision' = revision =>
                 Fresh' = [Fresh EXCEPT ![s] = (open'[s] /\ batch'[s].revision = revision)]
<1>1. Draft' = [o \in Sessions |-> View(batch'[o])]
  BY DEF Draft, View
<1>2. Draft' = [Draft EXCEPT ![s] = View(batch'[s])]
  <2>1. \A o \in Sessions \ {s} : View(batch'[o]) = View(batch[o])
    OBVIOUS
  <2> QED
    BY <1>1, <2>1 DEF Draft
<1>3. \A o \in Sessions \ {s} : Draft'[o] = Draft[o]
  BY <1>1 DEF Draft
<1>4. ASSUME revision' = revision
      PROVE  Fresh' = [Fresh EXCEPT ![s] = (open'[s] /\ batch'[s].revision = revision)]
  <2>1. Fresh' = [o \in Sessions |-> open'[o] /\ batch'[o].revision = revision]
    BY <1>4 DEF Fresh, IsCurrent
  <2>2. Fresh = [o \in Sessions |-> open[o] /\ batch[o].revision = revision]
    BY DEF Fresh, IsCurrent
  <2>3. \A o \in Sessions \ {s} : (open'[o] /\ batch'[o].revision = revision)
                                   = (open[o] /\ batch[o].revision = revision)
    OBVIOUS
  <2> QED
    BY <2>1, <2>2, <2>3
<1> QED
  BY <1>2, <1>3, <1>4

\* Preparing a proposal begins, edits or abandons a draft.
LEMMA PrepareRefines ==
    ASSUME TypeOK, NEW s \in Sessions, Prepare(s)
    PROVE  VL!Begin(s) \/ VL!Edit(s) \/ VL!Abandon(s)
<1>1. /\ rows \in Seq(Row) /\ open \in [Sessions -> BOOLEAN]
      /\ batch \in [Sessions -> Batch] /\ batch[s] \in Batch
  BY DEF TypeOK
<1>2. rows' = rows /\ revision' = revision
  BY DEF Prepare, OpenTurn, OpenGenesis, Open, Stage, RetractStaged, BeginHook, EndHook,
         FailHook, Discard, storeVars
<1>3. \A o \in Sessions \ {s} : open'[o] = open[o] /\ batch'[o] = batch[o]
  BY <1>1 DEF Prepare, OpenTurn, OpenGenesis, Open, Stage, RetractStaged, BeginHook, EndHook,
              FailHook, Discard, storeVars
<1>4. /\ Draft' = [Draft EXCEPT ![s] = View(batch'[s])]
      /\ \A o \in Sessions \ {s} : Draft'[o] = Draft[o]
      /\ Fresh' = [Fresh EXCEPT ![s] = (open'[s] /\ batch'[s].revision = revision)]
  BY <1>2, <1>3, MapUpdate
<1>5. ASSUME NEW t \in Nat, Open(s, t) PROVE VL!Begin(s)
  <2>1. ~open[s] /\ open' = [open EXCEPT ![s] = TRUE] /\ batch'[s] = NewBatch(t)
    BY <1>1, <1>5 DEF Open
  <2>2. View(batch'[s]) = rows
    BY <1>1, <2>1, ConcatEmptySeq DEF NewBatch, View
  <2>3. open'[s] /\ batch'[s].revision = revision
    BY <1>1, <2>1 DEF NewBatch
  <2>4. Fresh' = [Fresh EXCEPT ![s] = TRUE]
    BY <1>4, <2>3
  <2> QED
    BY <1>2, <1>4, <2>1, <2>2, <2>4 DEF VL!Begin, Fresh, Draft
<1>6. CASE open[s] /\ open' = open /\ batch'[s].revision = batch[s].revision
  <2>1. (open'[s] /\ batch'[s].revision = revision) = Fresh[s]
    BY <1>6 DEF Fresh, IsCurrent
  <2>2. Fresh' = Fresh
    BY <1>4, <2>1 DEF Fresh
  <2> QED
    BY <1>2, <1>4, <1>6, <2>2 DEF VL!Edit, Fresh, Draft
<1>7. CASE Discard(s)
  <2>1. /\ open[s] /\ open' = [open EXCEPT ![s] = FALSE] /\ batch'[s] = EmptyBatch /\ ~open'[s]
    BY <1>1, <1>7 DEF Discard
  <2>2. Fresh' = [Fresh EXCEPT ![s] = FALSE] /\ Draft' = [Draft EXCEPT ![s] = <<>>]
    BY <1>4, <2>1, EmptyBatchType
  <2> QED
    BY <1>2, <2>1, <2>2 DEF VL!Abandon, Fresh, Draft
<1>8. CASE OpenTurn(s)
  BY <1>1, <1>5, <1>8, NextTurnType DEF OpenTurn
<1>9. CASE OpenGenesis(s)
  BY <1>5, <1>9 DEF OpenGenesis
<1>10. CASE \/ \E e \in Events : Stage(s, e)
            \/ \E bd : RetractStaged(s, bd)
            \/ BeginHook(s) \/ EndHook(s) \/ FailHook(s)
  <2>1. open[s] /\ open' = open
    BY <1>10 DEF Stage, RetractStaged, BeginHook, EndHook, FailHook
  <2>2. batch'[s].revision = batch[s].revision
    <3>1. CASE \E e \in Events : Stage(s, e)
      BY <1>1, <3>1 DEF Stage, Batch
    <3>2. ASSUME NEW bd, RetractStaged(s, bd) PROVE batch'[s].revision = batch[s].revision
      <4> DEFINE view == Retract(View(batch[s]), <<bd>>)
                 cut == SubSeq(view, 1, Len(batch[s].snapshot))
                 rest == SubSeq(view, Len(batch[s].snapshot) + 1, Len(view))
                 more == Append(batch[s].retractions, bd)
      <4>1. batch' = [batch EXCEPT ![s].snapshot = cut, ![s].events = rest,
                                   ![s].retractions = more]
        BY <3>2 DEF RetractStaged
      <4> HIDE DEF cut, rest, more
      <4> QED
        BY <1>1, <4>1 DEF Batch
    <3>3. CASE BeginHook(s) \/ EndHook(s) \/ FailHook(s)
      BY <1>1, <3>3 DEF BeginHook, EndHook, FailHook, Batch
    <3> QED
      BY <1>10, <3>1, <3>2, <3>3
  <2> QED
    BY <1>6, <2>1, <2>2
<1> QED
  BY <1>7, <1>8, <1>9, <1>10 DEF Prepare

\* A write commits a fresh draft or overwrites, and outdates the others exactly
\* when it changes the log.
LEMMA WriteRefines ==
    ASSUME IInv, NEW s \in Sessions, Write(s)
    PROVE  VL!Commit(s) \/ VL!Overwrite(s)
<1>1. TypeOK /\ SnapshotCurrent
  BY DEF IInv
<1>2. /\ revision \in Nat /\ open \in [Sessions -> BOOLEAN] /\ batch \in [Sessions -> Batch]
  BY <1>1 DEF TypeOK
<1>3. /\ revision' \in {revision, revision + 1}
      /\ rows' = rows <=> revision' = revision
      /\ Extends(rows, rows')
      /\ \/ Ended(s) /\ rows' = Retract(rows, batch[s].retractions) \o batch[s].events
                       /\ IsCurrent(s)
         \/ Aside(s)
  BY <1>1, WriteEffect
<1>4. VL!Grows(rows, rows')
  BY <1>3 DEF VL!Grows, Extends, Seqs
<1>5. ASSUME NEW o \in Sessions, open'[o] = open[o], batch'[o] = batch[o]
      PROVE  (open'[o] /\ batch'[o].revision = revision') <=> (Fresh[o] /\ rows' = rows)
  <2>1. Fresh[o] <=> open[o] /\ batch[o].revision = revision
    BY DEF Fresh, IsCurrent
  <2>2. open[o] => batch[o].revision <= revision /\ batch[o].revision \in Nat
    BY <1>1, <1>2, BatchFields DEF SnapshotCurrent
  <2> QED
    BY <1>2, <1>3, <1>5, <2>1, <2>2
<1>6. Fresh' = [o \in Sessions |-> open'[o] /\ batch'[o].revision = revision']
  BY DEF Fresh, IsCurrent
<1>7. CASE Ended(s) /\ rows' = Retract(rows, batch[s].retractions) \o batch[s].events
                    /\ IsCurrent(s)
  <2>1. /\ open[s] /\ open' = [open EXCEPT ![s] = FALSE] /\ ~open'[s]
        /\ \A o \in Sessions \ {s} : open'[o] = open[o] /\ batch'[o] = batch[o]
        /\ batch'[s] = EmptyBatch
    BY <1>2, <1>7 DEF Ended
  <2>2. Draft[s] = rows'
    BY <1>1, <1>7, <2>1 DEF Draft, View, SnapshotCurrent
  <2>3. Draft' = [Draft EXCEPT ![s] = <<>>]
    BY <2>1, MapUpdate, EmptyBatchType
  <2>4. Fresh' = [o \in Sessions |-> Fresh[o] /\ o # s /\ rows' = rows]
    BY <1>5, <1>6, <2>1
  <2>5. Fresh[s]
    BY <1>7, <2>1 DEF Fresh
  <2> QED
    BY <1>4, <2>1, <2>2, <2>3, <2>4, <2>5 DEF VL!Commit, VL!StillFresh, Fresh, Draft
<1>8. CASE Aside(s)
  <2>1. ~open[s] /\ open' = open /\ batch' = batch
    BY <1>8 DEF Aside
  <2>2. Draft' = Draft
    BY <2>1 DEF Draft, View
  <2>3. Fresh' = [o \in Sessions |-> Fresh[o] /\ o # s /\ rows' = rows]
    <3>1. ~Fresh[s]
      BY <2>1 DEF Fresh
    <3> QED
      BY <1>5, <1>6, <2>1, <3>1
  <2> QED
    BY <1>4, <2>1, <2>2, <2>3 DEF VL!Overwrite, VL!StillFresh, Fresh, Draft
<1> QED
  BY <1>3, <1>7, <1>8

\* The event store implements the optimistic log of VersionedLog: a proposal takes
\* effect whole and only if nothing changed since it was begun ("Source revisions
\* reject stale writes", README.md:47, for batches).
THEOREM StoreImplementsLog == Spec => VLSpec
<1>1. Init => VL!Init
  <2>1. SUFFICES ASSUME Init PROVE VL!Init
    OBVIOUS
  <2>2. open = [s \in Sessions |-> FALSE] /\ batch = [s \in Sessions |-> EmptyBatch]
    BY <2>1 DEF Init
  <2>3. Fresh = [s \in Sessions |-> FALSE] /\ Draft = [s \in Sessions |-> <<>>]
    BY <2>2, EmptyBatchType DEF Fresh, Draft
  <2> QED
    BY <2>2, <2>3 DEF VL!Init, Fresh, Draft
<1>2. ASSUME IInv, [Next]_vars PROVE [VL!Next]_(VL!lvars)
  <2>1. CASE Next
    BY <1>2, <2>1, PrepareRefines, WriteRefines DEF Next, VL!Next, IInv
  <2>2. CASE UNCHANGED vars
    BY <2>2 DEF vars, VL!lvars, View, IsCurrent
  <2> QED
    BY <1>2, <2>1, <2>2
<1> QED
  BY <1>1, <1>2, Invariance, PTL DEF Spec, VLSpec, VL!Spec

-----------------------------------------------------------------------------
(* Receipts. *)

\* The rows rs hold, at the seqs receipt r names, the events r was issued for.
NamesRows(r, rs) ==
    /\ r.first >= 1
    /\ Stored(r) \subseteq 1..Len(rs)
    /\ Len(r.events) = r.last - r.first + 1
    /\ \A i \in Stored(r) : /\ rs[i].event = r.events[i - r.first + 1].event
                            /\ rs[i].turn = r.events[i - r.first + 1].turn

\* The fields of a receipt.
LEMMA ReceiptFields ==
    ASSUME TypeOK, NEW a \in DOMAIN receipts
    PROVE  /\ receipts[a].first \in Nat /\ receipts[a].last \in Nat
           /\ receipts[a].events \in Seq(Row)
<1>1. receipts[a] \in Receipt
  BY DEF TypeOK
<1> QED
  BY <1>1 DEF Receipt

\* A receipt keeps naming its rows while the log grows and rows are hidden.
LEMMA NamesRowsKept ==
    ASSUME NEW r, r.first \in Nat, r.last \in Nat, NEW old \in Seq(Row), NEW new \in Seq(Row),
           Extends(old, new), NamesRows(r, old)
    PROVE  NamesRows(r, new)
<1>1. Len(old) \in Nat /\ Len(new) \in Nat /\ Len(old) <= Len(new)
  BY DEF Extends
<1>2. \A i \in 1..Len(old) : new[i].event = old[i].event /\ new[i].turn = old[i].turn
  BY DEF Extends, Seqs
<1>3. Stored(r) \subseteq 1..Len(old) /\ Stored(r) \subseteq 1..Len(new)
  BY <1>1 DEF NamesRows
<1> QED
  BY <1>2, <1>3 DEF NamesRows

\* What a write does to the receipts: nothing, or it adds one for rows that it
\* appends after all the others.
Received(evs, a) ==
    /\ a \in ActionIds \ DOMAIN receipts
    /\ DOMAIN receipts' = DOMAIN receipts \cup {a}
    /\ \A x \in DOMAIN receipts : receipts'[x] = receipts[x]
    /\ receipts'[a].events = evs
    /\ evs # <<>> => /\ receipts'[a].first = Len(rows) + 1
                     /\ receipts'[a].last = Len(rows) + Len(evs)

\* A transaction that carries an action's name issues its receipt.
LEMMA AppendManyReceipt ==
    ASSUME TypeOK, NEW evs \in Seq(Row), NEW bs, NEW a \in ActionIds \cup {NoAction},
           NotReceived(a), AppendMany(evs, bs, a)
    PROVE  \/ a = NoAction /\ receipts' = receipts
           \/ a # NoAction /\ Received(evs, a)
<1> DEFINE receipt == [events |-> evs, retractions |-> bs,
                       first |-> Span(evs)[1], last |-> Span(evs)[2], revision |-> revision']
<1>1. receipts' = IF a = NoAction THEN receipts
                  ELSE [x \in DOMAIN receipts \cup {a} |->
                           IF x = a THEN receipt ELSE receipts[x]]
  BY DEF AppendMany, WithReceipt
<1>2. CASE a = NoAction
  BY <1>1, <1>2
<1>3. CASE a # NoAction
  <2>1. a \in ActionIds \ DOMAIN receipts
    BY <1>3 DEF NotReceived
  <2>2. /\ DOMAIN receipts' = DOMAIN receipts \cup {a} /\ receipts'[a] = receipt
        /\ \A x \in DOMAIN receipts : receipts'[x] = receipts[x]
    <3> HIDE DEF receipt
    <3> QED
      BY <1>1, <1>3, <2>1
  <2>3. evs # <<>> => Span(evs) = <<Len(rows) + 1, Len(rows) + Len(evs)>>
    BY DEF Span
  <2> QED
    BY <1>3, <2>1, <2>2, <2>3 DEF Received
<1> QED
  BY <1>2, <1>3

\* Three kinds of write: a publication, an append outside a batch, a rewind.
PublishedAs(s, a) ==
    /\ Ended(s) /\ IsCurrent(s)
    /\ rows' = Retract(rows, batch[s].retractions) \o batch[s].events
    /\ Received(batch[s].events, a)

Appended(s, evs) ==
    /\ Aside(s)
    /\ rows' = rows \o evs
    /\ receipts' = receipts \/ \E a \in ActionIds : Received(evs, a)

Rewound(s, bs) ==
    /\ Aside(s)
    /\ receipts' = receipts
    /\ rows' = Retract(rows, bs)

\* One event, as append() writes it.
OneEvent(e, t) == <<[event |-> e, turn |-> t, retracted |-> FALSE]>>

\* It is a list of one row.
LEMMA OneEventType ==
    ASSUME NEW e \in Events, NEW t \in DirectTurns
    PROVE  /\ OneEvent(e, t) \in Seq(Row) /\ Len(OneEvent(e, t)) = 1
           /\ OneEvent(e, t) # <<>>
           /\ OneEvent(e, t)[1].turn = t
<1>1. [event |-> e, turn |-> t, retracted |-> FALSE] \in Row
  BY ConstantsAssumption DEF Row
<1> QED
  BY <1>1 DEF OneEvent

\* The boundaries of rewinds outside a batch.
RewindBoundary(bd) == bd \in Boundary /\ (bd.kind = "seq" => bd.value \in DirectSeqs)

\* Every write is one of the three.
LEMMA WriteKinds ==
    ASSUME TypeOK, NEW s \in Sessions, Write(s)
    PROVE  \/ \E a \in ActionIds : PublishedAs(s, a)
           \/ \E e \in Events, t \in DirectTurns : Appended(s, OneEvent(e, t))
           \/ \E bd : RewindBoundary(bd) /\ Rewound(s, <<bd>>)
<1>1. rows \in Seq(Row) /\ batch[s] \in Batch
  BY DEF TypeOK
<1>2. batch[s].events \in Seq(Row)
  BY <1>1, BatchFields
<1>3. ASSUME NEW a \in ActionIds, Publish(s, a) PROVE PublishedAs(s, a)
  <2>1. /\ AppendMany(batch[s].events, batch[s].retractions, a)
        /\ NotReceived(a) /\ Ended(s) /\ IsCurrent(s)
    BY <1>3 DEF Publish, Ended
  <2>2. a # NoAction
    BY ConstantsAssumption
  <2>3. Received(batch[s].events, a)
    BY <1>2, <2>1, <2>2, AppendManyReceipt
  <2>4. rows' = Retract(rows, batch[s].retractions) \o batch[s].events
    BY <2>1 DEF AppendMany
  <2> QED
    BY <2>1, <2>3, <2>4 DEF PublishedAs
<1>4. ASSUME NEW e \in Events, NEW t \in DirectTurns, NEW a \in ActionIds \cup {NoAction},
             DirectAppend(s, e, t, a)
      PROVE  Appended(s, OneEvent(e, t))
  <2> DEFINE evs == OneEvent(e, t)
  <2>1. evs \in Seq(Row)
    BY OneEventType
  <2>2. AppendMany(evs, <<>>, a) /\ NotReceived(a) /\ Aside(s)
    BY <1>4 DEF DirectAppend, Aside, OneEvent
  <2>3. rows' = rows \o evs
    BY <1>1, <2>2, RetractNone DEF AppendMany
  <2> HIDE DEF evs
  <2>4. receipts' = receipts \/ (a # NoAction /\ Received(evs, a))
    BY <2>1, <2>2, AppendManyReceipt
  <2> QED
    BY <2>2, <2>3, <2>4 DEF Appended, evs
<1>5. ASSUME NEW bd, RetractFrom(s, bd) PROVE Rewound(s, <<bd>>)
  BY <1>5 DEF RetractFrom, Aside, Rewound
<1>6. ASSUME NEW t \in 0..NextTurn(rows), RetractFrom(s, TurnBoundary(t))
      PROVE  \E bd : RewindBoundary(bd) /\ Rewound(s, <<bd>>)
  <2>1. t \in Nat
    BY <1>1, NextTurnType
  <2>2. RewindBoundary(TurnBoundary(t)) /\ Rewound(s, <<TurnBoundary(t)>>)
    BY <1>5, <1>6, <2>1 DEF TurnBoundary, RewindBoundary, Boundary
  <2> QED
    BY <2>2
<1>7. ASSUME NEW i \in DirectSeqs, RetractFrom(s, SeqBoundary(i))
      PROVE  \E bd : RewindBoundary(bd) /\ Rewound(s, <<bd>>)
  <2>1. i \in Nat
    BY ConstantsAssumption
  <2>2. RewindBoundary(SeqBoundary(i)) /\ Rewound(s, <<SeqBoundary(i)>>)
    BY <1>5, <1>7, <2>1 DEF SeqBoundary, RewindBoundary, Boundary
  <2> QED
    BY <2>2
<1> QED
  BY <1>3, <1>4, <1>6, <1>7 DEF Write

\* The statement of ReceiptsExact by way of NamesRows.
LEMMA ReceiptsExactDef ==
    ReceiptsExact <=>
        /\ \A a \in DOMAIN receipts : Wrote(receipts[a]) => NamesRows(receipts[a], rows)
        /\ \A a, c \in DOMAIN receipts :
              a # c /\ Wrote(receipts[a]) /\ Wrote(receipts[c])
                => Stored(receipts[a]) \cap Stored(receipts[c]) = {}
BY DEF ReceiptsExact, NamesRows, Seqs

\* The rows of a list followed by another.
LEMMA ConcatRows ==
    ASSUME NEW a \in Seq(Row), NEW b \in Seq(Row)
    PROVE  /\ a \o b \in Seq(Row) /\ Len(a \o b) = Len(a) + Len(b)
           /\ Len(a) \in Nat /\ Len(b) \in Nat
           /\ \A i \in 1..Len(a) : (a \o b)[i] = a[i]
           /\ \A k \in 1..Len(b) : (a \o b)[Len(a) + k] = b[k]
           /\ \A i \in Len(a)+1..Len(a)+Len(b) : (a \o b)[i] = b[i - Len(a)]
BY ConcatProperties

\* The rows a transaction appends are the ones its receipt names.
LEMMA NewReceipt ==
    ASSUME NEW kept \in Seq(Row), NEW evs \in Seq(Row), NEW r, evs # <<>>, r.events = evs,
           r.first = Len(kept) + 1, r.last = Len(kept) + Len(evs)
    PROVE  /\ NamesRows(r, kept \o evs)
           /\ \A i \in Stored(r) : i > Len(kept)
           /\ \A k \in 1..Len(evs) : Len(kept) + k \in Stored(r)
<1>1. Len(kept) \in Nat /\ Len(evs) \in Nat
  OBVIOUS
<1>2. /\ Len(kept \o evs) = Len(kept) + Len(evs)
      /\ \A i \in Len(kept)+1..Len(kept)+Len(evs) : (kept \o evs)[i] = evs[i - Len(kept)]
  BY ConcatProperties
<1>3. Stored(r) = Len(kept)+1..Len(kept)+Len(evs)
  BY DEF Stored
<1>4. \A i \in Stored(r) : i - r.first + 1 = i - Len(kept) /\ (kept \o evs)[i] = evs[i - Len(kept)]
  BY <1>1, <1>2, <1>3
<1>5. Stored(r) \subseteq 1..Len(kept \o evs) /\ Len(r.events) = r.last - r.first + 1
      /\ r.first >= 1
  BY <1>1, <1>2, <1>3
<1>6. NamesRows(r, kept \o evs)
  BY <1>4, <1>5 DEF NamesRows
<1> QED
  BY <1>1, <1>3, <1>6

\* The rows and receipts a transaction leaves are exact when those before it were.
LEMMA ReceivedExact ==
    ASSUME TypeOK, ReceiptsExact, NEW bs, NEW evs \in Seq(Row), NEW a \in ActionIds,
           Received(evs, a), rows' = Retract(rows, bs) \o evs
    PROVE  ReceiptsExact'
<1> DEFINE kept == Retract(rows, bs)
<1>1. rows \in Seq(Row) /\ kept \in Seq(Row) /\ Len(kept) = Len(rows) /\ Len(rows) \in Nat
  BY RetractRows DEF TypeOK
<1>2. Extends(rows, rows') /\ rows' \in Seq(Row)
  BY <1>1, KeptExtends
<1> HIDE DEF kept
<1>3. /\ a \notin DOMAIN receipts /\ DOMAIN receipts' = DOMAIN receipts \cup {a}
      /\ \A x \in DOMAIN receipts : receipts'[x] = receipts[x]
      /\ receipts'[a].events = evs
      /\ evs # <<>> => /\ receipts'[a].first = Len(rows) + 1
                       /\ receipts'[a].last = Len(rows) + Len(evs)
  BY DEF Received
<1>4. evs # <<>> => /\ NamesRows(receipts'[a], rows')
                    /\ \A i \in Stored(receipts'[a]) : i > Len(rows)
  BY <1>1, <1>3, NewReceipt DEF kept
<1>5. ASSUME NEW x \in DOMAIN receipts, Wrote(receipts[x])
      PROVE  /\ NamesRows(receipts'[x], rows') /\ Stored(receipts'[x]) \subseteq 1..Len(rows)
             /\ Stored(receipts'[x]) = Stored(receipts[x])
  <2>1. NamesRows(receipts[x], rows) /\ receipts'[x] = receipts[x]
    BY <1>3, <1>5, ReceiptsExactDef
  <2>2. Stored(receipts[x]) \subseteq 1..Len(rows)
    BY <2>1 DEF NamesRows
  <2> QED
    BY <1>1, <1>2, <2>1, <2>2, NamesRowsKept, ReceiptFields
<1>6. Wrote(receipts'[a]) => evs # <<>>
  BY <1>3 DEF Wrote
<1>7. \A x \in DOMAIN receipts' : Wrote(receipts'[x]) => NamesRows(receipts'[x], rows')
  BY <1>3, <1>4, <1>5, <1>6
<1>8. ASSUME NEW x \in DOMAIN receipts', NEW y \in DOMAIN receipts', x # y,
             Wrote(receipts'[x]), Wrote(receipts'[y])
      PROVE  Stored(receipts'[x]) \cap Stored(receipts'[y]) = {}
  <2>1. \A i \in 1..Len(rows) : ~(i > Len(rows))
    BY <1>1
  <2>2. CASE x = a \/ y = a
    BY <1>3, <1>4, <1>5, <1>6, <1>8, <2>1, <2>2
  <2>3. CASE x # a /\ y # a
    BY <1>3, <1>5, <1>8, <2>3, ReceiptsExactDef
  <2> QED
    BY <2>2, <2>3
<1> QED
  BY <1>7, <1>8 DEF ReceiptsExact, NamesRows, Seqs

\* Hiding rows leaves the receipts exact.
LEMMA RewoundExact ==
    ASSUME TypeOK, ReceiptsExact, NEW new \in Seq(Row), Extends(rows, new), rows' = new,
           receipts' = receipts
    PROVE  ReceiptsExact'
<1>1. ASSUME NEW x \in DOMAIN receipts, Wrote(receipts[x])
      PROVE  NamesRows(receipts[x], rows')
  <2>1. NamesRows(receipts[x], rows) /\ rows \in Seq(Row)
    BY <1>1, ReceiptsExactDef DEF TypeOK
  <2> QED
    BY <2>1, NamesRowsKept, ReceiptFields
<1> QED
  BY <1>1, ReceiptsExactDef DEF ReceiptsExact, NamesRows, Seqs

\* Every write leaves the receipts exact.
LEMMA WriteExact ==
    ASSUME TypeOK, ReceiptsExact, NEW s \in Sessions, Write(s)
    PROVE  ReceiptsExact'
<1>1. rows \in Seq(Row) /\ batch[s] \in Batch
  BY DEF TypeOK
<1>2. batch[s].events \in Seq(Row)
  BY <1>1, BatchFields
<1>3. Extends(rows, rows') /\ rows' \in Seq(Row)
  BY WriteEffect
<1>4. ASSUME NEW a \in ActionIds, PublishedAs(s, a) PROVE ReceiptsExact'
  BY <1>2, <1>4, ReceivedExact DEF PublishedAs
<1>5. ASSUME NEW e \in Events, NEW t \in DirectTurns, Appended(s, OneEvent(e, t))
      PROVE  ReceiptsExact'
  <2>1. OneEvent(e, t) \in Seq(Row)
    BY OneEventType
  <2>2. rows' = Retract(rows, <<>>) \o OneEvent(e, t)
    BY <1>1, <1>5, RetractNone DEF Appended
  <2>3. CASE receipts' = receipts
    BY <1>3, <2>3, RewoundExact
  <2>4. CASE \E a \in ActionIds : Received(OneEvent(e, t), a)
    BY <2>1, <2>2, <2>4, ReceivedExact
  <2> QED
    BY <1>5, <2>3, <2>4 DEF Appended
<1>6. ASSUME NEW bd, Rewound(s, <<bd>>) PROVE ReceiptsExact'
  BY <1>3, <1>6, RewoundExact DEF Rewound
<1> QED
  BY <1>4, <1>5, <1>6, WriteKinds

\* Preparing a proposal touches neither the log nor the receipts.
LEMMA PrepareKeepsStore ==
    ASSUME NEW s \in Sessions, Prepare(s)
    PROVE  rows' = rows /\ revision' = revision /\ receipts' = receipts
BY DEF Prepare, OpenTurn, OpenGenesis, Open, Stage, RetractStaged, BeginHook, EndHook,
       FailHook, Discard, storeVars

\* A receipt identifies its batch: the rows it names hold, for ever, the events it
\* was issued for, and no row belongs to two actions ("An action receipt
\* identifies its exact batch", README.md:47), although action ids are checked
\* against the receipts and not against the rows.
THEOREM ReceiptsNameTheirRows == Spec => []ReceiptsExact
<1>1. Init => ReceiptsExact
  BY DEF Init, ReceiptsExact
<1>2. TypeOK /\ ReceiptsExact /\ [Next]_vars => ReceiptsExact'
  <2>1. SUFFICES ASSUME TypeOK, ReceiptsExact, [Next]_vars PROVE ReceiptsExact'
    OBVIOUS
  <2>2. CASE \E s \in Sessions : Write(s)
    BY <2>1, <2>2, WriteExact
  <2>3. ASSUME rows' = rows, receipts' = receipts PROVE ReceiptsExact'
    BY <2>1, <2>3 DEF ReceiptsExact, Seqs
  <2>4. CASE \E s \in Sessions : Prepare(s)
    BY <2>3, <2>4, PrepareKeepsStore
  <2>5. CASE UNCHANGED vars
    BY <2>3, <2>5 DEF vars
  <2> QED
    BY <2>1, <2>2, <2>4, <2>5 DEF Next
<1> QED
  BY <1>1, <1>2, TypeCorrect, PTL DEF Spec

-----------------------------------------------------------------------------
(* What a batch holds. *)

\* A boundary that world generation stages: everything from turn 0, or everything
\* from a row of turn 0 of the snapshot (or from an event staged after it).
GenesisCut(bd, snapshot) ==
    \/ bd.kind = "turn"
    \/ bd.value \in 1..Len(snapshot) => snapshot[bd.value].turn = 0

\* The events of a batch carry its turn.  A turn's batch hides nothing, and its
\* turn is the next one of the snapshot it was computed from.
Coherent(b) ==
    /\ \A k \in 1..Len(b.events) : b.events[k].turn = b.turn
    /\ b.turn > 0 => /\ b.retractions = <<>>
                     /\ b.turn = NextTurn(b.snapshot)
                     /\ \A k \in 1..Len(b.events) : ~b.events[k].retracted
    /\ \A k \in DOMAIN b.retractions : GenesisCut(b.retractions[k], b.snapshot)

AllCoherent == \A s \in Sessions : Coherent(batch[s])

\* Retracting a list leaves the turns of its tail.
LEMMA RetractTail ==
    ASSUME NEW a \in Seq(Row), NEW b \in Seq(Row), NEW bs
    PROVE  LET w == Retract(a \o b, bs)
               tail == SubSeq(w, Len(a) + 1, Len(w))
           IN  \A k \in 1..Len(b) : tail[k].turn = b[k].turn
<1> DEFINE w == Retract(a \o b, bs)
           tail == SubSeq(w, Len(a) + 1, Len(w))
<1>1. /\ a \o b \in Seq(Row) /\ Len(a \o b) = Len(a) + Len(b)
      /\ \A i \in Len(a)+1..Len(a)+Len(b) : (a \o b)[i] = b[i - Len(a)]
      /\ Len(a) \in Nat /\ Len(b) \in Nat
  BY ConcatProperties
<1>2. w \in Seq(Row) /\ Len(w) = Len(a) + Len(b)
  BY <1>1, RetractRows
<1>3. SUFFICES ASSUME NEW k \in 1..Len(b) PROVE tail[k].turn = b[k].turn
  OBVIOUS
<1>4. tail[k] = w[Len(a) + k]
  <2> HIDE DEF w
  <2> QED
    BY <1>1, <1>2, <1>3, SubSeqProperties
<1>5. Len(a) + k \in 1..Len(a \o b) /\ (a \o b)[Len(a) + k] = b[k]
  BY <1>1, <1>3
<1>6. w[Len(a) + k].turn = (a \o b)[Len(a) + k].turn
  BY <1>1, <1>5, RetractRows
<1> QED
  BY <1>4, <1>5, <1>6

\* The empty batch is coherent.
LEMMA EmptyCoherent == Coherent(EmptyBatch)
BY DEF Coherent, EmptyBatch

\* Preparing keeps every batch coherent.
LEMMA PrepareCoherent ==
    ASSUME TypeOK, MarksInRange, AllCoherent, NEW s \in Sessions, Prepare(s)
    PROVE  AllCoherent'
<1>1. /\ rows \in Seq(Row) /\ batch \in [Sessions -> Batch] /\ batch[s] \in Batch
      /\ Coherent(batch[s])
  BY DEF TypeOK, AllCoherent
<1>2. /\ batch[s].snapshot \in Seq(Row) /\ batch[s].turn \in Nat
      /\ batch[s].events \in Seq(Row) /\ batch[s].retractions \in Seq(Boundary)
      /\ batch[s].mark \in Nat \cup {NoMark}
      /\ batch[s].mark # NoMark => batch[s].mark <= Len(batch[s].events)
  BY <1>1, BatchFields DEF MarksInRange
<1>3. \A o \in Sessions \ {s} : batch'[o] = batch[o]
  BY <1>1 DEF Prepare, OpenTurn, OpenGenesis, Open, Stage, RetractStaged, BeginHook, EndHook,
              FailHook, Discard, storeVars
<1>4. SUFFICES Coherent(batch'[s])
  BY <1>3 DEF AllCoherent, Coherent
<1>5. ASSUME NEW t \in Nat, Open(s, t), t = 0 \/ t = NextTurn(rows) PROVE Coherent(batch'[s])
  <2>1. batch'[s] = NewBatch(t)
    BY <1>1, <1>5 DEF Open
  <2> QED
    BY <1>5, <2>1 DEF NewBatch, Coherent
<1>6. CASE OpenTurn(s)
  BY <1>1, <1>5, <1>6, NextTurnType DEF OpenTurn
<1>7. CASE OpenGenesis(s)
  BY <1>5, <1>7 DEF OpenGenesis
<1>8. ASSUME NEW e \in Events, Stage(s, e) PROVE Coherent(batch'[s])
  <2> DEFINE r == [event |-> e, turn |-> batch[s].turn, retracted |-> FALSE]
             more == Append(batch[s].events, r)
  <2>1. r \in Row /\ r.turn = batch[s].turn /\ ~r.retracted
    BY <1>2 DEF Row
  <2> HIDE DEF r
  <2>2. /\ Len(more) = Len(batch[s].events) + 1 /\ Len(batch[s].events) \in Nat
        /\ \A k \in 1..Len(batch[s].events) : more[k] = batch[s].events[k]
        /\ more[Len(batch[s].events) + 1] = r
    BY <1>2, <2>1, AppendProperties
  <2>3. /\ batch'[s].events = more /\ batch'[s].turn = batch[s].turn
        /\ batch'[s].snapshot = batch[s].snapshot
        /\ batch'[s].retractions = batch[s].retractions
    <3>1. batch' = [batch EXCEPT ![s].events = more]
      BY <1>8 DEF Stage, r
    <3> HIDE DEF more
    <3> QED
      BY <1>1, <3>1 DEF Batch
  <2> HIDE DEF more
  <2>4. \A k \in 1..Len(more) : k \in 1..Len(batch[s].events) \/ k = Len(batch[s].events) + 1
    BY <2>2
  <2> QED
    BY <1>1, <2>1, <2>2, <2>3, <2>4 DEF Coherent
<1>9. ASSUME NEW bd \in Boundary, RetractStaged(s, bd), bd.kind = "seq" \/ bd.kind = "turn"
      PROVE  Coherent(batch'[s])
  <2> DEFINE b == batch[s]
             view == Retract(View(b), <<bd>>)
             n == Len(b.snapshot)
             cut == SubSeq(view, 1, n)
             rest == SubSeq(view, n + 1, Len(view))
             more == Append(b.retractions, bd)
  <2>1. /\ cut = Retract(b.snapshot, <<bd>>) /\ Len(rest) = Len(b.events)
        /\ \A k \in 1..Len(b.events) : rest[k].turn = b.events[k].turn
    BY <1>1, <1>2, StagedRetraction, RetractTail DEF View
  <2>2. /\ batch' = [batch EXCEPT ![s].snapshot = cut, ![s].events = rest,
                                 ![s].retractions = more]
        /\ b.turn = 0
        /\ bd.kind = "turn" \/ (/\ bd.value \in Seqs(View(b))
                                /\ View(b)[bd.value].turn = 0)
    BY <1>9 DEF RetractStaged
  <2>3. Len(cut) = Len(b.snapshot) /\ \A i \in 1..Len(b.snapshot) : cut[i].turn = b.snapshot[i].turn
    <3> HIDE DEF cut
    <3> QED
      BY <1>2, <2>1, RetractRows
  <2>4. bd.value \in 1..Len(b.snapshot) => View(b)[bd.value] = b.snapshot[bd.value]
    BY <1>2, ConcatRows DEF View
  <2>5. GenesisCut(bd, cut)
    BY <2>2, <2>3, <2>4 DEF GenesisCut
  <2>6. \A k \in DOMAIN b.retractions : GenesisCut(b.retractions[k], cut)
    BY <1>1, <2>3 DEF Coherent, GenesisCut
  <2>7. \A k \in DOMAIN more :
           more[k] = bd \/ (k \in DOMAIN b.retractions /\ more[k] = b.retractions[k])
    BY <1>2, AppendProperties
  <2> HIDE DEF cut, rest, more
  <2>8. /\ batch'[s].snapshot = cut /\ batch'[s].events = rest /\ batch'[s].retractions = more
        /\ batch'[s].turn = b.turn
    BY <1>1, <2>2 DEF Batch
  <2> QED
    BY <1>1, <2>1, <2>2, <2>5, <2>6, <2>7, <2>8 DEF Coherent
<1>10. ASSUME NEW v \in Nat
       PROVE  /\ SeqBoundary(v) \in Boundary /\ SeqBoundary(v).kind = "seq"
              /\ TurnBoundary(v) \in Boundary /\ TurnBoundary(v).kind = "turn"
  BY DEF SeqBoundary, TurnBoundary, Boundary
<1>11. CASE BeginHook(s) \/ EndHook(s)
  <2>1. /\ batch'[s].events = batch[s].events /\ batch'[s].turn = batch[s].turn
        /\ batch'[s].snapshot = batch[s].snapshot
        /\ batch'[s].retractions = batch[s].retractions
    BY <1>1, <1>11 DEF BeginHook, EndHook, Batch
  <2> QED
    BY <1>1, <2>1 DEF Coherent
<1>12. CASE FailHook(s)
  <2> DEFINE kept == SubSeq(batch[s].events, 1, batch[s].mark)
  <2>1. /\ batch' = [batch EXCEPT ![s].events = kept, ![s].mark = NoMark]
        /\ batch[s].mark \in Nat /\ batch[s].mark <= Len(batch[s].events)
    BY <1>2, <1>12 DEF FailHook
  <2>2. /\ Len(kept) = batch[s].mark
        /\ \A k \in 1..Len(kept) : k \in 1..Len(batch[s].events) /\ kept[k] = batch[s].events[k]
    BY <1>2, <2>1, SubSeqProperties
  <2> HIDE DEF kept
  <2>3. /\ batch'[s].events = kept /\ batch'[s].turn = batch[s].turn
        /\ batch'[s].snapshot = batch[s].snapshot
        /\ batch'[s].retractions = batch[s].retractions
    BY <1>1, <2>1 DEF Batch
  <2> QED
    BY <1>1, <2>2, <2>3 DEF Coherent
<1>13. CASE Discard(s)
  <2>1. batch'[s] = EmptyBatch
    BY <1>1, <1>13 DEF Discard
  <2> QED
    BY <2>1, EmptyCoherent
<1>14. ASSUME NEW v \in 0..(MaxRows + MaxStaged), RetractStaged(s, SeqBoundary(v))
       PROVE  Coherent(batch'[s])
  BY <1>9, <1>10, <1>14, ConstantsAssumption
<1>15. CASE RetractStaged(s, TurnBoundary(0))
  BY <1>9, <1>10, <1>15
<1> QED
  BY <1>6, <1>7, <1>8, <1>11, <1>12, <1>13, <1>14, <1>15 DEF Prepare

\* So does a write, which can only empty one.
LEMMA WriteCoherent ==
    ASSUME TypeOK, AllCoherent, NEW s \in Sessions, Write(s)
    PROVE  AllCoherent'
<1>1. batch \in [Sessions -> Batch]
  BY DEF TypeOK
<1>2. \A o \in Sessions : batch'[o] = batch[o] \/ batch'[o] = EmptyBatch
  BY <1>1, WriteEffect DEF Ended, Aside
<1> QED
  BY <1>2, EmptyCoherent DEF AllCoherent, Coherent, EmptyBatch

-----------------------------------------------------------------------------
(* Actions stay whole. *)

\* The rows of receipt r carry one turn and, when it is a played turn that no
\* retract_from_seq cuts through, are visible or hidden together.
Together(r, rs) ==
    \A i, j \in Stored(r) :
        /\ rs[i].turn = rs[j].turn
        /\ Undivided(r) /\ rs[i].turn > 0 => rs[i].retracted = rs[j].retracted

AllTogether == \A a \in DOMAIN receipts : Wrote(receipts[a]) => Together(receipts[a], rows)

\* Boundary bd does not fall between two rows of receipt r.
Spares(bd, r, rs) ==
    bd.kind = "seq" =>
        \A i, j \in Stored(r) :
            Undivided(r) /\ rs[i].turn > 0 => (bd.value <= i <=> bd.value <= j)

\* Two rows of one turn, on one side of every seq boundary, are hidden together.
LEMMA HitTogether ==
    ASSUME NEW rs \in Seq(Row), NEW bs, NEW i \in 1..Len(rs), NEW j \in 1..Len(rs),
           rs[i].turn = rs[j].turn, rs[i].retracted = rs[j].retracted,
           \A k \in DOMAIN bs : bs[k].kind = "seq" => (bs[k].value <= i <=> bs[k].value <= j)
    PROVE  Retract(rs, bs)[i].retracted = Retract(rs, bs)[j].retracted
<1>1. /\ Retract(rs, bs)[i].retracted =
            (rs[i].retracted \/ \E k \in DOMAIN bs : Hits(bs[k], rs[i], i))
      /\ Retract(rs, bs)[j].retracted =
            (rs[j].retracted \/ \E k \in DOMAIN bs : Hits(bs[k], rs[j], j))
  BY RetractRows
<1>2. ASSUME NEW k \in DOMAIN bs PROVE Hits(bs[k], rs[i], i) <=> Hits(bs[k], rs[j], j)
  <2>1. CASE bs[k].kind = "seq"
    BY <2>1 DEF Hits
  <2>2. CASE bs[k].kind # "seq"
    BY <2>2 DEF Hits
  <2> QED
    BY <2>1, <2>2
<1>3. (\E k \in DOMAIN bs : Hits(bs[k], rs[i], i)) <=> (\E k \in DOMAIN bs : Hits(bs[k], rs[j], j))
  BY <1>2
<1> QED
  BY <1>1, <1>3, Zenon

\* Boundaries that spare an action, and rows appended after it, keep it together.
LEMMA KeptTogether ==
    ASSUME NEW rs \in Seq(Row), NEW bs, NEW evs \in Seq(Row), NEW r,
           Stored(r) \subseteq 1..Len(rs), Together(r, rs),
           \A k \in DOMAIN bs : Spares(bs[k], r, rs)
    PROVE  Together(r, Retract(rs, bs)) /\ Together(r, Retract(rs, bs) \o evs)
<1> DEFINE kept == Retract(rs, bs)
<1>1. kept \in Seq(Row) /\ Len(kept) = Len(rs)
  BY RetractRows
<1>2. Together(r, kept)
  <2>1. SUFFICES ASSUME NEW i \in Stored(r), NEW j \in Stored(r)
                 PROVE  /\ kept[i].turn = kept[j].turn
                        /\ Undivided(r) /\ kept[i].turn > 0
                             => kept[i].retracted = kept[j].retracted
    BY DEF Together
  <2>2. i \in 1..Len(rs) /\ j \in 1..Len(rs)
    BY <2>1
  <2>3. kept[i].turn = rs[i].turn /\ kept[j].turn = rs[j].turn
    BY <2>2, RetractRows
  <2>4. /\ rs[i].turn = rs[j].turn
        /\ Undivided(r) /\ rs[i].turn > 0 => rs[i].retracted = rs[j].retracted
    BY <2>1 DEF Together
  <2>5. ASSUME Undivided(r), rs[i].turn > 0 PROVE kept[i].retracted = kept[j].retracted
    <3>1. \A k \in DOMAIN bs : bs[k].kind = "seq" => (bs[k].value <= i <=> bs[k].value <= j)
      BY <2>1, <2>5 DEF Spares
    <3> QED
      BY <2>2, <2>4, <2>5, <3>1, HitTogether
  <2> QED
    BY <2>3, <2>4, <2>5
<1> HIDE DEF kept
<1>3. \A i \in Stored(r) : (kept \o evs)[i] = kept[i]
  BY <1>1, ConcatRows
<1>4. Together(r, kept \o evs)
  <2> DEFINE all == kept \o evs
  <2> HIDE DEF all
  <2>1. \A i \in Stored(r) : all[i] = kept[i]
    BY <1>3 DEF all
  <2>2. Together(r, all)
    BY <1>2, <2>1 DEF Together
  <2> QED
    BY <2>2 DEF all
<1> QED
  BY <1>2, <1>4 DEF kept

\* A rewind outside a batch spares every action.
LEMMA RewindSpares ==
    ASSUME NEW bd, RewindBoundary(bd), NEW r, r.first \in Nat, r.last \in Nat, NEW rs
    PROVE  Spares(bd, r, rs)
<1>1. SUFFICES ASSUME bd.kind = "seq", NEW i \in Stored(r), NEW j \in Stored(r), Undivided(r)
               PROVE  bd.value <= i <=> bd.value <= j
  BY DEF Spares
<1>2. bd.value \in DirectSeqs /\ bd.value \in Nat
  BY <1>1, ConstantsAssumption DEF RewindBoundary
<1>3. ~(r.first < bd.value /\ bd.value <= r.last)
  BY <1>1, <1>2 DEF Undivided
<1> QED
  BY <1>1, <1>2, <1>3 DEF Stored

\* The boundaries that world generation stages spare every action of the log.
LEMMA GenesisSpares ==
    ASSUME TypeOK, SnapshotCurrent, AllCoherent, NEW s \in Sessions, open[s], IsCurrent(s),
           NEW r, r.first \in Nat, r.last \in Nat,
           Stored(r) \subseteq 1..Len(rows), Together(r, rows),
           NEW k \in DOMAIN batch[s].retractions
    PROVE  Spares(batch[s].retractions[k], r, rows)
<1> DEFINE bd == batch[s].retractions[k]
<1>1. rows \in Seq(Row) /\ batch[s].retractions \in Seq(Boundary)
  BY BatchFields DEF TypeOK
<1>2. bd \in Boundary
  BY <1>1
<1>3. bd.value \in Nat /\ bd.kind \in {"seq", "turn"}
  BY <1>2 DEF Boundary
<1>4. batch[s].snapshot = Retract(rows, batch[s].retractions)
  BY DEF SnapshotCurrent
<1>5. GenesisCut(bd, batch[s].snapshot)
  BY DEF AllCoherent, Coherent
<1>6. bd.kind = "turn" \/ (bd.value \in 1..Len(rows) => rows[bd.value].turn = 0)
  BY <1>1, <1>4, <1>5, RetractRows DEF GenesisCut
<1> HIDE DEF bd
<1>7. SUFFICES ASSUME bd.kind = "seq", NEW i \in Stored(r), NEW j \in Stored(r), rows[i].turn > 0
               PROVE  bd.value <= i <=> bd.value <= j
  BY DEF Spares, bd
<1>8. bd.value \in Stored(r) => rows[bd.value].turn = rows[i].turn
  BY DEF Together
<1>9. bd.value \notin Stored(r)
  BY <1>6, <1>7, <1>8
<1> QED
  BY <1>3, <1>7, <1>9 DEF Stored

\* The action a session publishes is together when it enters the log.
LEMMA PublishedTogether ==
    ASSUME TypeOK, AllCoherent, NEW s \in Sessions, NEW a \in ActionIds, PublishedAs(s, a),
           Wrote(receipts'[a])
    PROVE  Together(receipts'[a], rows')
<1> DEFINE evs == batch[s].events
           kept == Retract(rows, batch[s].retractions)
<1>1. batch[s] \in Batch /\ kept \in Seq(Row) /\ Len(kept) = Len(rows) /\ Coherent(batch[s])
  BY RetractRows DEF TypeOK, AllCoherent
<1>2. evs \in Seq(Row) /\ batch[s].turn \in Nat
  BY <1>1, BatchFields
<1>3. rows' = kept \o evs /\ Received(evs, a)
  BY DEF PublishedAs
<1> HIDE DEF evs, kept
<1>4. receipts'[a].first = Len(rows) + 1 /\ receipts'[a].last = Len(rows) + Len(evs)
  BY <1>3 DEF Received, Wrote
<1>5. Len(kept) \in Nat /\ Len(evs) \in Nat
  BY <1>1, <1>2
<1>6. \A i \in Stored(receipts'[a]) : i - Len(kept) \in 1..Len(evs) /\ rows'[i] = evs[i - Len(kept)]
  BY <1>1, <1>2, <1>3, <1>4, <1>5, ConcatRows DEF Stored
<1>7. \A k \in 1..Len(evs) : /\ evs[k].turn = batch[s].turn
                             /\ batch[s].turn > 0 => ~evs[k].retracted
                             /\ evs[k].retracted \in BOOLEAN
  BY <1>1, <1>2, RowsOfSeq, RowFields DEF Coherent, evs
<1> QED
  BY <1>6, <1>7 DEF Together

\* Every write keeps every action together.
LEMMA WriteTogether ==
    ASSUME TypeOK, SnapshotCurrent, AllCoherent, ReceiptsExact, AllTogether,
           NEW s \in Sessions, Write(s)
    PROVE  AllTogether'
<1>1. rows \in Seq(Row) /\ batch[s] \in Batch
  BY DEF TypeOK
<1>2. batch[s].events \in Seq(Row)
  BY <1>1, BatchFields
<1>3. ASSUME NEW x \in DOMAIN receipts, Wrote(receipts[x])
      PROVE  /\ receipts[x].first \in Nat /\ receipts[x].last \in Nat
             /\ Stored(receipts[x]) \subseteq 1..Len(rows)
             /\ Together(receipts[x], rows)
  BY <1>3, ReceiptsExactDef, ReceiptFields DEF NamesRows, AllTogether
<1>4. ASSUME NEW a \in ActionIds, PublishedAs(s, a) PROVE AllTogether'
  <2>1. ASSUME NEW x \in DOMAIN receipts, Wrote(receipts[x]) PROVE Together(receipts[x], rows')
    <3>1. \A k \in DOMAIN batch[s].retractions : Spares(batch[s].retractions[k], receipts[x], rows)
      BY <1>3, <1>4, <2>1, GenesisSpares DEF PublishedAs, Ended
    <3>2. rows' = Retract(rows, batch[s].retractions) \o batch[s].events
      BY <1>4 DEF PublishedAs
    <3> QED
      BY <1>1, <1>2, <1>3, <2>1, <3>1, <3>2, KeptTogether
  <2>2. Wrote(receipts'[a]) => Together(receipts'[a], rows')
    BY <1>4, PublishedTogether
  <2>3. /\ DOMAIN receipts' = DOMAIN receipts \cup {a}
        /\ \A x \in DOMAIN receipts : receipts'[x] = receipts[x]
    BY <1>4 DEF PublishedAs, Received
  <2>4. \A x \in DOMAIN receipts' : Wrote(receipts'[x]) => Together(receipts'[x], rows')
    BY <2>1, <2>2, <2>3
  <2> QED
    BY <2>4 DEF AllTogether, Together
<1>5. ASSUME NEW e \in Events, NEW t \in DirectTurns, Appended(s, OneEvent(e, t))
      PROVE  AllTogether'
  <2> DEFINE evs == OneEvent(e, t)
  <2>1. evs \in Seq(Row) /\ Len(evs) = 1 /\ evs # <<>>
    BY OneEventType
  <2>2. rows' = Retract(rows, <<>>) \o evs
    BY <1>1, <1>5, RetractNone DEF Appended
  <2>3. receipts' = receipts \/ \E a \in ActionIds : Received(evs, a)
    BY <1>5 DEF Appended
  <2> HIDE DEF evs
  <2>4. ASSUME NEW x \in DOMAIN receipts, Wrote(receipts[x]) PROVE Together(receipts[x], rows')
    BY <1>1, <1>3, <2>1, <2>2, <2>4, KeptTogether
  <2>5. ASSUME NEW a \in ActionIds, Received(evs, a) PROVE AllTogether'
    <3>1. receipts'[a].first = Len(rows) + 1 /\ receipts'[a].last = Len(rows) + 1
      BY <2>1, <2>5 DEF Received
    <3>2. \A i, j \in Stored(receipts'[a]) : i = j
      BY <1>1, <3>1 DEF Stored
    <3>3. Together(receipts'[a], rows')
      BY <3>2 DEF Together
    <3>4. /\ DOMAIN receipts' = DOMAIN receipts \cup {a}
          /\ \A x \in DOMAIN receipts : receipts'[x] = receipts[x]
      BY <2>5 DEF Received
    <3>5. \A x \in DOMAIN receipts' : Wrote(receipts'[x]) => Together(receipts'[x], rows')
      BY <2>4, <3>3, <3>4
    <3> QED
      BY <3>5 DEF AllTogether, Together
  <2>6. CASE receipts' = receipts
    BY <2>4, <2>6 DEF AllTogether, Together
  <2> QED
    BY <2>3, <2>5, <2>6
<1>6. ASSUME NEW bd, RewindBoundary(bd), Rewound(s, <<bd>>) PROVE AllTogether'
  <2>1. rows' = Retract(rows, <<bd>>) /\ receipts' = receipts
    BY <1>6 DEF Rewound
  <2>2. ASSUME NEW x \in DOMAIN receipts, Wrote(receipts[x]) PROVE Together(receipts[x], rows')
    <3>1. \A k \in DOMAIN <<bd>> : Spares(<<bd>>[k], receipts[x], rows)
      BY <1>3, <1>6, <2>2, RewindSpares
    <3>2. <<>> \in Seq(Row)
      OBVIOUS
    <3> DEFINE bs == <<bd>>
    <3> HIDE DEF bs
    <3>3. Together(receipts[x], Retract(rows, bs))
      BY <1>1, <1>3, <2>2, <3>1, <3>2, KeptTogether DEF bs
    <3> QED
      BY <2>1, <3>3 DEF bs
  <2> QED
    BY <2>1, <2>2 DEF AllTogether, Together
<1> QED
  BY <1>4, <1>5, <1>6, WriteKinds

\* The inductive invariant of actions: with the history that a revision names, the
\* shape of the batches and the rows of the receipts, actions stay together.
AInv == IInv /\ AllCoherent /\ ReceiptsExact /\ AllTogether

\* It holds in every reachable state.
LEMMA ActionInvariance == Spec => []AInv
<1>1. Init => AllCoherent /\ AllTogether
  <2>1. SUFFICES ASSUME Init PROVE AllCoherent /\ AllTogether
    OBVIOUS
  <2>2. \A s \in Sessions : batch[s] = EmptyBatch
    BY <2>1 DEF Init
  <2>3. AllCoherent
    BY <2>2, EmptyCoherent DEF AllCoherent
  <2>4. AllTogether
    BY <2>1 DEF Init, AllTogether
  <2> QED
    BY <2>3, <2>4
<1>2. IInv /\ ReceiptsExact /\ AllCoherent /\ AllTogether /\ [Next]_vars
        => (AllCoherent /\ AllTogether)'
  <2>1. SUFFICES ASSUME TypeOK, MarksInRange, SnapshotCurrent, ReceiptsExact, AllCoherent,
                        AllTogether, [Next]_vars
                 PROVE  AllCoherent' /\ AllTogether'
    BY DEF IInv
  <2>2. CASE \E s \in Sessions : Write(s)
    BY <2>1, <2>2, WriteCoherent, WriteTogether
  <2>3. ASSUME rows' = rows, receipts' = receipts PROVE AllTogether'
    BY <2>1, <2>3 DEF AllTogether, Together
  <2>4. CASE \E s \in Sessions : Prepare(s)
    BY <2>1, <2>3, <2>4, PrepareKeepsStore, PrepareCoherent
  <2>5. CASE UNCHANGED vars
    BY <2>1, <2>3, <2>5 DEF vars, AllCoherent, Coherent
  <2> QED
    BY <2>1, <2>2, <2>4, <2>5 DEF Next
<1> QED
  BY <1>1, <1>2, Invariance, ReceiptsNameTheirRows, PTL DEF Spec, AInv

\* An action is applied whole and undone whole: no rewind, reroll or crash leaves
\* part of a played turn in the story.  A rewind by turn cannot, because one
\* publication carries one turn; a reroll's cut cannot, because it falls on a row
\* of world generation in the very log it is applied to.
THEOREM ActionsStayWhole == Spec => []WholeActions
<1>1. AInv => WholeActions
  BY DEF AInv, AllTogether, Together, WholeActions
<1> QED
  BY <1>1, ActionInvariance, PTL

-----------------------------------------------------------------------------
(* The visible turns stay in order. *)

Played(rs) == {i \in Active(rs) : rs[i].turn > 0}

\* The visible played turns of rs never decrease and leave no gap.
TurnsInOrder(rs) ==
    /\ \A i, j \in Played(rs) : i < j => rs[i].turn <= rs[j].turn
    /\ \A i \in Played(rs) : rs[i].turn > 1 =>
          \E j \in Played(rs) : rs[j].turn = rs[i].turn - 1

\* No two actions share a visible played turn.
OneActionPerTurn ==
    \A i, j \in Played(rows) : rows[i].turn = rows[j].turn => SameAction(i, j)

\* The two are PlayTurnsOrdered.
LEMMA OrderedDef == PlayTurnsOrdered <=> TurnsInOrder(rows) /\ OneActionPerTurn
BY DEF PlayTurnsOrdered, TurnsInOrder, OneActionPerTurn, Played

\* The next turn is above every visible one, and the one before it was played.
LEMMA NextTurnAbove ==
    ASSUME NEW rs \in Seq(Row)
    PROVE  /\ \A i \in Active(rs) : rs[i].turn < NextTurn(rs)
           /\ NextTurn(rs) > 1 => \E i \in Played(rs) : rs[i].turn = NextTurn(rs) - 1
<1> DEFINE f == [i \in 1..Len(rs) |-> rs[i].turn]
           m == Max({0} \cup {f[i] : i \in Active(rs)})
<1>1. Len(rs) \in Nat /\ \A i \in 1..Len(rs) : rs[i].turn \in Nat
  BY RowsOfSeq, RowFields
<1>2. f \in [1..Len(rs) -> Nat] /\ Active(rs) \subseteq 1..Len(rs)
  BY <1>1 DEF Active, Seqs
<1>3. /\ {rs[i].turn : i \in Active(rs)} = {f[i] : i \in Active(rs)}
      /\ \A i \in Active(rs) : f[i] = rs[i].turn
  BY <1>2
<1> HIDE DEF f
<1>4. m \in Nat /\ (m = 0 \/ \E i \in Active(rs) : f[i] = m) /\ \A i \in Active(rs) : f[i] <= m
  BY <1>1, <1>2, LargestNumber
<1>5. NextTurn(rs) = 1 + m
  BY <1>3 DEF NextTurn
<1> HIDE DEF m
<1>6. \A i \in Active(rs) : rs[i].turn < NextTurn(rs)
  BY <1>1, <1>2, <1>3, <1>4, <1>5
<1>7. ASSUME NextTurn(rs) > 1 PROVE \E i \in Played(rs) : rs[i].turn = NextTurn(rs) - 1
  <2>1. m > 0 /\ m = NextTurn(rs) - 1
    BY <1>4, <1>5, <1>7
  <2>2. PICK i \in Active(rs) : f[i] = m
    BY <1>4, <2>1
  <2>3. rs[i].turn = m
    BY <1>3, <2>2
  <2> QED
    BY <2>1, <2>2, <2>3 DEF Played
<1> QED
  BY <1>6, <1>7

\* A boundary that hides a row hides every later row of the same or a later turn.
LEMMA HitsSuffix ==
    ASSUME NEW b \in Boundary, NEW q \in Row, NEW r \in Row, NEW i \in Nat, NEW j \in Nat,
           j <= i, q.turn <= r.turn, Hits(b, q, j)
    PROVE  Hits(b, r, i)
<1>1. b.value \in Nat /\ q.turn \in Nat /\ r.turn \in Nat
  BY RowFields DEF Boundary
<1> QED
  BY <1>1 DEF Hits

\* Hiding rows keeps the order of the visible ones: it takes a suffix of them.
LEMMA RetractInOrder ==
    ASSUME NEW rs \in Seq(Row), NEW bs \in Seq(Boundary), TurnsInOrder(rs)
    PROVE  /\ TurnsInOrder(Retract(rs, bs))
           /\ Played(Retract(rs, bs)) \subseteq Played(rs)
<1> DEFINE kept == Retract(rs, bs)
           hit(i) == \E k \in DOMAIN bs : Hits(bs[k], rs[i], i)
<1>1. kept \in Seq(Row) /\ Len(kept) = Len(rs) /\ Len(rs) \in Nat
  BY RetractRows
<1>2. \A i \in 1..Len(rs) :
         kept[i].turn = rs[i].turn /\ kept[i].retracted = (rs[i].retracted \/ hit(i))
  BY RetractRows
<1>3. \A i \in 1..Len(rs) : rs[i] \in Row /\ rs[i].turn \in Nat
  BY RowsOfSeq, RowFields
<1>4. ASSUME NEW i \in 1..Len(rs), NEW j \in 1..Len(rs), j <= i, rs[j].turn <= rs[i].turn, hit(j)
      PROVE  hit(i)
  <2>1. PICK k \in DOMAIN bs : Hits(bs[k], rs[j], j)
    BY <1>4
  <2>2. bs[k] \in Boundary
    OBVIOUS
  <2>3. Hits(bs[k], rs[i], i)
    BY <1>3, <1>4, <2>1, <2>2, HitsSuffix
  <2> QED
    BY <2>3
<1> HIDE DEF kept, hit
<1>5. Played(kept) = {i \in Played(rs) : ~hit(i)} /\ Played(rs) \subseteq 1..Len(rs)
  BY <1>1, <1>2 DEF Played, Active, Seqs
<1>6. \A i, j \in Played(kept) : i < j => kept[i].turn <= kept[j].turn
  BY <1>2, <1>5 DEF TurnsInOrder
<1>7. ASSUME NEW i \in Played(kept), kept[i].turn > 1
      PROVE  \E j \in Played(kept) : kept[j].turn = kept[i].turn - 1
  <2>1. i \in Played(rs) /\ i \in 1..Len(rs) /\ rs[i].turn > 1
    BY <1>2, <1>5, <1>7
  <2>2. PICK j \in Played(rs) : rs[j].turn = rs[i].turn - 1
    BY <2>1 DEF TurnsInOrder
  <2>3. j \in 1..Len(rs) /\ rs[j].turn <= rs[i].turn
    BY <1>3, <1>5, <2>1, <2>2
  <2>4. j <= i
    <3>1. i < j => rs[i].turn <= rs[j].turn
      BY <2>1, <2>2 DEF TurnsInOrder
    <3> QED
      BY <1>1, <1>3, <2>1, <2>2, <2>3, <3>1
  <2>5. j \in Played(kept)
    BY <1>4, <1>5, <1>7, <2>1, <2>2, <2>3, <2>4
  <2> QED
    BY <1>2, <2>1, <2>2, <2>3, <2>5
<1> QED
  BY <1>5, <1>6, <1>7 DEF TurnsInOrder, kept

\* The visible played rows of all: those of rs, and rows after them of turn t > 0.
AddsTurn(all, rs, t) ==
    /\ \A i \in Played(rs) : i \in Played(all) /\ all[i] = rs[i]
    /\ \A i \in Played(all) : \/ i \in Played(rs) /\ all[i] = rs[i]
                              \/ t > 0 /\ i > Len(rs) /\ i <= Len(all) /\ all[i].turn = t

\* Appending rows of one turn adds no other.
LEMMA AppendPlayed ==
    ASSUME NEW rs \in Seq(Row), NEW evs \in Seq(Row), NEW t \in Nat,
           \A k \in 1..Len(evs) : evs[k].turn = t
    PROVE  AddsTurn(rs \o evs, rs, t)
<1> DEFINE all == rs \o evs
<1>1. /\ all \in Seq(Row) /\ Len(all) = Len(rs) + Len(evs) /\ Len(rs) \in Nat /\ Len(evs) \in Nat
      /\ \A i \in 1..Len(rs) : all[i] = rs[i]
      /\ \A i \in Len(rs)+1..Len(rs)+Len(evs) : all[i] = evs[i - Len(rs)]
  BY ConcatRows
<1> HIDE DEF all
<1>2. \A i \in Played(rs) : i \in Played(all) /\ all[i] = rs[i]
  BY <1>1 DEF Played, Active, Seqs
<1>3. ASSUME NEW i \in Played(all)
      PROVE  \/ i \in Played(rs) /\ all[i] = rs[i]
             \/ t > 0 /\ i > Len(rs) /\ i <= Len(all) /\ all[i].turn = t
  <2>1. i \in 1..Len(all) /\ ~all[i].retracted /\ all[i].turn > 0
    BY DEF Played, Active, Seqs
  <2>2. CASE i <= Len(rs)
    BY <1>1, <2>1, <2>2 DEF Played, Active, Seqs
  <2>3. CASE i > Len(rs)
    <3>1. i - Len(rs) \in 1..Len(evs) /\ i \in Len(rs)+1..Len(rs)+Len(evs)
      BY <1>1, <2>1, <2>3
    <3> QED
      BY <1>1, <2>1, <2>3, <3>1
  <2> QED
    BY <1>1, <2>1, <2>2, <2>3
<1> QED
  BY <1>2, <1>3 DEF AddsTurn, all

\* An action that takes the next turn, or turn 0, keeps the order.
LEMMA AppendInOrder ==
    ASSUME NEW rs \in Seq(Row), NEW evs \in Seq(Row), NEW t \in {0, NextTurn(rs)},
           \A k \in 1..Len(evs) : evs[k].turn = t, TurnsInOrder(rs)
    PROVE  TurnsInOrder(rs \o evs)
<1> DEFINE all == rs \o evs
           New(i) == t > 0 /\ i > Len(rs) /\ all[i].turn = t
<1>1. t \in Nat /\ Len(rs) \in Nat /\ NextTurn(rs) \in Nat \ {0}
  BY NextTurnType
<1>2. /\ \A i \in Played(rs) : i \in Played(all) /\ all[i] = rs[i]
      /\ \A i \in Played(all) : (i \in Played(rs) /\ all[i] = rs[i]) \/ New(i)
  <2>1. AddsTurn(all, rs, t)
    BY <1>1, AppendPlayed
  <2> HIDE DEF all
  <2> QED
    BY <2>1 DEF AddsTurn
<1> HIDE DEF all
<1>3. \A i \in Played(rs) : /\ i \in 1..Len(rs) /\ rs[i].turn < NextTurn(rs)
                            /\ rs[i].turn \in Nat
  BY NextTurnAbove, RowsOfSeq, RowFields DEF Played, Active, Seqs
<1>4. ASSUME NEW i \in Played(all), NEW j \in Played(all), i < j PROVE all[i].turn <= all[j].turn
  <2>1. CASE i \in Played(rs) /\ j \in Played(rs)
    BY <1>2, <1>4, <2>1 DEF TurnsInOrder
  <2>2. CASE i \in Played(rs) /\ New(j)
    <3>1. all[i] = rs[i] /\ rs[i].turn < NextTurn(rs) /\ t = NextTurn(rs)
      BY <1>1, <1>2, <1>3, <2>2
    <3> QED
      BY <1>1, <1>3, <2>2, <3>1
  <2>3. CASE New(i) /\ New(j)
    BY <1>1, <2>3
  <2>4. CASE New(i) /\ j \in Played(rs)
    BY <1>1, <1>3, <1>4, <2>4 DEF Played, Active, Seqs
  <2> QED
    BY <1>2, <2>1, <2>2, <2>3, <2>4
<1>5. ASSUME NEW i \in Played(all), all[i].turn > 1
      PROVE  \E j \in Played(all) : all[j].turn = all[i].turn - 1
  <2>1. CASE i \in Played(rs) /\ all[i] = rs[i]
    <3>1. PICK j \in Played(rs) : rs[j].turn = rs[i].turn - 1
      BY <1>5, <2>1 DEF TurnsInOrder
    <3> QED
      BY <1>2, <2>1, <3>1
  <2>2. CASE New(i)
    <3>1. all[i].turn = NextTurn(rs) /\ NextTurn(rs) > 1
      BY <1>1, <1>5, <2>2
    <3>2. PICK j \in Played(rs) : rs[j].turn = NextTurn(rs) - 1
      BY <3>1, NextTurnAbove
    <3> QED
      BY <1>2, <3>1, <3>2
  <2> QED
    BY <1>2, <2>1, <2>2
<1> QED
  BY <1>4, <1>5 DEF TurnsInOrder, all

\* Rows of one action stay rows of one action.
LEMMA SameActionKept ==
    ASSUME DOMAIN receipts \subseteq DOMAIN receipts',
           \A x \in DOMAIN receipts : receipts'[x] = receipts[x],
           NEW i, NEW j, SameAction(i, j)
    PROVE  SameAction(i, j)'
BY DEF SameAction, Stored

\* No write breaks the rows of an action apart.
LEMMA WriteKeepsReceipts ==
    ASSUME TypeOK, NEW s \in Sessions, Write(s)
    PROVE  /\ DOMAIN receipts \subseteq DOMAIN receipts'
           /\ \A x \in DOMAIN receipts : receipts'[x] = receipts[x]
BY WriteKinds DEF PublishedAs, Appended, Rewound, Received

\* Events of turn 0 and hidden rows change nothing for the visible played turns.
LEMMA KeptInOrder ==
    ASSUME TypeOK, PlayTurnsOrdered, NEW s \in Sessions, Write(s),
           NEW bs \in Seq(Boundary), NEW evs \in Seq(Row),
           \A k \in 1..Len(evs) : evs[k].turn = 0, rows' = Retract(rows, bs) \o evs
    PROVE  PlayTurnsOrdered'
<1> DEFINE kept == Retract(rows, bs)
<1>1. rows \in Seq(Row) /\ TurnsInOrder(rows) /\ OneActionPerTurn
  BY OrderedDef DEF TypeOK
<1>2. /\ kept \in Seq(Row) /\ Len(kept) = Len(rows)
      /\ TurnsInOrder(kept) /\ Played(kept) \subseteq Played(rows)
  BY <1>1, RetractRows, RetractInOrder
<1>3. \A i \in 1..Len(rows) : kept[i].turn = rows[i].turn
  BY <1>1, RetractRows
<1> HIDE DEF kept
<1>4. TurnsInOrder(rows')
  BY <1>2, AppendInOrder DEF kept
<1>5. AddsTurn(rows', kept, 0)
  BY <1>2, AppendPlayed DEF kept
<1>6. \A i \in Played(rows') : i \in Played(rows) /\ rows'[i].turn = rows[i].turn
  <2>1. SUFFICES ASSUME NEW i \in Played(rows')
                 PROVE  i \in Played(rows) /\ rows'[i].turn = rows[i].turn
    OBVIOUS
  <2>2. i \in Played(kept) /\ rows'[i] = kept[i]
    <3>1. ~(0 > 0)
      OBVIOUS
    <3> QED
      BY <1>5, <2>1, <3>1, Zenon DEF AddsTurn
  <2>3. i \in 1..Len(rows)
    BY <1>2, <2>2 DEF Played, Active, Seqs
  <2> QED
    BY <1>2, <1>3, <2>2, <2>3
<1>7. \A i, j \in Played(rows') : rows'[i].turn = rows'[j].turn => SameAction(i, j)
  BY <1>1, <1>6 DEF OneActionPerTurn
<1>8. OneActionPerTurn'
  <2>1. SUFFICES ASSUME NEW i \in Played(rows'), NEW j \in Played(rows'),
                        rows'[i].turn = rows'[j].turn
                 PROVE  SameAction(i, j)'
    BY DEF OneActionPerTurn, Played, Active, Seqs
  <2> QED
    BY <1>7, <2>1, WriteKeepsReceipts, SameActionKept
<1> QED
  BY <1>4, <1>8 DEF PlayTurnsOrdered, TurnsInOrder, OneActionPerTurn, Played

\* A published turn is the next one, in the very log it was computed from.
LEMMA PublishedTurn ==
    ASSUME TypeOK, SnapshotCurrent, AllCoherent, NEW s \in Sessions, open[s], IsCurrent(s),
           batch[s].turn > 0
    PROVE  batch[s].turn = NextTurn(rows) /\ Retract(rows, batch[s].retractions) = rows
<1>1. rows \in Seq(Row)
  BY DEF TypeOK
<1>2. batch[s].retractions = <<>> /\ batch[s].turn = NextTurn(batch[s].snapshot)
  BY DEF AllCoherent, Coherent
<1>3. batch[s].snapshot = Retract(rows, batch[s].retractions)
  BY DEF SnapshotCurrent
<1> QED
  BY <1>1, <1>2, <1>3, RetractNone

\* Its rows are one action above all the visible ones.
LEMMA NextTurnInOrder ==
    ASSUME TypeOK, PlayTurnsOrdered, NEW s \in Sessions, Write(s), NEW a \in ActionIds,
           NEW evs \in Seq(Row), Received(evs, a), rows' = rows \o evs,
           \A k \in 1..Len(evs) : evs[k].turn = NextTurn(rows)
    PROVE  PlayTurnsOrdered'
<1>1. /\ rows \in Seq(Row) /\ TurnsInOrder(rows) /\ OneActionPerTurn
      /\ NextTurn(rows) \in Nat \ {0} /\ Len(rows) \in Nat /\ Len(evs) \in Nat
  BY OrderedDef, NextTurnType DEF TypeOK
<1>2. TurnsInOrder(rows')
  BY <1>1, AppendInOrder
<1>3. AddsTurn(rows', rows, NextTurn(rows)) /\ Len(rows') = Len(rows) + Len(evs)
  BY <1>1, AppendPlayed, ConcatRows
<1>4. \A i \in Played(rows) : i \in 1..Len(rows) /\ rows[i].turn < NextTurn(rows)
                              /\ rows[i].turn \in Nat
  BY <1>1, NextTurnAbove, RowsOfSeq, RowFields DEF Played, Active, Seqs
<1>5. \A i \in Played(rows') : i \in Nat
  BY DEF Played, Active, Seqs
<1> DEFINE Old(i) == i \in Played(rows) /\ rows'[i] = rows[i]
           New(i) == i > Len(rows) /\ i <= Len(rows) + Len(evs) /\ rows'[i].turn = NextTurn(rows)
<1>6. \A i \in Played(rows') : Old(i) \/ New(i)
  BY <1>3 DEF AddsTurn
<1>7. SUFFICES ASSUME NEW i \in Played(rows'), NEW j \in Played(rows'),
                      rows'[i].turn = rows'[j].turn
               PROVE  SameAction(i, j)'
  <2>1. ASSUME \A i, j \in Played(rows') : rows'[i].turn = rows'[j].turn => SameAction(i, j)'
        PROVE  OneActionPerTurn'
    BY <2>1 DEF OneActionPerTurn, Played, Active, Seqs
  <2>2. TurnsInOrder(rows') /\ OneActionPerTurn' => PlayTurnsOrdered'
    BY DEF PlayTurnsOrdered, TurnsInOrder, OneActionPerTurn, Played
  <2> QED
    BY <1>2, <1>7, <2>1, <2>2
<1>8. CASE Old(i) /\ Old(j)
  <2>1. SameAction(i, j)
    BY <1>1, <1>7, <1>8 DEF OneActionPerTurn
  <2> QED
    BY <2>1, WriteKeepsReceipts, SameActionKept
<1>9. CASE New(i) /\ New(j)
  <2>1. evs # <<>>
    BY <1>1, <1>5, <1>9
  <2>2. /\ a \in DOMAIN receipts'
        /\ Stored(receipts'[a]) = Len(rows) + 1 .. Len(rows) + Len(evs)
    BY <2>1 DEF Received, Stored
  <2>3. {i, j} \subseteq Stored(receipts'[a])
    BY <1>1, <1>5, <1>9, <2>2
  <2> QED
    BY <2>2, <2>3 DEF SameAction, Stored
<1>10. CASE Old(i) /\ New(j)
  BY <1>1, <1>4, <1>7, <1>10
<1>11. CASE New(i) /\ Old(j)
  <2>1. rows'[j].turn = rows[j].turn /\ rows[j].turn < NextTurn(rows) /\ rows[j].turn \in Nat
    BY <1>4, <1>11
  <2>2. rows'[i].turn = NextTurn(rows) /\ NextTurn(rows) \in Nat
    BY <1>1, <1>11
  <2>3. NextTurn(rows) = rows[j].turn
    BY <1>7, <2>1, <2>2
  <2> QED
    BY <2>1, <2>2, <2>3
<1> QED
  BY <1>6, <1>8, <1>9, <1>10, <1>11

\* Every write keeps the visible turns in order, when the appends outside a batch
\* carry no played turn.
LEMMA WriteInOrder ==
    ASSUME DirectTurns \subseteq {0}, TypeOK, SnapshotCurrent, AllCoherent, PlayTurnsOrdered,
           NEW s \in Sessions, Write(s)
    PROVE  PlayTurnsOrdered'
<1>1. rows \in Seq(Row) /\ batch[s] \in Batch /\ Coherent(batch[s])
  BY DEF TypeOK, AllCoherent
<1>2. /\ batch[s].events \in Seq(Row) /\ batch[s].retractions \in Seq(Boundary)
      /\ batch[s].turn \in Nat
      /\ \A k \in 1..Len(batch[s].events) : batch[s].events[k].turn = batch[s].turn
  BY <1>1, BatchFields DEF Coherent
<1>3. ASSUME NEW a \in ActionIds, PublishedAs(s, a) PROVE PlayTurnsOrdered'
  <2>1. /\ rows' = Retract(rows, batch[s].retractions) \o batch[s].events
        /\ Received(batch[s].events, a) /\ open[s] /\ IsCurrent(s)
    BY <1>3 DEF PublishedAs, Ended
  <2>2. CASE batch[s].turn = 0
    BY <1>2, <2>1, <2>2, KeptInOrder
  <2>3. CASE batch[s].turn > 0
    <3>1. batch[s].turn = NextTurn(rows) /\ Retract(rows, batch[s].retractions) = rows
      BY <2>1, <2>3, PublishedTurn
    <3> QED
      BY <1>2, <2>1, <3>1, NextTurnInOrder
  <2> QED
    BY <1>2, <2>2, <2>3
<1>4. ASSUME NEW e \in Events, NEW t \in DirectTurns, Appended(s, OneEvent(e, t))
      PROVE  PlayTurnsOrdered'
  <2> DEFINE evs == OneEvent(e, t)
             none == <<>>
  <2>1. evs \in Seq(Row) /\ \A k \in 1..Len(evs) : evs[k].turn = 0
    BY OneEventType
  <2>2. rows' = Retract(rows, none) \o evs /\ none \in Seq(Boundary)
    <3>1. Retract(rows, none) = rows
      BY <1>1, RetractNone
    <3>2. rows' = rows \o evs
      BY <1>4 DEF Appended
    <3> QED
      BY <3>1, <3>2
  <2> HIDE DEF evs, none
  <2> QED
    BY <2>1, <2>2, KeptInOrder
<1>5. ASSUME NEW bd, RewindBoundary(bd), Rewound(s, <<bd>>) PROVE PlayTurnsOrdered'
  <2> DEFINE bs == <<bd>>
             none == <<>>
  <2>1. bs \in Seq(Boundary) /\ none \in Seq(Row) /\ \A k \in 1..Len(none) : none[k].turn = 0
    BY <1>5 DEF RewindBoundary
  <2>2. rows' = Retract(rows, bs)
    BY <1>5 DEF Rewound
  <2>3. Retract(rows, bs) \o none = Retract(rows, bs)
    BY <1>1, RetractRows, ConcatEmptySeq
  <2> HIDE DEF bs, none
  <2> QED
    BY <2>1, <2>2, <2>3, KeptInOrder
<1> QED
  BY <1>3, <1>4, <1>5, WriteKinds

\* The visible played turns are 1..n in storage order, one action each, whatever
\* is rewound or rerolled and although the turn is computed long before the
\* transaction, as long as the appends outside a batch carry no played turn: the
\* play loop writes its turns only through run_turn's batch.
THEOREM TurnsStayInOrder ==
    ASSUME DirectTurns \subseteq {0}
    PROVE  Spec => []PlayTurnsOrdered
<1>1. Init => PlayTurnsOrdered
  BY DEF Init, PlayTurnsOrdered, Active, Seqs
<1>2. AInv /\ PlayTurnsOrdered /\ [Next]_vars => PlayTurnsOrdered'
  <2>1. SUFFICES ASSUME TypeOK, SnapshotCurrent, AllCoherent, PlayTurnsOrdered, [Next]_vars
                 PROVE  PlayTurnsOrdered'
    BY DEF AInv, IInv
  <2>2. CASE \E s \in Sessions : Write(s)
    BY <2>1, <2>2, WriteInOrder
  <2>3. ASSUME rows' = rows, receipts' = receipts PROVE PlayTurnsOrdered'
    BY <2>1, <2>3 DEF PlayTurnsOrdered, Active, Seqs, SameAction, Stored
  <2>4. CASE \E s \in Sessions : Prepare(s)
    BY <2>3, <2>4, PrepareKeepsStore
  <2>5. CASE UNCHANGED vars
    BY <2>3, <2>5 DEF vars
  <2> QED
    BY <2>1, <2>2, <2>4, <2>5 DEF Next
<1> QED
  BY <1>1, <1>2, ActionInvariance, PTL DEF Spec
===============================================================================
