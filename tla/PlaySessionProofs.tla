-------------------------- MODULE PlaySessionProofs --------------------------
(***************************************************************************)
(* Proofs about PlaySession, for every number of processes, every length   *)
(* of the conversation and every value of the bound.                       *)
(***************************************************************************)
EXTENDS PlaySession, DataLemmas, SequenceTheorems

-----------------------------------------------------------------------------
(* Types. *)

LogRow == [event : {"genesis", "turn"}, turn : Nat, retracted : BOOLEAN]
Label0 == Nat \cup {NoRevision}
Places == {"project", "label", "settle", "prompt", "retract", "undo", "undo_retract",
           "produce", "publish"}
Conversation == [live : BOOLEAN, thread : Seq(Nat), pending : BOOLEAN, due : BOOLEAN,
                 committed : Label0]
World == [folded : SUBSET Nat, revision : Label0]
Draft == [revision : Label0, snapshot : Seq(LogRow)]

\* Every variable keeps its type.
TypeOK ==
    /\ log \in Seq(LogRow)
    /\ revision \in Nat
    /\ pc \in [Sessions -> Places]
    /\ world \in [Sessions -> World]
    /\ strategy \in [Sessions -> Conversation]
    /\ batch \in [Sessions -> Draft]
    /\ saved \in [Sessions -> Conversation]
    /\ compare \in [Sessions -> BOOLEAN]
    /\ before \in [Sessions -> Label0]
    /\ target \in [Sessions -> Nat]

\* The fields of a row, and a row with more hidden.
LEMMA RowFields ==
    ASSUME NEW r \in LogRow, NEW h \in BOOLEAN
    PROVE  /\ r.turn \in Nat /\ r.retracted \in BOOLEAN
           /\ [r EXCEPT !.retracted = @ \/ h] \in LogRow
           /\ [r EXCEPT !.retracted = @ \/ h].turn = r.turn
           /\ [r EXCEPT !.retracted = @ \/ h].retracted = (r.retracted \/ h)
BY DEF LogRow

\* The rows of a log.
LEMMA RowsOfLog ==
    ASSUME NEW l \in Seq(LogRow)
    PROVE  /\ Len(l) \in Nat /\ DOMAIN l = 1..Len(l)
           /\ \A i \in 1..Len(l) : l[i] \in LogRow /\ l[i].turn \in Nat
           /\ Active(l) \subseteq 1..Len(l) /\ Played(l) \subseteq Active(l)
<1>1. Len(l) \in Nat /\ DOMAIN l = 1..Len(l) /\ \A i \in 1..Len(l) : l[i] \in LogRow
  OBVIOUS
<1> QED
  BY <1>1, RowFields DEF Active, Played, Seqs

\* The last turn is the largest visible one.
LEMMA LastTurnIsLargest ==
    ASSUME NEW l \in Seq(LogRow)
    PROVE  /\ LastTurn(l) \in Nat
           /\ LastTurn(l) = 0 \/ \E i \in Played(l) : l[i].turn = LastTurn(l)
           /\ \A i \in Active(l) : l[i].turn <= LastTurn(l)
<1> DEFINE f == [i \in 1..Len(l) |-> l[i].turn]
           m == Max({0} \cup {f[i] : i \in Active(l)})
<1>1. Len(l) \in Nat /\ f \in [1..Len(l) -> Nat] /\ Active(l) \subseteq 1..Len(l)
  BY RowsOfLog
<1>2. /\ {l[i].turn : i \in Active(l)} = {f[i] : i \in Active(l)}
      /\ \A i \in Active(l) : f[i] = l[i].turn
  BY <1>1
<1> HIDE DEF f
<1>3. m \in Nat /\ (m = 0 \/ \E i \in Active(l) : f[i] = m) /\ \A i \in Active(l) : f[i] <= m
  BY <1>1, LargestNumber
<1>4. LastTurn(l) = m
  BY <1>2 DEF LastTurn
<1> HIDE DEF m
<1>5. LastTurn(l) = 0 \/ \E i \in Played(l) : l[i].turn = LastTurn(l)
  <2>1. CASE m = 0
    BY <1>4, <2>1
  <2>2. CASE m # 0
    <3>1. PICK i \in Active(l) : f[i] = m
      BY <1>3, <2>2
    <3>2. l[i].turn = m /\ l[i].turn > 0
      BY <1>2, <1>3, <2>2, <3>1
    <3> QED
      BY <1>4, <3>1, <3>2 DEF Played
  <2> QED
    BY <2>1, <2>2
<1> QED
  BY <1>2, <1>3, <1>4, <1>5

\* What a rewind leaves of the log.
LEMMA CutRows ==
    ASSUME NEW l \in Seq(LogRow), NEW t \in Nat
    PROVE  /\ Cut(l, t) \in Seq(LogRow)
           /\ \A i \in 1..Len(l) : Cut(l, t)[i].turn = l[i].turn
           /\ Active(Cut(l, t)) = {i \in Active(l) : l[i].turn < t}
           /\ Played(Cut(l, t)) = {i \in Played(l) : l[i].turn < t}
<1> DEFINE kept == Cut(l, t)
<1>1. kept = [i \in 1..Len(l) |-> [l[i] EXCEPT !.retracted = @ \/ l[i].turn >= t]]
  BY DEF Cut, Seqs
<1>2. Len(l) \in Nat /\ \A i \in 1..Len(l) : l[i] \in LogRow /\ l[i].turn \in Nat
                                             /\ l[i].retracted \in BOOLEAN
  BY RowsOfLog, RowFields
<1>3. \A i \in 1..Len(l) : /\ kept[i] \in LogRow /\ kept[i].turn = l[i].turn
                           /\ kept[i].retracted = (l[i].retracted \/ l[i].turn >= t)
  <2>1. SUFFICES ASSUME NEW i \in 1..Len(l)
                 PROVE  /\ kept[i] \in LogRow /\ kept[i].turn = l[i].turn
                        /\ kept[i].retracted = (l[i].retracted \/ l[i].turn >= t)
    OBVIOUS
  <2> DEFINE h == l[i].turn >= t
  <2>2. kept[i] = [l[i] EXCEPT !.retracted = @ \/ h] /\ h \in BOOLEAN
    BY <1>1
  <2> HIDE DEF h, kept
  <2>3. /\ kept[i] \in LogRow /\ kept[i].turn = l[i].turn
        /\ kept[i].retracted = (l[i].retracted \/ h)
    BY <1>2, <2>2, RowFields
  <2> QED
    BY <2>3 DEF h
<1>4. kept \in [1..Len(l) -> LogRow]
  BY <1>1, <1>3
<1> HIDE DEF kept
<1>5. kept \in Seq(LogRow) /\ Len(kept) = Len(l)
  BY <1>2, <1>4
<1>6. Active(kept) = {i \in Active(l) : l[i].turn < t}
  <2>1. \A i \in 1..Len(l) : ~(l[i].turn >= t) <=> l[i].turn < t
    BY <1>2
  <2>2. \A i \in 1..Len(l) : ~kept[i].retracted <=> ~l[i].retracted /\ l[i].turn < t
    BY <1>3, <2>1, Zenon
  <2> QED
    BY <1>5, <2>2 DEF Active, Seqs
<1>7. Played(kept) = {i \in Played(l) : l[i].turn < t}
  BY <1>2, <1>3, <1>6, RowsOfLog DEF Played
<1> QED
  BY <1>3, <1>5, <1>6, <1>7 DEF kept

-----------------------------------------------------------------------------
(* One session's step. *)

\* The state another process keeps is untouched.
Untouched(o) ==
    /\ pc'[o] = pc[o] /\ world'[o] = world[o] /\ strategy'[o] = strategy[o]
    /\ batch'[o] = batch[o] /\ saved'[o] = saved[o] /\ compare'[o] = compare[o]
    /\ before'[o] = before[o] /\ target'[o] = target[o]

\* The conversations and batches that steps build are of their types.
LEMMA NewTypes ==
    /\ NewStrategy \in Conversation /\ NoBatch \in Draft /\ NoRevision \in Label0
    /\ NewStrategy.thread = <<>> /\ NewStrategy.committed = NoRevision
    /\ \A st \in Conversation : /\ Reset(st) \in Conversation
                                /\ Reset(st).thread = <<>>
                                /\ Reset(st).committed = st.committed
<1>1. <<>> \in Seq(Nat) /\ <<>> \in Seq(LogRow) /\ NoRevision \in Label0
  BY DEF Label0
<1> QED
  BY <1>1 DEF NewStrategy, NoBatch, Reset, Conversation, Draft

\* Loading a world keeps the types.
LEMMA LoadType ==
    ASSUME TypeOK, NEW s \in Sessions, Load(s)
    PROVE  TypeOK' /\ \A o \in Sessions \ {s} : Untouched(o)
<1>1. CASE Project(s)
  <2>1. Active(log) \in SUBSET Nat
    BY RowsOfLog DEF TypeOK
  <2> QED
    BY <1>1, <2>1 DEF TypeOK, Project, Goto, storeVars, Untouched, World, Places
<1>2. CASE Label(s)
  BY <1>2 DEF TypeOK, Label, Goto, storeVars, Untouched, World, Places, Label0
<1>3. CASE Settle(s)
  BY <1>3, NewTypes DEF TypeOK, Settle, Goto, storeVars, Untouched, Places, Label0
<1> QED
  BY <1>1, <1>2, <1>3 DEF Load

\* So do commands and the death of the process.
LEMMA CommandType ==
    ASSUME TypeOK, NEW s \in Sessions, Command(s) \/ Die(s)
    PROVE  TypeOK' /\ \A o \in Sessions \ {s} : Untouched(o)
<1>1. LastTurn(log) \in Nat
  BY LastTurnIsLargest DEF TypeOK
<1>2. CASE \E t \in 0..(LastTurn(log) + 1) : Rewind(s, t)
  BY <1>1, <1>2 DEF TypeOK, Rewind, Goto, storeVars, Untouched, Places, Label0
<1>3. CASE Undo(s)
  BY <1>3 DEF TypeOK, Undo, Goto, storeVars, Untouched, Places, Label0
<1>4. CASE FindLastTurn(s)
  BY <1>1, <1>4 DEF TypeOK, FindLastTurn, Goto, storeVars, Untouched, Places
<1>5. CASE RetractFromTurn(s)
  <2>1. Cut(log, target[s]) \in Seq(LogRow)
    BY CutRows DEF TypeOK
  <2> QED
    BY <1>5, <2>1 DEF TypeOK, RetractFromTurn, Goto, Untouched, Places
<1>6. CASE Die(s)
  <2>1. {} \in SUBSET Nat
    OBVIOUS
  <2> QED
    BY <1>6, <2>1, NewTypes DEF TypeOK, Die, EndTurn, Goto, storeVars, Untouched, Places, World
<1> QED
  BY <1>2, <1>3, <1>4, <1>5, <1>6 DEF Command

\* The end of a conversation is a conversation.
LEMMA LastExchangesType ==
    ASSUME NEW th \in Seq(Nat)
    PROVE  /\ LastExchanges(th) \in Seq(Nat) /\ Len(LastExchanges(th)) <= KeepExchanges
           /\ \E m \in Nat : /\ 1 <= m
                             /\ Len(LastExchanges(th)) = Len(th) - m + 1
                             /\ \A k \in 1..Len(LastExchanges(th)) :
                                   LastExchanges(th)[k] = th[m + k - 1]
<1> DEFINE n == Len(th)
           m == Max({1, n - KeepExchanges + 1})
<1>1. n \in Nat /\ KeepExchanges \in Nat \ {0}
  BY PlayAssumption
<1>2. m \in {1, n - KeepExchanges + 1} /\ m >= 1 /\ m >= n - KeepExchanges + 1
  <2>1. \E x \in {1, n - KeepExchanges + 1} : \A y \in {1, n - KeepExchanges + 1} : x >= y
    BY <1>1
  <2> QED
    BY <2>1 DEF Max
<1>3. m \in Nat /\ 1 <= m /\ m <= n + 1 /\ n - m + 1 <= KeepExchanges
  BY <1>1, <1>2
<1>4. LastExchanges(th) = SubSeq(th, m, n)
  BY DEF LastExchanges
<1> HIDE DEF m
<1>5. /\ SubSeq(th, m, n) \in Seq(Nat) /\ Len(SubSeq(th, m, n)) = n - m + 1
      /\ \A k \in 1..(n - m + 1) : SubSeq(th, m, n)[k] = th[m + k - 1]
  BY <1>1, <1>3, SubSeqProperties
<1> QED
  BY <1>3, <1>4, <1>5

\* The proposal of a batch.
LEMMA ProposalRows ==
    ASSUME NEW l \in Seq(LogRow), NEW t \in Nat
    PROVE  /\ Append(l, Row(t)) \in Seq(LogRow)
           /\ Len(Append(l, Row(t))) = Len(l) + 1
           /\ \A i \in 1..Len(l) : Append(l, Row(t))[i] = l[i]
           /\ Append(l, Row(t))[Len(l) + 1].turn = t
           /\ Active(Append(l, Row(t))) = Active(l) \cup {Len(l) + 1}
<1> DEFINE r == Row(t)
<1>1. r \in LogRow /\ r.turn = t /\ ~r.retracted
  BY DEF Row, LogRow
<1> HIDE DEF r
<1> DEFINE all == Append(l, r)
<1>2. /\ all \in Seq(LogRow) /\ Len(all) = Len(l) + 1 /\ Len(l) \in Nat
      /\ \A i \in 1..Len(l) : all[i] = l[i]
      /\ all[Len(l) + 1] = r
  BY <1>1, AppendProperties
<1> HIDE DEF all
<1>3. Active(all) = Active(l) \cup {Len(l) + 1}
  BY <1>1, <1>2 DEF Active, Seqs
<1> QED
  BY <1>1, <1>2, <1>3 DEF all, r

\* What a publication leaves: the log with one more turn, and this process with
\* the world and the conversation that go with it.
LEMMA PublishEffect ==
    ASSUME TypeOK, NEW s \in Sessions, Publish(s)
    PROVE  LET l == batch[s].snapshot IN
           /\ l \in Seq(LogRow) /\ LastTurn(l) \in Nat
           /\ log' = Append(l, Row(LastTurn(l) + 1))
           /\ Len(log') = Len(l) + 1 /\ log' \in Seq(LogRow)
           /\ revision' = revision + 1
           /\ world'[s] = [folded |-> Active(log'), revision |-> revision']
           /\ strategy'[s] \in Conversation
           /\ \/ /\ ~compare[s] /\ strategy'[s].committed = revision'
                 /\ \/ strategy'[s].thread = <<>>
                    \/ strategy'[s].thread = LastExchanges(Append(strategy[s].thread, Len(log')))
                    \/ ~(strategy[s].live /\ strategy[s].pending)
              \/ strategy'[s].thread = <<>> /\ strategy'[s].committed = strategy[s].committed
<1> DEFINE l == batch[s].snapshot
<1>1. batch[s] \in Draft /\ strategy[s] \in Conversation /\ revision \in Nat
  BY DEF TypeOK
<1>2. l \in Seq(LogRow) /\ LastTurn(l) \in Nat
  BY <1>1, LastTurnIsLargest DEF Draft
<1>3. log' = Append(l, Row(LastTurn(l) + 1)) /\ revision' = revision + 1
  BY DEF Publish, Proposal
<1>4. Len(log') = Len(l) + 1 /\ log' \in Seq(LogRow) /\ Len(log') \in Nat
  BY <1>2, <1>3, ProposalRows
<1>5. world'[s] = [folded |-> Active(log'), revision |-> revision']
  BY DEF Publish, ResultWorld, TypeOK
<1> DEFINE st == [strategy[s] EXCEPT !.committed = revision']
<1>6. /\ st \in Conversation /\ st.thread = strategy[s].thread /\ st.committed = revision'
      /\ st.live = strategy[s].live /\ st.pending = strategy[s].pending
      /\ st.thread \in Seq(Nat)
  BY <1>1, <1>3 DEF Conversation, Label0
<1>7. \/ ~compare[s] /\ strategy'[s] = Remember(st, Len(log'))
      \/ ~compare[s] /\ strategy'[s] = Reset(st)
      \/ compare[s] /\ strategy'[s] = Reset(strategy[s])
  BY DEF Publish, TypeOK
<1> HIDE DEF st, l
<1>8. CASE strategy'[s] = Reset(st) \/ strategy'[s] = Reset(strategy[s])
  BY <1>1, <1>2, <1>3, <1>4, <1>5, <1>6, <1>7, <1>8, NewTypes DEF l
<1>9. CASE ~compare[s] /\ strategy'[s] = Remember(st, Len(log'))
  <2> DEFINE th == LastExchanges(Append(st.thread, Len(log')))
  <2>1. th \in Seq(Nat)
    <3>1. Append(st.thread, Len(log')) \in Seq(Nat)
      BY <1>4, <1>6, AppendProperties
    <3> QED
      BY <3>1, LastExchangesType
  <2> HIDE DEF th
  <2>2. [st EXCEPT !.thread = th, !.pending = FALSE] \in Conversation
        /\ [st EXCEPT !.thread = th, !.pending = FALSE].thread = th
        /\ [st EXCEPT !.thread = th, !.pending = FALSE].committed = st.committed
    BY <1>6, <2>1 DEF Conversation
  <2>3. strategy'[s] = IF st.live /\ st.pending
                       THEN [st EXCEPT !.thread = th, !.pending = FALSE] ELSE st
    BY <1>9 DEF Remember, th
  <2>4. /\ strategy'[s] \in Conversation /\ strategy'[s].committed = revision'
        /\ strategy'[s].thread = th \/ ~(strategy[s].live /\ strategy[s].pending)
    BY <1>6, <2>2, <2>3
  <2> QED
    BY <1>2, <1>3, <1>4, <1>5, <1>6, <1>9, <2>4 DEF l, th
<1> QED
  BY <1>7, <1>8, <1>9

\* It keeps the types.
LEMMA PublishType ==
    ASSUME TypeOK, NEW s \in Sessions, Publish(s)
    PROVE  TypeOK' /\ \A o \in Sessions \ {s} : Untouched(o)
<1>1. /\ log' \in Seq(LogRow) /\ revision' \in Nat /\ strategy'[s] \in Conversation
      /\ world'[s] = [folded |-> Active(log'), revision |-> revision']
  BY PublishEffect DEF TypeOK
<1>2. world'[s] \in World
  <2>1. Active(log') \in SUBSET Nat
    BY <1>1, RowsOfLog
  <2> QED
    BY <1>1, <2>1 DEF World, Label0
<1>3. /\ world' = [world EXCEPT ![s] = world'[s]]
      /\ strategy' = [strategy EXCEPT ![s] = strategy'[s]]
  BY DEF Publish, TypeOK
<1>4. /\ world' \in [Sessions -> World] /\ strategy' \in [Sessions -> Conversation]
      /\ \A o \in Sessions \ {s} : world'[o] = world[o] /\ strategy'[o] = strategy[o]
  BY <1>1, <1>2, <1>3 DEF TypeOK
<1> QED
  BY <1>1, <1>4, NewTypes DEF TypeOK, Publish, EndTurn, Goto, Untouched, Places

\* A turn keeps the types.
LEMMA TurnType ==
    ASSUME TypeOK, NEW s \in Sessions, Turn(s)
    PROVE  TypeOK' /\ \A o \in Sessions \ {s} : Untouched(o)
<1>1. CASE \E candidate \in BOOLEAN : Prepare(s, candidate)
  <2>1. PICK candidate \in BOOLEAN : Prepare(s, candidate)
    BY <1>1
  <2> QED
    BY <2>1, NewTypes DEF TypeOK, Prepare, Goto, storeVars, Untouched, Places, Draft, Label0
<1>2. CASE Refuse(s)
  BY <1>2 DEF TypeOK, Refuse, Goto, storeVars, Untouched, Places
<1>3. CASE Produce(s)
  <2>1. PICK due \in BOOLEAN :
           strategy' = [strategy EXCEPT ![s] =
                [strategy[s] EXCEPT !.live = TRUE, !.pending = TRUE, !.due = due,
                           !.thread = IF strategy[s].live /\ ~strategy[s].due THEN @ ELSE <<>>]]
    BY <1>3 DEF Produce
  <2> DEFINE th == IF strategy[s].live /\ ~strategy[s].due THEN strategy[s].thread ELSE <<>>
             st == [strategy[s] EXCEPT !.live = TRUE, !.pending = TRUE, !.due = due, !.thread = th]
  <2>2. strategy[s] \in Conversation /\ th \in Seq(Nat)
    <3>1. strategy[s] \in Conversation
      BY DEF TypeOK
    <3>2. strategy[s].thread \in Seq(Nat)
      BY <3>1 DEF Conversation
    <3>3. <<>> \in Seq(Nat)
      OBVIOUS
    <3> QED
      BY <3>1, <3>2, <3>3
  <2>3. strategy' = [strategy EXCEPT ![s] = st]
    BY <2>1, <2>2 DEF Conversation
  <2> HIDE DEF th
  <2>4. st \in Conversation
    BY <2>2 DEF Conversation
  <2> HIDE DEF st
  <2>5. /\ strategy' \in [Sessions -> Conversation]
        /\ \A o \in Sessions \ {s} : strategy'[o] = strategy[o]
    BY <2>3, <2>4 DEF TypeOK
  <2> QED
    BY <1>3, <2>5 DEF TypeOK, Produce, Goto, storeVars, Untouched, Places
<1>4. CASE ProduceCandidate(s)
  BY <1>4 DEF TypeOK, ProduceCandidate, Goto, storeVars, Untouched, Places
<1>5. CASE Fail(s) \/ Conflict(s)
  BY <1>5, NewTypes
     DEF TypeOK, Fail, Conflict, Restored, EndTurn, Goto, storeVars, Untouched, Places
<1>6. CASE Publish(s)
  BY <1>6, PublishType
<1> QED
  BY <1>1, <1>2, <1>3, <1>4, <1>5, <1>6 DEF Turn

-----------------------------------------------------------------------------
(* The inductive invariant, one process at a time. *)

\* The world of process s is the fold of the log whenever it carries, or is about
\* to be given, the label of the store's revision, unless another process wrote
\* between the two readings.  A turn is prepared under the label of its world.
WorldLabelled(s) ==
    /\ world[s].revision <= revision
    /\ s \notin late /\ (pc[s] = "label" \/ world[s].revision = revision)
          => world[s].folded = Active(log)
    /\ Preparing(s) => batch[s].revision = world[s].revision

\* A batch of the store's revision was taken from the stored log.
BatchTaken(s) ==
    Preparing(s) => /\ batch[s].revision <= revision
                    /\ batch[s].revision = revision => batch[s].snapshot = log

\* A conversation is bounded, and the end of the story if it was committed at the
\* store's revision; one that was never committed is empty.
Tells(st) ==
    /\ Len(st.thread) <= KeepExchanges
    /\ st.committed <= revision
    /\ st.committed = NoRevision => st.thread = <<>>
    /\ st.committed = revision => Ends(st.thread, log)

ConversationKept(s) ==
    /\ Tells(strategy[s])
    /\ Tells(saved[s])
    /\ Preparing(s) /\ ~compare[s] => Ends(strategy[s].thread, batch[s].snapshot)
    /\ pc[s] = "publish" /\ ~compare[s] => strategy[s].live /\ strategy[s].pending

\* The turn that /undo found is still the last if this process wrote last.
UndoAimed(s) ==
    pc[s] = "undo_retract" /\ writer = s => target[s] = LastTurn(log)

Sound(s) == WorldLabelled(s) /\ BatchTaken(s) /\ ConversationKept(s) /\ UndoAimed(s)

\* Two visible played turns are two turns.
OneRowPerTurn ==
    \A i, j \in Played(log) : log[i].turn = log[j].turn => i = j

PInv == TypeOK /\ OneRowPerTurn /\ \A s \in Sessions : Sound(s)

\* The fields of a process.
LEMMA SessionTypes ==
    ASSUME TypeOK, NEW s \in Sessions
    PROVE  /\ log \in Seq(LogRow) /\ revision \in Nat /\ pc[s] \in Places
           /\ world[s] \in World /\ world[s].revision \in Label0
           /\ strategy[s] \in Conversation /\ strategy[s].thread \in Seq(Nat)
           /\ strategy[s].committed \in Label0
           /\ saved[s] \in Conversation /\ saved[s].thread \in Seq(Nat)
           /\ saved[s].committed \in Label0
           /\ batch[s] \in Draft /\ batch[s].revision \in Label0
           /\ batch[s].snapshot \in Seq(LogRow)
           /\ compare[s] \in BOOLEAN /\ target[s] \in Nat
BY DEF TypeOK, World, Conversation, Draft

\* A step that leaves the store and process o alone leaves o sound.
LEMMA OthersUnwritten ==
    ASSUME NEW o \in Sessions, Sound(o), Untouched(o), log' = log, revision' = revision,
           writer' = writer, o \in late' <=> o \in late
    PROVE  Sound(o)'
<1>1. Preparing(o)' <=> Preparing(o)
  BY DEF Preparing, Untouched
<1>2. WorldLabelled(o)'
  BY <1>1 DEF Sound, WorldLabelled, Untouched
<1>3. BatchTaken(o)'
  BY <1>1 DEF Sound, BatchTaken, Untouched
<1>4. Tells(strategy[o])' /\ Tells(saved[o])'
  BY DEF Sound, ConversationKept, Tells, Untouched
<1>5. ConversationKept(o)'
  BY <1>1, <1>4 DEF Sound, ConversationKept, Untouched
<1>6. UndoAimed(o)'
  BY DEF Sound, UndoAimed, Untouched
<1> QED
  BY <1>2, <1>3, <1>5, <1>6 DEF Sound

\* A write of another process leaves o sound: no label of o is the new revision.
LEMMA OthersWritten ==
    ASSUME TypeOK, NEW o \in Sessions, Sound(o), Untouched(o), revision' = revision + 1,
           writer' # o, late \subseteq late', pc[o] = "label" => o \in late'
    PROVE  Sound(o)'
<1>1. /\ revision \in Nat /\ world[o].revision \in Label0 /\ batch[o].revision \in Label0
      /\ strategy[o].committed \in Label0 /\ saved[o].committed \in Label0
  BY SessionTypes
<1>0. Preparing(o)' <=> Preparing(o)
  BY DEF Preparing, Untouched
<1>2. WorldLabelled(o)'
  <2>1. world[o].revision <= revision' /\ world[o].revision # revision'
    BY <1>1 DEF Sound, WorldLabelled, Label0, NoRevision
  <2> QED
    BY <1>0, <2>1 DEF Sound, WorldLabelled, Untouched
<1>3. BatchTaken(o)'
  <2>1. Preparing(o) => batch[o].revision <= revision' /\ batch[o].revision # revision'
    BY <1>1 DEF Sound, BatchTaken, Label0, NoRevision
  <2> QED
    BY <1>0, <2>1 DEF BatchTaken, Untouched
<1>4. \A st : st.committed \in Label0 /\ Tells(st)
                => /\ Len(st.thread) <= KeepExchanges
                   /\ st.committed <= revision' /\ st.committed # revision'
                   /\ st.committed = NoRevision => st.thread = <<>>
  BY <1>1 DEF Tells, Label0, NoRevision
<1>5. ConversationKept(o)'
  <2>1. Tells(strategy[o]) /\ Tells(saved[o])
    BY DEF Sound, ConversationKept
  <2>2. Tells(strategy[o])' /\ Tells(saved[o])'
    BY <1>1, <1>4, <2>1 DEF Tells, Untouched
  <2> QED
    BY <1>0, <2>2 DEF Sound, ConversationKept, Untouched
<1>6. UndoAimed(o)'
  BY DEF UndoAimed, Untouched
<1> QED
  BY <1>2, <1>3, <1>5, <1>6 DEF Sound

\* An empty conversation ends every story, and a reset one tells no lie.
LEMMA ResetTells ==
    ASSUME TypeOK, NEW st \in Conversation, st.committed <= revision
    PROVE  /\ Tells(Reset(st)) /\ \A l : Ends(Reset(st).thread, l)
           /\ Tells(NewStrategy) /\ \A l : Ends(NewStrategy.thread, l)
<1>1. revision \in Nat /\ KeepExchanges \in Nat
  BY PlayAssumption DEF TypeOK
<1>2. \A l : Ends(<<>>, l)
  BY DEF Ends
<1>3. Len(<<>>) = 0 /\ NoRevision <= revision /\ NoRevision # revision
  BY <1>1 DEF NoRevision
<1>4. /\ Reset(st).thread = <<>> /\ Reset(st).committed = st.committed
      /\ NewStrategy.thread = <<>> /\ NewStrategy.committed = NoRevision
  BY NewTypes
<1> QED
  BY <1>1, <1>2, <1>3, <1>4 DEF Tells

\* Loading a world leaves its process sound.
LEMMA LoadSound ==
    ASSUME TypeOK, NEW s \in Sessions, Sound(s), Load(s)
    PROVE  Sound(s)'
<1>1. /\ Tells(strategy[s]) /\ Tells(saved[s]) /\ strategy[s] \in Conversation
      /\ revision \in Nat
  BY SessionTypes DEF Sound, ConversationKept
<1>2. log' = log /\ revision' = revision /\ writer' = writer
  BY DEF Load, Project, Label, Settle, storeVars
<1>3. CASE Project(s)
  <2>1. /\ pc'[s] = "label" /\ world'[s].folded = Active(log) /\ s \notin late'
        /\ world'[s].revision = world[s].revision
        /\ strategy'[s] = strategy[s] /\ saved'[s] = saved[s]
    BY <1>3, SessionTypes DEF Project, Goto, TypeOK, World
  <2>2. ~Preparing(s)'
    BY <2>1 DEF Preparing
  <2>3. Tells(strategy[s])' /\ Tells(saved[s])'
    BY <1>1, <1>2, <2>1 DEF Tells
  <2> QED
    BY <1>2, <2>1, <2>2, <2>3
       DEF Sound, WorldLabelled, BatchTaken, ConversationKept, UndoAimed
<1>4. CASE Label(s)
  <2>1. /\ pc[s] = "label" /\ pc'[s] = "settle" /\ world'[s].folded = world[s].folded
        /\ late' = late /\ world'[s].revision = revision
        /\ strategy'[s] = strategy[s] /\ saved'[s] = saved[s]
    BY <1>4, SessionTypes DEF Label, Goto, TypeOK, World
  <2>2. ~Preparing(s)'
    BY <2>1 DEF Preparing
  <2>3. Tells(strategy[s])' /\ Tells(saved[s])'
    BY <1>1, <1>2, <2>1 DEF Tells
  <2>4. WorldLabelled(s)'
    BY <1>1, <1>2, <2>1, <2>2 DEF Sound, WorldLabelled
  <2> QED
    BY <2>1, <2>2, <2>3, <2>4 DEF Sound, BatchTaken, ConversationKept, UndoAimed
<1>5. CASE Settle(s)
  <2>1. /\ pc'[s] = "prompt" /\ world' = world /\ late' = late /\ saved'[s] = saved[s]
        /\ strategy'[s] \in {strategy[s], Reset(strategy[s])}
    BY <1>5 DEF Settle, Goto, TypeOK
  <2>2. ~Preparing(s)'
    BY <2>1 DEF Preparing
  <2>3. Tells(Reset(strategy[s]))
    BY <1>1, ResetTells DEF Tells
  <2>4. Tells(strategy'[s])
    BY <1>1, <2>1, <2>3
  <2>5. Tells(strategy[s])' /\ Tells(saved[s])'
    BY <1>1, <1>2, <2>1, <2>4 DEF Tells
  <2>6. WorldLabelled(s)'
    BY <1>2, <2>1, <2>2 DEF Sound, WorldLabelled
  <2> QED
    BY <2>1, <2>2, <2>5, <2>6 DEF Sound, BatchTaken, ConversationKept, UndoAimed
<1> QED
  BY <1>3, <1>4, <1>5 DEF Load

\* So do the commands that write nothing, and dying.
LEMMA QuietSound ==
    ASSUME TypeOK, NEW s \in Sessions, Sound(s),
           \/ \E t \in 0..(LastTurn(log) + 1) : Rewind(s, t)
           \/ Undo(s) \/ FindLastTurn(s) \/ Refuse(s) \/ Die(s)
    PROVE  Sound(s)'
<1>1. /\ Tells(strategy[s]) /\ Tells(saved[s]) /\ strategy[s] \in Conversation
      /\ revision \in Nat
  BY SessionTypes DEF Sound, ConversationKept
<1>2. log' = log /\ revision' = revision /\ writer' = writer /\ late' = late
  BY DEF Rewind, Undo, FindLastTurn, Refuse, Die, storeVars
<1>3. CASE ~Die(s)
  <2>1. /\ pc'[s] \notin {"label", "produce", "publish"} /\ world'[s] = world[s]
        /\ strategy'[s] = strategy[s] /\ saved'[s] = saved[s]
        /\ pc'[s] = "undo_retract" => target'[s] = LastTurn(log)
    BY <1>3 DEF Rewind, Undo, FindLastTurn, Refuse, Goto, TypeOK
  <2>2. ~Preparing(s)'
    BY <2>1 DEF Preparing
  <2>3. Tells(strategy[s])' /\ Tells(saved[s])'
    BY <1>1, <1>2, <2>1 DEF Tells
  <2>4. WorldLabelled(s)'
    BY <1>2, <2>1, <2>2 DEF Sound, WorldLabelled
  <2>5. UndoAimed(s)'
    BY <1>2, <2>1 DEF UndoAimed
  <2> QED
    BY <2>1, <2>2, <2>3, <2>4, <2>5 DEF Sound, BatchTaken, ConversationKept
<1>4. CASE Die(s)
  <2>1. /\ pc'[s] = "project" /\ world'[s].revision = NoRevision
        /\ strategy'[s] = NewStrategy /\ saved'[s] = NewStrategy
    BY <1>4 DEF Die, EndTurn, Goto, TypeOK
  <2>2. ~Preparing(s)'
    BY <2>1 DEF Preparing
  <2>3. Tells(NewStrategy)
    BY <1>1, ResetTells DEF Tells
  <2>4. Tells(strategy[s])' /\ Tells(saved[s])'
    BY <1>2, <2>1, <2>3 DEF Tells
  <2>5. WorldLabelled(s)'
    BY <1>1, <1>2, <2>1, <2>2 DEF WorldLabelled, NoRevision
  <2> QED
    BY <2>1, <2>2, <2>4, <2>5 DEF Sound, BatchTaken, ConversationKept, UndoAimed
<1> QED
  BY <1>3, <1>4

\* A turn is prepared from the world, the log and the conversation of one revision.
LEMMA PrepareSound ==
    ASSUME TypeOK, NEW s \in Sessions, Sound(s), NEW candidate \in BOOLEAN,
           Prepare(s, candidate)
    PROVE  Sound(s)'
<1>1. /\ Tells(strategy[s]) /\ Tells(saved[s]) /\ strategy[s] \in Conversation
      /\ revision \in Nat
  BY SessionTypes DEF Sound, ConversationKept
<1>2. log' = log /\ revision' = revision /\ writer' = writer /\ late' = late
  BY DEF Prepare, storeVars
<1>3. /\ pc'[s] = "produce" /\ world'[s] = world[s] /\ world[s].revision = revision
      /\ batch'[s].revision = revision /\ batch'[s].snapshot = log
      /\ saved'[s] = strategy'[s] /\ compare'[s] = candidate
      /\ strategy'[s] = IF strategy[s].committed \notin {NoRevision, revision} /\ ~candidate
                        THEN Reset(strategy[s]) ELSE strategy[s]
  BY DEF Prepare, WorldIsCurrent, ConversationIsStale, Goto, TypeOK
<1>4. /\ Tells(Reset(strategy[s])) /\ \A l : Ends(Reset(strategy[s]).thread, l)
      /\ \A l : Ends(NewStrategy.thread, l)
  BY <1>1, ResetTells DEF Tells
<1>5. Tells(strategy'[s])
  BY <1>1, <1>3, <1>4
<1>6. ~candidate => Ends(strategy'[s].thread, log)
  <2>1. CASE strategy[s].committed = NoRevision
    BY <1>1, <1>3, <1>4, <2>1, NewTypes DEF Tells
  <2>2. CASE strategy[s].committed = revision
    BY <1>1, <1>3, <1>4, <2>2 DEF Tells
  <2>3. CASE strategy[s].committed \notin {NoRevision, revision}
    BY <1>3, <1>4, <2>3
  <2> QED
    BY <2>1, <2>2, <2>3
<1>7. Tells(strategy[s])' /\ Tells(saved[s])'
  BY <1>2, <1>3, <1>5 DEF Tells
<1>8. ConversationKept(s)'
  BY <1>3, <1>6, <1>7 DEF ConversationKept
<1>9. WorldLabelled(s)' /\ BatchTaken(s)' /\ UndoAimed(s)'
  BY <1>1, <1>2, <1>3 DEF Sound, WorldLabelled, BatchTaken, UndoAimed
<1> QED
  BY <1>8, <1>9 DEF Sound

\* Producing a candidate continues the conversation or starts it anew.
LEMMA ProduceSound ==
    ASSUME TypeOK, NEW s \in Sessions, Sound(s), Produce(s) \/ ProduceCandidate(s)
    PROVE  Sound(s)'
<1>1. /\ Tells(strategy[s]) /\ Tells(saved[s]) /\ strategy[s] \in Conversation
      /\ revision \in Nat
  BY SessionTypes DEF Sound, ConversationKept
<1>2. log' = log /\ revision' = revision /\ writer' = writer /\ late' = late
  BY DEF Produce, ProduceCandidate, storeVars
<1>3. /\ pc[s] = "produce" /\ pc'[s] = "publish" /\ world'[s] = world[s]
      /\ batch'[s] = batch[s] /\ saved'[s] = saved[s] /\ compare'[s] = compare[s]
  BY DEF Produce, ProduceCandidate, Goto, TypeOK
<1>4. Preparing(s) /\ Preparing(s)'
  BY <1>3 DEF Preparing
<1>5. /\ strategy'[s].committed = strategy[s].committed
      /\ strategy'[s].thread \in {strategy[s].thread, <<>>}
      /\ ~compare[s] => strategy'[s].live /\ strategy'[s].pending
  <2>1. CASE Produce(s)
    <3> DEFINE th == IF strategy[s].live /\ ~strategy[s].due THEN strategy[s].thread ELSE <<>>
    <3>1. th \in {strategy[s].thread, <<>>}
      OBVIOUS
    <3> HIDE DEF th
    <3>2. PICK due \in BOOLEAN :
             strategy'[s] = [strategy[s] EXCEPT !.live = TRUE, !.pending = TRUE, !.due = due,
                                                !.thread = th]
      BY <1>1, <2>1 DEF Produce, TypeOK, Conversation, th
    <3> QED
      BY <1>1, <3>1, <3>2 DEF Conversation
  <2>2. CASE ProduceCandidate(s)
    BY <2>2 DEF ProduceCandidate
  <2> QED
    BY <2>1, <2>2
<1>6. Tells(strategy'[s])
  <2>1. CASE strategy'[s].thread = strategy[s].thread
    BY <1>1, <1>5, <2>1 DEF Tells
  <2>2. CASE strategy'[s].thread = <<>>
    <3>1. Len(<<>>) <= KeepExchanges /\ \A l : Ends(<<>>, l)
      BY PlayAssumption DEF Ends
    <3> QED
      BY <1>1, <1>5, <2>2, <3>1 DEF Tells
  <2> QED
    BY <1>5, <2>1, <2>2
<1>7. Tells(strategy[s])' /\ Tells(saved[s])'
  BY <1>1, <1>2, <1>3, <1>6 DEF Tells
<1>8. ~compare[s] => Ends(strategy'[s].thread, batch[s].snapshot)
  <2>1. \A l : Ends(<<>>, l)
    BY DEF Ends
  <2> QED
    BY <1>4, <1>5, <2>1 DEF Sound, ConversationKept
<1>9. ConversationKept(s)'
  BY <1>3, <1>5, <1>7, <1>8 DEF ConversationKept
<1>10. WorldLabelled(s)' /\ BatchTaken(s)' /\ UndoAimed(s)'
  BY <1>2, <1>3, <1>4 DEF Sound, WorldLabelled, BatchTaken, UndoAimed
<1> QED
  BY <1>9, <1>10 DEF Sound

\* A turn that fails or conflicts gives the conversation back.
LEMMA FailSound ==
    ASSUME TypeOK, NEW s \in Sessions, Sound(s), Fail(s) \/ Conflict(s)
    PROVE  Sound(s)'
<1>1. Tells(saved[s]) /\ revision \in Nat /\ saved[s] \in Conversation
  BY SessionTypes DEF Sound, ConversationKept
<1>2. log' = log /\ revision' = revision /\ writer' = writer /\ late' = late
  BY DEF Fail, Conflict, storeVars
<1>3. /\ pc'[s] \in {"prompt", "project"} /\ world'[s] = world[s]
      /\ strategy'[s] = saved[s] /\ saved'[s] = NewStrategy
  BY DEF Fail, Conflict, Restored, EndTurn, Goto, TypeOK
<1>4. ~Preparing(s)'
  BY <1>3 DEF Preparing
<1>5. Tells(NewStrategy)
  BY <1>1, ResetTells DEF Tells
<1>6. Tells(strategy[s])' /\ Tells(saved[s])'
  BY <1>1, <1>2, <1>3, <1>5 DEF Tells
<1>7. WorldLabelled(s)'
  BY <1>2, <1>3, <1>4 DEF Sound, WorldLabelled
<1> QED
  BY <1>3, <1>4, <1>6, <1>7 DEF Sound, BatchTaken, ConversationKept, UndoAimed

-----------------------------------------------------------------------------
(* Writing: one more turn, or fewer. *)

\* A rewind keeps one row per visible turn.
LEMMA CutDistinct ==
    ASSUME NEW l \in Seq(LogRow), NEW t \in Nat,
           \A i, j \in Played(l) : l[i].turn = l[j].turn => i = j
    PROVE  \A i, j \in Played(Cut(l, t)) : Cut(l, t)[i].turn = Cut(l, t)[j].turn => i = j
<1>1. /\ \A i \in 1..Len(l) : Cut(l, t)[i].turn = l[i].turn
      /\ Played(Cut(l, t)) \subseteq Played(l) /\ Played(l) \subseteq 1..Len(l)
  <2>1. Played(Cut(l, t)) = {i \in Played(l) : l[i].turn < t}
    BY CutRows
  <2>2. \A i \in 1..Len(l) : Cut(l, t)[i].turn = l[i].turn
    BY CutRows
  <2>3. Played(l) \subseteq 1..Len(l)
    BY RowsOfLog
  <2> QED
    BY <2>1, <2>2, <2>3
<1> QED
  BY <1>1

\* The turn a proposal adds is the last, and the only row of its number.
LEMMA ProposalTurn ==
    ASSUME NEW l \in Seq(LogRow), NEW new, new = Append(l, Row(LastTurn(l) + 1))
    PROVE  /\ new \in Seq(LogRow) /\ Len(new) = Len(l) + 1
           /\ LastTurn(new) = LastTurn(l) + 1
           /\ Played(new) = Played(l) \cup {Len(new)}
           /\ new[Len(new)].turn = LastTurn(new)
           /\ \A i \in Played(l) : new[i] = l[i]
<1>1. LastTurn(l) \in Nat /\ \A i \in Active(l) : l[i].turn <= LastTurn(l)
  BY LastTurnIsLargest
<1>2. /\ new \in Seq(LogRow) /\ Len(new) = Len(l) + 1 /\ Len(l) \in Nat
      /\ \A i \in 1..Len(l) : new[i] = l[i]
      /\ new[Len(l) + 1].turn = LastTurn(l) + 1
      /\ Active(new) = Active(l) \cup {Len(l) + 1}
  BY <1>1, ProposalRows, RowsOfLog
<1>3. Active(l) \subseteq 1..Len(l) /\ Played(l) \subseteq Active(l)
  BY RowsOfLog
<1>4. Played(new) = Played(l) \cup {Len(new)}
  BY <1>1, <1>2, <1>3 DEF Played
<1>5. /\ LastTurn(new) \in Nat
      /\ LastTurn(new) = 0 \/ \E i \in Played(new) : new[i].turn = LastTurn(new)
      /\ \A i \in Active(new) : new[i].turn <= LastTurn(new)
  BY <1>2, LastTurnIsLargest
<1>6. LastTurn(new) >= LastTurn(l) + 1
  BY <1>2, <1>5
<1>7. LastTurn(new) <= LastTurn(l) + 1
  <2>1. PICK i \in Played(new) : new[i].turn = LastTurn(new)
    <3>1. LastTurn(new) # 0
      BY <1>1, <1>5, <1>6
    <3> QED
      BY <1>5, <3>1
  <2>2. CASE i \in Played(l)
    BY <1>1, <1>2, <1>3, <1>5, <2>1, <2>2
  <2>3. CASE i = Len(new)
    BY <1>1, <1>2, <2>1, <2>3
  <2> QED
    BY <1>4, <2>2, <2>3
<1>8. LastTurn(new) = LastTurn(l) + 1
  BY <1>1, <1>5, <1>6, <1>7
<1> QED
  BY <1>2, <1>3, <1>4, <1>8

\* A conversation that ends the story, and the turn that was just told, end the
\* story that has it.
LEMMA RememberedEnds ==
    ASSUME NEW l \in Seq(LogRow), NEW new, new = Append(l, Row(LastTurn(l) + 1)),
           NEW th \in Seq(Nat), Ends(th, l)
    PROVE  Ends(LastExchanges(Append(th, Len(new))), new)
<1>1. /\ new \in Seq(LogRow) /\ Len(new) = Len(l) + 1 /\ LastTurn(new) = LastTurn(l) + 1
      /\ Played(new) = Played(l) \cup {Len(new)} /\ new[Len(new)].turn = LastTurn(new)
      /\ \A i \in Played(l) : new[i] = l[i]
  BY ProposalTurn
<1>2. LastTurn(l) \in Nat /\ Len(l) \in Nat /\ Len(new) \in Nat /\ Len(th) \in Nat
  BY <1>1, LastTurnIsLargest
<1> DEFINE all == Append(th, Len(new))
           cut == LastExchanges(all)
<1>3. /\ all \in Seq(Nat) /\ Len(all) = Len(th) + 1
      /\ \A k \in 1..Len(th) : all[k] = th[k]
      /\ all[Len(th) + 1] = Len(new)
  BY <1>2, AppendProperties
<1> HIDE DEF all
<1>4. \A k \in 1..Len(th) : th[k] \in Played(l) /\ l[th[k]].turn = LastTurn(l) - (Len(th) - k)
  BY DEF Ends
<1>5. \A k \in 1..Len(all) : /\ all[k] \in Played(new)
                             /\ new[all[k]].turn = LastTurn(new) - (Len(all) - k)
  <2>1. SUFFICES ASSUME NEW k \in 1..Len(all)
                 PROVE  /\ all[k] \in Played(new)
                        /\ new[all[k]].turn = LastTurn(new) - (Len(all) - k)
    OBVIOUS
  <2>2. CASE k \in 1..Len(th)
    <3>1. all[k] \in Played(l) /\ l[all[k]].turn = LastTurn(l) - (Len(th) - k)
      BY <1>3, <1>4, <2>2
    <3>2. all[k] \in Played(new) /\ new[all[k]] = l[all[k]]
      BY <1>1, <3>1
    <3>3. new[all[k]].turn = LastTurn(l) - (Len(th) - k)
      BY <3>1, <3>2
    <3>4. LastTurn(l) - (Len(th) - k) = LastTurn(new) - (Len(all) - k)
      BY <1>1, <1>2, <1>3, <2>2
    <3> QED
      BY <3>2, <3>3, <3>4
  <2>3. CASE k = Len(th) + 1
    BY <1>1, <1>2, <1>3, <2>3
  <2>4. k \in 1..Len(th) \/ k = Len(th) + 1
    BY <1>2, <1>3, <2>1
  <2> QED
    BY <2>2, <2>3, <2>4
<1>6. PICK m \in Nat : /\ 1 <= m /\ Len(cut) = Len(all) - m + 1
                       /\ \A k \in 1..Len(cut) : cut[k] = all[m + k - 1]
  BY <1>3, LastExchangesType
<1>7. cut \in Seq(Nat)
  BY <1>3, LastExchangesType
<1> HIDE DEF cut
<1>8. DOMAIN cut = 1..Len(cut) /\ Len(cut) \in Nat /\ Len(all) \in Nat
  BY <1>3, <1>7
<1>9. SUFFICES ASSUME NEW k \in 1..Len(cut)
               PROVE  cut[k] \in Played(new) /\ new[cut[k]].turn = LastTurn(new) - (Len(cut) - k)
  BY <1>8 DEF Ends, cut, all
<1>10. m + k - 1 \in 1..Len(all) /\ Len(all) - (m + k - 1) = Len(cut) - k
  <2>1. Len(cut) = Len(all) - m + 1 /\ 1 <= m
    BY <1>6
  <2> QED
    BY <1>8, <2>1
<1>11. cut[k] = all[m + k - 1]
  BY <1>6
<1>12. /\ all[m + k - 1] \in Played(new)
       /\ new[all[m + k - 1]].turn = LastTurn(new) - (Len(all) - (m + k - 1))
  BY <1>5, <1>10
<1> QED
  BY <1>10, <1>11, <1>12

\* A batch that is still current extends the stored log.
LEMMA PublishedLog ==
    ASSUME TypeOK, NEW s \in Sessions, Sound(s), Publish(s)
    PROVE  /\ log' = Append(log, Row(LastTurn(log) + 1)) /\ batch[s].snapshot = log
           /\ revision' = revision + 1
<1>1. Preparing(s) /\ batch[s].revision = revision
  BY DEF Publish, BatchIsCurrent, Preparing
<1>2. batch[s].snapshot = log
  BY <1>1 DEF Sound, BatchTaken
<1> QED
  BY <1>2, PublishEffect

\* A publication leaves its process sound.
LEMMA PublishSound ==
    ASSUME TypeOK, NEW s \in Sessions, Sound(s), Publish(s)
    PROVE  Sound(s)'
<1>1. /\ log' = Append(log, Row(LastTurn(log) + 1)) /\ revision' = revision + 1
      /\ batch[s].snapshot = log
  BY PublishedLog
<1>2. /\ revision \in Nat /\ log \in Seq(LogRow) /\ strategy[s].thread \in Seq(Nat)
      /\ strategy[s].committed \in Label0 /\ strategy[s] \in Conversation
  BY SessionTypes
<1>3. /\ pc[s] = "publish" /\ pc'[s] = "prompt" /\ saved'[s] = NewStrategy
      /\ world'[s] = [folded |-> Active(log'), revision |-> revision']
  BY PublishEffect DEF Publish, Goto, EndTurn, TypeOK
<1>4. ~Preparing(s)' /\ Preparing(s)
  BY <1>3 DEF Preparing
<1>5. ~compare[s] => /\ Ends(strategy[s].thread, log)
                     /\ strategy[s].live /\ strategy[s].pending
  BY <1>1, <1>3, <1>4 DEF Sound, ConversationKept
<1>6. /\ log' \in Seq(LogRow) /\ Len(log') \in Nat
      /\ \/ /\ ~compare[s] /\ strategy'[s].committed = revision'
            /\ \/ strategy'[s].thread = <<>>
               \/ strategy'[s].thread = LastExchanges(Append(strategy[s].thread, Len(log')))
         \/ strategy'[s].thread = <<>> /\ strategy'[s].committed = strategy[s].committed
  BY <1>5, PublishEffect
<1>7. Tells(strategy[s])'
  <2>1. CASE strategy'[s].thread = <<>>
    <3>1. Len(<<>>) <= KeepExchanges /\ \A l : Ends(<<>>, l)
      BY PlayAssumption DEF Ends
    <3>2. strategy'[s].committed <= revision'
      BY <1>1, <1>2, <1>6 DEF Sound, ConversationKept, Tells, Label0, NoRevision
    <3> QED
      BY <2>1, <3>1, <3>2 DEF Tells
  <2>2. CASE ~compare[s] /\ strategy'[s].committed = revision'
             /\ strategy'[s].thread = LastExchanges(Append(strategy[s].thread, Len(log')))
    <3>1. Append(strategy[s].thread, Len(log')) \in Seq(Nat)
      BY <1>2, <1>6, AppendProperties
    <3>2. Len(strategy'[s].thread) <= KeepExchanges
      BY <2>2, <3>1, LastExchangesType
    <3>3. Ends(strategy'[s].thread, log')
      BY <1>1, <1>2, <1>5, <2>2, RememberedEnds
    <3>4. strategy'[s].committed # NoRevision /\ strategy'[s].committed <= revision'
      BY <1>1, <1>2, <2>2 DEF NoRevision
    <3> QED
      BY <3>2, <3>3, <3>4 DEF Tells
  <2> QED
    BY <1>6, <2>1, <2>2
<1>8. Tells(saved[s])'
  <2>1. Len(<<>>) <= KeepExchanges /\ \A l : Ends(<<>>, l)
    BY PlayAssumption DEF Ends
  <2>2. saved'[s].thread = <<>> /\ saved'[s].committed <= revision'
    BY <1>1, <1>2, <1>3, NewTypes DEF NoRevision
  <2> QED
    BY <2>1, <2>2 DEF Tells
<1>9. WorldLabelled(s)'
  BY <1>1, <1>2, <1>3, <1>4 DEF WorldLabelled
<1> QED
  BY <1>3, <1>4, <1>7, <1>8, <1>9 DEF Sound, BatchTaken, ConversationKept, UndoAimed

\* A rewind leaves its process sound: its labels are behind, or nothing changed.
LEMMA RetractSound ==
    ASSUME TypeOK, NEW s \in Sessions, Sound(s), RetractFromTurn(s)
    PROVE  Sound(s)'
<1>1. /\ revision \in Nat /\ world[s].revision \in Label0
      /\ strategy[s].committed \in Label0 /\ saved[s].committed \in Label0
      /\ Tells(strategy[s]) /\ Tells(saved[s])
      /\ world[s].revision <= revision
  BY SessionTypes DEF Sound, ConversationKept, WorldLabelled
<1>2. /\ pc[s] \in {"retract", "undo_retract"} /\ pc'[s] = "project" /\ world'[s] = world[s]
      /\ strategy'[s] = strategy[s] /\ saved'[s] = saved[s]
  BY DEF RetractFromTurn, Goto, TypeOK
<1>3. ~Preparing(s)'
  BY <1>2 DEF Preparing
<1>4. \/ log' = log /\ revision' = revision /\ late' = late
      \/ revision' = revision + 1
  BY DEF RetractFromTurn
<1>5. WorldLabelled(s)'
  <2>1. CASE log' = log /\ revision' = revision /\ late' = late
    BY <1>2, <1>3, <2>1 DEF Sound, WorldLabelled
  <2>2. CASE revision' = revision + 1
    <3>1. world[s].revision <= revision' /\ world[s].revision # revision'
      BY <1>1, <2>2 DEF Label0, NoRevision
    <3> QED
      BY <1>2, <1>3, <3>1 DEF WorldLabelled
  <2> QED
    BY <1>4, <2>1, <2>2
<1>6. Tells(strategy[s])' /\ Tells(saved[s])'
  <2>1. CASE log' = log /\ revision' = revision
    BY <1>1, <1>2, <2>1 DEF Tells
  <2>2. CASE revision' = revision + 1
    <3>1. \A st : st.committed \in Label0 /\ Tells(st)
                    => /\ Len(st.thread) <= KeepExchanges
                       /\ st.committed <= revision' /\ st.committed # revision'
                       /\ st.committed = NoRevision => st.thread = <<>>
      BY <1>1, <2>2 DEF Tells, Label0, NoRevision
    <3> QED
      BY <1>1, <1>2, <3>1 DEF Tells
  <2> QED
    BY <1>4, <2>1, <2>2
<1> QED
  BY <1>2, <1>3, <1>5, <1>6 DEF Sound, BatchTaken, ConversationKept, UndoAimed

\* What a step of one process does to the store and to the histories.
Unwritten(s) ==
    /\ log' = log /\ revision' = revision /\ writer' = writer
    /\ \A o \in Sessions \ {s} : o \in late' <=> o \in late

Written(s) ==
    /\ revision' = revision + 1 /\ writer' = s /\ late \subseteq late'
    /\ \A o \in Sessions \ {s} : pc[o] = "label" => o \in late'

\* Every step is one or the other, and leaves its own process sound.
LEMMA OwnStep ==
    ASSUME TypeOK, NEW s \in Sessions, Sound(s), Load(s) \/ Command(s) \/ Turn(s) \/ Die(s)
    PROVE  /\ TypeOK' /\ (\A o \in Sessions \ {s} : Untouched(o))
           /\ Sound(s)'
           /\ Unwritten(s) \/ Written(s)
<1>1. CASE Load(s)
  <2>1. Unwritten(s)
    BY <1>1 DEF Load, Project, Label, Settle, storeVars, Unwritten
  <2> QED
    BY <1>1, <2>1, LoadType, LoadSound
<1>2. CASE RetractFromTurn(s)
  <2>1. Unwritten(s) \/ Written(s)
    BY <1>2 DEF RetractFromTurn, Wrote, Unwritten, Written
  <2> QED
    BY <1>2, <2>1, CommandType, RetractSound DEF Command
<1>3. CASE (Command(s) /\ ~RetractFromTurn(s)) \/ Die(s)
  <2>1. Unwritten(s)
    BY <1>3 DEF Command, Rewind, Undo, FindLastTurn, Die, storeVars, Unwritten
  <2>2. Sound(s)'
    BY <1>3, QuietSound DEF Command
  <2> QED
    BY <1>3, <2>1, <2>2, CommandType
<1>4. CASE Publish(s)
  <2>1. Written(s)
    BY <1>4 DEF Publish, Wrote, Written
  <2> QED
    BY <1>4, <2>1, TurnType, PublishSound DEF Turn
<1>5. CASE Turn(s) /\ ~Publish(s)
  <2>1. Unwritten(s)
    BY <1>5 DEF Turn, Prepare, Refuse, Produce, ProduceCandidate, Fail, Conflict, storeVars,
                Unwritten
  <2>2. Sound(s)'
    BY <1>5, PrepareSound, QuietSound, ProduceSound, FailSound DEF Turn
  <2> QED
    BY <1>5, <2>1, <2>2, TurnType
<1> QED
  BY <1>1, <1>2, <1>3, <1>4, <1>5

\* One row per visible turn, whoever writes.
LEMMA StepDistinct ==
    ASSUME TypeOK, OneRowPerTurn, NEW s \in Sessions, Sound(s),
           Load(s) \/ Command(s) \/ Turn(s) \/ Die(s)
    PROVE  OneRowPerTurn'
<1>1. log \in Seq(LogRow) /\ target[s] \in Nat
  BY SessionTypes
<1>2. CASE log' = log
  BY <1>2 DEF OneRowPerTurn
<1>3. CASE RetractFromTurn(s)
  <2>1. log' = Cut(log, target[s])
    BY <1>3 DEF RetractFromTurn
  <2>2. \A i, j \in Played(log') : log'[i].turn = log'[j].turn => i = j
    BY <1>1, <2>1, CutDistinct DEF OneRowPerTurn
  <2> QED
    BY <2>2 DEF OneRowPerTurn
<1>4. CASE Publish(s)
  <2>1. log' = Append(log, Row(LastTurn(log) + 1))
    BY <1>4, PublishedLog
  <2>2. /\ Played(log') = Played(log) \cup {Len(log')}
        /\ log'[Len(log')].turn = LastTurn(log')
        /\ LastTurn(log') = LastTurn(log) + 1
        /\ \A i \in Played(log) : log'[i] = log[i]
    BY <1>1, <2>1, ProposalTurn
  <2>3. /\ LastTurn(log) \in Nat
        /\ \A i \in Played(log) : log[i].turn <= LastTurn(log) /\ log[i].turn \in Nat
    BY <1>1, LastTurnIsLargest, RowsOfLog
  <2>4. \A i \in Played(log) : log'[i].turn # log'[Len(log')].turn
    BY <2>2, <2>3
  <2>5. \A i, j \in Played(log') : log'[i].turn = log'[j].turn => i = j
    BY <2>2, <2>4 DEF OneRowPerTurn
  <2> QED
    BY <2>5 DEF OneRowPerTurn
<1>5. log' = log \/ RetractFromTurn(s) \/ Publish(s)
  BY DEF Load, Project, Label, Settle, Command, Rewind, Undo, FindLastTurn, Die, Turn, Prepare,
         Refuse, Produce, ProduceCandidate, Fail, Conflict, storeVars
<1> QED
  BY <1>2, <1>3, <1>4, <1>5

\* The invariant holds in every reachable state.
LEMMA PlayInvariance == Spec => []PInv
<1>1. Init => PInv
  <2>1. SUFFICES ASSUME Init PROVE PInv
    OBVIOUS
  <2>2. Row(0) \in LogRow
    BY DEF Row, LogRow
  <2>3. log \in Seq(LogRow) /\ Len(log) = 1
    BY <2>1, <2>2 DEF Init
  <2>4. TypeOK
    <3>1. {} \in SUBSET Nat
      OBVIOUS
    <3> QED
      BY <2>1, <2>3, <3>1, NewTypes DEF Init, TypeOK, Places, World
  <2>5. OneRowPerTurn
    BY <2>3, RowsOfLog DEF OneRowPerTurn
  <2>6. ASSUME NEW s \in Sessions PROVE Sound(s)
    <3>1. /\ pc[s] = "project" /\ world[s].revision = NoRevision /\ revision = 1
          /\ strategy[s] = NewStrategy /\ saved[s] = NewStrategy
      BY <2>1 DEF Init
    <3>2. ~Preparing(s)
      BY <3>1 DEF Preparing
    <3>3. Tells(NewStrategy)
      BY <2>4, <3>1, NewTypes, ResetTells DEF NoRevision
    <3> QED
      BY <3>1, <3>2, <3>3
         DEF Sound, WorldLabelled, BatchTaken, ConversationKept, UndoAimed, NoRevision
  <2> QED
    BY <2>4, <2>5, <2>6 DEF PInv
<1>2. PInv /\ [Next]_vars => PInv'
  <2>1. SUFFICES ASSUME TypeOK, OneRowPerTurn, \A s \in Sessions : Sound(s), [Next]_vars
                 PROVE  PInv'
    BY DEF PInv
  <2>2. ASSUME NEW s \in Sessions, Load(s) \/ Command(s) \/ Turn(s) \/ Die(s) PROVE PInv'
    <3>1. /\ TypeOK' /\ (\A o \in Sessions \ {s} : Untouched(o)) /\ Sound(s)'
          /\ Unwritten(s) \/ Written(s)
      BY <2>1, <2>2, OwnStep
    <3>2. OneRowPerTurn'
      BY <2>1, <2>2, StepDistinct
    <3>3. ASSUME NEW o \in Sessions \ {s} PROVE Sound(o)'
      <4>1. CASE Unwritten(s)
        BY <2>1, <3>1, <4>1, OthersUnwritten DEF Unwritten
      <4>2. CASE Written(s)
        BY <2>1, <3>1, <4>2, OthersWritten DEF Written
      <4> QED
        BY <3>1, <4>1, <4>2
    <3> QED
      BY <3>1, <3>2, <3>3 DEF PInv
  <2>3. CASE UNCHANGED vars
    <3>1. TypeOK' /\ OneRowPerTurn'
      BY <2>1, <2>3 DEF vars, storeVars, TypeOK, OneRowPerTurn
    <3>2. \A o \in Sessions : Sound(o)'
      BY <2>1, <2>3, OthersUnwritten DEF vars, storeVars, Untouched
    <3> QED
      BY <3>1, <3>2 DEF PInv
  <2> QED
    BY <2>1, <2>2, <2>3 DEF Next
<1> QED
  BY <1>1, <1>2, PTL DEF Spec

-----------------------------------------------------------------------------
(* The properties. *)

\* The conversation the narrator continues is the end of the story it adds to, of
\* the length the narrator keeps: whatever is rewound, refused, restored, compared
\* or written by another process, a conversation that missed a change carries a
\* revision that is not the snapshot's and is dropped before it is continued.
THEOREM ConversationFollowsStory == Spec => []ConversationEndsStory
<1>1. PInv => ConversationEndsStory
  BY DEF PInv, Sound, ConversationKept, Tells, ConversationEndsStory, Preparing
<1> QED
  BY <1>1, PlayInvariance, PTL

\* A published turn was folded from the history it extends, unless another process
\* wrote between the fold of this world and the reading of its label: the two
\* readings of build_engine are the only hole in the check of run_turn.
THEOREM OnlyLateWorldsAreStale == Spec => StaleOnlyWhenLate
<1>1. ASSUME PInv
      PROVE  \A s \in Sessions : Publish(s) => s \in late \/ world[s].folded = Active(log)
  <2>1. SUFFICES ASSUME NEW s \in Sessions, Publish(s), s \notin late
                 PROVE  world[s].folded = Active(log)
    OBVIOUS
  <2>2. Preparing(s) /\ batch[s].revision = revision
    BY <2>1 DEF Publish, BatchIsCurrent, Preparing
  <2>3. WorldLabelled(s)
    BY <1>1 DEF PInv, Sound
  <2> QED
    BY <2>1, <2>2, <2>3 DEF WorldLabelled
<1> QED
  BY <1>1, PlayInvariance, PTL DEF StaleOnlyWhenLate

\* What a process that wrote last holds: a fold waiting for its label, or a labelled
\* world; either is of the whole log.
OwnCurrent(s) ==
    writer = s =>
        /\ pc[s] = "label" => world[s].folded = Active(log)
        /\ pc[s] \in {"settle", "prompt", "produce", "publish"}
              => world[s].folded = Active(log) /\ world[s].revision = revision
OwnInv == \A s \in Sessions : OwnCurrent(s)

\* A step of a process that wrote last, or that makes it the last writer, leaves it
\* with a current world.
LEMMA OwnKept ==
    ASSUME TypeOK, NEW s \in Sessions, Sound(s), OwnCurrent(s),
           Load(s) \/ Command(s) \/ Turn(s) \/ Die(s)
    PROVE  OwnCurrent(s)'
<1>1. world[s] \in World /\ revision \in Nat /\ s \in DOMAIN pc /\ s \in DOMAIN world
  BY SessionTypes DEF TypeOK
<1>2. CASE Load(s)
  <2>1. log' = log /\ revision' = revision /\ writer' = writer
    BY <1>2 DEF Load, Project, Label, Settle, storeVars
  <2>2. CASE Project(s)
    <3>1. pc'[s] = "label" /\ world'[s].folded = Active(log)
      BY <1>1, <2>2 DEF Project, Goto, TypeOK, World
    <3> QED
      BY <2>1, <3>1 DEF OwnCurrent
  <2>3. CASE Label(s)
    <3>1. /\ pc[s] = "label" /\ pc'[s] = "settle" /\ world'[s].folded = world[s].folded
          /\ world'[s].revision = revision
      BY <1>1, <2>3 DEF Label, Goto, TypeOK, World
    <3> QED
      BY <2>1, <3>1 DEF OwnCurrent
  <2>4. CASE Settle(s)
    <3>1. pc[s] = "settle" /\ pc'[s] = "prompt" /\ world' = world
      BY <1>1, <2>4 DEF Settle, Goto, TypeOK
    <3> QED
      BY <2>1, <3>1 DEF OwnCurrent
  <2> QED
    BY <1>2, <2>2, <2>3, <2>4 DEF Load
<1>3. CASE Command(s) \/ Die(s)
  <2>1. pc'[s] \in {"retract", "undo", "undo_retract", "project"}
    BY <1>1, <1>3 DEF Command, Rewind, Undo, FindLastTurn, RetractFromTurn, Die, Goto, TypeOK
  <2> QED
    BY <2>1 DEF OwnCurrent
<1>4. CASE Publish(s)
  <2>1. Active(Append(batch[s].snapshot, Row(LastTurn(batch[s].snapshot) + 1))) = Active(log')
    BY <1>4 DEF Publish, Proposal
  <2>2. world'[s] = ResultWorld(s) /\ revision' = revision + 1
    BY <1>1, <1>4 DEF Publish, TypeOK
  <2>3. world'[s].folded = Active(log') /\ world'[s].revision = revision'
    BY <2>1, <2>2 DEF ResultWorld, Proposal
  <2> QED
    BY <2>3 DEF OwnCurrent
<1>5. CASE Turn(s) /\ ~Publish(s)
  <2>1. log' = log /\ revision' = revision /\ writer' = writer /\ world' = world
    BY <1>5 DEF Turn, Prepare, Refuse, Produce, ProduceCandidate, Fail, Conflict, storeVars
  <2>2. pc'[s] = "project" \/ pc[s] \in {"prompt", "produce", "publish"}
    BY <1>5 DEF Turn, Prepare, Refuse, Produce, ProduceCandidate, Fail, Conflict
  <2>3. pc'[s] \in {"project", "prompt", "produce", "publish"}
    BY <1>1, <1>5
       DEF Turn, Prepare, Refuse, Produce, ProduceCandidate, Fail, Conflict, Goto, TypeOK
  <2> QED
    BY <2>1, <2>2, <2>3 DEF OwnCurrent
<1> QED
  BY <1>2, <1>3, <1>4, <1>5

\* The worlds of the last writer stay current: another process's step either writes,
\* and then it is the last writer, or leaves log, revision and world alone.
LEMMA OwnInvariance == Spec => []OwnInv
<1>1. Init => OwnInv
  BY DEF Init, OwnInv, OwnCurrent
<1>2. PInv /\ OwnInv /\ [Next]_vars => OwnInv'
  <2>1. SUFFICES ASSUME PInv, OwnInv, [Next]_vars, NEW o \in Sessions
                 PROVE  OwnCurrent(o)'
    BY DEF OwnInv
  <2>2. TypeOK /\ (\A s \in Sessions : Sound(s)) /\ OwnCurrent(o)
    BY <2>1 DEF PInv, OwnInv
  <2>3. ASSUME NEW s \in Sessions, Load(s) \/ Command(s) \/ Turn(s) \/ Die(s)
        PROVE  OwnCurrent(o)'
    <3>1. CASE s = o
      BY <2>2, <2>3, <3>1, OwnKept
    <3>2. CASE s # o
      <4>1. Untouched(o) /\ (Unwritten(s) \/ Written(s))
        BY <2>2, <2>3, <3>2, OwnStep
      <4>2. CASE Written(s)
        BY <3>2, <4>2 DEF Written, OwnCurrent
      <4>3. CASE Unwritten(s)
        BY <2>2, <4>1, <4>3 DEF Unwritten, Untouched, OwnCurrent
      <4> QED
        BY <4>1, <4>2, <4>3
    <3> QED
      BY <3>1, <3>2
  <2>4. CASE UNCHANGED vars
    BY <2>2, <2>4 DEF vars, storeVars, OwnCurrent
  <2> QED
    BY <2>1, <2>3, <2>4 DEF Next
<1> QED
  BY <1>1, <1>2, PlayInvariance, PTL DEF Spec

\* A process whose last change nobody has followed up holds the world of the whole
\* log and prepares current turns: with one process no turn is ever refused.
THEOREM OwnChangesAreSeen == Spec => []OwnWritesSeen
<1>1. PInv /\ OwnInv => OwnWritesSeen
  <2>1. SUFFICES ASSUME PInv, OwnInv, NEW s \in Sessions, writer = s,
                        pc[s] = "prompt" \/ Preparing(s)
                 PROVE  /\ world[s] = [folded |-> Active(log), revision |-> revision]
                        /\ Preparing(s) => BatchIsCurrent(s)
    BY DEF OwnWritesSeen
  <2>2. world[s].folded = Active(log) /\ world[s].revision = revision
    BY <2>1 DEF OwnInv, OwnCurrent, Preparing
  <2>3. world[s] \in World
    BY <2>1, SessionTypes DEF PInv
  <2>4. Preparing(s) => batch[s].revision = world[s].revision
    BY <2>1 DEF PInv, Sound, WorldLabelled
  <2> QED
    BY <2>2, <2>3, <2>4 DEF World, BatchIsCurrent
<1> QED
  BY <1>1, PlayInvariance, OwnInvariance, PTL

\* /undo takes back one turn, the last, when a turn was played and nobody else wrote
\* since this process did: the number it cuts at is read before the transaction,
\* and no two visible turns share it.
THEOREM UndoTakesOneTurn == Spec => UndoTakesTheLastTurn
<1> DEFINE A == \A s \in Sessions :
                   pc[s] = "undo_retract" /\ RetractFromTurn(s) /\ writer = s /\ Played(log) # {}
                      => \E i \in Played(log) :
                            /\ Active(log) \ Active(log') = {i}
                            /\ \A j \in Played(log) : log[j].turn <= log[i].turn
<1>1. ASSUME PInv PROVE A
  <2>1. SUFFICES ASSUME NEW s \in Sessions, pc[s] = "undo_retract", RetractFromTurn(s),
                        writer = s, Played(log) # {}
                 PROVE  \E i \in Played(log) :
                            /\ Active(log) \ Active(log') = {i}
                            /\ \A j \in Played(log) : log[j].turn <= log[i].turn
    OBVIOUS
  <2>2. TypeOK /\ OneRowPerTurn /\ UndoAimed(s)
    BY <1>1 DEF PInv, Sound
  <2>3. log \in Seq(LogRow) /\ target[s] = LastTurn(log)
    BY <2>1, <2>2 DEF TypeOK, UndoAimed
  <2>4. /\ LastTurn(log) \in Nat
        /\ LastTurn(log) = 0 \/ \E i \in Played(log) : log[i].turn = LastTurn(log)
        /\ \A i \in Active(log) : log[i].turn <= LastTurn(log) /\ log[i].turn \in Nat
    BY <2>3, LastTurnIsLargest, RowsOfLog
  <2>5. LastTurn(log) > 0
    <3>1. PICK i \in Played(log) : TRUE
      BY <2>1
    <3>2. i \in Active(log) /\ log[i].turn > 0
      BY <3>1 DEF Played
    <3> QED
      BY <2>4, <3>2
  <2>6. PICK i \in Played(log) : log[i].turn = LastTurn(log)
    BY <2>4, <2>5
  <2>7. Active(log') = {j \in Active(log) : log[j].turn < LastTurn(log)}
    BY <2>1, <2>3, <2>4, CutRows DEF RetractFromTurn
  <2>8. \A j \in Active(log) : log[j].turn = LastTurn(log) => j = i
    BY <2>2, <2>5, <2>6 DEF OneRowPerTurn, Played
  <2>9. i \in Active(log) /\ \A j \in Played(log) : log[j].turn <= log[i].turn
    BY <2>4, <2>6 DEF Played
  <2>10. Active(log) \ Active(log') = {i}
    <3>1. \A j \in Active(log) : ~(log[j].turn < LastTurn(log)) <=> j = i
      BY <2>4, <2>6, <2>8
    <3> QED
      BY <2>7, <2>9, <3>1
  <2> QED
    BY <2>9, <2>10
<1>2. PInv => [A]_vars
  BY <1>1
<1> QED
  BY <1>2, PlayInvariance, PTL DEF UndoTakesTheLastTurn
=============================================================================
