---------------------------- MODULE VersionedLog ----------------------------
(***************************************************************************)
(* What the event store promises to the turn loop, with no revision        *)
(* numbers, receipts, locks or files.                                      *)
(*                                                                         *)
(* There is one log.  A session may begin a draft of it and edit the draft *)
(* in private for as long as it likes; a draft takes effect whole, and     *)
(* only if the log has not changed at all since the draft was begun.  Any  *)
(* other write is an extension too: entries are appended or hidden, and a  *)
(* hidden entry never shows again.                                         *)
(***************************************************************************)
EXTENDS Integers, Sequences

CONSTANT Sessions

VARIABLES
    log,    \* the sequence of entries, each with a flag that hides it
    open,   \* the sessions with a draft
    fresh,  \* the log has not changed since the session's draft was begun
    draft   \* the private copies

lvars == <<log, open, fresh, draft>>

Grows(old, new) ==
    /\ Len(old) <= Len(new)
    /\ \A i \in 1..Len(old) : /\ new[i].event = old[i].event
                              /\ new[i].turn = old[i].turn
                              /\ old[i].retracted => new[i].retracted

\* The log may hold a campaign already.
Init ==
    /\ open = [s \in Sessions |-> FALSE]
    /\ fresh = [s \in Sessions |-> FALSE]
    /\ draft = [s \in Sessions |-> <<>>]

\* The drafts still fresh after the log has become new; s has ended its own.
StillFresh(s, new) == [o \in Sessions |-> fresh[o] /\ o # s /\ new = log]

Begin(s) ==
    /\ ~open[s]
    /\ open' = [open EXCEPT ![s] = TRUE]
    /\ fresh' = [fresh EXCEPT ![s] = TRUE]
    /\ draft' = [draft EXCEPT ![s] = log]
    /\ UNCHANGED log

\* A private step: no other session can tell.
Edit(s) ==
    /\ open[s]
    /\ \A o \in Sessions \ {s} : draft'[o] = draft[o]
    /\ UNCHANGED <<log, open, fresh>>

Commit(s) ==
    /\ open[s]
    /\ fresh[s]
    /\ Grows(log, draft[s])
    /\ log' = draft[s]
    /\ open' = [open EXCEPT ![s] = FALSE]
    /\ fresh' = StillFresh(s, log')
    /\ draft' = [draft EXCEPT ![s] = <<>>]

Abandon(s) ==
    /\ open[s]
    /\ open' = [open EXCEPT ![s] = FALSE]
    /\ fresh' = [fresh EXCEPT ![s] = FALSE]
    /\ draft' = [draft EXCEPT ![s] = <<>>]
    /\ UNCHANGED log

\* An undo, or an append that asks for no particular version.
Overwrite(s) ==
    /\ ~open[s]
    /\ Grows(log, log')
    /\ fresh' = StillFresh(s, log')
    /\ UNCHANGED <<open, draft>>

Next == \E s \in Sessions : Begin(s) \/ Edit(s) \/ Commit(s) \/ Abandon(s) \/ Overwrite(s)

Spec == Init /\ [][Next]_lvars
=============================================================================
