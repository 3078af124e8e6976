----------------------------- MODULE JsonlMirror -----------------------------
(***************************************************************************)
(* The JSONL export of the event store (engine/store.py:179-212).          *)
(*                                                                         *)
(* Every committed change is followed by a rebuild of events.jsonl from    *)
(* SQLite in a second write transaction: take the lock, read all rows into *)
(* a temporary file, rename it over the export, release the lock.  The     *)
(* process may die between any two of these steps, the disk may refuse,    *)
(* and the lock may stay busy until the connection's timeout.              *)
(*                                                                         *)
(* The log is its revision number here (EventStore shows that a revision   *)
(* names one history) and a file is the revision it was rebuilt from.      *)
(***************************************************************************)
EXTENDS Integers

CONSTANTS
    Sessions,      \* processes with a connection to the campaign
    NoSession,     \* nobody holds the write lock
    MaxRevision    \* bound: committed changes

ASSUME MirrorAssumption == NoSession \notin Sessions /\ MaxRevision \in Nat

VARIABLES
    revision,      \* the last committed change
    file,          \* the revision events.jsonl was rebuilt from
    lock,          \* holder of the SQLite write lock between transactions' steps
    pc,            \* where each process is in append_many .. sync_jsonl
    temp,          \* the revision its temporary file holds
    wrote,         \* the last revision this process committed
    mirror_error,  \* EventStore.mirror_error, as a flag
    lost           \* history: a death took an unexported commit or its warning away

vars == <<revision, file, lock, pc, temp, wrote, mirror_error, lost>>

Places == {"idle", "unsynced", "locked", "read", "replaced", "down"}

Init ==
    /\ revision = 0
    /\ file = 0
    /\ lock = NoSession
    /\ pc = [s \in Sessions |-> "idle"]
    /\ temp = [s \in Sessions |-> 0]
    /\ wrote = [s \in Sessions |-> 0]
    /\ mirror_error = [s \in Sessions |-> FALSE]
    /\ lost = FALSE

Goto(s, place) == pc' = [pc EXCEPT ![s] = place]

\* append_many or _retract commits; only a change of the log counts here.
Commit(s) ==
    /\ pc[s] = "idle"
    /\ lock = NoSession
    /\ revision < MaxRevision
    /\ revision' = revision + 1
    /\ wrote' = [wrote EXCEPT ![s] = revision']
    /\ Goto(s, "unsynced")
    /\ UNCHANGED <<file, lock, temp, mirror_error, lost>>

\* append_many with nothing to store, or _retract that hits no row, also
\* commits and exports.
CommitNothing(s) ==
    /\ pc[s] = "idle"
    /\ lock = NoSession
    /\ Goto(s, "unsynced")
    /\ UNCHANGED <<revision, file, lock, temp, wrote, mirror_error, lost>>

\* Mutant: the export reads in a deferred transaction, without the write lock.
Lock_deferred(s) ==
    /\ pc[s] = "unsynced"
    /\ lock' = s
    /\ Goto(s, "locked")
    /\ UNCHANGED <<revision, file, temp, wrote, mirror_error, lost>>

\* sync_jsonl: BEGIN IMMEDIATE.
Lock(s) ==
    /\ pc[s] = "unsynced"
    /\ lock = NoSession
    /\ lock' = s
    /\ Goto(s, "locked")
    /\ UNCHANGED <<revision, file, temp, wrote, mirror_error, lost>>

\* _rewrite_jsonl: every row into a temporary file beside the export.
ReadRows(s) ==
    /\ pc[s] = "locked"
    /\ temp' = [temp EXCEPT ![s] = revision]
    /\ Goto(s, "read")
    /\ UNCHANGED <<revision, file, lock, wrote, mirror_error, lost>>

\* tmp.replace(jsonl_path)
Replace(s) ==
    /\ pc[s] = "read"
    /\ file' = temp[s]
    /\ Goto(s, "replaced")
    /\ UNCHANGED <<revision, lock, temp, wrote, mirror_error, lost>>

Unlocked(s) == IF lock = s THEN NoSession ELSE lock

\* COMMIT, and the earlier failure is forgotten.
Synced(s) ==
    /\ pc[s] = "replaced"
    /\ lock' = Unlocked(s)
    /\ mirror_error' = [mirror_error EXCEPT ![s] = FALSE]
    /\ Goto(s, "idle")
    /\ UNCHANGED <<revision, file, temp, wrote, lost>>

\* Mutant: an export waits for the lock as long as it takes.
SyncFails_patient(s) ==
    /\ pc[s] \in {"locked", "read", "replaced"}
    /\ lock' = Unlocked(s)
    /\ mirror_error' = [mirror_error EXCEPT ![s] = TRUE]
    /\ Goto(s, "idle")
    /\ UNCHANGED <<revision, file, temp, wrote, lost>>

\* Mutant: the failure is logged and forgotten.
SyncFails_silent(s) ==
    /\ pc[s] \in {"unsynced", "locked", "read", "replaced"}
    /\ lock' = Unlocked(s)
    /\ Goto(s, "idle")
    /\ UNCHANGED <<revision, file, temp, wrote, mirror_error, lost>>

\* OSError or sqlite3.Error anywhere, the busy timeout included: the transaction
\* is rolled back (the renamed file stays) and the failure is remembered.
SyncFails(s) ==
    /\ pc[s] \in {"unsynced", "locked", "read", "replaced"}
    /\ lock' = Unlocked(s)
    /\ mirror_error' = [mirror_error EXCEPT ![s] = TRUE]
    /\ Goto(s, "idle")
    /\ UNCHANGED <<revision, file, temp, wrote, lost>>

\* The process ends, by /quit or by a crash; SQLite drops its lock.
Die(s) ==
    /\ pc[s] # "down"
    /\ lost' = (lost \/ pc[s] # "idle" \/ mirror_error[s])
    /\ lock' = Unlocked(s)
    /\ Goto(s, "down")
    /\ UNCHANGED <<revision, file, temp, wrote, mirror_error>>

\* __init__ opens the database and does not rebuild the export.
Reopen(s) ==
    /\ pc[s] = "down"
    /\ Goto(s, "idle")
    /\ wrote' = [wrote EXCEPT ![s] = 0]
    /\ mirror_error' = [mirror_error EXCEPT ![s] = FALSE]
    /\ UNCHANGED <<revision, file, lock, temp, lost>>

Sync(s) == Lock(s) \/ ReadRows(s) \/ Replace(s) \/ Synced(s) \/ SyncFails(s)

Next == \E s \in Sessions :
    Commit(s) \/ CommitNothing(s) \/ Sync(s) \/ Die(s) \/ Reopen(s)

\* A commit is followed by _sync_mirror_safely in the same call, and the busy
\* timeout ends every wait for the lock.
Fairness == \A s \in Sessions : WF_vars(Sync(s))

Spec == Init /\ [][Next]_vars /\ Fairness

-----------------------------------------------------------------------------
\* Every variable keeps its type.
TypeOK ==
    /\ revision \in Nat
    /\ file \in Nat
    /\ lock \in Sessions \cup {NoSession}
    /\ pc \in [Sessions -> Places]
    /\ temp \in [Sessions -> Nat]
    /\ wrote \in [Sessions -> Nat]
    /\ mirror_error \in [Sessions -> BOOLEAN]
    /\ lost \in BOOLEAN

Exporting == {"locked", "read", "replaced"}

\* No lock is leaked: whoever holds it is exporting, so nobody waits for ever.
LockHeldByExporter == \A s \in Sessions : lock = s => pc[s] \in Exporting

\* "An older snapshot cannot replace the export of a newer commit from another
\* connection" (store.py:188-189).
MirrorNeverRegresses == [][file' >= file]_vars

\* The export is behind only for a reason that can be named: a process is still
\* exporting, a process remembers its failure, or a process died holding one.
StaleIsAccounted ==
    \/ file = revision
    \/ \E s \in Sessions : pc[s] \in {"unsynced", "locked", "read"} \/ mirror_error[s]
    \/ lost

\* A receipt without mirror_pending means the export holds the action: a process
\* that remembers no failure has all it committed in the file.
HonestReceipt ==
    \A s \in Sessions :
        pc[s] = "idle" /\ ~mirror_error[s] => file >= wrote[s]

\* Every commit reaches the export, is reported as pending, or dies with its
\* process; no two exporters block each other for ever.
MirrorSettles ==
    \A s \in Sessions, n \in 1..MaxRevision :
        (pc[s] = "unsynced" /\ wrote[s] = n)
            ~> (file >= n \/ mirror_error[s] \/ pc[s] = "down")
=============================================================================
