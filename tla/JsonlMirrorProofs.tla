-------------------------- MODULE JsonlMirrorProofs --------------------------
(***************************************************************************)
(* Proofs about JsonlMirror, for every number of processes and commits.    *)
(*                                                                         *)
(* The argument is the write lock: from BEGIN IMMEDIATE to COMMIT nobody   *)
(* else commits, so what an exporter read is still the whole log when it   *)
(* renames its file over the export.                                       *)
(***************************************************************************)
EXTENDS JsonlMirror, TLAPS

\* An exporter holds the lock, and nobody else is one.
ExporterHoldsLock == \A s \in Sessions : pc[s] \in Exporting => lock = s

\* Nothing is ahead of the log.
NothingAhead == file <= revision /\ \A s \in Sessions : wrote[s] <= revision

\* What was read under the lock is the log, and so is what was renamed.
ReadIsCurrent ==
    \A s \in Sessions :
        /\ pc[s] = "read" => temp[s] = revision
        /\ pc[s] = "replaced" => file = revision

\* A warning that died with its process is counted as lost.
LostWarnings == \A s \in Sessions : pc[s] = "down" /\ mirror_error[s] => lost

\* The inductive invariant.
IInv ==
    /\ TypeOK
    /\ LockHeldByExporter
    /\ ExporterHoldsLock
    /\ NothingAhead
    /\ ReadIsCurrent
    /\ LostWarnings
    /\ StaleIsAccounted
    /\ HonestReceipt

\* At the start nothing is committed and nobody exports.
LEMMA InitHolds == Init => IInv
<1> SUFFICES ASSUME Init
             PROVE  IInv
  OBVIOUS
<1>1. TypeOK
  BY DEF Init, TypeOK, Places
<1>2. LockHeldByExporter /\ ExporterHoldsLock /\ ReadIsCurrent
  BY MirrorAssumption DEF Init, LockHeldByExporter, ExporterHoldsLock, ReadIsCurrent, Exporting
<1>3. NothingAhead /\ HonestReceipt
  BY DEF Init, NothingAhead, HonestReceipt
<1>4. StaleIsAccounted /\ LostWarnings
  BY DEF Init, StaleIsAccounted, LostWarnings
<1> QED
  BY <1>1, <1>2, <1>3, <1>4 DEF IInv

-----------------------------------------------------------------------------
(* One lemma per step. *)

\* A commit needs the lock, so nobody is exporting.
LEMMA CommitStep ==
    ASSUME IInv, NEW s \in Sessions, Commit(s) \/ CommitNothing(s)
    PROVE  IInv'
<1>1. pc[s] = "idle" /\ lock = NoSession /\ pc' = [pc EXCEPT ![s] = "unsynced"]
  BY DEF Commit, CommitNothing, Goto
<1>2. \A o \in Sessions : pc[o] \notin Exporting
  BY <1>1, MirrorAssumption DEF IInv, ExporterHoldsLock
<1>3. /\ revision' \in Nat /\ revision <= revision'
      /\ wrote' \in [Sessions -> Nat]
      /\ \A o \in Sessions : wrote'[o] <= revision' /\ (o # s => wrote'[o] = wrote[o])
  BY DEF Commit, CommitNothing, IInv, TypeOK, NothingAhead
<1>4. UNCHANGED <<file, lock, temp, mirror_error, lost>>
  BY DEF Commit, CommitNothing
<1>5. TypeOK'
  BY <1>1, <1>3, <1>4 DEF IInv, TypeOK, Places
<1>6. \A o \in Sessions : pc'[o] = IF o = s THEN "unsynced" ELSE pc[o]
  BY <1>1 DEF IInv, TypeOK
<1>7. (LockHeldByExporter /\ ExporterHoldsLock /\ ReadIsCurrent)'
  BY <1>1, <1>2, <1>4, <1>6, MirrorAssumption
     DEF LockHeldByExporter, ExporterHoldsLock, ReadIsCurrent, Exporting
<1>8. NothingAhead' /\ LostWarnings'
  BY <1>3, <1>4, <1>6 DEF IInv, TypeOK, NothingAhead, LostWarnings
<1>9. StaleIsAccounted' /\ HonestReceipt'
  BY <1>3, <1>4, <1>6 DEF IInv, StaleIsAccounted, HonestReceipt
<1> QED
  BY <1>5, <1>7, <1>8, <1>9 DEF IInv

\* The lock is free before and taken after.
LEMMA LockStep ==
    ASSUME IInv, NEW s \in Sessions, Lock(s)
    PROVE  IInv'
<1>1. \A o \in Sessions : pc'[o] = IF o = s THEN "locked" ELSE pc[o]
  BY DEF IInv, TypeOK, Lock, Goto
<1>2. TypeOK'
  BY DEF IInv, TypeOK, Lock, Goto, Places
<1>3. \A o \in Sessions : pc[o] \notin Exporting
  BY MirrorAssumption DEF IInv, ExporterHoldsLock, Lock
<1>4. (LockHeldByExporter /\ ExporterHoldsLock)'
  BY <1>1, <1>3 DEF Lock, LockHeldByExporter, ExporterHoldsLock, Exporting
<1>5. (NothingAhead /\ ReadIsCurrent /\ LostWarnings)'
  BY <1>1, <1>3 DEF IInv, Lock, NothingAhead, ReadIsCurrent, LostWarnings, Exporting
<1>6. (StaleIsAccounted /\ HonestReceipt)'
  BY <1>1 DEF IInv, Lock, StaleIsAccounted, HonestReceipt
<1> QED
  BY <1>2, <1>4, <1>5, <1>6 DEF IInv

\* Under the lock, reading and renaming make the export the whole log.
LEMMA RewriteStep ==
    ASSUME IInv, NEW s \in Sessions, ReadRows(s) \/ Replace(s)
    PROVE  IInv'
<1>1. CASE ReadRows(s)
  <2>1. \A o \in Sessions : /\ pc'[o] = IF o = s THEN "read" ELSE pc[o]
                            /\ temp'[o] = IF o = s THEN revision ELSE temp[o]
    BY <1>1 DEF IInv, TypeOK, ReadRows, Goto
  <2>2. TypeOK'
    BY <1>1 DEF IInv, TypeOK, ReadRows, Goto, Places
  <2>3. (LockHeldByExporter /\ ExporterHoldsLock)'
    BY <1>1, <2>1 DEF IInv, ReadRows, LockHeldByExporter, ExporterHoldsLock, Exporting
  <2>4. (NothingAhead /\ ReadIsCurrent /\ LostWarnings)'
    BY <1>1, <2>1 DEF IInv, ReadRows, NothingAhead, ReadIsCurrent, LostWarnings
  <2>5. (StaleIsAccounted /\ HonestReceipt)'
    BY <1>1, <2>1 DEF IInv, ReadRows, StaleIsAccounted, HonestReceipt
  <2> QED
    BY <2>2, <2>3, <2>4, <2>5 DEF IInv
<1>2. CASE Replace(s)
  <2>1. \A o \in Sessions : pc'[o] = IF o = s THEN "replaced" ELSE pc[o]
    BY <1>2 DEF IInv, TypeOK, Replace, Goto
  <2>2. file' = revision /\ revision' = revision
    BY <1>2 DEF IInv, ReadIsCurrent, Replace
  <2>3. TypeOK'
    BY <1>2, <2>2 DEF IInv, TypeOK, Replace, Goto, Places
  <2>4. (LockHeldByExporter /\ ExporterHoldsLock)'
    BY <1>2, <2>1 DEF IInv, Replace, LockHeldByExporter, ExporterHoldsLock, Exporting
  <2>5. (NothingAhead /\ ReadIsCurrent /\ LostWarnings)'
    BY <1>2, <2>1, <2>2 DEF IInv, TypeOK, Replace, NothingAhead, ReadIsCurrent, LostWarnings
  <2>6. (StaleIsAccounted /\ HonestReceipt)'
    BY <1>2, <2>1, <2>2 DEF IInv, TypeOK, NothingAhead, Replace, StaleIsAccounted, HonestReceipt
  <2> QED
    BY <2>3, <2>4, <2>5, <2>6 DEF IInv
<1> QED
  BY <1>1, <1>2

\* An export ends, in success or not, and leaves the lock to the others.
LEMMA EndStep ==
    ASSUME IInv, NEW s \in Sessions, Synced(s) \/ SyncFails(s)
    PROVE  IInv'
<1>1. \A o \in Sessions : pc'[o] = IF o = s THEN "idle" ELSE pc[o]
  BY DEF IInv, TypeOK, Synced, SyncFails, Goto
<1>2. /\ lock' = Unlocked(s)
      /\ UNCHANGED <<revision, file, temp, wrote, lost>>
      /\ \A o \in Sessions : o # s => mirror_error'[o] = mirror_error[o]
      /\ mirror_error'[s] \/ file = revision
  BY DEF IInv, TypeOK, ReadIsCurrent, Synced, SyncFails
<1>3. TypeOK'
  BY <1>2, MirrorAssumption DEF IInv, TypeOK, Synced, SyncFails, Goto, Places, Unlocked
<1>4. (LockHeldByExporter /\ ExporterHoldsLock)'
  BY <1>1, <1>2, MirrorAssumption
     DEF IInv, Unlocked, LockHeldByExporter, ExporterHoldsLock, Exporting
<1>5. (NothingAhead /\ ReadIsCurrent /\ LostWarnings)'
  BY <1>1, <1>2 DEF IInv, NothingAhead, ReadIsCurrent, LostWarnings
<1>6. StaleIsAccounted'
  BY <1>1, <1>2 DEF IInv, StaleIsAccounted
<1>7. HonestReceipt'
  BY <1>1, <1>2 DEF IInv, NothingAhead, HonestReceipt
<1> QED
  BY <1>3, <1>4, <1>5, <1>6, <1>7 DEF IInv

\* A death frees the lock and is remembered; a new process starts with nothing.
LEMMA ProcessStep ==
    ASSUME IInv, NEW s \in Sessions, Die(s) \/ Reopen(s)
    PROVE  IInv'
<1>1. CASE Die(s)
  <2>1. \A o \in Sessions : pc'[o] = IF o = s THEN "down" ELSE pc[o]
    BY <1>1 DEF IInv, TypeOK, Die, Goto
  <2>2. TypeOK'
    BY <1>1, MirrorAssumption DEF IInv, TypeOK, Die, Goto, Places, Unlocked
  <2>3. (LockHeldByExporter /\ ExporterHoldsLock)'
    BY <1>1, <2>1, MirrorAssumption
       DEF IInv, Die, Unlocked, LockHeldByExporter, ExporterHoldsLock, Exporting
  <2>4. (NothingAhead /\ ReadIsCurrent /\ LostWarnings)'
    BY <1>1, <2>1 DEF IInv, Die, NothingAhead, ReadIsCurrent, LostWarnings
  <2>5. (StaleIsAccounted /\ HonestReceipt)'
    BY <1>1, <2>1 DEF IInv, Die, StaleIsAccounted, HonestReceipt
  <2> QED
    BY <2>2, <2>3, <2>4, <2>5 DEF IInv
<1>2. CASE Reopen(s)
  <2>1. \A o \in Sessions : /\ pc'[o] = IF o = s THEN "idle" ELSE pc[o]
                            /\ wrote'[o] = IF o = s THEN 0 ELSE wrote[o]
                            /\ mirror_error'[o] = IF o = s THEN FALSE ELSE mirror_error[o]
    BY <1>2 DEF IInv, TypeOK, Reopen, Goto
  <2>2. TypeOK'
    BY <1>2 DEF IInv, TypeOK, Reopen, Goto, Places
  <2>3. (LockHeldByExporter /\ ExporterHoldsLock)'
    BY <1>2, <2>1 DEF IInv, Reopen, LockHeldByExporter, ExporterHoldsLock, Exporting
  <2>4. (NothingAhead /\ ReadIsCurrent /\ LostWarnings)'
    BY <1>2, <2>1 DEF IInv, TypeOK, Reopen, NothingAhead, ReadIsCurrent, LostWarnings
  <2>5. (StaleIsAccounted /\ HonestReceipt)'
    BY <1>2, <2>1 DEF IInv, TypeOK, Reopen, LostWarnings, StaleIsAccounted, HonestReceipt
  <2> QED
    BY <2>2, <2>3, <2>4, <2>5 DEF IInv
<1> QED
  BY <1>1, <1>2

\* Every step keeps the invariant.
LEMMA StepHolds == IInv /\ [Next]_vars => IInv'
<1> SUFFICES ASSUME IInv, [Next]_vars
             PROVE  IInv'
  OBVIOUS
<1>1. CASE UNCHANGED vars
  BY <1>1 DEF vars, IInv, TypeOK, LockHeldByExporter, ExporterHoldsLock, NothingAhead,
              ReadIsCurrent, LostWarnings, StaleIsAccounted, HonestReceipt
<1>2. ASSUME NEW s \in Sessions,
             Commit(s) \/ CommitNothing(s) \/ Sync(s) \/ Die(s) \/ Reopen(s)
      PROVE  IInv'
  BY <1>2, CommitStep, LockStep, RewriteStep, EndStep, ProcessStep DEF Sync
<1> QED
  BY <1>1, <1>2 DEF Next

\* The invariant holds in every state of every execution.
THEOREM Invariance == Spec => []IInv
BY InitHolds, StepHolds, PTL DEF Spec

-----------------------------------------------------------------------------
(* The properties. *)

\* The variables of the exporters keep their types.
THEOREM TypeCorrect == Spec => []TypeOK
<1>1. IInv => TypeOK
  BY DEF IInv
<1> QED
  BY <1>1, Invariance, PTL

\* No lock outlives its export: every process that waits for one waits for a
\* process that is exporting.
THEOREM NoLockLeaks == Spec => []LockHeldByExporter
<1>1. IInv => LockHeldByExporter
  BY DEF IInv
<1> QED
  BY <1>1, Invariance, PTL

\* Whenever the export lags behind the log somebody is exporting, remembers that
\* it failed, or died with one of these.
THEOREM EveryLagIsAccounted == Spec => []StaleIsAccounted
<1>1. IInv => StaleIsAccounted
  BY DEF IInv
<1> QED
  BY <1>1, Invariance, PTL

\* A process that reports no pending export has all its commits in the file.
THEOREM ReceiptsAreHonest == Spec => []HonestReceipt
<1>1. IInv => HonestReceipt
  BY DEF IInv
<1> QED
  BY <1>1, Invariance, PTL

\* No step replaces the export by an older one: what is renamed over it was read
\* under the lock and is the whole log, of which the export is a part.
THEOREM NeverRegresses == Spec => MirrorNeverRegresses
<1>1. IInv /\ [Next]_vars => [file' >= file]_vars
  <2> SUFFICES ASSUME IInv, Next
               PROVE  file' >= file
    BY DEF vars
  <2>1. \A s \in Sessions : Replace(s) => file' >= file
    BY DEF IInv, TypeOK, ReadIsCurrent, NothingAhead, Replace
  <2>2. \A s \in Sessions : ~Replace(s) /\ (Commit(s) \/ CommitNothing(s) \/ Sync(s) \/ Die(s) \/ Reopen(s))
                               => file' = file
    BY DEF Commit, CommitNothing, Sync, Lock, ReadRows, Synced, SyncFails, Die, Reopen
  <2> QED
    BY <2>1, <2>2 DEF Next, IInv, TypeOK
<1> QED
  BY <1>1, Invariance, PTL DEF Spec, MirrorNeverRegresses
=============================================================================
