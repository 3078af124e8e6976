\* Batches with staged retractions race with unversioned appends that reuse action
\* ids, and with seq rewinds.
CONSTANTS
  s1 = s1
  s2 = s2
  a1 = a1
  a2 = a2
  e1 = e1
  NoAction = NoAction
  Sessions = {s1, s2}
  ActionIds = {a1, a2}
  Events = {e1}
  DirectTurns = {1}
  DirectSeqs = {2}
  MaxRows = 3
  MaxRevision = 3
  MaxStaged = 1
  MaxRetractions = 1
SPECIFICATION Spec
SYMMETRY Interchangeable
INVARIANTS TypeOK SnapshotCurrent ReceiptsExact
PROPERTIES NothingComesBack VLSpec PublishedIsPrepared
