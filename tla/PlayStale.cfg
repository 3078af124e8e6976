\* A world folded before and labelled after the write of another process is not refused.
CONSTANTS
  s1 = s1
  s2 = s2
  NoSession = NoSession
  Sessions = {s1, s2}
  KeepExchanges = 2
  MaxRevision = 4
SPECIFICATION Spec
PROPERTIES StaleWorldsRejected
