\* Two processes commit, export, fail, die and reopen; the liveness rules out symmetry.
CONSTANTS
  s1 = s1
  s2 = s2
  NoSession = NoSession
  Sessions = {s1, s2}
  MaxRevision = 3
SPECIFICATION Spec
INVARIANTS  StaleIsAccounted 
PROPERTIES MirrorNeverRegresses MirrorSettles
