\* Two processes play, compare, undo, rewind, conflict, fail and restart.
CONSTANTS
  s1 = s1
  s2 = s2
  NoSession = NoSession
  Sessions = {s1, s2}
  KeepExchanges = 2
  MaxRevision = 4
SPECIFICATION Spec
SYMMETRY Interchangeable
INVARIANTS ConversationEndsStory OwnWritesSeen
PROPERTIES StaleOnlyWhenLate UndoTakesTheLastTurn
