\* Two processes play turns, run hooks in savepoints and rewind.
CONSTANTS
  s1 = s1
  s2 = s2
  a1 = a1
  a2 = a2
  a3 = a3
  e1 = e1
  NoAction = NoAction
  Sessions = {s1, s2}
  ActionIds = {a1, a2, a3}
  Events = {e1}
  DirectTurns = {}
  DirectSeqs = {}
  MaxRows = 3
  MaxRevision = 5
  MaxStaged = 2
  MaxRetractions = 0
SPECIFICATION Spec
SYMMETRY Interchangeable
INVARIANTS WholeActions PlayTurnsOrdered 
