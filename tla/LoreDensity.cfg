\* Four lines generated batch after batch in two towns under caps, or three beside
\* one the narrator opens or the backstop flags; the one day stands for refresh
\* intervals.
CONSTANTS
  g1 = g1
  g2 = g2
  g3 = g3
  g4 = g4
  quest = quest
  t1 = t1
  t2 = t2
  Nowhere = Nowhere
  Hero = Hero
  NoAnchor = NoAnchor
  GenesisLines = {}
  PersonalLines = {}
  GeneratedLines = {g1, g2, g3, g4}
  NarratedLines = {quest}
  Towns = {t1, t2}
  Lifespan <- OneDay
  Cap <- FewSlots
  StageCount <- OneStage
  Target = 2
  IdleDays = 1
  RefreshDays = 0
  MaxStages = 1
  MaxDay = 1
SPECIFICATION Spec
CONSTRAINT FewLines
SYMMETRY Interchangeable
INVARIANTS CapsHold
PROPERTIES NothingReopens
