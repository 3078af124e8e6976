\* A campaign line through turns, days and towns.
CONSTANTS
  thread = thread
  t1 = t1
  t2 = t2
  Nowhere = Nowhere
  Hero = Hero
  NoAnchor = NoAnchor
  GenesisLines = {thread}
  PersonalLines = {}
  GeneratedLines = {}
  NarratedLines = {}
  Towns = {t1, t2}
  Lifespan <- ShortLives
  Cap <- ManySlots
  StageCount <- Stages
  Target = 0
  IdleDays = 1
  RefreshDays = 4
  MaxStages = 2
  MaxDay = 4
SPECIFICATION Spec
INVARIANTS TypeOK FinaleIsDue NewsReachesPlayer
PROPERTIES AbandonedLinesEnd
