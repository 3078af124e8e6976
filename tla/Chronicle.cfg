\* Three turns of settling, telling, catching up and rewinding.
CONSTANTS
  Nothing = Nothing
  hero = hero
  n1 = n1
  n2 = n2
  n3 = n3
  here = here
  there = there
  Hero = hero
  Npcs = {n1, n2, n3}
  Places = {here, there}
  Start = here
  Home <- Town
  Purse = 2
  Floor = 0
  Amounts = {1, 3}
  Waits <- NextNoon
  Clocks <- Hours
  Tellings <- Told
  Arcs <- Reflections
  Replies = {1}
  Refusals <- Stubborn
  Budget = 2
  MaxTurn = 3
  MaxDay = 3
SPECIFICATION Spec
INVARIANTS TypeOK WorldIsFold PurseIsSettled
PROPERTIES TurnsAreClosed EntrantsCaughtUp ThePastStands
