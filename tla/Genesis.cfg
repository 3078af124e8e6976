\* Two processes: a new world, two rerolls, turns and rewinds, in every order.
CONSTANTS
    s1 = s1
    s2 = s2
    Blank = Blank
    Wishes <- MCWishes
    Personal <- MCPersonal
    Dice <- MCDice
    Sources <- MCSources
    Sessions = {s1, s2}
    MaxRevision = 3
    MaxTurn = 1
SYMMETRY MCSymmetry
SPECIFICATION Spec
INVARIANTS
    WorldIsWhole
    BoundariesDivide
    WishesKept
PROPERTIES
    FreshDice
CHECK_DEADLOCK FALSE
