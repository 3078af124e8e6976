SPECIFICATION Spec
CONSTANTS
    NoPlace = NoPlace
    MaxThreads = 1
    capital = capital
    dock = dock
    quay = quay
    march = march
    fort = fort
    mill = mill
    hills = hills
    Places <- MCPlaces
    Below <- MCBelow
    Beside <- MCBeside
    RawScenes = 1
    PerBucket = 2
    Fanout = 1
    Breadth = 1
    NodeBudget = 2
    SecondaryBreadth = 1
    Declarations <- MCDeclarations
    MaxTurn = 3
INVARIANTS
    DirectivesInOrder
    DrainedOnce
    SpreadIsBounded
    MemoryIsWhole
