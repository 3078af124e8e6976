SPECIFICATION Spec
CONSTANTS
    NoName = NoName
    NotAList = NotAList
    hero = hero
    sage = sage
    npc = npc
    auto1 = auto1
    auto2 = auto2
    auto3 = auto3
    kane = kane
    elder = elder
    Names = {kane, elder}
    Known = {hero, sage}
    Drafted = {npc}
    NpcAuto <- MCAuto
    Resembles <- MCResembles
    Drafts <- MCDrafts
    Revisions <- MCRevisions
    MaxRepairs = 2
    MaxRounds = 1
    MaxRetries = 1
    MaxTurns = 2
INVARIANTS
    NobodyImaginary
    KnownErrorsRepairable
PROPERTIES
    PassingSectionsKept
    TurnEnds
    RecordedNamesNotMinted
CHECK_DEADLOCK FALSE
