CONSTANTS
    KEYBUFSIZE = 3
    PlainKeys = {"a"}
    ExtendedKeys = {"up"}
    LongKeys = {}
    Pauses = {2}
    Rates = {1}
    Commands60 = {"ed", "f3"}
    Commands64 = {"ae", "d0", "d1"}
    MayOverflow = TRUE
SPECIFICATION FairSpec
INVARIANTS
    TypeOK
    NoStall
    RepeatHeld
PROPERTIES
    InOrder
    NoOverwrite
    Drains
CHECK_DEADLOCK FALSE
