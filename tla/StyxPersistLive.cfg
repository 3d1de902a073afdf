CONSTANTS
    x = x
    y = y
    None = None
    Client = {1}
    Aname <- OneTree
    Ops <- All
    Refusing = {x}
    LosesFirst = TRUE
    MaxHangups = 2
    MaxTags = 1
SPECIFICATION FairSpec
INVARIANT SameFile
PROPERTY EveryRequestAnswered
CHECK_DEADLOCK FALSE
