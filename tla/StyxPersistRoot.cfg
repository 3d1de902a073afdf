CONSTANTS
    x = x
    y = y
    None = None
    Client = {1, 2}
    Aname <- TwoTrees
    Ops <- Plain
    Refusing = {x}
    LosesFirst = FALSE
    MaxHangups = 1
    MaxTags = 2
SPECIFICATION Spec
INVARIANTS DeadOnlyIfRefused
