CONSTANTS
    x = x
    y = y
    None = None
    Client = {1, 2}
    Aname <- TwoTrees
    Ops <- NoClunk
    Refusing = {x}
    LosesFirst = FALSE
    MaxHangups = 2
    MaxTags = 2
SPECIFICATION Spec
INVARIANTS NoStrayReply FidsAgree NothingForgotten
