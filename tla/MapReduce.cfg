CONSTANTS
    a = a
    b = b
    c = c
    Worker = {w1, w2, w3, w4}
    Mortal = {}
    Hasty = {}
    Writer = {}
    Observer = {}
    Root <- OneRoot
    Tree <- ShortTree
    M = 2
    R = 2
    BufSize = 4
SPECIFICATION FairSpec
INVARIANTS ConnsAreOpen NoWedge EndsAtEof ReducerSeesAll DoneMeansComplete
PROPERTY Termination
