CONSTANTS
    a = a
    b = b
    c = c
    Worker = {w1, w2}
    Mortal = {}
    Hasty = {}
    Writer = {}
    Observer = {}
    Root <- Roots
    Tree <- TwoTrees
    M = 1
    R = 1
    BufSize = 2
SPECIFICATION Spec
INVARIANTS DoneMeansComplete
