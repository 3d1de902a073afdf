CONSTANTS
    a = a
    b = b
    c = c
    Worker = {w1, w2, w3, w4}
    Mortal = {w1, w2, w3, w4}
    Hasty = {w1, w2, w3, w4}
    Writer = {w1, w2, w3, w4}
    Observer = {o1}
    Root <- OneRoot
    Tree <- ShortTree
    M = 2
    R = 1
    BufSize = 4
SPECIFICATION Spec
INVARIANTS LiveConnsListed UniqueConn
SYMMETRY Interchangeable
CHECK_DEADLOCK FALSE
