CONSTANTS
    u = u
    v = v
    None = None
    Key = {2, 4, 5, 6, 8, 10, 12, 14, 15}
    Val = {u, v}
    Nil = None
    BLOCK = 14
    EntrySize = 3
    Nhash = 2
    Mcache = 2
    MaxDirty = 2
    Loaded <- Loads
    Rewrite = TRUE
    MaxStores = 2
SPECIFICATION Spec
INVARIANT StoredIsFound
