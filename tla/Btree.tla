------------------------------- MODULE Btree --------------------------------
(***************************************************************************)
(* Lab 101, btree.b: a B+ tree in a file of blocks, of which the program   *)
(* holds some in a cache of Nhash buckets and some in a list of dirty      *)
(* blocks that flush() writes.  There is one object per block in memory    *)
(* (mem): a block is read only if it is neither cached nor dirty, and no   *)
(* operation reads a block that it holds already.                          *)
(*                                                                         *)
(* Keys are numbers, none a prefix of another (fetch would take a longer   *)
(* key for it); the shortening of common prefixes inside a block is left   *)
(* out, so every entry has the same size.  delete() is not modelled.       *)
(***************************************************************************)
EXTENDS Integers, FiniteSets, SequencesExt

CONSTANTS Key, Val, Nil,
          BLOCK, EntrySize,    \* 8192, and 5 + key + value, in the code
          Nhash, Mcache,       \* 64 buckets of 4 blocks in the code
          MaxDirty,            \* 10 in the code
          Loaded,              \* what may have been stored before, as key sequences
          Rewrite,             \* the keys of inner blocks are stored again
          MaxStores            \* bound

ASSUME BtreeAssumption ==
    /\ Key \subseteq Nat /\ Nil \notin Key \cup Val /\ Val # {}
    /\ EntrySize \in Nat \ {0} /\ BLOCK \in Nat
    /\ 4 * EntrySize < BLOCK  \* store() refuses longer keys and values
    /\ Nhash \in Nat \ {0} /\ Mcache \in Nat \ {0} /\ MaxDirty \in Nat \ {0}
    /\ Loaded \subseteq Seq(Key) /\ Rewrite \in BOOLEAN /\ MaxStores \in Nat

VARIABLES bt,          \* the ref Btree and its file
          call, result,\* the last call with its key, and what it returned
          stores       \* how often store() was called (bound)

vars == <<bt, call, result, stores>>

Entry(k, v) == [key |-> k, val |-> v]
NewBlock == <<>>                \* a block is its ents, which give its size
Size(ents) == 2 + EntrySize * Len(ents)

\* mutant: a block may be filled up to its end
Full_WhenOver(ents) == Size(ents) > BLOCK

Full(ents) == Size(ents) >= BLOCK

Header(b) == [cnt |-> b.cnt, head |-> b.head, H |-> b.H]

Empty == [cnt |-> 0, head |-> 0, H |-> 0, hdr |-> [cnt |-> 0, head |-> 0, H |-> 0],
          mem |-> <<>>, cache |-> <<>>, dirty |-> <<>>, file |-> <<>>]

Put(f, id, ents) == [i \in DOMAIN f \cup {id} |-> IF i = id THEN ents ELSE f[i]]

(***************************************************************************)
(* The cache: block numbers, the most recently used first.  A full bucket  *)
(* loses its least recently used block.                                    *)
(***************************************************************************)
Used(b, id) == [b EXCEPT !.cache = <<id>> \o RemoveFirst(@, id)]

Bucket(b, id) == {i \in DOMAIN b.cache : b.cache[i] % Nhash = id % Nhash}

Evicted(b, id) == [b EXCEPT !.cache = RemoveAt(@, Max(Bucket(b, id)))]

\* mutant: a bucket is full when it has more than Mcache blocks
Cached_OneMore(b, id) ==
    IF Contains(b.cache, id) \/ Cardinality(Bucket(b, id)) <= Mcache THEN Used(b, id)
    ELSE Used(Evicted(b, id), id)

Cached(b, id) ==
    IF Contains(b.cache, id) \/ Cardinality(Bucket(b, id)) < Mcache THEN Used(b, id)
    ELSE Used(Evicted(b, id), id)

Getblock(b, id) ==
    IF Contains(b.cache, id) THEN Used(b, id)
    ELSE IF Contains(b.dirty, id) THEN Cached(b, id)
    ELSE Cached([b EXCEPT !.mem = Put(@, id, IF id \in DOMAIN b.file
                                             THEN b.file[id] ELSE NewBlock)], id)

(***************************************************************************)
(* flush() and putblock()                                                  *)
(***************************************************************************)
Flushed(b) ==
    IF b.dirty = <<>> THEN b
    ELSE [b EXCEPT !.hdr = Header(b), !.dirty = <<>>,
                   !.file = [id \in DOMAIN @ \cup ToSet(b.dirty) |->
                                 IF Contains(b.dirty, id) THEN b.mem[id] ELSE @[id]]]

Putblock(b, id) ==
    LET room == IF Len(b.dirty) >= MaxDirty THEN Flushed(b) ELSE b
    IN  IF Contains(room.dirty, id) THEN room
        ELSE [room EXCEPT !.dirty = <<id>> \o @]

(***************************************************************************)
(* bsearch(): slots among entries sorted by key.  In an inner block        *)
(* searchR goes to the last child whose key is not larger, insertR to the  *)
(* last one whose key is smaller (the j-- after an exact match).           *)
(***************************************************************************)
Before(ents, k) == Cardinality({i \in DOMAIN ents : ents[i].key < k})

\* mutant: after an exact match one slot too far to the left, as in insertR
SearchSlot_Left(ents, k) ==
    1 + Cardinality({i \in 2 .. Len(ents) : ents[i].key < k})

SearchSlot(ents, k) ==
    1 + Cardinality({i \in 2 .. Len(ents) : ents[i].key <= k})

InsertSlot(ents, k) ==
    1 + Cardinality({i \in 2 .. Len(ents) : ents[i].key < k})

Has(ents, j, k) == j \in DOMAIN ents /\ ents[j].key = k

(* The descent: the blocks from the root to the leaf, by the slots taken.  *)
Top(b) == [b |-> Getblock(b, b.head), path |-> <<b.head>>]

Down(d, k, insert) ==
    LET ents == d.b.mem[Last(d.path)]
        slot == IF insert THEN InsertSlot(ents, k) ELSE SearchSlot(ents, k)
        id == ents[slot].val
    IN  [b |-> Getblock(d.b, id), path |-> Append(d.path, id)]

Descent(b, k, insert) ==
    LET d[n \in 0 .. b.H] == IF n = 0 THEN Top(b) ELSE Down(d[n - 1], k, insert)
    IN  d

Descend(b, k, insert) == Descent(b, k, insert)[b.H]

(***************************************************************************)
(* split(): the entries from the middle on move to a new block, to which   *)
(* the caller gets a link.                                                 *)
(***************************************************************************)
Kept(ents) ==
    CHOOSE j \in 0 .. Len(ents) :
        /\ j = Len(ents) \/ EntrySize * (j + 1) >= BLOCK \div 2
        /\ \A i \in 0 .. j - 1 : EntrySize * (i + 1) < BLOCK \div 2

\* mutant: only the new block is put
Split_OnlyNew(b, id) ==
    LET t == b.cnt + 1
        g == Getblock([b EXCEPT !.cnt = t], t)
        ents == g.mem[id]
        moved == [g EXCEPT !.mem[id] = SubSeq(ents, 1, Kept(ents)),
                           !.mem[t] = g.mem[t] \o SubSeq(ents, Kept(ents) + 1, Len(ents))]
    IN  [b |-> Putblock(moved, t), up |-> <<Entry(ents[Kept(ents) + 1].key, t)>>]

Split(b, id) ==
    LET t == b.cnt + 1
        g == Getblock([b EXCEPT !.cnt = t], t)
        ents == g.mem[id]
        moved == [g EXCEPT !.mem[id] = SubSeq(ents, 1, Kept(ents)),
                           !.mem[t] = g.mem[t] \o SubSeq(ents, Kept(ents) + 1, Len(ents))]
    IN  [b |-> Putblock(Putblock(moved, id), t),
         up |-> <<Entry(ents[Kept(ents) + 1].key, t)>>]

(***************************************************************************)
(* insertR(), on the way back from the leaf: an entry is added, or the     *)
(* value of an equal key replaced, in the leaf; then in each parent the    *)
(* link to a block that was split off below, after the child descended to. *)
(***************************************************************************)
Added(ents, k, x, leaf) ==
    LET j == IF leaf THEN Before(ents, k) + 1 ELSE InsertSlot(ents, k) + 1
    IN  IF leaf /\ Has(ents, j, k) THEN [ents EXCEPT ![j].val = x.val]
                                   ELSE InsertAt(ents, j, x)

Climb(a, id, k, leaf) ==
    IF a.up = <<>> THEN a
    ELSE LET g == [a.b EXCEPT !.mem[id] = Added(@, k, a.up[1], leaf)]
         IN  IF Full(g.mem[id]) THEN Split(g, id) ELSE [b |-> Putblock(g, id), up |-> <<>>]

Ascent(d, k, v) ==
    LET a[n \in 0 .. Len(d.path)] ==
            IF n = 0 THEN [b |-> d.b, up |-> <<Entry(k, v)>>]
            ELSE Climb(a[n - 1], d.path[Len(d.path) + 1 - n], k, n = 1)
    IN  a

Inserted(b, k, v) ==
    LET d == Descend(b, k, TRUE)
    IN  Ascent(d, k, v)[Len(d.path)]

\* mutant: the new root does not link to the old one
NewHead_OneLink(b, up) ==
    LET t == b.cnt + 1
        g == Getblock([b EXCEPT !.cnt = t], t)
    IN  [Putblock([g EXCEPT !.mem[t] = @ \o <<up>>], t) EXCEPT !.head = t, !.H = @ + 1]

NewHead(b, up) ==
    LET t == b.cnt + 1
        g == Getblock([b EXCEPT !.cnt = t], t)
        first == Entry(g.mem[b.head][1].key, b.head)
    IN  [Putblock([g EXCEPT !.mem[t] = @ \o <<first, up>>], t)
            EXCEPT !.head = t, !.H = @ + 1]

(* What is neither cached nor dirty when a call returns is not in memory.  *)
Settled(b) ==
    [b EXCEPT !.mem = [i \in ToSet(b.cache) \cup ToSet(b.dirty) |-> b.mem[i]]]

StoreIn(b, k, v) ==
    LET rooted == IF b.head # 0 THEN b
                  ELSE [b EXCEPT !.cnt = @ + 1, !.head = b.cnt + 1]
        a == Inserted(rooted, k, v)
    IN  Settled(IF a.up = <<>> THEN a.b ELSE NewHead(a.b, a.up[1]))

(* close(), and open() by the next program: alloc() reads the header. *)
ReopenIn(b) ==
    LET f == Flushed(b)
    IN  [Empty EXCEPT !.cnt = f.hdr.cnt, !.head = f.hdr.head, !.H = f.hdr.H,
                      !.hdr = f.hdr, !.file = f.file]

(***************************************************************************)
(* The dictionary in the tree: the entries of the blocks at depth H.       *)
(***************************************************************************)
View(b, id) == IF id \in DOMAIN b.mem THEN b.mem[id] ELSE b.file[id]

Links(b, id) == {View(b, id)[i].val : i \in DOMAIN View(b, id)}

Levels(b) ==
    LET l[n \in 0 .. b.H] == IF n > 0 THEN UNION {Links(b, id) : id \in l[n - 1]}
                             ELSE IF b.head = 0 THEN {} ELSE {b.head}
    IN  l

Level(b, n) == Levels(b)[n]

Contents ==
    LET entries == UNION {ToSet(View(bt, id)) : id \in Level(bt, bt.H)}
    IN  [k \in Key |-> LET es == {e \in entries : e.key = k}
                       IN  IF es = {} THEN Nil ELSE (CHOOSE e \in es : TRUE).val]

Separators == UNION {{e.key : e \in ToSet(View(bt, id))} :
                        id \in UNION {Level(bt, n) : n \in 0 .. bt.H - 1}}

(* What a program before this one has stored, one key after the other.     *)
Stored(keys) ==
    LET t[n \in 0 .. Len(keys)] ==
            IF n = 0 THEN Empty ELSE StoreIn(t[n - 1], keys[n], CHOOSE v \in Val : TRUE)
    IN  t

-----------------------------------------------------------------------------
(* The interface. *)

Returns(op, k, res) == call' = <<op, k>> /\ result' = res

Init ==
    /\ \E keys \in Loaded : bt = ReopenIn(Stored(keys)[Len(keys)])
    /\ call = <<"open", Nil>> /\ result = Nil
    /\ stores = 0

Store(k, v) ==
    /\ stores < MaxStores /\ stores' = stores + 1
    /\ Rewrite \/ k \notin Separators
    /\ bt' = StoreIn(bt, k, v)
    /\ Returns("store", k, v)

Fetch(k) ==
    LET d == Descend(bt, k, FALSE)
        ents == d.b.mem[Last(d.path)]
        j == Before(ents, k) + 1
    IN  \/ /\ bt.head = 0
           /\ Returns("fetch", k, Nil)
           /\ UNCHANGED <<bt, stores>>
        \/ /\ bt.head # 0
           /\ bt' = Settled(d.b)
           /\ Returns("fetch", k, IF Has(ents, j, k) THEN ents[j].val ELSE Nil)
           /\ UNCHANGED stores

(* firstkey() of an empty tree raises an exception: callers store first.   *)
Firstkey ==
    LET d == Descend(bt, -1, FALSE)         \* before every key
    IN  /\ bt.head # 0
        /\ bt' = Settled(d.b)
        /\ Returns("firstkey", Nil, d.b.mem[Last(d.path)][1].key)
        /\ UNCHANGED stores

(* The next entry of the leaf, or the next link of the deepest block that  *)
(* has one.                                                                *)
NextIn(ents, k, leaf) ==
    LET j == IF leaf THEN Before(ents, k) + 2 ELSE SearchSlot(ents, k) + 1
    IN  IF j \in DOMAIN ents THEN ents[j].key ELSE Nil

Nextkey(k) ==
    LET d == Descend(bt, k, FALSE)
        Next1(i) == NextIn(d.b.mem[d.path[i]], k, i = Len(d.path))
        found == {i \in DOMAIN d.path : Next1(i) # Nil}
        res == IF found = {} THEN Nil ELSE Next1(Max(found))
    IN  /\ \E id \in Level(bt, bt.H) : \E e \in ToSet(View(bt, id)) : e.key = k
        /\ bt' = Settled(d.b)
        /\ Returns("nextkey", k, res)
        /\ UNCHANGED stores

Reopen ==
    /\ bt' = ReopenIn(bt)
    /\ Returns("open", Nil, Nil)
    /\ UNCHANGED stores

Next == \/ \E k \in Key : Fetch(k) \/ Nextkey(k)
        \/ \E k \in Key, v \in Val : Store(k, v)
        \/ Firstkey \/ Reopen

Spec == Init /\ [][Next]_vars

-----------------------------------------------------------------------------

TypeOK ==
    /\ bt.cnt \in Nat /\ bt.head \in 0 .. bt.cnt /\ bt.H \in Nat
    /\ DOMAIN bt.mem = ToSet(bt.cache) \cup ToSet(bt.dirty)
    /\ DOMAIN bt.mem \cup DOMAIN bt.file \subseteq 1 .. bt.cnt
    /\ IsInjective(bt.cache) /\ IsInjective(bt.dirty)
    /\ Len(bt.dirty) <= MaxDirty
    /\ \A id \in DOMAIN bt.mem : Cardinality(Bucket(bt, id)) <= Mcache
    /\ stores \in 0 .. MaxStores

(* Properties. *)

D == INSTANCE Dictionary WITH dict <- Contents

(* However keys are stored, blocks split, evicted from the cache, flushed  *)
(* and read again, and however often the file is closed and opened, the    *)
(* calls return what a dictionary would (Btree.store, fetch, nextkey).     *)
ImplementsDictionary == D!Spec

(* A block that is in memory and not dirty is what the file has: evicting  *)
(* it from the cache loses nothing (getblock, putblock, flush).            *)
CleanMeansWritten ==
    /\ TypeOK
    /\ \A id \in DOMAIN bt.mem \ ToSet(bt.dirty) :
          id \in DOMAIN bt.file /\ bt.file[id] = bt.mem[id]

(* Every block ever allocated is in the tree once: splitting and growing   *)
(* neither lose a block nor link one twice (split, Btree.store).           *)
EveryBlockLinked ==
    LET inner == UNION {Level(bt, n) : n \in 0 .. bt.H - 1}
        Places(id) == {at \in inner \X (1 .. BLOCK) :
                          /\ at[2] \in DOMAIN View(bt, at[1])
                          /\ View(bt, at[1])[at[2]].val = id}
    IN  /\ inner \cup Level(bt, bt.H) = 1 .. bt.cnt
        /\ \A id \in 1 .. bt.cnt : Cardinality(Places(id)) = IF id = bt.head THEN 0 ELSE 1

(* No block in memory or on the file is full: what flush() writes has a    *)
(* block's length and does not run into the next block (split, insertR).   *)
FileFits ==
    /\ \A id \in DOMAIN bt.file : Size(bt.file[id]) < BLOCK
    /\ \A id \in DOMAIN bt.mem : Size(bt.mem[id]) < BLOCK

(* What was stored last is found: the slots that searchR takes lead to the *)
(* leaf that insertR chose.                                                *)
StoredIsFound ==
    call[1] = "store" =>
        LET k == call[2]
            d == Descend(bt, k, FALSE)
            ents == d.b.mem[Last(d.path)]
            j == Before(ents, k) + 1
        IN  Has(ents, j, k) /\ ents[j].val = result

=============================================================================
