# Verification of the Inferno lab programs

The repository is a notebook of about 110 numbered labs: Limbo programs, some C and
shell, mostly independent of one another.  Many are user interfaces, experiments with
sound, or copies of Inferno sources.  This project models the labs that carry protocol
or data-structure logic of their own, and the C of the emulator's device drivers that the
labs changed or added, and says of the others why they are left out.

Reading order: this file, then one module with its `MC` module and `.cfg`.
`PROJECT.json` lists components, runs, mutants, the map from definitions to source
lines, findings, hazards and theorems.

## 1. Inventory

| Part (source) | State | Operations | Interacts with | Hard part | What makes it correct |
|---|---|---|---|---|---|
| Reliable UDP, `106/rudp.c` | per socket: peer address, unacked list, `sndseq/sndgen`, `rcvseq/rcvgen`, `acksent/ackrcvd`, transmission count | announce, connect, sendto, recvfrom, close | the peer over UDP; `client.c`, `server.c` call it | loss, duplication, reordering, restart of a peer, change of peer, giving up | no message is forgotten because of an ack before it was delivered; delivery in order without gaps; a blocked sender stops retransmitting |
| Work queue, `40/chunkqueue.b` | list of (host, chunks), list head | write (queue), read (`nextdisk`) | file clients of a single server process | random start, list reversal, deletion of empty records in one scan | each chunk handed out once; an empty answer means empty; reads are answered |
| gridfs master and workers, `84/appl/mapreduce` | `conns`, counters `mcnt/rcnt/mxcnt`, `rchan[R]`, `filechan`, pending requests | open clone, read, write, clunk, flush; `delconn`; `du` | Styx requests from worker processes, channels between `serve`, request processes and `du` | interleaving, bounded channels, killed workers, flushed requests | table = open connections; reducers see every mapper's files before the end; `serve` never blocks; done means complete |
| Persistent Styx proxy, `78/styxpersist.b` | tag table, fid table, connection | T-messages, R-messages, reconnection, restoring fids, resending | a Styx client and a server that comes and goes | connection lost at any point, also while restoring | each request answered once; the server's session agrees with the client's |
| B+ tree, `101/btree.b` | header, blocks on file, cache, dirty list | store, fetch, firstkey, nextkey, delete, flush, close, open | one caller at a time; the file | eviction and flush in the middle of an insertion; splits up to the root | it is a dictionary; no block lost, overfull or stale |
| Command server, `93/appl/cmd/exportcmd.b` | conns, request table | as the master's file server, running commands | Styx clients, child processes | flush against completion, connection numbers against positions | planned |
| RPC multiplexer, `20/mux.b` | tag table, muxer role | `rpc` by many processes | a connection | passing the reader role | planned: every caller gets its own reply, somebody always reads |
| Automounter, `105/automnt.b` | mount entries with reference counts | walk, open, clunk by worker processes | mount, the namespace | counters changed without a lock | planned |
| Duct, `104/duct.b` | two sessions on one connection | shutdown of either side | processes | order of shutdown | planned |
| Hold, `85/appl/hold` | log of changes | append, replay | file system | stale and conflicting entries | planned last |
| Registry, `36/register.b` | registration | register, renew | registry server | loss of either | planned |
| gamed, `89/appl/mux/gamed.b` | waiting players | join, move, leave | two clients | rendezvous | planned |
| Console files, `55/devcons.c` | line under edit, queues, raw mode, compose sequence, scan code queue, pointer ring, a clipboard text per file, kprint queue and lock | open, read, write, close of `cons`, `consctl`, `keyboard`, `scancode`, `pointer`, `snarf`, `kprint` | `kbdslave`, the window thread, any number of processes | locks of several kinds, data used without them, refused opens, interrupted reads | keys and mouse events reach one reader, once, in order; a file is one text; locks and queues belong to open files |
| Window size, `59/devwmsz.c` | ring of sizes, reference count | wmtrack; walk, open, read, close | the window thread | no lock at all | no reader sleeps on a size it has not seen; one reader |
| Window, `45/win.c`, `55/win.c` | bitmap, palette, attached; cursor, invalid regions | attachscreen, window messages, drawcursor, flushmemscreen, fullscreen | the draw device, the host | window closed and attached again; cursor destroyed while shown | the reply fits the bitmap; what is shown is what was set and drawn |
| Audio, `67/emu/Linux/audio-oss.c` | two descriptors, two locks, settings | open, close, read, write of audio; write of audioctl | the host's device | locks given up in the middle; partial writes; every step can fail | every descriptor has its user; settings kept; all bytes sent |
| Registry and full screen, `55/devarch.c` | value per channel, lock, error handlers | write and read of regquery; write of fullscreen | the registry | failure of any step | nothing held, leaked or freed twice |
| Handheld, `67/emu/Linux-fb` | descriptors, believed state of the screen, button of the pen | `/dev/apm`, touch screen, buttons | the host's drivers | shared descriptor; unlocked state; packets torn by reads | screen, pen and battery are known |
| Sandbox, `92/libinterp/vxrun.c` | interpreter lock, memory of a program | Vxrun_run, system calls | Dis threads, libvx32 | leaving and entering the interpreter; addresses that wrap | the lock is back with the answer; memory below the break is usable |
| Indexers, `87/movies`, `87/services/tvlist` | files of titles, positions, quarters | build, warp, bdb | the programs of the television | records not whole, letters and months at their edges | an index leads to the film or programme asked for |
| Sound, editors, web, text, shells, vendored code | - | - | - | one event loop, user interface, parsers | not modelled: no concurrency or protocol that a state model would say more of than a test |

## 2. Plan

Order by how much depends on interleaving or failure:

0. The device drivers and indexers in C (done, but for what section 3 leaves out), in the
   sum `Emu`.
1. `Rudp` with `RudpProofs` (done), `ChunkQueue` (done), `MapReduce` (done but for the
   request pool), `StyxPersist` with `StyxPersistProofs` (done for the main requests),
   `Dictionary` and `Btree` (done but for delete).
2. `ReqPool`: the pool of request processes and `flushproc`, shared by `mapreduce.b` and
   `exportcmd.b`; the abstract specification of a flush (at most one reply, none after
   the Rflush); `ExportCmd` composed with it.
3. `Mux`, then `Automnt`, `Duct`.
4. `RudpWidth`: 64-bit counters put into 32-bit fields, as a pure module.
5. `Hold`, `Gamed`, registry if time allows.

Proved so far (section 5): all of `Rudp`, `ChunkQueue`, `MapReduce` and `Btree`, all the
drivers and the indexers, and of `StyxPersist` all but `SameFile`.

## 3. Modules and the code

### Rudp (lab 106)
One record per socket, one action per call or event: `Sendto`, `Recvfrom` (sends
the ack it owes and enters the wait), `Receive` (a packet is read), `Rexmit`
and `GiveUp` (the one-second `select` timeout), `Close`, `Reopen` (the program is run
again with a new generation).  `Process` follows `rudp_recvfrom` from the arrival of a
header: generation checks, change of the remote side, hangup, freeing of acked blocks,
in-order test, and the ack that is sent when `acksent` lags.

`net` is a set that only grows, so a packet may be lost (never read), duplicated and
reordered at will.  `got`, `acked` and `conn` are history: what was handed to programs,
what was freed by an ack, and what the current conversation delivered.

Left out: failing `malloc`, `select` and `sendto`; packets with the hangup generation,
which nothing sends; reuse of a generation by different processes (it is the time of day
in the code).  Sequence numbers do not wrap.

### ChunkQueue (lab 40)
The single server process, one round of `nextdisk` per step, with the saved list, the
reversal and the dropped records as the code has them; random positions are `\E`.

### MapReduce (lab 84)
`serve` is the program counter of the only process that changes the table; while it is
not `"alt"` no request is taken.  `delq` holds the request processes blocked on
`delconn`, `feed` what each `du` has left, `rchan` the buffered names.  Workers go from
`new` through `cloning`, `made` (the connection is made, the fid not open yet), `opened`,
`ready`, `wait` to `closing` and `gone`.  Killing a worker flushes its outstanding
request.  `Hasty` workers read before the fid is open, `Observer`s are other programs
that walk to a `ctl` file and clunk it, `Writer`s write to it.  A connection that is not
in the table still costs the table its last entry, as in the code.

### StyxPersist (lab 78)
`pc` is what `run()` does: first connection, `alt`, restoring fids, or dead after an
exception.  `tags` and `fids` are the tables; `reqs`, `work`, `rmsg` the two directions
of the connection; `up` and `Hangup` its loss, which may leave some replies readable.
With one process (`Nprocs = 1`), restoring a fid is one step; the connection may be lost
between any two.  Clients and server are external: they behave as Styx allows.  `fate`
is history: whether the server refused a fid or the proxy lost it.
Not modelled: Auth, Stat and Wstat, writes, walks of more than one element.

### Dictionary and Btree (lab 101)
`Dictionary` is the promise: a function from keys to values and the answer of the last
call.  `Btree` has the file, the objects in memory, the cache (numbers by recency), the
dirty list and the header in one record; each call of the interface is one action, made
of `Getblock`, `Putblock`, `Flushed`, `Split` as the code composes them, so that
evictions and flushes happen where they do in the code, in the middle of an insertion.
`ImplementsDictionary` maps `dict` to the entries of the leaves.
Not modelled: `delete` (marked untested in the source), prefix compression, keys that are
prefixes of others, failing writes, crashes (the code has no recovery).

### Drivers and indexers: Emu
`Emu` is the sum of the modules below: they share no state, so a behaviour of it is one of
one of them, and one run checks them all.  `MCEmu` names the two processes (and channels)
that each of them gets.

- **Pointer** (`55/devcons.c`, `55/win.c`): `MouseMessage` is the part of `WindowProc` that
  makes buttons of a message, and `mouseproduce`; `PointerOpen` counts an open and
  `PointerClose` takes it back; `PointerRead`, `PointerWake`, `Mouseconsume` are the steps
  of a read.  An event carries its number, so that the events a reader got can be told
  from those it missed.
- **WmSize** (`59/devwmsz.c`): the same driver without its lock, one access to shared data
  a step (`TrackX`, `TrackY`, `TrackB`, ... against `ConsumeGet`, `ConsumeLook`,
  `ConsumeX`, ...).  A click's slot and the index that hands it over are one step, and an
  index that is incremented and wrapped (`devwmsz.c:92`) is stored once.
- **Console** (`55/devcons.c`): `Kbdslave` types, `ConsRead`, `ConsKey`, `ConsReturn` are a
  read of `/dev/cons` with its editing, `ConsInterrupted` one that is interrupted while
  it sleeps.  `eof` are the empty blocks a lone ^D queues: each is a read that answers
  nothing.  The two steps of a close of `consctl` are apart.
- **Keys**: `WindowProc` for keys, `gkbdputc` in its steps for each of its callers, opening
  and closing of `/dev/scancode` with the locks as the code takes and releases them.  When
  the last of calls that overlapped returns, the history `handed` is set to what the keyboard
  has, so that the property goes on from there.
- **Snarf**: reads at an offset of a copy, writes to a buffer, the clipboard of the host.  A
  file opened to be read and written is refused unless it is truncated too; then it has a
  buffer that is dropped at its close (here it is used one way only).
- **Kprint**: the read-write lock with its waiting writer, a reader that sleeps with it.
- **Screen** (`45/win.c`): `AttachBegin` and `AttachEnd` with the thread between them,
  choice of format, row bytes, palette.  A thread that cannot be made, or ends because its
  window cannot, is no thread (`CreateWindow`, `blind`).  **Window** (`55/win.c`): cursor
  and painting.
- **Audio** (`67/emu/Linux/audio-oss.c`): each part between two locks is a step, each host
  call may fail.
- **Arch** (`55/devarch.c`): `labels` is the stack of error handlers of a process, `has`
  what it holds; `Raise` runs the stack from the top.
- **Apm**, **Handheld** (`67/emu/Linux-fb`): two modules for `devapm.c`, because its file
  descriptors and its blanking of the screen share nothing.  `crossed` and `torn` are
  history: the damage of overlapping calls and of torn packets, from when it is done until it
  is undone.
- **Vxrun** (`92/libinterp/vxrun.c`): `asked` has what the breaks of a program granted and
  what failed growths left behind.
- **Movies**: `build.c` a film at a time, `warp.c` a title at a time.  A title is the letter it
  begins with, perhaps behind an article.  **Guide**: `bdb.c` a line of the
  feed at a time.

Left out: files of `devcons.c` that hold one value (pin, user, hostowner, jit, time,
sysname, sysctl); the text of values (registry values, mouse events, battery); sharing of
one channel by two processes, and a reader that is killed while it sleeps on the pointer;
`setpointer`; the start of the processes of the handheld.  Touch screen packets are those
the tests of `t3stylus` are written for.  The database of films begins with a blank line,
as the one of the lab does: a title at its first byte would not be found.

## 4. Runs

Limits are scaled down; each is named in the configuration.

| Run | Bounds | Shows |
|---|---|---|
| `chunkqueue` | 3 hosts, a chunk each, queued twice | `Conservation`, `EmptyAnswerMeansDrained`, `ReadAnswered` for every random start |
| `rudp` | a listener and a client, 3 and 1 messages, one retransmission, 2 generations | `UnackedIsTail`, `AckedWasDelivered`, `DeliveredInOrder`, `DeliveredPrefix`; with a fair timer `UnackedEnds`.  Three messages are needed for a gap; two generations for stale packets |
| `rudp_giveup` | one message each | violated: giving up is not reported (finding) |
| `mapreduce` | 2 + 2 workers, 2 files, channels of 4 | `ConnsAreOpen`, `NoWedge`, `EndsAtEof`, `ReducerSeesAll`, `DoneMeansComplete`, `Termination`.  Two of each kind are needed for the race for the end-of-file marker and for a slot that lags |
| `mapreduce_killed` | 4 workers for 2 + 1 places, all mortal, hasty, writers; 1 observer | `LiveConnsListed`, `UniqueConn`; reaches the index error of a worker too many and the empty table |
| `mapreduce_paths` | 2 paths | violated: done with files not mapped (finding) |
| `styxpersist` | 2 clients in 2 trees, one refused, 2 lost connections | `NoStrayReply`, `FidsAgree`, `NothingForgotten`; two losses are needed for one during restoration |
| `styxpersist_live` | 1 client, all requests, refusing server, 2 lost connections | `SameFile`, `EveryRequestAnswered` (of flushes too) |
| `styxpersist_root` | 2 trees, one refused | violated: a fid is given up without asking the server (finding) |
| `btree` | 4 entries per block, 4 cached blocks, 2 dirty ones; an empty tree and one of 3 leaves that the next key at the end takes to 3 levels; 2 stores, any number of reads and reopenings | `ImplementsDictionary`, `CleanMeansWritten`, `EveryBlockLinked`, `FileFits` |
| `btree_rewrite` | the same, separators may be stored again | violated: the old value is fetched (finding) |
| `devices` | two processes or channels for every driver; a ring of 2 events and 4 put, lines of 2 keys, queues of 1, a buffer of 3, 2 descriptors, 3 packets of the pen, addresses of 3 bits, 3 letters, 2 records, days of one hour, 3 lines of feed | `MouseDelivered`, `WmSizeTracked`, `ConsFiles`, `KeysDelivered`, `ScreenShown`, `AudioShared`, `ArchClean`, `HandheldServes`, `VxrunServes`, `IndexesFind`, each the conjunction of the properties of one or more modules |

The type invariants are conjuncts of properties: of `Conservation`, `ConnsAreOpen`,
`NothingForgotten` and `CleanMeansWritten`.

The bounds of `devices` are the smallest at which each case happens: the pointer's ring
fills, is forgotten, and two events follow; a line is full with one key more; the
clipboard changes twice; the audio device takes a part of a part; an address rounds up
past the end; calls that blank the screen overlap while a third follows alone; a packet is
torn and a whole one comes after it; a letter without titles lies between two others; a
whole record stands beside one that is not; one station leaves its month and the other
does not; a programme is shorter than a quarter.  The two processes are interchangeable in
every driver and tell readers from writers by what they do, so symmetry is sound.

What the passing runs assume.  `NoWedge` holds because the channels hold two messages per
map worker (`2 * M <= BufSize`); the code has 10, so more than five map workers that
finish before a reduce worker has started can block `serve` for ever, although
`mapreduce.b:154-155` says they may start together.  The bound is tight: with 3 places for
the 2 map workers of the run TLC finds `NoWedge` violated.  It also assumes exactly M + R
workers; one more ends `serve`, which `mapreduce_killed` reaches.  `mapreduce` has one path and
nobody is killed: a flush between making a connection and opening its fid leaves an
entry nobody will close, and an observer's clunk closes a live connection, which is why
`LiveConnsListed` speaks of the time before anybody looked.  `NoStrayReply` is checked
without Create, Remove and Flush: a request answered with `Epartial` is sent again all
the same, a flushed request stays in the tag table and is sent again, and either is then
answered a second time.  For the same reason the two liveness properties speak of
executions in which no tag is twice in the table and `run()` did not raise (it does when
the fid of a `Tclunk` that was answered with an error is used again).  Created files are
looked for under their directory's path after a reconnection and given up.  `Btree` keys
that are separators are not stored again in the passing run.

The properties of the drivers name what they do not promise, and each exception is
reached in the run:

- `PressesSeen`: the ring of the pointer, once full, is forgotten whole at the next read.
- `SizeSeen` ends with the first click stored: `get = put` skips what the ring holds.
- `LinesWhole`, `KeysInOrder`: raw keys overtake the line under edit.
- `ComposedOnce` is silent from an overlap of calls of `gkbdputc` until all of them have
  returned, and holds of the keys that come after.  `LocksMatch`: an open of `scancode` that
  is refused keeps `kbd.gq` for ever, and robs the readers of `kbd.q` until they are done.
- `ReplyFits`: an attached screen answers with a format it never set; a host of odd width
  makes rows that are not whole words.  `AttachedHasThread`: a screen is attached for ever
  without a thread if, and only if, the thread or its window could not be made, or the
  window was closed before `attached` was set.
- `DescriptorsOwned`: audioctl opens the device beside an open under way, or fails after
  it did; an open fails without closing its descriptor, or succeeds with descriptor 0.
  `SettingsKept`: two writes of audioctl overlap.  `BytesSent` counts bytes: for a later
  part the code sends the beginning of the data again.
- `FrameMatches`: two processes turn full screen at the same time.
- `BlankingKnown`: the state believed is wrong after calls of `apm_blank` that overlap and
  want opposite things, until a call that overlaps no other sets the screen.  `PenFollowed`:
  from a torn packet until a read is one packet again; `y` is right even then.
  `BatteryRead`: a second read, or a second opener.
- `BrkGrants`: a break in the last megabyte rounds to zero, and grants nothing; memory whose
  `setperm` failed is found large enough later and left as it is.  The breaks before and
  after keep their promise.
- `WarpFinds`: `warp` may be off by as many titles as letters were skipped, of a list in order.
  `IndexFollowsTitles`: nothing is said of the text of a record that is not whole, and `build`
  goes astray only at one.  `GuideFinds`: a station whose programmes leave the month.

Deadlock checking is off where the system may stop: `chunkqueue` (bounded writes),
`rudp` (bounded sends), `mapreduce_killed` (killed workers; a raise ends `serve`),
`styxpersist_live` (run() may raise), `devices` (bounded events; refused opens that
keep a lock).

### Fairness
- `ChunkQueue`: the server process goes on with a read it has taken.
- `Rudp`, `TimerSpec`: weak fairness of `Rexmit` and `GiveUp`, the timeouts of `select`.
  It assumes gaps of a second between arriving packets, since each one restarts the
  timeout.  Nothing is assumed of the network.
- `MapReduce`, `FairSpec`: every process of the Dis scheduler that can go on does.
- `StyxPersist`, `FairSpec`: the proxy and the server go on, and a server answers each
  read in the end.  Lost connections are bounded by `MaxHangups`, so that they stop.

## 5. Proofs

The theorems hold for every value of the constants that satisfies the assumptions of the
modules: any number of processes, workers, sockets, messages, hosts, any length of a ring.
Each one follows from an inductive invariant with a lemma per action, and what TLC can
evaluate of an invariant was first checked on the run of its property.

| Module | Theorems | Of the property |
|---|---|---|
| `RudpProofs` | `TypeCorrect`, `UnackedTail`, `Reliable`, `Prefix`, `InOrder` | `TypeOK`, `UnackedIsTail`, `AckedWasDelivered`, `DeliveredPrefix`, `DeliveredInOrder` |
| `ChunkQueueProofs` | `QueueConserves`, `EndOfFileIsTheTruth` | `Conservation`, `EmptyAnswerMeansDrained` |
| `MapReduceProofs` | `MasterKeepsLive`, `MasterNumbers`, `ServeNeverWedged`, `WorkersEndAtEof`, `TableIsOpenConnections`, `ReducersSeeAll`, `DoneIsComplete` | `LiveConnsListed`, `UniqueConn`, `NoWedge`, `EndsAtEof`, `ConnsAreOpen`, `ReducerSeesAll`, `DoneMeansComplete` |
| `BtreeProofs` | `WhatIsCleanIsWritten`, `EveryBlockFits`, `BlocksAreLinked`, `IsDictionary` | `CleanMeansWritten`, `FileFits`, `EveryBlockLinked`, `ImplementsDictionary` |
| `StyxPersistProofs` | `AnsweredOnce`, `SessionsAgree`, `NoneForgotten` | `NoStrayReply`, `FidsAgree`, `NothingForgotten` |
| `DriverProofs` | `PointerDelivers`, `WmSizeDelivers`, `VxrunKeeps`, `KeysDeliver`, `AudioIsShared` | `MouseDelivered`, `WmSizeTracked`, `VxrunServes`, `KeysDelivered`, `AudioShared` |
| `DeviceProofs` | `ConsFilesKeep`, `HandheldKnown`, `ScreenIsShown`, `ArchStaysClean` | `ConsFiles`, `HandheldServes`, `ScreenShown`, `ArchClean` |
| `IndexProofs` | `IndexesLead` | `IndexesFind` |

### Rudp
The assumptions are those of `Rudp` on its constants (`RudpAssumption`): the listener is a
socket, `None` is not one, retransmissions and generations are at least 1, and each socket
has a natural number of messages to send.

`AckedWasDelivered` is not inductive: an ack in the network, perhaps old, may free blocks
of any later state.  The invariant `IInv` says what every number stands for:

- `SockInv`: each socket is `Good`: its unacked list is the tail of its generation, and
  what it has received, and what the blocks it keeps ack, was delivered;
- `NetInv`: an ack `n` in flight for a generation means that `1 .. n` of it were
  delivered, and no packet is of a generation still to come;
- `GotInv`: the same bound for delivered messages, so that a new generation starts with
  none delivered;
- `HdrInv`: the header left in a buffer, which giving up examines again, tells the truth
  too, and a first message in it was delivered;
- `RestOK`, and the types of `hdr` and `sent`;
- `acked \subseteq got` and `DeliveredPrefix` themselves.

A common lemma, `ProcessStep`, covers the examination of a header by `Receive` and
`GiveUp`.  Changes of peer and hangups reset the numbers together with the generation
they belong to (`HangupGood`, `AdoptGood`), which is where the code's care is needed.
`InOrder` rests on `NumberInv`: a message of a generation carries the same number wherever
it is met, a sender's numbers are those of its current generation, and what a conversation
delivered is `1 .. rcvseq` of the one it is with.

### ChunkQueue
`nextdisk` copies, reverses and cuts the list, from a random place.  `Balanced` relates the
pairs in the list to those written and handed out, and `Sound` says that a host has one
record and a chunk one place in it.  Every list a round makes is `l[f[1]], l[f[2]], ...`
for an `f` that repeats no place and misses no record that has chunks: the lemma
`Rearranged` needs nothing more, and the code's rearrangements are instances of it.

### MapReduce
The invariant comes in layers, and each theorem has the hypotheses of the layer it needs:

| Layer | Says | Needs | Gives |
|---|---|---|---|
| `Base` | types; numbers of connections are unique and below `qidseq`; the table repeats nothing; a worker that uses its connection has it in the table until another program looks | nothing | `MasterKeepsLive`, `MasterNumbers` |
| `Counts` | `mxcnt` is the number of map workers whose names were all sent, `mcnt` and `rcnt` those of the workers that opened; places in each channel | `Observer = {}`, `2 * M <= BufSize`, `Cardinality(Worker) <= M + R` | `ServeNeverWedged` |
| | nobody that is not killed leaves before the end | `Observer = {}`, `Hasty \subseteq Mortal` | `WorkersEndAtEof` |
| `Tight` | the table is exactly the open and the closing connections | `Mortal`, `Hasty` and `Observer` empty | `TableIsOpenConnections` |
| `Flow` | in each channel the end-of-file marker is behind the name of every map worker that mapped a file | those of `Counts` and `Tight`, one path | `ReducersSeeAll`, `DoneIsComplete` |

The hypotheses are not conveniences, the code needs them.  An observer's clunk of a `ctl`
file closes a live connection; a worker too many indexes past the channels; five map
workers fill a channel of ten; a killed mapper leaves its file unmapped; and with two
paths done comes early, which `mapreduce_paths` shows.  `2 * M <= BufSize` is what the
bounds of the run need too: with one place fewer `serve` blocks.  The run `mapreduce`
satisfies all of them and `mapreduce_killed` none but those of `Base`.

### StyxPersist
Clients, trees, servers that refuse, the bounds and the number of lost connections are
arbitrary; the requests are those of `PlainOps`, with `Clunk` for the first two theorems
and without it for `NoneForgotten`.  The code needs this.  A request answered with
`Epartial` (Create, Remove) or flushed stays in the tag table, is sent again and answered
twice, so that `NoStrayReply` is false; and once the fid of a `Tclunk` was given up the
entry outlives the fid, and the answer of the next walk to it ends `run()` (`newfid`
aborts) when it has left the table and the client has not been told.

`PersistInv` consists of:

- `Waited`: a request a client waits for is in one place, `tmsg` or the tag table, and
  nothing else is in them.
- `Beyond`: a request in the table is beyond it in at most one place, `reqs`, `work` or
  `rmsg`, and in exactly one while the proxy relays.
- `Agreed`: what a client believes of its fids (`start`, `attached`, `walked`, `opened`) is
  what the fid table has of them, but for DEAD ones, and determines what it may ask.
- `Ahead`: the server's session is the fid table, as the answers that are under way will
  change it (`Later`).  After a hangup the two are apart until `ResurrectFid` has come to
  each fid (`ServerOK`); an answer that the hangup destroyed was never applied to the
  table, and the request that is sent again finds the session as the first one did.  This
  is why `FidsAgree` holds in spite of requests that are carried out twice.
- `NoZombies`, of clients that never clunk: `run()` never raises.

`Those` and `Sendrmsg` are recursive functions in the model.  Their values and what each
stage keeps are proved as for `Btree`, below, and give what `resurrecttags` does: a client
is told at most once, and those that are told are not in the new table.

### Btree
`Rest` is what holds between two calls; most of the work is about the states inside of one,
which the properties do not see.

- `Layer(b, S, F)` is the memory: the cache fits its buckets, and but for the blocks of
  `S` what is clean is on the file, but for those of `F` no block is full.  `getblock`
  keeps it (`GetblockFacts`) and may evict any block; `putblock` takes a block out of `S`,
  after a flush, whose blocks must all fit (`PutblockFacts`, `FlushedFacts`).
- `TreeOf(b, lev, O)` is the tree: each block has a height `lev`, links lead from a height to
  the one below, each block but the root has one link, and those of `O` have none yet.
  Only the contents of the blocks matter to it, not where they are (`SameTree`).
- An insertion takes `O` through `{}`, `{t}` after a split, and `{}` again in the parent
  or under a new root (`BlockSplit`, `LinkAdded`, `RootAdded`).  `Rising` says this of each
  stage of the way back, whose blocks the call still holds though the cache may have
  dropped them; `Descending` says which blocks a descent has read.
- The recursion of the code is over the height of the tree, a recursive function in
  `Btree`.  That it has the values the equations say, and that what each stage keeps is
  true of all, are the lemmas `StagesExist` and `StagesHold`, proved by the least
  counterexample.

`4 * EntrySize < BLOCK` is what `store()` enforces; it makes both halves of a split fit, and
neither of them empty.

`IsDictionary` is the refinement: every step of `Btree` is one of `Dictionary`, with the
entries of the leaves for `dict`.  It needs two hypotheses, which the run `btree` has: no
key of an inner block is stored again (`~Rewrite`), without which it is false
(`btree_rewrite`), and of what was loaded no key was stored twice.

- `Keyed` gives every block the set `K` of the numbers whose way from the root leads
  through it: an interval, all numbers for the root, and for the child in slot `i` those
  for which `SearchSlot` is `i`.  Leaves are sorted and hold what the dictionary has for
  their keys; inner blocks are sorted but for the first entry, which is never compared,
  and all their keys are stored ones, which is what `nextkey` returns from them.
- A parent sees a block `o` that was split off `s`, and has no link yet, as a part of `s`
  (`Seen`).  `SplitOff` says that the key carried up parts the two, so that the link added
  behind that of `s` gives `o` its own slot (`LinkPut`, `Rooted`).  The dictionary is the new
  one as soon as the leaf has the entry (`LeafPut`, `Placing`).
- `insertR` takes the slots that `searchR` takes as long as no inner block on the way has
  the key (`SameSlot`, `NoInner`); this is where the hypotheses come in.
- `NextIs`: the deepest block on the way that has a next key has the least one above `k`.
  `DInv` adds to the invariant that the tree is `Keyed` for `Contents`, and not empty once
  it has a root.  `K` ranges over sets of integers, so TLC checked its consequences
  (sorted blocks, keys on their own way, stored separators) and not the formula.

### Pointer
The heart is `Numbered`: the entry with `i` others before it in the ring has a number above
`get + i`.  So the entry that lets `get` catch up with `put` is the last event, although
`put` counts events that were never stored and `get` does not count those that were
forgotten with the ring.

### Drivers
- **WmSize**: until a click is stored the ring is empty, so a reader copies `mouse.v`, a field
  at a time.  `WmFresh` says that what it has copied is right, unless the tracker still has
  to advance `put` or `put` is ahead of `get` already; either way the reader does not sleep
  on it.
- **Vxrun**: the memory above the program is what may be read and written and what was left
  behind, without overlap, and what is granted lies in it (`MemoryShared`).  A lemma on the
  arithmetic of addresses (`% 2^VmBits`, rounding) carries it, for every power of two and
  unit within it.
- **Keys**: one call of `gkbdputc` composes at a time, or they overlap (`OneCall`), and when
  the last one returns `ComposedOnce` is true again.  `KeyGoesOneWay` follows a key through
  its messages; `OneEditor` and `LocksMatch` follow the locks through refused opens.
- **Audio**: `FdsOwned` gives each descriptor its user while none of the three named
  mistakes has happened, `CtlAlone` keeps the second write of audioctl out, and
  `BytesSent` counts parts of parts.
- **Kprint**: a process that waits to close its file has it open, one that waits to open
  has none; so it does not matter whose turn the lock makes it.
- **Snarf**: `SnarfCopies` relates a channel to its own copy: what a reader has got is the
  beginning of a text there was, what a writer has written is the beginning of its
  buffer, zeros behind.  `SnarfLetters` says that a letter is not NUL.
- **Console**: what is typed is numbered.  `kbdq` is in order and everything in it is newer
  than what was taken from it (`KbdqOrder`, `TakenOlder`); the line is in order and keeps
  no key of raw mode (`LineEdited`).  `ConsProcs`: one process edits at a time, and `ctl`
  counts those that hold `consctl` open, so that its last close ends raw mode.
- **Handheld**: a call that is still alone is the only one that blanks, and once it has set
  the screen it is right about it (`AloneIs`); without crossed calls all that blank want the
  same (`BlankRest`).  `PenInv` follows the packets of the pen as a concatenation, of which
  each whole read takes the first (`PacketsConcat`, `ReadPacket`); `HandheldAssumption` says
  that a position where the pen is down is not 0.
- **Apm**: while a process has the file alone and has read nothing, the host's file is at
  its start (`ApmAlone`).
- **Window**: the live cursors are the one wanted and, while a call of `drawcursor` is under
  way, the one before it (`CursorsLive`); once the window thread has answered it knows
  no other than the one wanted (`CursorSeen`).
- **Screen**: while `attachscreen` waits for its thread the bitmap is that of the width and
  depth chosen (`BitmapFits`), and there is a thread unless it could not be made or has ended
  (`ThreadGoes`).  Rows of a width that is a multiple of four have no padding
  in any of the depths (`RowIsFour`).  That the 256 entries of the colour palette are one
  for each index is proved, not computed: an entry's index determines its red and shade,
  then green and blue (`ColoursFill`).
- **Movies**: the lines of a record come in one order, so each has a rank, and two lines
  that are not in it have the title of another record between them (`Ranked`).  What `build`
  reads for a film whose record is whole comes before the next title (`EntryRight`), of each
  kind there is one, and `FilmIndexed` of the films read so far is that none is missing.
  `WarpLeads`: the last letter read is ahead of `z` by at most the letters skipped before it,
  and what `warp` has of a letter is off by no more; the gaps of a letter below the last one
  do not change any more (`GapsMore`).
- **Guide**: the first whole line is that of the first day, and every quarter of a file
  leads to the last programme of its station that is on in it, or to none (`FileRight`), if
  that station's programmes are of one month (`InMonth`).
- **Arch**: the stack of error handlers of a process is a function of the place it is at
  (`ArchStack`), so that `Raise` gives back exactly what was taken; `RegLocked` and
  `CallsApart` keep buffer and memory of two calls apart.

### Only model-checked
- Liveness (`Termination`, `ReadAnswered`, `UnackedEnds`, `EveryRequestAnswered`): fairness
  and ENABLED are outside the prover.
- `StyxPersist`: `SameFile`.  Its run has Create and Remove, for which `PersistInv` is not
  true: a request answered with `Epartial` is sent again, and its late answer may be taken
  for that of a later request with its tag.  With plain requests it says little, since
  paths do not change.  Of the properties proved nothing is claimed beyond `PlainOps`.

## 6. Known weaknesses of the code that no run checks

Of the labs in Limbo and of `rudp.c`: a listener that gave up keeps its old peer's address
(`rudp.c:108`); 64-bit sequence numbers in 32-bit fields (`rudp.c:52`); `flushproc`
removing an entry twice (`mapreduce.b:548`); a Tflush that comes before its request is
registered (`mapreduce.b:533`); a flush between making a connection and opening its fid
(`mapreduce.b:547`); a request answered with `Epartial` and sent again
(`styxpersist.b:357`); a DEAD fid restored without losing the mark (`styxpersist.b:342`);
connection numbers used as positions in `exportcmd` (`exportcmd.b:259`); reference counts
without a lock in `automnt` (`automnt.b:79`); `delete` and prefix matches in the B+ tree
(`btree.b:416`, `387`); a crash between the header and the blocks of a flush
(`btree.b:232`).

Of the drivers, seen while modelling them:
- `55/win.c:337`: `scancode` drops messages with bit 30 set, which a key going up always
  has: no release is ever stored.
- `55/devcons.c:241`: an open of `kprint` that waits behind a sleeping reader makes
  `canrlock` fail, so console output goes to the host and nothing wakes the reader.
- `45/win.c:209`: `attachscreen` of an attached screen returns an uninitialised format.
- `55/devarch.c:105`: `nprocs` leaves an error handler behind for every processor.
- `45/win.c:637`: a window that cannot be made ends its thread, while `attached` is set all the
  same: the screen is attached for ever and shows nothing (`Forsaken`).
- `67/emu/Linux/audio-oss.c:73`: an open for reading and writing pushes two handlers and
  pops one.
- `59/devwmsz.c:158`: references leak when an open is refused.
- `67/emu/Linux-fb/tsinput_t3.c:53`: double clicks are computed for a press, which is not
  reported.
- `92/libinterp/vxrun.c:208`: sandboxes are never given back: after `Vxprocs` runs every
  call fails.
- `87/movies/build.c:131`: without a blank line after the last film build reads past the
  end of its buffer.
- `87/movies/warp.c:70`: only titles that begin with the letters 'A' to 'Z' are modelled.  One
  that begins above 'Z', in lower case, has an index of 26 or more and `warp` is written
  out of bounds; one that begins below 'A' never counts as a first title.
