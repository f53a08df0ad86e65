# A TLA+ model of taucoin-go-p2p

This directory holds TLA+ specifications of the peer-to-peer node in `p2p/`, of
its protocols, and of the database in `taudb/` with its storage layer and its
buffers; TLC configurations that check them on small instances; and TLAPS proofs
of the properties that matter most, for every size of the instance. Definitions keep the names of the
Go code where TLA+ allows it.

## 1. The system

The program runs beside an ipfs daemon. It has no connections of its own: it
asks the daemon which nodes the swarm is connected to, keeps a *peer* for each
of them, and talks to a peer by publishing and subscribing to topics.

| Component | State it keeps | Operations | Talks to |
|---|---|---|---|
| Server (`p2p/server.go`) | map of peers, home node, `running`, channels `quit`, `peerOp`, `peerOpDone`, `delpeer`, `checkpointAddPeer` | Start, Stop, Peers, PeerCount, the run loop | Discover (channels Conn, Disc), Peer (Disconnect, delpeer) |
| Discover (`p2p/discover`) | node database, channels Conn, Disc, `quit`, wait group | Start, Stop, a tick every 10 s | ipfs daemon, Server |
| Filter, node database (`p2p/discover/filter.go`, `p2p/tnode`) | last snapshot of the swarm, home node | Filter, MakeNodesMap, Choose, Replace | Discover |
| Peer (`p2p/peer.go`) | subscriptions, write token, error channels, `closed`, wait group | run, readLoop, handle, WriteMsg, ReadMsg, Disconnect | ipfs pubsub, protocols, Server |
| Protocols (`forum`, `tau`) | tau: the set of its peers, with a lock | Run (one goroutine per peer), forum's helloLoop; tau: handle, removePeer, Register, Unregister, Close | Peer (ReadMsg, WriteMsg, Disconnect) |
| File storage (`taudb/storage/file_storage.go`) | files, CURRENT and its backup and pending files, open counter, two locks, log | OpenFile, Lock, SetMeta, GetMeta, List, Open, Create, Remove, Rename, Close | operating system |
| Memory storage (`mem_storage.go`) | map of files, lock, meta descriptor | the same | - |
| Database layer (`taudb`: batch, key, taudb) | batches: encoded records and an index of them; internal keys | Put, Delete, append, Dump, Load, Replay; IPFSdb.Write | ipfs daemon |
| Utilities (`taudb/utils`) | a byte buffer; a pool of buffers with learned sizes, a lock and a draining goroutine | Write, Alloc, Grow, Truncate, Read, ReadFrom, WriteTo; Get, Put, Close | - |
| ipfs api, commands, error values | - | start-up, connections | ipfs daemon |

What is hard about it:

* **Concurrency.** The server's loop, the discovery goroutine, a goroutine per
  peer, per topic and per protocol, helper goroutines nobody waits for, and the
  callers of Stop, Peers and Disconnect meet in `select` statements on
  unbuffered channels. Two of the channels join goroutines that also wait for
  each other.
* **Decisions taken early and used late.** The limit on peers is tested one turn
  of the loop before the peer is added; a disconnect may meet a node that is
  between the two.
* **Shutdown.** Every goroutine has to notice `closed` or `quit`; error channels
  must have room for the errors nobody reads any more.
* **Crash recovery.** The meta descriptor is kept in several files that are
  rewritten one after the other, and the recovery rewrites the files it
  recovers from.
* **Several processes on one directory.** A lock file between processes, a lock
  inside each, a counter that says whether the storage is closed, and handles
  that outlive it.
* **Locks held while waiting.** The tau protocol's Close disconnects its peers
  under the lock their handlers need.
* **Shared buffers.** A reader of the memory storage looks at the buffer that a
  later writer of the same file uses; the buffer pool learns its sizes with
  single atomic operations; a batch's index points into bytes that are moved.

What makes each component correct: *Discover* reports every change of the
snapshot exactly once and in order; *Server* never exceeds its limit, never has
two peers for a node, never loses one, and stops; *Peer* writes one message at
a time, always has room for the errors of its goroutines, and ends; *meta
storage* is an atomic durable cell; both *storages* do to a descriptor what the
interface `Storage` says; *memory storage* gives a reader what was there when it
opened the file; *file storage* has one writing process, also after failures;
*tau* keeps an entry exactly while its handler runs and never deadlocks; a
*batch* gives back the operations put into it, whole or torn; the *buffer pool*
never gives a buffer to two owners; the *byte buffer* is a queue.

## 2. The modules

| Module | Models | Uses |
|---|---|---|
| `Discover` | `discover.go`, `filter.go`, `tnode` | |
| `PeerLife` | abstract: what the server assumes of a peer | |
| `Server` | `server.go`, composed with the discovery and any number of peers | extends `Discover`, peers as in `PeerLife` |
| `Peer` | `peer.go`, with protocols as in `forum` and `tau` | instantiates `PeerLife` |
| `MetaCell` | abstract: what SetMeta and GetMeta promise | |
| `MetaStore` | `setMeta`, `SetMeta`, `GetMeta` of `file_storage.go` | instantiates `MetaCell` |
| `StorageTypes` | descriptors of `storage.go` | |
| `Storage` | abstract: the interface of `storage.go` | |
| `MemStorage` | `mem_storage.go` | extends `StorageTypes`, instantiates `Storage` |
| `FileStorage` | the rest of `file_storage.go`, `file_storage_unix.go` | extends `StorageTypes`, instantiates `Storage` |
| `TauPeers` | `tau/handler.go`, `tau/peer.go` | peers as in `PeerLife` |
| `InternalKey` | `key.go` | |
| `Batch` | `batch.go`, `IPFSdb.Write` of `taudb.go` | extends `InternalKey` |
| `BufferPool` | `buffer_pool.go` | |
| `ByteQueue` | abstract: what a Buffer promises | |
| `ByteBuffer` | `buffer.go` | instantiates `ByteQueue` |
| `ServerProofs`, `PeerProofs`, `TauPeersProofs`, `MetaStoreProofs`, `MemStorageProofs`, `FileStorageProofs`, `BufferPoolProofs`, `TaudbProofs` | theorems; those about `Discover` are in `ServerProofs`, those about `InternalKey`, `Batch` and `ByteBuffer` in `TaudbProofs` | extend the modules they are about |
| `MCDiscover`, `MCServer`, `MCPeer`, `MCMemStorage`, `MCFileStorage`, `MCTauPeers` | constants for TLC | |
| `MCTaudb` | constants for TLC, and a choice of one of the independent parts `InternalKey`, `Batch`, `BufferPool`, `ByteBuffer` | extends them |

A definition preceded by the comment "variant:" is a deliberately wrong form of
the definition that follows it (a dropped guard, a missing reset, a swapped
order). No specification uses it; substituting it for the right one makes TLC
report the property the variant belongs to, which shows that the property
depends on that piece of code.

### Discover

`dpc` is where the goroutine is, `nodes` the database's snapshot, `discs` and
`conns` what the current round still has to send, `dquit` the tokens in the
buffered channel `quit`. One action per piece of code between two channel
operations: `Begin` (the goroutine joins its wait group only when it runs),
`Tick` (the handler up to its first send; the daemon's answers are its
parameters), `SendDisc`, `SendConn`, `RoundEnd`, `QuitRecv`, `StopSend`,
`StopWait`. `told` is a history variable: the nodes the listener believes
connected.

A multiaddr is a sequence of components, as `strings.Split` gives it: an empty
one, then a protocol name. `ConnsAssumption` says so. `isPrivate` tests the
protocol name, so its half of the filter never admits anything: `OnlyRelayed`
holds because of that, and the comment on `DB.nodes` ("p2p-circuit peers")
agrees with it.

### Server

`srv` is where `run` is. A receive from an unbuffered channel is one step with
the matching send, so `RecvConn(n)` contains `SendConn(n)`. `checkpointAddPeer`
is buffered and `run` is its only sender and only receiver: `SendCheckpoint`
blocks while it is full. `peers` is the map, `life[r]` the life of a peer object
(module `PeerLife`), `pnode[r]` the node it was made for. A closed peer may be
*held*: one of its read loops has a subscription that `run` of the peer did not
close, so that its wait group waits until a message comes in or the daemon ends
the subscription (`PeerHold`, `PeerRelease`). A peer object is used
again after its drop was received; that keeps the model finite and loses
nothing, since the code keeps no reference to a dropped peer.

`Peers` and `PeerCount` differ only in the function they pass, which reads the
map: both are `PeerOp`, `RecvPeerOp`, `SendPeerOpDone`, `PeerOpQuit`. `Start` is
called once ("Servers can not be re-used after stopping"). The events of
`peerFeed` are left out: nothing in the repository subscribes to it.

### Peer

`run` is where `Peer.run` is, `rl[t]` where the read loop of a topic is, `pc[w]`
where a protocol goroutine or helper is. The right to write is a token that
travels through `writeStart`, the publishing thread and `writeErr`. A protocol
reads, may answer with a write, and returns on an error; helpers (forum's
`helloLoop`) write at every tick and end when a write fails with an error they
see. `WriteMsg` shadows its result `err`, so its callers see no failed publish:
`WriteEnd` sends the thread back to work whatever the result.

The map `subChans` is written by the read loops and ranged over by `run`
without a lock. `Register` and `Delete` may lose their update when they overlap
another access, and `MapFatal` is the runtime's abort. An entry added while
`run` ranges over the map may or may not be visited. `Held` says that a
subscription escaped in one of these ways and its read loop is still there.

### MetaStore

One action per file operation of `setMeta`, called by `SetMeta` or by the
restore in `GetMeta`. A file that was opened for writing holds `Bad` until it
was written and synced. `IOError` ends an operation before its next file
operation; `Crash` stops the machine at any point and may undo renames that were
not followed by a directory sync. `Pick` is what `GetMeta` would return.

The model assumes a machine crash keeps every synced file and may undo only
unsynced renames; removals are durable at once. Read-only storages change
nothing and are left out.

`Increasing`, `Faults` and `RemoveDoubted` describe the client and the disk. The
passing run takes a client that stores growing descriptors, does not remove the
manifest of a SetMeta that failed, and a disk whose errors hit SetMeta's file
operations. Without these the promise fails: see section 6.

### MemStorage

Every method holds the mutex throughout, so it is one step. `files` maps packed
descriptors to `memFile` objects, a handle points to its object, also after the
file was removed. `data[o]` lists the writers of the chunks in the buffer, which
readers share; `view[h]` is a history variable with what a reader's file held
when it was opened. `packFile` is modelled with the width of its key: `Nums` is
how many numbers it has room for, 2^60 in the code, and `FileDescOk` accepts
larger ones. `Taken` is the descriptor such a number is taken for.

`UseClosed` lets clients go on using a handle they closed: Close a second time,
which the code means to refuse with `ErrClosed` and does not, and Write, which it
does not test.

### FileStorage

Several `Stores`, each a `fileStorage` in a process of its own, share a directory
`root`, a map from names to files. A name is a number and an extension; a table
has two, `.ldb` and the old `.sst`, and `fsParseName` reads both as the same
descriptor. `flock` is what each storage holds of the file LOCK, with the sharing
rules of flock(2); `slock`, `lk` and `lfs` are the lock inside a storage and the
objects clients hold; `open` is the counter that is -1 after Close and that
handles still count down afterwards. OpenFile is two steps, because the lock file
is taken before the log is opened, and may fail between them. `Kill` is the end
of a process: the system releases what it held. `Forget`, `ForgetHandle` and
`ForgetLock` are clients that drop an object, so that it can stand for a new one.

`Lookup` is the name under which Open and Remove find a descriptor: the new one,
else the old one. Create and Rename use the new name only. So a table that has its
old name can be opened and not renamed, and Create, or a Rename to it, makes a
second file that hides the old one (`Shadowed`) until it is removed.

### TauPeers

One life (as in `PeerLife`) and one protocol goroutine per peer, which runs
`handle`: `Limit` (the test of `maxPeers` through `Len`), `Register` or
`RegisterFail`, `ReadErr`, and the deferred `removePeer` in its three steps
`Lookup`, `Unregister`, `HardDisconnect`. Each method of the peer set takes the
lock anew. `CloseBegin`, `CloseDisc`, `CloseEnd` are `peerSet.Close`, which keeps
the lock throughout and waits in each Disconnect. `Id` is the id cut to eight
bytes, so two peers may share it. `overtaken` is a history variable: the handlers
that passed the limit before another one registered.

### InternalKey and Batch

Bytes are numbers below `ByteBase`, so that encodings are modelled as what they
are. A key is made from a user key, a sequence number and a type; or bytes from
elsewhere are examined. A batch is its encoded bytes `data`, its `index` of
positions and `internalLen`; `recs` is a history variable with the operations
themselves. Lengths are variable-length numbers as in `encoding/binary`.
`decodeBatch` reads the records one after the other up to the first bad one.
`Load` takes the bytes of another batch, cut off anywhere; a batch whose Load
failed keeps the bytes it could not read and can be added to (`broken` counts such
parts). The encodings are kept to the byte because that is what the properties
are about: a length that is cut off, an offset that is moved, an end that is off
by one. `IPFSdb.Write` is a
loop of `WritePut` with an end that the code computes from the wrong number (see
section 6).

### BufferPool and ByteBuffer

A goroutine's call of Get or Put is a sequence of steps with one atomic operation
or one channel operation each. Buffers have identities, so that one that is given
out twice is visible. Close takes the write lock, which waits for the readers
inside and keeps new ones out; `drain` takes buffers out at times of its own and
closes the channels at the end.

The byte buffer is an array with a length and an offset. `grow` returns to the
start of the array, moves the unread bytes, or makes a larger array; ReadFrom has
a loop and is one step per turn. `moved` records what the last operation took in,
gave out or cut off: it is what `ByteQueue` talks about.

## 3. The runs

| Run | Configuration | States | Shows |
|---|---|---|---|
| `discover` | `MCDiscover` | 359 | `Accounting`, `OnlyRelayed`, `StopEnds` |
| `server_safety` | `MCServerSafety` | 244,709 | `Capacity`, `Ownership`, `HomeKnown`, `OpPairing`, `StopWaits` |
| `server_live` | `MCServerLive` | 31,061 | `StopOutcome`, `DisconnectCompletes`, `OpsReturn` |
| `server_stop` | `MCServerStop` | - | refutes `StopTerminates` |
| `peer_safety` | `MCPeerSafety` | 194,441 | `WriteToken`, `OneLateWrite`, `ErrorRoom`, `ImplementsLife` |
| `peer_live` | `MCPeerLive` | 194,441 | `PeerEnds`, `DisconnectReturns`, `HelpersEnd` |
| `meta_store` | `MCMetaStore` | 18,838 | `ImplementsCell` |
| `mem_storage` | `MCMemStorage` | 124,860 | `ReaderStable`, `ImplementsStorage` |
| `file_storage` | `MCFileStorage` | 52,898 | `FlockHeld`, `LockExclusive`, `ListFaithful`, `OnlyOwnerWrites`, `ImplementsStorage` |
| `tau_peers` | `MCTauPeers` | 160,426 | `LimitUnlessOvertaken`, `EntryOwned`, `CloseFinal`, `CloseReturns`, `HandlersEnd` |
| `taudb` | `MCTaudb` | 1,375,934 | `KeyRoundTrip`, `Recorded`, `TornLoad`, `OneOwner`, `RightClass`, `LongEnough`, `SafeClose`, `CounterResets`, `ImplementsQueue` |
| `batch_write` | `MCBatchWrite` | - | refutes `WriteStaysInIndex` |

Some of the properties need a word more:

* `StopOutcome`: whatever else a stopped server that has not ended does, it does
  not do it for ever, except to wait in one of three ways (section 6).
* `StopWaits` says what Stop's comment promises for the call that waited: it
  returns only when no goroutine of a peer is left. A call that found `running`
  unset promises nothing.
* `OnlyOwnerWrites`: the storage that changes a directory is open and holds LOCK
  alone. It would fail if a counter that late handles count down ever made a
  closed storage usable again.
* `ListFaithful`, `ImplementsStorage` of `FileStorage`: List and Open agree on
  what there is, and files come and go as the interface says, with one exception
  that is part of the property: a table with files under both names is listed
  twice, and comes back as the older one when the newer goes.
* `ImplementsStorage` of `MemStorage`: the same for descriptors as they are
  taken; it says that packing confuses the numbers it has no room for, with those
  that have the same low bits, and no others.
* `LimitUnlessOvertaken`: the tau limit is tested under one lock and used under
  another. It can be exceeded, and only by handlers that were overtaken.
* `CloseReturns`, `HandlersEnd`: Close holds the set's lock while it waits, and
  still nobody waits for ever, because what Close waits for (a peer's loop, or
  its channel closed) never needs the lock.
* `TornLoad`: a batch's bytes cut off at any point load as all the complete
  records and no other, and without error only between two records.
* `CounterResets`: counters of the pool that are tested with `==` while others
  count are never stuck above the threshold.
* `RightClass`: the sizes the pool learns stay in the class they are learned for.

The type invariants (`TypeOK`, `DTypeOK`), `Alternation` of `Discover`,
`Register` of `MetaStore` and `LockExclusive` and
`OneHandle` of `MemStorage` hold on the same instances and are proved (section 5);
to check one, name it in the configuration.

### Bounds

* `discover`: three relayed nodes, one of them over two relays, and two
  connections the filter drops. Every difference of two snapshots occurs: gone,
  new, both, none, and the empty swarm of a dead daemon.
* `server_safety`: three nodes for two places, so that a node is refused, waits
  in the checkpoint channel while the last place is taken, and comes back while
  its old peer is still closing. Two callers of Peers compete for the completion
  signal. The three peer objects and the two callers are interchangeable
  (symmetry; no liveness is checked in that run).
* `server_live`: two nodes and two places are enough for the three ways to wait
  for ever (two new nodes in one round; a round in progress at Stop; a held peer
  beside one that ends) and for a spin-down of two peers. No symmetry.
* `peer_safety`, `peer_live`: two topics, so that read loops race with each other
  and with `run`; a protocol and a helper compete for the token; one caller of
  Disconnect, which races with the errors that end the loop.
* `meta_store`: four numbers: one that is settled, one interrupted, one
  recovered, one new.
* `mem_storage`: keys with room for two numbers, and three numbers, the first and
  the last of which share a key; three objects (a removed file lives on while both
  keys are in use), two handles, two locks, one chunk per file.
* `file_storage`: two processes, so that one takes the directory over from
  another that closed it or was killed; a table, with its two names, and a
  temporary file that is renamed to it; three files; two handles, one of which
  outlives its storage; two lock objects.
* `tau_peers`: three peers, two of which share a shortened id, and a limit of one:
  a peer is refused by the limit, by the id, or overtakes another.
* `taudb`, keys: `ByteBase` 4 instead of 256 and `NumLen` 2 instead of 8 keep the
  layout and allow all keys of up to two bytes, with sequence numbers at both ends
  and one beyond.
* `taudb`, batches: two batches of up to two records (so append joins one to one),
  an empty key and one whose length takes two digits, an empty value and one of a
  byte; every cut of every batch, and what is added to a batch of which a part
  could not be read (such a part counts as a record). `KeyOverhead` is 2 instead
  of 8.
* `taudb`, pool: two goroutines, interchangeable; channels with one place; a
  threshold of 2 instead of 20 and counters up to 3, so that one goroutine counts
  past the threshold another has just reached; lengths in the class of the fast
  path and in the last one, where the half of the longer is the least of its class
  (only there and in the first class is a buffer ever twice as long as needed); and
  a slice of the client's own whose length and capacity are in different classes.
* `taudb`, buffer: a first array of 2 bytes instead of 64, reads of at least 1
  instead of 512, and arrays of up to `MaxCap` 5: enough for each of the ways to
  make room, several times over.

Deadlock is not checked: a stopped server, an ended peer, a discovery that was
never started, a process that panicked and exhausted bounds are all states in
which nothing more happens.
That the *wrong* states of this kind are the named ones is what the liveness
properties say.

### Fairness

* A runnable goroutine eventually runs: weak fairness of the steps that are not
  a choice of a `select`.
* A Go `select` takes one of its ready cases at random, and senders waiting on a
  channel are served in order: strong fairness of the server's cases `quit`,
  `delpeer` and `peerOp`, and of Discover's `quit` case. A peer's loop ends with
  the first event that its properties need, so weak fairness of its cases is
  enough.
* Calls of the ipfs API return. `Next` on a closed subscription returns an
  error. Tickers fire.
* Nothing else is forced: no tick brings new nodes, no message arrives, no read
  times out, nobody calls Stop or Disconnect.
* In `Discover` alone the listener is assumed to receive. `Server` replaces the
  assumption by the real run loop, and `StopOutcome` shows where it fails.
* `Server` assumes that a closing peer closes its channel (`PeerClose`, weak
  fairness) and that one whose channel is closed ends unless it is held from some
  time on (`PeerJoin`, strong fairness, since a peer may be held and released
  again). That is what `PeerEnds` shows of `Peer`, as long as the runtime does not
  abort the process. Nothing is assumed to release a held peer, and the properties
  of the server except it by name.
* `TauPeers`: goroutines that can run do; a peer's loop receives the error of a
  protocol that returned; ReadMsg returns once its peer is closed. A peer ends when
  its handler has: the protocol has no topics, so no read loop can hold its peer. A
  peer that runs forum as well has the exception of `PeerEnds`. No read is forced
  to time out and nobody has to call Close.

## 4. Refinement

All of these are checked by runs and proved (section 5).

`Server` keeps one abstract life per peer object, which takes the steps of
`PeerLife` by definition; `Peer`, which models what is inside such a life,
implements `PeerLife` (`ImplementsLife`, with `life` defined from `run` and the
subscriptions). Together they connect the two halves of the system.

`MetaStore` implements `MetaCell` with `val <- Pick`: what GetMeta would return
changes only when a SetMeta succeeds, or between the settled descriptor and
those of interrupted SetMeta calls.

`MemStorage` implements `Storage` through packed keys, for `Fds <- TakenFds`, the
descriptors as the keys keep them. `FileStorage` has names, of which a table has
two: it takes the steps of `Storage` and one more, `Uncovers`, by which an older
file of a table comes back. `listed <- Listed` makes List part of what is promised.

`ByteBuffer` implements `ByteQueue` with `queue <- Unread`: whatever grow, ReadFrom
and Truncate do to the array, bytes come out once and in order.

## 5. What is proved

All with TLAPS, for arbitrary constants that satisfy the assumption named in the
component's module: any number of nodes, peers, goroutines, processes, handles,
any limit and any capacity. The assumptions (`ConnsAssumption`,
`ServerAssumption`, `PeerAssumption`, `TauAssumption`, `MetaAssumption`,
`MemAssumption`, `FileAssumption`, `KeyAssumption`, `BatchAssumption`,
`PoolAssumption`, `BufferAssumption`) give the constants their
types, say that the sets that are counted are finite, and keep the null values
apart. Only two say more: `ConnsAssumption`, the form of a multiaddr, and
`BatchAssumption`, that the base of a byte, 256 in the code, is even and at least 4: half of it is the
base of a variable-length number, which takes finitely many digits only if that
is at least 2. The bounds of TLC's
instances are constants too (`MaxLen`, `MaxCount`, the number of files), so the
theorems hold for every value of them.

A theorem with a hypothesis says so in its ASSUME. The hypotheses are the
conditions on the client or the disk of section 2, each of them necessary: TLC
has a counterexample without it (section 6).

**Discovery** (the first part of `ServerProofs`): `DTypeCorrect`, `DAccounting`, `DOnlyRelayed`,
`DAlternation`. `DTypeOK`, `Accounting` and `OnlyRelayed` are inductive together.
The key step is `Tick`: when a round starts, nothing of the last one is left to
send, so `told` is the domain of the old snapshot, and the two differences
computed by Choose account for the new one. `DAlternation` follows from
`Accounting`: `conns` is disjoint from `told`, `discs` is part of it.

**Server** (`ServerProofs`): `TypeCorrect`, `CapacityHolds`, `OwnershipHolds`,
`HomeKnownHolds`, `OpPairingHolds`, `StopWaitsHolds`, `ServerRunsDiscover`.

* `Capacity` counts the node in the checkpoint channel. It is not inductive
  alone: between the test of the limit and the send one needs to know that there
  is still room, and when the node comes back, that its entry is still free.
  `Pending` states both, and needs `Ownership` to survive a drop: the entry a drop
  deletes is the dropped peer's.
* `LoopInv` is a second layer. `HomeFirst` (the discovery notifies nobody before
  it knows the home node) carries `HomeKnown`; `Emptied` (the loop is left for
  good with an empty map) together with `Ownership` carries `StopWaits`: an empty
  map means that no peer object is alive.
* `ServerRunsDiscover` shows that the composition contains the discovery as it
  is: all that is proved of `Discover` holds of the server's.

**Peer** (`PeerProofs`): `TypeCorrect`, `WriteTokenHolds`, `OneLateWriteHolds`,
`LifeImplemented`, `ErrorRoomHolds`, `SendsNeverBlockHolds`.

* The invariant adds `NotStarted` (nobody holds the token before `run` puts the
  first one into `writeStart`) and `NoneLate` (no late write has begun while the
  peer is not closed). The typing needs the token invariant: `run` puts a token
  into `writeStart` only because the token it follows is gone.
* `ErrorRoom` counts the goroutines that may still report. It needs `NoneReported`
  for the step in which `run` starts all of them. `SendsNeverBlock` is what the
  wait group relies on: with a goroutine still to report, its channel has a place.
* `LifeImplemented` shows that every step maps to a step of `PeerLife` or leaves
  it alone.

**Tau protocol** (`TauPeersProofs`): `TypeCorrect`, `LimitHolds`,
`EntryOwnedHolds`, `CloseFinalHolds`, for any function `Id`, so for any collision
of shortened ids. The invariant adds `HandlerLife` (a handler exists exactly while
its peer does), `FoundOwn` (removePeer finds its own peer, because an entry under
its id can only be its own), `Closing` (while Close holds the lock the peers it has
visited have left their loop) and `Room` (a handler that passed the test and was
not overtaken still finds room). `Room` is what makes the limit inductive.

**Meta descriptor** (`MetaStoreProofs`): `TypeCorrect`, `RegisterHolds`,
`CellImplemented`, for `Increasing = TRUE`, `RemoveDoubted = FALSE` and
`Faults \subseteq {"set"}`. `MInv` says what each file may hold at each file
operation of `setMeta`: the numbers in doubt are above the settled one and their
manifests exist (`Numbers`); CURRENT, and what a lost rename would bring back, is
settled or in doubt (`CurrentHeld`); a pending file is in doubt or obsolete
(`PendingOld`); and what the operation in progress knows (`InProgress`). `PickIs`
then computes what GetMeta finds in such a state, and `CellStep` maps every file
operation, fault and crash to a step of `MetaCell` or to none.

**Memory storage** (`MemStorageProofs`): `TypeCorrect`, `LockExclusiveHolds`,
`StorageImplemented`, and for `UseClosed = FALSE` `ReaderStableHolds`. That a
reader's buffer stands still needs that nobody else has the file open
(`OneHandle`), which needs that the flag on which Open and Create decide is set
while a handle is open (`OpenFlag`); a second Close clears it. The refinement
rests on `packFile` giving two valid descriptors one key exactly if they are taken
for the same one, and on `unpackFile` giving that one back; it assumes nothing of
the numbers.

**File storage** (`FileStorageProofs`): `TypeCorrect`, `FlockHeldHolds`,
`LockExclusiveHolds`, `OnlyOwnerWritesHolds`, `UsableIffOpenHolds`,
`ListFaithfulHolds`, `StorageImplemented`, all without hypotheses.

* `FlockKind` and `FlockAlone` (a storage in use holds LOCK the way it was opened,
  a writer holds it alone) make the lock file inductive; `LocksOwned` ties a held
  lock object to the `slock` of its storage.
* `CountExact` is the argument for the counter: while the storage is open it is
  the number of open handles, so it is never negative; after Close it is at most
  -1 and handles only count it down, so the storage never becomes usable again.
* List and the refinement follow from `fsParseName` inverting both names, and from
  a change of one descriptor's names leaving what Lookup finds for the others alone
  (`OthersKeepNames`).

**Buffer pool** (`BufferPoolProofs`, for the specification `Safety` of the pool
by itself, which `taudb` runs as one of its parts): `TypeCorrect`,
`LongEnoughHolds`, `RightClassHolds`, `SafeCloseHolds`, `CounterResetsHolds`,
`OneOwnerHolds`, each with an invariant of its own.

* `Knows` is what a goroutine in the middle of Get may rely on after the atomic
  operations of others. Classes are intervals (`PoolNumConvex`): a size between
  two of a class is of that class, so halving and learning stay in it.
* `ClosedOnce` says that the closing Close, its element in `closeC` and the end of
  `drain` follow each other.
* `OneResets`: exactly one goroutine finds a counter equal to the threshold, and
  until it has reset the counter nobody else does.
* `Distinct` and `Carries` say where arrays are; `OneOwner` counts them, by
  mapping owners one-to-one to arrays.

**Keys and batches** (`TaudbProofs`, for the specifications `KeySafety` and
`BatchSafety` of a client of each): `KeysRoundTrip`, `BatchesRecord`,
`BatchesLoad`. What the codecs compute is defined by recursive functions. The
library's induction theorems take an operator as a parameter, which the provers
cannot instantiate, so the module has its own, about sets: `MeasureInduction`,
`NatSets`, `NatStrong` and `SeqSets` say that a set that has an element whenever it
has the smaller ones has all of them, and follow from `LeastOf`, that a set of
numbers has a least one. `Recursion` says that a function with one recursive call,
for an argument of smaller measure, exists and meets its equation; `Weight`,
`UintFrom`, `uvarint`, `Uvarint`, the loop of `decodeBatch` and the sum
`InternalLen` are instances of it.

* Keys: the digits of a number below the weight of `NumLen` bytes give back the
  number (`NumberBack` and `BytesBack`, both ways), and a sequence number and a
  type that can be made are below it. `KeyKnown`, that the bytes at hand are bytes
  and what they were made of could be made, is inductive.
* Records: a length is read back whatever is behind it, and is not read when it is
  cut off. So decodeRec finds in an encoded record the entry that appendRec made
  of it, and finds nothing in a record that is cut off anywhere.
* Batches: `Laid` describes the bytes of several operations by those of fewer;
  every cut of them is behind a number of complete ones (`LaidCut`), and the loop of
  `decodeBatch`, by induction from the last record back, gives their entries, and an
  error exactly if something is left over. `BatchKnown` is inductive: the index of
  each batch describes its operations in its bytes (`Good`), and the bytes of a
  batch with no part that a Load could not read are those of its operations and
  nothing else (`Made`). The second part is needed because Load takes the bytes of
  another batch, not its index; the first is all that append and Put need, so it
  also holds of a batch that is added to after its Load failed.

**Byte buffer** (the last part of `TaudbProofs`, for the specification `BufSafety` of one
buffer): `QueueImplemented`. The invariant `Within` only says that the unread bytes
lie inside the array and that a nil buffer has none. The work is in what `copy`
does to a part of a sequence: parts before the place it writes to are left alone
(`BeforeCopy`), what it wrote is there (`WhereCopied`). So each of the ways in
which grow and ReadFrom make room keeps the unread bytes and puts the new ones
behind them (`GrowKeeps`, `PlacedAdds`), and a read or a cut splits them (`TakeCut`).

Only model-checked: the liveness properties (`StopEnds`, `StopOutcome`,
`DisconnectCompletes`, `OpsReturn`, `PeerEnds`, `DisconnectReturns`, `HelpersEnd`,
`CloseReturns`, `HandlersEnd`), because fairness is out of the prover's reach. Every
invariant, action property and refinement that a run checks is also a theorem.

## 6. Where the code does not do what it says

Refuted by a run, and listed in `PROJECT.json` with the lines involved:

* **Stop may never return** (`server_stop`). `run` stops receiving and then waits
  for the discovery goroutine, which may be in the middle of a round. There are two
  other ways to get stuck: `run` blocks on its own checkpoint channel, when two new
  nodes arrive before the first is taken out; and it waits for the drop of a peer
  that is held by a subscription. `StopOutcome` shows that there is no fourth, as
  long as the process is not aborted.
* **Write runs past its batch** (`batch_write`). `IPFSdb.Write` counts records up
  to `internalLen`, a number of bytes, and panics after the last record of every
  batch that has one.

TLC shows these too, with a change to a configuration:

* **A node that left gets a peer.** The disconnect arrives while the node waits
  in the checkpoint channel. (`INVARIANT GoneNodesHaveNoPeer` with
  `MCServerLive.cfg`.)
* **A peer may never end.** A subscription that is made after `run` ranged over
  `subChans`, or whose entry is lost in the race on that map, is not closed, and
  `run` waits for its read loop, and the server for the peer. (`PROPERTY RunReturns`
  with `MCPeerLive.cfg`; `PeerEnds` shows that this, and the abort of the map race,
  are the only ways.)
* **Recovery loses the descriptor.** When CURRENT names a missing file, the
  restore first overwrites the good CURRENT.bak. (`RemoveDoubted = TRUE` in
  `MCMetaStore.cfg`.)
* **Close of a memory file is not idempotent.** A second Close of an old handle
  releases the file of another one. (`UseClosed = TRUE` and `INVARIANT
  OneHandle` in `MCMemStorage.cfg`.)
* **Two descriptors are one memory file** when their numbers differ only above the
  60 bits that a key has room for. (`INVARIANT OwnFile` in `MCMemStorage.cfg`.)
* **A table is listed twice, and survives Remove,** when it was created, or renamed
  to, although its old name was in use. (`INVARIANT OneName` in
  `MCFileStorage.cfg`.)
* **A table that Open finds cannot be renamed** while it has its old name.
  (`INVARIANT RenameFinds` in `MCFileStorage.cfg`; it fails in an initial state.)

Seen while modelling, without a statement of their own: a second Stop returns at
once while the first still waits (`StopWaits` promises nothing of a call that
found `running` unset);
`WriteMsg` returns nil after a failed publish; with I/O errors in GetMeta's
restore or in SetMeta's directory sync, or with descriptors that do not grow,
`Register` fails as well (`Faults`, `Increasing` of `MetaStore`); a node
that comes back while its old peer is closing is ignored and not reported again;
tau's `MakeProtocol` copies its topics into a slice of length zero, so the
protocol subscribes to nothing; `IPFSdb.Put` ignores its key and stores the value
of a deleted record as an empty block; `IPFSdb.Get` reads into a slice of length
zero; a file handle that outlives its storage logs the failure of its Close
through a log that was closed and may rotate the log of the next owner.

## 7. Not modelled

Not modelled: the ipfs api, commands, error values and texts, logging, hashes,
checksums and key ranges (no state, or pure I/O); the lock files of systems other
than unix (system calls with the same effect); the requests `Get`, `Has` and
`Delete` of `IPFSdb`, which each pass one call to the daemon. The reasons are with
the components in `PROJECT.json`.

Left out of a modelled component: `PeerFeed` events (nobody subscribes), the log
of the file storage, a system that refuses to release the file LOCK (the release
then leaves it to the end of the process), read-only opens of the meta files, the
pool's statistics, and the contents of messages.
