# TLA+ verification of OpenBook FS

OpenBook FS is a FUSE file system whose directory tree is shared by a few
backends.  Every backend keeps copies of the files its user checked out, in a
SQLite database and a data directory, and synchronises them with the backends it
is connected to; version vectors decide which copy is newer.  This directory
holds TLA+ models of the backend, the TLC configurations that check them on small
instances, and proofs for TLAPS.  Source paths below are relative to `src/src/`
of the repository.

Run a model with `tlc -config X.cfg M` (X and M as in the table of section 3),
check a proof with `tlapm M_proofs.tla`.

## 1. Inventory

| Part (code) | State it keeps | Operations | Status |
|---|---|---|---|
| Version vectors (`backend/VersionVector.*`) | pairs key, count; absent means 0 | the six comparisons, lookup | modelled, proved |
| Priority queue (`PriorityQueue.h`) | per level a free list and a FIFO of nodes, the set of non-empty levels, two conditions | `insert`, `extract` | modelled, proved |
| Replication of a file (`backend/Database.cpp`, `backend/MessageHandler.cpp`, `jobs/SendTree.cpp`, `jobs/SendFile.cpp`) | rows of `version`, `files.subscribed`, `downloads`, `downloads_v`; the file; temporary files | `incrementVersion`, `addDownload`, `mergeData`, `release`, `checkout`; handlers of StartSync, SendTree, NodeInfo, SendFile, FileChunk | one path modelled, causality proved |
| Peer ids (`backend/Database.cpp`, `backend/Backend.cpp`, `backend/MessageHandler.cpp`) | `known_clients`, the id map of a `MessageHandler` | registerPeer, buildPeerMap, mapPeer, mapVersion | modelled |
| Tables and directory tree (`backend/Database.cpp`, `jobs/SendTree.cpp`, `backend/MessageHandler.cpp`) | rows of `files` and `version`, the parent id of a row; the walk of a job | mknod, unlink, readdir, merge, isSubscribed, checkout, release; the walk, the DirChunk handler | modelled |
| Mounted file system (`backend/FuseContext.*`, `backend/FileContext.*`, `backend/fuse_operations.cpp`) | the data directory, a `FileContext` per open file with its mark, the slots of the `FileMap` | every request that changes files, names or tables | partly, proved |
| Connection life cycle (`backend/Connection.*`, `backend/Backend.cpp`, `Pool.h`, `Synchronized.h`) | pools of connections and workers, `m_peerMap` and its condition, three threads and two queues per connection | onConnect, handleClient, registerPeer, listen, shout, worker loop, clean-up; initDH, attemptConnection | modelled, proved |
| Handshake (`backend/Connection.cpp`) | numbers drawn, role, keys, cipher | leaderElect, keyExchange, sendCEK, initAES, AuthRequest | partly |
| Message codec (`Marshall.cpp`) | a byte stream, a frame in parts | write, read | modelled but for the cipher |
| Job worker (`backend/LongJob.*`, `jobs/`) | a linked list of jobs, the running one | enqueue, run, quit | modelled, proved |
| Listener (`backend/SocketListener.cpp`, `NotifyPipe.cpp`) | the interface, a pipe, a socket | setInterface, the loop, accept, quit | partly |
| Mount points and shutdown (`backend/MountPoint.*`, `backend/Backend.cpp`, `backend/main.cpp`) | `m_mountPts`, a fuse thread per mount, where `run()` is | mount, unmount, SIGINT, `Backend::run` | modelled |
| Configuration (`backend/Backend.cpp`) | settings | the set operations, load, save | partly |
| Command line and Qt clients (`clui`, `gui`) | a command under way | the commands and buttons | partly |
| Old message codec (`MessageBuffer.*`) | – | – | no caller |
| Reference counting (`ReferenceCounted.h`) | a plain integer per object | reference, dereference | not modelled |
| Generated code, crypto experiment (`scripts`, `msg_gen`, `test`) | none | none | out of scope |

**How they interact.**  A user's StartSync goes through a connection's listener
and worker to the job worker of the backend (a SendTree job) and, as a SendTree
message, to the peer, which queues a job of its own.  The job sends an IdMap,
a DirChunk per directory and one NodeInfo per subscribed file through
`Backend::sendMessage`, which looks the connection up in `m_peerMap` and puts the
message into that connection's outbound priority queue; the shouter writes it, the
peer's listener reads it into the inbound queue, the peer's worker handles it.  A
DirChunk creates a directory and merges its listing into the table.  A NodeInfo
with a newer version registers a download and asks for the file (SendFile); a
SendFile job streams FileChunks; the last one replaces the file.  All of this runs
beside FUSE threads that write the same files and the same tables.  Every
`Database` call holds one mutex; nothing is held between two calls.  Commands of
the command line and the Qt client come over the same listener and workers; they
set what the listener listens on, mount, unmount, connect and start jobs, until
`Backend::run` is told to end and takes everything down.

**What is hard.**  Handlers and jobs that read a version in one critical section
and act on it in another; requests that change the disk and the tables in separate
calls; urgent messages that overtake slow ones; announcements that arrive while a
download of the same file runs; disconnects that leave rows, requests and jobs
behind; a listing that arrives before the row of its directory; ids that mean
something else on every peer and maps that outlive their connection; ids of rows
that were never read; objects returned to pools while their thread still runs; one
condition variable shared by waiters for different things; an interface that
changes while it is read; a shutdown that meets commands half done; queues of
fixed size.  `PROJECT.json` lists each hazard at its line.

**What makes each part correct.**

* Version vectors: `<` is a strict order that missing keys do not disturb.
* Queue: no storage is lost, messages of a level leave in order, the most urgent
  level goes first, nobody sleeps while something is queued and nobody woken.
* Replication: a close makes a version nobody else makes; a copy is only replaced
  by one that includes its edits; equal versions are equal bytes; newer versions
  arrive.
* Peer ids: local vectors say what the peers did, whatever the numbering.
* Tree: a row is found in its directory; a walk brings what there was.
* Mount: what is on disk is listed, a change is counted by a version, slots of open
  files come back, what is subscribed has a version.
* Sessions: a worker serves one connection, the peer map names the live connection
  of a peer, nothing crosses from one session to the next, dead sessions end.
* Handshake and codec: the ends agree who leads and which key they use; messages
  arrive whole and in order.
* Backend: jobs are done in order, a fuse loop has an owner, a new interface is
  taken up, a command is answered, a backend that is told to end does end.

## 2. Modules and the code

**VersionVector** translates the comparison operators, over functions from keys to
counts that may have different domains.

**PriorityQueue** has one action per critical section: `Insert`, `InsertFull` (the
null `pop_back()`), `ExtractTake`, `ExtractWait`, `SpuriousWakeup`.  A signalled
consumer has to take the mutex again and others may come first.  `m_notFull` is
never reached: `insert()` dies before it could wait (see finding 1).
**PrioChannel** is what the queue promises: a FIFO channel per level, served by
urgency.  **PQueueList** extends PriorityQueue by the `next`/`prev` pointers of the
intrusive lists, which every action moves; `ListsAreSequences` says that the
pointers form the sequences of PriorityQueue.

**Replication** follows one path on every peer.  `Open`, `Write`, `Truncate`,
`Close` are the FUSE calls (truncate by path, and a write with handle 0, are an
`Open`, a change and a `Close` in a row); `Release` and `Checkout` the extended attributes.
`JobStat`, `TreeInfo`, `FileCheck`, `FileRead` are the steps of SendTree and
SendFile between their calls to the database and the file system; `HandleTree`,
`HandleInfo`, `RequestFile`, `HandleGet`, `HandleChunk` those of the message
handlers.  The NodeInfo handler is two steps because the version can change
between its comparison and `addDownload`; its `isSubscribed` and `getVersion` are
one step.  `Shout` moves a message from the prioritised queue to the wire,
`Disconnect` drops what was not written and any suffix of what was.  A block
carries the name of the session that wrote it.  `edited` and `minted` are history:
the closes of each peer, and each vector a close made with the edits in it; the
`v` of a chunk is history too.  `MaxBacklog` keeps SendFile from running ahead; a file
that shrinks during a transfer makes the job send empty chunks until the version
changes, which that bound contains.  **CausalVersions** is the abstract
specification: copies are changed by closes and replaced, as a whole, by strictly
newer ones.

**PeerIds** takes the identity of peers apart.  `known` is `known_clients` of
each backend, `trans` the map in the worker that serves a connection, `workers`
the pooled workers with the maps they still hold.  `HandleMap` is the IdMap
message (which is also where a peer learns ids), `Translated` is `mapVersion`, `HandleInfo`, `HandleGet` and `HandleChunk` do what
they do in Replication for a file of one chunk.  `truth`, `means` and `asked` are history:
the vector over real peers that a local one stands for.

**FileTable** has the calls of the Database on the tables `files` and `version` as
operators: a table is a record of four sets of paths (it has a row; the row names
its directory; it is subscribed; it has a version).  Most calls read the id of a row
into a local that is not initialised; for a path without a row the result is the set
of tables for whatever id the stack held (`Hit`), so those operators return a set.
The Database uses no transactions: each statement is on disk when it returns.
`MknodHalf`, `UnlinkHalf`, `CheckoutHalf` and `ReleaseHalf` are what is left when the
process dies between the two statements of a call.

**Mount** is a FUSE mount over these tables: `disk` is the data directory, `slot`,
`free` and `handles` the `FileMap` and the handles the kernel holds.  An action is
what a request does up to its next call to the database; the calls it has still to
make are in `todo`, and `DbMknod`, `DbUnlink`, `DbCount`, `MakeDirectory` carry them
out, with `Install`, `Learn` (other threads of the backend) and `Crash` in between.
No other thread sees a call of the Database half done, because it holds the mutex, but
a crash may: it leaves any of the tables in `Interrupted`.  `Rename` covers files,
links, directories and a directory over an empty one; `RenameAlias` is the rename of
one hard link to another, in which the kernel leaves both names.
`Getattr` is what the kernel knows of a name before it sends a request: a name that
is neither on disk nor subscribed is an empty file.  `write`, `release` and
`releasedir` take handle 0 for none, as the code does.  `uncounted`, `excused` and
`stray` are history.

**TreeSync** lets the tree of one backend travel to another: `WalkStep` is a turn of
`SendTree::go`, `HandleChunk` and `MergeChunk` the two halves of the DirChunk
handler, which creates the directory and then merges its listing, `Drop` and
`Reconnect` the connection.  `Make` and `MakeThere` are the users: they create what has
no row, and the file of a row that is not subscribed (`Creatable`).

**Session** has the threads of a connection.  `pc` is where `main()` stands:
`OnConnect` and `HandleClient` start it, `Handshake` ends in `RegisterPeer` (or in
the worker's loop for a user interface), `Handle` is a turn of that loop,
`JoinListener` to `Unlock` the clean-up in its order.  `Listen`, `ListenEnd`,
`Shout` and `ShoutQuit` are the other two threads.  Both pools hand out the object
that came back last.  A client that finds a pool empty leaves no state and no
step.  A Quit overtakes queued messages of lower priority; which those are is left
open.

**Handshake** has the two ends of a connection, each with the label of what it does
next: `Draw` and `Compare` are the loop of `leaderElect`, `Offer` and `Agree`
`keyExchange`, then `SendCEK` on the leader and `InitAES` on the follower, `Greet` and
`Meet` the AuthRequests.  A frame carries the key it was sealed with; a frame of
another type or key makes the reader throw.  Diffie-Hellman is taken at its word.

**Framing** is the byte stream of `Marshall`: `WriteMessage` serialises, `SendSome`,
`ReadSize` and `ReadData` are single calls of `send()` and `recv()` that move any part
of what is left, `WriteThrows` and `ReadThrows` the exceptions.  The header has two
digits to the base `Base` instead of 256, so that small messages use both.

**JobQueue** is the linked list of the `JobWorker` with its three pointers and the
thread that works on it; **Listener** the thread, the pipe and the interface of a
`SocketListener`; **Clients** the commands of `obfs` and of the Qt window, as what the
handler makes the backend do.  **Daemon** extends the three and composes them with
`Backend::run`: a thread (one per client's command, and the main thread) has a list
`todo` of operations and does them one after the other, `DoMount`, `DoSocket` and the
like, interleaved with all the other threads.  An operation whose code gives up the
processor while it is half done has two steps (`At`, `Amid`).  `AcceptClient` to
`HangUp` are the session of a client, `RunLoads` to `RunReturns` the main thread.

A MountPoint of Daemon is an object and not a path: a path may have several, because
`Backend::mount` asks nobody whether the path is mounted, or its old MountPoint still
listed.  `mp` is the one a thread has in hand, `mounts` the list, `objects` what is
allocated, `loops` the fuse threads that run, and `stack` what the kernel has mounted
at a path, one over the other.  `Fusermount` takes down what is on top, or nothing when
that is in use; `MountPoint::unmount` takes either for success and joins its thread,
and `Hangs` says of a thread that it joins one whose file system is still mounted.  A
fuse thread uses its MountPoint after its loop; when that was deleted the process may
die (`FuseLoopEnds`).  `late` are the MountPoints listed between the two loops of
`Backend::run`, the first of which unmounts and the second deletes.  `saveConfig` walks
the list without its lock and may end the process when others change it
(`Overlapped`).  Connections are counted: `pool`, `making` (initDH), `shaking` (in the
handshake with a peer), `busy`, and `lost`: one whose handshake threw, or that waits in
registerPeer for an entry that never goes, does not come back, and `run()` waits for
it (`WelcomeCut`, `PeerLost`).

**MC…** modules give the sets of peers, paths and commands and the symmetry for TLC.
Some of them put several instances of a module, or several modules, side by side and
let each behaviour be of one kind, chosen at the start (section 3).  A name with an
underscore (`Increment_All`) in a module is a mutated form of the definition below it,
used only to see that the properties notice.

## 3. Runs

| Run (module) | Instance | What it shows |
|---|---|---|
| PriorityQueue (PQueueList) | 2 consumers, 2 levels of 2 nodes, 2 items, all pointers; 46 thousand states | TypeOK; storage is conserved; `m_prioQueue` is exact; no lost wake-up; the pointers form the lists; implements PrioChannel; `UrgentServed` under fair consumers |
| PriorityQueueFull (PriorityQueue) | 2 consumers, one item | violated: a full level is survived |
| Replication (MCReplication) | 2 writers, 2 edits, 2 syncs, disconnects; kinds *busy* (1 block, edits at any time) and *calm* (2 blocks, edits and truncations between synchronisations); 722 thousand states | `OwnerDominates`, `VectorsCountEdits`, `EditIsFresh`, `NoEditLost`, implements CausalVersions |
| ReplicationMix (MCReplicationMix) | kinds *fair* (1 writer, 2 edits at any time), *released* (release and checkout during transfers) and *quiet* (2 writers, 2 blocks, truncation, edits between synchronisations); 2 syncs; 357 thousand states | TypeOK and `VectorsAreMinted` in all; `NewerIsFetched` in *fair*; `SameVersionSameContent`, `InstalledIsComplete` in *quiet* |
| ReplicationHoles (Replication) | 1 writer, 2 blocks, disconnects | violated: `InstalledIsComplete` |
| PeerIds (MCPeerIds) | 3 peers in a chain, the outer two write, 2 edits, 2 syncs, 1 lost connection; 0.9 million states | local vectors, downloads, comparisons and requests mean what the peers did |
| PeerIdsLostMap (MCPeerIds) | 1 edit, 1 sync, 1 lost connection at any time | violated: `RowsMeanTheTruth` |
| Session (Session) | 2 connections, 2 workers, 2 peers and a user interface, 4 clients, 3 messages; 268 thousand states | TypeOK; `WorkersAreExclusive`, `MapIsExact`, `OnlyItsClient`, `SessionEnds` |
| SessionWakeup (Session) | 4 connections of 2 peers | violated: `WaiterRegisters` |
| Filesystem (MCFilesystem) | 2 slots, 2 files (1 in *wide*), a tree three deep; kinds *nested*, *wide*, *flat*, *linked* (requests and events on different names) and *tree* (2 walks, 1 lost connection); 2.6 million states | MountTypes; `SlotsConserved`, `ChangesAreCounted`, `NothingIsHidden`, `SubscribedHasVersion`; `RowsAreLinked`, `WalkIsComplete` |
| HandshakeKeys (MCHandshake) | two ends with keys of earlier sessions | violated: `KeysAgree` |
| Backend (MCBackend) | kinds *handshake* (numbers 0 to 2, 3 draws), *framing* (3 messages of 1, 3 or 5 bytes, buffers of 3), *talk* (2 clients, a moved listener), *stop* (1 client with any command or button, one path mounted by the configuration and unmounted by hand, SIGINT, lost handshakes) and *mount* (2 clients, one that unmounts and one that mounts or unmounts, two paths mounted, busy file systems, SIGINT); 275 thousand states | `OneLeader`; `DeliveredInOrder`; `JobsInOrder`, `LoopsAreKnown`, `ListensOnNewest`, `Answered`, `ShutdownEnds` |

**Kinds.**  A run with kinds chooses at the start which instance of a module, or which
of several modules, the behaviour is of, and never changes it: the run checks each of
them on its own, with bounds of its own.  The kinds differ in what may happen and in
which names requests use, because all of it at once is too much for TLC.

**Why the bounds are enough.**

* *PriorityQueue*: two consumers give a sleeping, a woken and an overtaking one; two
  nodes per level give a level that is empty, partly and quite full, and lists with
  a first and a last node that differ.
* *Replication*: two writers with two edits produce equal, ordered and concurrent
  vectors; two synchronisations overlap, so that a second announcement, request or
  download of a file meets the first; two blocks distinguish a file that is
  complete from one that has as many bytes.
* *PeerIds*: a chain of three makes a peer hear of another through a third and number
  it differently, and the writers at its ends are known as oneself, as a neighbour
  and by hearsay; two syncs and a lost connection put a worker with an old map in
  front of another peer.
* *Session*: two connections and four clients let both pools be empty, a peer connect
  twice and an object be reused by another client, while three messages are enough to
  leave some behind in both queues.
* *Filesystem*: of two slots one has the number that means none and one is ordinary,
  so that a file can be open twice, behind either, and the map can be full; two files
  let one replace another; the tree has a directory, a child, a grandchild and a name
  beside them.  Two walks overlap with what users do; one lost connection cuts a walk
  anywhere.
* *Backend*: three draws let both ends tie twice and one be a round ahead; three
  messages with buffers smaller than a frame let frames be cut anywhere, also in the
  header; one connection in the pool makes the second client meet an empty one, or take
  it while the first one's commands are still carried out; two MountPoints per path
  (`MaxMounted`) let one be mounted over another and at the path of one still listed;
  two entries make the removal by index move one; two clients that mount and unmount
  while `run()` takes everything down meet it in each of its loops.

`MaxEdits`, `MaxSyncs`, `MaxDrops`, `MaxClients`, `MaxMsgs`, `MaxSent`, `MaxRounds`,
`MaxWalks`, `Asked`, `Made` and the agendas only stop the environment; `MaxInode` bounds
the files that exist at once; `MaxBacklog` stops a job when the link is full (the real
queue has 25 nodes a level and kills the process at the 26th).

`CHECK_DEADLOCK FALSE` appears where the system may rest: a queue with idle
consumers or a dead process, peers that have synchronised all they were asked to,
backends nobody connects to, a mount whose files are all used, a handshake that has
failed, a backend that has returned from `run()`.

**Fairness.**  *fair* of ReplicationMix assumes weak fairness of the job thread, of each
shouter and of each handler; PriorityQueue of consumers that call `extract()` in
a loop; Session of the main, listener and shouter thread of each connection; Backend
of every thread of the daemon: each thread that carries out operations, the session
of each client that has dialled, the fuse loops that are no longer mounted, the
listener, the job worker, the main thread, the threads that bring a connection
back to the pool, and, once the program is told to end, the handshakes with peers,
which the termination pipe ends.  All are endless loops, or straight code, that block only on a
condition variable, a mutex held for a short section, or a socket.  Users, connecting
clients, breaking sockets, jobs that send, SIGINT and spurious wake-ups are never fair.
`NewerIsFetched` excuses a sender that moved on, a receiver with a change of its own
and a broken connection.  `SessionEnds` is stated for sessions with a listener: one
whose handshake threw starts neither listener nor shouter and keeps its worker for
ever, which the run has too.

`Answered` ends with the program, and excepts a client whose unmount hangs: when the
file system is in use, or another one is mounted over it, fusermount's status is not
looked at and the join never returns, so the client that asked for it waits for ever.
`ShutdownEnds` has the same exception for any thread, since `run()` unmounts with the
list locked, and a second: a connection that was lost keeps `run()` in its last loop.
Nothing in the code ends these waits.  The property says that there are no others, and
that a lost connection hinders nothing before that last loop.

**Environment.**  `Env` (`TreeEnv` in TreeSync) switches on what may happen.

* `busyWrite`: users edit while synchronisation is under way; without it they wait
  until it is done.  `SameVersionSameContent` holds only so, because SendFile checks
  the version and then reads the file without a lock.
* `release`: a file may be released and checked out again, which starts its own
  count over; nothing causal holds then.
* `connectDuringSync`: a connection may be replaced between a sync's IdMap and its
  NodeInfo; the NodeInfo is then read with the map of another session (finding 3).
* `learnDuringSync`: a sender may number another peer between a sync's IdMap and its
  NodeInfo.  The NodeInfo then counts an id that its reader cannot translate and
  takes for its own 0; of two ids with one image the larger one's count is kept, and
  rows and comparisons go wrong.  TLC needs three peers, three syncs and two edits to
  show it.  With neither option the four invariants of PeerIds hold, for any number of
  peers (section 5).
* `reconnectDuringWalk`: a peer may reconnect while the walk of its last connection
  still runs; then listings come without those above them, and `RowsAreLinked` does
  not hold.
* `busyMount`: a file system may be in use when it is unmounted.
* `slowClient`: a client dies, or the program ends, in the handshake; `badPeer`: the
  handshake with a peer throws, or its session waits for the entry of one that stays.
* `unreadable`, `interrupt`: files and directories that cannot be used, whose exceptions
  nobody catches; SIGINT.

`ChangesAreCounted` excepts, by `excused`, files with a second hard link, files renamed
while open and what was open in a crash; `NothingIsHidden`, by `stray`, links, what is
below a renamed directory, the file that a checkout makes for a path without a row
(`backend/Database.cpp:1037` creates it whatever row the statements before it hit) and
what a crash interrupted.  `SubscribedHasVersion` is an action property: `mknod` inserts a
subscribed row and gives it a version in the next statement, `checkout` likewise, and
only a crash between two statements may leave a subscribed path without a version.
`LoopsAreKnown` excepts `late`, the race that a todo in `Backend::run` admits.  In all of
these the code does lose a change, a name, a version or a MountPoint, and has nothing
that would repair it.

## 4. Findings

1. `PriorityQueue.h:291`: `insert()` into a full level dereferences a null node; the
   comment below it says it waits for capacity.  (PriorityQueueFull)
2. `backend/Database.cpp:472`: a download counts bytes, not blocks; after a
   disconnect the next transfer starts over, and the file is installed with a block
   missing.  (ReplicationHoles)
3. `jobs/SendTree.cpp:83`: the IdMap is sent once and may be lost with its
   connection; the NodeInfo then goes to a worker without a map, which reads
   every key as its own.  (PeerIdsLostMap)
4. `backend/Backend.cpp:131`: waiters for all peers share one condition that is
   signalled once; the wrong one may take the signal, and the right one sleeps on.
   (SessionWakeup)
5. `backend/Connection.cpp:352`: the empty `else` of the handshake takes the next
   statement as its branch; the follower never receives the content key and goes on
   with one that an earlier session left.  (HandshakeKeys)

## 5. Proofs

**PriorityQueue_proofs**: for any finite set of levels and consumers, any size of
a level and any items, `TypeOK`, `NodesConserved`, `LevelsExact`, `NoLostWakeup` and the
refinement of PrioChannel.  The inductive invariant is the conjunction of the four predicates: `extract()` finds a node at an announced level only
because `LevelsExact` holds, gives it back to the right free list only because of
`NodesConserved`, and `NoLostWakeup` is inductive only with the number of queued nodes
next to the number of woken consumers.  For PQueueList, `ListsAreSequences`: a node
that comes off a list has null pointers and leaves the rest chained
(`TakenFromBack`, `TakenFromFront`), a node with null pointers that is on no list goes to
the end of one (`PutAtBack`), and lists without common nodes do not disturb each other
(`ChainStays`), which is where `NodesConserved` is needed.

**CausalVersions_proofs**: `<` on vectors is irreflexive, asymmetric and transitive,
it is `<=` without `==`, and zero entries change no comparison; assumed is only that
counts are natural numbers.  Of the abstract history: no two edits make the same
vector, no replacement loses an edit.  The inductive
invariant says that an edit belongs to a version exactly when the version counts
it (`VectorsCountEdits`), that no version is ahead of its author
(`OwnerDominates`) and that every copy is a version some edit made.

**Replication_proofs**: `TypeCorrect` and `NoVectorIsInvented` hold for any peers,
bounds and environment, by one typing invariant `Typed(V)` that is used for `V` all
vectors and for `V` the minted ones.  With `"release" \notin Env`, `Refinement`
shows that the protocol implements CausalVersions: a close with changes
is a change, an installed download a replacement by a minted vector that is newer,
all else stutters.  What CausalVersions promises follows: `OwnersDominate`,
`VectorsAreExact`, `NothingIsLost`, `Freshness`.  The assumption is necessary: a
released file loses its rows, and its counts are used again.

The bytes are another matter: an edit that overtakes a transfer mixes two versions.
`TwoPeersAgree` (`SameVersionSameContent`) and `TwoPeersComplete`
(`InstalledIsComplete`) hold for two peers (`TwoPeers`) that edit only between
synchronisations, release nothing and stay connected (`Patient`), for any sizes, edits,
synchronisations and backlog; the *quiet* kind of ReplicationMix is the instance TLC
checks.  The invariant `PairInv` is about the times when m's copy is strictly newer
than n's (`Ahead`): then m's copy stands still, so whatever is on its way to n (an
announcement, a request, a job, a block) is about that very version and size, and a
request, job or block exists only if n's download of that version has
begun (`Asked`, `Block1`, `JobGood`).  `Flows` is the heart of it: the blocks in the
socket, then those in the queue, then the place where the job reads, follow each other
without a gap from the block n expects next (`Stream`), and what n has is the
beginning of m's copy (`Filled`).  So the block that completes the count completes
the file, and as soon as it is installed neither copy is ahead.  Assumed of the
constants is only that the hole is not a written block.

Both assumptions are needed.  With disconnects a block comes twice (finding 2).  With
a third peer `SendTree` can read the size of the file (`jobs/SendTree.cpp:135`), a merge
from the third peer can install a newer file, and then `SendTree` reads the version
(`:176`): it announces the new version with the old size, the receiver takes the file
for complete too early and installs the beginning of it under the new version.

**Connection_proofs**, of Session: for any finite pools, any peers, bounds and
environment, `TypeOK`, `MapIsExact`, `WorkersAreExclusive` and `OnlyItsClient`.  None of them is inductive.
`ClientsExact` ties the client and `m_peerId` to where the main thread stands;
without it a clean-up could remove another session's entry.  `QueuesExact` says
which threads may still use a queue and that the Quit is the last message; without
it a session could begin with leftovers.  `PoolsExact` says that both pools list
what is unused, once, and, for the moments in which a connection is already
claimed again while its old session still holds a worker, that the two workers
differ.  Assumed: the pools are finite and the special values differ from real ones.

Of Handshake: `OneLeader` for any set of numbers and any number of rounds.  The
invariant says for the two sides where the election can stand: both draw, one is
a frame ahead, they have crossed, one has drawn again after a tie that the other has
yet to see, one has decided on a pair of numbers that the other will read too
(`Race`); that a frame lies on the wire means that its reader has the number still to
come.  Of Framing: `DeliveredInOrder` for any base, buffer, message and piece sizes: what the reader
holds, what the socket holds and what the writer still has are, put together, the
frames of the messages that were written and not delivered (`Framed`, by the places
where each frame ends).

**Filesystem_proofs**, of Mount: for any tree of paths (every path but the root has a
parent), any number of slots and files and any environment, `MountTypes`,
`SlotsConserved`, `SubscribedHasVersion`, `ChangesAreCounted` and `NothingIsHidden`.

* The types and the slots are inductive together (`IInv`).  The
  slots need the types: that the context of an open handle is not free says that a
  mark, or the return of the slot, keeps the free list injective.
* `SubscribedHasVersion` speaks of steps: no step adds to the paths that are subscribed
  and have no version (`Torn`), unless it is a crash.  Every operator of FileTable that
  puts a row among the subscribed puts the same row, also when it is the wrong one,
  among the versioned, and the one that takes versions away takes the subscription of
  the same row.  Only the halves of these calls do not, and only a crash ends in one.
* `ChangesAreCounted` needs to know where an open file is.  `CountInv` says that a file
  is at one path, unless it is excused, that an open handle's file is at the handle's
  path, that a marked context is an open one, and that a version that is due for a
  file without a marked handle is among the calls still to make.
* `NothingIsHidden` needs the tables.  `TreeInv` says that the disk is closed under
  parents, that every row has the row of its directory above it, that
  every name on disk is entered, stray or about to be entered, and that a `mknod` or
  `mkdir` still to come is in a directory that exists.  That a rename carries a whole
  subtree along is the lemmas on `Moved`: it maps the subtree onto its new place and
  back, and keeps parents.

Of TreeSync: `RowsAreLinked` and `WalkIsComplete`, assumed that no peer reconnects while a
walk runs (`"reconnectDuringWalk" \notin TreeEnv`; with it the first is false).
`WalkInv` says of each listing under way that its directory is known to the receiver,
blocked by a file of the receiver, or in a listing before it; and of each
path that the walk has to bring that it is known, blocked, on its way, or below a
directory still queued.  When link and queue are empty only the first two are left, and
going up from a path that is blocked to where the block begins is an induction along
the path, made as a choice of the least prefix that is not known.

**PeerIds_proofs**: for any finite set of peers, any meetings and any bounds,
`RowsMeanTheTruth`, `DownloadsMeanTheTruth`, `NewerIsNewer` and `ServedIsAsked`, assumed that
connections are replaced and ids are learnt outside a sync (both options of `Env`
off); without either the rows go wrong (section 3).  A vector *stands* for a history
(`Stands`) when each peer's count is the one under its id, and ids are injective and only
grow, so that what stands today stands tomorrow.  `IdsInv` says that rows and
downloads stand for their histories, and of the net (`NetInv`):

* every message on a link is sound, read with its writer's numbering;
* every announcement comes after an IdMap that tells its ids, or finds them in the
  worker's table and `Right` there, that is, with the image the reader itself would give
  them (`Ordered`);
* between the map and the announcement of a sync the ids are so covered already;
* nothing lies on a link that is down.

From this a translated announcement stands for what the announced one stands for, and
`operator<` answers as on histories.  A request may be read with an old table, or none; it
is harmless because it cannot be taken for another version.  A translation adds no
unit to a vector, so what it reads counts no more than what was asked (`Fits`); a
version that has all of its units and no more is that version.

**Daemon_proofs**: for any set of jobs, `JobsInOrder`: the jobs done, the job under
way and the chain from `m_first` to `m_last` are the jobs posted, in order.  It needs
that a job is enqueued once (each is made by `new`) and that a job not yet enqueued
points nowhere, so that the list ends where the last job ends.  For any clients,
commands, configuration and events, `LoopsAreKnown`.  The invariant gives every
MountPoint that is listed or in hand one owner (`Owned`): the entries of `m_mountPts`
are all different, no thread has a listed one in hand and no two threads the same, and
all of these are allocated.  It follows each through the shutdown: while
`run()` unmounts, the list stands still, because both ways to change it take its lock, so
the loop of each entry has ended or the entry is still on the main thread's list
(`TakenDown`).
Afterwards clients may still mount and unmount: an unmount removes one entry with its
object, and what a mount adds is late; so whatever `RunDestroys` deletes has no loop or
is late.
Stacked mounts, unmounts that hang and loops ended by hand need no case of their own,
since a loop keeps its owner until it ends.  With the typing of the threads the same
invariant gives `DaemonRunsJobQueue`: what all these threads do to the list of jobs is a
behaviour of JobQueue.

**ListLemmas** holds the facts about sequences that the other proofs share.

Only model-checked: all liveness (`UrgentServed`, `NewerIsFetched`, `SessionEnds`,
`ListensOnNewest`, `Answered`, `ShutdownEnds`), which with ENABLED is out of the
prover's reach.  `QuietSameContent` and `QuietIsComplete` of ReplicationMix are
`TwoPeersAgree` and `TwoPeersComplete`, guarded by the kind of the behaviour.

## 6. Not modelled

* `MessageBuffer.*`, an earlier codec that the Qt client is linked with and nothing
  calls.
* `ReferenceCounted.h`: counts that several threads change without a lock.  The models
  take it for granted that an object lives while it is referenced.
* Encryption, Diffie-Hellman and authentication by challenge: libraries, and a part of
  the handshake that two remote peers cannot reach with the keys this code makes.
  That is why Session and Replication start from a handshake that succeeded.
* Requests that change neither files, names nor tables (read, fsync, readlink, chmod,
  chown, utimens, statfs, locks), and a mount of a subdirectory.
* An exception when no process can be started for fusermount (`system() < 0`), which
  would leave `run()` before its end.  Taken for granted of libfuse and the kernel:
  `fuse_mount` refuses a path only for reasons of its own and not because another file
  system is mounted there, and a fuse loop ends exactly when its file system is unmounted.
* An `accept()` that fails, which ends the thread by an exception; Ping and Pong jobs,
  which nothing starts.
* The text of the YAML file, options of the commands, windows and printing; generated
  code; the experiments under `test`.

What the models join only in words: Replication and PeerIds send over links of their
own, of which PriorityQueue, Session, Framing and Handshake are the parts.  A queue
that is full in Replication is finding 1, and not a wait.
