---------------------------- MODULE Replication ----------------------------
(***************************************************************************)
(* How one checked-out file is kept in step between backends: local writes *)
(* through FUSE (FuseContext, FileContext), the version vectors and         *)
(* download rows of the SQLite database (Database), the message handlers    *)
(* (MessageHandler), the job thread (JobWorker, SendTree, SendFile) and the *)
(* prioritised outbound queue of a connection.                             *)
(*                                                                         *)
(* Peer ids are global here: PeerIds.tla models their translation.  The     *)
(* database mutex makes each Database call one step; a handler or a job     *)
(* that makes several calls takes several steps.  A message occupies a      *)
(* queue slot of unlimited supply: PriorityQueue.tla has the limit.         *)
(***************************************************************************)
EXTENDS VersionVector, SequencesExt

CONSTANTS Peer,        \* the backends that exchange the file
          Writers,     \* the peers whose user writes the file
          NChunks,     \* file sizes are 0 .. NChunks blocks of 1024 bytes
          MaxEdits,    \* bound: closes with changes, of all peers (files open at once may pass it)
          MaxSyncs,    \* bound: synchronisations users ask for
          MaxBacklog,  \* bound: chunks waiting on one link
          Env,         \* which optional environment steps happen
          Hole         \* a block never written (reads as zeros)

ASSUME PeerAssumption == Writers \subseteq Peer
ASSUME BoundAssumption ==
    NChunks \in Nat \ {0} /\ MaxEdits \in Nat /\ MaxSyncs \in Nat /\ MaxBacklog \in Nat
ASSUME EnvAssumption == Env \subseteq {"truncate", "release", "disconnect", "busyWrite"}
ASSUME HoleAssumption == Hole \notin Peer \X Nat

\* A block is named by the session that wrote it: the writer and the number of
\* the edit its close will count.
Block == (Peer \X Nat) \cup {Hole}
Vector == [Peer -> Nat]
Zero == [p \in Peer |-> 0]

Link == {l \in Peer \X Peer : l[1] # l[2]}
PrioNow == 0    \* PRIO_NOW: SendTree, SendFile requests
PrioSync == 1   \* PRIO_SYNC: NodeInfo
PrioXfer == 2   \* PRIO_XFER: FileChunk
Prio == {PrioNow, PrioSync, PrioXfer}

None == [none |-> TRUE]

VARIABLES
    version,     \* rows of table "version" of the file, per peer
    subscribed,  \* files.subscribed
    content,     \* the file under the data root: a sequence of blocks
    handle,      \* an application's open file: FileContext and its inode
    down,        \* down[n][m]: row of "downloads"/"downloads_v" and its temp file
    pending,     \* pending[n][m]: NodeInfo handler between its two halves
    jobs,        \* the JobWorker list of each peer, head is running
    up,          \* links whose connection is registered, as sets {n, m}
    out,         \* out[<<n, m>>]: m_outboundMessages of n's connection to m
    wire,        \* wire[<<n, m>>]: socket and inbound queue, in order
    syncs,       \* StartSync requests so far
    edited,      \* history: closes with changes so far, per peer
    minted       \* history: every version a close created, and the edits in it

history == <<edited, minted>>
vars == <<version, subscribed, content, handle, down, pending, jobs, up, out, wire,
          syncs, history>>
files == <<version, subscribed, content, handle, history>>

\* The history variables are those of the abstract specification.
Causal == INSTANCE CausalVersions

NoHandle == [open |-> FALSE, changed |-> FALSE, live |-> TRUE]

Init ==
    /\ version = [n \in Peer |-> Zero]
    /\ subscribed = [n \in Peer |-> TRUE]
    /\ content = [n \in Peer |-> <<>>]
    /\ handle = [n \in Peer |-> NoHandle]
    /\ down = [n \in Peer |-> [m \in Peer |-> None]]
    /\ pending = [n \in Peer |-> [m \in Peer |-> None]]
    /\ jobs = [n \in Peer |-> <<>>]
    /\ up = {{l[1], l[2]} : l \in Link}
    /\ out = [l \in Link |-> [p \in Prio |-> <<>>]]
    /\ wire = [l \in Link |-> <<>>]
    /\ syncs = 0
    /\ edited = [n \in Peer |-> 0]
    /\ minted = {[v |-> Zero, edits |-> {}]}
-----------------------------------------------------------------------------
(* Local file operations *)

\* Without "busyWrite" users let synchronisation finish before they edit and
\* edit before they synchronise.
Idle ==
    /\ \A l \in Link : wire[l] = <<>> /\ \A p \in Prio : out[l][p] = <<>>
    /\ \A n \in Peer : jobs[n] = <<>> /\ \A m \in Peer : pending[n][m] = None
MayEdit == "busyWrite" \in Env \/ Idle
MaySync == "busyWrite" \in Env \/ \A n \in Peer : ~handle[n].open

Tag(n) == <<n, edited[n] + 1>>

\* FuseContext::open / create: a FileContext for the file's present inode.
Open(n) ==
    /\ n \in Writers /\ subscribed[n] /\ ~handle[n].open
    /\ FoldFunction(+, 0, edited) < MaxEdits
    /\ MayEdit
    /\ handle' = [handle EXCEPT ![n] = [open |-> TRUE, changed |-> FALSE, live |-> TRUE]]
    /\ UNCHANGED <<version, subscribed, content, down, pending, jobs, up, out, wire, syncs, history>>

\* Changing the file through the handle: pwrite or ftruncate and mark().  After
\* a merge renamed another file over the path, it only reaches the old inode.
Change(n, blocks) ==
    /\ handle[n].open
    /\ handle' = [handle EXCEPT ![n].changed = TRUE]
    /\ content' = IF handle[n].live THEN [content EXCEPT ![n] = blocks] ELSE content
    /\ UNCHANGED <<version, subscribed, down, pending, jobs, up, out, wire, syncs, history>>

\* FuseContext::write of block b (at most one past the end).
Write(n) ==
    \E b \in 1 .. NChunks :
        /\ b <= Len(content[n]) + 1
        /\ Change(n, IF b <= Len(content[n]) THEN [content[n] EXCEPT ![b] = Tag(n)]
                     ELSE Append(content[n], Tag(n)))

\* FuseContext::ftruncate to nothing.
Truncate(n) == "truncate" \in Env /\ Change(n, <<>>)

\* The version table has rows for the file: it is subscribed, or a merge came
\* after its release.
HasRows(n) == subscribed[n] \/ version[n] # Zero

\* Mutant: every entry of the vector is incremented.
Increment_All(n) == [p \in Peer |-> version[n][p] + 1]
\* Mutant: the rows of the other peers are lost.
Increment_OwnRowOnly(n) == [p \in {n} |-> version[n][p] + 1]
\* Mutant: nothing is incremented.
Increment_None(n) == version[n]
\* Database::incrementVersion is an UPDATE of the peer's own row.
Increment(n) == IF HasRows(n) THEN [version[n] EXCEPT ![n] = @ + 1] ELSE version[n]

\* FuseContext::release destroys the FileContext, which increments the version
\* if it was marked.
Close(n) ==
    /\ handle[n].open
    /\ handle' = [handle EXCEPT ![n] = NoHandle]
    /\ IF handle[n].changed
       THEN /\ version' = [version EXCEPT ![n] = Increment(n)]
            /\ edited' = [edited EXCEPT ![n] = @ + 1]
            /\ minted' = minted \cup
                  {[v |-> Increment(n), edits |-> Causal!EditsOf(version[n]) \cup {Tag(n)}]}
       ELSE UNCHANGED <<version, history>>
    /\ UNCHANGED <<subscribed, content, down, pending, jobs, up, out, wire, syncs>>

\* Database::release (setxattr obfs:release): forget the version, remove the file.
Release(n) ==
    /\ "release" \in Env /\ subscribed[n]
    /\ subscribed' = [subscribed EXCEPT ![n] = FALSE]
    /\ version' = [version EXCEPT ![n] = Zero]
    /\ content' = [content EXCEPT ![n] = <<>>]
    /\ handle' = [handle EXCEPT ![n].live = ~handle[n].open]
    /\ UNCHANGED <<down, pending, jobs, up, out, wire, syncs, history>>

\* Database::checkout: subscribe, version zero, an empty file.  When a late
\* merge left version rows behind, the INSERT fails after the UPDATE and
\* neither the version nor the file is touched.
Checkout(n) ==
    /\ "release" \in Env /\ ~subscribed[n]
    /\ subscribed' = [subscribed EXCEPT ![n] = TRUE]
    /\ content' = IF ~HasRows(n) THEN [content EXCEPT ![n] = <<>>] ELSE content
    /\ UNCHANGED <<version, handle, down, pending, jobs, up, out, wire, syncs, history>>
-----------------------------------------------------------------------------
(* Connections *)

Connected(n, m) == {n, m} \in up

\* Backend::sendMessage and Connection::enqueueMessage.
Sent(n, m, prio, msg) == [out EXCEPT ![<<n, m>>][prio] = Append(@, msg)]
Post(n, m, prio, msg) == IF Connected(n, m) THEN Sent(n, m, prio, msg) ELSE out

\* Connection::shout extracts the most urgent message and writes it.
Shout(n, m) ==
    /\ \E p \in Prio :
        /\ out[<<n, m>>][p] # <<>>
        /\ \A q \in Prio : q < p => out[<<n, m>>][q] = <<>>
        /\ wire' = [wire EXCEPT ![<<n, m>>] = Append(@, Head(out[<<n, m>>][p]))]
        /\ out' = [out EXCEPT ![<<n, m>>][p] = Tail(@)]
    /\ UNCHANGED <<files, syncs, down, pending, jobs, up>>

\* The connection breaks: what was not written yet is dropped, of the rest an
\* arbitrary prefix arrives and is still handled before the worker's Quit.
Disconnect(n, m) ==
    /\ "disconnect" \in Env
    /\ Connected(n, m)
    /\ up' = up \ {{n, m}}
    /\ out' = [l \in Link |-> IF {l[1], l[2]} = {n, m} THEN [p \in Prio |-> <<>>] ELSE out[l]]
    /\ \E i \in 0 .. Len(wire[<<n, m>>]), j \in 0 .. Len(wire[<<m, n>>]) :
          wire' = [wire EXCEPT ![<<n, m>>] = SubSeq(@, 1, i), ![<<m, n>>] = SubSeq(@, 1, j)]
    /\ UNCHANGED <<files, syncs, down, pending, jobs>>

\* registerPeer waits until the old connection's worker is done and removed.
Reconnect(n, m) ==
    /\ ~Connected(n, m)
    /\ wire[<<n, m>>] = <<>> /\ wire[<<m, n>>] = <<>>
    /\ pending[n][m] = None /\ pending[m][n] = None
    /\ up' = up \cup {{n, m}}
    /\ UNCHANGED <<files, syncs, down, pending, jobs, out, wire>>
-----------------------------------------------------------------------------
(* The job thread *)

TreeJob(m) == [kind |-> "tree", to |-> m, pc |-> "stat", size |-> 0]
FileJob(m, v, tx) ==
    [kind |-> "file", to |-> m, pc |-> "stat", size |-> 0, v |-> v, tx |-> tx, off |-> 0]

Enqueue(n, job) == jobs' = [jobs EXCEPT ![n] = Append(@, job)]
Finish(n) == jobs' = [jobs EXCEPT ![n] = Tail(@)]
Continue(n, job) == jobs' = [jobs EXCEPT ![n][1] = job]

Running(n, kind, pc) ==
    jobs[n] # <<>> /\ Head(jobs[n]).kind = kind /\ Head(jobs[n]).pc = pc

\* MessageHandler StartSync, on the user's request: queue our tree for m and
\* ask m for its own.
StartSync(n, m) ==
    /\ Connected(n, m)
    /\ syncs < MaxSyncs /\ syncs' = syncs + 1
    /\ MaySync
    /\ Enqueue(n, TreeJob(m))
    /\ out' = Sent(n, m, PrioNow, [type |-> "tree"])
    /\ UNCHANGED <<files, down, pending, up, wire>>

\* SendTree and SendFile first stat the file; SendTree only visits subscribed
\* files, SendFile throws when there is none.
JobStat(n) ==
    /\ \/ Running(n, "tree", "stat") \/ Running(n, "file", "stat")
    /\ IF subscribed[n] \/ (HasRows(n) /\ Head(jobs[n]).kind = "file")
       THEN Continue(n, [Head(jobs[n]) EXCEPT !.size = Len(content[n]), !.pc = "loop"])
       ELSE Finish(n)
    /\ UNCHANGED <<files, syncs, down, pending, up, out, wire>>

\* SendTree reads the version, after the size, and sends NodeInfo.
TreeInfo(n) ==
    /\ Running(n, "tree", "loop")
    /\ LET j == Head(jobs[n]) IN
       out' = Post(n, j.to, PrioSync, [type |-> "info", v |-> version[n], size |-> j.size])
    /\ Finish(n)
    /\ UNCHANGED <<files, syncs, down, pending, up, wire>>

VersionStands(n, j) == Equal(version[n], j.v)

\* SendFile's loop head: done, aborted because the version changed, or on.
FileCheck(n) ==
    /\ Running(n, "file", "loop")
    /\ LET j == Head(jobs[n]) IN
       IF j.off < j.size /\ VersionStands(n, j)
       THEN Continue(n, [j EXCEPT !.pc = "read"])
       ELSE Finish(n)
    /\ UNCHANGED <<files, syncs, down, pending, up, out, wire>>

\* Chunks that wait on a link.  The real queue has 25 nodes per priority and does
\* not survive a 26th (PriorityQueue.tla).
Backlog(n, m) == Len(out[<<n, m>>][PrioXfer]) + Len(wire[<<n, m>>])

\* SendFile's loop body: read a block (nothing past the end), advance, send; it
\* ends when the file is gone (open fails) or the peer is (sendMessage fails).
FileRead(n) ==
    /\ Running(n, "file", "read")
    /\ Backlog(n, Head(jobs[n]).to) < MaxBacklog
    /\ LET j == Head(jobs[n])
           data == IF j.off < Len(content[n]) THEN <<content[n][j.off + 1]>> ELSE <<>>
       IN IF HasRows(n) /\ Connected(n, j.to)
          THEN /\ out' = Sent(n, j.to, PrioXfer,
                             [type |-> "chunk", tx |-> j.tx, off |-> j.off, data |-> data, v |-> j.v])
               /\ Continue(n, [j EXCEPT !.off = j.off + Len(data), !.pc = "loop"])
          ELSE Finish(n) /\ UNCHANGED out
    /\ UNCHANGED <<files, syncs, down, pending, up, wire>>
-----------------------------------------------------------------------------
(* Message handlers: n's worker for its connection to m *)

\* The next message n's worker takes from m.
Arrived(n, m, type) ==
    /\ pending[n][m] = None
    /\ wire[<<m, n>>] # <<>>
    /\ Head(wire[<<m, n>>]).type = type
Consume(n, m) == wire' = [wire EXCEPT ![<<m, n>>] = Tail(@)]

HandleTree(n, m) ==
    /\ Arrived(n, m, "tree")
    /\ Consume(n, m)
    /\ Enqueue(n, TreeJob(m))
    /\ UNCHANGED <<files, syncs, down, pending, up, out>>

\* NodeInfo, first half: only a strictly newer version of a subscribed file is
\* worth a download.
HandleInfo(n, m) ==
    /\ Arrived(n, m, "info")
    /\ Consume(n, m)
    /\ LET msg == Head(wire[<<m, n>>]) IN
       pending' = IF subscribed[n] /\ Less(version[n], msg.v)
                  THEN [pending EXCEPT ![n][m] = [v |-> msg.v, size |-> msg.size]]
                  ELSE pending
    /\ UNCHANGED <<files, syncs, down, jobs, up, out>>

Resize(blocks, size) ==
    [i \in 1 .. size |-> IF i <= Len(blocks) THEN blocks[i] ELSE Hole]

\* A running download of an older version starts over, in the same temp file.
Restarted(row, v, size) ==
    [tx |-> row.tx + 1, recd |-> 0, size |-> size, v |-> v, temp |-> Resize(row.temp, size)]

NewRow(v, size) ==
    [tx |-> 0, recd |-> 0, size |-> size, v |-> v, temp |-> Resize(<<>>, size)]

\* Mutant: a download in progress is never brought up to date.
AddDownload_InProgress(row, v, size) == IF row = None THEN NewRow(v, size) ELSE row
\* Database::addDownload.
AddDownload(row, v, size) ==
    IF row = None THEN NewRow(v, size)
    ELSE IF Geq(row.v, v) THEN row ELSE Restarted(row, v, size)

\* NodeInfo, second half: register the download and request the file.
RequestFile(n, m) ==
    /\ pending[n][m] # None
    /\ LET p == pending[n][m] IN
       /\ down' = [down EXCEPT ![n][m] = AddDownload(@, p.v, p.size)]
       /\ out' = Post(n, m, PrioNow, [type |-> "get", v |-> p.v, tx |-> 0])
    /\ pending' = [pending EXCEPT ![n][m] = None]
    /\ UNCHANGED <<files, syncs, jobs, up, wire>>

\* SendFile request: queue the transfer.
HandleGet(n, m) ==
    /\ Arrived(n, m, "get")
    /\ Consume(n, m)
    /\ LET msg == Head(wire[<<m, n>>]) IN Enqueue(n, FileJob(m, msg.v, msg.tx))
    /\ UNCHANGED <<files, syncs, down, pending, up, out>>

\* lseek + write into the temp file.
Overlay(blocks, off, data) ==
    IF data = <<>> THEN blocks
    ELSE [Resize(blocks, IF off + 1 > Len(blocks) THEN off + 1 ELSE Len(blocks))
             EXCEPT ![off + 1] = data[1]]

\* The row after a chunk is written: every byte counts, whichever block it is.
Received(row, msg) ==
    [row EXCEPT !.recd = row.recd + Len(msg.data),
                !.temp = Overlay(row.temp, msg.off, msg.data)]

\* Mutant: a finished download is installed without comparing versions again.
IsNewer_Skip(n, row) == TRUE
\* Mutant: a concurrent version counts as newer.
IsNewer_NotOlder(n, row) == ~Geq(version[n], row.v)
\* mergeData's second comparison.
IsNewer(n, row) == Less(version[n], row.v)

\* Mutant: the download ends one block early.
Complete_Early(row) == row.recd + 1 >= row.size
Complete(row) == row.recd >= row.size

\* Mutant: the merge counts as a change of the file.
Adopted_Counted(n, row) == [row.v EXCEPT ![n] = @ + 1]
\* lockless_setVersion stores the download's vector as it is.
Adopted(n, row) == row.v

\* Database::mergeData, finished download: the temp file replaces the file, an
\* open handle keeps the old inode, the version vector becomes the sender's.
Install(n, m, row) ==
    /\ content' = [content EXCEPT ![n] = row.temp]
    /\ version' = [version EXCEPT ![n] = Adopted(n, row)]
    /\ handle' = [handle EXCEPT ![n].live = ~handle[n].open]
    /\ down' = [down EXCEPT ![n][m] = None]

\* FileChunk: Database::mergeData.  Without a row it fails without an effect;
\* the test for an older transaction only prints.
HandleChunk(n, m) ==
    /\ Arrived(n, m, "chunk")
    /\ Consume(n, m)
    /\ IF down[n][m] = None
       THEN UNCHANGED <<version, content, handle, down>>
       ELSE LET row == Received(down[n][m], Head(wire[<<m, n>>])) IN
            IF Complete(row) /\ IsNewer(n, row)
            THEN Install(n, m, row)
            ELSE /\ down' = [down EXCEPT ![n][m] = row]
                 /\ UNCHANGED <<version, content, handle>>
    /\ UNCHANGED <<subscribed, pending, jobs, up, out, syncs, history>>
-----------------------------------------------------------------------------
Handle(n, m) ==
    \/ HandleTree(n, m) \/ HandleInfo(n, m) \/ RequestFile(n, m)
    \/ HandleGet(n, m) \/ HandleChunk(n, m)
JobStep(n) == JobStat(n) \/ TreeInfo(n) \/ FileCheck(n) \/ FileRead(n)

Next ==
    \/ \E n \in Peer : Open(n) \/ Write(n) \/ Truncate(n) \/ Close(n)
    \/ \E n \in Peer : Release(n) \/ Checkout(n)
    \/ \E n \in Peer : JobStep(n)
    \/ \E l \in Link :
        \/ StartSync(l[1], l[2])
        \/ Shout(l[1], l[2])
        \/ Handle(l[1], l[2])
        \/ Disconnect(l[1], l[2])
        \/ Reconnect(l[1], l[2])

Spec == Init /\ [][Next]_vars

\* The shouter, the worker and the job thread loop for as long as they have
\* something to do; users promise nothing.
FairSpec ==
    /\ Spec
    /\ \A n \in Peer : WF_vars(JobStep(n))
    /\ \A l \in Link : WF_vars(Shout(l[1], l[2])) /\ WF_vars(Handle(l[1], l[2]))
-----------------------------------------------------------------------------
(* Properties *)

\* The shapes of the data, with their version vectors in V.
Message(V) ==
    [type : {"tree"}] \cup [type : {"info"}, v : V, size : Nat]
    \cup [type : {"get"}, v : V, tx : Nat]
    \cup [type : {"chunk"}, tx : Nat, off : Nat, data : Seq(Block), v : V]
TreeJobs == [kind : {"tree"}, to : Peer, pc : {"stat", "loop"}, size : Nat]
FileJobs(V) ==
    [kind : {"file"}, to : Peer, pc : {"stat", "loop", "read"}, size : Nat,
     v : V, tx : Nat, off : Nat]
Job(V) == TreeJobs \cup FileJobs(V)
Row(V) == [tx : Nat, recd : Nat, size : Nat, v : V, temp : Seq(Block)]
Pending(V) == [v : V, size : Nat]

VectorsIn(V) ==
    /\ version \in [Peer -> V]
    /\ down \in [Peer -> [Peer -> Row(V) \cup {None}]]
    /\ pending \in [Peer -> [Peer -> Pending(V) \cup {None}]]
    /\ jobs \in [Peer -> Seq(Job(V))]
    /\ out \in [Link -> [Prio -> Seq(Message(V))]]
    /\ wire \in [Link -> Seq(Message(V))]

\* Types of the state: of Database's tables, the queues and the job list.
TypeOK ==
    /\ VectorsIn(Vector)
    /\ subscribed \in [Peer -> BOOLEAN]
    /\ content \in [Peer -> Seq(Block)]
    /\ handle \in [Peer -> [open : BOOLEAN, changed : BOOLEAN, live : BOOLEAN]]
    /\ up \subseteq SUBSET Peer
    /\ syncs \in Nat
    /\ edited \in [Peer -> Nat]
    /\ minted \subseteq Causal!Version

\* Every vector in a table, a queue, a handler or a job is one that a close of
\* the file produced: transfers, restarts and merges never make one up, whatever
\* is released, truncated or cut off.
MintedVectors == {r.v : r \in minted}
VectorsAreMinted == VectorsIn(MintedVectors)

\* The messages, rows and handlers implement CausalVersions: only a close with
\* changes makes a version, and a copy is only ever replaced, as a whole, by a
\* strictly newer version that some close made (Database::incrementVersion and
\* Database::mergeData).
ImplementsCausal == Causal!Spec

\* No vector, at rest or on the move, is ahead of its owner's own count, so the
\* next close of the owner is newer than everything (incrementVersion only ever
\* touches the row of the local id).
OwnerDominates == Causal!OwnerDominates

\* Comparing the vectors of two copies compares the edits the copies descend
\* from (the comment of VersionVector: "lamport vector clock").
VectorsCountEdits == Causal!VectorsCountEdits

\* Two closes of files, on any peers, never produce the same vector.
EditIsFresh == Causal!EditIsFresh

\* mergeData replaces a copy only by one that includes all of its edits, also
\* when rows, requests and chunks are old, repeated or from several peers.
NoEditLost == Causal!NoEditLost

\* Copies with the same version and no open handle have the same bytes.
SameVersionSameContent ==
    \A n, m \in Peer :
        (version[n] = version[m] /\ ~handle[n].open /\ ~handle[m].open)
            => content[n] = content[m]

\* A copy that a download installed has no block that was never received.
InstalledIsComplete == \A n \in Peer : Hole \notin Range(content[n])

\* A peer that learns of a strictly newer version gets it, unless the sender has
\* moved on or the peer made a change of its own meanwhile.
Learns(n, m) == pending[n][m] # None
Serves(n, m, v) == version[m] = v /\ Connected(n, m)
NewerIsFetched ==
    \A l \in {k \in Link : k[2] \in Writers}, x \in 1 .. MaxEdits :
        \A y \in IF l[1] \in Writers THEN 0 .. MaxEdits ELSE {0} :
            LET n == l[1]
                m == l[2]
                v == [Zero EXCEPT ![m] = x, ![n] = y]
            IN (Learns(n, m) /\ pending[n][m].v = v)
                  ~> (~Less(version[n], v) \/ ~Serves(n, m, v))
=============================================================================
