------------------------- MODULE Replication_proofs -------------------------
(* Proofs about Replication, for any peers, writers, sizes, bounds and      *)
(* environment.                                                             *)
EXTENDS Replication, ListLemmas

\* What TypeOK says beyond the shapes that carry version vectors.
Scalars ==
    /\ subscribed \in [Peer -> BOOLEAN]
    /\ content \in [Peer -> Seq(Block)]
    /\ handle \in [Peer -> [open : BOOLEAN, changed : BOOLEAN, live : BOOLEAN]]
    /\ up \subseteq SUBSET Peer
    /\ syncs \in Nat
    /\ edited \in [Peer -> Nat]
    /\ minted \subseteq Causal!Version

Typed(V) == VectorsIn(V) /\ Scalars
-----------------------------------------------------------------------------
(* Files *)

\* A file resized or overlaid with a block is a sequence of blocks again.
LEMMA ResizeTyped ==
    ASSUME NEW blocks \in Seq(Block), NEW size \in Nat
    PROVE  Resize(blocks, size) \in Seq(Block)
<1>1. \A i \in 1 .. size : (IF i <= Len(blocks) THEN blocks[i] ELSE Hole) \in Block
  BY DEF Block
<1>2. Resize(blocks, size) \in [1 .. size -> Block]
  BY <1>1 DEF Resize
<1> QED
  BY <1>2, SeqDef

LEMMA OverlayTyped ==
    ASSUME NEW blocks \in Seq(Block), NEW off \in Nat, NEW data \in Seq(Block)
    PROVE  Overlay(blocks, off, data) \in Seq(Block)
<1>1. CASE data = <<>>
  BY <1>1 DEF Overlay
<1>2. CASE data # <<>>
  <2> DEFINE size == IF off + 1 > Len(blocks) THEN off + 1 ELSE Len(blocks)
             r == Resize(blocks, size)
  <2>1. size \in Nat /\ off + 1 <= size /\ off + 1 \in Nat /\ off + 1 >= 1
    OBVIOUS
  <2>2. r \in Seq(Block) /\ Len(r) = size
    BY <2>1, ResizeTyped DEF Resize
  <2>3. data[1] \in Block
    BY <1>2
  <2>4. off + 1 \in 1 .. Len(r)
    BY <2>1, <2>2
  <2>5. [r EXCEPT ![off + 1] = data[1]] \in Seq(Block)
    BY <2>2, <2>3, <2>4, ExceptSeq
  <2> QED
    BY <1>2, <2>5 DEF Overlay
<1> QED
  BY <1>1, <1>2
-----------------------------------------------------------------------------
(* Queues and jobs *)

LEMMA SentTyped ==
    ASSUME NEW V, out \in [Link -> [Prio -> Seq(Message(V))]],
           NEW n, NEW m, NEW p \in Prio, NEW msg \in Message(V)
    PROVE  Sent(n, m, p, msg) \in [Link -> [Prio -> Seq(Message(V))]]
<1>1. CASE <<n, m>> \notin Link
  BY <1>1 DEF Sent
<1>2. CASE <<n, m>> \in Link
  <2>1. Append(out[<<n, m>>][p], msg) \in Seq(Message(V))
    BY <1>2, Appended
  <2> QED
    BY <1>2, <2>1 DEF Sent
<1> QED
  BY <1>1, <1>2

LEMMA PostTyped ==
    ASSUME NEW V, out \in [Link -> [Prio -> Seq(Message(V))]],
           NEW n, NEW m, NEW p \in Prio, NEW msg \in Message(V)
    PROVE  Post(n, m, p, msg) \in [Link -> [Prio -> Seq(Message(V))]]
  BY SentTyped DEF Post

LEMMA EnqueueTyped ==
    ASSUME NEW V, jobs \in [Peer -> Seq(Job(V))], NEW n \in Peer, NEW j \in Job(V), Enqueue(n, j)
    PROVE  jobs' \in [Peer -> Seq(Job(V))]
  BY Appended DEF Enqueue

LEMMA FinishTyped ==
    ASSUME NEW V, jobs \in [Peer -> Seq(Job(V))], NEW n \in Peer, jobs[n] # <<>>, Finish(n)
    PROVE  jobs' \in [Peer -> Seq(Job(V))]
  BY Popped DEF Finish

LEMMA ContinueTyped ==
    ASSUME NEW V, jobs \in [Peer -> Seq(Job(V))], NEW n \in Peer, jobs[n] # <<>>,
           NEW j \in Job(V), Continue(n, j)
    PROVE  jobs' \in [Peer -> Seq(Job(V))]
  BY ReplacedHead DEF Continue

LEMMA TreeRunning ==
    ASSUME NEW V, jobs \in [Peer -> Seq(Job(V))], NEW n \in Peer, NEW pc, Running(n, "tree", pc)
    PROVE  jobs[n] # <<>> /\ Head(jobs[n]) \in TreeJobs
<1>1. Head(jobs[n]) \in Job(V) /\ Head(jobs[n]).kind = "tree"
  BY Popped DEF Running
<1> QED
  BY <1>1 DEF Running, Job, FileJobs

LEMMA FileRunning ==
    ASSUME NEW V, jobs \in [Peer -> Seq(Job(V))], NEW n \in Peer, NEW pc, Running(n, "file", pc)
    PROVE  jobs[n] # <<>> /\ Head(jobs[n]) \in FileJobs(V)
<1>1. Head(jobs[n]) \in Job(V) /\ Head(jobs[n]).kind = "file"
  BY Popped DEF Running
<1> QED
  BY <1>1 DEF Running, Job, TreeJobs

LEMMA ArrivedTyped ==
    ASSUME NEW V, wire \in [Link -> Seq(Message(V))], NEW n, NEW m, <<m, n>> \in Link,
           NEW type, Arrived(n, m, type)
    PROVE  Head(wire[<<m, n>>]) \in Message(V) /\ Head(wire[<<m, n>>]).type = type
  BY Popped DEF Arrived

LEMMA ConsumeTyped ==
    ASSUME NEW V, wire \in [Link -> Seq(Message(V))], NEW n, NEW m, <<m, n>> \in Link,
           wire[<<m, n>>] # <<>>, Consume(n, m)
    PROVE  wire' \in [Link -> Seq(Message(V))]
  BY Popped DEF Consume

\* Shapes with vectors in V are shapes with vectors in any larger set.
LEMMA VectorsGrow ==
    ASSUME NEW V, NEW W, V \subseteq W, VectorsIn(V)
    PROVE  VectorsIn(W)
<1>1. Message(V) \subseteq Message(W) /\ Job(V) \subseteq Job(W)
  BY DEF Message, Job, FileJobs
<1>2. Row(V) \subseteq Row(W) /\ Pending(V) \subseteq Pending(W)
  BY DEF Row, Pending
<1>3. version \in [Peer -> W]
  BY DEF VectorsIn
<1>4. down \in [Peer -> [Peer -> Row(W) \cup {None}]]
  BY <1>2 DEF VectorsIn
<1>5. pending \in [Peer -> [Peer -> Pending(W) \cup {None}]]
  BY <1>2 DEF VectorsIn
<1>6. jobs \in [Peer -> Seq(Job(W))]
  BY <1>1, SeqGrows DEF VectorsIn
<1>7. out \in [Link -> [Prio -> Seq(Message(W))]]
  <2>1. ASSUME NEW l \in Link, NEW p \in Prio PROVE out[l][p] \in Seq(Message(W))
    BY <1>1, SeqGrows DEF VectorsIn
  <2>2. out \in [Link -> [Prio -> Seq(Message(V))]]
    BY DEF VectorsIn
  <2> QED
    BY <2>1, <2>2
<1>8. wire \in [Link -> Seq(Message(W))]
  BY <1>1, SeqGrows DEF VectorsIn
<1> QED
  BY <1>3, <1>4, <1>5, <1>6, <1>7, <1>8 DEF VectorsIn
-----------------------------------------------------------------------------
(* Every step keeps the shapes; V is any set of vectors that the vectors    *)
(* created by the step belong to.                                           *)

LEMMA LocalStep ==
    ASSUME NEW V, V \subseteq Vector, Typed(V), NEW n \in Peer,
           Zero \in V, Close(n) /\ handle[n].changed => Increment(n) \in V,
           Open(n) \/ Write(n) \/ Truncate(n) \/ Close(n) \/ Release(n) \/ Checkout(n)
    PROVE  Typed(V)'
<1> USE DEF Typed
<1>1. UNCHANGED <<down, pending, jobs, up, out, wire, syncs>>
  BY DEF Open, Write, Truncate, Change, Close, Release, Checkout
<1>2. version \in [Peer -> V] /\ version' \in [Peer -> V] => VectorsIn(V)'
  BY <1>1 DEF VectorsIn
<1>3. version \in [Peer -> V]
  BY DEF VectorsIn
<1>4. ASSUME NEW blocks \in Seq(Block), Change(n, blocks) PROVE Typed(V)'
  BY <1>1, <1>2, <1>3, <1>4 DEF Scalars, Change, history
<1>5. CASE Open(n)
  BY <1>1, <1>2, <1>3, <1>5 DEF Scalars, Open, history
<1>6. CASE Write(n)
  <2>1. Tag(n) \in Block
    BY DEF Tag, Block, Scalars
  <2>2. PICK b \in 1 .. NChunks :
            /\ b <= Len(content[n]) + 1
            /\ Change(n, IF b <= Len(content[n]) THEN [content[n] EXCEPT ![b] = Tag(n)]
                         ELSE Append(content[n], Tag(n)))
    BY <1>6 DEF Write
  <2>3. content[n] \in Seq(Block)
    BY DEF Scalars
  <2>4. b <= Len(content[n]) => [content[n] EXCEPT ![b] = Tag(n)] \in Seq(Block)
    <3>1. b \in Nat /\ b >= 1
      BY BoundAssumption
    <3> QED
      BY <2>1, <2>3, <3>1, ExceptSeq
  <2>5. Append(content[n], Tag(n)) \in Seq(Block)
    BY <2>1, <2>3, Appended
  <2> QED
    BY <1>4, <2>2, <2>4, <2>5
<1>7. CASE Truncate(n)
  <2>1. Change(n, <<>>)
    BY <1>7 DEF Truncate
  <2>2. <<>> \in Seq(Block)
    OBVIOUS
  <2> QED
    BY <1>4, <2>1, <2>2
<1>8. CASE Close(n)
  <2>1. handle' \in [Peer -> [open : BOOLEAN, changed : BOOLEAN, live : BOOLEAN]]
    BY <1>8 DEF Close, NoHandle, Scalars
  <2>2. version' \in [Peer -> V] /\ edited' \in [Peer -> Nat]
    <3>1. CASE handle[n].changed
      <4>1. /\ version' = [version EXCEPT ![n] = Increment(n)]
            /\ edited' = [edited EXCEPT ![n] = @ + 1]
        BY <1>8, <3>1 DEF Close
      <4>2. edited \in [Peer -> Nat]
        BY DEF Scalars
      <4> QED
        BY <1>3, <1>8, <3>1, <4>1, <4>2
    <3>2. CASE ~handle[n].changed
      BY <1>3, <1>8, <3>2 DEF Close, Scalars, history
    <3> QED
      BY <3>1, <3>2
  <2>3. minted' \subseteq Causal!Version
    <3>1. CASE minted' = minted
      BY <3>1 DEF Scalars
    <3>2. CASE handle[n].changed
      <4> DEFINE new == [v |-> Increment(n),
                         edits |-> Causal!EditsOf(version[n]) \cup {Tag(n)}]
      <4>1. Causal!EditsOf(version[n]) \subseteq Causal!Edit
        BY DEF Causal!EditsOf, Causal!Version, Scalars
      <4>2. Tag(n) \in Causal!Edit
        BY DEF Tag, Causal!Edit, Scalars
      <4>3. Increment(n) \in Causal!Vector
        BY <1>8, <3>2 DEF Causal!Vector, Vector
      <4>4. new \in Causal!Version
        BY <4>1, <4>2, <4>3 DEF Causal!Version
      <4>5. minted' = minted \cup {new}
        BY <1>8, <3>2 DEF Close
      <4> QED
        BY <4>4, <4>5 DEF Scalars
    <3> QED
      BY <1>8, <3>1, <3>2 DEF Close, history
  <2> QED
    <3>1. Scalars'
      BY <1>1, <1>8, <2>1, <2>2, <2>3 DEF Close, Scalars
    <3> QED
      BY <1>2, <1>3, <2>2, <3>1
<1>9. CASE Release(n)
  <2>1. version' \in [Peer -> V]
    BY <1>3, <1>9 DEF Release
  <2>2. handle' \in [Peer -> [open : BOOLEAN, changed : BOOLEAN, live : BOOLEAN]]
    <3>1. handle \in [Peer -> [open : BOOLEAN, changed : BOOLEAN, live : BOOLEAN]]
      BY DEF Scalars
    <3>2. (~handle[n].open) \in BOOLEAN
      OBVIOUS
    <3>3. handle' = [handle EXCEPT ![n].live = ~handle[n].open]
      BY <1>9 DEF Release
    <3> QED
      BY <3>1, <3>2, <3>3
  <2>3. subscribed' \in [Peer -> BOOLEAN] /\ content' \in [Peer -> Seq(Block)]
    BY <1>9 DEF Release, Scalars
  <2>4. UNCHANGED <<up, syncs, edited, minted>>
    BY <1>9 DEF Release, history
  <2>5. Scalars'
    BY <2>2, <2>3, <2>4 DEF Scalars
  <2> QED
    BY <1>2, <1>3, <2>1, <2>5
<1>10. CASE Checkout(n)
  BY <1>1, <1>2, <1>3, <1>10 DEF Checkout, Scalars, history
<1> QED
  BY <1>5, <1>6, <1>7, <1>8, <1>9, <1>10

LEMMA LinkStep ==
    ASSUME NEW V, Typed(V), NEW n \in Peer, NEW m \in Peer, n # m,
           Shout(n, m) \/ Disconnect(n, m) \/ Reconnect(n, m)
    PROVE  Typed(V)'
<1> USE DEF Typed
<1>0. <<n, m>> \in Link /\ <<m, n>> \in Link
  BY DEF Link
<1>1. UNCHANGED <<files, syncs, down, pending, jobs>>
  BY DEF Shout, Disconnect, Reconnect
<1>2. /\ out \in [Link -> [Prio -> Seq(Message(V))]]
      /\ wire \in [Link -> Seq(Message(V))]
  BY DEF VectorsIn
<1>3. ASSUME out' \in [Link -> [Prio -> Seq(Message(V))]],
             wire' \in [Link -> Seq(Message(V))], up' \subseteq SUBSET Peer
      PROVE  Typed(V)'
  BY <1>1, <1>3 DEF VectorsIn, Scalars, files, history
<1>4. CASE Shout(n, m)
  <2>1. PICK p \in Prio :
          /\ out[<<n, m>>][p] # <<>>
          /\ wire' = [wire EXCEPT ![<<n, m>>] = Append(@, Head(out[<<n, m>>][p]))]
          /\ out' = [out EXCEPT ![<<n, m>>][p] = Tail(@)]
    BY <1>4 DEF Shout
  <2>2. Head(out[<<n, m>>][p]) \in Message(V) /\ Tail(out[<<n, m>>][p]) \in Seq(Message(V))
    BY <1>0, <1>2, <2>1, Popped
  <2>3. Append(wire[<<n, m>>], Head(out[<<n, m>>][p])) \in Seq(Message(V))
    BY <1>0, <1>2, <2>2, Appended
  <2>4. wire' \in [Link -> Seq(Message(V))]
    BY <1>2, <2>1, <2>3
  <2>5. out' \in [Link -> [Prio -> Seq(Message(V))]]
    BY <1>2, <2>1, <2>2
  <2>6. up' \subseteq SUBSET Peer
    BY <1>4 DEF Shout, Scalars
  <2> QED
    BY <1>3, <2>4, <2>5, <2>6
<1>5. CASE Disconnect(n, m)
  <2>1. out' \in [Link -> [Prio -> Seq(Message(V))]]
    BY <1>2, <1>5 DEF Disconnect
  <2>2. PICK i \in 0 .. Len(wire[<<n, m>>]), j \in 0 .. Len(wire[<<m, n>>]) :
          wire' = [wire EXCEPT ![<<n, m>>] = SubSeq(@, 1, i), ![<<m, n>>] = SubSeq(@, 1, j)]
    BY <1>5 DEF Disconnect
  <2>3. /\ SubSeq(wire[<<n, m>>], 1, i) \in Seq(Message(V))
        /\ SubSeq(wire[<<m, n>>], 1, j) \in Seq(Message(V))
    BY <1>0, <1>2, Prefix
  <2>4. wire' \in [Link -> Seq(Message(V))]
    BY <1>2, <2>2, <2>3
  <2>5. up' \subseteq SUBSET Peer
    BY <1>5 DEF Disconnect, Scalars
  <2> QED
    BY <1>3, <2>1, <2>4, <2>5
<1>6. CASE Reconnect(n, m)
  BY <1>2, <1>3, <1>6 DEF Reconnect, Scalars
<1> QED
  BY <1>4, <1>5, <1>6

LEMMA JobStepTyped ==
    ASSUME NEW V, Typed(V), NEW n \in Peer, JobStep(n)
    PROVE  Typed(V)'
<1> USE DEF Typed
<1>1. UNCHANGED <<files, syncs, down, pending, up, wire>>
  BY DEF JobStep, JobStat, TreeInfo, FileCheck, FileRead
<1>2. /\ out \in [Link -> [Prio -> Seq(Message(V))]]
      /\ jobs \in [Peer -> Seq(Job(V))]
      /\ version[n] \in V
  BY DEF VectorsIn
<1>3. ASSUME out' \in [Link -> [Prio -> Seq(Message(V))]], jobs' \in [Peer -> Seq(Job(V))]
      PROVE  Typed(V)'
  BY <1>1, <1>3 DEF VectorsIn, Scalars, files, history
<1>4. CASE JobStat(n)
  <2>1. jobs[n] # <<>> /\ Head(jobs[n]) \in Job(V)
    BY <1>2, <1>4, TreeRunning, FileRunning DEF JobStat, Job
  <2>2. Len(content[n]) \in Nat
    BY DEF Scalars
  <2>3. [Head(jobs[n]) EXCEPT !.size = Len(content[n]), !.pc = "loop"] \in Job(V)
    <3>1. CASE Head(jobs[n]) \in TreeJobs
      BY <2>2, <3>1 DEF TreeJobs, Job
    <3>2. CASE Head(jobs[n]) \in FileJobs(V)
      BY <2>2, <3>2 DEF FileJobs, Job
    <3> QED
      BY <2>1, <3>1, <3>2 DEF Job
  <2>4. jobs' \in [Peer -> Seq(Job(V))]
    BY <1>2, <1>4, <2>1, <2>3, ContinueTyped, FinishTyped DEF JobStat
  <2>5. out' = out
    BY <1>4 DEF JobStat
  <2> QED
    BY <1>2, <1>3, <2>4, <2>5
<1>5. CASE TreeInfo(n)
  <2> DEFINE j == Head(jobs[n])
             msg == [type |-> "info", v |-> version[n], size |-> j.size]
  <2>1. jobs[n] # <<>> /\ j \in TreeJobs
    BY <1>2, <1>5, TreeRunning DEF TreeInfo
  <2>2. msg \in Message(V)
    BY <1>2, <2>1 DEF Message, TreeJobs
  <2>3. out' = Post(n, j.to, PrioSync, msg) /\ PrioSync \in Prio
    BY <1>5 DEF TreeInfo, Prio
  <2>4. out' \in [Link -> [Prio -> Seq(Message(V))]]
    <3> HIDE DEF msg, j
    <3> QED
      BY <1>2, <2>2, <2>3, PostTyped
  <2>5. jobs' \in [Peer -> Seq(Job(V))]
    BY <1>2, <1>5, <2>1, FinishTyped DEF TreeInfo
  <2> QED
    BY <1>3, <2>4, <2>5
<1>6. CASE FileCheck(n)
  <2>1. jobs[n] # <<>> /\ Head(jobs[n]) \in FileJobs(V)
    BY <1>2, <1>6, FileRunning DEF FileCheck
  <2>2. [Head(jobs[n]) EXCEPT !.pc = "read"] \in Job(V)
    BY <2>1 DEF FileJobs, Job
  <2>3. jobs' \in [Peer -> Seq(Job(V))]
    BY <1>2, <1>6, <2>1, <2>2, ContinueTyped, FinishTyped DEF FileCheck
  <2>4. out' = out
    BY <1>6 DEF FileCheck
  <2> QED
    BY <1>2, <1>3, <2>3, <2>4
<1>7. CASE FileRead(n)
  <2> DEFINE j == Head(jobs[n])
             data == IF j.off < Len(content[n]) THEN <<content[n][j.off + 1]>> ELSE <<>>
             msg == [type |-> "chunk", tx |-> j.tx, off |-> j.off, data |-> data, v |-> j.v]
             next == [j EXCEPT !.off = j.off + Len(data), !.pc = "loop"]
  <2>1. jobs[n] # <<>> /\ j \in FileJobs(V)
    BY <1>2, <1>7, FileRunning DEF FileRead
  <2>2. data \in Seq(Block) /\ Len(data) \in Nat
    <3>1. content[n] \in Seq(Block) /\ j.off \in Nat
      BY <2>1 DEF Scalars, FileJobs
    <3> QED
      BY <3>1
  <2>3. msg \in Message(V)
    <3> HIDE DEF data
    <3> QED
      BY <2>1, <2>2 DEF Message, FileJobs
  <2>4. next \in Job(V)
    <3> HIDE DEF data
    <3> DEFINE off == j.off + Len(data)
    <3>1. off \in Nat
      BY <2>1, <2>2 DEF FileJobs
    <3> HIDE DEF off
    <3>2. [j EXCEPT !.off = off, !.pc = "loop"] \in FileJobs(V)
      BY <2>1, <3>1 DEF FileJobs
    <3> QED
      BY <3>2 DEF Job, off
  <2>5. /\ out' = Post(n, j.to, PrioXfer, msg) \/ out' = out
        /\ PrioXfer \in Prio
        /\ Continue(n, next) \/ Finish(n)
    <3>1. PrioXfer \in Prio
      BY DEF Prio
    <3>2. CASE HasRows(n) /\ Connected(n, j.to)
      <4>1. out' = Sent(n, j.to, PrioXfer, msg) /\ Continue(n, next)
        BY <1>7, <3>2, Zenon DEF FileRead
      <4> QED
        BY <3>1, <3>2, <4>1, Zenon DEF Post
    <3>3. CASE ~(HasRows(n) /\ Connected(n, j.to))
      BY <1>7, <3>1, <3>3, Zenon DEF FileRead
    <3> QED
      BY <3>2, <3>3
  <2> HIDE DEF msg, next, j
  <2>6. out' \in [Link -> [Prio -> Seq(Message(V))]]
    <3>1. PrioXfer \in Prio
      BY <2>5
    <3>2. Post(n, j.to, PrioXfer, msg) \in [Link -> [Prio -> Seq(Message(V))]]
      BY <1>2, <2>3, <3>1, PostTyped
    <3> QED
      BY <1>2, <2>5, <3>2
  <2>7. jobs' \in [Peer -> Seq(Job(V))]
    BY <1>2, <2>1, <2>4, <2>5, ContinueTyped, FinishTyped
  <2> QED
    BY <1>3, <2>6, <2>7
<1> QED
  BY <1>4, <1>5, <1>6, <1>7 DEF JobStep

LEMMA StartSyncTyped ==
    ASSUME NEW V, Typed(V), NEW n \in Peer, NEW m \in Peer, StartSync(n, m)
    PROVE  Typed(V)'
<1> USE DEF Typed
<1>1. TreeJob(m) \in Job(V)
  BY DEF TreeJob, Job, TreeJobs
<1>2. jobs' \in [Peer -> Seq(Job(V))]
  BY <1>1, EnqueueTyped DEF StartSync, VectorsIn
<1>3. [type |-> "tree"] \in Message(V) /\ PrioNow \in Prio
  BY DEF Message, Prio
<1>4. out' \in [Link -> [Prio -> Seq(Message(V))]]
  BY <1>3, SentTyped DEF StartSync, VectorsIn
<1>5. syncs' \in Nat /\ UNCHANGED <<files, down, pending, up, wire>>
  BY DEF StartSync, Scalars
<1> QED
  BY <1>2, <1>4, <1>5 DEF VectorsIn, Scalars, files, history

LEMMA DownloadTyped ==
    ASSUME NEW V, NEW row \in Row(V) \cup {None}, NEW v \in V, NEW size \in Nat
    PROVE  AddDownload(row, v, size) \in Row(V)
<1>1. CASE row = None
  <2>1. Resize(<<>>, size) \in Seq(Block)
    <3>1. <<>> \in Seq(Block)
      OBVIOUS
    <3> QED
      BY <3>1, ResizeTyped
  <2> QED
    BY <1>1, <2>1 DEF AddDownload, NewRow, Row
<1>2. CASE row # None
  <2>1. row \in Row(V)
    BY <1>2
  <2>2. Resize(row.temp, size) \in Seq(Block)
    BY <2>1, ResizeTyped DEF Row
  <2>3. Restarted(row, v, size) =
          [tx |-> row.tx + 1, recd |-> 0, size |-> size, v |-> v, temp |-> Resize(row.temp, size)]
    BY <2>1 DEF Restarted, Row
  <2>4. row.tx + 1 \in Nat
    BY <2>1 DEF Row
  <2>5. Restarted(row, v, size) \in Row(V)
    BY <2>2, <2>3, <2>4 DEF Row
  <2> QED
    BY <1>2, <2>1, <2>5 DEF AddDownload
<1> QED
  BY <1>1, <1>2

LEMMA ReceivedTyped ==
    ASSUME NEW V, NEW row \in Row(V), NEW msg \in Message(V), msg.type = "chunk"
    PROVE  Received(row, msg) \in Row(V)
<1>1. msg.off \in Nat /\ msg.data \in Seq(Block)
  BY DEF Message
<1>2. Overlay(row.temp, msg.off, msg.data) \in Seq(Block) /\ Len(msg.data) \in Nat
  BY <1>1, OverlayTyped DEF Row
<1> DEFINE recd == row.recd + Len(msg.data)
           temp == Overlay(row.temp, msg.off, msg.data)
<1>3. recd \in Nat /\ temp \in Seq(Block)
  BY <1>2 DEF Row
<1> HIDE DEF recd, temp
<1>4. [row EXCEPT !.recd = recd, !.temp = temp] \in Row(V)
  BY <1>3 DEF Row
<1> QED
  BY <1>4 DEF Received, recd, temp

LEMMA HandleTyped ==
    ASSUME NEW V, Typed(V), NEW n \in Peer, NEW m \in Peer, n # m, Handle(n, m)
    PROVE  Typed(V)'
<1> USE DEF Typed
<1>0. <<m, n>> \in Link
  BY DEF Link
<1>1. UNCHANGED <<subscribed, up, syncs, history>>
  BY DEF Handle, HandleTree, HandleInfo, RequestFile, HandleGet, HandleChunk, files
<1>2. /\ version \in [Peer -> V]
      /\ down \in [Peer -> [Peer -> Row(V) \cup {None}]]
      /\ pending \in [Peer -> [Peer -> Pending(V) \cup {None}]]
      /\ jobs \in [Peer -> Seq(Job(V))]
      /\ out \in [Link -> [Prio -> Seq(Message(V))]]
      /\ wire \in [Link -> Seq(Message(V))]
  BY DEF VectorsIn
<1> DEFINE msg == Head(wire[<<m, n>>])
<1>3. ASSUME NEW type, Arrived(n, m, type), Consume(n, m)
      PROVE  /\ msg \in Message(V) /\ msg.type = type
             /\ wire' \in [Link -> Seq(Message(V))]
  BY <1>0, <1>2, <1>3, ArrivedTyped, ConsumeTyped DEF Arrived
<1>4. ASSUME UNCHANGED <<version, content, handle>>, VectorsIn(V)' PROVE Typed(V)'
  BY <1>1, <1>4 DEF Scalars, history
<1>5. CASE HandleTree(n, m)
  <2>1. TreeJob(m) \in Job(V)
    BY DEF TreeJob, Job, TreeJobs
  <2>2. jobs' \in [Peer -> Seq(Job(V))]
    BY <1>2, <1>5, <2>1, EnqueueTyped DEF HandleTree
  <2>3. wire' \in [Link -> Seq(Message(V))]
    BY <1>3, <1>5 DEF HandleTree
  <2> QED
    BY <1>2, <1>4, <1>5, <2>2, <2>3 DEF HandleTree, VectorsIn, files
<1>6. CASE HandleInfo(n, m)
  <2>1. /\ msg \in Message(V) /\ msg.type = "info"
        /\ wire' \in [Link -> Seq(Message(V))]
    BY <1>3, <1>6 DEF HandleInfo
  <2>2. [v |-> msg.v, size |-> msg.size] \in Pending(V)
    BY <2>1 DEF Message, Pending
  <2>3. pending' \in [Peer -> [Peer -> Pending(V) \cup {None}]]
    BY <1>2, <1>6, <2>2 DEF HandleInfo
  <2> QED
    BY <1>2, <1>4, <1>6, <2>1, <2>3 DEF HandleInfo, VectorsIn, files
<1>7. CASE RequestFile(n, m)
  <2> DEFINE q == pending[n][m]
             get == [type |-> "get", v |-> q.v, tx |-> 0]
  <2>1. q \in Pending(V)
    BY <1>2, <1>7 DEF RequestFile
  <2>2. AddDownload(down[n][m], q.v, q.size) \in Row(V)
    <3>1. q.v \in V /\ q.size \in Nat
      BY <2>1 DEF Pending
    <3>2. down[n][m] \in Row(V) \cup {None}
      BY <1>2
    <3> HIDE DEF q
    <3> QED
      BY <3>1, <3>2, DownloadTyped
  <2>3. down' \in [Peer -> [Peer -> Row(V) \cup {None}]]
    BY <1>2, <1>7, <2>2 DEF RequestFile
  <2>4. get \in Message(V) /\ PrioNow \in Prio
    BY <2>1 DEF Message, Pending, Prio
  <2>5. out' = Post(n, m, PrioNow, get)
    BY <1>7 DEF RequestFile
  <2>6. out' \in [Link -> [Prio -> Seq(Message(V))]]
    <3> HIDE DEF get
    <3> QED
      BY <1>2, <2>4, <2>5, PostTyped
  <2>7. pending' \in [Peer -> [Peer -> Pending(V) \cup {None}]]
    BY <1>2, <1>7 DEF RequestFile
  <2> QED
    BY <1>2, <1>4, <1>7, <2>3, <2>6, <2>7 DEF RequestFile, VectorsIn, files
<1>8. CASE HandleGet(n, m)
  <2>1. /\ msg \in Message(V) /\ msg.type = "get"
        /\ wire' \in [Link -> Seq(Message(V))]
    BY <1>3, <1>8 DEF HandleGet
  <2>2. FileJob(m, msg.v, msg.tx) \in Job(V)
    BY <2>1 DEF Message, FileJob, Job, FileJobs
  <2>3. jobs' \in [Peer -> Seq(Job(V))]
    BY <1>2, <1>8, <2>2, EnqueueTyped DEF HandleGet
  <2> QED
    BY <1>2, <1>4, <1>8, <2>1, <2>3 DEF HandleGet, VectorsIn, files
<1>9. CASE HandleChunk(n, m)
  <2>1. /\ msg \in Message(V) /\ msg.type = "chunk"
        /\ wire' \in [Link -> Seq(Message(V))]
    BY <1>3, <1>9 DEF HandleChunk
  <2>2. UNCHANGED <<pending, jobs, out>>
    BY <1>9 DEF HandleChunk
  <2>3. CASE down[n][m] = None
    BY <1>2, <1>4, <1>9, <2>1, <2>2, <2>3 DEF HandleChunk, VectorsIn
  <2>4. CASE down[n][m] # None
    <3> DEFINE row == Received(down[n][m], msg)
    <3>1. down[n][m] \in Row(V)
      BY <1>2, <2>4
    <3>2. row \in Row(V)
      BY <2>1, <3>1, ReceivedTyped
    <3>3. CASE Complete(row) /\ IsNewer(n, row)
      <4>1. Install(n, m, row)
        BY <1>9, <2>4, <3>3 DEF HandleChunk
      <4> HIDE DEF row
      <4>2. version' \in [Peer -> V]
        BY <1>2, <3>2, <4>1 DEF Install, Adopted, Row
      <4>3. down' \in [Peer -> [Peer -> Row(V) \cup {None}]]
        BY <1>2, <4>1 DEF Install
      <4>4. content' \in [Peer -> Seq(Block)]
        BY <3>2, <4>1 DEF Install, Row, Scalars
      <4>5. handle' \in [Peer -> [open : BOOLEAN, changed : BOOLEAN, live : BOOLEAN]]
        <5>1. handle \in [Peer -> [open : BOOLEAN, changed : BOOLEAN, live : BOOLEAN]]
          BY DEF Scalars
        <5>2. (~handle[n].open) \in BOOLEAN
          OBVIOUS
        <5>3. handle' = [handle EXCEPT ![n].live = ~handle[n].open]
          BY <4>1 DEF Install
        <5> QED
          BY <5>1, <5>2, <5>3
      <4>6. VectorsIn(V)'
        BY <1>2, <2>1, <2>2, <4>2, <4>3 DEF VectorsIn
      <4> QED
        BY <1>1, <4>4, <4>5, <4>6 DEF Scalars, history
    <3>4. CASE ~(Complete(row) /\ IsNewer(n, row))
      <4>1. down' = [down EXCEPT ![n][m] = row] /\ UNCHANGED <<version, content, handle>>
        BY <1>9, <2>4, <3>4 DEF HandleChunk
      <4> HIDE DEF row
      <4>2. down' \in [Peer -> [Peer -> Row(V) \cup {None}]]
        BY <1>2, <3>2, <4>1
      <4>3. VectorsIn(V)'
        BY <1>2, <2>1, <2>2, <4>1, <4>2 DEF VectorsIn
      <4> QED
        BY <1>4, <4>1, <4>3
    <3> QED
      BY <3>3, <3>4
  <2> QED
    BY <2>3, <2>4
<1> QED
  BY <1>5, <1>6, <1>7, <1>8, <1>9 DEF Handle
-----------------------------------------------------------------------------
(* The invariant *)

LEMMA LinkOf == ASSUME NEW l \in Link PROVE l[1] \in Peer /\ l[2] \in Peer /\ l[1] # l[2]
  BY DEF Link

\* A step keeps the shapes over any V that has the vectors it may create.
LEMMA StepTyped ==
    ASSUME NEW V, V \subseteq Vector, Typed(V), Zero \in V, [Next]_vars,
           \A n \in Peer : Close(n) /\ handle[n].changed => Increment(n) \in V
    PROVE  Typed(V)'
<1>1. CASE UNCHANGED vars
  BY <1>1 DEF vars, Typed, VectorsIn, Scalars, history
<1>2. ASSUME NEW n \in Peer,
             Open(n) \/ Write(n) \/ Truncate(n) \/ Close(n) \/ Release(n) \/ Checkout(n)
      PROVE  Typed(V)'
  BY <1>2, LocalStep
<1>3. ASSUME NEW n \in Peer, JobStep(n) PROVE Typed(V)'
  BY <1>3, JobStepTyped
<1>4. ASSUME NEW l \in Link,
             \/ StartSync(l[1], l[2]) \/ Shout(l[1], l[2]) \/ Handle(l[1], l[2])
             \/ Disconnect(l[1], l[2]) \/ Reconnect(l[1], l[2])
      PROVE  Typed(V)'
  BY <1>4, LinkOf, StartSyncTyped, LinkStep, HandleTyped
<1> QED
  BY <1>1, <1>2, <1>3, <1>4 DEF Next

\* The fresh vector of a close joins the minted ones in the same step, so the
\* shapes over the minted vectors are kept too.
IInv == TypeOK /\ VectorsAreMinted /\ Zero \in MintedVectors

LEMMA TypeOKTyped == TypeOK <=> Typed(Vector)
  BY DEF TypeOK, Typed, Scalars

LEMMA VectorFacts == Zero \in Vector /\ (TypeOK => \A n \in Peer : Increment(n) \in Vector)
<1>1. Zero \in Vector
  BY DEF Zero, Vector
<1>2. ASSUME TypeOK, NEW n \in Peer PROVE Increment(n) \in Vector
  <2>1. version[n] \in [Peer -> Nat]
    BY <1>2 DEF TypeOK, VectorsIn, Vector
  <2> QED
    BY <2>1 DEF Increment, Vector
<1> QED
  BY <1>1, <1>2

LEMMA InitTyped ==
    ASSUME NEW V, Zero \in V, Init
    PROVE  Typed(V)
<1>1. version \in [Peer -> V] /\ down \in [Peer -> [Peer -> Row(V) \cup {None}]]
  BY DEF Init
<1>2. pending \in [Peer -> [Peer -> Pending(V) \cup {None}]] /\ jobs \in [Peer -> Seq(Job(V))]
  BY DEF Init
<1>3. out \in [Link -> [Prio -> Seq(Message(V))]] /\ wire \in [Link -> Seq(Message(V))]
  BY DEF Init
<1>4. up \subseteq SUBSET Peer
  BY DEF Init, Link
<1>5. minted \subseteq Causal!Version
  BY DEF Init, Causal!Version, Causal!Vector, Zero
<1>6. /\ subscribed \in [Peer -> BOOLEAN] /\ content \in [Peer -> Seq(Block)]
      /\ handle \in [Peer -> [open : BOOLEAN, changed : BOOLEAN, live : BOOLEAN]]
      /\ syncs \in Nat /\ edited \in [Peer -> Nat]
  BY DEF Init, NoHandle
<1> QED
  BY <1>1, <1>2, <1>3, <1>4, <1>5, <1>6 DEF Typed, VectorsIn, Scalars

LEMMA InitIInv == Init => IInv
<1> SUFFICES ASSUME Init PROVE IInv
  OBVIOUS
<1>1. Zero \in MintedVectors
  BY DEF Init, MintedVectors
<1>2. Typed(Vector) /\ Typed(MintedVectors)
  BY <1>1, VectorFacts, InitTyped
<1> QED
  BY <1>1, <1>2, TypeOKTyped DEF IInv, VectorsAreMinted, Typed

\* Only a close writes to the history, and only a release or a checkout, which
\* the environment must allow, to the subscription.
LEMMA HistoryGrows ==
    ASSUME [Next]_vars
    PROVE  minted \subseteq minted' /\ ("release" \in Env \/ subscribed' = subscribed)
<1> DEFINE Kept == minted' = minted /\ subscribed' = subscribed
<1>1. ASSUME NEW n \in Peer, Open(n) \/ Write(n) \/ Truncate(n) PROVE Kept
  BY <1>1 DEF Open, Write, Truncate, Change, history
<1>2. ASSUME NEW n \in Peer, Close(n) PROVE minted \subseteq minted' /\ subscribed' = subscribed
  BY <1>2 DEF Close, history
<1>3. ASSUME NEW n \in Peer, Release(n) \/ Checkout(n) PROVE minted' = minted /\ "release" \in Env
  BY <1>3 DEF Release, Checkout, history
<1>4. ASSUME NEW n \in Peer, JobStep(n) PROVE Kept
  BY <1>4 DEF JobStep, JobStat, TreeInfo, FileCheck, FileRead, files, history
<1>5. ASSUME NEW l \in Link, StartSync(l[1], l[2]) \/ Shout(l[1], l[2])
      PROVE  Kept
  BY <1>5 DEF StartSync, Shout, files, history
<1>6. ASSUME NEW l \in Link, Handle(l[1], l[2]) PROVE Kept
  BY <1>6 DEF Handle, HandleTree, HandleInfo, RequestFile, HandleGet, HandleChunk, files, history
<1>7. ASSUME NEW l \in Link, Disconnect(l[1], l[2]) \/ Reconnect(l[1], l[2])
      PROVE  Kept
  BY <1>7 DEF Disconnect, Reconnect, files, history
<1>8. CASE UNCHANGED vars
  BY <1>8 DEF vars, history
<1> QED
  BY <1>1, <1>2, <1>3, <1>4, <1>5, <1>6, <1>7, <1>8 DEF Next

LEMMA NextIInv == IInv /\ [Next]_vars => IInv'
<1> SUFFICES ASSUME IInv, [Next]_vars PROVE IInv'
  OBVIOUS
<1>1. Typed(Vector)'
  BY StepTyped, TypeOKTyped, VectorFacts DEF IInv
<1>2. TypeOK'
  BY <1>1, TypeOKTyped DEF TypeOK, Typed, Scalars
<1>3. minted \subseteq minted'
  BY HistoryGrows
<1>4. PICK V : V = MintedVectors'
  OBVIOUS
<1>5. MintedVectors \subseteq V /\ Zero \in V
  BY <1>3, <1>4 DEF MintedVectors, IInv
<1>6. V \subseteq Vector
  BY <1>2, <1>4 DEF TypeOK, MintedVectors, Causal!Version, Causal!Vector, Vector
<1>7. Typed(V)
  BY <1>5, VectorsGrow DEF IInv, VectorsAreMinted, TypeOK, Typed, Scalars
<1>8. ASSUME NEW n \in Peer, Close(n), handle[n].changed PROVE Increment(n) \in V
  <2> DEFINE new == [v |-> Increment(n),
                     edits |-> Causal!EditsOf(version[n]) \cup {Tag(n)}]
  <2>1. new \in minted' /\ new.v = Increment(n)
    BY <1>8 DEF Close
  <2> QED
    BY <1>4, <2>1 DEF MintedVectors
<1>9. Typed(V)'
  BY <1>5, <1>6, <1>7, <1>8, StepTyped
<1>10. VectorsAreMinted'
  BY <1>4, <1>9 DEF VectorsAreMinted, Typed, VectorsIn
<1> QED
  BY <1>2, <1>4, <1>5, <1>10 DEF IInv

LEMMA Invariance == Spec => []IInv
  BY InitIInv, NextIInv, PTL DEF Spec

\* The tables, queues, jobs and handlers have their types in every reachable
\* state.
THEOREM TypeCorrect == Spec => []TypeOK
<1>1. IInv => TypeOK
  BY DEF IInv
<1> QED
  BY <1>1, Invariance, PTL

\* No transfer, restart or merge ever makes up a version vector.
THEOREM NoVectorIsInvented == Spec => []VectorsAreMinted
<1>1. IInv => VectorsAreMinted
  BY DEF IInv
<1> QED
  BY <1>1, Invariance, PTL
-----------------------------------------------------------------------------
(* Without Database::release the protocol implements CausalVersions.        *)

NeverReleased == subscribed = [n \in Peer |-> TRUE]

LEMMA StaysSubscribed ==
    ASSUME "release" \notin Env
    PROVE  Spec => []NeverReleased
<1>1. Init => NeverReleased
  BY DEF Init, NeverReleased
<1>2. NeverReleased /\ [Next]_vars => NeverReleased'
  BY HistoryGrows DEF NeverReleased
<1> QED
  BY <1>1, <1>2, PTL DEF Spec

LEMMA CloseIsChange ==
    ASSUME IInv, NeverReleased, NEW n \in Peer, Close(n)
    PROVE  [Causal!Next]_(Causal!vars)
<1>1. CASE ~handle[n].changed
  BY <1>1 DEF Close, history, Causal!vars
<1>2. CASE handle[n].changed
  <2>1. Increment(n) = Causal!Incremented(n)
    BY DEF Increment, HasRows, NeverReleased, Causal!Incremented
  <2>2. Causal!Change(n)
    BY <1>2, <2>1 DEF Close, Causal!Change, Tag
  <2> QED
    BY <2>2 DEF Causal!Next
<1> QED
  BY <1>1, <1>2

LEMMA MergeIsReplace ==
    ASSUME IInv, NEW n \in Peer, NEW m \in Peer, HandleChunk(n, m)
    PROVE  [Causal!Next]_(Causal!vars)
<1> DEFINE row == Received(down[n][m], Head(wire[<<m, n>>]))
<1>1. UNCHANGED history
  BY DEF HandleChunk
<1>2. CASE version' = version
  BY <1>1, <1>2 DEF history, Causal!vars
<1>3. CASE version' # version
  <2>1. down[n][m] # None /\ IsNewer(n, row) /\ Install(n, m, row)
    BY <1>3 DEF HandleChunk
  <2>2. row.v = down[n][m].v
    BY DEF Received
  <2>3. down[n][m] \in Row(MintedVectors)
    BY <2>1 DEF IInv, VectorsAreMinted, VectorsIn
  <2>4. PICK r \in minted : r.v = row.v
    BY <2>2, <2>3 DEF Row, MintedVectors
  <2> HIDE DEF row
  <2>5. Causal!Replace(n, r)
    <3>1. Less(version[n], r.v)
      BY <2>1, <2>4 DEF IsNewer
    <3>2. Causal!Less(version[n], r.v)
      BY <3>1 DEF Less, KeyUnion, At, Causal!Less, Causal!KeyUnion, Causal!At
    <3>3. version' = [version EXCEPT ![n] = r.v]
      BY <2>1, <2>4 DEF Install, Adopted
    <3> QED
      BY <1>1, <3>2, <3>3 DEF history, Causal!Replace
  <2> QED
    BY <2>4, <2>5 DEF Causal!Next
<1> QED
  BY <1>2, <1>3

\* Any interleaving of closes, messages, retries, jobs and broken connections,
\* seen through the versions, is a run of CausalVersions.
THEOREM Refinement ==
    ASSUME "release" \notin Env
    PROVE  Spec => ImplementsCausal
<1>1. Init => Causal!Init
  BY DEF Init, Causal!Init, Zero, Causal!Zero
<1>2. IInv /\ NeverReleased /\ [Next]_vars => [Causal!Next]_(Causal!vars)
  <2> SUFFICES ASSUME IInv, NeverReleased, [Next]_vars PROVE [Causal!Next]_(Causal!vars)
    OBVIOUS
  <2>1. CASE UNCHANGED vars
    BY <2>1 DEF vars, history, Causal!vars
  <2>2. ASSUME NEW n \in Peer, Open(n) \/ Write(n) \/ Truncate(n) \/ Checkout(n)
        PROVE  UNCHANGED Causal!vars
    BY <2>2 DEF Open, Write, Truncate, Change, Checkout, history, Causal!vars
  <2>3. ASSUME NEW n \in Peer, Close(n) PROVE [Causal!Next]_(Causal!vars)
    BY <2>3, CloseIsChange
  <2>4. ASSUME NEW n \in Peer PROVE ~Release(n)
    BY DEF Release
  <2>5. ASSUME NEW n \in Peer, JobStep(n) PROVE UNCHANGED Causal!vars
    BY <2>5 DEF JobStep, JobStat, TreeInfo, FileCheck, FileRead, files, history, Causal!vars
  <2>6. ASSUME NEW n \in Peer, NEW m \in Peer,
               StartSync(n, m) \/ Shout(n, m) \/ Disconnect(n, m) \/ Reconnect(n, m)
        PROVE  UNCHANGED Causal!vars
    BY <2>6 DEF StartSync, Shout, Disconnect, Reconnect, files, history, Causal!vars
  <2>7. ASSUME NEW n \in Peer, NEW m \in Peer,
               HandleTree(n, m) \/ HandleInfo(n, m) \/ RequestFile(n, m) \/ HandleGet(n, m)
        PROVE  UNCHANGED Causal!vars
    BY <2>7 DEF HandleTree, HandleInfo, RequestFile, HandleGet, files, history, Causal!vars
  <2>8. ASSUME NEW n \in Peer, NEW m \in Peer, HandleChunk(n, m)
        PROVE  [Causal!Next]_(Causal!vars)
    BY <2>8, MergeIsReplace
  <2> QED
    BY <2>1, <2>2, <2>3, <2>4, <2>5, <2>6, <2>7, <2>8, LinkOf DEF Next, Handle
<1> QED
  BY <1>1, <1>2, Invariance, StaysSubscribed, PTL DEF Spec, ImplementsCausal, Causal!Spec

\* What is proved of CausalVersions, about this protocol's variables.
Abstract == INSTANCE CausalVersions_proofs

LEMMA SameSpec == Causal!Spec => Abstract!Spec
<1>1. Causal!Init => Abstract!Init
  BY DEF Causal!Init, Abstract!Init, Causal!Zero, Abstract!Zero
<1>2. ASSUME NEW n \in Peer, Causal!Change(n) PROVE Abstract!Change(n)
  BY <1>2 DEF Causal!Change, Abstract!Change, Causal!EditsOf, Abstract!EditsOf,
              Causal!Incremented, Abstract!Incremented
<1>3. ASSUME NEW n \in Peer, NEW r \in minted, Causal!Replace(n, r) PROVE Abstract!Replace(n, r)
  BY <1>3 DEF Causal!Replace, Abstract!Replace, Causal!Less, Abstract!Less,
              Causal!KeyUnion, Abstract!KeyUnion, Causal!At, Abstract!At
<1>4. [Causal!Next]_(Causal!vars) => [Abstract!Next]_(Abstract!vars)
  BY <1>2, <1>3 DEF Causal!Next, Abstract!Next, Causal!vars, Abstract!vars
<1> QED
  BY <1>1, <1>4, PTL DEF Causal!Spec, Abstract!Spec

\* No vector is ahead of its owner: the owner's next close is newer than
\* everything in circulation.
THEOREM OwnersDominate ==
    ASSUME "release" \notin Env
    PROVE  Spec => []OwnerDominates
<1>1. Abstract!IInv => OwnerDominates
  BY DEF Abstract!IInv, Abstract!OwnerDominates, OwnerDominates, Causal!OwnerDominates
<1> QED
  BY <1>1, Refinement, SameSpec, Abstract!Invariance, PTL DEF ImplementsCausal

\* Vectors count edits, so comparing vectors compares sets of edits.
THEOREM VectorsAreExact ==
    ASSUME "release" \notin Env
    PROVE  Spec => []VectorsCountEdits
<1>1. Abstract!IInv => VectorsCountEdits
  BY DEF Abstract!IInv, Abstract!VectorsCountEdits, VectorsCountEdits, Causal!VectorsCountEdits,
         Abstract!FirstEdits, Causal!FirstEdits
<1> QED
  BY <1>1, Refinement, SameSpec, Abstract!Invariance, PTL DEF ImplementsCausal

\* A copy is only ever replaced by one that includes all of its edits.
THEOREM NothingIsLost ==
    ASSUME "release" \notin Env
    PROVE  Spec => NoEditLost
<1>1. Abstract!NoEditLost => NoEditLost
  <2>1. [\A n \in Peer : Abstract!EditsOf(version[n]) \subseteq Abstract!EditsOf(version[n])']_(Abstract!vars)
         => [\A n \in Peer : Causal!EditsOf(version[n]) \subseteq Causal!EditsOf(version[n])']_(Causal!vars)
    BY DEF Abstract!EditsOf, Causal!EditsOf, Abstract!vars, Causal!vars
  <2> QED
    BY <2>1, PTL DEF NoEditLost, Abstract!NoEditLost, Causal!NoEditLost
<1> QED
  BY <1>1, Refinement, SameSpec, Abstract!NothingIsLost, PTL DEF ImplementsCausal

\* Two closes never produce the same vector.
THEOREM Freshness ==
    ASSUME "release" \notin Env
    PROVE  Spec => EditIsFresh
<1>1. Abstract!EditIsFresh => EditIsFresh
  <2>1. [\A r \in minted' : r \notin minted => \A q \in minted : q.v # r.v]_(Abstract!vars)
         => [\A r \in minted' : r \notin minted => \A q \in minted : q.v # r.v]_(Causal!vars)
    BY DEF Abstract!vars, Causal!vars
  <2> QED
    BY <2>1, PTL DEF EditIsFresh, Abstract!EditIsFresh, Causal!EditIsFresh
<1> QED
  BY <1>1, Refinement, SameSpec, Abstract!Freshness, PTL DEF ImplementsCausal
-----------------------------------------------------------------------------
(* Two peers whose users wait for a synchronisation before they edit        *)

\* There is no third peer.
TwoPeers == \A n, m, k \in Peer : n = m \/ k = n \/ k = m
\* Nothing is released, no connection breaks and edits wait: see Idle.
Patient == Env \subseteq {"truncate"}

\* The order of version vectors with an entry for every peer.
LEMMA VectorOrder ==
    ASSUME NEW v \in Vector, NEW w \in Vector
    PROVE  /\ Leq(v, w) <=> \A k \in Peer : v[k] <= w[k]
           /\ Less(v, w) <=> (\A k \in Peer : v[k] <= w[k]) /\ (\E k \in Peer : v[k] < w[k])
           /\ Equal(v, w) <=> v = w
<1>1. DOMAIN v = Peer /\ DOMAIN w = Peer /\ KeyUnion(v, w) = Peer
  BY DEF Vector, KeyUnion
<1>2. \A k \in Peer : At(v, k) = v[k] /\ At(w, k) = w[k]
  BY <1>1 DEF At
<1>3. Leq(v, w) <=> \A k \in Peer : v[k] <= w[k]
  BY <1>1, <1>2 DEF Leq
<1>4. Less(v, w) <=> (\A k \in Peer : v[k] <= w[k]) /\ (\E k \in Peer : v[k] < w[k])
  BY <1>1, <1>2 DEF Less
<1>5. Equal(v, w) <=> v = w
  <2>1. Equal(v, w) <=> \A k \in Peer : v[k] = w[k]
    BY <1>1, <1>2 DEF Equal
  <2>2. (\A k \in Peer : v[k] = w[k]) => v = w
    BY DEF Vector
  <2> QED
    BY <2>1, <2>2
<1> QED
  BY <1>3, <1>4, <1>5

LEMMA OrderLaws ==
    ASSUME NEW u \in Vector, NEW v \in Vector, NEW w \in Vector
    PROVE  /\ Leq(v, v) /\ ~Less(v, v)
           /\ Less(v, w) => Leq(v, w)
           /\ Leq(u, v) /\ Leq(v, w) => Leq(u, w)
           /\ Leq(u, v) /\ Less(v, w) => Less(u, w)
           /\ Less(u, v) /\ Leq(v, w) => Less(u, w)
           /\ Leq(v, w) /\ Leq(w, v) => v = w
<1>1. \A k \in Peer : u[k] \in Nat /\ v[k] \in Nat /\ w[k] \in Nat
  BY DEF Vector
<1>2. Leq(v, v) /\ ~Less(v, v)
  BY <1>1, VectorOrder
<1>3. Less(v, w) => Leq(v, w)
  BY VectorOrder
<1>4. Leq(u, v) /\ Leq(v, w) => Leq(u, w)
  BY <1>1, VectorOrder
<1>5. Leq(u, v) /\ Less(v, w) => Less(u, w)
  BY <1>1, VectorOrder
<1>6. Less(u, v) /\ Leq(v, w) => Less(u, w)
  BY <1>1, VectorOrder
<1>7. Leq(v, w) /\ Leq(w, v) => v = w
  <2>1. Leq(v, w) /\ Leq(w, v) => \A k \in Peer : v[k] = w[k]
    BY <1>1, VectorOrder
  <2> QED
    BY <2>1 DEF Vector
<1> QED
  BY <1>2, <1>3, <1>4, <1>5, <1>6, <1>7
-----------------------------------------------------------------------------
\* The blocks of queue q are at the offsets from, from + 1, ... to - 1, as far as
\* they are below size.
Blocks(msg) == IF msg.type = "chunk" THEN 1 ELSE 0
Stream(q, from, to, size) ==
    \E c \in [0 .. Len(q) -> Nat] :
        /\ c[0] = from /\ c[Len(q)] = to
        /\ \A i \in 1 .. Len(q) :
            /\ c[i] = c[i - 1] + Blocks(q[i])
            /\ q[i].type = "chunk" /\ c[i - 1] < size => q[i].off = c[i - 1]

\* A queue without blocks.
LEMMA StreamNone ==
    ASSUME NEW S, NEW q \in Seq(S), \A i \in 1 .. Len(q) : q[i].type # "chunk",
           NEW from \in Nat, NEW size \in Nat
    PROVE  Stream(q, from, from, size)
<1> DEFINE c == [i \in 0 .. Len(q) |-> from]
<1>1. PICK k \in Nat : k = Len(q)
  OBVIOUS
<1>2. c \in [0 .. Len(q) -> Nat] /\ c[0] = from /\ c[Len(q)] = from
  BY <1>1
<1>3. ASSUME NEW i \in 1 .. Len(q)
      PROVE  /\ c[i] = c[i - 1] + Blocks(q[i])
             /\ q[i].type = "chunk" /\ c[i - 1] < size => q[i].off = c[i - 1]
  <2>1. c[i] = from /\ c[i - 1] = from
    BY <1>1, <1>3
  <2>2. q[i].type # "chunk" /\ Blocks(q[i]) = 0
    BY <1>3 DEF Blocks
  <2> QED
    BY <2>1, <2>2
<1> HIDE DEF c
<1> QED
  BY <1>2, <1>3 DEF Stream

LEMMA StreamAppend ==
    ASSUME NEW S, NEW q \in Seq(S), NEW e \in S, NEW from \in Nat, NEW to \in Nat, NEW size \in Nat,
           Stream(q, from, to, size), e.type = "chunk" /\ to < size => e.off = to
    PROVE  Stream(Append(q, e), from, to + Blocks(e), size)
<1> DEFINE r == Append(q, e)
<1>1. PICK k \in Nat : k = Len(q)
  OBVIOUS
<1>2. Len(r) = k + 1 /\ r[k + 1] = e /\ \A i \in 1 .. k : r[i] = q[i]
  BY <1>1, AppendProperties
<1> HIDE DEF r
<1>3. PICK c \in [0 .. k -> Nat] :
        /\ c[0] = from /\ c[k] = to
        /\ \A i \in 1 .. k :
            /\ c[i] = c[i - 1] + Blocks(q[i])
            /\ q[i].type = "chunk" /\ c[i - 1] < size => q[i].off = c[i - 1]
  BY <1>1 DEF Stream
<1>4. Blocks(e) \in Nat
  BY DEF Blocks
<1>5. PICK d \in [0 .. k + 1 -> Nat] : \A i \in 0 .. k + 1 : d[i] = IF i = k + 1 THEN to + Blocks(e) ELSE c[i]
  <2>1. ASSUME NEW i \in 0 .. k + 1 PROVE (IF i = k + 1 THEN to + Blocks(e) ELSE c[i]) \in Nat
    <3>1. to + Blocks(e) \in Nat
      BY <1>4
    <3>2. i # k + 1 => i \in 0 .. k
      BY <1>1
    <3> QED
      BY <1>3, <3>1, <3>2
  <2> DEFINE d == [i \in 0 .. k + 1 |-> IF i = k + 1 THEN to + Blocks(e) ELSE c[i]]
  <2>2. d \in [0 .. k + 1 -> Nat]
    BY <2>1
  <2> QED
    BY <2>2
<1>6. d[0] = from /\ d[k + 1] = to + Blocks(e)
  BY <1>1, <1>3, <1>5
<1>7. ASSUME NEW i \in 1 .. k + 1
      PROVE  /\ d[i] = d[i - 1] + Blocks(r[i])
             /\ r[i].type = "chunk" /\ d[i - 1] < size => r[i].off = d[i - 1]
  <2>1. CASE i = k + 1
    <3>1. d[i] = to + Blocks(e) /\ d[i - 1] = to /\ r[i] = e
      BY <1>1, <1>2, <1>3, <1>5, <2>1
    <3> QED
      BY <3>1
  <2>2. CASE i # k + 1
    <3>1. i \in 1 .. k /\ d[i] = c[i] /\ d[i - 1] = c[i - 1] /\ r[i] = q[i]
      BY <1>1, <1>2, <1>5, <2>2
    <3> QED
      BY <1>3, <3>1
  <2> QED
    BY <2>1, <2>2
<1>8. Stream(r, from, to + Blocks(e), size)
  <2>1. d \in [0 .. Len(r) -> Nat] /\ d[0] = from /\ d[Len(r)] = to + Blocks(e)
    BY <1>2, <1>5, <1>6
  <2>2. \A i \in 1 .. Len(r) :
          /\ d[i] = d[i - 1] + Blocks(r[i])
          /\ r[i].type = "chunk" /\ d[i - 1] < size => r[i].off = d[i - 1]
    BY <1>2, <1>7
  <2> QED
    BY <2>1, <2>2, Zenon DEF Stream
<1> QED
  BY <1>8 DEF r

LEMMA StreamTail ==
    ASSUME NEW S, NEW q \in Seq(S), q # <<>>, NEW from \in Nat, NEW to \in Nat, NEW size \in Nat,
           Stream(q, from, to, size)
    PROVE  /\ Stream(Tail(q), from + Blocks(Head(q)), to, size)
           /\ Head(q).type = "chunk" /\ from < size => Head(q).off = from
<1>1. PICK k \in Nat : k + 1 = Len(q)
  <2>1. Len(q) \in Nat /\ Len(q) # 0
    BY EmptySeq
  <2> QED
    BY <2>1
<1> DEFINE r == Tail(q)
<1>2. Len(r) = k /\ \A i \in 1 .. k : r[i] = q[i + 1]
  BY <1>1, HeadTailProperties
<1>3. Head(q) = q[1]
  BY HeadTailProperties
<1> HIDE DEF r
<1>4. PICK c \in [0 .. k + 1 -> Nat] :
        /\ c[0] = from /\ c[k + 1] = to
        /\ \A i \in 1 .. k + 1 :
            /\ c[i] = c[i - 1] + Blocks(q[i])
            /\ q[i].type = "chunk" /\ c[i - 1] < size => q[i].off = c[i - 1]
  BY <1>1 DEF Stream
<1>5. c[1] = from + Blocks(Head(q)) /\ (Head(q).type = "chunk" /\ from < size => Head(q).off = from)
  <2>1. 1 \in 1 .. k + 1 /\ 1 - 1 = 0
    BY <1>1
  <2> QED
    BY <1>3, <1>4, <2>1
<1>6. PICK d \in [0 .. k -> Nat] : \A i \in 0 .. k : d[i] = c[i + 1]
  <2> DEFINE d == [i \in 0 .. k |-> c[i + 1]]
  <2>1. ASSUME NEW i \in 0 .. k PROVE c[i + 1] \in Nat
    BY <1>1, <1>4
  <2>2. d \in [0 .. k -> Nat]
    BY <2>1
  <2> QED
    BY <2>2
<1>7. d[0] = from + Blocks(Head(q)) /\ d[k] = to
  BY <1>1, <1>4, <1>5, <1>6
<1>8. ASSUME NEW i \in 1 .. k
      PROVE  /\ d[i] = d[i - 1] + Blocks(r[i])
             /\ r[i].type = "chunk" /\ d[i - 1] < size => r[i].off = d[i - 1]
  <2>1. i + 1 \in 1 .. k + 1 /\ (i + 1) - 1 = i /\ (i - 1) + 1 = i /\ i - 1 \in 0 .. k
    BY <1>1
  <2>2. d[i] = c[i + 1] /\ d[i - 1] = c[i] /\ r[i] = q[i + 1]
    <3>1. d[i] = c[i + 1] /\ r[i] = q[i + 1]
      BY <1>1, <1>2, <1>6
    <3>2. i - 1 \in 0 .. k /\ d[i - 1] = c[(i - 1) + 1]
      BY <1>6, <2>1
    <3> QED
      BY <2>1, <3>1, <3>2
  <2> QED
    BY <1>4, <2>1, <2>2
<1>9. Stream(r, from + Blocks(Head(q)), to, size)
  BY <1>2, <1>7, <1>8 DEF Stream
<1> QED
  BY <1>5, <1>9 DEF r
-----------------------------------------------------------------------------
(* What is true of m's copy while it is strictly newer than n's: the copy   *)
(* does not change, so everything on its way to n is about it.              *)

Ahead(n, m) == Less(version[n], version[m])
Started(n, m) == down[n][m] # None /\ down[n][m].v = version[m]

\* v and size are what m told n: of m's copy, or of one before it.
Told(n, m, v, size) ==
    Leq(v, version[m]) /\ (Ahead(n, m) => v = version[m] /\ size = Len(content[m]))
Asked(n, m, v) == Ahead(n, m) => v = version[m] /\ Started(n, m)
Block1(n, m, msg) ==
    Ahead(n, m) => /\ Started(n, m) /\ msg.off < Len(content[m])
                   /\ msg.data = <<content[m][msg.off + 1]>>

\* A message from m to n, a job of m, a row and a handler of n.
MessageGood(n, m, msg) ==
    /\ msg.type = "info" => Told(n, m, msg.v, msg.size)
    /\ msg.type = "chunk" => Block1(n, m, msg)
    /\ msg.type = "get" => Asked(m, n, msg.v)
JobGood(m, j) ==
    /\ j.to # m
    /\ j.pc # "stat" => (Ahead(j.to, m) => j.size = Len(content[m]))
    /\ j.kind = "file" =>
        /\ Asked(j.to, m, j.v)
        /\ j.pc = "stat" => j.off = 0
        /\ j.pc = "read" => j.off < j.size
GoodMessages(n, m) == {msg \in Message(Vector) : MessageGood(n, m, msg)}
\* Blocks, and nothing else, have the lowest priority.
OnLevel(n, m, p) == {msg \in GoodMessages(n, m) : msg.type = "chunk" <=> p = PrioXfer}
GoodJobs(m) == {j \in Job(Vector) : JobGood(m, j)}

\* Only the head of the job list has begun.
Waiting(q) == \A i \in 2 .. Len(q) : q[i].pc = "stat"
Begun(q) == q # <<>> /\ Head(q).kind = "file" /\ Head(q).pc # "stat"
Progress(q) == IF Begun(q) THEN Head(q).off ELSE 0

\* What comes from m is the rest of the download, in order.
Flow(w, o, from, size, sent) ==
    \E x, y \in Nat :
        Stream(w, from, x, size) /\ Stream(o, x, y, size) /\ (y < size => y = sent)
Flows(n, m) ==
    Flow(wire[<<m, n>>], out[<<m, n>>][PrioXfer], down[n][m].recd, Len(content[m]), Progress(jobs[m]))
\* What n has of it is the beginning of m's copy.
Filled(row, copy) ==
    /\ row.size = Len(copy) /\ Len(row.temp) = Len(copy)
    /\ \A i \in 1 .. row.recd : row.temp[i] = copy[i]
    /\ row.recd < Len(copy) \/ Len(copy) = 0
Loading(n, m) == Ahead(n, m) /\ Started(n, m) /\ ~handle[m].changed
RowGood(n, m) == Loading(n, m) => Filled(down[n][m], content[m]) /\ Flows(n, m)

\* The parts of the invariant.
SomeOpen == \E n \in Peer : handle[n].open
Calm ==
    /\ subscribed = [n \in Peer |-> TRUE]
    /\ up = {{l[1], l[2]} : l \in Link}
    /\ SomeOpen => Idle
    /\ \A n \in Peer : handle[n].changed => handle[n].open
CopiesGood ==
    /\ \A n \in Peer : Hole \notin Range(content[n])
    /\ \A n \in Peer, m \in Peer : version[m][n] <= version[n][n]
    /\ \A n \in Peer, m \in Peer :
        version[n] = version[m] /\ ~handle[n].changed /\ ~handle[m].changed => content[n] = content[m]
JobsGood == \A n \in Peer : jobs[n] \in Seq(GoodJobs(n)) /\ Waiting(jobs[n])
TablesGood == \A n \in Peer : \A m \in Peer \ {n} :
    /\ down[n][m] # None => Leq(down[n][m].v, version[m])
    /\ pending[n][m] # None => Told(n, m, pending[n][m].v, pending[n][m].size)
QueuesGood == \A n \in Peer : \A m \in Peer \ {n} :
    /\ wire[<<m, n>>] \in Seq(GoodMessages(n, m))
    /\ \A p \in Prio : out[<<m, n>>][p] \in Seq(OnLevel(n, m, p))
RowsGood == \A n \in Peer : \A m \in Peer \ {n} : RowGood(n, m)
PairInv == TypeOK /\ Calm /\ CopiesGood /\ JobsGood /\ TablesGood /\ QueuesGood /\ RowsGood

LEMMA Types ==
    ASSUME TypeOK
    PROVE  /\ version \in [Peer -> Vector]
           /\ content \in [Peer -> Seq(Block)]
           /\ handle \in [Peer -> [open : BOOLEAN, changed : BOOLEAN, live : BOOLEAN]]
           /\ down \in [Peer -> [Peer -> Row(Vector) \cup {None}]]
           /\ pending \in [Peer -> [Peer -> Pending(Vector) \cup {None}]]
           /\ jobs \in [Peer -> Seq(Job(Vector))]
           /\ out \in [Link -> [Prio -> Seq(Message(Vector))]]
           /\ wire \in [Link -> Seq(Message(Vector))]
BY DEF TypeOK, VectorsIn

LEMMA Links ==
    ASSUME NEW n \in Peer, NEW m \in Peer, n # m
    PROVE  <<n, m>> \in Link /\ <<m, n>> \in Link
BY DEF Link

LEMMA PairInit == TwoPeers /\ Init => PairInv
<1> SUFFICES ASSUME Init PROVE PairInv
  OBVIOUS
<1>1. TypeOK
  BY InitIInv DEF IInv
<1>2. Calm
  BY DEF Init, Calm, SomeOpen, NoHandle
<1>3. CopiesGood
  <2>1. \A n \in Peer : content[n] = <<>> /\ version[n] = Zero
    BY DEF Init
  <2>2. Range(<<>>) = {}
    BY DEF Range
  <2>3. \A n \in Peer, m \in Peer : version[m][n] = 0
    BY <2>1 DEF Zero
  <2> QED
    BY <2>1, <2>2, <2>3 DEF CopiesGood
<1>4. JobsGood
  BY DEF Init, JobsGood, Waiting
<1>5. TablesGood
  BY DEF Init, TablesGood
<1>6. QueuesGood
  <2>1. ASSUME NEW n \in Peer, NEW m \in Peer \ {n}
        PROVE  wire[<<m, n>>] = <<>> /\ \A p \in Prio : out[<<m, n>>][p] = <<>>
    BY <2>1, Links DEF Init
  <2>2. \A S : <<>> \in Seq(S)
    OBVIOUS
  <2> QED
    BY <2>1, <2>2, Zenon DEF QueuesGood
<1>7. RowsGood
  BY DEF Init, RowsGood, RowGood, Loading, Started
<1> QED
  BY <1>1, <1>2, <1>3, <1>4, <1>5, <1>6, <1>7 DEF PairInv
-----------------------------------------------------------------------------
(* Edits                                                                    *)

LEMMA EditsWait ==
    ASSUME PairInv, Patient, NEW n \in Peer, Open(n) \/ Write(n) \/ Truncate(n) \/ Close(n)
    PROVE  Idle /\ UNCHANGED <<subscribed, down, pending, jobs, up, out, wire>>
<1>1. Idle
  <2>1. CASE Open(n)
    BY <2>1 DEF Open, MayEdit, Patient
  <2>2. CASE handle[n].open
    BY <2>2 DEF PairInv, Calm, SomeOpen
  <2> QED
    BY <2>1, <2>2 DEF Write, Truncate, Change, Close
<1> QED
  BY <1>1 DEF Open, Write, Truncate, Change, Close

\* What an edit does to the copies: the version changes only when the file is
\* closed, and other bytes are marked.
LEMMA EditStep ==
    ASSUME PairInv, NEW n \in Peer, Open(n) \/ Write(n) \/ Truncate(n) \/ Close(n)
    PROVE  /\ \A k \in Peer \ {n} : handle'[k] = handle[k] /\ content'[k] = content[k]
           /\ handle'[n].changed => handle'[n].open
           /\ content'[n] = content[n] \/ handle'[n].changed
           /\ Hole \notin Range(content'[n])
           /\ \/ /\ version' = version
                 /\ handle[n].changed => handle'[n].changed
              \/ /\ version' = [version EXCEPT ![n] = [version[n] EXCEPT ![n] = version[n][n] + 1]]
                 /\ content' = content
<1> USE Types DEF PairInv
<1>0. Hole \notin Range(content[n]) /\ (handle[n].changed => handle[n].open)
  BY DEF CopiesGood, Calm
<1>1. CASE Open(n)
  BY <1>0, <1>1 DEF Open
<1>2. ASSUME NEW blocks \in Seq(Block), Change(n, blocks), Hole \notin Range(blocks)
      PROVE  /\ \A k \in Peer \ {n} : handle'[k] = handle[k] /\ content'[k] = content[k]
             /\ handle'[n].changed /\ handle'[n].open
             /\ Hole \notin Range(content'[n]) /\ version' = version
  <2>1. /\ handle' = [handle EXCEPT ![n].changed = TRUE] /\ version' = version /\ handle[n].open
        /\ content' = IF handle[n].live THEN [content EXCEPT ![n] = blocks] ELSE content
    BY <1>2 DEF Change
  <2>2. \A k \in Peer \ {n} : handle'[k] = handle[k] /\ content'[k] = content[k]
    BY <2>1
  <2>3. handle'[n].changed /\ handle'[n].open
    BY <2>1
  <2>4. content'[n] = blocks \/ content'[n] = content[n]
    BY <2>1
  <2> QED
    BY <1>0, <1>2, <2>1, <2>2, <2>3, <2>4
<1>3. CASE Write(n)
  <2>1. PICK b \in 1 .. NChunks :
            /\ b <= Len(content[n]) + 1
            /\ Change(n, IF b <= Len(content[n]) THEN [content[n] EXCEPT ![b] = Tag(n)]
                         ELSE Append(content[n], Tag(n)))
    BY <1>3 DEF Write
  <2>2. content[n] \in Seq(Block) /\ Tag(n) \in Peer \X Nat /\ Tag(n) \in Block /\ Tag(n) # Hole
    <3>1. edited[n] \in Nat
      BY DEF TypeOK
    <3> QED
      BY <3>1, HoleAssumption DEF Tag, Block
  <2>3. b \in Nat /\ b >= 1
    BY BoundAssumption
  <2>4. CASE b <= Len(content[n])
    <3> DEFINE r == [content[n] EXCEPT ![b] = Tag(n)]
    <3>1. b \in 1 .. Len(content[n])
      BY <2>2, <2>3, <2>4
    <3>2. r \in Seq(Block)
      BY <2>2, <3>1, ExceptSeq
    <3>3. Hole \notin Range(r)
      BY <1>0, <2>2, <3>1 DEF Range
    <3> QED
      BY <1>2, <2>1, <2>4, <3>2, <3>3
  <2>5. CASE ~(b <= Len(content[n]))
    <3> DEFINE r == Append(content[n], Tag(n))
    <3>1. r \in Seq(Block)
      BY <2>2, Appended
    <3>2. Hole \notin Range(r)
      <4>1. ASSUME NEW i \in 1 .. Len(content[n]) + 1 PROVE r[i] # Hole
        <5>1. Tag(n) # Hole /\ \A h \in 1 .. Len(content[n]) : content[n][h] # Hole
          BY <1>0, <2>2 DEF Range
        <5>2. /\ r[Len(content[n]) + 1] = Tag(n)
              /\ \A h \in 1 .. Len(content[n]) : r[h] = content[n][h]
          BY <2>2, AppendProperties
        <5>3. i = Len(content[n]) + 1 \/ i \in 1 .. Len(content[n])
          BY <2>2
        <5> QED
          BY <5>1, <5>2, <5>3, Zenon
      <4>2. DOMAIN r = 1 .. Len(content[n]) + 1
        BY <2>2, AppendProperties
      <4> QED
        BY <4>1, <4>2 DEF Range
    <3> QED
      BY <1>2, <2>1, <2>5, <3>1, <3>2
  <2> QED
    BY <2>4, <2>5
<1>4. CASE Truncate(n)
  <2>1. Hole \notin Range(<<>>)
    BY DEF Range
  <2>2. <<>> \in Seq(Block) /\ Change(n, <<>>)
    BY <1>4 DEF Truncate
  <2> QED
    BY <1>2, <2>1, <2>2
<1>5. CASE Close(n)
  <2>1. handle' = [handle EXCEPT ![n] = NoHandle] /\ content' = content
    BY <1>5 DEF Close
  <2>2. \A k \in Peer \ {n} : handle'[k] = handle[k] /\ content'[k] = content[k]
    BY <2>1
  <2>3. ~handle'[n].changed
    BY <2>1 DEF NoHandle
  <2>4. CASE ~handle[n].changed
    BY <1>0, <1>5, <2>1, <2>2, <2>3, <2>4 DEF Close
  <2>5. CASE handle[n].changed
    <3>1. HasRows(n)
      BY DEF Calm, HasRows
    <3>2. version' = [version EXCEPT ![n] = [version[n] EXCEPT ![n] = version[n][n] + 1]]
      BY <1>5, <2>5, <3>1 DEF Close, Increment
    <3> QED
      BY <1>0, <2>1, <2>2, <2>3, <3>2
  <2> QED
    BY <2>4, <2>5
<1> QED
  BY <1>1, <1>3, <1>4, <1>5

LEMMA EditKeeps ==
    ASSUME PairInv, TypeOK', Patient, NEW n \in Peer,
           Open(n) \/ Write(n) \/ Truncate(n) \/ Close(n)
    PROVE  PairInv'
<1>1. Idle /\ UNCHANGED <<subscribed, down, pending, jobs, up, out, wire>>
  BY EditsWait
<1>2. Idle'
  BY <1>1 DEF Idle
<1>3. /\ \A k \in Peer \ {n} : handle'[k] = handle[k] /\ content'[k] = content[k]
      /\ handle'[n].changed => handle'[n].open
      /\ content'[n] = content[n] \/ handle'[n].changed
      /\ Hole \notin Range(content'[n])
  BY EditStep
<1>4. /\ version \in [Peer -> Vector] /\ version' \in [Peer -> Vector]
      /\ \A j \in Peer, k \in Peer : version[j][k] \in Nat /\ version'[j][k] \in Nat
      /\ \A j \in Peer : \A k \in Peer \ {j} : down[j][k] # None => down[j][k].v \in Vector
  <2>1. version \in [Peer -> Vector] /\ version' \in [Peer -> Vector]
    BY DEF PairInv, TypeOK, VectorsIn
  <2>2. \A j \in Peer, k \in Peer : down[j][k] # None => down[j][k] \in Row(Vector)
    BY DEF PairInv, TypeOK, VectorsIn
  <2> QED
    BY <2>1, <2>2 DEF Vector, Row
<1>5. Calm'
  BY <1>1, <1>2, <1>3 DEF Calm, PairInv
<1>6. JobsGood'
  <2>1. \A k \in Peer : jobs'[k] = <<>>
    BY <1>2 DEF Idle
  <2>2. \A S : <<>> \in Seq(S)
    OBVIOUS
  <2>3. Waiting(<<>>)
    BY DEF Waiting
  <2> QED
    BY <2>1, <2>2, <2>3, Zenon DEF JobsGood
<1>7. QueuesGood'
  <2>1. ASSUME NEW k \in Peer, NEW m \in Peer \ {k}
        PROVE  wire'[<<m, k>>] = <<>> /\ \A p \in Prio : out'[<<m, k>>][p] = <<>>
    BY <1>2, <2>1, Links DEF Idle
  <2>2. \A S : <<>> \in Seq(S)
    OBVIOUS
  <2> QED
    BY <2>1, <2>2, Zenon DEF QueuesGood
<1>8. \A k \in Peer : \A m \in Peer \ {k} : pending'[k][m] = None
  BY <1>2 DEF Idle
<1>9. CASE version' = version /\ (handle[n].changed => handle'[n].changed)
  <2>1. CopiesGood'
    <3>1. \A k \in Peer : Hole \notin Range(content'[k])
      BY <1>3 DEF PairInv, CopiesGood
    <3>2. \A j \in Peer, k \in Peer : version'[k][j] <= version'[j][j]
      BY <1>9 DEF PairInv, CopiesGood
    <3>3. \A k \in Peer : ~handle'[k].changed => ~handle[k].changed /\ content'[k] = content[k]
      BY <1>3, <1>9
    <3>4. \A j \in Peer, k \in Peer :
            version'[j] = version'[k] /\ ~handle'[j].changed /\ ~handle'[k].changed
                => content'[j] = content'[k]
      BY <1>9, <3>3 DEF PairInv, CopiesGood
    <3> QED
      BY <3>1, <3>2, <3>4 DEF CopiesGood
  <2>2. TablesGood'
    BY <1>1, <1>8, <1>9 DEF PairInv, TablesGood
  <2>3. RowsGood'
    <3> SUFFICES ASSUME NEW k \in Peer, NEW m \in Peer \ {k}, Loading(k, m)'
                 PROVE  Filled(down'[k][m], content'[m]) /\ Flows(k, m)'
      BY DEF RowsGood, RowGood
    <3>1. ~handle'[m].changed
      BY DEF Loading
    <3>2. content'[m] = content[m] /\ ~handle[m].changed
      BY <1>3, <1>9, <3>1
    <3>3. Loading(k, m)
      BY <1>1, <1>9, <3>2 DEF Loading, Ahead, Started
    <3>4. Filled(down[k][m], content[m]) /\ Flows(k, m)
      BY <3>3 DEF PairInv, RowsGood, RowGood
    <3> QED
      BY <1>1, <3>2, <3>4 DEF Flows
  <2> QED
    BY <1>5, <1>6, <1>7, <2>1, <2>2, <2>3 DEF PairInv
<1>10. CASE /\ version' = [version EXCEPT ![n] = [version[n] EXCEPT ![n] = version[n][n] + 1]]
            /\ content' = content
  <2>1. /\ version'[n][n] = version[n][n] + 1
        /\ \A k \in Peer \ {n} : version'[n][k] = version[n][k]
        /\ \A k \in Peer \ {n} : version'[k] = version[k]
    BY <1>4, <1>10 DEF Vector
  <2>2. \A j \in Peer, k \in Peer : version[k][j] <= version[j][j]
    BY DEF PairInv, CopiesGood
  <2>3. \A k \in Peer \ {n} : version'[k][n] < version'[n][n]
    BY <1>4, <2>1, <2>2
  <2>4. \A k \in Peer : Leq(version[k], version'[k])
    <3>1. ASSUME NEW k \in Peer PROVE \A j \in Peer : version[k][j] <= version'[k][j]
      BY <1>4, <2>1
    <3> QED
      BY <1>4, <3>1, VectorOrder
  <2>5. CopiesGood'
    <3>1. \A k \in Peer : Hole \notin Range(content'[k])
      BY <1>3 DEF PairInv, CopiesGood
    <3>2. \A j \in Peer, k \in Peer : version'[k][j] <= version'[j][j]
      <4> SUFFICES ASSUME NEW j \in Peer, NEW k \in Peer PROVE version'[k][j] <= version'[j][j]
        OBVIOUS
      <4>1. CASE j = n /\ k = n
        BY <1>4, <4>1
      <4>2. CASE j = n /\ k # n
        BY <1>4, <2>3, <4>2
      <4>3. CASE j # n
        BY <2>1, <2>2, <4>3
      <4> QED
        BY <4>1, <4>2, <4>3
    <3>3. \A j \in Peer, k \in Peer :
            version'[j] = version'[k] /\ ~handle'[j].changed /\ ~handle'[k].changed
                => content'[j] = content'[k]
      <4> SUFFICES ASSUME NEW j \in Peer, NEW k \in Peer, version'[j] = version'[k],
                          ~handle'[j].changed, ~handle'[k].changed
                   PROVE  content'[j] = content'[k]
        OBVIOUS
      <4>1. CASE j = k
        BY <4>1
      <4>2. CASE j # k /\ (j = n \/ k = n)
        <5>1. version'[j][n] = version'[k][n]
          OBVIOUS
        <5> QED
          BY <1>4, <2>3, <4>2, <5>1
      <4>3. CASE j # n /\ k # n
        BY <1>3, <1>10, <2>1, <4>3 DEF PairInv, CopiesGood
      <4> QED
        BY <4>1, <4>2, <4>3
    <3> QED
      BY <3>1, <3>2, <3>3 DEF CopiesGood
  <2>6. TablesGood'
    <3>1. ASSUME NEW k \in Peer, NEW m \in Peer \ {k}, down[k][m] # None
          PROVE  Leq(down[k][m].v, version'[m])
      <4>1. Leq(down[k][m].v, version[m])
        BY <3>1 DEF PairInv, TablesGood
      <4> QED
        BY <1>4, <2>4, <3>1, <4>1, OrderLaws
    <3> QED
      BY <1>1, <1>8, <3>1 DEF TablesGood
  <2>7. RowsGood'
    <3> SUFFICES ASSUME NEW k \in Peer, NEW m \in Peer \ {k}, Loading(k, m)'
                 PROVE  Filled(down'[k][m], content'[m]) /\ Flows(k, m)'
      BY DEF RowsGood, RowGood
    <3>1. /\ Less(version'[k], version'[m]) /\ ~handle'[m].changed
          /\ down[k][m] # None /\ down[k][m].v = version'[m]
      BY <1>1 DEF Loading, Ahead, Started
    <3>2. m # n
      <4>1. Leq(version'[m], version[m])
        BY <3>1 DEF PairInv, TablesGood
      <4>2. version'[m][n] <= version[m][n]
        BY <1>4, <4>1, VectorOrder
      <4> QED
        BY <1>4, <2>1, <4>2
    <3>3. k # n
      <4>1. version'[k][n] <= version'[m][n]
        BY <1>4, <3>1, VectorOrder
      <4> QED
        BY <1>4, <2>3, <3>2, <4>1
    <3>4. version'[k] = version[k] /\ version'[m] = version[m] /\ handle'[m] = handle[m]
      BY <1>3, <2>1, <3>2, <3>3
    <3>5. Loading(k, m)
      BY <1>1, <3>1, <3>4 DEF Loading, Ahead, Started
    <3>6. Filled(down[k][m], content[m]) /\ Flows(k, m)
      BY <3>5 DEF PairInv, RowsGood, RowGood
    <3> QED
      BY <1>1, <1>10, <3>6 DEF Flows
  <2> QED
    BY <1>5, <1>6, <1>7, <2>5, <2>6, <2>7 DEF PairInv
<1> QED
  BY <1>9, <1>10, EditStep
-----------------------------------------------------------------------------
(* Steps that leave the copies and the downloads alone                      *)

LEMMA StillGood ==
    ASSUME UNCHANGED <<version, content, handle, down>>, NEW n, NEW m
    PROVE  /\ GoodMessages(n, m)' = GoodMessages(n, m)
           /\ GoodJobs(m)' = GoodJobs(m)
           /\ Loading(n, m)' <=> Loading(n, m)
           /\ \A v, size : Told(n, m, v, size)' <=> Told(n, m, v, size)
BY DEF GoodMessages, GoodJobs, Loading, MessageGood, JobGood, Told, Asked, Block1, Ahead, Started

LEMMA NothingOpen ==
    ASSUME PairInv, Patient, NEW n \in Peer, NEW m \in Peer, n # m,
           JobStep(n) \/ StartSync(n, m) \/ Shout(n, m) \/ Handle(n, m)
    PROVE  ~SomeOpen
<1> SUFFICES ASSUME SomeOpen PROVE FALSE
  OBVIOUS
<1>1. Idle
  BY DEF PairInv, Calm
<1>2. jobs[n] = <<>> /\ pending[n][m] = None
  BY <1>1 DEF Idle
<1>3. wire[<<m, n>>] = <<>> /\ \A p \in Prio : out[<<n, m>>][p] = <<>>
  BY <1>1, Links DEF Idle
<1>4. ~JobStep(n)
  BY <1>2 DEF JobStep, JobStat, TreeInfo, FileCheck, FileRead, Running
<1>5. ~StartSync(n, m)
  BY DEF StartSync, MaySync, Patient, SomeOpen
<1>6. ~Shout(n, m)
  BY <1>3 DEF Shout
<1>7. ~Handle(n, m)
  BY <1>2, <1>3 DEF Handle, HandleTree, HandleInfo, RequestFile, HandleGet, HandleChunk, Arrived
<1> QED
  BY <1>4, <1>5, <1>6, <1>7

\* While nothing is open no copy is marked.
LEMMA CalmStays ==
    ASSUME PairInv, ~SomeOpen,
           UNCHANGED <<subscribed, up>>,
           \A n \in Peer : handle'[n].open = handle[n].open /\ handle'[n].changed = handle[n].changed
    PROVE  Calm' /\ \A n \in Peer : ~handle'[n].changed /\ ~handle[n].changed
BY DEF PairInv, Calm, SomeOpen

LEMMA RowsStay ==
    ASSUME RowsGood, UNCHANGED <<version, content, handle, down>>,
           \A n \in Peer : \A m \in Peer \ {n} : Loading(n, m) /\ Flows(n, m) => Flows(n, m)'
    PROVE  RowsGood'
<1> SUFFICES ASSUME NEW n \in Peer, NEW m \in Peer \ {n}, Loading(n, m)'
             PROVE  Filled(down'[n][m], content'[m]) /\ Flows(n, m)'
  BY DEF RowsGood, RowGood
<1>1. Loading(n, m)
  BY StillGood
<1>2. Filled(down[n][m], content[m]) /\ Flows(n, m)
  BY <1>1 DEF RowsGood, RowGood
<1> QED
  BY <1>1, <1>2

\* The job list.
LEMMA ListTail ==
    ASSUME NEW S, NEW q \in Seq(S), q # <<>>, Waiting(q)
    PROVE  Waiting(Tail(q)) /\ Progress(Tail(q)) = 0
<1>1. PICK k \in Nat : k + 1 = Len(q)
  <2>1. Len(q) \in Nat /\ Len(q) # 0
    BY EmptySeq
  <2> QED
    BY <2>1
<1> DEFINE r == Tail(q)
<1>2. r \in Seq(S) /\ Len(r) = k /\ \A i \in 1 .. k : r[i] = q[i + 1]
  BY <1>1, HeadTailProperties
<1> HIDE DEF r
<1>3. \A i \in 1 .. k : r[i].pc = "stat"
  <2>1. ASSUME NEW i \in 1 .. k PROVE q[i + 1].pc = "stat"
    BY <1>1 DEF Waiting
  <2> QED
    BY <1>2, <2>1
<1>4. Waiting(r)
  BY <1>1, <1>2, <1>3 DEF Waiting
<1>5. r # <<>> => Head(r).pc = "stat"
  <2>1. ASSUME r # <<>> PROVE 1 \in 1 .. k /\ Head(r) = r[1]
    <3>1. k # 0
      BY <1>2, <2>1, EmptySeq
    <3> QED
      BY <1>1, <1>2, <2>1, <3>1, HeadTailProperties
  <2> QED
    BY <1>3, <2>1
<1>6. Progress(r) = 0
  BY <1>5 DEF Progress, Begun
<1> QED
  BY <1>4, <1>6 DEF r

LEMMA ListHead ==
    ASSUME NEW S, NEW q \in Seq(S), q # <<>>, Waiting(q), NEW e \in S
    PROVE  /\ Waiting([q EXCEPT ![1] = e])
           /\ Progress([q EXCEPT ![1] = e]) = IF e.kind = "file" /\ e.pc # "stat" THEN e.off ELSE 0
<1>1. PICK k \in Nat \ {0} : k = Len(q)
  <2>1. Len(q) \in Nat /\ Len(q) # 0
    BY EmptySeq
  <2> QED
    BY <2>1
<1> DEFINE r == [q EXCEPT ![1] = e]
<1>2. 1 \in 1 .. Len(q)
  BY <1>1
<1>3. r \in Seq(S)
  BY ReplacedHead
<1>4. Len(r) = k /\ r[1] = e /\ \A i \in 2 .. k : r[i] = q[i]
  BY <1>1, <1>2, ExceptSeq
<1> HIDE DEF r
<1>5. Waiting(r)
  BY <1>1, <1>4 DEF Waiting
<1>6. r # <<>> /\ Head(r) = e
  <2>1. r # <<>>
    BY <1>1, <1>3, <1>4, EmptySeq
  <2> QED
    BY <1>3, <1>4, <2>1, HeadTailProperties
<1> QED
  BY <1>5, <1>6 DEF Progress, Begun, r

LEMMA ListAppend ==
    ASSUME NEW S, NEW q \in Seq(S), Waiting(q), NEW e \in S, e.pc = "stat"
    PROVE  Waiting(Append(q, e)) /\ Progress(Append(q, e)) = Progress(q)
<1>1. PICK k \in Nat : k = Len(q)
  OBVIOUS
<1> DEFINE r == Append(q, e)
<1>2. r \in Seq(S) /\ Len(r) = k + 1 /\ r[k + 1] = e /\ \A i \in 1 .. k : r[i] = q[i]
  BY <1>1, AppendProperties
<1> HIDE DEF r
<1>3. Waiting(r)
  <2>1. ASSUME NEW i \in 2 .. k + 1 PROVE r[i].pc = "stat"
    <3>1. i = k + 1 \/ (i \in 2 .. k /\ i \in 1 .. k)
      BY <1>1
    <3> QED
      BY <1>1, <1>2, <3>1 DEF Waiting
  <2> QED
    BY <1>2, <2>1 DEF Waiting
<1>4. r # <<>>
  BY <1>1, <1>2, EmptySeq
<1>5. CASE q = <<>>
  <2>1. Head(r) = e
    <3>1. k = 0
      BY <1>1, <1>5
    <3> QED
      BY <1>2, <1>4, <3>1, HeadTailProperties
  <2>2. Progress(r) = 0 /\ Progress(q) = 0
    BY <1>5, <2>1 DEF Progress, Begun
  <2> QED
    BY <1>3, <2>2 DEF r
<1>6. CASE q # <<>>
  <2>1. Head(r) = Head(q)
    BY <1>6, HeadStays DEF r
  <2>2. Progress(r) = Progress(q)
    BY <1>4, <1>6, <2>1 DEF Progress, Begun
  <2> QED
    BY <1>3, <2>2 DEF r
<1> QED
  BY <1>5, <1>6

\* A new message to m, of a kind that belongs on level p.
LEMMA SentTo ==
    ASSUME out \in [Link -> [Prio -> Seq(Message(Vector))]],
           NEW n \in Peer, NEW m \in Peer, n # m, NEW p \in Prio, NEW msg, out' = Sent(n, m, p, msg)
    PROVE  /\ out'[<<n, m>>][p] = Append(out[<<n, m>>][p], msg)
           /\ \A q \in Prio \ {p} : out'[<<n, m>>][q] = out[<<n, m>>][q]
           /\ \A l \in Link \ {<<n, m>>} : out'[l] = out[l]
<1>1. <<n, m>> \in Link
  BY Links
<1> QED
  BY <1>1 DEF Sent

\* The queues of blocks, when p has another priority.
LEMMA BlocksSame ==
    ASSUME out \in [Link -> [Prio -> Seq(Message(Vector))]],
           NEW n \in Peer, NEW m \in Peer, n # m, NEW p \in Prio \ {PrioXfer}, NEW msg,
           out' = Sent(n, m, p, msg), NEW k \in Peer, NEW l \in Peer, k # l
    PROVE  out'[<<k, l>>][PrioXfer] = out[<<k, l>>][PrioXfer]
<1>1. <<k, l>> \in Link /\ PrioXfer \in Prio \ {p}
  BY Links DEF Prio
<1>2. /\ \A q \in Prio \ {p} : out'[<<n, m>>][q] = out[<<n, m>>][q]
      /\ \A i \in Link \ {<<n, m>>} : out'[i] = out[i]
  BY SentTo
<1>3. CASE <<k, l>> = <<n, m>>
  BY <1>1, <1>2, <1>3
<1>4. CASE <<k, l>> # <<n, m>>
  BY <1>1, <1>2, <1>4
<1> QED
  BY <1>3, <1>4

LEMMA SentGood ==
    ASSUME QueuesGood, out \in [Link -> [Prio -> Seq(Message(Vector))]],
           \A k \in Peer : \A l \in Peer \ {k} : GoodMessages(k, l) \subseteq GoodMessages(k, l)',
           NEW n \in Peer, NEW m \in Peer, n # m, NEW p \in Prio,
           NEW msg, msg \in OnLevel(m, n, p)', out' = Sent(n, m, p, msg), wire' = wire
    PROVE  QueuesGood'
<1>2. /\ out'[<<n, m>>][p] = Append(out[<<n, m>>][p], msg)
      /\ \A q \in Prio \ {p} : out'[<<n, m>>][q] = out[<<n, m>>][q]
      /\ \A l \in Link \ {<<n, m>>} : out'[l] = out[l]
  BY SentTo
<1>4. ASSUME NEW k \in Peer, NEW l \in Peer \ {k}
      PROVE  /\ wire'[<<l, k>>] \in Seq(GoodMessages(k, l)')
             /\ \A q \in Prio : out'[<<l, k>>][q] \in Seq(OnLevel(k, l, q)')
  <2>1. GoodMessages(k, l) \subseteq GoodMessages(k, l)'
    OBVIOUS
  <2>2. wire'[<<l, k>>] \in Seq(GoodMessages(k, l)')
    BY <2>1, SeqGrows DEF QueuesGood
  <2>3. ASSUME NEW q \in Prio PROVE out'[<<l, k>>][q] \in Seq(OnLevel(k, l, q)')
    <3>1. out[<<l, k>>][q] \in Seq(OnLevel(k, l, q)')
      <4>1. OnLevel(k, l, q) \subseteq OnLevel(k, l, q)'
        BY <2>1 DEF OnLevel
      <4> QED
        BY <4>1, SeqGrows DEF QueuesGood
    <3>2. CASE l = n /\ k = m /\ q = p
      <4>1. msg \in OnLevel(k, l, q)'
        BY <3>2
      <4>2. out[<<l, k>>][q] = out[<<n, m>>][p] /\ out'[<<l, k>>][q] = Append(out[<<n, m>>][p], msg)
        BY <1>2, <3>2
      <4> QED
        BY <3>1, <4>1, <4>2, Appended
    <3>3. CASE ~(l = n /\ k = m /\ q = p)
      <4>1. out'[<<l, k>>][q] = out[<<l, k>>][q]
        BY <1>2, <3>3, Links
      <4> QED
        BY <3>1, <4>1
    <3> QED
      BY <3>2, <3>3
  <2> QED
    BY <2>2, <2>3
<1> QED
  BY <1>4 DEF QueuesGood

\* The head of the job list moves on or ends, a job is queued.
LEMMA JobsMove ==
    ASSUME JobsGood, NEW n \in Peer,
           jobs \in [Peer -> Seq(Job(Vector))],
           \A m \in Peer : GoodJobs(m)' = GoodJobs(m),
           \/ jobs[n] # <<>> /\ Finish(n)
           \/ \E j \in GoodJobs(n) : jobs[n] # <<>> /\ Continue(n, j)
           \/ \E j \in GoodJobs(n) : j.pc = "stat" /\ Enqueue(n, j)
    PROVE  /\ JobsGood'
           /\ \A m \in Peer \ {n} : jobs'[m] = jobs[m]
           /\ jobs[n] # <<>> /\ Finish(n) => Progress(jobs'[n]) = 0
           /\ \A j \in GoodJobs(n) : jobs[n] # <<>> /\ Continue(n, j) =>
                Progress(jobs'[n]) = IF j.kind = "file" /\ j.pc # "stat" THEN j.off ELSE 0
           /\ \A j \in GoodJobs(n) : j.pc = "stat" /\ Enqueue(n, j) => Progress(jobs'[n]) = Progress(jobs[n])
<1>1. jobs[n] \in Seq(GoodJobs(n)) /\ Waiting(jobs[n])
  BY DEF JobsGood
<1>2. \A m \in Peer \ {n} : jobs'[m] = jobs[m]
  BY DEF Finish, Continue, Enqueue
<1>3. ASSUME jobs'[n] \in Seq(GoodJobs(n)), Waiting(jobs'[n]) PROVE JobsGood'
  <2>1. ASSUME NEW m \in Peer PROVE jobs'[m] \in Seq(GoodJobs(m)') /\ Waiting(jobs'[m])
    <3>1. GoodJobs(m)' = GoodJobs(m)
      OBVIOUS
    <3>2. jobs'[m] \in Seq(GoodJobs(m)) /\ Waiting(jobs'[m])
      BY <1>2, <1>3 DEF JobsGood
    <3> QED
      BY <3>1, <3>2
  <2> QED
    BY <2>1 DEF JobsGood
<1>4. ASSUME jobs[n] # <<>>, Finish(n)
      PROVE  jobs'[n] \in Seq(GoodJobs(n)) /\ Waiting(jobs'[n]) /\ Progress(jobs'[n]) = 0
  <2>1. jobs'[n] = Tail(jobs[n])
    BY <1>4 DEF Finish
  <2> QED
    BY <1>1, <1>4, <2>1, ListTail, Popped
<1>5. ASSUME NEW j \in GoodJobs(n), jobs[n] # <<>>, Continue(n, j)
      PROVE  /\ jobs'[n] \in Seq(GoodJobs(n)) /\ Waiting(jobs'[n])
             /\ Progress(jobs'[n]) = IF j.kind = "file" /\ j.pc # "stat" THEN j.off ELSE 0
  <2>1. jobs'[n] = [jobs[n] EXCEPT ![1] = j]
    BY <1>5 DEF Continue
  <2> QED
    BY <1>1, <1>5, <2>1, ListHead, ReplacedHead
<1>6. ASSUME NEW j \in GoodJobs(n), j.pc = "stat", Enqueue(n, j)
      PROVE  jobs'[n] \in Seq(GoodJobs(n)) /\ Waiting(jobs'[n]) /\ Progress(jobs'[n]) = Progress(jobs[n])
  <2>1. jobs'[n] = Append(jobs[n], j)
    BY <1>6 DEF Enqueue
  <2> QED
    BY <1>1, <1>6, <2>1, ListAppend, Appended
<1> QED
  BY <1>2, <1>3, <1>4, <1>5, <1>6

\* The flow to others than k's, and from others than n, is not touched.
LEMMA FlowsSame ==
    ASSUME UNCHANGED <<content, down>>, NEW n, NEW m,
           wire'[<<m, n>>] = wire[<<m, n>>], out'[<<m, n>>][PrioXfer] = out[<<m, n>>][PrioXfer],
           Progress(jobs'[m]) = Progress(jobs[m]), Flows(n, m)
    PROVE  Flows(n, m)'
BY DEF Flows

LEMMA AllConnected ==
    ASSUME Calm, NEW n \in Peer, NEW m \in Peer, n # m
    PROVE  Connected(n, m)
<1>1. <<n, m>> \in Link /\ {<<n, m>>[1], <<n, m>>[2]} = {n, m}
  BY Links
<1> QED
  BY <1>1 DEF Calm, Connected

LEMMA RestStays ==
    ASSUME PairInv, UNCHANGED <<version, content, handle, down>>
    PROVE  /\ CopiesGood'
           /\ pending' = pending => TablesGood'
           /\ UNCHANGED <<out, wire>> => QueuesGood'
<1>1. CopiesGood'
  BY DEF PairInv, CopiesGood
<1>2. pending' = pending => TablesGood'
  BY StillGood DEF PairInv, TablesGood
<1>3. UNCHANGED <<out, wire>> => QueuesGood'
  <2>1. \A k, l : GoodMessages(k, l)' = GoodMessages(k, l)
    BY StillGood
  <2>2. \A k, l, p : OnLevel(k, l, p)' = OnLevel(k, l, p)
    BY <2>1 DEF OnLevel
  <2> QED
    BY <2>1, <2>2 DEF PairInv, QueuesGood
<1> QED
  BY <1>1, <1>2, <1>3

LEMMA JobStatKeeps ==
    ASSUME PairInv, TypeOK', Patient, NEW n \in Peer, ~SomeOpen, JobStat(n)
    PROVE  PairInv'
<1> DEFINE j == Head(jobs[n])
<1>1. UNCHANGED <<version, content, handle, down, subscribed, pending, up, out, wire>>
  BY DEF JobStat, files
<1>2. jobs[n] # <<>> /\ j \in GoodJobs(n) /\ j.pc = "stat"
  <2>1. jobs[n] # <<>> /\ j.pc = "stat" /\ jobs[n] \in Seq(GoodJobs(n))
    BY DEF JobStat, Running, PairInv, JobsGood
  <2> QED
    BY <2>1, Popped
<1> DEFINE e == [j EXCEPT !.size = Len(content[n]), !.pc = "loop"]
<1>3. Continue(n, e)
  BY DEF JobStat, PairInv, Calm
<1>4. Len(content[n]) \in Nat
  BY Types DEF PairInv
<1>5. /\ e \in Job(Vector) /\ e.to = j.to /\ e.size = Len(content[n]) /\ e.pc = "loop" /\ e.kind = j.kind
      /\ j.kind = "file" => e.v = j.v /\ e.off = j.off
  <2> PICK s \in Nat : s = Len(content[n])
    BY <1>4
  <2>1. j \in TreeJobs \/ j \in FileJobs(Vector)
    BY <1>2 DEF GoodJobs, Job
  <2> HIDE DEF j
  <2>2. CASE j \in TreeJobs
    BY <2>2 DEF TreeJobs, Job
  <2>3. CASE j \in FileJobs(Vector)
    BY <2>3 DEF FileJobs, Job
  <2> QED
    BY <2>1, <2>2, <2>3
<1> HIDE DEF e
<1>6. e \in GoodJobs(n)
  <2>1. JobGood(n, j)
    BY <1>2 DEF GoodJobs
  <2>2. JobGood(n, e)
    BY <1>5, <2>1 DEF JobGood
  <2> QED
    BY <1>5, <2>2 DEF GoodJobs
<1>7. /\ JobsGood' /\ \A m \in Peer \ {n} : jobs'[m] = jobs[m]
      /\ Progress(jobs'[n]) = IF e.kind = "file" /\ e.pc # "stat" THEN e.off ELSE 0
  <2>1. \A m \in Peer : GoodJobs(m)' = GoodJobs(m)
    BY <1>1, StillGood
  <2>2. JobsGood /\ jobs \in [Peer -> Seq(Job(Vector))]
    BY Types DEF PairInv
  <2> QED
    BY <1>2, <1>3, <1>6, <2>1, <2>2, JobsMove
<1>8. Progress(jobs'[n]) = Progress(jobs[n])
  <2>1. Progress(jobs[n]) = 0
    BY <1>2 DEF Progress, Begun
  <2>2. j.kind = "file" => j.off = 0
    BY <1>2 DEF GoodJobs, JobGood
  <2> QED
    BY <1>5, <1>7, <2>1, <2>2
<1>9. RowsGood'
  <2>1. ASSUME NEW k \in Peer, NEW m \in Peer \ {k}, Flows(k, m) PROVE Flows(k, m)'
    <3>1. Progress(jobs'[m]) = Progress(jobs[m])
      BY <1>7, <1>8
    <3> QED
      BY <1>1, <2>1, <3>1, FlowsSame
  <2> QED
    BY <1>1, <2>1, RowsStay DEF PairInv
<1>10. CopiesGood' /\ TablesGood' /\ QueuesGood'
  BY <1>1, RestStays
<1> QED
  BY <1>1, <1>7, <1>9, <1>10, CalmStays DEF PairInv

LEMMA TreeInfoKeeps ==
    ASSUME PairInv, TypeOK', TwoPeers, Patient, NEW n \in Peer, ~SomeOpen, TreeInfo(n)
    PROVE  PairInv'
<1> DEFINE j == Head(jobs[n])
           msg == [type |-> "info", v |-> version[n], size |-> j.size]
<1>1. UNCHANGED <<version, content, handle, down, subscribed, pending, up, wire>>
  BY DEF TreeInfo, files
<1>2. jobs[n] # <<>> /\ j \in GoodJobs(n) /\ j \in TreeJobs /\ j.kind = "tree" /\ j.pc = "loop"
  <2>1. jobs[n] # <<>> /\ j.kind = "tree" /\ j.pc = "loop" /\ jobs[n] \in Seq(GoodJobs(n))
    BY DEF TreeInfo, Running, PairInv, JobsGood
  <2>2. j \in GoodJobs(n)
    BY <2>1, Popped
  <2> QED
    BY <2>1, <2>2 DEF GoodJobs, Job, FileJobs
<1>3. PICK m \in Peer \ {n} : m = j.to
  BY <1>2 DEF GoodJobs, JobGood, TreeJobs
<1>4. Finish(n) /\ out' = Sent(n, m, PrioSync, msg)
  <2>1. Connected(n, m)
    BY <1>3, AllConnected DEF PairInv
  <2>2. Finish(n) /\ out' = Post(n, m, PrioSync, msg)
    BY <1>3 DEF TreeInfo
  <2> QED
    BY <2>1, <2>2, Zenon DEF Post
<1>5. msg \in OnLevel(m, n, PrioSync)
  <2>1. msg \in Message(Vector) /\ msg.type = "info" /\ msg.v = version[n] /\ msg.size = j.size
    <3>1. j.size \in Nat /\ version[n] \in Vector
      BY <1>2, Types DEF TreeJobs, PairInv
    <3> HIDE DEF j
    <3> QED
      BY <3>1 DEF Message
  <2>2. Told(m, n, version[n], j.size)
    <3>1. Leq(version[n], version[n])
      BY Types, OrderLaws DEF PairInv
    <3>2. Ahead(m, n) => j.size = Len(content[n])
      BY <1>2, <1>3 DEF GoodJobs, JobGood
    <3> QED
      BY <3>1, <3>2 DEF Told
  <2> HIDE DEF msg, j
  <2>3. MessageGood(m, n, msg)
    BY <2>1, <2>2 DEF MessageGood
  <2> QED
    BY <2>1, <2>3 DEF OnLevel, GoodMessages, PrioSync, PrioXfer
<1>6. /\ JobsGood' /\ \A k \in Peer \ {n} : jobs'[k] = jobs[k]
      /\ Progress(jobs'[n]) = 0 /\ Progress(jobs[n]) = 0
  <2>1. \A k \in Peer : GoodJobs(k)' = GoodJobs(k)
    BY <1>1, StillGood
  <2>2. JobsGood /\ jobs \in [Peer -> Seq(Job(Vector))]
    BY Types DEF PairInv
  <2>3. Progress(jobs[n]) = 0
    BY <1>2 DEF Progress, Begun
  <2> QED
    BY <1>2, <1>4, <2>1, <2>2, <2>3, JobsMove
<1> HIDE DEF msg
<1>7. /\ QueuesGood'
      /\ \A k \in Peer : \A l \in Peer \ {k} : out'[<<k, l>>][PrioXfer] = out[<<k, l>>][PrioXfer]
  <2>1. \A k, l : GoodMessages(k, l)' = GoodMessages(k, l)
    BY <1>1, StillGood
  <2>2. msg \in OnLevel(m, n, PrioSync)'
    BY <1>5, <2>1 DEF OnLevel
  <2>3. QueuesGood /\ out \in [Link -> [Prio -> Seq(Message(Vector))]]
    BY Types DEF PairInv
  <2>4. \A k \in Peer : \A l \in Peer \ {k} : GoodMessages(k, l) \subseteq GoodMessages(k, l)'
    BY <2>1
  <2>5. PICK p \in Prio : p = PrioSync /\ p # PrioXfer
    BY DEF Prio, PrioSync, PrioXfer
  <2>6. out' = Sent(n, m, p, msg) /\ msg \in OnLevel(m, n, p)' /\ wire' = wire /\ n # m /\ m \in Peer
    BY <1>1, <1>3, <1>4, <2>2, <2>5
  <2>7. QueuesGood'
    BY <2>3, <2>4, <2>6, SentGood, Zenon
  <2>8. \A k \in Peer : \A l \in Peer \ {k} : out'[<<k, l>>][PrioXfer] = out[<<k, l>>][PrioXfer]
    BY <2>3, <2>5, <2>6, BlocksSame
  <2> QED
    BY <2>7, <2>8
<1>8. RowsGood'
  <2>1. ASSUME NEW k \in Peer, NEW l \in Peer \ {k}, Flows(k, l) PROVE Flows(k, l)'
    <3>1. Progress(jobs'[l]) = Progress(jobs[l])
      BY <1>6
    <3>2. out'[<<l, k>>][PrioXfer] = out[<<l, k>>][PrioXfer]
      BY <1>7
    <3> QED
      BY <1>1, <2>1, <3>1, <3>2, FlowsSame
  <2> QED
    BY <1>1, <2>1, RowsStay DEF PairInv
<1> QED
  BY <1>1, <1>6, <1>7, <1>8, RestStays, CalmStays DEF PairInv

LEMMA FileCheckKeeps ==
    ASSUME PairInv, TypeOK', TwoPeers, Patient, NEW n \in Peer, ~SomeOpen, FileCheck(n)
    PROVE  PairInv'
<1> DEFINE j == Head(jobs[n])
           e == [j EXCEPT !.pc = "read"]
<1>1. UNCHANGED <<version, content, handle, down, subscribed, pending, up, out, wire>>
  BY DEF FileCheck, files
<1>2. jobs[n] # <<>> /\ j \in GoodJobs(n) /\ j \in FileJobs(Vector) /\ j.kind = "file" /\ j.pc = "loop"
  <2>1. jobs[n] # <<>> /\ j.kind = "file" /\ j.pc = "loop" /\ jobs[n] \in Seq(GoodJobs(n))
    BY DEF FileCheck, Running, PairInv, JobsGood
  <2>2. j \in GoodJobs(n)
    BY <2>1, Popped
  <2> QED
    BY <2>1, <2>2 DEF GoodJobs, Job, TreeJobs
<1>3. Progress(jobs[n]) = j.off
  BY <1>2 DEF Progress, Begun
<1>4. /\ e \in Job(Vector) /\ e.to = j.to /\ e.size = j.size /\ e.pc = "read" /\ e.kind = "file"
      /\ e.v = j.v /\ e.off = j.off
  <2> HIDE DEF j
  <2> QED
    BY <1>2 DEF FileJobs, Job
<1>5. JobsGood /\ jobs \in [Peer -> Seq(Job(Vector))] /\ \A m \in Peer : GoodJobs(m)' = GoodJobs(m)
  BY <1>1, Types, StillGood DEF PairInv
<1>6. CASE j.off < j.size /\ VersionStands(n, j)
  <2>1. Continue(n, e)
    BY <1>6 DEF FileCheck
  <2> HIDE DEF e
  <2>2. e \in GoodJobs(n)
    <3>1. JobGood(n, e)
      BY <1>2, <1>4, <1>6 DEF GoodJobs, JobGood
    <3> QED
      BY <1>4, <3>1 DEF GoodJobs
  <2>3. /\ JobsGood' /\ \A m \in Peer \ {n} : jobs'[m] = jobs[m]
        /\ Progress(jobs'[n]) = j.off
    BY <1>2, <1>4, <1>5, <2>1, <2>2, JobsMove
  <2>4. RowsGood'
    <3>1. ASSUME NEW k \in Peer, NEW m \in Peer \ {k}, Flows(k, m) PROVE Flows(k, m)'
      <4>1. Progress(jobs'[m]) = Progress(jobs[m])
        BY <1>3, <2>3
      <4> QED
        BY <1>1, <3>1, <4>1, FlowsSame
    <3> QED
      BY <1>1, <3>1, RowsStay DEF PairInv
  <2> QED
    BY <1>1, <2>3, <2>4, RestStays, CalmStays DEF PairInv
<1>7. CASE ~(j.off < j.size /\ VersionStands(n, j))
  <2>1. Finish(n)
    BY <1>7 DEF FileCheck
  <2>2. /\ JobsGood' /\ \A m \in Peer \ {n} : jobs'[m] = jobs[m]
        /\ Progress(jobs'[n]) = 0
    BY <1>2, <1>5, <2>1, JobsMove
  <2>3. RowsGood'
    <3>1. ASSUME NEW k \in Peer, NEW m \in Peer \ {k}, Loading(k, m), Flows(k, m) PROVE Flows(k, m)'
      <4>1. CASE m # n
        BY <1>1, <2>2, <3>1, <4>1, FlowsSame
      <4>2. CASE m = n
        <5>1. k = j.to
          BY <1>2, <4>2 DEF TwoPeers, GoodJobs, JobGood, FileJobs
        <5>2. Ahead(k, n)
          BY <3>1, <4>2 DEF Loading
        <5>3. j.v = version[n] /\ j.size = Len(content[n])
          BY <1>2, <5>1, <5>2 DEF GoodJobs, JobGood, Asked
        <5>4. VersionStands(n, j)
          BY <5>3, Types, VectorOrder DEF VersionStands, PairInv
        <5>5. ~(j.off < Len(content[n])) /\ j.off \in Nat /\ Len(content[n]) \in Nat
          <6>1. j.off \in Nat /\ content[n] \in Seq(Block)
            BY <1>2, Types DEF FileJobs, PairInv
          <6> QED
            BY <1>7, <5>3, <5>4, <6>1
        <5>6. PICK x \in Nat, y \in Nat :
                /\ Stream(wire[<<n, k>>], down[k][n].recd, x, Len(content[n]))
                /\ Stream(out[<<n, k>>][PrioXfer], x, y, Len(content[n]))
                /\ y < Len(content[n]) => y = j.off
          BY <1>3, <3>1, <4>2 DEF Flows, Flow
        <5>7. ~(y < Len(content[n]))
          BY <5>5, <5>6
        <5> QED
          BY <1>1, <4>2, <5>6, <5>7 DEF Flows, Flow
      <4> QED
        BY <4>1, <4>2
    <3> QED
      BY <1>1, <3>1, RowsStay DEF PairInv
  <2> QED
    BY <1>1, <2>2, <2>3, RestStays, CalmStays DEF PairInv
<1> QED
  BY <1>6, <1>7

LEMMA FileReadKeeps ==
    ASSUME PairInv, TypeOK', TwoPeers, Patient, NEW n \in Peer, ~SomeOpen, FileRead(n)
    PROVE  PairInv'
<1> DEFINE j == Head(jobs[n])
           data == IF j.off < Len(content[n]) THEN <<content[n][j.off + 1]>> ELSE <<>>
           msg == [type |-> "chunk", tx |-> j.tx, off |-> j.off, data |-> data, v |-> j.v]
           e == [j EXCEPT !.off = j.off + Len(data), !.pc = "loop"]
<1>1. UNCHANGED <<version, content, handle, down, subscribed, pending, up, wire>>
  BY DEF FileRead, files
<1>2. jobs[n] # <<>> /\ j \in GoodJobs(n) /\ j \in FileJobs(Vector) /\ j.kind = "file" /\ j.pc = "read"
  <2>1. jobs[n] # <<>> /\ j.kind = "file" /\ j.pc = "read" /\ jobs[n] \in Seq(GoodJobs(n))
    BY DEF FileRead, Running, PairInv, JobsGood
  <2>2. j \in GoodJobs(n)
    BY <2>1, Popped
  <2> QED
    BY <2>1, <2>2 DEF GoodJobs, Job, TreeJobs
<1>3. Progress(jobs[n]) = j.off
  BY <1>2 DEF Progress, Begun
<1>4. PICK m \in Peer \ {n} : m = j.to
  BY <1>2 DEF GoodJobs, JobGood, FileJobs
<1>5. out' = Sent(n, m, PrioXfer, msg) /\ Continue(n, e)
  <2>1. Connected(n, m) /\ HasRows(n)
    BY <1>4, AllConnected DEF PairInv, Calm, HasRows
  <2> QED
    BY <1>4, <2>1 DEF FileRead
<1>6. data \in Seq(Block) /\ j.off \in Nat /\ Len(data) \in Nat
  <2>1. content[n] \in Seq(Block) /\ j.off \in Nat
    BY <1>2, Types DEF FileJobs, PairInv
  <2> HIDE DEF j
  <2>2. j.off < Len(content[n]) => content[n][j.off + 1] \in Block
    <3>1. PICK k \in Nat : k = Len(content[n])
      BY <2>1
    <3>2. j.off < k => j.off + 1 \in 1 .. k
      BY <2>1, <3>1
    <3> QED
      BY <2>1, <3>1, <3>2
  <2> QED
    BY <2>1, <2>2
<1>7. /\ Ahead(m, n) => /\ Started(m, n) /\ j.off < Len(content[n]) /\ data = <<content[n][j.off + 1]>>
                        /\ Len(data) = 1
      /\ Asked(m, n, j.v)
      /\ Ahead(m, n) => j.size = Len(content[n])
  <2>1. Asked(m, n, j.v) /\ j.off < j.size /\ (Ahead(m, n) => j.size = Len(content[n]))
    BY <1>2, <1>4 DEF GoodJobs, JobGood
  <2> QED
    BY <2>1 DEF Asked
<1> HIDE DEF data
<1>8. msg.type = "chunk" /\ msg \in OnLevel(m, n, PrioXfer) /\ msg.off = j.off
  <2>1. msg \in Message(Vector) /\ msg.type = "chunk" /\ msg.off = j.off /\ msg.data = data
    <3>1. j.v \in Vector /\ j.tx \in Nat
      BY <1>2 DEF FileJobs
    <3> HIDE DEF j
    <3> QED
      BY <1>6, <3>1 DEF Message
  <2> HIDE DEF msg, j
  <2>2. MessageGood(m, n, msg)
    BY <1>7, <2>1 DEF MessageGood, Block1
  <2> QED
    BY <2>1, <2>2 DEF OnLevel, GoodMessages
<1> HIDE DEF msg
<1>9. /\ e \in Job(Vector) /\ e.to = m /\ e.size = j.size /\ e.pc = "loop" /\ e.kind = "file"
      /\ e.v = j.v /\ e.off = j.off + Len(data)
  <2>1. PICK o \in Nat : o = j.off + Len(data)
    BY <1>6
  <2> HIDE DEF j
  <2> QED
    BY <1>2, <1>4, <2>1 DEF FileJobs, Job
<1> HIDE DEF e
<1>10. e \in GoodJobs(n)
  <2>1. JobGood(n, e)
    BY <1>7, <1>9, <1>4 DEF JobGood
  <2> QED
    BY <1>9, <2>1 DEF GoodJobs
<1>11. \A k, l : GoodMessages(k, l)' = GoodMessages(k, l) /\ GoodJobs(k)' = GoodJobs(k)
  BY <1>1, StillGood
<1>12. /\ JobsGood' /\ \A k \in Peer \ {n} : jobs'[k] = jobs[k]
       /\ Progress(jobs'[n]) = j.off + Len(data)
  <2>1. JobsGood /\ jobs \in [Peer -> Seq(Job(Vector))]
    BY Types DEF PairInv
  <2> QED
    BY <1>2, <1>5, <1>9, <1>10, <1>11, <2>1, JobsMove
<1>13. QueuesGood /\ out \in [Link -> [Prio -> Seq(Message(Vector))]] /\ PrioXfer \in Prio
  BY Types DEF PairInv, Prio
<1>14. QueuesGood'
  <2>1. msg \in OnLevel(m, n, PrioXfer)'
    BY <1>8, <1>11 DEF OnLevel
  <2>2. \A k \in Peer : \A l \in Peer \ {k} : GoodMessages(k, l) \subseteq GoodMessages(k, l)'
    BY <1>11
  <2>3. wire' = wire /\ n # m /\ m \in Peer
    BY <1>1, <1>4
  <2> QED
    BY <1>5, <1>13, <2>1, <2>2, <2>3, SentGood, Zenon
<1>15. /\ out'[<<n, m>>][PrioXfer] = Append(out[<<n, m>>][PrioXfer], msg)
       /\ \A l \in Link \ {<<n, m>>} : out'[l] = out[l]
  BY <1>4, <1>5, <1>13, SentTo, SMTT(30)
<1>16. ASSUME NEW k \in Peer, NEW l \in Peer \ {k}, Loading(k, l), Flows(k, l) PROVE Flows(k, l)'
  <2>1. CASE l # n
    <3>1. <<l, k>> \in Link \ {<<n, m>>}
      BY <2>1, Links
    <3> QED
      BY <1>1, <1>12, <1>15, <1>16, <2>1, <3>1, FlowsSame
  <2>2. CASE l = n
    <3>1. k = m
      BY <1>4, <2>2 DEF TwoPeers
    <3>2. Len(data) = 1 /\ j.off < Len(content[n])
      BY <1>7, <1>16, <2>2, <3>1 DEF Loading
    <3>3. PICK size \in Nat : size = Len(content[n])
      BY Types DEF PairInv
    <3>4. PICK x \in Nat, y \in Nat :
            /\ Stream(wire[<<n, m>>], down[m][n].recd, x, size)
            /\ Stream(out[<<n, m>>][PrioXfer], x, y, size)
            /\ y < size => y = j.off
      BY <1>3, <1>16, <2>2, <3>1, <3>3 DEF Flows, Flow
    <3>5. Blocks(msg) = 1
      BY <1>8 DEF Blocks
    <3>6. Stream(out'[<<n, m>>][PrioXfer], x, y + 1, size)
      <4>1. out[<<n, m>>][PrioXfer] \in Seq(Message(Vector)) /\ msg \in Message(Vector)
        <5>1. <<n, m>> \in Link
          BY <1>4, Links
        <5> QED
          BY <1>8, <1>13, <5>1 DEF OnLevel, GoodMessages
      <4>2. msg.type = "chunk" /\ y < size => msg.off = y
        BY <1>8, <3>4
      <4>3. Stream(Append(out[<<n, m>>][PrioXfer], msg), x, y + Blocks(msg), size)
        BY <3>4, <4>1, <4>2, StreamAppend
      <4> QED
        BY <1>15, <3>5, <4>3
    <3>7. y + 1 < size => y + 1 = j.off + Len(data)
      BY <3>2, <3>3, <3>4
    <3>8. Flow(wire[<<n, m>>], out'[<<n, m>>][PrioXfer], down[m][n].recd, size, j.off + Len(data))
      <4>1. y + 1 \in Nat
        OBVIOUS
      <4> QED
        BY <3>4, <3>6, <3>7, <4>1 DEF Flow
    <3> QED
      BY <1>1, <1>12, <2>2, <3>1, <3>3, <3>8 DEF Flows
  <2> QED
    BY <2>1, <2>2
<1>17. RowsGood'
  BY <1>1, <1>16, RowsStay DEF PairInv
<1> QED
  BY <1>1, <1>12, <1>14, <1>17, RestStays, CalmStays DEF PairInv

LEMMA TreeJobGood ==
    ASSUME NEW n \in Peer, NEW m \in Peer, n # m
    PROVE  TreeJob(m) \in GoodJobs(n) /\ TreeJob(m).pc = "stat"
<1>1. TreeJob(m) \in Job(Vector) /\ TreeJob(m).to = m /\ TreeJob(m).kind = "tree" /\ TreeJob(m).pc = "stat"
  BY DEF TreeJob, Job, TreeJobs
<1>2. JobGood(n, TreeJob(m))
  BY <1>1 DEF JobGood
<1> QED
  BY <1>1, <1>2 DEF GoodJobs

LEMMA StartSyncKeeps ==
    ASSUME PairInv, TypeOK', Patient, NEW n \in Peer, NEW m \in Peer, n # m, ~SomeOpen, StartSync(n, m)
    PROVE  PairInv'
<1> DEFINE msg == [type |-> "tree"]
<1>1. UNCHANGED <<version, content, handle, down, subscribed, pending, up, wire>>
  BY DEF StartSync, files
<1>2. Enqueue(n, TreeJob(m)) /\ out' = Sent(n, m, PrioNow, msg)
  BY DEF StartSync
<1>3. \A k, l : GoodMessages(k, l)' = GoodMessages(k, l) /\ GoodJobs(k)' = GoodJobs(k)
  BY <1>1, StillGood
<1>4. /\ JobsGood' /\ \A k \in Peer \ {n} : jobs'[k] = jobs[k]
      /\ Progress(jobs'[n]) = Progress(jobs[n])
  <2>1. JobsGood /\ jobs \in [Peer -> Seq(Job(Vector))]
    BY Types DEF PairInv
  <2> QED
    BY <1>2, <1>3, <2>1, TreeJobGood, JobsMove
<1>5. QueuesGood /\ out \in [Link -> [Prio -> Seq(Message(Vector))]]
  BY Types DEF PairInv
<1>6. PICK p \in Prio \ {PrioXfer} : p = PrioNow
  BY DEF Prio, PrioNow, PrioXfer
<1>7. msg \in OnLevel(m, n, p)'
  <2>1. msg \in Message(Vector) /\ msg.type = "tree"
    BY DEF Message
  <2> HIDE DEF msg
  <2>2. MessageGood(m, n, msg)
    BY <2>1 DEF MessageGood
  <2>3. msg \in GoodMessages(m, n)'
    BY <1>3, <2>1, <2>2 DEF GoodMessages
  <2> QED
    BY <1>6, <2>1, <2>3 DEF OnLevel
<1> HIDE DEF msg
<1>8. QueuesGood'
  <2>1. \A k \in Peer : \A l \in Peer \ {k} : GoodMessages(k, l) \subseteq GoodMessages(k, l)'
    BY <1>3
  <2>2. out' = Sent(n, m, p, msg) /\ wire' = wire /\ p \in Prio
    BY <1>1, <1>2, <1>6
  <2> QED
    BY <1>5, <1>7, <2>1, <2>2, SentGood, Zenon
<1>9. RowsGood'
  <2>1. ASSUME NEW k \in Peer, NEW l \in Peer \ {k}, Flows(k, l) PROVE Flows(k, l)'
    <3>1. Progress(jobs'[l]) = Progress(jobs[l])
      BY <1>4
    <3>2. out'[<<l, k>>][PrioXfer] = out[<<l, k>>][PrioXfer]
      BY <1>2, <1>5, <1>6, BlocksSame
    <3> QED
      BY <1>1, <2>1, <3>1, <3>2, FlowsSame
  <2> QED
    BY <1>1, <2>1, RowsStay DEF PairInv
<1> QED
  BY <1>1, <1>4, <1>8, <1>9, RestStays, CalmStays DEF PairInv

\* n's worker takes a message of m.
LEMMA Consumed ==
    ASSUME QueuesGood, wire \in [Link -> Seq(Message(Vector))],
           \A k \in Peer : \A l \in Peer \ {k} : GoodMessages(k, l) \subseteq GoodMessages(k, l)',
           NEW n \in Peer, NEW m \in Peer, n # m, wire[<<m, n>>] # <<>>, Consume(n, m), out' = out
    PROVE  /\ QueuesGood'
           /\ Head(wire[<<m, n>>]) \in GoodMessages(n, m)
           /\ wire'[<<m, n>>] = Tail(wire[<<m, n>>])
           /\ \A l \in Link \ {<<m, n>>} : wire'[l] = wire[l]
<1>1. <<m, n>> \in Link
  BY Links
<1>2. wire'[<<m, n>>] = Tail(wire[<<m, n>>]) /\ \A l \in Link \ {<<m, n>>} : wire'[l] = wire[l]
  BY <1>1 DEF Consume
<1>3. wire[<<m, n>>] \in Seq(GoodMessages(n, m))
  BY DEF QueuesGood
<1>4. Head(wire[<<m, n>>]) \in GoodMessages(n, m) /\ Tail(wire[<<m, n>>]) \in Seq(GoodMessages(n, m))
  BY <1>3, Popped
<1>5. ASSUME NEW k \in Peer, NEW l \in Peer \ {k}
      PROVE  /\ wire'[<<l, k>>] \in Seq(GoodMessages(k, l)')
             /\ \A q \in Prio : out'[<<l, k>>][q] \in Seq(OnLevel(k, l, q)')
  <2>1. GoodMessages(k, l) \subseteq GoodMessages(k, l)'
    OBVIOUS
  <2>2. ASSUME NEW q \in Prio PROVE out'[<<l, k>>][q] \in Seq(OnLevel(k, l, q)')
    <3>1. OnLevel(k, l, q) \subseteq OnLevel(k, l, q)'
      BY <2>1 DEF OnLevel
    <3> QED
      BY <3>1, SeqGrows DEF QueuesGood
  <2>3. wire'[<<l, k>>] \in Seq(GoodMessages(k, l))
    <3>1. CASE <<l, k>> = <<m, n>>
      BY <1>2, <1>4, <3>1
    <3>2. CASE <<l, k>> # <<m, n>>
      <4>1. wire'[<<l, k>>] = wire[<<l, k>>]
        BY <1>2, <3>2, Links
      <4> QED
        BY <4>1 DEF QueuesGood
    <3> QED
      BY <3>1, <3>2
  <2>4. wire'[<<l, k>>] \in Seq(GoodMessages(k, l)')
    BY <2>1, <2>3, SeqGrows
  <2> QED
    BY <2>2, <2>4
<1> QED
  BY <1>2, <1>4, <1>5 DEF QueuesGood

\* A message that is no block leaves the flows as they are.
LEMMA FlowsPass ==
    ASSUME UNCHANGED <<content, down, out>>, TypeOK,
           NEW n \in Peer, NEW m \in Peer, n # m, wire[<<m, n>>] # <<>>, Consume(n, m),
           Head(wire[<<m, n>>]).type # "chunk",
           NEW k \in Peer, NEW l \in Peer, k # l, Progress(jobs'[l]) = Progress(jobs[l]), Flows(k, l)
    PROVE  Flows(k, l)'
<1>1. <<m, n>> \in Link /\ <<l, k>> \in Link /\ wire \in [Link -> Seq(Message(Vector))]
  BY Links, Types
<1>2. wire'[<<m, n>>] = Tail(wire[<<m, n>>]) /\ \A i \in Link \ {<<m, n>>} : wire'[i] = wire[i]
  BY <1>1 DEF Consume
<1>3. CASE <<l, k>> # <<m, n>>
  BY <1>1, <1>2, <1>3, FlowsSame
<1>4. CASE <<l, k>> = <<m, n>>
  <2>1. PICK size \in Nat : size = Len(content[m])
    BY Types
  <2>2. PICK x \in Nat, y \in Nat :
          /\ Stream(wire[<<m, n>>], down[n][m].recd, x, size)
          /\ Stream(out[<<m, n>>][PrioXfer], x, y, size)
          /\ y < size => y = Progress(jobs[m])
    BY <1>4, <2>1 DEF Flows, Flow
  <2>3. down[n][m].recd \in Nat => Stream(Tail(wire[<<m, n>>]), down[n][m].recd, x, size)
    <3>1. Blocks(Head(wire[<<m, n>>])) = 0
      BY DEF Blocks
    <3>2. wire[<<m, n>>] \in Seq(Message(Vector))
      BY <1>1
    <3>3. ASSUME NEW r \in Nat, r = down[n][m].recd PROVE Stream(Tail(wire[<<m, n>>]), r, x, size)
      <4>1. Stream(Tail(wire[<<m, n>>]), r + Blocks(Head(wire[<<m, n>>])), x, size)
        BY <2>2, <3>2, <3>3, StreamTail
      <4> QED
        BY <3>1, <4>1
    <3> QED
      BY <3>3
  <2>4. down[n][m].recd \in Nat
    <3> DEFINE q == wire[<<m, n>>]
    <3>0. q \in Seq(Message(Vector))
      BY <1>1
    <3> HIDE DEF q
    <3>1. PICK i \in Nat : i = Len(q)
      <4>1. Len(q) \in Nat
        BY <3>0, LenProperties
      <4> QED
        BY <4>1, Zenon
    <3> USE DEF q
    <3>2. PICK c \in [0 .. i -> Nat] : c[0] = down[n][m].recd
      BY <2>2, <3>1 DEF Stream
    <3> QED
      BY <3>2
  <2>5. Flow(wire'[<<m, n>>], out[<<m, n>>][PrioXfer], down[n][m].recd, size, Progress(jobs[m]))
    BY <1>2, <2>2, <2>3, <2>4 DEF Flow
  <2> QED
    BY <1>4, <2>1, <2>5 DEF Flows
<1> QED
  BY <1>3, <1>4

LEMMA HandleTreeKeeps ==
    ASSUME PairInv, TypeOK', NEW n \in Peer, NEW m \in Peer, n # m, ~SomeOpen, HandleTree(n, m)
    PROVE  PairInv'
<1>1. UNCHANGED <<version, content, handle, down, subscribed, pending, up, out>>
  BY DEF HandleTree, files
<1>2. /\ wire[<<m, n>>] # <<>> /\ Head(wire[<<m, n>>]).type = "tree"
      /\ Consume(n, m) /\ Enqueue(n, TreeJob(m))
  BY DEF HandleTree, Arrived
<1>3. \A k, l : GoodMessages(k, l)' = GoodMessages(k, l) /\ GoodJobs(k)' = GoodJobs(k)
  BY <1>1, StillGood
<1>4. /\ JobsGood' /\ \A k \in Peer \ {n} : jobs'[k] = jobs[k]
      /\ Progress(jobs'[n]) = Progress(jobs[n])
  <2>1. JobsGood /\ jobs \in [Peer -> Seq(Job(Vector))]
    BY Types DEF PairInv
  <2> QED
    BY <1>2, <1>3, <2>1, TreeJobGood, JobsMove
<1>5. QueuesGood'
  <2>1. QueuesGood /\ wire \in [Link -> Seq(Message(Vector))]
    BY Types DEF PairInv
  <2>2. \A k \in Peer : \A l \in Peer \ {k} : GoodMessages(k, l) \subseteq GoodMessages(k, l)'
    BY <1>3
  <2> QED
    BY <1>1, <1>2, <2>1, <2>2, Consumed
<1>6. RowsGood'
  <2>1. ASSUME NEW k \in Peer, NEW l \in Peer \ {k}, Flows(k, l) PROVE Flows(k, l)'
    <3>1. Progress(jobs'[l]) = Progress(jobs[l])
      BY <1>4
    <3> QED
      BY <1>1, <1>2, <2>1, <3>1, FlowsPass DEF PairInv
  <2> QED
    BY <1>1, <2>1, RowsStay DEF PairInv
<1> QED
  BY <1>1, <1>4, <1>5, <1>6, RestStays, CalmStays DEF PairInv

LEMMA HandleGetKeeps ==
    ASSUME PairInv, TypeOK', NEW n \in Peer, NEW m \in Peer, n # m, ~SomeOpen, HandleGet(n, m)
    PROVE  PairInv'
<1> DEFINE msg == Head(wire[<<m, n>>])
           e == FileJob(m, msg.v, msg.tx)
<1>1. UNCHANGED <<version, content, handle, down, subscribed, pending, up, out>>
  BY DEF HandleGet, files
<1>2. wire[<<m, n>>] # <<>> /\ msg.type = "get" /\ Consume(n, m) /\ Enqueue(n, e)
  BY DEF HandleGet, Arrived
<1>3. \A k, l : GoodMessages(k, l)' = GoodMessages(k, l) /\ GoodJobs(k)' = GoodJobs(k)
  BY <1>1, StillGood
<1>4. QueuesGood' /\ msg \in GoodMessages(n, m)
  <2>1. QueuesGood /\ wire \in [Link -> Seq(Message(Vector))]
    BY Types DEF PairInv
  <2>2. \A k \in Peer : \A l \in Peer \ {k} : GoodMessages(k, l) \subseteq GoodMessages(k, l)'
    BY <1>3
  <2> QED
    BY <1>1, <1>2, <2>1, <2>2, Consumed
<1>5. e \in GoodJobs(n) /\ e.pc = "stat"
  <2>1. msg.v \in Vector /\ msg.tx \in Nat /\ Asked(m, n, msg.v)
    <3> HIDE DEF msg
    <3>1. msg \in Message(Vector) /\ MessageGood(n, m, msg)
      BY <1>4 DEF GoodMessages
    <3> QED
      BY <1>2, <3>1 DEF Message, MessageGood
  <2> HIDE DEF msg
  <2>2. /\ e \in Job(Vector) /\ e.to = m /\ e.kind = "file" /\ e.pc = "stat" /\ e.off = 0
        /\ e.v = msg.v
    BY <2>1 DEF FileJob, Job, FileJobs
  <2> HIDE DEF e
  <2>3. JobGood(n, e)
    BY <2>1, <2>2 DEF JobGood
  <2> QED
    BY <2>2, <2>3 DEF GoodJobs
<1> HIDE DEF e
<1>6. /\ JobsGood' /\ \A k \in Peer \ {n} : jobs'[k] = jobs[k]
      /\ Progress(jobs'[n]) = Progress(jobs[n])
  <2>1. JobsGood /\ jobs \in [Peer -> Seq(Job(Vector))]
    BY Types DEF PairInv
  <2> QED
    BY <1>2, <1>3, <1>5, <2>1, JobsMove
<1>7. RowsGood'
  <2>1. ASSUME NEW k \in Peer, NEW l \in Peer \ {k}, Flows(k, l) PROVE Flows(k, l)'
    <3>1. Progress(jobs'[l]) = Progress(jobs[l])
      BY <1>6
    <3> QED
      BY <1>1, <1>2, <2>1, <3>1, FlowsPass DEF PairInv
  <2> QED
    BY <1>1, <2>1, RowsStay DEF PairInv
<1> QED
  BY <1>1, <1>4, <1>6, <1>7, RestStays, CalmStays DEF PairInv

LEMMA HandleInfoKeeps ==
    ASSUME PairInv, TypeOK', NEW n \in Peer, NEW m \in Peer, n # m, ~SomeOpen, HandleInfo(n, m)
    PROVE  PairInv'
<1> DEFINE msg == Head(wire[<<m, n>>])
<1>1. UNCHANGED <<version, content, handle, down, subscribed, jobs, up, out>>
  BY DEF HandleInfo, files
<1>2. /\ wire[<<m, n>>] # <<>> /\ msg.type = "info" /\ Consume(n, m)
      /\ \/ pending' = [pending EXCEPT ![n][m] = [v |-> msg.v, size |-> msg.size]]
         \/ pending' = pending
  BY DEF HandleInfo, Arrived
<1>3. \A k, l : GoodMessages(k, l)' = GoodMessages(k, l) /\ GoodJobs(k)' = GoodJobs(k)
  BY <1>1, StillGood
<1>4. QueuesGood' /\ msg \in GoodMessages(n, m)
  <2>1. QueuesGood /\ wire \in [Link -> Seq(Message(Vector))]
    BY Types DEF PairInv
  <2>2. \A k \in Peer : \A l \in Peer \ {k} : GoodMessages(k, l) \subseteq GoodMessages(k, l)'
    BY <1>3
  <2> QED
    BY <1>1, <1>2, <2>1, <2>2, Consumed
<1>5. Told(n, m, msg.v, msg.size)
  BY <1>2, <1>4 DEF GoodMessages, MessageGood
<1> HIDE DEF msg
<1>6. TablesGood'
  <2>1. ASSUME NEW k \in Peer, NEW l \in Peer \ {k}
        PROVE  /\ down'[k][l] # None => Leq(down'[k][l].v, version'[l])
               /\ pending'[k][l] # None => Told(k, l, pending'[k][l].v, pending'[k][l].size)
    <3>1. /\ down[k][l] # None => Leq(down[k][l].v, version[l])
          /\ pending[k][l] # None => Told(k, l, pending[k][l].v, pending[k][l].size)
      BY DEF PairInv, TablesGood
    <3>2. CASE k = n /\ l = m /\ pending' # pending
      <4>1. pending'[k][l] = [v |-> msg.v, size |-> msg.size]
        BY <1>2, <3>2, Types DEF PairInv
      <4> QED
        BY <1>1, <1>5, <3>1, <3>2, <4>1
    <3>3. CASE ~(k = n /\ l = m /\ pending' # pending)
      <4>1. pending'[k][l] = pending[k][l]
        BY <1>2, <3>3, Types DEF PairInv
      <4> QED
        BY <1>1, <3>1, <4>1
    <3> QED
      BY <3>2, <3>3
  <2>2. ASSUME NEW k \in Peer, NEW l \in Peer \ {k}
        PROVE  /\ (down[k][l] # None => Leq(down[k][l].v, version[l]))'
               /\ (pending[k][l] # None => Told(k, l, pending[k][l].v, pending[k][l].size))'
    <3>1. Told(k, l, pending[k][l].v, pending[k][l].size)' <=> Told(k, l, pending'[k][l].v, pending'[k][l].size)
      BY <1>1 DEF Told, Ahead
    <3> QED
      BY <2>1, <3>1
  <2> QED
    BY <2>2 DEF TablesGood
<1>7. RowsGood'
  <2>1. ASSUME NEW k \in Peer, NEW l \in Peer \ {k}, Flows(k, l) PROVE Flows(k, l)'
    BY <1>1, <1>2, <2>1, FlowsPass DEF PairInv, msg
  <2> QED
    BY <1>1, <2>1, RowsStay DEF PairInv
<1>8. JobsGood'
  <2>1. ASSUME NEW k \in Peer PROVE jobs'[k] \in Seq(GoodJobs(k)') /\ Waiting(jobs'[k])
    <3>1. GoodJobs(k)' = GoodJobs(k)
      BY <1>3
    <3> QED
      BY <1>1, <3>1 DEF PairInv, JobsGood
  <2> QED
    BY <2>1 DEF JobsGood
<1> QED
  BY <1>1, <1>4, <1>6, <1>7, <1>8, RestStays, CalmStays DEF PairInv

LEMMA JobsStay ==
    ASSUME JobsGood, jobs' = jobs, \A k \in Peer : GoodJobs(k) \subseteq GoodJobs(k)'
    PROVE  JobsGood'
<1>1. ASSUME NEW k \in Peer PROVE jobs'[k] \in Seq(GoodJobs(k)') /\ Waiting(jobs'[k])
  <2>1. GoodJobs(k) \subseteq GoodJobs(k)' /\ jobs[k] \in Seq(GoodJobs(k)) /\ Waiting(jobs[k])
    BY DEF JobsGood
  <2> QED
    BY <2>1, SeqGrows
<1> QED
  BY <1>1 DEF JobsGood

LEMMA ShoutKeeps ==
    ASSUME PairInv, TypeOK', NEW n \in Peer, NEW m \in Peer, n # m, ~SomeOpen, Shout(n, m)
    PROVE  PairInv'
<1> DEFINE i == <<n, m>>
<1>1. UNCHANGED <<version, content, handle, down, subscribed, pending, jobs, up>>
  BY DEF Shout, files
<1>2. /\ i \in Link /\ PrioXfer \in Prio
      /\ out \in [Link -> [Prio -> Seq(Message(Vector))]] /\ wire \in [Link -> Seq(Message(Vector))]
  BY Types, Links DEF PairInv, Prio
<1> HIDE DEF i
<1>3. PICK p \in Prio :
        /\ out[i][p] # <<>>
        /\ wire' = [wire EXCEPT ![i] = Append(@, Head(out[i][p]))]
        /\ out' = [out EXCEPT ![i][p] = Tail(@)]
  BY DEF Shout, i
<1>4. PICK h : h = Head(out[i][p])
  OBVIOUS
<1>5. /\ wire'[i] = Append(wire[i], h) /\ \A k \in Link \ {i} : wire'[k] = wire[k]
      /\ out'[i][p] = Tail(out[i][p]) /\ \A q \in Prio \ {p} : out'[i][q] = out[i][q]
      /\ \A k \in Link \ {i} : out'[k] = out[k]
  <2>1. wire'[i] = Append(wire[i], h) /\ \A k \in Link \ {i} : wire'[k] = wire[k]
    BY <1>2, <1>3, <1>4
  <2>2. out'[i][p] = Tail(out[i][p]) /\ \A q \in Prio \ {p} : out'[i][q] = out[i][q]
    BY <1>2, <1>3
  <2>3. \A k \in Link \ {i} : out'[k] = out[k]
    BY <1>2, <1>3
  <2> QED
    BY <2>1, <2>2, <2>3
<1>6. \A k, l : GoodMessages(k, l)' = GoodMessages(k, l) /\ GoodJobs(k)' = GoodJobs(k)
  BY <1>1, StillGood
<1>7. /\ wire[i] \in Seq(GoodMessages(m, n))
      /\ \A q \in Prio : out[i][q] \in Seq(OnLevel(m, n, q))
  BY DEF PairInv, QueuesGood, i
<1>8. h \in OnLevel(m, n, p) /\ Tail(out[i][p]) \in Seq(OnLevel(m, n, p))
  <2>1. out[i][p] \in Seq(OnLevel(m, n, p))
    BY <1>7
  <2> QED
    BY <1>3, <1>4, <2>1, Popped
<1>9. h \in GoodMessages(m, n) /\ h \in Message(Vector) /\ (h.type = "chunk" <=> p = PrioXfer)
  BY <1>8 DEF OnLevel, GoodMessages
<1>10. QueuesGood'
  <2>1. ASSUME NEW k \in Peer, NEW l \in Peer \ {k}
        PROVE  /\ wire'[<<l, k>>] \in Seq(GoodMessages(k, l))
               /\ \A q \in Prio : out'[<<l, k>>][q] \in Seq(OnLevel(k, l, q))
    <3>1. CASE <<l, k>> = i
      <4>1. l = n /\ k = m
        BY <3>1 DEF i
      <4>2. wire'[i] \in Seq(GoodMessages(m, n))
        BY <1>5, <1>7, <1>9, Appended
      <4>3. ASSUME NEW q \in Prio PROVE out'[i][q] \in Seq(OnLevel(m, n, q))
        BY <1>5, <1>7, <1>8
      <4> QED
        BY <3>1, <4>1, <4>2, <4>3
    <3>2. CASE <<l, k>> # i
      <4>1. wire'[<<l, k>>] = wire[<<l, k>>] /\ out'[<<l, k>>] = out[<<l, k>>]
        BY <1>5, <3>2, Links
      <4> QED
        BY <4>1 DEF PairInv, QueuesGood
    <3> QED
      BY <3>1, <3>2
  <2>2. ASSUME NEW k \in Peer, NEW l \in Peer \ {k}
        PROVE  /\ wire'[<<l, k>>] \in Seq(GoodMessages(k, l)')
               /\ \A q \in Prio : out'[<<l, k>>][q] \in Seq(OnLevel(k, l, q)')
    <3>1. GoodMessages(k, l)' = GoodMessages(k, l) /\ \A q : OnLevel(k, l, q)' = OnLevel(k, l, q)
      BY <1>6 DEF OnLevel
    <3> QED
      BY <2>1, <3>1
  <2> QED
    BY <2>2 DEF QueuesGood
<1>11. ASSUME NEW k \in Peer, NEW l \in Peer \ {k}, Loading(k, l), Flows(k, l) PROVE Flows(k, l)'
  <2>1. CASE <<l, k>> # i
    <3>1. wire'[<<l, k>>] = wire[<<l, k>>] /\ out'[<<l, k>>] = out[<<l, k>>]
      BY <1>5, <2>1, Links
    <3> QED
      BY <1>1, <1>11, <3>1, FlowsSame
  <2>2. CASE <<l, k>> = i
    <3>1. l = n /\ k = m
      BY <2>2 DEF i
    <3>2. PICK size \in Nat, from \in Nat : size = Len(content[n]) /\ from = down[m][n].recd
      <4>1. down[m][n].recd \in Nat /\ Len(content[n]) \in Nat
        BY <1>11, <3>1, Types DEF PairInv, Loading, Started, Row
      <4> QED
        BY <4>1
    <3>3. PICK x \in Nat, y \in Nat :
            /\ Stream(wire[i], from, x, size)
            /\ Stream(out[i][PrioXfer], x, y, size)
            /\ y < size => y = Progress(jobs[n])
      BY <1>11, <2>2, <3>1, <3>2 DEF Flows, Flow
    <3>4. CASE p = PrioXfer
      <4>1. Blocks(h) = 1
        BY <1>9, <3>4 DEF Blocks
      <4>2. Stream(Tail(out[i][PrioXfer]), x + 1, y, size) /\ (x < size => h.off = x)
        <5>1. out[i][PrioXfer] \in Seq(Message(Vector)) /\ out[i][PrioXfer] # <<>>
          BY <1>2, <1>3, <3>4
        <5>2. Stream(Tail(out[i][PrioXfer]), x + Blocks(h), y, size) /\ (h.type = "chunk" /\ x < size => h.off = x)
          BY <1>4, <3>3, <3>4, <5>1, StreamTail
        <5> QED
          BY <1>9, <3>4, <4>1, <5>2
      <4>3. Stream(wire'[i], from, x + 1, size)
        <5>1. wire[i] \in Seq(Message(Vector))
          BY <1>2
        <5>2. Stream(Append(wire[i], h), from, x + Blocks(h), size)
          BY <1>9, <3>2, <3>3, <4>2, <5>1, StreamAppend
        <5> QED
          BY <1>5, <4>1, <5>2
      <4>4. x + 1 \in Nat /\ out'[i][PrioXfer] = Tail(out[i][PrioXfer])
        BY <1>5, <3>4
      <4>5. Flow(wire'[i], out'[i][PrioXfer], from, size, Progress(jobs[n]))
        BY <3>3, <4>2, <4>3, <4>4 DEF Flow
      <4> QED
        BY <1>1, <2>2, <3>1, <3>2, <4>5 DEF Flows
    <3>5. CASE p # PrioXfer
      <4>1. Blocks(h) = 0 /\ h.type # "chunk"
        BY <1>9, <3>5 DEF Blocks
      <4>2. Stream(wire'[i], from, x, size)
        <5>1. wire[i] \in Seq(Message(Vector))
          BY <1>2
        <5>2. Stream(Append(wire[i], h), from, x + Blocks(h), size)
          BY <1>9, <3>2, <3>3, <4>1, <5>1, StreamAppend
        <5> QED
          BY <1>5, <4>1, <5>2
      <4>3. out'[i][PrioXfer] = out[i][PrioXfer]
        BY <1>2, <1>5, <3>5
      <4>4. Flow(wire'[i], out'[i][PrioXfer], from, size, Progress(jobs[n]))
        BY <3>3, <4>2, <4>3 DEF Flow
      <4> QED
        BY <1>1, <2>2, <3>1, <3>2, <4>4 DEF Flows
    <3> QED
      BY <3>4, <3>5
  <2> QED
    BY <2>1, <2>2
<1>12. RowsGood'
  BY <1>1, <1>11, RowsStay DEF PairInv
<1>13. JobsGood'
  BY <1>1, <1>6, JobsStay DEF PairInv
<1> QED
  BY <1>1, <1>10, <1>12, <1>13, RestStays, CalmStays DEF PairInv

LEMMA RowThere == ASSUME NEW r \in Row(Vector) PROVE r # None
BY DEF Row, None

\* addDownload, for what is known of the sender's present version w.
LEMMA DownloadGood ==
    ASSUME NEW row \in Row(Vector) \cup {None}, NEW v \in Vector, NEW w \in Vector, NEW size \in Nat,
           Leq(v, w), row # None => Leq(row.v, w), NEW r, r = AddDownload(row, v, size)
    PROVE  /\ r \in Row(Vector) /\ Leq(r.v, w)
           /\ v = w => r.v = w
           /\ v = w /\ row # None /\ row.v = w => r = row
           /\ v = w /\ ~(row # None /\ row.v = w) => r.recd = 0 /\ r.size = size /\ Len(r.temp) = size
<1>1. r \in Row(Vector)
  BY DownloadTyped
<1>2. CASE row = None
  <2>1. r = NewRow(v, size)
    BY <1>2 DEF AddDownload
  <2>2. <<>> \in Seq(Block)
    OBVIOUS
  <2>3. r.v = v /\ r.recd = 0 /\ r.size = size /\ r.temp = Resize(<<>>, size)
    BY <2>1 DEF NewRow
  <2>4. Len(r.temp) = size
    BY <2>3 DEF Resize
  <2> QED
    BY <1>1, <1>2, <2>3, <2>4
<1>3. CASE row # None /\ Geq(row.v, v)
  <2>1. r = row /\ row.v \in Vector
    BY <1>3 DEF AddDownload, Row
  <2>2. v = w => row.v = w
    BY <1>3, <2>1, OrderLaws DEF Geq
  <2> QED
    BY <1>1, <1>3, <2>1, <2>2
<1>4. CASE row # None /\ ~Geq(row.v, v)
  <2>1. r = Restarted(row, v, size)
    BY <1>4 DEF AddDownload
  <2>2. r.v = v /\ r.recd = 0 /\ r.size = size /\ r.temp = Resize(row.temp, size)
    BY <2>1 DEF Restarted
  <2>3. Len(r.temp) = size
    BY <2>2 DEF Resize
  <2>4. ~(v = w /\ row.v = w)
    BY <1>4, OrderLaws DEF Geq
  <2> QED
    BY <1>1, <1>4, <2>2, <2>3, <2>4
<1> QED
  BY <1>2, <1>3, <1>4

\* What is good stays good while the copies stay and downloads go on.
LEMMA StartedGrows ==
    ASSUME UNCHANGED <<version, content>>,
           \A k \in Peer : \A l \in Peer \ {k} : Ahead(k, l) /\ Started(k, l) => Started(k, l)'
    PROVE  /\ \A k \in Peer : GoodJobs(k) \subseteq GoodJobs(k)'
           /\ \A k \in Peer : \A l \in Peer \ {k} : GoodMessages(k, l) \subseteq GoodMessages(k, l)'
<1>1. \A k, l : Ahead(k, l)' <=> Ahead(k, l)
  BY DEF Ahead
<1>2. \A k, l, v, size : Told(k, l, v, size)' <=> Told(k, l, v, size)
  BY <1>1 DEF Told
<1>3. ASSUME NEW k \in Peer, NEW l \in Peer \ {k}, NEW v, Asked(k, l, v) PROVE Asked(k, l, v)'
  BY <1>1, <1>3 DEF Asked
<1>4. ASSUME NEW k \in Peer, NEW j \in GoodJobs(k) PROVE j \in GoodJobs(k)'
  <2>1. j \in Job(Vector) /\ JobGood(k, j) /\ j.to \in Peer \ {k}
    BY <1>4 DEF GoodJobs, JobGood, Job, TreeJobs, FileJobs
  <2>2. JobGood(k, j)'
    <3>1. Asked(j.to, k, j.v) => Asked(j.to, k, j.v)'
      BY <1>3, <2>1
    <3> QED
      BY <1>1, <2>1, <3>1 DEF JobGood
  <2> QED
    BY <2>1, <2>2 DEF GoodJobs
<1>5. ASSUME NEW k \in Peer, NEW l \in Peer \ {k}, NEW msg \in GoodMessages(k, l)
      PROVE  msg \in GoodMessages(k, l)'
  <2>1. msg \in Message(Vector) /\ MessageGood(k, l, msg)
    BY <1>5 DEF GoodMessages
  <2>2. Block1(k, l, msg) => Block1(k, l, msg)'
    BY <1>1 DEF Block1
  <2>3. Asked(l, k, msg.v) => Asked(l, k, msg.v)'
    BY <1>3
  <2>4. MessageGood(k, l, msg)'
    BY <1>2, <2>1, <2>2, <2>3 DEF MessageGood
  <2> QED
    BY <2>1, <2>4 DEF GoodMessages
<1> QED
  BY <1>4, <1>5

\* While no download of m's copy has started, nothing of it is on its way.
LEMMA NothingFlows ==
    ASSUME TwoPeers, TypeOK, JobsGood, QueuesGood, NEW n \in Peer, NEW m \in Peer, n # m,
           Ahead(n, m), ~Started(n, m), NEW size \in Nat
    PROVE  Flow(wire[<<m, n>>], out[<<m, n>>][PrioXfer], 0, size, Progress(jobs[m]))
<1> DEFINE w == wire[<<m, n>>]
           o == out[<<m, n>>][PrioXfer]
<1>1. w \in Seq(GoodMessages(n, m)) /\ o \in Seq(OnLevel(n, m, PrioXfer))
  BY DEF QueuesGood, Prio
<1>2. \A msg \in GoodMessages(n, m) : msg.type # "chunk"
  BY DEF GoodMessages, MessageGood, Block1
<1>3. \A msg \in OnLevel(n, m, PrioXfer) : msg.type # "chunk"
  BY <1>2 DEF OnLevel
<1> HIDE DEF w, o
<1>4. Stream(w, 0, 0, size)
  <2>1. \A i \in 1 .. Len(w) : w[i] \in GoodMessages(n, m)
    BY <1>1
  <2>2. \A i \in 1 .. Len(w) : w[i].type # "chunk"
    BY <1>2, <2>1
  <2> QED
    BY <1>1, <2>2, StreamNone
<1>5. Stream(o, 0, 0, size)
  <2>1. \A i \in 1 .. Len(o) : o[i] \in OnLevel(n, m, PrioXfer)
    BY <1>1
  <2>2. \A i \in 1 .. Len(o) : o[i].type # "chunk"
    BY <1>3, <2>1
  <2> QED
    BY <1>1, <2>2, StreamNone
<1>6. Progress(jobs[m]) = 0
  <2>1. SUFFICES ASSUME Begun(jobs[m]) PROVE FALSE
    BY DEF Progress
  <2>2. jobs[m] # <<>> /\ jobs[m] \in Seq(GoodJobs(m))
    BY <2>1 DEF Begun, JobsGood
  <2>3. PICK j \in GoodJobs(m) : j = Head(jobs[m])
    BY <2>2, Popped
  <2>4. j.kind = "file" /\ j.to \in Peer \ {m} /\ Asked(j.to, m, j.v)
    BY <2>1, <2>3 DEF Begun, GoodJobs, JobGood, Job, TreeJobs, FileJobs
  <2>5. j.to = n
    BY <2>4 DEF TwoPeers
  <2> QED
    BY <2>4, <2>5 DEF Asked
<1>7. 0 \in Nat
  OBVIOUS
<1> QED
  BY <1>4, <1>5, <1>6, <1>7 DEF Flow, w, o

LEMMA RequestFileKeeps ==
    ASSUME PairInv, TypeOK', TwoPeers, NEW n \in Peer, NEW m \in Peer, n # m, ~SomeOpen, RequestFile(n, m)
    PROVE  PairInv'
<1> DEFINE p == pending[n][m]
<1>1. UNCHANGED <<version, content, handle, subscribed, jobs, up, wire>>
  BY DEF RequestFile, files
<1>2. TypeOK /\ Calm /\ CopiesGood /\ JobsGood /\ TablesGood /\ QueuesGood /\ RowsGood
  BY DEF PairInv
<1>3. PICK v \in Vector, size \in Nat :
        v = p.v /\ size = p.size /\ Told(n, m, v, size) /\ p # None
  <2>1. p # None /\ p \in Pending(Vector) \cup {None}
    BY <1>2, Types DEF RequestFile
  <2>2. Told(n, m, p.v, p.size)
    BY <1>2, <2>1 DEF TablesGood
  <2> HIDE DEF p
  <2>3. p.v \in Vector /\ p.size \in Nat
    BY <2>1 DEF Pending
  <2> QED
    BY <2>1, <2>2, <2>3
<1>4. PICK msg : msg = [type |-> "get", v |-> v, tx |-> 0] /\ out' = Sent(n, m, PrioNow, msg)
  <2>1. Connected(n, m)
    BY <1>2, AllConnected
  <2>2. out' = Post(n, m, PrioNow, [type |-> "get", v |-> p.v, tx |-> 0])
    BY DEF RequestFile
  <2>3. out' = Sent(n, m, PrioNow, [type |-> "get", v |-> v, tx |-> 0])
    BY <1>3, <2>1, <2>2, Zenon DEF Post
  <2> QED
    BY <2>3
<1>5. PICK r : r = AddDownload(down[n][m], v, size) /\ down'[n][m] = r
  <2>1. down' = [down EXCEPT ![n][m] = AddDownload(@, p.v, p.size)]
    BY DEF RequestFile
  <2> QED
    BY <1>2, <1>3, <2>1, Types
<1>6. \A k \in Peer : \A l \in Peer \ {k} : ~(k = n /\ l = m) =>
        down'[k][l] = down[k][l] /\ pending'[k][l] = pending[k][l]
  <2>1. down' = [down EXCEPT ![n][m] = AddDownload(@, p.v, p.size)] /\ pending' = [pending EXCEPT ![n][m] = None]
    BY DEF RequestFile
  <2> QED
    BY <1>2, <2>1, Types
<1>7. pending'[n][m] = None
  BY <1>2, Types DEF RequestFile
<1> HIDE DEF p
<1>8. version[m] \in Vector /\ down[n][m] \in Row(Vector) \cup {None} /\ Leq(v, version[m])
      /\ (down[n][m] # None => Leq(down[n][m].v, version[m]))
  BY <1>2, <1>3, Types DEF TablesGood, Told
<1>9. /\ r \in Row(Vector) /\ Leq(r.v, version[m])
      /\ v = version[m] => r.v = version[m]
      /\ v = version[m] /\ Started(n, m) => r = down[n][m]
      /\ v = version[m] /\ ~Started(n, m) => r.recd = 0 /\ r.size = size /\ Len(r.temp) = size
  BY <1>5, <1>8, DownloadGood DEF Started
<1>10. r # None
  BY <1>9, RowThere
<1>11. Ahead(n, m) => v = version[m] /\ size = Len(content[m]) /\ Started(n, m)'
  <2>1. Ahead(n, m) => v = version[m] /\ size = Len(content[m])
    BY <1>3 DEF Told
  <2>2. v = version[m] => Started(n, m)'
    BY <1>1, <1>5, <1>9, <1>10 DEF Started
  <2> QED
    BY <2>1, <2>2
<1>12. \A k \in Peer : \A l \in Peer \ {k} : Ahead(k, l) /\ Started(k, l) => Started(k, l)'
  BY <1>1, <1>6, <1>11 DEF Started
<1>13. /\ \A k \in Peer : GoodJobs(k) \subseteq GoodJobs(k)'
       /\ \A k \in Peer : \A l \in Peer \ {k} : GoodMessages(k, l) \subseteq GoodMessages(k, l)'
  BY <1>1, <1>12, StartedGrows
<1>14. JobsGood'
  BY <1>1, <1>2, <1>13, JobsStay
<1>15. PICK q \in Prio \ {PrioXfer} : q = PrioNow
  BY DEF Prio, PrioNow, PrioXfer
<1>16. out \in [Link -> [Prio -> Seq(Message(Vector))]]
  BY <1>2, Types
<1>17. msg \in OnLevel(m, n, q)'
  <2>1. msg \in Message(Vector) /\ msg.type = "get" /\ msg.v = v
    BY <1>4 DEF Message
  <2>2. Asked(n, m, v)'
    BY <1>1, <1>11 DEF Asked, Ahead, Started
  <2>3. MessageGood(m, n, msg)'
    BY <2>1, <2>2 DEF MessageGood
  <2>4. msg \in GoodMessages(m, n)'
    BY <2>1, <2>3 DEF GoodMessages
  <2> QED
    BY <1>15, <2>1, <2>4 DEF OnLevel
<1>18. QueuesGood'
  <2>1. out' = Sent(n, m, q, msg) /\ wire' = wire /\ q \in Prio
    BY <1>1, <1>4, <1>15
  <2> QED
    BY <1>2, <1>13, <1>16, <1>17, <2>1, SentGood, Zenon
<1>19. TablesGood'
  <2>1. ASSUME NEW k \in Peer, NEW l \in Peer \ {k}
        PROVE  /\ (down[k][l] # None => Leq(down[k][l].v, version[l]))'
               /\ (pending[k][l] # None => Told(k, l, pending[k][l].v, pending[k][l].size))'
    <3>1. CASE k = n /\ l = m
      BY <1>1, <1>5, <1>7, <1>9, <3>1
    <3>2. CASE ~(k = n /\ l = m)
      <4>1. down'[k][l] = down[k][l] /\ pending'[k][l] = pending[k][l]
        BY <1>6, <3>2
      <4>2. /\ down[k][l] # None => Leq(down[k][l].v, version[l])
            /\ pending[k][l] # None => Told(k, l, pending[k][l].v, pending[k][l].size)
        BY <1>2 DEF TablesGood
      <4>3. Told(k, l, pending[k][l].v, pending[k][l].size)' <=> Told(k, l, pending[k][l].v, pending[k][l].size)
        BY <1>1, <4>1 DEF Told, Ahead
      <4> QED
        BY <1>1, <4>1, <4>2, <4>3
    <3> QED
      BY <3>1, <3>2
  <2> QED
    BY <2>1 DEF TablesGood
<1>20. \A k \in Peer : \A l \in Peer \ {k} : out'[<<l, k>>][PrioXfer] = out[<<l, k>>][PrioXfer]
  BY <1>4, <1>15, <1>16, BlocksSame
<1>21. ASSUME NEW k \in Peer, NEW l \in Peer \ {k}, Loading(k, l)'
       PROVE  Filled(down'[k][l], content'[l]) /\ Flows(k, l)'
  <2>1. CASE ~(k = n /\ l = m) \/ Started(n, m)
    <3>1. down'[k][l] = down[k][l]
      <4>1. CASE k = n /\ l = m
        BY <1>1, <1>5, <1>9, <1>11, <1>21, <2>1, <4>1 DEF Loading, Ahead
      <4>2. CASE ~(k = n /\ l = m)
        BY <1>6, <4>2
      <4> QED
        BY <4>1, <4>2
    <3>2. Loading(k, l)
      BY <1>1, <1>21, <3>1 DEF Loading, Ahead, Started
    <3>3. Filled(down[k][l], content[l]) /\ Flows(k, l)
      BY <1>2, <3>2 DEF RowsGood, RowGood
    <3>4. Flows(k, l)'
      BY <1>1, <1>20, <3>1, <3>3 DEF Flows
    <3> QED
      BY <1>1, <3>1, <3>3, <3>4
  <2>2. CASE k = n /\ l = m /\ ~Started(n, m)
    <3>1. Ahead(n, m)
      BY <1>1, <1>21, <2>2 DEF Loading, Ahead
    <3>2. size = Len(content[m]) /\ r.recd = 0 /\ r.size = size /\ Len(r.temp) = size
      BY <1>9, <1>11, <2>2, <3>1
    <3>3. Filled(r, content[m])
      <4>1. \A i \in 1 .. r.recd : r.temp[i] = content[m][i]
        BY <3>2
      <4>2. r.recd < Len(content[m]) \/ Len(content[m]) = 0
        BY <3>2
      <4> QED
        BY <3>2, <4>1, <4>2 DEF Filled
    <3>4. Flow(wire[<<m, n>>], out[<<m, n>>][PrioXfer], 0, size, Progress(jobs[m]))
      BY <1>2, <2>2, <3>1, NothingFlows
    <3>5. Flows(n, m)'
      <4>1. wire'[<<m, n>>] = wire[<<m, n>>] /\ out'[<<m, n>>][PrioXfer] = out[<<m, n>>][PrioXfer]
        BY <1>1, <1>20
      <4> QED
        BY <1>1, <1>5, <3>2, <3>4, <4>1 DEF Flows
    <3> QED
      BY <1>1, <1>5, <2>2, <3>3, <3>5
  <2> QED
    BY <2>1, <2>2
<1>22. RowsGood'
  BY <1>21 DEF RowsGood, RowGood
<1>23. CopiesGood'
  BY <1>1, <1>2 DEF CopiesGood
<1> QED
  BY <1>1, <1>14, <1>18, <1>19, <1>22, <1>23, CalmStays DEF PairInv

LEMMA OverlayFits ==
    ASSUME NEW temp \in Seq(Block), NEW off \in Nat, off < Len(temp), NEW b \in Block
    PROVE  /\ Len(Overlay(temp, off, <<b>>)) = Len(temp)
           /\ \A i \in 1 .. Len(temp) :
                Overlay(temp, off, <<b>>)[i] = IF i = off + 1 THEN b ELSE temp[i]
<1>1. PICK k \in Nat : k = Len(temp) /\ off + 1 <= k /\ off + 1 \in 1 .. k
  OBVIOUS
<1>2. <<b>> # <<>> /\ <<b>>[1] = b
  OBVIOUS
<1>3. Overlay(temp, off, <<b>>) = [Resize(temp, k) EXCEPT ![off + 1] = b]
  BY <1>1, <1>2 DEF Overlay
<1>4. PICK t : t = Resize(temp, k)
  OBVIOUS
<1>5. t \in Seq(Block) /\ Len(t) = k /\ \A i \in 1 .. k : t[i] = temp[i]
  BY <1>1, <1>4, ResizeTyped DEF Resize
<1>6. Len([t EXCEPT ![off + 1] = b]) = k /\ \A i \in 1 .. k : [t EXCEPT ![off + 1] = b][i] = IF i = off + 1 THEN b ELSE temp[i]
  BY <1>1, <1>5, ExceptSeq
<1> QED
  BY <1>1, <1>3, <1>4, <1>6

\* The next block of a download in progress.
LEMMA BlockFits ==
    ASSUME NEW row \in Row(Vector), NEW copy \in Seq(Block), NEW msg \in Message(Vector), msg.type = "chunk",
           Filled(row, copy), msg.off < Len(copy), msg.data = <<copy[msg.off + 1]>>,
           row.recd < Len(copy) => msg.off = row.recd
    PROVE  LET r == Received(row, msg) IN
           /\ r.recd = row.recd + 1 /\ msg.off = row.recd /\ r.v = row.v
           /\ ~Complete(r) => Filled(r, copy)
           /\ Complete(r) => r.temp = copy
<1>1. PICK k \in Nat : k = Len(copy) /\ Len(row.temp) = k /\ row.size = k
  BY DEF Filled
<1>2. PICK o \in Nat : o = row.recd /\ o < k /\ msg.off = o
  <2>1. msg.off \in Nat /\ row.recd \in Nat
    BY DEF Message, Row
  <2>2. row.recd < k \/ k = 0
    BY <1>1 DEF Filled
  <2> QED
    BY <1>1, <2>1, <2>2
<1>3. o + 1 \in 1 .. k /\ copy[o + 1] \in Block /\ row.temp \in Seq(Block)
  BY <1>1, <1>2 DEF Row
<1>4. PICK b \in Block : b = copy[o + 1]
  BY <1>3
<1>5. PICK t \in Seq(Block) : t = Overlay(row.temp, o, <<b>>)
  <2>1. <<b>> \in Seq(Block)
    OBVIOUS
  <2> QED
    BY <1>3, <2>1, OverlayTyped
<1>6. Len(t) = k /\ \A i \in 1 .. k : t[i] = IF i = o + 1 THEN b ELSE row.temp[i]
  BY <1>1, <1>2, <1>3, <1>5, OverlayFits
<1>7. \A i \in 1 .. o + 1 : t[i] = copy[i]
  <2>1. ASSUME NEW i \in 1 .. o + 1 PROVE t[i] = copy[i]
    <3>1. i \in 1 .. k
      BY <1>2
    <3>2. CASE i = o + 1
      BY <1>4, <1>6, <3>1, <3>2
    <3>3. CASE i # o + 1
      <4>1. i \in 1 .. o
        BY <3>3
      <4>2. row.temp[i] = copy[i]
        BY <1>2, <4>1 DEF Filled
      <4> QED
        BY <1>6, <3>1, <3>3, <4>2
    <3> QED
      BY <3>2, <3>3
  <2> QED
    BY <2>1
<1>8. PICK r \in Row(Vector) : r = Received(row, msg)
  BY ReceivedTyped
<1>9. r.recd = o + 1 /\ r.temp = t /\ r.size = k /\ r.v = row.v
  <2>1. msg.data = <<b>> /\ Len(<<b>>) = 1
    BY <1>2, <1>4
  <2>2. r = [row EXCEPT !.recd = o + 1, !.temp = t]
    BY <1>2, <1>5, <1>8, <2>1 DEF Received
  <2> QED
    BY <1>1, <2>2 DEF Row
<1>10. ASSUME ~Complete(r) PROVE Filled(r, copy)
  <2>1. o + 1 < k
    BY <1>9, <1>10 DEF Complete
  <2> QED
    BY <1>1, <1>6, <1>7, <1>9, <2>1 DEF Filled
<1>11. ASSUME Complete(r) PROVE r.temp = copy
  <2>1. o + 1 = k
    BY <1>2, <1>9, <1>11 DEF Complete
  <2>2. \A i \in 1 .. k : t[i] = copy[i]
    BY <1>7, <2>1
  <2> QED
    BY <1>1, <1>6, <1>9, <2>2
<1> QED
  BY <1>2, <1>8, <1>9, <1>10, <1>11

\* The row after a block of m arrived.
LEMMA BlockReceived ==
    ASSUME PairInv, TwoPeers, NEW n \in Peer, NEW m \in Peer, n # m, HandleChunk(n, m),
           Loading(n, m), NEW r, r = Received(down[n][m], Head(wire[<<m, n>>]))
    PROVE  /\ r.v = version[m]
           /\ Complete(r) => r.temp = content[m]
           /\ ~Complete(r) => /\ Filled(r, content[m])
                              /\ Flow(Tail(wire[<<m, n>>]), out[<<m, n>>][PrioXfer], r.recd,
                                      Len(content[m]), Progress(jobs[m]))
<1>1. PICK msg : msg = Head(wire[<<m, n>>])
  OBVIOUS
<1>2. wire[<<m, n>>] # <<>> /\ msg.type = "chunk"
  BY <1>1 DEF HandleChunk, Arrived
<1>3. wire[<<m, n>>] \in Seq(GoodMessages(n, m)) /\ TypeOK /\ RowGood(n, m)
  BY DEF PairInv, QueuesGood, RowsGood
<1>4. msg \in Message(Vector) /\ Block1(n, m, msg)
  <2>1. msg \in GoodMessages(n, m)
    BY <1>1, <1>2, <1>3, Popped
  <2> QED
    BY <1>2, <2>1 DEF GoodMessages, MessageGood
<1>5. PICK row \in Row(Vector) : row = down[n][m] /\ row.v = version[m]
  BY <1>3, Types DEF Loading, Started
<1>6. PICK copy \in Seq(Block) : copy = content[m]
  BY <1>3, Types
<1>7. PICK size \in Nat, from \in Nat : size = Len(copy) /\ from = row.recd
  BY <1>5, <1>6 DEF Row
<1>8. Filled(row, copy) /\ Flows(n, m)
  BY <1>3, <1>5, <1>6 DEF RowGood
<1>9. PICK x \in Nat, y \in Nat :
        /\ Stream(wire[<<m, n>>], from, x, size)
        /\ Stream(out[<<m, n>>][PrioXfer], x, y, size)
        /\ y < size => y = Progress(jobs[m])
  BY <1>5, <1>6, <1>7, <1>8 DEF Flows, Flow
<1>10. Stream(Tail(wire[<<m, n>>]), from + 1, x, size) /\ (from < size => msg.off = from)
  <2>1. wire[<<m, n>>] \in Seq(Message(Vector))
    BY <1>3, Types, Links
  <2>2. Blocks(msg) = 1
    BY <1>2 DEF Blocks
  <2>3. Stream(Tail(wire[<<m, n>>]), from + Blocks(msg), x, size) /\ (msg.type = "chunk" /\ from < size => msg.off = from)
    BY <1>1, <1>2, <1>9, <2>1, StreamTail
  <2> QED
    BY <1>2, <2>2, <2>3
<1>11. msg.off < Len(copy) /\ msg.data = <<copy[msg.off + 1]>>
  BY <1>4, <1>6 DEF Loading, Block1
<1>12. /\ r.recd = from + 1 /\ r.v = row.v
       /\ ~Complete(r) => Filled(r, copy)
       /\ Complete(r) => r.temp = copy
  <2>1. r = Received(row, msg)
    BY <1>1, <1>5
  <2>2. row.recd < Len(copy) => msg.off = row.recd
    BY <1>7, <1>10
  <2> QED
    BY <1>2, <1>4, <1>7, <1>8, <1>11, <2>1, <2>2, BlockFits
<1>13. Flow(Tail(wire[<<m, n>>]), out[<<m, n>>][PrioXfer], from + 1, size, Progress(jobs[m]))
  BY <1>9, <1>10 DEF Flow
<1> QED
  BY <1>5, <1>6, <1>7, <1>12, <1>13

\* A block that does not end a download.
LEMMA BlockKept ==
    ASSUME PairInv, TypeOK', TwoPeers, NEW n \in Peer, NEW m \in Peer, n # m, ~SomeOpen, HandleChunk(n, m),
           UNCHANGED <<version, content, handle>>,
           \/ down' = down /\ down[n][m] = None
           \/ /\ down[n][m] # None
              /\ down' = [down EXCEPT ![n][m] = Received(@, Head(wire[<<m, n>>]))]
              /\ LET r == Received(down[n][m], Head(wire[<<m, n>>])) IN ~(Complete(r) /\ IsNewer(n, r))
    PROVE  PairInv'
<1>1. UNCHANGED <<subscribed, pending, jobs, up, out>> /\ Consume(n, m) /\ wire[<<m, n>>] # <<>>
      /\ Head(wire[<<m, n>>]).type = "chunk"
  BY DEF HandleChunk, Arrived
<1>2. TypeOK /\ Calm /\ CopiesGood /\ JobsGood /\ TablesGood /\ QueuesGood /\ RowsGood
  BY DEF PairInv
<1>3. PICK msg \in Message(Vector) : msg = Head(wire[<<m, n>>]) /\ msg.type = "chunk"
  <2>1. wire[<<m, n>>] \in Seq(Message(Vector))
    BY <1>2, Types, Links
  <2> QED
    BY <1>1, <2>1, Popped
<1>4. \A k \in Peer : \A l \in Peer \ {k} : ~(k = n /\ l = m) => down'[k][l] = down[k][l]
  BY <1>2, Types
<1>5. /\ down[n][m] = None => down'[n][m] = None
      /\ down[n][m] # None => /\ down[n][m] \in Row(Vector) /\ down'[n][m] = Received(down[n][m], msg)
                              /\ down'[n][m] # None /\ down'[n][m].v = down[n][m].v
  <2>1. CASE down[n][m] = None
    BY <2>1
  <2>2. CASE down[n][m] # None
    <3>1. PICK row \in Row(Vector) : row = down[n][m]
      BY <1>2, <2>2, Types
    <3>2. down'[n][m] = Received(row, msg)
      BY <1>2, <1>3, <2>2, <3>1, Types
    <3>3. Received(row, msg) \in Row(Vector)
      BY <1>3, ReceivedTyped
    <3>4. Received(row, msg).v = row.v
      BY DEF Received, Row
    <3>5. Received(row, msg) # None
      BY <3>3, RowThere
    <3> QED
      BY <2>2, <3>1, <3>2, <3>4, <3>5
  <2> QED
    BY <2>1, <2>2
<1>6. \A k \in Peer : \A l \in Peer \ {k} :
        /\ Ahead(k, l)' <=> Ahead(k, l)
        /\ Started(k, l)' <=> Started(k, l)
        /\ Loading(k, l)' <=> Loading(k, l)
  BY <1>4, <1>5 DEF Started, Loading, Ahead
<1>7. /\ \A k \in Peer : GoodJobs(k) \subseteq GoodJobs(k)'
      /\ \A k \in Peer : \A l \in Peer \ {k} : GoodMessages(k, l) \subseteq GoodMessages(k, l)'
  BY <1>6, StartedGrows
<1>8. JobsGood'
  BY <1>1, <1>2, <1>7, JobsStay
<1>9. wire \in [Link -> Seq(Message(Vector))]
  BY <1>2, Types
<1>10. /\ QueuesGood'
       /\ wire'[<<m, n>>] = Tail(wire[<<m, n>>])
       /\ \A l \in Link \ {<<m, n>>} : wire'[l] = wire[l]
  BY <1>1, <1>2, <1>7, <1>9, Consumed
<1>11. TablesGood'
  <2>1. ASSUME NEW k \in Peer, NEW l \in Peer \ {k}
        PROVE  /\ (down[k][l] # None => Leq(down[k][l].v, version[l]))'
               /\ (pending[k][l] # None => Told(k, l, pending[k][l].v, pending[k][l].size))'
    <3>1. /\ down[k][l] # None => Leq(down[k][l].v, version[l])
          /\ pending[k][l] # None => Told(k, l, pending[k][l].v, pending[k][l].size)
      BY <1>2 DEF TablesGood
    <3>2. Told(k, l, pending[k][l].v, pending[k][l].size)' <=> Told(k, l, pending[k][l].v, pending[k][l].size)
      BY <1>1 DEF Told, Ahead
    <3>3. down'[k][l] # None => down[k][l] # None /\ down'[k][l].v = down[k][l].v
      BY <1>4, <1>5
    <3> QED
      BY <1>1, <3>1, <3>2, <3>3
  <2> QED
    BY <2>1 DEF TablesGood
<1>12. ASSUME NEW k \in Peer, NEW l \in Peer \ {k}, Loading(k, l)'
       PROVE  Filled(down'[k][l], content'[l]) /\ Flows(k, l)'
  <2>1. Loading(k, l)
    BY <1>6, <1>12
  <2>2. CASE k = n /\ l = m
    <3>1. PICK r : r = Received(down[n][m], Head(wire[<<m, n>>]))
      OBVIOUS
    <3>2. down[n][m] # None
      BY <2>1, <2>2 DEF Loading, Started
    <3>3. down'[n][m] = r /\ ~(Complete(r) /\ IsNewer(n, r))
      BY <1>3, <1>5, <3>1, <3>2
    <3>4. Loading(n, m)
      BY <2>1, <2>2
    <3>5. r.v = version[m]
      BY <3>1, <3>4, BlockReceived
    <3>6. ~Complete(r)
      BY <3>3, <3>4, <3>5 DEF IsNewer, Loading, Ahead
    <3>7. /\ Filled(r, content[m])
          /\ Flow(Tail(wire[<<m, n>>]), out[<<m, n>>][PrioXfer], r.recd, Len(content[m]), Progress(jobs[m]))
      BY <3>1, <3>4, <3>6, BlockReceived
    <3> QED
      BY <1>1, <1>10, <2>2, <3>3, <3>7 DEF Flows
  <2>3. CASE ~(k = n /\ l = m)
    <3>1. down'[k][l] = down[k][l] /\ wire'[<<l, k>>] = wire[<<l, k>>]
      BY <1>4, <1>10, <2>3, Links
    <3>2. Filled(down[k][l], content[l]) /\ Flows(k, l)
      BY <1>2, <2>1 DEF RowsGood, RowGood
    <3> QED
      BY <1>1, <3>1, <3>2 DEF Flows
  <2> QED
    BY <2>2, <2>3
<1>13. RowsGood'
  BY <1>12 DEF RowsGood, RowGood
<1>14. CopiesGood'
  BY <1>2 DEF CopiesGood
<1> QED
  BY <1>1, <1>8, <1>10, <1>11, <1>13, <1>14, CalmStays DEF PairInv

\* A download of n's ends: both copies are the same now.
LEMMA InstallKeeps ==
    ASSUME PairInv, TypeOK', TwoPeers, NEW n \in Peer, NEW m \in Peer, n # m, ~SomeOpen, HandleChunk(n, m),
           NEW r, r = Received(down[n][m], Head(wire[<<m, n>>])), down[n][m] # None,
           Complete(r), IsNewer(n, r), Install(n, m, r)
    PROVE  PairInv'
<1>1. UNCHANGED <<subscribed, pending, jobs, up, out>> /\ Consume(n, m) /\ wire[<<m, n>>] # <<>>
      /\ Head(wire[<<m, n>>]).type = "chunk"
  BY DEF HandleChunk, Arrived
<1>2. TypeOK /\ Calm /\ CopiesGood /\ JobsGood /\ TablesGood /\ QueuesGood /\ RowsGood
  BY DEF PairInv
<1>3. PICK msg \in Message(Vector) : msg = Head(wire[<<m, n>>]) /\ msg.type = "chunk" /\ MessageGood(n, m, msg)
  <2>1. wire[<<m, n>>] \in Seq(GoodMessages(n, m))
    BY <1>2 DEF QueuesGood
  <2> QED
    BY <1>1, <2>1, Popped DEF GoodMessages
<1>4. PICK row \in Row(Vector) : row = down[n][m] /\ r.v = row.v /\ r.v \in Vector
  <2>1. PICK row \in Row(Vector) : row = down[n][m]
    BY <1>2, Types
  <2>2. r = Received(row, msg)
    BY <1>3, <2>1
  <2> QED
    BY <2>1, <2>2 DEF Received, Row
<1>5. version[n] \in Vector /\ version[m] \in Vector
  BY <1>2, Types
<1>6. Ahead(n, m)
  <2>1. Leq(r.v, version[m])
    BY <1>2, <1>4 DEF TablesGood
  <2>2. Less(version[n], r.v)
    BY DEF IsNewer
  <2> QED
    BY <1>4, <1>5, <2>1, <2>2, OrderLaws DEF Ahead
<1>7. Loading(n, m)
  <2>1. Started(n, m)
    BY <1>3, <1>6 DEF MessageGood, Block1
  <2> QED
    BY <1>2, <1>6, <2>1 DEF Loading, Calm, SomeOpen
<1>8. r.v = version[m] /\ r.temp = content[m]
  BY <1>7, BlockReceived
<1>9. /\ version'[n] = version[m] /\ content'[n] = content[m]
      /\ version'[m] = version[m] /\ content'[m] = content[m]
      /\ \A k \in Peer : handle'[k].open = handle[k].open /\ handle'[k].changed = handle[k].changed
  <2>1. version' = [version EXCEPT ![n] = r.v] /\ content' = [content EXCEPT ![n] = r.temp]
    BY DEF Install, Adopted
  <2>2. handle' = [handle EXCEPT ![n].live = ~handle[n].open]
    BY DEF Install
  <2> QED
    BY <1>2, <1>8, <2>1, <2>2, Types
<1>10. \A k \in Peer : k = n \/ k = m
  BY DEF TwoPeers
<1>11. \A k \in Peer : version'[k] = version[m] /\ content'[k] = content[m]
  BY <1>9, <1>10
<1>12. \A k \in Peer, l \in Peer : ~Ahead(k, l)'
  BY <1>5, <1>11, OrderLaws DEF Ahead
<1>13. ASSUME NEW k \in Peer, NEW v \in Vector, Leq(v, version[k]) PROVE Leq(v, version'[k])
  <2>1. Leq(version[k], version[m])
    BY <1>5, <1>6, <1>10, OrderLaws DEF Ahead
  <2>2. version[k] \in Vector
    BY <1>5, <1>10
  <2> QED
    BY <1>5, <1>11, <1>13, <2>1, <2>2, OrderLaws
<1>14. ASSUME NEW k \in Peer, NEW l \in Peer, NEW v \in Vector, NEW size, Told(k, l, v, size)
       PROVE  Told(k, l, v, size)'
  BY <1>12, <1>13, <1>14 DEF Told
<1>15. ASSUME NEW k \in Peer PROVE GoodJobs(k) \subseteq GoodJobs(k)'
  <2>1. ASSUME NEW j \in GoodJobs(k) PROVE j \in GoodJobs(k)'
    <3>1. j \in Job(Vector) /\ JobGood(k, j) /\ j.to \in Peer
      BY <2>1 DEF GoodJobs, JobGood, Job, TreeJobs, FileJobs
    <3>2. JobGood(k, j)'
      BY <1>12, <3>1 DEF JobGood, Asked
    <3> QED
      BY <3>1, <3>2 DEF GoodJobs
  <2> QED
    BY <2>1
<1>16. ASSUME NEW k \in Peer, NEW l \in Peer \ {k} PROVE GoodMessages(k, l) \subseteq GoodMessages(k, l)'
  <2>1. ASSUME NEW g \in GoodMessages(k, l) PROVE g \in GoodMessages(k, l)'
    <3>1. g \in Message(Vector) /\ MessageGood(k, l, g)
      BY <2>1 DEF GoodMessages
    <3>2. g.type = "info" => g.v \in Vector
      BY <3>1 DEF Message
    <3>3. MessageGood(k, l, g)'
      BY <1>12, <1>14, <3>1, <3>2 DEF MessageGood, Asked, Block1
    <3> QED
      BY <3>1, <3>3 DEF GoodMessages
  <2> QED
    BY <2>1
<1>17. JobsGood'
  BY <1>1, <1>2, <1>15, JobsStay
<1>18. QueuesGood'
  <2>1. wire \in [Link -> Seq(Message(Vector))]
    BY <1>2, Types
  <2> QED
    BY <1>1, <1>2, <1>16, <2>1, Consumed
<1>19. TablesGood'
  <2>1. ASSUME NEW k \in Peer, NEW l \in Peer \ {k}
        PROVE  /\ (down[k][l] # None => Leq(down[k][l].v, version[l]))'
               /\ (pending[k][l] # None => Told(k, l, pending[k][l].v, pending[k][l].size))'
    <3>1. /\ down[k][l] # None => Leq(down[k][l].v, version[l]) /\ down[k][l].v \in Vector
          /\ pending[k][l] # None => Told(k, l, pending[k][l].v, pending[k][l].size) /\ pending[k][l].v \in Vector
      <4>1. down[k][l] \in Row(Vector) \cup {None} /\ pending[k][l] \in Pending(Vector) \cup {None}
        BY <1>2, Types
      <4>2. down[k][l] \in Row(Vector) => down[k][l].v \in Vector
        BY DEF Row
      <4>3. pending[k][l] \in Pending(Vector) => pending[k][l].v \in Vector
        BY DEF Pending
      <4>4. /\ down[k][l] # None => Leq(down[k][l].v, version[l])
            /\ pending[k][l] # None => Told(k, l, pending[k][l].v, pending[k][l].size)
        BY <1>2 DEF TablesGood
      <4> QED
        BY <4>1, <4>2, <4>3, <4>4, Zenon
    <3>2. down'[k][l] # None => down'[k][l] = down[k][l]
      BY <1>2, Types DEF Install
    <3>3. (down[k][l] # None => Leq(down[k][l].v, version[l]))'
      BY <1>13, <3>1, <3>2
    <3>4. ASSUME pending[k][l] # None PROVE Told(k, l, pending[k][l].v, pending[k][l].size)'
      <4>1. Leq(pending[k][l].v, version'[l])
        BY <1>13, <3>1, <3>4 DEF Told
      <4> QED
        BY <1>1, <1>12, <4>1 DEF Told
    <3> QED
      BY <1>1, <3>3, <3>4
  <2> QED
    BY <2>1 DEF TablesGood
<1>20. RowsGood'
  BY <1>12 DEF RowsGood, RowGood, Loading
<1>21. CopiesGood'
  <2>1. \A k \in Peer : Hole \notin Range(content'[k])
    BY <1>2, <1>11 DEF CopiesGood
  <2>2. \A k \in Peer, l \in Peer : version'[l][k] <= version'[k][k]
    <3>1. \A k \in Peer : version[m][k] \in Nat
      BY <1>5 DEF Vector
    <3> QED
      BY <1>11, <3>1
  <2> QED
    BY <1>11, <2>1, <2>2 DEF CopiesGood
<1> QED
  BY <1>1, <1>9, <1>17, <1>18, <1>19, <1>20, <1>21, CalmStays DEF PairInv

LEMMA HandleChunkKeeps ==
    ASSUME PairInv, TypeOK', TwoPeers, NEW n \in Peer, NEW m \in Peer, n # m, ~SomeOpen, HandleChunk(n, m)
    PROVE  PairInv'
<1>1. PICK r : r = Received(down[n][m], Head(wire[<<m, n>>]))
  OBVIOUS
<1>2. CASE down[n][m] = None
  <2>1. UNCHANGED <<version, content, handle, down>>
    BY <1>2 DEF HandleChunk
  <2> QED
    BY <1>2, <2>1, BlockKept
<1>3. CASE down[n][m] # None /\ Complete(r) /\ IsNewer(n, r)
  <2>1. Install(n, m, r)
    BY <1>1, <1>3 DEF HandleChunk
  <2> QED
    BY <1>1, <1>3, <2>1, InstallKeeps
<1>4. CASE down[n][m] # None /\ ~(Complete(r) /\ IsNewer(n, r))
  <2>1. UNCHANGED <<version, content, handle>> /\ down' = [down EXCEPT ![n][m] = r]
    BY <1>1, <1>4 DEF HandleChunk
  <2>2. down' = [down EXCEPT ![n][m] = Received(@, Head(wire[<<m, n>>]))]
    BY <1>1, <2>1, Types DEF PairInv
  <2> QED
    BY <1>1, <1>4, <2>1, <2>2, BlockKept
<1> QED
  BY <1>2, <1>3, <1>4
-----------------------------------------------------------------------------
(* The invariant of two peers                                               *)

LEMMA PairJobStep ==
    ASSUME PairInv, TypeOK', TwoPeers, Patient, NEW n \in Peer, JobStep(n)
    PROVE  PairInv'
<1>1. jobs[n] # <<>> /\ jobs[n] \in Seq(GoodJobs(n))
  BY DEF JobStep, JobStat, TreeInfo, FileCheck, FileRead, Running, PairInv, JobsGood
<1>2. PICK m \in Peer : m # n
  <2>1. PICK j \in GoodJobs(n) : j = Head(jobs[n])
    BY <1>1, Popped
  <2>2. j.to \in Peer /\ j.to # n
    BY <2>1 DEF GoodJobs, JobGood, Job, TreeJobs, FileJobs
  <2> QED
    BY <2>2
<1>3. ~SomeOpen
  BY <1>2, NothingOpen
<1> QED
  BY <1>3, JobStatKeeps, TreeInfoKeeps, FileCheckKeeps, FileReadKeeps DEF JobStep

LEMMA PairLinkStep ==
    ASSUME PairInv, TypeOK', TwoPeers, Patient, NEW n \in Peer, NEW m \in Peer, n # m,
           StartSync(n, m) \/ Shout(n, m) \/ Handle(n, m)
    PROVE  PairInv'
<1>1. ~SomeOpen
  BY NothingOpen
<1>2. CASE StartSync(n, m)
  BY <1>1, <1>2, StartSyncKeeps
<1>3. CASE Shout(n, m)
  BY <1>1, <1>3, ShoutKeeps
<1>4. CASE HandleTree(n, m)
  BY <1>1, <1>4, HandleTreeKeeps
<1>5. CASE HandleInfo(n, m)
  BY <1>1, <1>5, HandleInfoKeeps
<1>6. CASE RequestFile(n, m)
  BY <1>1, <1>6, RequestFileKeeps
<1>7. CASE HandleGet(n, m)
  BY <1>1, <1>7, HandleGetKeeps
<1>8. CASE HandleChunk(n, m)
  BY <1>1, <1>8, HandleChunkKeeps
<1> QED
  BY <1>2, <1>3, <1>4, <1>5, <1>6, <1>7, <1>8 DEF Handle

LEMMA PairStutter == PairInv /\ TypeOK' /\ UNCHANGED vars => PairInv'
<1> SUFFICES ASSUME PairInv, TypeOK', UNCHANGED vars PROVE PairInv'
  OBVIOUS
<1>1. UNCHANGED <<version, content, handle, down, subscribed, pending, jobs, up, out, wire>>
  BY DEF vars
<1>2. Calm'
  <2>1. Idle' <=> Idle
    BY <1>1 DEF Idle
  <2>2. SomeOpen' <=> SomeOpen
    BY <1>1 DEF SomeOpen
  <2> QED
    BY <1>1, <2>1, <2>2 DEF PairInv, Calm
<1>3. JobsGood'
  <2>1. \A k \in Peer : GoodJobs(k) \subseteq GoodJobs(k)'
    BY <1>1, StillGood
  <2> QED
    BY <1>1, <2>1, JobsStay DEF PairInv
<1>4. RowsGood'
  <2>1. ASSUME NEW k \in Peer, NEW l \in Peer \ {k}, Flows(k, l) PROVE Flows(k, l)'
    BY <1>1, <2>1 DEF Flows
  <2> QED
    BY <1>1, <2>1, RowsStay DEF PairInv
<1> QED
  BY <1>1, <1>2, <1>3, <1>4, RestStays DEF PairInv

LEMMA PairNext ==
    ASSUME PairInv, TypeOK', TwoPeers, Patient, [Next]_vars
    PROVE  PairInv'
<1>1. CASE UNCHANGED vars
  BY <1>1, PairStutter
<1>2. ASSUME NEW n \in Peer, Open(n) \/ Write(n) \/ Truncate(n) \/ Close(n) PROVE PairInv'
  BY <1>2, EditKeeps
<1>3. ASSUME NEW n \in Peer, Release(n) \/ Checkout(n) PROVE PairInv'
  BY <1>3 DEF Release, Checkout, Patient
<1>4. ASSUME NEW n \in Peer, JobStep(n) PROVE PairInv'
  BY <1>4, PairJobStep
<1>5. ASSUME NEW l \in Link, StartSync(l[1], l[2]) \/ Shout(l[1], l[2]) \/ Handle(l[1], l[2])
      PROVE  PairInv'
  BY <1>5, LinkOf, PairLinkStep
<1>6. ASSUME NEW l \in Link, Disconnect(l[1], l[2]) \/ Reconnect(l[1], l[2]) PROVE PairInv'
  <2>1. Connected(l[1], l[2])
    BY LinkOf, AllConnected DEF PairInv
  <2> QED
    BY <1>6, <2>1 DEF Disconnect, Reconnect, Patient
<1> QED
  BY <1>1, <1>2, <1>3, <1>4, <1>5, <1>6 DEF Next

LEMMA PairInvariance == ASSUME TwoPeers, Patient PROVE Spec => []PairInv
<1>1. Init => PairInv
  BY PairInit
<1>2. IInv => TypeOK
  BY DEF IInv
<1>3. PairInv /\ TypeOK /\ TypeOK' /\ [Next]_vars => PairInv'
  BY PairNext
<1> QED
  BY <1>1, <1>2, <1>3, Invariance, PTL DEF Spec

\* Two peers that edit and synchronise in turn: copies with the same version
\* have the same bytes.  With a third peer this is false, because SendTree reads
\* the size of the file before its version.
THEOREM TwoPeersAgree == ASSUME TwoPeers, Patient PROVE Spec => []SameVersionSameContent
<1>1. PairInv => SameVersionSameContent
  BY DEF PairInv, Calm, CopiesGood, SameVersionSameContent
<1> QED
  BY <1>1, PairInvariance, PTL

\* Between such peers mergeData never installs a file with a block that did not
\* arrive.
THEOREM TwoPeersComplete == ASSUME TwoPeers, Patient PROVE Spec => []InstalledIsComplete
<1>1. PairInv => InstalledIsComplete
  BY DEF PairInv, CopiesGood, InstalledIsComplete
<1> QED
  BY <1>1, PairInvariance, PTL
=============================================================================
