----------------------- MODULE PriorityQueue_proofs -----------------------
(***************************************************************************)
(* Machine-checked proofs about PriorityQueue and PQueueList: the          *)
(* invariants hold for every number of levels, of nodes, of consumers and  *)
(* every item set.                                                         *)
(***************************************************************************)
EXTENDS PQueueList, ListLemmas, FiniteSetTheorems

\* The inductive invariant: its last conjunct counts queued nodes, so it needs
\* the first three to know that a take removes exactly one node.
IInv == TypeOK /\ NodesConserved /\ LevelsExact /\ NoLostWakeup

\* There are finitely many storage nodes, so counting them makes sense.
LEMMA NodesFinite == IsFiniteSet(Node) /\ IsFiniteSet(Queued)
<1>1. IsFiniteSet(1 .. Size)
  BY SizeAssumption, FS_Interval
<1>2. IsFiniteSet(Node)
  BY <1>1, PrioAssumption, FS_Product DEF Node
<1>3. Queued \subseteq Node
  BY DEF Queued
<1>4. QED BY <1>2, <1>3, FS_Subset

\* The nodes of two levels are disjoint and every node is some level's.
LEMMA LevelNodesDisjoint ==
    /\ \A p \in Prio : LevelNodes(p) \subseteq Node
    /\ \A p, q \in Prio : p # q => LevelNodes(p) \cap LevelNodes(q) = {}
BY DEF LevelNodes, Node

\* The constructor establishes the invariant.
LEMMA InitIInv == Init => IInv
<1> SUFFICES ASSUME Init PROVE IInv
  OBVIOUS
<1>1. ASSUME NEW p \in Prio
      PROVE  /\ freeStore[p] \in Seq(Node)
             /\ IsInjective(freeStore[p])
             /\ Range(freeStore[p]) = LevelNodes(p)
  <2>1. freeStore[p] = [j \in 1 .. Size |-> <<p, j>>]
    BY DEF Init
  <2>2. \A j \in 1 .. Size : <<p, j>> \in Node
    BY DEF Node
  <2>3. freeStore[p] \in Seq(Node)
    BY <2>1, <2>2, SizeAssumption, IsASeq
  <2>4. IsInjective(freeStore[p])
    BY <2>1 DEF IsInjective
  <2>5. Range(freeStore[p]) = LevelNodes(p)
    BY <2>1 DEF Range, LevelNodes
  <2>6. QED BY <2>3, <2>4, <2>5
<1>2. \A p \in Prio : queueStore[p] = <<>> /\ Range(queueStore[p]) = {}
                      /\ IsInjective(queueStore[p])
  BY DEF Init, Range, IsInjective
<1>3. TypeOK
  <2>1. freeStore \in [Prio -> Seq(Node)]
    BY <1>1 DEF Init
  <2>2. queueStore \in [Prio -> Seq(Node)]
    <3>1. <<>> \in Seq(Node)
      BY EmptySeq
    <3>2. QED BY <3>1 DEF Init
  <2>3. data \in [Node -> Item \cup {None}] /\ out \in [Consumers -> Item \cup {None}]
    BY DEF Init
  <2>4. QED BY <2>1, <2>2, <2>3 DEF Init, TypeOK
<1>4. NodesConserved
  BY <1>1, <1>2 DEF NodesConserved
<1>5. LevelsExact
  BY <1>2 DEF LevelsExact, Init
<1>6. NoLostWakeup
  BY DEF NoLostWakeup, Init
<1>7. QED BY <1>3, <1>4, <1>5, <1>6 DEF IInv

\* Waking at most one waiter keeps the two sets of sleepers disjoint, and when
\* somebody still sleeps afterwards one more thread is under way.
LEMMA SignalStep ==
    ASSUME TypeOK, SignalNotEmpty
    PROVE  /\ waiting' \subseteq waiting
           /\ waiting' \subseteq Consumers
           /\ woken' \subseteq Consumers \ waiting'
           /\ waiting' # {} => Cardinality(woken') = Cardinality(woken) + 1
<1>1. CASE waiting = {}
  BY <1>1 DEF SignalNotEmpty, TypeOK
<1>2. CASE waiting # {}
  <2>1. PICK c \in waiting : waiting' = waiting \ {c} /\ woken' = woken \cup {c}
    BY <1>2 DEF SignalNotEmpty
  <2>2. IsFiniteSet(woken) /\ c \notin woken
    BY <2>1, ConsumersAssumption, FS_Subset DEF TypeOK
  <2>3. Cardinality(woken') = Cardinality(woken) + 1
    BY <2>1, <2>2, FS_AddElement
  <2>4. QED BY <2>1, <2>2, <2>3 DEF TypeOK
<1>3. QED BY <1>1, <1>2

\* insert() moves one node from the free store to the queue of its level.
LEMMA InsertStep ==
    ASSUME IInv, NEW item \in Item, NEW p \in Prio, Insert(item, p)
    PROVE  IInv'
<1> USE DEF IInv
<1> DEFINE n == Last(freeStore[p])
<1>1. /\ freeStore[p] \in Seq(Node) /\ freeStore[p] # <<>>
      /\ queueStore[p] \in Seq(Node)
      /\ IsInjective(freeStore[p]) /\ IsInjective(queueStore[p])
      /\ Range(freeStore[p]) \cap Range(queueStore[p]) = {}
      /\ Range(freeStore[p]) \cup Range(queueStore[p]) = LevelNodes(p)
  BY DEF Insert, TypeOK, NodesConserved
<1>2. /\ Front(freeStore[p]) \in Seq(Node)
      /\ n \in Range(freeStore[p]) /\ n \in Node
      /\ IsInjective(Front(freeStore[p]))
      /\ Range(Front(freeStore[p])) = Range(freeStore[p]) \ {n}
  BY <1>1, DropLast
<1>3. /\ Append(queueStore[p], n) \in Seq(Node)
      /\ IsInjective(Append(queueStore[p], n))
      /\ Range(Append(queueStore[p], n)) = Range(queueStore[p]) \cup {n}
  BY <1>1, <1>2, AppendNew
<1>4. /\ freeStore' = [freeStore EXCEPT ![p] = Front(freeStore[p])]
      /\ queueStore' = [queueStore EXCEPT ![p] = Append(queueStore[p], n)]
      /\ data' = [data EXCEPT ![n] = item]
      /\ prioQueue' = prioQueue \cup {p}
      /\ out' = out /\ crashed' = crashed
      /\ SignalNotEmpty
  BY DEF Insert
<1>5. TypeOK'
  <2>1. freeStore' \in [Prio -> Seq(Node)] /\ queueStore' \in [Prio -> Seq(Node)]
    BY <1>2, <1>3, <1>4 DEF TypeOK
  <2>2. data' \in [Node -> Item \cup {None}] /\ prioQueue' \subseteq Prio
    BY <1>2, <1>4 DEF TypeOK
  <2>3. waiting' \subseteq Consumers /\ woken' \subseteq Consumers \ waiting'
    BY <1>4, SignalStep
  <2>4. QED BY <1>4, <2>1, <2>2, <2>3 DEF TypeOK
<1>6. /\ freeStore'[p] = Front(freeStore[p]) /\ queueStore'[p] = Append(queueStore[p], n)
      /\ \A q \in Prio \ {p} : freeStore'[q] = freeStore[q] /\ queueStore'[q] = queueStore[q]
  BY <1>4 DEF TypeOK
<1>7. NodesConserved'
  <2>1. ASSUME NEW q \in Prio
        PROVE  /\ IsInjective(freeStore'[q]) /\ IsInjective(queueStore'[q])
               /\ Range(freeStore'[q]) \cap Range(queueStore'[q]) = {}
               /\ Range(freeStore'[q]) \cup Range(queueStore'[q]) = LevelNodes(q)
    <3>1. CASE q = p
      BY <1>1, <1>2, <1>3, <1>6, <3>1
    <3>2. CASE q # p
      BY <1>6, <3>2 DEF NodesConserved
    <3>3. QED BY <3>1, <3>2
  <2>2. QED BY <2>1 DEF NodesConserved
<1>8. LevelsExact'
  <2>1. Append(queueStore[p], n) # <<>>
    <3>1. n \in Range(Append(queueStore[p], n))
      BY <1>3, Zenon
    <3>2. Range(<<>>) = {}
      BY DEF Range
    <3> QED
      BY <3>1, <3>2, Zenon
  <2>2. QED BY <1>4, <1>6, <2>1 DEF LevelsExact
<1>9. NoLostWakeup'
  <2>1. n \notin Queued
    <3>1. n \notin Range(queueStore[p]) /\ n \in LevelNodes(p)
      BY <1>1, <1>2
    <3>2. \A q \in Prio \ {p} : n \notin Range(queueStore[q])
      BY <3>1, LevelNodesDisjoint DEF NodesConserved
    <3>3. QED BY <3>1, <3>2 DEF Queued
  <2>2. Queued' = Queued \cup {n}
    BY <1>2, <1>3, <1>6 DEF Queued
  <2>3. /\ Cardinality(Queued') = Cardinality(Queued) + 1
        /\ Cardinality(Queued) \in Nat
    BY <2>1, <2>2, NodesFinite, FS_AddElement, FS_CardinalityType
  <2>4. SUFFICES ASSUME waiting' # {}
                 PROVE  Cardinality(Queued') <= Cardinality(woken')
    BY DEF NoLostWakeup
  <2>5. waiting # {} /\ Cardinality(woken') = Cardinality(woken) + 1
    BY <1>4, <2>4, SignalStep
  <2>6. Cardinality(Queued) <= Cardinality(woken) /\ Cardinality(woken) \in Nat
    <3>1. IsFiniteSet(woken)
      BY ConsumersAssumption, FS_Subset DEF TypeOK
    <3>2. QED BY <2>5, <3>1, FS_CardinalityType DEF NoLostWakeup
  <2>7. QED BY <2>3, <2>5, <2>6
<1>10. QED BY <1>5, <1>7, <1>8, <1>9

\* extract() moves the front node of one level back to its free store.
LEMMA ExtractTakeStep ==
    ASSUME IInv, NEW c \in Consumers, ExtractTake(c)
    PROVE  IInv'
<1> USE DEF IInv
<1>1. PICK p \in Prio :
         /\ IsFirstLevel(p)
         /\ out' = [out EXCEPT ![c] = data[Head(queueStore[p])]]
         /\ prioQueue' = LevelsAfterTake(p)
         /\ freeStore' = [freeStore EXCEPT ![p] = FreeAfterTake(p)]
         /\ queueStore' = [queueStore EXCEPT ![p] = Tail(@)]
  BY DEF ExtractTake
<1> DEFINE n == Head(queueStore[p])
<1>2. /\ freeStore[p] \in Seq(Node)
      /\ queueStore[p] \in Seq(Node) /\ queueStore[p] # <<>>
      /\ IsInjective(freeStore[p]) /\ IsInjective(queueStore[p])
      /\ Range(freeStore[p]) \cap Range(queueStore[p]) = {}
      /\ Range(freeStore[p]) \cup Range(queueStore[p]) = LevelNodes(p)
  BY <1>1 DEF TypeOK, NodesConserved, LevelsExact, IsFirstLevel
<1>3. /\ Tail(queueStore[p]) \in Seq(Node)
      /\ n \in Range(queueStore[p]) /\ n \in Node
      /\ IsInjective(Tail(queueStore[p]))
      /\ Range(Tail(queueStore[p])) = Range(queueStore[p]) \ {n}
      /\ Tail(queueStore[p]) = <<>> <=> Len(queueStore[p]) = 1
  BY <1>2, DropFirst
<1>4. /\ FreeAfterTake(p) \in Seq(Node)
      /\ IsInjective(FreeAfterTake(p))
      /\ Range(FreeAfterTake(p)) = Range(freeStore[p]) \cup {n}
  BY <1>2, <1>3, AppendNew DEF FreeAfterTake
<1>5. /\ freeStore'[p] = FreeAfterTake(p) /\ queueStore'[p] = Tail(queueStore[p])
      /\ \A q \in Prio \ {p} : freeStore'[q] = freeStore[q] /\ queueStore'[q] = queueStore[q]
  BY <1>1 DEF TypeOK
<1>6. data' = data /\ waiting' = waiting /\ crashed' = crashed /\ woken' = woken \ {c}
  BY DEF ExtractTake
<1>7. TypeOK'
  <2>1. freeStore' \in [Prio -> Seq(Node)] /\ queueStore' \in [Prio -> Seq(Node)]
    BY <1>1, <1>3, <1>4 DEF TypeOK
  <2>2. out' \in [Consumers -> Item \cup {None}]
    BY <1>1, <1>3 DEF TypeOK
  <2>3. prioQueue' \subseteq Prio
    BY <1>1 DEF TypeOK, LevelsAfterTake
  <2>4. QED BY <1>6, <2>1, <2>2, <2>3 DEF TypeOK
<1>8. NodesConserved'
  <2>1. ASSUME NEW q \in Prio
        PROVE  /\ IsInjective(freeStore'[q]) /\ IsInjective(queueStore'[q])
               /\ Range(freeStore'[q]) \cap Range(queueStore'[q]) = {}
               /\ Range(freeStore'[q]) \cup Range(queueStore'[q]) = LevelNodes(q)
    <3>1. CASE q = p
      BY <1>2, <1>3, <1>4, <1>5, <3>1
    <3>2. CASE q # p
      BY <1>5, <3>2 DEF NodesConserved
    <3>3. QED BY <3>1, <3>2
  <2>2. QED BY <2>1 DEF NodesConserved
<1>9. LevelsExact'
  BY <1>1, <1>2, <1>3, <1>5 DEF LevelsExact, LevelsAfterTake
<1>10. NoLostWakeup'
  <2>1. n \in Queued
    BY <1>3 DEF Queued
  <2>2. Queued' = Queued \ {n}
    <3>1. \A q \in Prio \ {p} : n \notin Range(queueStore[q])
      BY <1>2, <1>3, LevelNodesDisjoint DEF NodesConserved
    <3>2. QED BY <1>3, <1>5, <3>1 DEF Queued
  <2>3. /\ Cardinality(Queued') = Cardinality(Queued) - 1
        /\ Cardinality(Queued) \in Nat
    BY <2>1, <2>2, NodesFinite, FS_RemoveElement, FS_CardinalityType
  <2>4. IsFiniteSet(woken)
    BY ConsumersAssumption, FS_Subset DEF TypeOK
  <2>5. /\ Cardinality(woken) \in Nat /\ Cardinality(woken') \in Nat
        /\ Cardinality(woken') >= Cardinality(woken) - 1
    <3>1. CASE c \in woken
      <4>1. /\ IsFiniteSet(woken \ {c})
            /\ Cardinality(woken \ {c}) = Cardinality(woken) - 1
        BY <2>4, <3>1, FS_RemoveElement
      <4>2. Cardinality(woken \ {c}) \in Nat /\ Cardinality(woken) \in Nat
        BY <2>4, <4>1, FS_CardinalityType
      <4>3. QED BY <1>6, <4>1, <4>2
    <3>2. CASE c \notin woken
      <4>1. woken' = woken
        BY <1>6, <3>2
      <4>2. QED BY <2>4, <4>1, FS_CardinalityType
    <3>3. QED BY <3>1, <3>2
  <2>6. QED BY <1>6, <2>3, <2>5 DEF NoLostWakeup
<1>11. QED BY <1>7, <1>8, <1>9, <1>10

\* A consumer only goes to sleep when nothing is queued at all.
LEMMA ExtractWaitStep ==
    ASSUME IInv, NEW c \in Consumers, ExtractWait(c)
    PROVE  IInv'
<1> USE DEF IInv
<1>1. /\ freeStore' = freeStore /\ queueStore' = queueStore /\ data' = data
      /\ prioQueue' = prioQueue /\ out' = out /\ crashed' = crashed
      /\ waiting' = waiting \cup {c} /\ woken' = woken \ {c} /\ prioQueue = {}
  BY DEF ExtractWait
<1>2. TypeOK' /\ NodesConserved' /\ LevelsExact'
  BY <1>1 DEF TypeOK, NodesConserved, LevelsExact
<1>3. NoLostWakeup'
  <2>1. Queued' = {}
    BY <1>1 DEF Queued, LevelsExact, Range
  <2>2. Cardinality(Queued') = 0
    BY <2>1, FS_EmptySet
  <2>3. Cardinality(woken') \in Nat
    BY <1>1, ConsumersAssumption, FS_Subset, FS_CardinalityType DEF TypeOK
  <2>4. QED BY <2>2, <2>3 DEF NoLostWakeup
<1>4. QED BY <1>2, <1>3

\* A spurious wake-up only adds a thread under way.
LEMMA SpuriousWakeupStep ==
    ASSUME IInv, NEW c \in Consumers, SpuriousWakeup(c)
    PROVE  IInv'
<1> USE DEF IInv
<1>1. /\ freeStore' = freeStore /\ queueStore' = queueStore /\ data' = data
      /\ prioQueue' = prioQueue /\ out' = out /\ crashed' = crashed
      /\ c \in waiting /\ waiting' = waiting \ {c} /\ woken' = woken \cup {c}
  BY DEF SpuriousWakeup
<1>2. TypeOK' /\ NodesConserved' /\ LevelsExact'
  BY <1>1 DEF TypeOK, NodesConserved, LevelsExact
<1>3. NoLostWakeup'
  <2>1. IsFiniteSet(woken) /\ c \notin woken
    BY <1>1, ConsumersAssumption, FS_Subset DEF TypeOK
  <2>2. Cardinality(woken') = Cardinality(woken) + 1 /\ Cardinality(woken) \in Nat
    BY <1>1, <2>1, FS_AddElement, FS_CardinalityType
  <2>3. Queued' = Queued /\ Cardinality(Queued) \in Nat
    BY <1>1, NodesFinite, FS_CardinalityType DEF Queued
  <2>4. QED BY <1>1, <2>2, <2>3 DEF NoLostWakeup
<1>4. QED BY <1>2, <1>3

\* Every step preserves the invariant.
LEMMA NextIInv == IInv /\ [Next]_vars => IInv'
<1> SUFFICES ASSUME IInv, [Next]_vars PROVE IInv'
  OBVIOUS
<1>1. ASSUME NEW item \in Item, NEW p \in Prio, Insert(item, p) PROVE IInv'
  BY <1>1, InsertStep
<1>2. ASSUME NEW p \in Prio, InsertFull(p) PROVE IInv'
  BY <1>2 DEF InsertFull, IInv, TypeOK, NodesConserved, LevelsExact, NoLostWakeup, Queued
<1>3. ASSUME NEW c \in Consumers, ExtractWait(c) PROVE IInv'
  BY <1>3, ExtractWaitStep
<1>4. ASSUME NEW c \in Consumers, ExtractTake(c) PROVE IInv'
  BY <1>4, ExtractTakeStep
<1>5. ASSUME NEW c \in Consumers, SpuriousWakeup(c) PROVE IInv'
  BY <1>5, SpuriousWakeupStep
<1>6. CASE UNCHANGED vars
  BY <1>6 DEF vars, IInv, TypeOK, NodesConserved, LevelsExact, NoLostWakeup, Queued
<1>7. QED BY <1>1, <1>2, <1>3, <1>4, <1>5, <1>6 DEF Next

\* The inductive invariant holds in every reachable state.
THEOREM Invariance == Spec => []IInv
BY InitIInv, NextIInv, PTL DEF Spec

\* Every variable keeps its type.
THEOREM TypeCorrect == Spec => []TypeOK
<1>1. IInv => TypeOK
  BY DEF IInv
<1>2. QED BY <1>1, Invariance, PTL

\* PriorityQueue.h never loses, shares or duplicates a storage node, however
\* many threads call insert() and extract().
THEOREM NodesAreConserved == Spec => []NodesConserved
<1>1. IInv => NodesConserved
  BY DEF IInv
<1>2. QED BY <1>1, Invariance, PTL

\* extract() can rely on m_prioQueue: it never pops an empty level.
THEOREM LevelsAreExact == Spec => []LevelsExact
<1>1. IInv => LevelsExact
  BY DEF IInv
<1>2. QED BY <1>1, Invariance, PTL

\* One signal per insert() is enough: no queued item is stranded behind
\* sleeping consumers, whatever threads overtake the woken ones.
THEOREM NoWakeupIsLost == Spec => []NoLostWakeup
<1>1. IInv => NoLostWakeup
  BY DEF IInv
<1>2. QED BY <1>1, Invariance, PTL
-----------------------------------------------------------------------------
(***************************************************************************)
(* The refinement: storage nodes and free lists implement one FIFO channel *)
(* per level.  IInv supplies what makes the mapping work: the node insert() *)
(* writes is on no queue, and m_prioQueue is exact.                        *)
(***************************************************************************)

\* A level's contents are a sequence as long as its queue.
LEMMA ContentsShape ==
    ASSUME IInv, NEW p \in Prio
    PROVE  /\ Contents[p] \in Seq(Item \cup {None})
           /\ Len(Contents[p]) = Len(queueStore[p])
           /\ \A i \in 1 .. Len(queueStore[p]) : Contents[p][i] = data[queueStore[p][i]]
           /\ Contents[p] = <<>> <=> queueStore[p] = <<>>
<1>1. /\ queueStore[p] \in Seq(Node) /\ DOMAIN queueStore[p] = 1 .. Len(queueStore[p])
      /\ Len(queueStore[p]) \in Nat
  BY DEF IInv, TypeOK
<1>2. Contents[p] = [i \in 1 .. Len(queueStore[p]) |-> data[queueStore[p][i]]]
  BY <1>1 DEF Contents
<1>3. \A i \in 1 .. Len(queueStore[p]) : data[queueStore[p][i]] \in Item \cup {None}
  BY <1>1, ElementOfSeq DEF IInv, TypeOK
<1>4. Contents[p] \in Seq(Item \cup {None}) /\ Len(Contents[p]) = Len(queueStore[p])
  BY <1>1, <1>2, <1>3, IsASeq
<1>5. QED BY <1>1, <1>2, <1>4, EmptySeq

\* The contents before and after a step are over the same levels.
LEMMA ContentsDomain == DOMAIN Contents = Prio /\ DOMAIN (Contents') = Prio
BY DEF Contents

\* insert() is a Send: only its own channel grows, by the inserted item.
LEMMA InsertIsSend ==
    ASSUME IInv, NEW item \in Item, NEW p \in Prio, Insert(item, p)
    PROVE  Channel!Send(item, p)
<1> USE DEF IInv
<1> DEFINE n == Last(freeStore[p])
<1>1. /\ freeStore[p] \in Seq(Node) /\ freeStore[p] # <<>>
      /\ IsInjective(freeStore[p])
      /\ Range(freeStore[p]) \cap Range(queueStore[p]) = {}
      /\ Range(freeStore[p]) \subseteq LevelNodes(p)
  BY DEF Insert, TypeOK, NodesConserved
<1>2. n \in Range(freeStore[p]) /\ n \in Node
  BY <1>1, DropLast
<1>3. \A q \in Prio : n \notin Range(queueStore[q])
  <2>1. n \in LevelNodes(p) /\ n \notin Range(queueStore[p])
    BY <1>1, <1>2
  <2>2. \A q \in Prio \ {p} : Range(queueStore[q]) \subseteq LevelNodes(q)
    BY DEF NodesConserved
  <2>3. QED BY <2>1, <2>2, LevelNodesDisjoint
<1>4. /\ data' = [data EXCEPT ![n] = item]
      /\ queueStore' = [queueStore EXCEPT ![p] = Append(queueStore[p], n)]
      /\ out' = out
  BY DEF Insert
<1>5. ASSUME NEW q \in Prio
      PROVE  /\ queueStore[q] \in Seq(Node)
             /\ \A i \in 1 .. Len(queueStore[q]) :
                  queueStore[q][i] \in Node /\ data'[queueStore[q][i]] = data[queueStore[q][i]]
  <2>1. queueStore[q] \in Seq(Node)
    BY DEF TypeOK
  <2>2. \A i \in 1 .. Len(queueStore[q]) : queueStore[q][i] \in Node /\ queueStore[q][i] # n
    BY <1>3, <2>1, ElementOfSeq DEF Range
  <2>3. QED BY <1>4, <2>1, <2>2 DEF TypeOK
<1>6. ASSUME NEW q \in Prio, q # p
      PROVE  Contents'[q] = Contents[q]
  <2>1. queueStore'[q] = queueStore[q]
    BY <1>4, <1>6 DEF TypeOK
  <2>2. Contents'[q] = [i \in DOMAIN queueStore[q] |-> data'[queueStore[q][i]]]
    BY <2>1 DEF Contents
  <2>3. QED BY <1>5, <2>2 DEF Contents
<1>7. Contents'[p] = Append(Contents[p], item)
  <2>1. queueStore'[p] = Append(queueStore[p], n)
    BY <1>4 DEF TypeOK
  <2> DEFINE s == queueStore[p]
  <2>2. /\ s \in Seq(Node) /\ Len(s) \in Nat
        /\ DOMAIN Append(s, n) = 1 .. Len(s) + 1
        /\ \A i \in 1 .. Len(s) : Append(s, n)[i] = s[i]
        /\ Append(s, n)[Len(s) + 1] = n
    BY <1>2, <1>5
  <2>3. Contents'[p] = [i \in 1 .. Len(s) + 1 |-> data'[Append(s, n)[i]]]
    BY <2>1, <2>2 DEF Contents
  <2>4. data'[n] = item
    BY <1>2, <1>4 DEF TypeOK
  <2>5. /\ Contents[p] \in Seq(Item \cup {None}) /\ Len(Contents[p]) = Len(s)
        /\ \A i \in 1 .. Len(s) : Contents[p][i] = data[s[i]]
    BY ContentsShape
  <2>6. Append(Contents[p], item) = [i \in 1 .. Len(s) + 1 |->
                                       IF i = Len(s) + 1 THEN item ELSE data[s[i]]]
    BY <2>2, <2>5
  <2>7. \A i \in 1 .. Len(s) + 1 :
           data'[Append(s, n)[i]] = IF i = Len(s) + 1 THEN item ELSE data[s[i]]
    BY <1>5, <2>2, <2>4
  <2>8. QED BY <2>3, <2>6, <2>7
<1>8. Contents' = [Contents EXCEPT ![p] = Append(Contents[p], item)]
  <2>1. \A q \in Prio : Contents'[q] = [Contents EXCEPT ![p] = Append(Contents[p], item)][q]
    BY <1>6, <1>7, ContentsDomain
  <2>2. Contents' = [q \in Prio |-> Contents'[q]]
    BY DEF Contents
  <2>3. QED BY <2>1, <2>2, ContentsDomain
<1>9. QED BY <1>4, <1>8 DEF Channel!Send

\* extract() is a Receive from the most urgent non-empty channel.
LEMMA TakeIsReceive ==
    ASSUME IInv, NEW c \in Consumers, ExtractTake(c)
    PROVE  \E p \in Prio : Channel!Receive(c, p)
<1> USE DEF IInv
<1>1. PICK p \in Prio :
         /\ IsFirstLevel(p)
         /\ out' = [out EXCEPT ![c] = data[Head(queueStore[p])]]
         /\ queueStore' = [queueStore EXCEPT ![p] = Tail(@)]
  BY DEF ExtractTake
<1>2. data' = data
  BY DEF ExtractTake
<1> DEFINE s == queueStore[p]
<1>3. s \in Seq(Node) /\ s # <<>> /\ Len(s) \in Nat \ {0}
  BY <1>1, EmptySeq DEF TypeOK, LevelsExact, IsFirstLevel
<1>4. Contents[p] # <<>> /\ \A q \in Prio : Contents[q] # <<>> => p <= q
  BY <1>1, ContentsShape DEF LevelsExact, IsFirstLevel
<1>5. /\ Contents[p] \in Seq(Item \cup {None}) /\ Len(Contents[p]) = Len(s)
      /\ \A i \in 1 .. Len(s) : Contents[p][i] = data[s[i]]
  BY ContentsShape
<1>6. Head(Contents[p]) = data[Head(s)]
  BY <1>3, <1>5
<1>7. Contents'[p] = Tail(Contents[p])
  <2>1. queueStore'[p] = Tail(s)
    BY <1>1 DEF TypeOK
  <2>2. /\ DOMAIN Tail(s) = 1 .. Len(s) - 1
        /\ \A i \in 1 .. Len(s) - 1 : Tail(s)[i] = s[i + 1]
    BY <1>3, HeadTailProperties
  <2>3. Contents'[p] = [i \in 1 .. Len(s) - 1 |-> data[Tail(s)[i]]]
    BY <1>2, <2>1, <2>2 DEF Contents
  <2>4. Tail(Contents[p]) = [i \in 1 .. Len(s) - 1 |-> Contents[p][i + 1]]
    BY <1>3, <1>5
  <2>5. \A i \in 1 .. Len(s) - 1 : data[Tail(s)[i]] = Contents[p][i + 1]
    BY <1>3, <1>5, <2>2
  <2>6. QED BY <2>3, <2>4, <2>5
<1>8. \A q \in Prio : q # p => Contents'[q] = Contents[q]
  <2>1. \A q \in Prio : q # p => queueStore'[q] = queueStore[q]
    BY <1>1 DEF TypeOK
  <2>2. QED BY <1>2, <2>1 DEF Contents
<1>9. Contents' = [Contents EXCEPT ![p] = Tail(Contents[p])]
  <2>1. \A q \in Prio : Contents'[q] = [Contents EXCEPT ![p] = Tail(Contents[p])][q]
    BY <1>7, <1>8, ContentsDomain
  <2>2. Contents' = [q \in Prio |-> Contents'[q]]
    BY DEF Contents
  <2>3. QED BY <2>1, <2>2, ContentsDomain
<1>10. out' = [out EXCEPT ![c] = Head(Contents[p])]
  BY <1>1, <1>6
<1>11. QED BY <1>4, <1>9, <1>10 DEF Channel!Receive

\* The monitor implements per-level FIFO channels served in priority order.
THEOREM Refinement == Spec => ImplementsChannel
<1>1. Init => Channel!Init
  <2> SUFFICES ASSUME Init PROVE Channel!Init
    OBVIOUS
  <2>1. \A p \in Prio : Contents[p] = <<>>
    BY InitIInv, ContentsShape DEF Init
  <2>2. Contents = [p \in Prio |-> Contents[p]]
    BY DEF Contents
  <2>3. Contents = [p \in Prio |-> <<>>]
    BY <2>1, <2>2
  <2>4. QED BY <2>3 DEF Init, Channel!Init
<1>2. IInv /\ [Next]_vars => [Channel!Next]_<<Contents, out>>
  <2> SUFFICES ASSUME IInv, [Next]_vars PROVE [Channel!Next]_<<Contents, out>>
    OBVIOUS
  <2>1. ASSUME NEW item \in Item, NEW p \in Prio, Insert(item, p) PROVE Channel!Next
    BY <2>1, InsertIsSend DEF Channel!Next
  <2>2. ASSUME NEW c \in Consumers, ExtractTake(c) PROVE Channel!Next
    BY <2>2, TakeIsReceive DEF Channel!Next
  <2>3. ASSUME NEW p \in Prio, InsertFull(p) PROVE UNCHANGED <<Contents, out>>
    BY <2>3 DEF InsertFull, Contents
  <2>4. ASSUME NEW c \in Consumers, ExtractWait(c) PROVE UNCHANGED <<Contents, out>>
    BY <2>4 DEF ExtractWait, Contents
  <2>5. ASSUME NEW c \in Consumers, SpuriousWakeup(c) PROVE UNCHANGED <<Contents, out>>
    BY <2>5 DEF SpuriousWakeup, Contents
  <2>6. CASE UNCHANGED vars
    BY <2>6 DEF vars, Contents
  <2>7. QED BY <2>1, <2>2, <2>3, <2>4, <2>5, <2>6 DEF Next
<1>3. QED BY <1>1, <1>2, Invariance, PTL DEF Spec, ImplementsChannel, Channel!Spec
-----------------------------------------------------------------------------
(* The pointers *)

Pointer == Node \cup {Null}
Heap == [prev : [Node -> Pointer], next : [Node -> Pointer],
         first : [List -> Pointer], last : [List -> Pointer]]

\* Two heaps differ at most in the nodes of S and the ends of list l.
Elsewhere(g, h, S, l) ==
    /\ \A m \in Node \ S : g.prev[m] = h.prev[m] /\ g.next[m] = h.next[m]
    /\ \A k \in List \ {l} : g.first[k] = h.first[k] /\ g.last[k] = h.last[k]

\* A null pointer points to no node.
LEMMA NullIsNoNode == Null \notin Node
<1> SUFFICES ASSUME NEW n \in Node PROVE n # Null
  OBVIOUS
<1>1. PICK p \in Prio, j \in 1 .. Size : n = <<p, j>>
  BY DEF Node
<1>2. Len(<<p, j>>) = 2 /\ Len(<<>>) = 0
  OBVIOUS
<1> QED
  BY <1>1, <1>2 DEF Null

\* remove() makes the neighbours of a node neighbours.
LEMMA Unlinked ==
    ASSUME NEW h \in Heap, NEW n \in Node, h.prev[n] # n, h.next[n] # n
    PROVE  /\ Unlink(h, n) \in Heap
           /\ Unlink(h, n).first = h.first /\ Unlink(h, n).last = h.last
           /\ Unlink(h, n).prev[n] = Null /\ Unlink(h, n).next[n] = Null
           /\ \A m \in Node \ {n} :
                /\ Unlink(h, n).prev[m] = IF m = h.next[n] THEN h.prev[n] ELSE h.prev[m]
                /\ Unlink(h, n).next[m] = IF m = h.prev[n] THEN h.next[n] ELSE h.next[m]
<1> DEFINE p == h.prev[n]
           q == h.next[n]
           x == [Store(h.next, p, q) EXCEPT ![n] = Null]
           y == [Store(h.prev, q, p) EXCEPT ![n] = Null]
           P == [Node -> Pointer]
           E == [List -> Pointer]
<1>1. h \in [prev : P, next : P, first : E, last : E]
  BY DEF Heap
<1>2. h.prev \in P /\ h.next \in P
  BY <1>1
<1>3. p \in Pointer /\ q \in Pointer /\ Null \in Pointer
  BY <1>2 DEF Pointer
<1>4. Store(h.next, p, q) \in P /\ Store(h.prev, q, p) \in P
  BY <1>2, <1>3 DEF Store
<1>5. x \in P /\ y \in P
  BY <1>3, <1>4
<1>6. Unlink(h, n) = [h EXCEPT !.next = x, !.prev = y]
  BY DEF Unlink
<1>7. x[n] = Null /\ y[n] = Null
  BY <1>4
<1>8. ASSUME NEW m \in Node \ {n}
      PROVE  y[m] = (IF m = q THEN p ELSE h.prev[m]) /\ x[m] = (IF m = p THEN q ELSE h.next[m])
  BY <1>2, <1>3, <1>4, <1>8, NullIsNoNode DEF Store, Pointer
<1> HIDE DEF x, y, P, E
<1>9. /\ Unlink(h, n) \in [prev : P, next : P, first : E, last : E]
      /\ Unlink(h, n).prev = y /\ Unlink(h, n).next = x
      /\ Unlink(h, n).first = h.first /\ Unlink(h, n).last = h.last
  BY <1>1, <1>5, <1>6
<1> QED
  BY <1>7, <1>8, <1>9 DEF Heap, P, E

\* pop_back() and pop_front() as what they do to a node and to the two ends.
LEMMA BackPopped ==
    ASSUME NEW h \in Heap, NEW l \in List, NEW n \in Node, h.last[l] = n, h.prev[n] # n, h.next[n] # n
    PROVE  /\ PopBack(h, l) \in Heap
           /\ PopBack(h, l).prev = Unlink(h, n).prev /\ PopBack(h, l).next = Unlink(h, n).next
           /\ PopBack(h, l).last = [h.last EXCEPT ![l] = h.prev[n]]
           /\ PopBack(h, l).first = [h.first EXCEPT ![l] = IF h.first[l] = n THEN Null ELSE h.first[l]]
<1> DEFINE u == Unlink(h, n)
           x == [u.last EXCEPT ![l] = h.prev[n]]
           y == [u.first EXCEPT ![l] = IF u.first[l] = n THEN Null ELSE u.first[l]]
           P == [Node -> Pointer]
           E == [List -> Pointer]
<1>1. u \in [prev : P, next : P, first : E, last : E] /\ u.first = h.first /\ u.last = h.last
  BY Unlinked DEF Heap
<1>2. h.prev \in P /\ u.last \in E /\ u.first \in E
  BY <1>1 DEF Heap
<1>3. x \in E /\ y \in E
  BY <1>2 DEF Pointer
<1>4. PopBack(h, l) = [u EXCEPT !.last = x, !.first = y]
  BY DEF PopBack
<1> HIDE DEF x, y, u, P, E
<1>5. /\ PopBack(h, l) \in [prev : P, next : P, first : E, last : E]
      /\ PopBack(h, l).prev = u.prev /\ PopBack(h, l).next = u.next
      /\ PopBack(h, l).last = x /\ PopBack(h, l).first = y
  BY <1>1, <1>3, <1>4
<1> QED
  BY <1>1, <1>5 DEF Heap, x, y, u, P, E
LEMMA FrontPopped ==
    ASSUME NEW h \in Heap, NEW l \in List, NEW n \in Node, h.first[l] = n, h.prev[n] # n, h.next[n] # n
    PROVE  /\ PopFront(h, l) \in Heap
           /\ PopFront(h, l).prev = Unlink(h, n).prev /\ PopFront(h, l).next = Unlink(h, n).next
           /\ PopFront(h, l).first = [h.first EXCEPT ![l] = h.next[n]]
           /\ PopFront(h, l).last = [h.last EXCEPT ![l] = IF h.last[l] = n THEN Null ELSE h.last[l]]
<1> DEFINE u == Unlink(h, n)
           x == [u.last EXCEPT ![l] = IF u.last[l] = n THEN Null ELSE u.last[l]]
           y == [u.first EXCEPT ![l] = h.next[n]]
           P == [Node -> Pointer]
           E == [List -> Pointer]
<1>1. u \in [prev : P, next : P, first : E, last : E] /\ u.first = h.first /\ u.last = h.last
  BY Unlinked DEF Heap
<1>2. h.next \in P /\ u.last \in E /\ u.first \in E
  BY <1>1 DEF Heap
<1>3. x \in E /\ y \in E
  BY <1>2 DEF Pointer
<1>4. PopFront(h, l) = [u EXCEPT !.last = x, !.first = y]
  BY DEF PopFront
<1> HIDE DEF x, y, u, P, E
<1>5. /\ PopFront(h, l) \in [prev : P, next : P, first : E, last : E]
      /\ PopFront(h, l).prev = u.prev /\ PopFront(h, l).next = u.next
      /\ PopFront(h, l).last = x /\ PopFront(h, l).first = y
  BY <1>1, <1>3, <1>4
<1> QED
  BY <1>1, <1>5 DEF Heap, x, y, u, P, E

\* A list is not disturbed by what happens to others.
LEMMA ChainStays ==
    ASSUME NEW h, NEW g, NEW S, NEW l, NEW k \in List, NEW t \in Seq(Node),
           Chained(h, k, t), Elsewhere(g, h, S, l), k # l, Range(t) \cap S = {}
    PROVE  Chained(g, k, t)
<1>1. \A i \in 1 .. Len(t) : t[i] \in Node \ S
  BY DEF Range
<1>2. g.first[k] = h.first[k] /\ g.last[k] = h.last[k]
  BY DEF Elsewhere
<1>3. \A i \in 1 .. Len(t) : g.prev[t[i]] = h.prev[t[i]] /\ g.next[t[i]] = h.next[t[i]]
  BY <1>1 DEF Elsewhere
<1> QED
  BY <1>2, <1>3 DEF Chained

\* pop_back() of a list that holds s.
LEMMA TakenFromBack ==
    ASSUME NEW h \in Heap, NEW l \in List, NEW s \in Seq(Node), IsInjective(s), s # <<>>,
           Chained(h, l, s)
    PROVE  /\ PopBack(h, l) \in Heap /\ h.last[l] = Last(s)
           /\ Chained(PopBack(h, l), l, Front(s))
           /\ PopBack(h, l).prev[Last(s)] = Null /\ PopBack(h, l).next[Last(s)] = Null
           /\ Elsewhere(PopBack(h, l), h, Range(s), l)
<1>1. PICK k \in Nat \ {0} : k = Len(s)
  BY EmptySeq
<1>2. \A i \in 1 .. k : s[i] \in Node /\ s[i] \in Range(s) /\ s[i] # Null
  BY <1>1, NullIsNoNode DEF Range
<1>3. \A i, j \in 1 .. k : s[i] = s[j] => i = j
  BY <1>1 DEF IsInjective
<1>4. k \in 1 .. k /\ 1 \in 1 .. k /\ (k # 1 => k - 1 \in 1 .. k /\ k - 1 # k)
  OBVIOUS
<1> DEFINE n == s[k]
           p == IF k = 1 THEN Null ELSE s[k - 1]
           g == PopBack(h, l)
           u == Unlink(h, n)
           t == Front(s)
<1>5. n \in Node /\ n # Null /\ p # n /\ Last(s) = n /\ n \in Range(s) /\ (k # 1 => p \in Range(s))
  BY <1>1, <1>2, <1>3, <1>4 DEF Last
<1>6. h.last[l] = n /\ h.prev[n] = p /\ h.next[n] = Null /\ h.first[l] = s[1]
  BY <1>1, <1>4 DEF Chained
<1>7. /\ g \in Heap /\ g.prev = u.prev /\ g.next = u.next
      /\ g.last = [h.last EXCEPT ![l] = p]
      /\ g.first = [h.first EXCEPT ![l] = IF h.first[l] = n THEN Null ELSE h.first[l]]
  BY <1>5, <1>6, BackPopped
<1>8. /\ u.prev[n] = Null /\ u.next[n] = Null
      /\ \A m \in Node \ {n} :
            u.prev[m] = h.prev[m] /\ u.next[m] = IF m = p THEN Null ELSE h.next[m]
  BY <1>5, <1>6, Unlinked, NullIsNoNode
<1>9. /\ g.last[l] = p /\ g.first[l] = IF s[1] = n THEN Null ELSE s[1]
      /\ \A m \in List \ {l} : g.first[m] = h.first[m] /\ g.last[m] = h.last[m]
  BY <1>6, <1>7 DEF Heap
<1>10. Len(t) = k - 1 /\ (\A i \in 1 .. k - 1 : t[i] = s[i]) /\ (t = <<>> <=> k = 1)
  <2>1. t \in Seq(Node) /\ Len(t) = k - 1 /\ \A i \in 1 .. k - 1 : t[i] = s[i]
    BY <1>1, FrontByPosition
  <2> QED
    BY <2>1, EmptySeq
<1> HIDE DEF g, u, t, p, n
<1>11. Elsewhere(g, h, Range(s), l)
  <2>1. ASSUME NEW m \in Node \ Range(s) PROVE m # n /\ m # p
    BY <1>5, NullIsNoNode DEF p
  <2> QED
    BY <1>7, <1>8, <1>9, <2>1 DEF Elsewhere
<1>12. Chained(g, l, t)
  <2>1. ASSUME NEW i \in 1 .. k - 1
        PROVE  /\ g.prev[s[i]] = IF i = 1 THEN Null ELSE s[i - 1]
               /\ g.next[s[i]] = IF i = k - 1 THEN Null ELSE s[i + 1]
    <3>1. i \in 1 .. k /\ i # k /\ k # 1
      OBVIOUS
    <3>2. s[i] \in Node \ {n} /\ (s[i] = p <=> i = k - 1)
      BY <1>2, <1>3, <1>4, <3>1 DEF n, p
    <3>3. /\ h.prev[s[i]] = IF i = 1 THEN Null ELSE s[i - 1]
          /\ h.next[s[i]] = s[i + 1]
      BY <1>1, <3>1 DEF Chained
    <3> QED
      BY <1>7, <1>8, <3>2, <3>3
  <2>2. ASSUME NEW i \in 1 .. k - 1
        PROVE  (i # 1 => t[i - 1] = s[i - 1]) /\ (i # k - 1 => t[i + 1] = s[i + 1])
    <3>1. (i # 1 => i - 1 \in 1 .. k - 1) /\ (i # k - 1 => i + 1 \in 1 .. k - 1)
      OBVIOUS
    <3> QED
      BY <1>10, <3>1
  <2>3. \A i \in 1 .. k - 1 :
           /\ g.prev[t[i]] = IF i = 1 THEN Null ELSE t[i - 1]
           /\ g.next[t[i]] = IF i = k - 1 THEN Null ELSE t[i + 1]
    <3> SUFFICES ASSUME NEW i \in 1 .. k - 1
                 PROVE  /\ g.prev[t[i]] = IF i = 1 THEN Null ELSE t[i - 1]
                        /\ g.next[t[i]] = IF i = k - 1 THEN Null ELSE t[i + 1]
      OBVIOUS
    <3>1. t[i] = s[i]
      BY <1>10
    <3> QED
      BY <2>1, <2>2, <3>1
  <2>4. k # 1 => s[1] # n /\ t[1] = s[1] /\ t[k - 1] = p
    <3> SUFFICES ASSUME k # 1 PROVE s[1] # n /\ t[1] = s[1] /\ t[k - 1] = p
      OBVIOUS
    <3>1. 1 \in 1 .. k - 1 /\ k - 1 \in 1 .. k - 1
      OBVIOUS
    <3> QED
      BY <1>3, <1>4, <1>10, <3>1 DEF n, p
  <2>5. k = 1 => s[1] = n /\ p = Null
    BY DEF n, p
  <2>6. /\ g.first[l] = IF t = <<>> THEN Null ELSE t[1]
        /\ g.last[l] = IF t = <<>> THEN Null ELSE t[Len(t)]
    BY <1>9, <1>10, <2>4, <2>5
  <2>7. \A i \in 1 .. Len(t) :
           /\ g.prev[t[i]] = IF i = 1 THEN Null ELSE t[i - 1]
           /\ g.next[t[i]] = IF i = Len(t) THEN Null ELSE t[i + 1]
    BY <1>10, <2>3
  <2> QED
    BY <2>6, <2>7, Zenon DEF Chained
<1> QED
  BY <1>5, <1>6, <1>7, <1>8, <1>11, <1>12 DEF g, t, u

\* pop_front() of a list that holds s.
LEMMA TakenFromFront ==
    ASSUME NEW h \in Heap, NEW l \in List, NEW s \in Seq(Node), IsInjective(s), s # <<>>,
           Chained(h, l, s)
    PROVE  /\ PopFront(h, l) \in Heap /\ h.first[l] = Head(s)
           /\ Chained(PopFront(h, l), l, Tail(s))
           /\ PopFront(h, l).prev[Head(s)] = Null /\ PopFront(h, l).next[Head(s)] = Null
           /\ Elsewhere(PopFront(h, l), h, Range(s), l)
<1>1. PICK k \in Nat \ {0} : k = Len(s)
  BY EmptySeq
<1>2. \A i \in 1 .. k : s[i] \in Node /\ s[i] \in Range(s) /\ s[i] # Null
  BY <1>1, NullIsNoNode DEF Range
<1>3. \A i, j \in 1 .. k : s[i] = s[j] => i = j
  BY <1>1 DEF IsInjective
<1>4. k \in 1 .. k /\ 1 \in 1 .. k /\ (k # 1 => 2 \in 1 .. k)
  OBVIOUS
<1> DEFINE n == s[1]
           q == IF k = 1 THEN Null ELSE s[2]
           g == PopFront(h, l)
           u == Unlink(h, n)
           t == Tail(s)
<1>5. n \in Node /\ n # Null /\ q # n /\ Head(s) = n /\ n \in Range(s) /\ (k # 1 => q \in Range(s))
  BY <1>1, <1>2, <1>3, <1>4
<1>6. h.first[l] = n /\ h.prev[n] = Null /\ h.next[n] = q /\ h.last[l] = s[k]
  BY <1>1, <1>4 DEF Chained
<1>7. /\ g \in Heap /\ g.prev = u.prev /\ g.next = u.next
      /\ g.first = [h.first EXCEPT ![l] = q]
      /\ g.last = [h.last EXCEPT ![l] = IF h.last[l] = n THEN Null ELSE h.last[l]]
  BY <1>5, <1>6, FrontPopped
<1>8. /\ u.prev[n] = Null /\ u.next[n] = Null
      /\ \A m \in Node \ {n} :
            u.next[m] = h.next[m] /\ u.prev[m] = IF m = q THEN Null ELSE h.prev[m]
  BY <1>5, <1>6, Unlinked, NullIsNoNode
<1>9. /\ g.first[l] = q /\ g.last[l] = IF s[k] = n THEN Null ELSE s[k]
      /\ \A m \in List \ {l} : g.first[m] = h.first[m] /\ g.last[m] = h.last[m]
  BY <1>6, <1>7 DEF Heap
<1>10. Len(t) = k - 1 /\ (\A i \in 1 .. k - 1 : t[i] = s[i + 1]) /\ (t = <<>> <=> k = 1)
  <2>1. t \in Seq(Node) /\ Len(t) = k - 1 /\ \A i \in 1 .. k - 1 : t[i] = s[i + 1]
    BY <1>1, HeadTailProperties
  <2> HIDE DEF t
  <2>2. t = <<>> <=> Len(t) = 0
    BY <2>1, EmptySeq
  <2> QED
    BY <2>1, <2>2
<1> HIDE DEF g, u, t, q, n
<1>11. Elsewhere(g, h, Range(s), l)
  <2>1. ASSUME NEW m \in Node \ Range(s) PROVE m # n /\ m # q
    BY <1>5, NullIsNoNode DEF q
  <2> QED
    BY <1>7, <1>8, <1>9, <2>1 DEF Elsewhere
<1>12. Chained(g, l, t)
  <2>1. ASSUME NEW i \in 2 .. k
        PROVE  /\ g.prev[s[i]] = IF i = 2 THEN Null ELSE s[i - 1]
               /\ g.next[s[i]] = IF i = k THEN Null ELSE s[i + 1]
    <3>1. i \in 1 .. k /\ i # 1 /\ k # 1 /\ 2 \in 1 .. k
      OBVIOUS
    <3>2. s[i] \in Node \ {n} /\ (s[i] = q <=> i = 2)
      BY <1>2, <1>3, <1>4, <3>1 DEF n, q
    <3>3. /\ h.prev[s[i]] = s[i - 1]
          /\ h.next[s[i]] = IF i = k THEN Null ELSE s[i + 1]
      BY <1>1, <3>1 DEF Chained
    <3> QED
      BY <1>7, <1>8, <3>2, <3>3
  <2>2. ASSUME NEW i \in 1 .. k - 1
        PROVE  /\ t[i] = s[i + 1] /\ i + 1 \in 2 .. k /\ i + 1 - 1 = i
               /\ i # 1 => t[i - 1] = s[i]
               /\ i # k - 1 => t[i + 1] = s[(i + 1) + 1]
    <3>1. (i # 1 => i - 1 \in 1 .. k - 1 /\ (i - 1) + 1 = i) /\ (i # k - 1 => i + 1 \in 1 .. k - 1)
      OBVIOUS
    <3> QED
      BY <1>10, <3>1
  <2>3. \A i \in 1 .. k - 1 :
           /\ g.prev[t[i]] = IF i = 1 THEN Null ELSE t[i - 1]
           /\ g.next[t[i]] = IF i = k - 1 THEN Null ELSE t[i + 1]
    <3> SUFFICES ASSUME NEW i \in 1 .. k - 1
                 PROVE  /\ g.prev[t[i]] = IF i = 1 THEN Null ELSE t[i - 1]
                        /\ g.next[t[i]] = IF i = k - 1 THEN Null ELSE t[i + 1]
      OBVIOUS
    <3>1. /\ g.prev[s[i + 1]] = IF i + 1 = 2 THEN Null ELSE s[i + 1 - 1]
          /\ g.next[s[i + 1]] = IF i + 1 = k THEN Null ELSE s[(i + 1) + 1]
      BY <2>1, <2>2
    <3>2. (i + 1 = 2 <=> i = 1) /\ (i + 1 = k <=> i = k - 1)
      OBVIOUS
    <3> QED
      BY <2>2, <3>1, <3>2
  <2>4. k # 1 => s[k] # n /\ t[1] = q /\ t[k - 1] = s[k]
    <3> SUFFICES ASSUME k # 1 PROVE s[k] # n /\ t[1] = q /\ t[k - 1] = s[k]
      OBVIOUS
    <3>1. 1 \in 1 .. k - 1 /\ k - 1 \in 1 .. k - 1 /\ (k - 1) + 1 = k /\ 1 + 1 = 2
      OBVIOUS
    <3> QED
      BY <1>3, <1>4, <1>10, <3>1 DEF n, q
  <2>5. k = 1 => s[k] = n /\ q = Null
    BY DEF n, q
  <2>6. /\ g.first[l] = IF t = <<>> THEN Null ELSE t[1]
        /\ g.last[l] = IF t = <<>> THEN Null ELSE t[Len(t)]
    BY <1>9, <1>10, <2>4, <2>5
  <2>7. \A i \in 1 .. Len(t) :
           /\ g.prev[t[i]] = IF i = 1 THEN Null ELSE t[i - 1]
           /\ g.next[t[i]] = IF i = Len(t) THEN Null ELSE t[i + 1]
    BY <1>10, <2>3
  <2> QED
    BY <2>6, <2>7, Zenon DEF Chained
<1> QED
  BY <1>5, <1>6, <1>7, <1>8, <1>11, <1>12 DEF g, t, u

\* push_back() of a node that is on no list to a list that holds s.
LEMMA PutAtBack ==
    ASSUME NEW h \in Heap, NEW l \in List, NEW s \in Seq(Node), IsInjective(s),
           Chained(h, l, s), NEW n \in Node, n \notin Range(s),
           h.prev[n] = Null, h.next[n] = Null
    PROVE  /\ PushBack(h, l, n) \in Heap
           /\ Chained(PushBack(h, l, n), l, Append(s, n))
           /\ Elsewhere(PushBack(h, l, n), h, Range(s) \cup {n}, l)
<1>1. PICK k \in Nat : k = Len(s)
  OBVIOUS
<1>2. \A i \in 1 .. k : s[i] \in Node /\ s[i] \in Range(s) /\ s[i] # n
  BY <1>1 DEF Range
<1>3. \A i, j \in 1 .. k : s[i] = s[j] => i = j
  BY <1>1 DEF IsInjective
<1>4. (s = <<>> <=> k = 0) /\ (k # 0 => k \in 1 .. k /\ 1 \in 1 .. k)
  BY <1>1, EmptySeq
<1> DEFINE p == IF k = 0 THEN Null ELSE s[k]
           g == PushBack(h, l, n)
           t == Append(s, n)
           P == [Node -> Pointer]
           E == [List -> Pointer]
<1>5. /\ p # n /\ p \in Pointer /\ n \in Pointer /\ n # Null /\ Null \in Pointer
      /\ k # 0 => p \in Range(s) /\ p \in Node /\ p # Null
  BY <1>2, <1>4, NullIsNoNode DEF Pointer
<1>6. h.last[l] = p /\ h.first[l] = (IF k = 0 THEN Null ELSE s[1]) /\ (k # 0 => h.next[p] = Null)
  BY <1>1, <1>4 DEF Chained
<1>7. h \in [prev : P, next : P, first : E, last : E]
  BY DEF Heap
<1>8. h.prev \in P /\ h.next \in P /\ h.first \in E /\ h.last \in E
  BY <1>7
<1> HIDE DEF g, p
<1>9. /\ g \in Heap
      /\ g.prev[n] = p /\ g.next[n] = Null
      /\ \A m \in Node \ {n} :
            g.prev[m] = h.prev[m] /\ g.next[m] = IF m = p THEN n ELSE h.next[m]
      /\ g.last[l] = n /\ g.first[l] = IF k = 0 THEN n ELSE s[1]
      /\ \A m \in List \ {l} : g.first[m] = h.first[m] /\ g.last[m] = h.last[m]
  <2>1. CASE k = 0
    <3>1. p = Null
      BY <2>1 DEF p
    <3> DEFINE x == [h.first EXCEPT ![l] = n]
               y == [h.last EXCEPT ![l] = n]
    <3>2. x \in E /\ y \in E
      BY <1>5, <1>8
    <3>3. g = [h EXCEPT !.first = x, !.last = y]
      BY <1>6, <3>1 DEF g, PushBack
    <3>4. /\ x[l] = n /\ y[l] = n
          /\ \A m \in List \ {l} : x[m] = h.first[m] /\ y[m] = h.last[m]
      BY <1>8
    <3> HIDE DEF x, y, P, E
    <3>5. /\ g \in [prev : P, next : P, first : E, last : E]
          /\ g.prev = h.prev /\ g.next = h.next /\ g.first = x /\ g.last = y
      BY <1>7, <3>2, <3>3
    <3> QED
      BY <2>1, <3>1, <3>4, <3>5, NullIsNoNode DEF Heap, P, E
  <2>2. CASE k # 0
    <3>1. p \in Node /\ p # Null
      BY <1>5, <2>2
    <3> DEFINE v == [h.prev EXCEPT ![n] = p]
               w == [h.next EXCEPT ![n] = Null, ![p] = n]
               y == [h.last EXCEPT ![l] = n]
    <3>2. v \in P /\ w \in P /\ y \in E
      BY <1>5, <1>8
    <3>3. InsertAfter(h, n, p) = [h EXCEPT !.prev = v, !.next = w]
      BY <1>6, <2>2 DEF InsertAfter, Store
    <3>4. g = [InsertAfter(h, n, p) EXCEPT !.last = [InsertAfter(h, n, p).last EXCEPT ![l] = n]]
      BY <1>6, <3>1 DEF g, PushBack
    <3>5. /\ y[l] = n /\ v[n] = p /\ w[n] = Null
          /\ \A m \in List \ {l} : y[m] = h.last[m]
          /\ \A m \in Node \ {n} : v[m] = h.prev[m] /\ w[m] = IF m = p THEN n ELSE h.next[m]
      BY <1>5, <1>8, <3>1
    <3> HIDE DEF v, w, P, E
    <3>6. /\ InsertAfter(h, n, p) \in [prev : P, next : P, first : E, last : E]
          /\ InsertAfter(h, n, p).prev = v /\ InsertAfter(h, n, p).next = w
          /\ InsertAfter(h, n, p).first = h.first /\ InsertAfter(h, n, p).last = h.last
      BY <1>7, <3>2, <3>3
    <3>7. g = [InsertAfter(h, n, p) EXCEPT !.last = y]
      BY <3>4, <3>6
    <3> HIDE DEF y
    <3>8. /\ g \in [prev : P, next : P, first : E, last : E]
          /\ g.prev = v /\ g.next = w /\ g.first = h.first /\ g.last = y
      BY <3>2, <3>6, <3>7
    <3> QED
      BY <1>6, <2>2, <3>5, <3>8 DEF Heap, P, E
  <2> QED
    BY <2>1, <2>2
<1>10. Elsewhere(g, h, Range(s) \cup {n}, l)
  <2>1. ASSUME NEW m \in Node \ (Range(s) \cup {n}) PROVE m # n /\ m # p
    <3>1. k = 0 => p = Null
      BY DEF p
    <3> QED
      BY <1>5, <3>1, NullIsNoNode
  <2> QED
    BY <1>9, <2>1 DEF Elsewhere
<1>11. Len(t) = k + 1 /\ (\A i \in 1 .. k : t[i] = s[i]) /\ t[k + 1] = n /\ t # <<>>
  <2>1. t \in Seq(Node) /\ Len(t) = k + 1 /\ (\A i \in 1 .. k : t[i] = s[i]) /\ t[k + 1] = n
    BY <1>1, AppendProperties
  <2> HIDE DEF t
  <2> QED
    BY <2>1, EmptySeq
<1>12. Chained(g, l, t)
  <2> HIDE DEF t
  <2>1. ASSUME NEW i \in 1 .. k
        PROVE  /\ g.prev[s[i]] = IF i = 1 THEN Null ELSE s[i - 1]
               /\ g.next[s[i]] = IF i = k THEN n ELSE s[i + 1]
    <3>1. s[i] \in Node \ {n} /\ (s[i] = p <=> i = k)
      BY <1>2, <1>3, <1>4 DEF p
    <3>2. /\ h.prev[s[i]] = IF i = 1 THEN Null ELSE s[i - 1]
          /\ h.next[s[i]] = IF i = k THEN Null ELSE s[i + 1]
      BY <1>1 DEF Chained
    <3> QED
      BY <1>9, <3>1, <3>2
  <2>2. ASSUME NEW i \in 1 .. k + 1
        PROVE  /\ g.prev[t[i]] = IF i = 1 THEN Null ELSE t[i - 1]
               /\ g.next[t[i]] = IF i = k + 1 THEN Null ELSE t[i + 1]
    <3>1. CASE i = k + 1
      <4>1. t[i] = n /\ (i # 1 => t[i - 1] = s[k]) /\ (i = 1 <=> k = 0)
        <5>1. i - 1 = k /\ (i # 1 => k \in 1 .. k) /\ (i = 1 <=> k = 0)
          BY <3>1
        <5> QED
          BY <1>11, <3>1, <5>1
      <4> QED
        BY <1>9, <3>1, <4>1 DEF p
    <3>2. CASE i # k + 1
      <4>1. i \in 1 .. k /\ (i # 1 => i - 1 \in 1 .. k) /\ (i # k => i + 1 \in 1 .. k)
        BY <3>2
      <4>2. /\ t[i] = s[i] /\ (i # 1 => t[i - 1] = s[i - 1])
            /\ (i # k => t[i + 1] = s[i + 1]) /\ (i = k => t[i + 1] = n)
        BY <1>11, <4>1
      <4> QED
        BY <2>1, <3>2, <4>1, <4>2
    <3> QED
      BY <3>1, <3>2
  <2>3. t[1] = (IF k = 0 THEN n ELSE s[1]) /\ t[Len(t)] = n
    <3>1. CASE k = 0
      BY <1>11, <3>1
    <3>2. CASE k # 0
      BY <1>4, <1>11, <3>2
    <3> QED
      BY <3>1, <3>2
  <2> QED
    BY <1>9, <1>11, <2>2, <2>3 DEF Chained
<1> QED
  BY <1>9, <1>10, <1>12 DEF g

ListsInv == heap \in Heap /\ ListsAreSequences

\* The lists of the levels are different lists.
LEMMA ListNames ==
    /\ \A p \in Prio : Free(p) \in List /\ Queue(p) \in List
    /\ \A p, q \in Prio : Free(p) # Queue(q) /\ (p # q => Free(p) # Free(q) /\ Queue(p) # Queue(q))
BY DEF Free, Queue, List

\* The constructor chains the free nodes.
LEMMA InitLists == ListInit => ListsInv
<1> SUFFICES ASSUME ListInit PROVE ListsInv
  OBVIOUS
<1> DEFINE v == [n \in Node |-> IF n[2] = 1 THEN Null ELSE <<n[1], n[2] - 1>>]
           w == [n \in Node |-> IF n[2] = Size THEN Null ELSE <<n[1], n[2] + 1>>]
           x == [l \in List |-> IF l[1] = "free" THEN <<l[2], 1>> ELSE Null]
           y == [l \in List |-> IF l[1] = "free" THEN <<l[2], Size>> ELSE Null]
<1>1. heap = [prev |-> v, next |-> w, first |-> x, last |-> y]
  BY DEF ListInit
<1>2. Size \in Nat \ {0}
  BY SizeAssumption
<1>3. ASSUME NEW n \in Node
      PROVE  /\ n[2] # 1 => <<n[1], n[2] - 1>> \in Node
             /\ n[2] # Size => <<n[1], n[2] + 1>> \in Node
  BY <1>2 DEF Node
<1>4. ASSUME NEW l \in List PROVE <<l[2], 1>> \in Node /\ <<l[2], Size>> \in Node
  BY <1>2 DEF List, Node
<1>5. v \in [Node -> Pointer] /\ w \in [Node -> Pointer]
  BY <1>3 DEF Pointer
<1>6. x \in [List -> Pointer] /\ y \in [List -> Pointer]
  BY <1>4 DEF Pointer
<1>7. heap \in Heap
  <2> HIDE DEF v, w, x, y
  <2> QED
    BY <1>1, <1>5, <1>6 DEF Heap
<1>8. ASSUME NEW p \in Prio
      PROVE  Chained(heap, Free(p), freeStore[p]) /\ Chained(heap, Queue(p), queueStore[p])
  <2> DEFINE s == freeStore[p]
  <2>1. s = [j \in 1 .. Size |-> <<p, j>>] /\ queueStore[p] = <<>>
    BY DEF ListInit, Init
  <2>2. Len(s) = Size /\ s # <<>> /\ \A j \in 1 .. Size : s[j] = <<p, j>> /\ <<p, j>> \in Node
    <3>1. \A j \in 1 .. Size : s[j] = <<p, j>> /\ <<p, j>> \in Node
      BY <2>1 DEF Node
    <3>2. Len(s) = Size
      BY <1>2, <2>1
    <3> QED
      BY <1>2, <3>1, <3>2
  <2>3. /\ x[Free(p)] = <<p, 1>> /\ y[Free(p)] = <<p, Size>>
        /\ x[Queue(p)] = Null /\ y[Queue(p)] = Null
    BY ListNames DEF Free, Queue
  <2>4. ASSUME NEW j \in 1 .. Size
        PROVE  /\ v[s[j]] = IF j = 1 THEN Null ELSE s[j - 1]
               /\ w[s[j]] = IF j = Size THEN Null ELSE s[j + 1]
    <3>1. v[<<p, j>>] = (IF j = 1 THEN Null ELSE <<p, j - 1>>)
      BY <2>2
    <3>2. w[<<p, j>>] = (IF j = Size THEN Null ELSE <<p, j + 1>>)
      BY <2>2
    <3>3. (j # 1 => j - 1 \in 1 .. Size) /\ (j # Size => j + 1 \in 1 .. Size)
      BY <1>2
    <3> HIDE DEF v, w
    <3> QED
      BY <2>2, <3>1, <3>2, <3>3
  <2>5. 1 \in 1 .. Size /\ Size \in 1 .. Size
    BY <1>2
  <2>6. Len(queueStore[p]) = 0
    BY <2>1
  <2> HIDE DEF v, w, x, y, s
  <2>7. Chained(heap, Free(p), s)
    BY <1>1, <2>2, <2>3, <2>4, <2>5 DEF Chained
  <2>8. Chained(heap, Queue(p), queueStore[p])
    BY <1>1, <2>1, <2>3, <2>6 DEF Chained
  <2> QED
    BY <2>7, <2>8 DEF s
<1> QED
  BY <1>7, <1>8 DEF ListsInv, ListsAreSequences

\* insert() moves a node from the back of the free list to that of the queue.
LEMMA InsertLists ==
    ASSUME IInv, ListsInv, NEW item \in Item, NEW p \in Prio, ListInsert(item, p)
    PROVE  ListsInv'
<1> DEFINE n == Last(freeStore[p])
           g == PopBack(heap, Free(p))
           s == queueStore[p]
<1>1. /\ freeStore[p] \in Seq(Node) /\ freeStore[p] # <<>> /\ s \in Seq(Node)
      /\ IsInjective(freeStore[p]) /\ IsInjective(s)
      /\ Range(freeStore[p]) \cap Range(s) = {}
      /\ Range(freeStore[p]) \cup Range(s) = LevelNodes(p)
  BY DEF ListInsert, Insert, IInv, TypeOK, NodesConserved
<1>2. /\ freeStore' = [freeStore EXCEPT ![p] = Front(freeStore[p])]
      /\ queueStore' = [queueStore EXCEPT ![p] = Append(s, n)]
      /\ freeStore \in [Prio -> Seq(Node)] /\ queueStore \in [Prio -> Seq(Node)]
  BY DEF ListInsert, Insert, IInv, TypeOK
<1>3. /\ n \in Range(freeStore[p]) /\ n \in Node /\ n \notin Range(s)
      /\ Front(freeStore[p]) \in Seq(Node)
      /\ Range(Front(freeStore[p])) = Range(freeStore[p]) \ {n}
  BY <1>1, DropLast
<1>4. /\ heap \in Heap /\ Chained(heap, Free(p), freeStore[p]) /\ Chained(heap, Queue(p), s)
      /\ \A q \in Prio : Chained(heap, Free(q), freeStore[q]) /\ Chained(heap, Queue(q), queueStore[q])
  BY DEF ListsInv, ListsAreSequences
<1>5. /\ g \in Heap /\ heap.last[Free(p)] = n
      /\ Chained(g, Free(p), Front(freeStore[p]))
      /\ g.prev[n] = Null /\ g.next[n] = Null
      /\ Elsewhere(g, heap, Range(freeStore[p]), Free(p))
  BY <1>1, <1>4, ListNames, TakenFromBack
<1>6. heap' = PushBack(g, Queue(p), n)
  BY <1>5 DEF ListInsert
<1> HIDE DEF g, n
<1>7. Chained(g, Queue(p), s)
  BY <1>1, <1>4, <1>5, ListNames, ChainStays
<1>8. /\ heap' \in Heap /\ Chained(heap', Queue(p), Append(s, n))
      /\ Elsewhere(heap', g, Range(s) \cup {n}, Queue(p))
  BY <1>1, <1>3, <1>5, <1>6, <1>7, ListNames, PutAtBack
<1>9. Chained(heap', Free(p), Front(freeStore[p]))
  <2>1. Range(Front(freeStore[p])) \cap (Range(s) \cup {n}) = {}
    BY <1>1, <1>3
  <2> QED
    BY <1>3, <1>5, <1>8, <2>1, ListNames, ChainStays
<1>10. ASSUME NEW q \in Prio, q # p
       PROVE  Chained(heap', Free(q), freeStore[q]) /\ Chained(heap', Queue(q), queueStore[q])
  <2>1. /\ freeStore[q] \in Seq(Node) /\ queueStore[q] \in Seq(Node)
        /\ Range(freeStore[q]) \subseteq LevelNodes(q) /\ Range(queueStore[q]) \subseteq LevelNodes(q)
    BY DEF IInv, TypeOK, NodesConserved
  <2>2. LevelNodes(q) \cap LevelNodes(p) = {}
    BY <1>10, LevelNodesDisjoint
  <2>3. /\ Range(freeStore[q]) \cap Range(freeStore[p]) = {}
        /\ Range(queueStore[q]) \cap Range(freeStore[p]) = {}
        /\ Range(freeStore[q]) \cap (Range(s) \cup {n}) = {}
        /\ Range(queueStore[q]) \cap (Range(s) \cup {n}) = {}
    BY <1>1, <1>3, <2>1, <2>2
  <2>4. Chained(g, Free(q), freeStore[q]) /\ Chained(g, Queue(q), queueStore[q])
    BY <1>4, <1>5, <1>10, <2>1, <2>3, ListNames, ChainStays
  <2> QED
    BY <1>8, <1>10, <2>1, <2>3, <2>4, ListNames, ChainStays
<1>11. ASSUME NEW q \in Prio
       PROVE  Chained(heap', Free(q), freeStore'[q]) /\ Chained(heap', Queue(q), queueStore'[q])
  <2>1. CASE q = p
    BY <1>2, <1>8, <1>9, <2>1
  <2>2. CASE q # p
    BY <1>2, <1>10, <2>2
  <2> QED
    BY <2>1, <2>2
<1> QED
  BY <1>8, <1>11 DEF ListsInv, ListsAreSequences

\* extract() moves a node from the front of the queue to the back of the free list.
LEMMA TakeLists ==
    ASSUME IInv, ListsInv, NEW c \in Consumers, ListTake(c)
    PROVE  ListsInv'
<1>1. PICK p \in Prio :
         /\ IsFirstLevel(p)
         /\ freeStore' = [freeStore EXCEPT ![p] = FreeAfterTake(p)]
         /\ queueStore' = [queueStore EXCEPT ![p] = Tail(queueStore[p])]
  BY DEF ListTake, ExtractTake
<1> DEFINE s == queueStore[p]
           n == Head(s)
           g == PopFront(heap, Queue(p))
<1>2. heap' = PushBack(g, Free(p), heap.first[Queue(p)])
  <2>1. PICK q \in Prio :
           /\ IsFirstLevel(q)
           /\ heap' = PushBack(PopFront(heap, Queue(q)), Free(q), heap.first[Queue(q)])
    BY DEF ListTake
  <2>2. q = p
    <3>1. p \in Nat /\ q \in Nat /\ p <= q /\ q <= p
      BY <1>1, <2>1, PrioAssumption DEF IsFirstLevel
    <3> QED
      BY <3>1
  <2> QED
    BY <2>1, <2>2
<1>3. /\ freeStore[p] \in Seq(Node) /\ s \in Seq(Node) /\ s # <<>>
      /\ IsInjective(freeStore[p]) /\ IsInjective(s)
      /\ Range(freeStore[p]) \cap Range(s) = {}
      /\ Range(freeStore[p]) \cup Range(s) = LevelNodes(p)
  BY <1>1 DEF IInv, TypeOK, NodesConserved, LevelsExact, IsFirstLevel
<1>4. /\ freeStore' = [freeStore EXCEPT ![p] = Append(freeStore[p], n)]
      /\ freeStore \in [Prio -> Seq(Node)] /\ queueStore \in [Prio -> Seq(Node)]
  BY <1>1 DEF IInv, TypeOK, FreeAfterTake
<1>5. /\ n \in Range(s) /\ n \in Node /\ n \notin Range(freeStore[p])
      /\ Tail(s) \in Seq(Node)
      /\ Range(Tail(s)) = Range(s) \ {n}
  BY <1>3, DropFirst
<1>6. /\ heap \in Heap /\ Chained(heap, Free(p), freeStore[p]) /\ Chained(heap, Queue(p), s)
      /\ \A q \in Prio : Chained(heap, Free(q), freeStore[q]) /\ Chained(heap, Queue(q), queueStore[q])
  BY DEF ListsInv, ListsAreSequences
<1>7. /\ g \in Heap /\ heap.first[Queue(p)] = n
      /\ Chained(g, Queue(p), Tail(s))
      /\ g.prev[n] = Null /\ g.next[n] = Null
      /\ Elsewhere(g, heap, Range(s), Queue(p))
  BY <1>3, <1>6, ListNames, TakenFromFront
<1>8. heap' = PushBack(g, Free(p), n)
  BY <1>2, <1>7
<1> HIDE DEF g, n, s
<1>9. Chained(g, Free(p), freeStore[p])
  <2>1. Range(freeStore[p]) \cap Range(s) = {}
    BY <1>3
  <2> QED
    BY <1>3, <1>6, <1>7, <2>1, ListNames, ChainStays
<1>10. /\ heap' \in Heap /\ Chained(heap', Free(p), Append(freeStore[p], n))
       /\ Elsewhere(heap', g, Range(freeStore[p]) \cup {n}, Free(p))
  BY <1>3, <1>5, <1>7, <1>8, <1>9, ListNames, PutAtBack
<1>11. Chained(heap', Queue(p), Tail(s))
  <2>1. Range(Tail(s)) \cap (Range(freeStore[p]) \cup {n}) = {}
    BY <1>3, <1>5
  <2> QED
    BY <1>5, <1>7, <1>10, <2>1, ListNames, ChainStays
<1>12. ASSUME NEW q \in Prio, q # p
       PROVE  Chained(heap', Free(q), freeStore[q]) /\ Chained(heap', Queue(q), queueStore[q])
  <2>1. /\ freeStore[q] \in Seq(Node) /\ queueStore[q] \in Seq(Node)
        /\ Range(freeStore[q]) \subseteq LevelNodes(q) /\ Range(queueStore[q]) \subseteq LevelNodes(q)
    BY DEF IInv, TypeOK, NodesConserved
  <2>2. LevelNodes(q) \cap LevelNodes(p) = {}
    BY <1>12, LevelNodesDisjoint
  <2>3. /\ Range(freeStore[q]) \cap Range(s) = {}
        /\ Range(queueStore[q]) \cap Range(s) = {}
        /\ Range(freeStore[q]) \cap (Range(freeStore[p]) \cup {n}) = {}
        /\ Range(queueStore[q]) \cap (Range(freeStore[p]) \cup {n}) = {}
    BY <1>3, <1>5, <2>1, <2>2
  <2>4. Chained(g, Free(q), freeStore[q]) /\ Chained(g, Queue(q), queueStore[q])
    BY <1>6, <1>7, <1>12, <2>1, <2>3, ListNames, ChainStays
  <2> QED
    BY <1>10, <1>12, <2>1, <2>3, <2>4, ListNames, ChainStays
<1>13. ASSUME NEW q \in Prio
       PROVE  Chained(heap', Free(q), freeStore'[q]) /\ Chained(heap', Queue(q), queueStore'[q])
  <2>1. CASE q = p
    BY <1>1, <1>4, <1>10, <1>11, <2>1 DEF s
  <2>2. CASE q # p
    BY <1>1, <1>4, <1>12, <2>2
  <2> QED
    BY <2>1, <2>2
<1> QED
  BY <1>10, <1>13 DEF ListsInv, ListsAreSequences

\* A step of the lists is a step of the queue.
LEMMA ListStepIsStep == ListNext => Next
BY DEF ListNext, Next, ListInsert, ListExtract, ListTake

\* insert() and extract() keep the pointers of every list in the order of its
\* nodes, and leave none behind that leads into another list.
THEOREM ListsStaySequences == ListSpec => []ListsAreSequences
<1>1. ListInit => IInv /\ ListsInv
  BY InitIInv, InitLists DEF ListInit
<1>2. IInv /\ ListsInv /\ [ListNext]_listVars => IInv' /\ ListsInv'
  <2> SUFFICES ASSUME IInv, ListsInv, [ListNext]_listVars PROVE IInv' /\ ListsInv'
    OBVIOUS
  <2>1. IInv'
    BY ListStepIsStep, NextIInv DEF listVars
  <2>2. ASSUME UNCHANGED <<freeStore, queueStore, heap>> PROVE ListsInv'
    BY <2>2 DEF ListsInv, ListsAreSequences
  <2>3. ASSUME NEW item \in Item, NEW p \in Prio, ListInsert(item, p) PROVE ListsInv'
    BY <2>3, InsertLists
  <2>4. ASSUME NEW c \in Consumers, ListTake(c) PROVE ListsInv'
    BY <2>4, TakeLists
  <2>5. ASSUME NEW p \in Prio, InsertFull(p), UNCHANGED heap PROVE ListsInv'
    BY <2>2, <2>5 DEF InsertFull
  <2>6. ASSUME NEW c \in Consumers, ExtractWait(c), UNCHANGED heap PROVE ListsInv'
    BY <2>2, <2>6 DEF ExtractWait
  <2>7. ASSUME NEW c \in Consumers, SpuriousWakeup(c), UNCHANGED heap PROVE ListsInv'
    BY <2>2, <2>7 DEF SpuriousWakeup
  <2>8. CASE UNCHANGED listVars
    BY <2>1, <2>2, <2>8 DEF listVars, vars
  <2>9. ListsInv'
    BY <2>3, <2>4, <2>5, <2>6, <2>7, <2>8 DEF ListNext, ListExtract
  <2> QED
    BY <2>1, <2>9
<1>3. ListsInv => ListsAreSequences
  BY DEF ListsInv
<1> QED
  BY <1>1, <1>2, <1>3, PTL DEF ListSpec
=============================================================================
