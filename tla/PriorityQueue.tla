--------------------------- MODULE PriorityQueue ---------------------------
(***************************************************************************)
(* PriorityQueue<T> (src/src/PriorityQueue.h): the bounded, mutex-guarded   *)
(* priority FIFO through which every thread of the backend hands messages   *)
(* and jobs to another.  Each priority level owns Size storage nodes, which *)
(* move between the level's free store and its queue.                       *)
(*                                                                         *)
(* insert() and extract() hold m_mutex from their first to their last       *)
(* statement except inside a condition wait, so an action is one critical   *)
(* section.  pthreads wake-ups are not hand-offs: a signalled consumer has  *)
(* to take the mutex again, and another thread may come first.              *)
(***************************************************************************)
EXTENDS Integers, SequencesExt

CONSTANTS Prio,       \* the priority levels, 0 .. nprio-1 in the code
          Size,       \* storage nodes of each level
          Consumers,  \* the threads that call extract()
          Item,       \* what is queued
          None        \* what a DataNode or an out-parameter holds before use

ASSUME PrioAssumption == Prio \subseteq Nat /\ Prio # {} /\ IsFiniteSet(Prio)
ASSUME SizeAssumption == Size \in Nat \ {0}
ASSUME ConsumersAssumption == IsFiniteSet(Consumers)
ASSUME NoneAssumption == None \notin Item

\* &m_dataStore[i*size + j], the j-th node of level i.
Node == Prio \X (1 .. Size)
LevelNodes(p) == {p} \X (1 .. Size)

VARIABLES freeStore,   \* m_freeStore[prio], oldest first; used as a stack
          queueStore,  \* m_queueStore[prio], front first
          data,        \* the data member of every node
          prioQueue,   \* m_prioQueue, the levels that hold something
          waiting,     \* consumers blocked in m_notEmpty.wait
          woken,       \* consumers that were signalled, not yet running
          out,         \* what the last extract() of a consumer returned
          crashed      \* the process died on a null node

vars == <<freeStore, queueStore, data, prioQueue, waiting, woken, out, crashed>>

TypeOK ==
    /\ freeStore \in [Prio -> Seq(Node)]
    /\ queueStore \in [Prio -> Seq(Node)]
    /\ data \in [Node -> Item \cup {None}]
    /\ prioQueue \subseteq Prio
    /\ waiting \subseteq Consumers
    /\ woken \subseteq Consumers \ waiting
    /\ out \in [Consumers -> Item \cup {None}]
    /\ crashed \in BOOLEAN

\* The constructor puts every node in the free store of its level.
Init ==
    /\ freeStore = [p \in Prio |-> [j \in 1 .. Size |-> <<p, j>>]]
    /\ queueStore = [p \in Prio |-> <<>>]
    /\ data = [n \in Node |-> None]
    /\ prioQueue = {}
    /\ waiting = {} /\ woken = {}
    /\ out = [c \in Consumers |-> None]
    /\ crashed = FALSE

\* Mutant: signals only when the queue was empty before the insert.
SignalNotEmpty_WhenEmpty ==
    IF waiting = {} \/ prioQueue # {}
    THEN UNCHANGED <<waiting, woken>>
    ELSE \E c \in waiting : /\ waiting' = waiting \ {c}
                            /\ woken' = woken \cup {c}
\* Mutant: the woken thread stays on the condition's list.
SignalNotEmpty_Stays ==
    /\ waiting' = waiting
    /\ IF waiting = {} THEN woken' = woken
       ELSE \E c \in waiting : woken' = woken \cup {c}

\* m_notEmpty.signal(): one of the waiters, whichever, is released.
SignalNotEmpty ==
    IF waiting = {}
    THEN UNCHANGED <<waiting, woken>>
    ELSE \E c \in waiting : /\ waiting' = waiting \ {c}
                            /\ woken' = woken \cup {c}

\* insert(item, p) with a node to spare.  m_notFull is never waited on: see
\* InsertFull.
Insert(item, p) ==
    /\ ~crashed
    /\ freeStore[p] # <<>>
    /\ LET n == Last(freeStore[p]) IN
       /\ freeStore' = [freeStore EXCEPT ![p] = Front(@)]
       /\ data' = [data EXCEPT ![n] = item]
       /\ queueStore' = [queueStore EXCEPT ![p] = Append(@, n)]
    /\ prioQueue' = prioQueue \cup {p}
    /\ SignalNotEmpty
    /\ UNCHANGED <<out, crashed>>

\* insert() at a level without a free node: pop_back() calls remove() through
\* the null pointer, which every build dereferences, so the wait loop below
\* it is never reached.
InsertFull(p) ==
    /\ ~crashed
    /\ freeStore[p] = <<>>
    /\ crashed' = TRUE
    /\ UNCHANGED <<freeStore, queueStore, data, prioQueue, waiting, woken, out>>

\* extract() finds nothing and blocks; the mutex is released.
ExtractWait(c) ==
    /\ ~crashed
    /\ c \notin waiting
    /\ prioQueue = {}
    /\ waiting' = waiting \cup {c}
    /\ woken' = woken \ {c}
    /\ UNCHANGED <<freeStore, queueStore, data, prioQueue, out, crashed>>

\* Mutant: any non-empty level is served.
IsFirstLevel_Any(p) == p \in prioQueue
\* m_prioQueue.begin(): the lowest-numbered level that holds something.
IsFirstLevel(p) == p \in prioQueue /\ \A q \in prioQueue : p <= q

\* Mutant: the level stays registered when its last item is taken.
LevelsAfterTake_Keep(p) == prioQueue
\* Mutant: the level is always dropped.
LevelsAfterTake_Drop(p) == prioQueue \ {p}
\* The level leaves m_prioQueue when its queue has become empty.
LevelsAfterTake(p) == IF Len(queueStore[p]) = 1 THEN prioQueue \ {p} ELSE prioQueue

\* Mutant: the node is not given back.
FreeAfterTake_Leak(p) == freeStore[p]
\* The emptied node goes back to the free store.
FreeAfterTake(p) == Append(freeStore[p], Head(queueStore[p]))

\* extract() takes the front of the lowest-numbered non-empty level.
ExtractTake(c) ==
    /\ ~crashed
    /\ c \notin waiting
    /\ \E p \in Prio :
       /\ IsFirstLevel(p)
       /\ out' = [out EXCEPT ![c] = data[Head(queueStore[p])]]
       /\ prioQueue' = LevelsAfterTake(p)
       /\ freeStore' = [freeStore EXCEPT ![p] = FreeAfterTake(p)]
       /\ queueStore' = [queueStore EXCEPT ![p] = Tail(@)]
    /\ woken' = woken \ {c}
    /\ UNCHANGED <<data, waiting, crashed>>

Extract(c) == ExtractWait(c) \/ ExtractTake(c)

\* pthread_cond_wait may return without a signal.
SpuriousWakeup(c) ==
    /\ ~crashed
    /\ c \in waiting
    /\ waiting' = waiting \ {c}
    /\ woken' = woken \cup {c}
    /\ UNCHANGED <<freeStore, queueStore, data, prioQueue, out, crashed>>

Next ==
    \/ \E item \in Item, p \in Prio : Insert(item, p)
    \/ \E p \in Prio : InsertFull(p)
    \/ \E c \in Consumers : ExtractWait(c)
    \/ \E c \in Consumers : ExtractTake(c)
    \/ \E c \in Consumers : SpuriousWakeup(c)

Spec == Init /\ [][Next]_vars

\* Every consumer of the program loops on extract() (MessageHandler::main,
\* Connection::shout, JobWorker::main), and the mutex is only held for short
\* critical sections.
FairSpec == Spec /\ \A c \in Consumers : WF_vars(Extract(c))
-----------------------------------------------------------------------------
Queued == {n \in Node : \E p \in Prio : n \in Range(queueStore[p])}

\* The nodes of a level are split between its free store and its queue: none
\* is lost, shared between the two or listed twice, however insert() and
\* extract() interleave, and no level ever uses the storage of another.
NodesConserved ==
    \A p \in Prio :
        /\ IsInjective(freeStore[p]) /\ IsInjective(queueStore[p])
        /\ Range(freeStore[p]) \cap Range(queueStore[p]) = {}
        /\ Range(freeStore[p]) \cup Range(queueStore[p]) = LevelNodes(p)

\* m_prioQueue names exactly the levels that hold something: extract() never
\* pops an empty level (a null node) and never sleeps on a full one.
LevelsExact == prioQueue = {p \in Prio : queueStore[p] # <<>>}

\* insert() signals one waiter and a woken thread can be overtaken by another
\* one; still, while somebody sleeps on m_notEmpty there are at least as many
\* woken threads under way as there are queued items, so no item is stranded.
NoLostWakeup == waiting # {} => Cardinality(Queued) <= Cardinality(woken)

\* A message at the most urgent level is eventually taken, whatever the other
\* levels hold, unless the process dies.
UrgentServed ==
    \A n \in Node :
        (n \in Queued /\ \A p \in Prio : n[1] <= p) ~> (n \notin Queued \/ crashed)

\* insert() is documented to wait "for capacity to be restored" when its level
\* has no free node (PriorityQueue.h:293): it must not take the process down.
FullInsertSurvives == ~crashed

-----------------------------------------------------------------------------
\* What the queue promises: per-level FIFO channels, the lowest-numbered
\* non-empty one first (PrioChannel.tla).
Contents == [p \in Prio |-> [i \in DOMAIN queueStore[p] |-> data[queueStore[p][i]]]]
Channel == INSTANCE PrioChannel WITH chan <- Contents, got <- out

\* The storage nodes, the free lists and m_prioQueue implement those channels.
ImplementsChannel == Channel!Spec
=============================================================================
