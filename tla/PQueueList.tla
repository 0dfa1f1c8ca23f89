----------------------------- MODULE PQueueList -----------------------------
(***************************************************************************)
(* PriorityQueue with the intrusive doubly linked lists that store it:      *)
(* pqueue::Node with its two pointers and pqueue::Queue with its two ends.  *)
(* insert() and extract() move a node from one list to another inside their *)
(* critical section; PriorityQueue.tla takes the lists for sequences, which *)
(* ListsAreSequences justifies.  (push_front and insertBefore have no       *)
(* caller.)                                                                 *)
(***************************************************************************)
EXTENDS PriorityQueue

Free(p) == <<"free", p>>      \* m_freeStore[p]
Queue(p) == <<"queue", p>>    \* m_queueStore[p]
List == {"free", "queue"} \X Prio
Null == <<>>

VARIABLE heap  \* m_prev and m_next of the nodes, m_first and m_last of the lists

listVars == <<vars, heap>>

\* A store through a pointer that may be null: `if(p) p->field = x`.
Store(field, p, x) == IF p = Null THEN field ELSE [field EXCEPT ![p] = x]

\* Node::insertAfter
InsertAfter(h, n, parent) ==
    [h EXCEPT !.prev = Store([@ EXCEPT ![n] = parent], h.next[parent], n),
              !.next = [@ EXCEPT ![n] = h.next[parent], ![parent] = n]]

\* Mutant: the removed node keeps its pointers.
Unlink_Dangling(h, n) ==
    [h EXCEPT !.next = Store(@, h.prev[n], h.next[n]),
              !.prev = Store(@, h.next[n], h.prev[n])]
\* Node::remove
Unlink(h, n) ==
    [h EXCEPT !.next = [Store(@, h.prev[n], h.next[n]) EXCEPT ![n] = Null],
              !.prev = [Store(@, h.next[n], h.prev[n]) EXCEPT ![n] = Null]]

\* Queue::push_back
PushBack(h, l, n) ==
    IF h.last[l] # Null
    THEN [InsertAfter(h, n, h.last[l]) EXCEPT !.last[l] = n]
    ELSE [h EXCEPT !.first[l] = n, !.last[l] = n]

\* Queue::pop_back of a list that is not empty.
PopBack(h, l) ==
    LET n == h.last[l] IN
    [Unlink(h, n) EXCEPT !.last[l] = h.prev[n],
                         !.first[l] = IF @ = n THEN Null ELSE @]

\* Queue::pop_front of a list that is not empty.
PopFront(h, l) ==
    LET n == h.first[l] IN
    [Unlink(h, n) EXCEPT !.first[l] = h.next[n],
                         !.last[l] = IF @ = n THEN Null ELSE @]

\* The constructor pushes the nodes of each level in turn to the back of its free
\* list, whose order is then theirs.
ListInit ==
    /\ Init
    /\ heap = [prev  |-> [n \in Node |-> IF n[2] = 1 THEN Null ELSE <<n[1], n[2] - 1>>],
               next  |-> [n \in Node |-> IF n[2] = Size THEN Null ELSE <<n[1], n[2] + 1>>],
               first |-> [l \in List |-> IF l[1] = "free" THEN <<l[2], 1>> ELSE Null],
               last  |-> [l \in List |-> IF l[1] = "free" THEN <<l[2], Size>> ELSE Null]]

ListInsert(item, p) ==
    /\ Insert(item, p)
    /\ heap' = PushBack(PopBack(heap, Free(p)), Queue(p), heap.last[Free(p)])

ListTake(c) ==
    /\ ExtractTake(c)
    /\ \E p \in Prio :
        /\ IsFirstLevel(p)
        /\ heap' = PushBack(PopFront(heap, Queue(p)), Free(p), heap.first[Queue(p)])

ListExtract(c) == (ExtractWait(c) /\ UNCHANGED heap) \/ ListTake(c)

ListNext ==
    \/ \E item \in Item, p \in Prio : ListInsert(item, p)
    \/ \E p \in Prio : InsertFull(p) /\ UNCHANGED heap
    \/ \E c \in Consumers : ListExtract(c)
    \/ \E c \in Consumers : SpuriousWakeup(c) /\ UNCHANGED heap

ListSpec ==
    ListInit /\ [][ListNext]_listVars /\ \A c \in Consumers : WF_listVars(ListExtract(c))
-----------------------------------------------------------------------------
\* The pointers h of list l form the sequence s: from m_first each m_next leads to
\* the node after, from m_last each m_prev to the node before, up to the null
\* pointers at the two ends.
Chained(h, l, s) ==
    /\ h.first[l] = IF s = <<>> THEN Null ELSE s[1]
    /\ h.last[l] = IF s = <<>> THEN Null ELSE s[Len(s)]
    /\ \A i \in 1 .. Len(s) :
        /\ h.prev[s[i]] = IF i = 1 THEN Null ELSE s[i - 1]
        /\ h.next[s[i]] = IF i = Len(s) THEN Null ELSE s[i + 1]

\* Each list's pointers chain its nodes in order, and no others: however long nodes
\* wander between the lists, no pointer is left over that drags one list into
\* another.
ListsAreSequences ==
    \A p \in Prio :
        Chained(heap, Free(p), freeStore[p]) /\ Chained(heap, Queue(p), queueStore[p])
=============================================================================
