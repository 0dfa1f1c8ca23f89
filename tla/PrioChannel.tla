---------------------------- MODULE PrioChannel ----------------------------
(***************************************************************************)
(* What PriorityQueue promises its users: one unbounded FIFO channel per    *)
(* priority level, receivers taking from the most urgent non-empty one.     *)
(***************************************************************************)
EXTENDS Integers, Sequences

CONSTANTS Prio, Consumers, Item, None

VARIABLES chan,  \* the items under way at each level
          got    \* the last item each consumer received

Init ==
    /\ chan = [p \in Prio |-> <<>>]
    /\ got = [c \in Consumers |-> None]

Send(item, p) ==
    /\ chan' = [chan EXCEPT ![p] = Append(@, item)]
    /\ UNCHANGED got

Receive(c, p) ==
    /\ chan[p] # <<>>
    /\ \A q \in Prio : chan[q] # <<>> => p <= q
    /\ got' = [got EXCEPT ![c] = Head(chan[p])]
    /\ chan' = [chan EXCEPT ![p] = Tail(@)]

Next ==
    \/ \E item \in Item, p \in Prio : Send(item, p)
    \/ \E c \in Consumers, p \in Prio : Receive(c, p)

Spec == Init /\ [][Next]_<<chan, got>>
=============================================================================
