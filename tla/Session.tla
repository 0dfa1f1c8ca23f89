------------------------------ MODULE Session ------------------------------
(***************************************************************************)
(* Connections of a backend, from onConnect to the pool and back.  A        *)
(* Connection runs a main thread (handshake, then the MessageHandler's      *)
(* loop, then the clean-up), a listener and a shouter.  Backend::m_peerMap   *)
(* names the connection of every registered peer; jobs send through it.     *)
(* A second connection of a peer sleeps on the condition of m_peerMap until *)
(* the first one is gone.                                                   *)
(***************************************************************************)
EXTENDS Naturals, SequencesExt

CONSTANTS Conn, Worker,  \* the objects of the two pools
          Peer, UI,      \* who connects: peers, or a local user interface
          Fragile,       \* the connections whose sockets may break
          Env,           \* which optional environment steps happen
          MaxClients,    \* bound: accepted sockets
          MaxMsgs        \* bound: messages read or sent by jobs

ASSUME ClientAssumption == UI \notin Peer
ASSUME FragileAssumption == Fragile \subseteq Conn
ASSUME EnvAssumption ==
    Env \subseteq {"handshakeFails", "messages", "spuriousWakeup", "userInterface"}
ASSUME BoundAssumption == MaxClients \in Nat /\ MaxMsgs \in Nat

None == [none |-> TRUE]
Quit == [quit |-> TRUE]
Client == Peer \cup {UI}

ASSUME PoolAssumption == IsFiniteSet(Conn) /\ IsFiniteSet(Worker)
ASSUME NoneAssumption == None \notin Conn \cup Worker \cup Client /\ Quit \notin Client

VARIABLES
    connPool, workerPool,  \* the available objects, the next one last
    peerMap,    \* m_peerMap: the connection of each registered peer, or None
    asleep,     \* connections waiting on the condition of m_peerMap
    pc,         \* what the main thread of a connection does next
    client,     \* who is at the other end of m_sockfd
    alive,      \* whether that socket still works
    peerId,     \* m_peerId, None for 0
    worker,     \* m_worker, None for null
    claimed,    \* a handleClient call that waits for m_mutex: its client and worker
    listening,  \* the listener thread runs
    shouting,   \* the shouter thread runs
    inbound,    \* m_inboundMessages: senders, Quit
    outbound,   \* m_outboundMessages: addressees, Quit
    clients, msgs

pools == <<connPool, workerPool>>
registry == <<peerMap, asleep>>
socket == <<client, alive>>
threads == <<listening, shouting>>
queues == <<inbound, outbound>>
bounds == <<clients, msgs>>
vars == <<pools, registry, pc, socket, peerId, worker, claimed, threads, queues, bounds>>

Init ==
    /\ connPool = SetToSeq(Conn) /\ workerPool = SetToSeq(Worker)
    /\ peerMap = [p \in Peer |-> None]
    /\ asleep = {}
    /\ pc = [c \in Conn |-> "idle"]
    /\ client = [c \in Conn |-> None]
    /\ alive = [c \in Conn |-> FALSE]
    /\ peerId = [c \in Conn |-> None]
    /\ worker = [c \in Conn |-> None]
    /\ claimed = [c \in Conn |-> None]
    /\ listening = [c \in Conn |-> FALSE]
    /\ shouting = [c \in Conn |-> FALSE]
    /\ inbound = [c \in Conn |-> <<>>]
    /\ outbound = [c \in Conn |-> <<>>]
    /\ clients = 0 /\ msgs = 0

Goto(c, label) == pc' = [pc EXCEPT ![c] = label]
-----------------------------------------------------------------------------
(* A client connects *)

\* Backend::onConnect with an available connection and worker.
OnConnect(p) ==
    /\ connPool # <<>> /\ workerPool # <<>>
    /\ p = UI => "userInterface" \in Env
    /\ clients < MaxClients /\ clients' = clients + 1
    /\ connPool' = Front(connPool)
    /\ workerPool' = Front(workerPool)
    /\ claimed' = [claimed EXCEPT ![Last(connPool)] = [client |-> p, worker |-> Last(workerPool)]]
    /\ UNCHANGED <<registry, pc, socket, peerId, worker, threads, queues, msgs>>

\* Mutant: handleClient does not lock.
MutexFree_Always(c) == TRUE
\* m_mutex: main() holds it from its clean-up to its end.
MutexFree(c) == pc[c] = "idle"

\* Connection::handleClient.
HandleClient(c) ==
    /\ claimed[c] # None
    /\ MutexFree(c)
    /\ client' = [client EXCEPT ![c] = claimed[c].client]
    /\ alive' = [alive EXCEPT ![c] = TRUE]
    /\ worker' = [worker EXCEPT ![c] = claimed[c].worker]
    /\ claimed' = [claimed EXCEPT ![c] = None]
    /\ Goto(c, "handshake")
    /\ UNCHANGED <<pools, registry, peerId, threads, queues, bounds>>

\* The handshake ends; a user interface is not registered.
Handshake(c) ==
    /\ pc[c] = "handshake"
    /\ IF client[c] = UI
       THEN /\ Goto(c, "work")
            /\ listening' = [listening EXCEPT ![c] = TRUE]
            /\ shouting' = [shouting EXCEPT ![c] = TRUE]
       ELSE Goto(c, "register") /\ UNCHANGED threads
    /\ UNCHANGED <<pools, registry, socket, peerId, worker, claimed, queues, bounds>>

\* It throws: main() goes on to the worker's loop without the other threads.
HandshakeFails(c) ==
    /\ "handshakeFails" \in Env
    /\ pc[c] = "handshake"
    /\ Goto(c, "work")
    /\ UNCHANGED <<pools, registry, socket, peerId, worker, claimed, threads, queues, bounds>>
-----------------------------------------------------------------------------
(* The peer map *)

\* Condition::signal: one of the sleepers, if there is one.
Signal(sleepers) ==
    IF sleepers = {} THEN {{}} ELSE {sleepers \ {c} : c \in sleepers}

\* Mutant: a second connection of a peer takes over the entry.
Vacant_Always(p) == TRUE
Vacant(p) == peerMap[p] = None

\* Backend::registerPeer, each time round its loop.
RegisterPeer(c) ==
    /\ pc[c] = "register" /\ c \notin asleep
    /\ IF Vacant(client[c])
       THEN /\ peerMap' = [peerMap EXCEPT ![client[c]] = c]
            /\ asleep' \in Signal(asleep)
            /\ Goto(c, "registered")
       ELSE asleep' = asleep \cup {c} /\ UNCHANGED <<peerMap, pc>>
    /\ UNCHANGED <<pools, socket, peerId, worker, claimed, threads, queues, bounds>>

\* pthread_cond_wait may return without a signal.
SpuriousWakeup(c) ==
    /\ "spuriousWakeup" \in Env
    /\ c \in asleep
    /\ asleep' = asleep \ {c}
    /\ UNCHANGED <<pools, peerMap, pc, socket, peerId, worker, claimed, threads, queues, bounds>>

\* handshake() stores the id that registerPeer returned; main() launches.
Launch(c) ==
    /\ pc[c] = "registered"
    /\ peerId' = [peerId EXCEPT ![c] = client[c]]
    /\ listening' = [listening EXCEPT ![c] = TRUE]
    /\ shouting' = [shouting EXCEPT ![c] = TRUE]
    /\ Goto(c, "work")
    /\ UNCHANGED <<pools, registry, socket, worker, claimed, queues, bounds>>

\* Connection::enqueueMessage: dropped when the connection has another peer.
Enqueued(c, p) ==
    IF peerId[c] = p THEN [outbound EXCEPT ![c] = Append(@, p)] ELSE outbound

\* Backend::sendMessage, called by a job.
SendMessage(p) ==
    /\ "messages" \in Env
    /\ msgs < MaxMsgs /\ msgs' = msgs + 1
    /\ outbound' = IF peerMap[p] = None THEN outbound ELSE Enqueued(peerMap[p], p)
    /\ asleep' \in Signal(asleep)
    /\ UNCHANGED <<pools, peerMap, pc, socket, peerId, worker, claimed, threads,
                   inbound, clients>>
-----------------------------------------------------------------------------
(* The session *)

\* The socket breaks or the other side closes it.
Hangup(c) ==
    /\ c \in Fragile
    /\ alive[c] /\ pc[c] # "handshake"
    /\ alive' = [alive EXCEPT ![c] = FALSE]
    /\ UNCHANGED <<pools, registry, pc, client, peerId, worker, claimed, threads, queues, bounds>>

\* Connection::listen reads a message.
Listen(c) ==
    /\ "messages" \in Env
    /\ listening[c] /\ alive[c]
    /\ msgs < MaxMsgs /\ msgs' = msgs + 1
    /\ inbound' = [inbound EXCEPT ![c] = Append(@, client[c])]
    /\ UNCHANGED <<pools, registry, pc, socket, peerId, worker, claimed, threads,
                   outbound, clients>>

\* Connection::listen ends: the read throws.
ListenEnd(c) ==
    /\ listening[c] /\ ~alive[c]
    /\ inbound' = [inbound EXCEPT ![c] = Append(@, Quit)]
    /\ listening' = [listening EXCEPT ![c] = FALSE]
    /\ UNCHANGED <<pools, registry, pc, socket, peerId, worker, claimed, shouting,
                   outbound, bounds>>

\* MessageHandler::main handles a message, with or without a reply.
Handle(c) ==
    /\ pc[c] = "work" /\ inbound[c] # <<>>
    /\ inbound' = [inbound EXCEPT ![c] = Tail(@)]
    /\ IF Head(inbound[c]) = Quit
       THEN Goto(c, "joinListener") /\ UNCHANGED outbound
       ELSE /\ \/ UNCHANGED outbound
               \/ outbound' = [outbound EXCEPT ![c] = Append(@, client[c])]
            /\ UNCHANGED pc
    /\ UNCHANGED <<pools, registry, socket, peerId, worker, claimed, threads, bounds>>

\* Mutant: nobody tells the shouter to quit.
AfterListener_Silent(q) == q
AfterListener(q) == Append(q, Quit)

JoinListener(c) ==
    /\ pc[c] = "joinListener" /\ ~listening[c]
    /\ outbound' = [outbound EXCEPT ![c] = AfterListener(@)]
    /\ Goto(c, "joinShouter")
    /\ UNCHANGED <<pools, registry, socket, peerId, worker, claimed, threads, inbound, bounds>>

\* Connection::shout takes a message; when the socket is dead the write throws.
Shout(c) ==
    /\ shouting[c] /\ outbound[c] # <<>> /\ Head(outbound[c]) # Quit
    /\ outbound' = [outbound EXCEPT ![c] = Tail(@)]
    /\ shouting' = [shouting EXCEPT ![c] = alive[c]]
    /\ UNCHANGED <<pools, registry, pc, socket, peerId, worker, claimed, listening,
                   inbound, bounds>>

\* It takes the Quit, which overtakes messages of lower priority.
ShoutQuit(c) ==
    /\ shouting[c]
    /\ \E i \in DOMAIN outbound[c] :
        /\ outbound[c][i] = Quit
        /\ outbound' = [outbound EXCEPT
               ![c] = SubSeq(@, 1, i - 1) \o SubSeq(@, i + 1, Len(@))]
    /\ shouting' = [shouting EXCEPT ![c] = FALSE]
    /\ UNCHANGED <<pools, registry, pc, socket, peerId, worker, claimed, listening,
                   inbound, bounds>>
-----------------------------------------------------------------------------
(* The clean-up, with m_mutex locked *)

\* Backend::unregisterPeer.
Unregister(c) ==
    /\ pc[c] = "joinShouter" /\ ~shouting[c]
    /\ IF peerId[c] = None
       THEN UNCHANGED registry
       ELSE /\ peerMap' = [peerMap EXCEPT ![peerId[c]] = None]
            /\ asleep' \in Signal(asleep)
    /\ Goto(c, "reset")
    /\ UNCHANGED <<pools, socket, peerId, worker, claimed, threads, queues, bounds>>

\* Mutant: m_peerId keeps the peer of the session that ends.
IdAfter_Kept(c) == peerId[c]
IdAfter(c) == None
\* Mutant: unsent messages stay in the queue.
QueueAfter_Kept(c) == outbound[c]
QueueAfter(c) == <<>>

\* m_peerId = 0, and the unsent messages are dropped.
Reset(c) ==
    /\ pc[c] = "reset"
    /\ peerId' = [peerId EXCEPT ![c] = IdAfter(c)]
    /\ outbound' = [outbound EXCEPT ![c] = QueueAfter(c)]
    /\ Goto(c, "return")
    /\ UNCHANGED <<pools, registry, socket, worker, claimed, threads, inbound, bounds>>

\* Mutant: m_worker is cleared first.
WorkerThen_None(c) == None
WorkerThen(c) == worker[c]

\* Connection::returnToPool: first the connection, then its worker, and at the
\* end m_worker is cleared and main() unlocks m_mutex.
ReturnConn(c) ==
    /\ pc[c] = "return"
    /\ client' = [client EXCEPT ![c] = None]
    /\ connPool' = Append(connPool, c)
    /\ worker' = [worker EXCEPT ![c] = WorkerThen(c)]
    /\ Goto(c, "returnWorker")
    /\ UNCHANGED <<workerPool, registry, alive, peerId, claimed, threads, queues, bounds>>

ReturnWorker(c) ==
    /\ pc[c] = "returnWorker"
    /\ workerPool' = Append(workerPool, worker[c])
    /\ Goto(c, "unlock")
    /\ UNCHANGED <<connPool, registry, socket, peerId, worker, claimed, threads, queues, bounds>>

Unlock(c) ==
    /\ pc[c] = "unlock"
    /\ worker' = [worker EXCEPT ![c] = None]
    /\ Goto(c, "idle")
    /\ UNCHANGED <<pools, registry, socket, peerId, claimed, threads, queues, bounds>>
-----------------------------------------------------------------------------
MainStep(c) ==
    \/ HandleClient(c) \/ Handshake(c) \/ RegisterPeer(c) \/ Launch(c) \/ Handle(c)
    \/ JoinListener(c) \/ Unregister(c) \/ Reset(c) \/ ReturnConn(c) \/ ReturnWorker(c)
    \/ Unlock(c)
ShouterStep(c) == Shout(c) \/ ShoutQuit(c)

Next ==
    \/ \E c \in Conn :
        \/ MainStep(c) \/ ShouterStep(c) \/ ListenEnd(c)
        \/ HandshakeFails(c) \/ SpuriousWakeup(c) \/ Hangup(c) \/ Listen(c)
    \/ \E p \in Peer : SendMessage(p)
    \/ \E p \in Client : OnConnect(p)

Spec == Init /\ [][Next]_vars

\* Every thread of the program keeps running; nobody has to connect, to hang
\* up, to send or to wake up without a signal.
FairSpec ==
    /\ Spec
    /\ \A c \in Conn : WF_vars(MainStep(c)) /\ WF_vars(ShouterStep(c)) /\ WF_vars(ListenEnd(c))
-----------------------------------------------------------------------------
(* Properties *)

Registered(c) ==
    \/ pc[c] = "registered"
    \/ pc[c] \in {"work", "joinListener", "joinShouter"} /\ peerId[c] # None
Serving(c) == pc[c] \notin {"idle", "unlock"}
HolderOf(w) ==
    {c \in Conn : Serving(c) /\ worker[c] = w}
        \cup {c \in Conn : claimed[c] # None /\ claimed[c].worker = w}

\* Types of the state.
TypeOK ==
    /\ connPool \in Seq(Conn) /\ workerPool \in Seq(Worker)
    /\ peerMap \in [Peer -> Conn \cup {None}]
    /\ asleep \subseteq Conn
    /\ pc \in [Conn -> {"idle", "handshake", "register", "registered", "work", "joinListener",
                        "joinShouter", "reset", "return", "returnWorker", "unlock"}]
    /\ client \in [Conn -> Client \cup {None}]
    /\ alive \in [Conn -> BOOLEAN]
    /\ peerId \in [Conn -> Peer \cup {None}]
    /\ worker \in [Conn -> Worker \cup {None}]
    /\ claimed \in [Conn -> [client : Client, worker : Worker] \cup {None}]
    /\ listening \in [Conn -> BOOLEAN] /\ shouting \in [Conn -> BOOLEAN]
    /\ inbound \in [Conn -> Seq(Client \cup {Quit})]
    /\ outbound \in [Conn -> Seq(Client \cup {Quit})]
    /\ clients \in Nat /\ msgs \in Nat

\* A worker is available or serves one connection, although returnToPool gives
\* the connection away before it forgets its worker.
WorkersAreExclusive ==
    \A w \in Worker : Cardinality(HolderOf(w)) = IF w \in Range(workerPool) THEN 0 ELSE 1

\* m_peerMap names the one registered connection of a peer, from registerPeer
\* to that connection's own unregisterPeer: no session that ends removes the
\* entry of another one.
MapIsExact == \A p \in Peer, c \in Conn : peerMap[p] = c <=> Registered(c) /\ client[c] = p

\* What waits in the queues of a connection comes from, or is meant for, the
\* client it serves now, never for the one it served before.
OnlyItsClient ==
    \A c \in Conn : \A q \in {inbound[c], outbound[c]} :
        \A i \in DOMAIN q : q[i] \in {client[c], Quit}

\* A session whose socket is dead ends and the connection is available again,
\* whatever waits in its queues and whichever of its threads notices first.  (A
\* session whose handshake failed has no listener and never ends.)
SessionEnds == \A c \in Conn : (listening[c] /\ ~alive[c]) ~> (pc[c] = "idle")

\* A connection that waits for its peer's entry gets it, or another connection
\* of that peer does, once the entry is vacant.
WaiterRegisters ==
    \A c \in Conn : (c \in asleep /\ peerMap[client[c]] = None)
                      ~> (c \notin asleep \/ peerMap[client[c]] # None)
=============================================================================
