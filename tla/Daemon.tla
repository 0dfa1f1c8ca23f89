------------------------------- MODULE Daemon -------------------------------
(***************************************************************************)
(* A running backend, from Backend::run to its return: the main thread, a   *)
(* listener, the job worker, mounted file systems and the sessions of        *)
(* command line and Qt clients.  A command, the configuration file and the   *)
(* shutdown are each a list of operations that some thread carries out, one  *)
(* after the other and interleaved with all the others.                     *)
(***************************************************************************)
EXTENDS Listener, JobQueue, Clients

CONSTANTS User,        \* client programs
          Main,        \* the main thread
          MountAt,     \* paths to mount at
          MaxMounted,  \* bound: MountPoints that a path has at a time
          Config,      \* the operations that the configuration file asks for
          Asks,        \* the lists of commands that clients give
          Capacity,    \* connections at the start
          ByHand,      \* paths that a user unmounts with fusermount
          Env          \* which optional events happen

Thread == User \cup {Main}

\* A MountPoint and the path it mounts at, of which others may be left.
MountPoint == MountAt \X (1 .. MaxMounted)
Path(o) == o[1]

\* What the configuration file sets, and what else a command makes the backend
\* do.
Setting == [op : {"value", "directory"}] \cup [op : {"socket"}, to : Interface]
           \cup [op : {"max"}, n : Nat] \cup [op : {"mount"}, at : MountAt]
Operation == Setting \cup [op : {"unmount"}, imp : Nat]
             \cup [op : {"connect", "sync", "load", "save", "peers", "mounts"}]
Command == [msg : {"set", "KNOWN_PEERS", "MOUNT_POINTS"}, do : Seq(Operation),
            reply : {"UserInterfaceReply", "PeerList", "MountList"}]

ASSUME DaemonAssumption ==
    /\ Main \notin User /\ User \subseteq Job /\ IsFiniteSet(User)
    /\ Config \in Seq(Setting) /\ Asks \subseteq Seq(Command)
    /\ Capacity \in Nat /\ MaxMounted \in Nat /\ ByHand \subseteq MountAt
    /\ Env \subseteq {"interrupt", "unreadable", "slowClient", "badPeer", "busyMount"}

Nobody == "nobody"

VARIABLES
    running,    \* FALSE when an exception has ended the process
    term,       \* m_termNote is readable
    run,        \* where Backend::run is
    mutex,      \* who holds m_mutex of the backend
    session,    \* where a client is in the session for a command
    agenda,     \* the commands it has still to give
    cmd,        \* the command it gives
    got,        \* the type of the reply it has received
    todo,       \* the operations a thread has still to carry out
    midway,     \* threads in the middle of the first of them
    mp,         \* the MountPoint that a thread is mounting or unmounting
    mounts,     \* m_mountPts
    objects,    \* MountPoints that are allocated
    loops,      \* MountPoints whose fuse thread has not ended
    stack,      \* what the kernel has mounted at a path, the last on top
    late,       \* those put into m_mountPts after run() has unmounted all
    pool,       \* connections in m_connPool
    making,     \* connections whose initDH thread runs
    capacity,   \* m_connPool.capacity()
    shaking,    \* connections in the handshake with a peer
    busy,       \* connections that serve a peer, or that a client has left
    lost        \* connections whose session never ends

process == <<running, term, run>>
clients == <<session, agenda, cmd, got>>
threads == <<todo, midway, mp>>
fuse == <<mounts, objects, loops, stack, late>>
connections == <<pool, making, capacity, shaking, busy, lost>>
rest == <<process, mutex, clients, threads, fuse, connections>>
daemonVars == <<listenVars, jobVars, rest>>
-----------------------------------------------------------------------------
(* Operations of a thread *)

Now(t, op) == todo[t] # <<>> /\ Head(todo[t]).op = op
At(t, op) == Now(t, op) /\ t \notin midway
Amid(t, op) == Now(t, op) /\ t \in midway
Begun(t) == midway' = midway \cup {t} /\ UNCHANGED todo
Finished(t) == todo' = [todo EXCEPT ![t] = Tail(@)] /\ midway' = midway \ {t}
Unlocked == mutex = Nobody

\* m_connPool.getAvailable and reassign.
GetAvailable == pool > 0 /\ pool' = pool - 1
Reassign == pool' = pool + 1

\* setDisplayName, setClientSocket.
DoValue(t) ==
    /\ At(t, "value") /\ Unlocked
    /\ Finished(t)
    /\ UNCHANGED <<listenVars, jobVars, process, mutex, clients, mp, fuse, connections>>

\* setDataDir; nothing catches the exception of an unusable directory.
DoDirectory(t) ==
    /\ At(t, "directory") /\ Unlocked
    /\ running' \in IF "unreadable" \in Env THEN BOOLEAN ELSE {TRUE}
    /\ Finished(t)
    /\ UNCHANGED <<listenVars, jobVars, term, run, mutex, clients, mp, fuse, connections>>

\* setLocalSocket and setRemoteSocket call setInterface with the mutex locked.
DoSocket(t) ==
    \/ /\ At(t, "socket") /\ Unlocked
       /\ mutex' = t
       /\ BeginSet(Head(todo[t]).to)
       /\ Begun(t)
       /\ UNCHANGED <<jobVars, process, clients, mp, fuse, connections>>
    \/ /\ Amid(t, "socket")
       /\ mutex' = Nobody
       /\ EndSet
       /\ Finished(t)
       /\ UNCHANGED <<jobVars, process, clients, mp, fuse, connections>>

\* setMaxConnections: new connections start with an initDH thread.
DoMax(t) ==
    /\ At(t, "max") /\ Unlocked
    /\ LET n == Head(todo[t]).n
       IN  IF n > capacity
           THEN capacity' = n /\ making' = making + (n - capacity)
           ELSE UNCHANGED <<capacity, making>>
    /\ Finished(t)
    /\ UNCHANGED <<listenVars, jobVars, process, mutex, clients, mp, fuse, pool, shaking,
                   busy, lost>>

\* MountPoint::unmount runs fusermount, which takes down what is on top at the
\* path, or nothing when that is in use; nothing but the lack of a process for
\* fusermount throws, which is left out.
Fusermount(m) ==
    \/ stack[m] # <<>> /\ stack' = [stack EXCEPT ![m] = Front(@)]
    \/ (stack[m] = <<>> \/ "busyMount" \in Env) /\ UNCHANGED stack

\* MountPoints that can be allocated for a path.
Vacant(m) == {o \in MountPoint : Path(o) = m} \ (objects \cup loops)

\* Backend::mount: fuse_mount, also on top of another file system, and the fuse
\* thread; then push_back.
DoMount(t) ==
    LET m == Head(todo[t]).at
        o == CHOOSE x \in Vacant(m) : TRUE
    IN  \/ /\ At(t, "mount")
           /\ \/ /\ Vacant(m) # {}
                 /\ objects' = objects \cup {o} /\ loops' = loops \cup {o}
                 /\ stack' = [stack EXCEPT ![m] = Append(@, o)]
                 /\ late' = late \ {o}
                 /\ mp' = [mp EXCEPT ![t] = {o}]
                 /\ Begun(t)
              \/ Finished(t) /\ UNCHANGED <<mp, objects, loops, stack, late>>
           /\ UNCHANGED <<listenVars, jobVars, process, mutex, clients, mounts, connections>>
        \/ /\ Amid(t, "mount") /\ run # "unmount"
           /\ \E x \in mp[t] : mounts' = Append(mounts, x)
           /\ late' = IF run \in {"save", "drain"} THEN late \cup mp[t] ELSE late
           /\ mp' = [mp EXCEPT ![t] = {}]
           /\ Finished(t)
           /\ UNCHANGED <<listenVars, jobVars, process, mutex, clients, objects, loops, stack,
                          connections>>

\* Mutant: the last entry is dropped but not moved.
Removed_Last(k) == Front(mounts)
\* m_mountPts without the k-th entry, in whose place the last one goes.
Removed(k) == Front([mounts EXCEPT ![k] = Last(mounts)])

\* Backend::unmount: out of the list; fusermount; then join, and delete.
DoUnmount(t) ==
    \/ /\ At(t, "unmount") /\ run # "unmount"
       /\ LET k == Head(todo[t]).imp
          IN  IF k \in DOMAIN mounts
              THEN /\ mounts' = Removed(k)
                   /\ mp' = [mp EXCEPT ![t] = {mounts[k]}]
                   /\ Fusermount(Path(mounts[k]))
                   /\ Begun(t)
              ELSE Finished(t) /\ UNCHANGED <<mounts, mp, stack>>
       /\ UNCHANGED <<listenVars, jobVars, process, mutex, clients, objects, loops, late,
                      connections>>
    \/ /\ Amid(t, "unmount") /\ mp[t] \cap loops = {}
       /\ objects' = objects \ mp[t]
       /\ mp' = [mp EXCEPT ![t] = {}]
       /\ Finished(t)
       /\ UNCHANGED <<listenVars, jobVars, process, mutex, clients, mounts, loops, stack, late,
                      connections>>

\* Mutant: the mutex is unlocked by hand, and not on every way out.
Released_OnSuccess == IF pool' # pool THEN Nobody ELSE mutex
Released == Nobody

\* attemptConnection keeps the mutex while it connects; onConnect then needs a
\* connection from the pool.
DoConnect(t) ==
    \/ /\ At(t, "connect") /\ Unlocked
       /\ mutex' = t
       /\ Begun(t)
       /\ UNCHANGED <<listenVars, jobVars, process, clients, mp, fuse, connections>>
    \/ /\ Amid(t, "connect")
       /\ \/ UNCHANGED <<pool, shaking>>
          \/ GetAvailable /\ shaking' = shaking + 1
       /\ mutex' = Released
       /\ Finished(t)
       /\ UNCHANGED <<listenVars, jobVars, process, clients, mp, fuse, making, capacity,
                      busy, lost>>

\* The handler of StartSync enqueues a SendTree job.
DoSync(t) ==
    /\ At(t, "sync")
    /\ Enqueue(t)
    /\ Finished(t)
    /\ UNCHANGED <<listenVars, process, mutex, clients, mp, fuse, connections>>

\* loadConfig; nothing catches the exception of a file that cannot be read.
\* What the file sets is set one after the other.
DoLoad(t) ==
    /\ At(t, "load")
    /\ running' \in IF "unreadable" \in Env THEN BOOLEAN ELSE {TRUE}
    /\ todo' = [todo EXCEPT ![t] = Config \o Tail(@)]
    /\ UNCHANGED <<listenVars, jobVars, term, run, mutex, clients, midway, mp, fuse,
                   connections>>

\* getKnownPeers locks nothing, getMounts the list of mount points.
DoQuery(t) ==
    /\ At(t, "peers") \/ (At(t, "mounts") /\ run # "unmount")
    /\ Finished(t)
    /\ UNCHANGED <<listenVars, jobVars, process, mutex, clients, mp, fuse, connections>>

\* saveConfig walks m_mountPts without its lock, while others may change it.
Overlapped(t) ==
    \/ \E x \in Thread \ {t} : Now(x, "mount") \/ Now(x, "unmount")
    \/ t # Main /\ run = "save"

\* Nothing catches the exception of a file that cannot be written.
DoSave(t) ==
    /\ At(t, "save") /\ Unlocked
    /\ running' \in IF "unreadable" \in Env \/ Overlapped(t) THEN BOOLEAN ELSE {TRUE}
    /\ Finished(t)
    /\ UNCHANGED <<listenVars, jobVars, term, run, mutex, clients, mp, fuse, connections>>

\* One MountPoint of the loop in Backend::run that unmounts them all.
DoLeave(t) ==
    LET o == Head(todo[t]).of
    IN  \/ /\ At(t, "leave")
           /\ Fusermount(Path(o))
           /\ Begun(t)
           /\ UNCHANGED <<listenVars, jobVars, process, mutex, clients, mp, mounts, objects, loops,
                          late, connections>>
        \/ /\ Amid(t, "leave") /\ o \notin loops
           /\ Finished(t)
           /\ UNCHANGED <<listenVars, jobVars, process, mutex, clients, mp, fuse, connections>>

Do(t) ==
    \/ DoValue(t) \/ DoDirectory(t) \/ DoSocket(t) \/ DoMax(t) \/ DoMount(t)
    \/ DoUnmount(t) \/ DoConnect(t) \/ DoSync(t) \/ DoLoad(t) \/ DoQuery(t)
    \/ DoSave(t) \/ DoLeave(t)
-----------------------------------------------------------------------------
(* A client and its connection *)

Step(u, from, to) == session[u] = from /\ session' = [session EXCEPT ![u] = to]

\* connectToClient, for the next command.
ClientDials(u) ==
    /\ Step(u, "out", "dialled") /\ agenda[u] # <<>>
    /\ cmd' = [cmd EXCEPT ![u] = Head(agenda[u])]
    /\ agenda' = [agenda EXCEPT ![u] = Tail(@)]
    /\ got' = [got EXCEPT ![u] = Nobody]
    /\ Dial(u)
    /\ UNCHANGED <<jobVars, process, mutex, threads, fuse, connections>>

\* The listener closed its socket, and the kernel drops whom it held for it.
ClientDropped(u) ==
    /\ Step(u, "dialled", "gone") /\ u \notin Range(backlog)
    /\ UNCHANGED <<listenVars, jobVars, process, mutex, agenda, cmd, got, threads, fuse, connections>>

\* accept and onConnect; without a connection in the pool the socket is closed.
AcceptClient ==
    /\ backlog # <<>> /\ Accept
    /\ IF pool > 0
       THEN Step(Head(backlog), "dialled", "greeting") /\ GetAvailable
       ELSE Step(Head(backlog), "dialled", "gone") /\ UNCHANGED pool
    /\ UNCHANGED <<jobVars, process, mutex, agenda, cmd, got, threads, fuse, making, capacity,
                   shaking, busy, lost>>

\* Both have sent an AuthRequest, and the client sends its command.
Welcome(u) ==
    /\ Step(u, "greeting", "sent")
    /\ UNCHANGED <<listenVars, jobVars, process, mutex, agenda, cmd, got, threads, fuse, connections>>

\* The client dies, or the program ends, in the handshake: the exception leaves
\* the connection in its worker's loop, without a listener.
WelcomeCut(u) ==
    /\ "slowClient" \in Env
    /\ Step(u, "greeting", "gone")
    /\ lost' = lost + 1
    /\ UNCHANGED <<listenVars, jobVars, process, mutex, agenda, cmd, got, threads, fuse, pool,
                   making, capacity, shaking, busy>>

\* The connection's listener reads the command, and the worker takes it.
ReadCommand(u) ==
    /\ Step(u, "sent", "asked")
    /\ todo' = [todo EXCEPT ![u] = cmd[u].do]
    /\ UNCHANGED <<listenVars, jobVars, process, mutex, agenda, cmd, got, midway, mp, fuse,
                   connections>>

\* It finds the termination pipe readable before the command has arrived.
ReadCut(u) ==
    /\ term /\ Step(u, "sent", "gone")
    /\ busy' = busy + 1
    /\ UNCHANGED <<listenVars, jobVars, process, mutex, agenda, cmd, got, threads, fuse, pool,
                   making, capacity, shaking, lost>>

\* The reply of the handler.
ReplyTo(c) ==
    CASE c.msg = "set" -> "UserInterfaceReply"
      [] c.msg = "KNOWN_PEERS" -> "PeerList"
      [] c.msg = "MOUNT_POINTS" -> "MountList"

\* The worker has done all of it, the shouter sends the reply.
Reply(u) ==
    /\ todo[u] = <<>> /\ Step(u, "asked", "answered")
    /\ got' = [got EXCEPT ![u] = ReplyTo(cmd[u])]
    /\ UNCHANGED <<listenVars, jobVars, process, mutex, agenda, cmd, threads, fuse, connections>>

\* The client has its reply and closes its socket.  (Or the program ends.)
HangUp(u) ==
    /\ Step(u, "answered", "out")
    /\ busy' = busy + 1
    /\ UNCHANGED <<listenVars, jobVars, process, mutex, agenda, cmd, got, threads, fuse, pool,
                   making, capacity, shaking, lost>>

ClientStep(u) ==
    \/ ClientDropped(u) \/ Welcome(u) \/ ReadCommand(u) \/ ReadCut(u) \/ Reply(u) \/ HangUp(u)

\* The handshake with a peer is over, and the peer map has room for it.
PeerWelcomed ==
    /\ shaking > 0
    /\ shaking' = shaking - 1 /\ busy' = busy + 1
    /\ UNCHANGED <<listenVars, jobVars, process, mutex, clients, threads, fuse, pool, making,
                   capacity, lost>>

\* The handshake throws, or registerPeer waits for a connection that never
\* leaves the map: the session does not end, not even with the program.
PeerLost ==
    /\ "badPeer" \in Env /\ shaking > 0
    /\ shaking' = shaking - 1 /\ lost' = lost + 1
    /\ UNCHANGED <<listenVars, jobVars, process, mutex, clients, threads, fuse, pool, making,
                   capacity, busy>>

PeerStep == PeerWelcomed \/ PeerLost

\* A session ends, and its connection goes back to the pool.
ReturnConnection ==
    /\ busy > 0
    /\ busy' = busy - 1 /\ Reassign
    /\ UNCHANGED <<listenVars, jobVars, process, mutex, clients, threads, fuse, making, capacity,
                   shaking, lost>>

\* Connection::dispatch_initDH.
Made ==
    /\ making > 0
    /\ making' = making - 1 /\ Reassign
    /\ UNCHANGED <<listenVars, jobVars, process, mutex, clients, threads, fuse, capacity, shaking,
                   busy, lost>>

\* The fuse loop ends when its file system is unmounted; main() then uses the
\* MountPoint, which somebody may have deleted.
FuseLoopEnds(o) ==
    /\ o \in loops /\ o \notin Range(stack[Path(o)])
    /\ running' \in IF o \in objects THEN {TRUE} ELSE BOOLEAN
    /\ loops' = loops \ {o}
    /\ UNCHANGED <<listenVars, jobVars, term, run, mutex, clients, threads, mounts, objects, stack,
                   late, connections>>

\* Somebody unmounts by hand.
UnmountedByHand(m) ==
    /\ m \in ByHand /\ stack[m] # <<>>
    /\ stack' = [stack EXCEPT ![m] = Front(@)]
    /\ UNCHANGED <<listenVars, jobVars, process, mutex, clients, threads, mounts, objects, loops,
                   late, connections>>
-----------------------------------------------------------------------------
(* Backend::run *)

Leaving == [i \in DOMAIN mounts |-> [op |-> "leave", of |-> mounts[i]]]
Turn(from, to) == run = from /\ run' = to /\ todo[Main] = <<>>
Then(ops) == todo' = [todo EXCEPT ![Main] = ops]

\* SIGINT.
Sigint ==
    /\ "interrupt" \in Env /\ ~term
    /\ term' = TRUE
    /\ UNCHANGED <<listenVars, jobVars, running, run, mutex, clients, threads, fuse, connections>>

\* The interfaces are set; then loadConfig.
RunLoads ==
    /\ Turn("boot", "load")
    /\ Then(<<[op |-> "load"]>>)
    /\ UNCHANGED <<listenVars, jobVars, running, term, mutex, clients, midway, mp, fuse,
                   connections>>

\* run waits for the termination pipe, then enqueues the JobKiller.
RunKillsJobs ==
    /\ term /\ Turn("load", "joinJobs")
    /\ Enqueue(Killer)
    /\ UNCHANGED <<listenVars, running, term, mutex, clients, threads, fuse, connections>>

RunJoinsJobs ==
    /\ ~working /\ Turn("joinJobs", "joinListener")
    /\ UNCHANGED <<listenVars, jobVars, running, term, mutex, clients, threads, fuse, connections>>

\* It unmounts everything with the list of mount points locked.
RunUnmounts ==
    /\ listens = "stopped" /\ Turn("joinListener", "unmount")
    /\ Then(Leaving)
    /\ UNCHANGED <<listenVars, jobVars, running, term, mutex, clients, midway, mp, fuse,
                   connections>>

RunSaves ==
    /\ Turn("unmount", "save")
    /\ Then(<<[op |-> "save"]>>)
    /\ UNCHANGED <<listenVars, jobVars, running, term, mutex, clients, midway, mp, fuse,
                   connections>>

\* It deletes the MountPoints that are in the list by now.
RunDestroys ==
    /\ Turn("save", "drain")
    /\ objects' = objects \ Range(mounts) /\ mounts' = <<>>
    /\ UNCHANGED <<listenVars, jobVars, running, term, mutex, clients, threads, loops, stack, late,
                   connections>>

\* All connections are back in the pool.
RunReturns ==
    /\ pool >= capacity /\ Turn("drain", "done")
    /\ UNCHANGED <<listenVars, jobVars, running, term, mutex, clients, threads, fuse, connections>>

MainStep ==
    \/ RunLoads \/ RunKillsJobs \/ RunJoinsJobs \/ RunUnmounts \/ RunSaves
    \/ RunDestroys \/ RunReturns
-----------------------------------------------------------------------------
ListenerStep ==
    \/ /\ ListenStep \/ (term /\ StopListening)
       /\ UNCHANGED <<jobVars, rest>>
    \/ ~term /\ AcceptClient
JobStep == WorkerStep /\ UNCHANGED <<listenVars, rest>>

DaemonInit ==
    /\ ListenInit /\ JobInit
    /\ running = TRUE /\ term = FALSE /\ run = "boot"
    /\ mutex = Nobody
    /\ session = [u \in User |-> "out"]
    /\ agenda \in [User -> Asks \cup {<<>>}]
    /\ cmd = [u \in User |-> ListMounts]
    /\ got = [u \in User |-> Nobody]
    /\ todo = [t \in Thread |-> IF t = Main THEN <<[op |-> "socket", to |-> First]>> ELSE <<>>]
    /\ midway = {} /\ mp = [t \in Thread |-> {}]
    /\ mounts = <<>> /\ objects = {} /\ loops = {} /\ late = {}
    /\ stack = [m \in MountAt |-> <<>>]
    /\ pool = 0 /\ making = Capacity /\ capacity = Capacity
    /\ shaking = 0 /\ busy = 0 /\ lost = 0

Alive == running /\ run # "done"
DaemonNext ==
    /\ Alive
    /\ \/ \E t \in Thread : Do(t)
       \/ \E u \in User : ClientDials(u) \/ ClientStep(u) \/ WelcomeCut(u)
       \/ \E o \in MountPoint : FuseLoopEnds(o)
       \/ \E m \in MountAt : UnmountedByHand(m)
       \/ ListenerStep \/ JobStep \/ MainStep \/ PeerStep \/ ReturnConnection \/ Made \/ Sigint
DaemonSpec == DaemonInit /\ [][DaemonNext]_daemonVars

\* Every thread keeps running.  Nobody has to dial, to press ^C or to unmount
\* by hand, and a peer need not finish its handshake before the program ends.
DaemonFairness ==
    /\ \A t \in Thread : WF_daemonVars(Alive /\ Do(t))
    /\ \A u \in User : WF_daemonVars(Alive /\ ClientStep(u))
    /\ \A o \in MountPoint : WF_daemonVars(Alive /\ FuseLoopEnds(o))
    /\ WF_daemonVars(Alive /\ ListenerStep) /\ WF_daemonVars(Alive /\ JobStep)
    /\ WF_daemonVars(Alive /\ MainStep) /\ WF_daemonVars(Alive /\ term /\ PeerStep)
    /\ WF_daemonVars(Alive /\ Made) /\ WF_daemonVars(Alive /\ ReturnConnection)
-----------------------------------------------------------------------------
(* Properties *)

Held == Range(mounts) \cup UNION {mp[t] : t \in Thread}

\* A fuse loop that runs belongs to a MountPoint that is allocated and that
\* somebody will unmount: it is in m_mountPts, or a thread is about to put it
\* there or to take it down.  The exception is the race that the comment before
\* saveConfig in Backend::run speaks of: what is mounted between its two loops.
LoopsAreKnown == \A o \in loops \ late : o \in objects /\ o \in Held

\* A thread has run fusermount and joins a fuse thread whose file system is
\* still mounted: it was in use, or another one is mounted over it.
Hangs(t) ==
    \E o \in IF Amid(t, "leave") THEN {Head(todo[t]).of}
             ELSE IF Amid(t, "unmount") THEN mp[t] ELSE {} : o \in Range(stack[Path(o)])

\* Every change of the interface is taken up, also one that comes while the
\* thread reads the last one: the thread comes to read the newest interface.
ListensOnNewest == (tried # iface) ~> (tried = iface \/ listens = "stopped" \/ ~running)

\* A client that has sent its command gets a reply of the type it expects,
\* whatever other clients, the configuration and the listeners do; only the
\* end of the program takes it away, or a file system that it asks to unmount
\* and that stays mounted.
Answered == \A u \in User :
    (session[u] = "sent") ~> (got[u] = cmd[u].reply \/ term \/ ~running \/ []Hangs(u))

\* After SIGINT run() returns: the jobs before the JobKiller are done, the
\* listener stops, all file systems are unmounted and every connection comes
\* back to the pool.  It stops for ever only at a file system that stays mounted,
\* or in its last loop, at a connection whose handshake has failed.
ShutdownEnds ==
    term ~> \/ run = "done" \/ ~running
            \/ run = "drain" /\ lost > 0
            \/ [](\E t \in Thread : Hangs(t))
=============================================================================
