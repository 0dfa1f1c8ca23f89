------------------------------ MODULE PeerIds ------------------------------
(***************************************************************************)
(* Version vectors are keyed by peer ids, and every backend numbers the     *)
(* peers as it meets them: known_clients gives the n-th public key the id   *)
(* n, the backend itself is 0.  A backend translates the keys of a vector   *)
(* it receives with the table that the sender's IdMap message filled in,    *)
(* which belongs to the MessageHandler of the connection, is empty before   *)
(* the first IdMap and survives the connection.                            *)
(*                                                                         *)
(* Replication.tla takes peers as keys.  Here one file that every peer has  *)
(* checked out is followed with local keys, and beside each local vector    *)
(* the vector it stands for.                                               *)
(***************************************************************************)
EXTENDS VersionVector, SequencesExt

CONSTANTS Peer,      \* the backends, as their public keys
          Writers,   \* those whose user writes the file
          Met,       \* the pairs {n, m} of peers that ever connect
          Env,       \* which optional environment steps happen
          MaxEdits,  \* bound: closes with changes
          MaxSyncs,  \* bound: synchronisations users ask for
          MaxDrops   \* bound: lost connections

ASSUME PeerAssumption == IsFiniteSet(Peer)
ASSUME WriterAssumption == Writers \subseteq Peer
ASSUME EnvAssumption == Env \subseteq {"connectDuringSync", "learnDuringSync"}
ASSUME BoundAssumption == MaxEdits \in Nat /\ MaxSyncs \in Nat /\ MaxDrops \in Nat

None == [none |-> TRUE]
Zero == [p \in Peer |-> 0]
Link == {l \in Peer \X Peer : l[1] # l[2]}
NoMap == [k \in {} |-> 0]

VARIABLES
    known,    \* known_clients: the keys in the order of their ids
    version,  \* the rows of table "version" of the file
    truth,    \* the vector, keyed by peers, that the rows stand for
    workers,  \* m_workerPool, as the m_peerMap of each idle MessageHandler
    trans,    \* trans[<<n, m>>]: m_peerMap of n's worker for m
    up,       \* connections, as sets {n, m}
    jobs,     \* the JobWorker list: SendTree and SendFile jobs, the first running
    link,     \* link[<<n, m>>]: messages of n that m has not handled
    row,      \* row[<<n, m>>]: n's downloads row for the file from m
    syncs, drops

vars == <<known, version, truth, workers, trans, up, jobs, link, row, syncs, drops>>

Init ==
    /\ known = [n \in Peer |-> <<>>]
    /\ version = [n \in Peer |-> [k \in {0} |-> 0]]
    /\ truth = [n \in Peer |-> Zero]
    /\ workers = [n \in Peer |-> [i \in 1 .. Cardinality(Peer) |-> NoMap]]
    /\ trans = [l \in Link |-> NoMap]
    /\ up = {}
    /\ jobs = [n \in Peer |-> <<>>]
    /\ link = [l \in Link |-> <<>>]
    /\ row = [l \in Link |-> None]
    /\ syncs = 0 /\ drops = 0
-----------------------------------------------------------------------------
(* Ids *)

\* Database::registerPeer: INSERT OR IGNORE, the row's position is its id.
Registered(keys, n, p) == IF p = n \/ p \in Range(keys) THEN keys ELSE Append(keys, p)

\* Backend::m_idMap: the id of a known key, 0 for our own.
IdIn(keys, n, p) == IF p = n THEN 0 ELSE CHOOSE i \in DOMAIN keys : keys[i] = p

\* Backend::buildPeerMap: the rows of known_clients, and ourselves as 0.
IdMap(n) == [i \in DOMAIN known[n] \cup {0} |-> IF i = 0 THEN n ELSE known[n][i]]

\* The i of a set of numbers that is the k-th of them.
Nth(S, k) == CHOOSE i \in S : Cardinality({j \in S : j <= i}) = k

\* The keys of an IdMap that are new to us get the next ids, in its order (it
\* names a key once).
Learned(n, map) ==
    LET new == {i \in DOMAIN map : map[i] # n /\ map[i] \notin Range(known[n])}
        old == Len(known[n])
    IN  [k \in 1 .. old + Cardinality(new) |->
            IF k <= old THEN known[n][k] ELSE map[Nth(new, k - old)]]

\* MessageHandler::mapVersion: an id without an entry reads as 0, of two ids
\* with the same image the larger one's count is kept, and there is always a 0.
Translated(map, v) ==
    LET image == {At(map, k) : k \in DOMAIN v}
        from(i) == Max({k \in DOMAIN v : At(map, k) = i})
    IN [i \in image \cup {0} |-> IF i \in image THEN v[from(i)] ELSE 0]

\* What a local vector of n stands for.
Meaning(n, v) ==
    [p \in Peer |-> IF p = n \/ p \in Range(known[n]) THEN At(v, IdIn(known[n], n, p)) ELSE 0]
-----------------------------------------------------------------------------
(* Connections *)

Halfway(n) == jobs[n] # <<>> /\ Head(jobs[n]).pc = "info"

\* Both handshakes end: each side registers the other (Backend::registerPeer)
\* and a MessageHandler of the pool, with the map it had, serves the connection.
Connect(n, m) ==
    /\ {n, m} \in Met /\ {n, m} \notin up
    /\ workers[n] # <<>> /\ workers[m] # <<>>
    /\ "connectDuringSync" \in Env \/ (~Halfway(n) /\ ~Halfway(m))
    /\ known' = [known EXCEPT ![n] = Registered(@, n, m), ![m] = Registered(@, m, n)]
    /\ trans' = [trans EXCEPT ![<<n, m>>] = Last(workers[n]), ![<<m, n>>] = Last(workers[m])]
    /\ workers' = [workers EXCEPT ![n] = Front(@), ![m] = Front(@)]
    /\ up' = up \cup {{n, m}}
    /\ UNCHANGED <<version, truth, jobs, link, row, syncs, drops>>

\* The connection breaks; MessageHandler::returnToPool leaves m_peerMap as it is.
Drop(n, m) ==
    /\ {n, m} \in up
    /\ drops < MaxDrops /\ drops' = drops + 1
    /\ up' = up \ {{n, m}}
    /\ link' = [link EXCEPT ![<<n, m>>] = <<>>, ![<<m, n>>] = <<>>]
    /\ workers' = [workers EXCEPT ![n] = Append(@, trans[<<n, m>>]),
                                  ![m] = Append(@, trans[<<m, n>>])]
    /\ UNCHANGED <<known, version, truth, trans, jobs, row, syncs>>

\* A message joins the link: one of priority PRIO_NOW overtakes any number of
\* PRIO_SYNC messages that the shouter has not written yet.
Urgent(msg) == msg.type \in {"tree", "map", "get"}
Joins(q, msg) ==
    IF Urgent(msg)
    THEN {InsertAt(q, i, msg) : i \in {j \in 1 .. Len(q) + 1 : \A k \in j .. Len(q) : ~Urgent(q[k])}}
    ELSE {Append(q, msg)}
Send(n, m, msg) == \E q \in Joins(link[<<n, m>>], msg) : link' = [link EXCEPT ![<<n, m>>] = q]
Post(n, m, msg) == IF {n, m} \in up THEN Send(n, m, msg) ELSE UNCHANGED link
-----------------------------------------------------------------------------
(* Edits and synchronisation *)

\* incrementVersion counts in row 0.
Edit(n) ==
    /\ n \in Writers
    /\ FoldFunction(+, 0, [p \in Peer |-> truth[p][p]]) < MaxEdits
    /\ version' = [version EXCEPT ![n] = Put(@, 0, At(@, 0) + 1)]
    /\ truth' = [truth EXCEPT ![n][n] = @ + 1]
    /\ UNCHANGED <<known, workers, trans, up, jobs, link, row, syncs, drops>>

TreeJob(m) == [to |-> m, pc |-> "map"]
FileJob(m, v, means) == [to |-> m, pc |-> "send", v |-> v, asked |-> means]

\* StartSync: our tree to m, and ask m for its own.
StartSync(n, m) ==
    /\ {n, m} \in up
    /\ syncs < MaxSyncs /\ syncs' = syncs + 1
    /\ jobs' = [jobs EXCEPT ![n] = Append(@, TreeJob(m))]
    /\ Send(n, m, [type |-> "tree"])
    /\ UNCHANGED <<known, version, truth, workers, trans, up, row, drops>>

\* SendTree::go first sends the id map; whether that worked is not looked at.
JobMap(n) ==
    /\ jobs[n] # <<>> /\ Head(jobs[n]).pc = "map"
    /\ Post(n, Head(jobs[n]).to, [type |-> "map", ids |-> IdMap(n)])
    /\ jobs' = [jobs EXCEPT ![n][1].pc = "info"]
    /\ UNCHANGED <<known, version, truth, workers, trans, up, row, syncs, drops>>

\* SendTree::go, later: the version of the file.
JobInfo(n) ==
    /\ Halfway(n)
    /\ Post(n, Head(jobs[n]).to, [type |-> "info", v |-> version[n], means |-> truth[n]])
    /\ jobs' = [jobs EXCEPT ![n] = Tail(@)]
    /\ UNCHANGED <<known, version, truth, workers, trans, up, row, syncs, drops>>
\* Mutant: the request is not compared with the present version.
IsCurrent_Skip(n, v) == TRUE
\* SendFile::go compares the requested version with the present one.
IsCurrent(n, v) == Equal(version[n], v)

\* The file in a single chunk, if its version still is the one asked for.
JobSend(n) ==
    /\ jobs[n] # <<>> /\ Head(jobs[n]).pc = "send"
    /\ LET j == Head(jobs[n])
       IN IF IsCurrent(n, j.v)
          THEN Post(n, j.to, [type |-> "chunk", means |-> truth[n], asked |-> j.asked])
          ELSE UNCHANGED link
    /\ jobs' = [jobs EXCEPT ![n] = Tail(@)]
    /\ UNCHANGED <<known, version, truth, workers, trans, up, row, syncs, drops>>

-----------------------------------------------------------------------------
(* n's worker for m handles the next message *)

Arrived(n, m, type) == link[<<m, n>>] # <<>> /\ Head(link[<<m, n>>]).type = type
Message(n, m) == Head(link[<<m, n>>])
Consumed(n, m) == [link EXCEPT ![<<m, n>>] = Tail(@)]
Reply(n, m, msg) ==
    \E q \in Joins(link[<<n, m>>], msg) : link' = [Consumed(n, m) EXCEPT ![<<n, m>>] = q]

HandleTree(n, m) ==
    /\ Arrived(n, m, "tree")
    /\ link' = Consumed(n, m)
    /\ jobs' = [jobs EXCEPT ![n] = Append(@, TreeJob(m))]
    /\ UNCHANGED <<known, version, truth, workers, trans, up, row, syncs, drops>>

\* Mutant: peers we have not met are skipped.
Mapped_KnownOnly(n, m, keys, map) ==
    [i \in {j \in DOMAIN map : map[j] = n \/ map[j] \in Range(known[n])}
        |-> IF i = 0 THEN IdIn(keys, n, m) ELSE IdIn(keys, n, map[i])]
\* The entries an IdMap writes: Backend::mapPeer for each, then the sender's.
Mapped(n, m, keys, map) ==
    [i \in DOMAIN map \cup {0} |-> IF i = 0 THEN IdIn(keys, n, m) ELSE IdIn(keys, n, map[i])]

\* Mutant: m_peerMap is left as it was when it has entries already.
Merged_Once(old, new) == IF DOMAIN old = {} THEN new ELSE old
\* What the map held for other ids stays.
Merged(old, new) ==
    [i \in DOMAIN old \cup DOMAIN new |-> IF i \in DOMAIN new THEN new[i] ELSE old[i]]

HandleMap(n, m) ==
    /\ Arrived(n, m, "map")
    /\ LET map == Message(n, m).ids
           keys == Learned(n, map)
       IN /\ "learnDuringSync" \in Env \/ ~Halfway(n) \/ keys = known[n]
          /\ known' = [known EXCEPT ![n] = keys]
          /\ trans' = [trans EXCEPT ![<<n, m>>] = Merged(@, Mapped(n, m, keys, map))]
    /\ link' = Consumed(n, m)
    /\ UNCHANGED <<version, truth, workers, up, jobs, row, syncs, drops>>

\* NodeInfo: translate, add zero rows for the new keys (assimilateKeys), and
\* when their version is newer register the download and request the file.
HandleInfo(n, m) ==
    /\ Arrived(n, m, "info")
    /\ LET theirs == Translated(trans[<<n, m>>], Message(n, m).v)
           mine == Merged([k \in DOMAIN theirs |-> 0], version[n])
           means == Message(n, m).means
       IN /\ version' = [version EXCEPT ![n] = mine]
          /\ IF Less(mine, theirs)
             THEN /\ row' = [row EXCEPT ![<<n, m>>] =
                                IF @ # None /\ Geq(@.v, theirs) THEN @
                                ELSE [v |-> theirs, means |-> means]]
                  /\ Reply(n, m, [type |-> "get", v |-> theirs, means |-> means])
             ELSE UNCHANGED row /\ link' = Consumed(n, m)
    /\ UNCHANGED <<known, truth, workers, trans, up, jobs, syncs, drops>>

\* SendFile request: the job carries the version as we understand it.
HandleGet(n, m) ==
    /\ Arrived(n, m, "get")
    /\ link' = Consumed(n, m)
    /\ LET v == Translated(trans[<<n, m>>], Message(n, m).v)
       IN jobs' = [jobs EXCEPT ![n] = Append(@, FileJob(m, v, Message(n, m).means))]
    /\ UNCHANGED <<known, version, truth, workers, trans, up, row, syncs, drops>>

\* FileChunk: mergeData with the last block of the file.
HandleChunk(n, m) ==
    /\ Arrived(n, m, "chunk")
    /\ link' = Consumed(n, m)
    /\ LET r == row[<<n, m>>] IN
       IF r # None /\ Less(version[n], r.v)
       THEN /\ version' = [version EXCEPT ![n] = Merged(@, r.v)]
            /\ truth' = [truth EXCEPT ![n] = r.means]
            /\ row' = [row EXCEPT ![<<n, m>>] = None]
       ELSE UNCHANGED <<version, truth, row>>
    /\ UNCHANGED <<known, workers, trans, up, jobs, syncs, drops>>

Next ==
    \/ \E n \in Peer : Edit(n) \/ JobMap(n) \/ JobInfo(n) \/ JobSend(n)
    \/ \E l \in Link :
        LET n == l[1]
            m == l[2]
        IN \/ Connect(n, m) \/ Drop(n, m) \/ StartSync(n, m)
           \/ HandleTree(n, m) \/ HandleMap(n, m) \/ HandleInfo(n, m)
           \/ HandleGet(n, m) \/ HandleChunk(n, m)

Spec == Init /\ [][Next]_vars
-----------------------------------------------------------------------------
(* Properties *)

\* The version rows of every peer, read with its own numbering, say what its
\* copy descends from, however ids were handed out and whichever maps a worker
\* kept from other connections.
RowsMeanTheTruth == \A n \in Peer : Meaning(n, version[n]) = truth[n]

\* A download is registered under the version that was announced.
DownloadsMeanTheTruth ==
    \A l \in Link : row[l] # None => Meaning(l[1], row[l].v) = row[l].means

\* Two vectors with different numberings and different rows compare as the
\* versions they stand for, when an announcement is handled.
NewerIsNewer ==
    \A l \in Link :
        LET n == l[1]
            m == l[2]
            new == Message(n, m).means
        IN Arrived(n, m, "info") =>
              (Less(version[n], Translated(trans[l], Message(n, m).v))
                 <=> truth[n] # new /\ \A p \in Peer : truth[n][p] <= new[p])

\* A request is only served when it asked for the version that is sent, even
\* when it was translated with another connection's map or with none.
ServedIsAsked ==
    \A l \in Link : \A i \in DOMAIN link[l] :
        link[l][i].type = "chunk" => link[l][i].means = link[l][i].asked
=============================================================================
