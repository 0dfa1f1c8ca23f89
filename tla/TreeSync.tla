------------------------------ MODULE TreeSync ------------------------------
(***************************************************************************)
(* The directory tree travels from one backend, the sender, to another.  A   *)
(* SendTree job walks the sender's directories and sends the listing of each *)
(* as a DirChunk; the receiver creates the directory and merges the listing  *)
(* into its own table.  Users work on both trees meanwhile, and connections  *)
(* come and go.  (The walk also announces files, see Replication.)          *)
(***************************************************************************)
EXTENDS FileTable, Naturals

CONSTANTS Made,      \* bound: the paths that users create
          MaxWalks,  \* bound: SendTree jobs
          MaxDrops,  \* bound: lost connections
          TreeEnv    \* which optional events happen

ASSUME TreeBounds == Made \subseteq Inner /\ MaxWalks \in Nat /\ MaxDrops \in Nat
ASSUME TreeEnvAssumption == TreeEnv \subseteq {"remove", "reconnectDuringWalk"}

Chunk == [dir : Path, names : SUBSET Path]

VARIABLES
    sTab, sDirs,  \* the sender: its table, its directories on disk
    rTab, rDirs,  \* the receiver
    rFiles,       \* its files on disk
    up,           \* the peer has a connection
    walking,      \* a SendTree job runs
    queue,        \* its directories still to visit
    link,         \* DirChunks on their way, in the order sent
    merging,      \* the chunk whose directory the receiver has created, at most one
    goal,         \* history: what the sender's tree held when the walk began
    walks, drops

sender == <<sTab, sDirs>>
receiver == <<rTab, rDirs, rFiles, merging>>
job == <<walking, queue>>
treeVars == <<sender, receiver, job, up, link, goal, walks, drops>>

TreeInit ==
    /\ sTab = EmptyTable /\ sDirs = {Root}
    /\ rTab = EmptyTable /\ rDirs = {Root} /\ rFiles = {}
    /\ up = TRUE
    /\ walking = FALSE /\ queue = <<>> /\ link = <<>>
    /\ merging = {} /\ goal = {}
    /\ walks = 0 /\ drops = 0

\* create_directories.
WithParents(p) == {q \in Path : IsPrefix(q, p)}

\* A name that has a row, but is not subscribed and not on disk, is an empty
\* file for the user, who can open it but not make a directory of it.
Creatable(tab, dirs, p, isDir) ==
    /\ Parent(p) \in dirs
    /\ p \in tab.known => ~isDir /\ p \notin tab.on /\ p \notin dirs

\* A user creates a directory or a file, mkdir, mknod and open of the mount.
Make(p, isDir) ==
    /\ Creatable(sTab, sDirs, p, isDir)
    /\ sTab' = Mknod(sTab, p)
    /\ sDirs' = IF isDir THEN sDirs \cup {p} ELSE sDirs
    /\ UNCHANGED <<receiver, job, up, link, goal, walks, drops>>

MakeThere(p, isDir) ==
    /\ Creatable(rTab, rDirs, p, isDir)
    /\ rTab' = Mknod(rTab, p)
    /\ rDirs' = IF isDir THEN rDirs \cup {p} ELSE rDirs
    /\ rFiles' = IF isDir THEN rFiles ELSE rFiles \cup {p}
    /\ UNCHANGED <<sender, merging, job, up, link, goal, walks, drops>>

\* rmdir: the rows below it stay, and are not walked to any more.
RemoveDir(p) ==
    /\ "remove" \in TreeEnv
    /\ p \in sDirs \ {Root}
    /\ sTab' \in Unlink(sTab, p)
    /\ sDirs' = sDirs \ Below(p)
    /\ goal' = goal \ (Below(p) \ {p})
    /\ UNCHANGED <<receiver, job, up, link, walks, drops>>

\* A user asks for a synchronisation: SendTree::go starts at the root.
StartWalk ==
    /\ up /\ ~walking /\ link = <<>> /\ merging = {}
    /\ walks < MaxWalks /\ walks' = walks + 1
    /\ walking' = TRUE /\ queue' = <<Root>>
    /\ goal' = {p \in sTab.linked : Parent(p) \in sDirs /\ p # Root}
    /\ UNCHANGED <<sender, receiver, up, link, drops>>

\* The directories of a listing that are on disk are queued.
Visit(dirs) == Tail(queue) \o SetToSeq(dirs)

\* Mutant: the walk lists what is subscribed only.
Sent_Subscribed(dir) == Subscribed(sTab, dir)
Sent(dir) == Listing(sTab, dir)

\* Mutant: the chunk sent last leaves first.
SendTo_Front(chunk) == <<chunk>> \o link
\* Chunks have one priority and leave in the order sent.
SendTo(chunk) == Append(link, chunk)

\* One turn of the walk; without a connection sendMessage fails and it ends.
WalkStep ==
    /\ walking /\ queue # <<>>
    /\ LET dir == Head(queue)
           names == Sent(dir)
       IN  IF up
           THEN /\ link' = SendTo([dir |-> dir, names |-> names])
                /\ queue' = Visit(names \cap sDirs)
                /\ UNCHANGED walking
           ELSE walking' = FALSE /\ queue' = <<>> /\ UNCHANGED link
    /\ UNCHANGED <<sender, receiver, up, goal, walks, drops>>

WalkEnd ==
    /\ walking /\ queue = <<>>
    /\ walking' = FALSE
    /\ UNCHANGED <<sender, receiver, queue, up, link, goal, walks, drops>>

\* A file of the receiver is in the way.
Blocked(d) == \E q \in rFiles : IsPrefix(q, d)

\* The handler of a DirChunk first makes sure that the path exists; when a
\* file is where a parent should be that throws and the chunk is lost, ...
HandleChunk ==
    /\ link # <<>> /\ merging = {}
    /\ LET d == Head(link).dir
       IN  /\ rDirs' = IF Blocked(d) THEN rDirs ELSE rDirs \cup WithParents(d)
           /\ merging' = IF Blocked(d) /\ d \notin rFiles THEN {} ELSE {Head(link)}
    /\ link' = Tail(link)
    /\ UNCHANGED <<sender, rTab, rFiles, job, up, goal, walks, drops>>

\* ... then merges the listing.
MergeChunk ==
    /\ merging # {}
    /\ \E c \in merging : rTab' = Merge(rTab, c.dir, c.names)
    /\ merging' = {}
    /\ UNCHANGED <<sender, rDirs, rFiles, job, up, link, goal, walks, drops>>

\* The connection is lost with any suffix of what was sent.
Drop ==
    /\ up /\ up' = FALSE
    /\ drops < MaxDrops /\ drops' = drops + 1
    /\ \E n \in 0 .. Len(link) : link' = SubSeq(link, 1, n)
    /\ goal' = {}
    /\ UNCHANGED <<sender, receiver, job, walks>>

\* The peer connects again; the walk of the lost connection may still run.
Reconnect ==
    /\ ~up /\ up' = TRUE
    /\ "reconnectDuringWalk" \in TreeEnv \/ ~walking
    /\ UNCHANGED <<sender, receiver, job, link, goal, walks, drops>>

TreeNext ==
    \/ \E p \in Made :
        \/ \E isDir \in BOOLEAN : Make(p, isDir) \/ MakeThere(p, isDir)
        \/ RemoveDir(p)
    \/ StartWalk \/ WalkStep \/ WalkEnd \/ HandleChunk \/ MergeChunk \/ Drop \/ Reconnect

TreeSpec == TreeInit /\ [][TreeNext]_treeVars

-----------------------------------------------------------------------------
(* Properties *)

\* "link to parent": every row names the row of its directory, so that readdir
\* finds it.
RowsAreLinked == sTab.known \subseteq sTab.linked /\ rTab.known \subseteq rTab.linked

\* When a walk is over and no connection was lost, the receiver lists all that
\* the sender's tree held when the walk began, whatever users add meanwhile;
\* except below a file of the receiver.
WalkIsComplete ==
    ~walking /\ link = <<>> /\ merging = {} =>
        \A p \in goal : p \in Listing(rTab, Parent(p)) \/ Blocked(Parent(p))
=============================================================================
