------------------------------- MODULE Mount -------------------------------
(***************************************************************************)
(* One FUSE mount of the whole tree: FuseContext, the FileMap of its open    *)
(* files and the tables it keeps in step with the data directory.  fuse_loop *)
(* serves one request at a time, but a request takes several calls to the   *)
(* file system and the database, and other threads of the backend (which    *)
(* install files they received) and crashes come in between.                *)
(***************************************************************************)
EXTENDS FileTable, Integers

CONSTANTS NSlots,    \* the size of the FileMap
          Asked,     \* bound: the paths that requests name
          MaxInode,  \* bound: files that exist at the same time
          Env        \* which optional requests and events happen

ASSUME SlotAssumption == NSlots \in Nat \ {0} /\ MaxInode \in Nat
ASSUME AskedAssumption == Asked \subseteq Inner
ASSUME EnvAssumption == Env \subseteq {"tree", "links", "rename", "subscriptions", "peers", "crash"}

Slot == 0 .. NSlots - 1
\* What is at a path of the data directory, when it is not a file.
Absent == 0
Dir == -1
Symlink == -2
Inode == 1 .. MaxInode
Node == Inode \cup {Absent, Dir, Symlink}

NoContext == [none |-> TRUE]
Context == [path : Path, inode : Inode \cup {Dir}, changed : BOOLEAN]
Call == [call : {"mknod", "unlink", "count", "mkdir"}, path : Path]

VARIABLES
    disk,       \* what is at each path of the data directory
    tab,        \* the tables
    slot,       \* m_fileVec
    free,       \* m_freeStore, the next one last
    handles,    \* the file handles the kernel holds
    todo,       \* what the request in progress has yet to call
    uncounted,  \* history: files changed since a version counted it
    excused,    \* history: files whose changes may stay uncounted
    stray       \* history: links, and what a rename, a checkout or a crash
                \* may leave without a row

files == <<slot, free, handles>>
history == <<uncounted, excused, stray>>
vars == <<disk, tab, files, todo, history>>

\* Mutant: the slots are numbered from one.
FreeStore_FromOne == [i \in 1 .. NSlots |-> i]
\* The free slots of a new FileMap.
FreeStore == [i \in 1 .. NSlots |-> i - 1]

Init ==
    /\ disk = [p \in Path |-> IF p = Root THEN Dir ELSE Absent]
    /\ tab = EmptyTable
    /\ slot = [s \in Slot |-> NoContext]
    /\ free = FreeStore
    /\ handles = {}
    /\ todo = <<>>
    /\ uncounted = {} /\ excused = {} /\ stray = {}

Used == Range(disk) \cup {slot[s].inode : s \in {x \in Slot : slot[x] # NoContext}}
NewFile(p) ==
    \E i \in Inode :
        /\ i = CHOOSE x \in Inode : Inode \subseteq Used \/ x \notin Used
        /\ i \notin Used
        /\ disk' = [disk EXCEPT ![p] = i]
        /\ uncounted' = uncounted \ {i} /\ excused' = excused \ {i}
InUse(p) == \E s \in handles : slot[s].inode = disk[p]
Calls(names, p) == [i \in DOMAIN names |-> [call |-> names[i], path |-> p]]
IsFile(p) == disk[p] \in Inode

\* The operations that fuse_operations.cpp forwards to the FuseContext: those
\* on names, on open files, on attributes and on open directories.
NameOps == {"mknod", "mkdir", "unlink", "rmdir", "symlink", "rename", "link", "truncate"}
FileOps == {"open", "write", "release", "create", "ftruncate"}
AttrOps == {"getxattr"}
DirOps == {"opendir", "releasedir"}
Registered == NameOps \cup FileOps \cup AttrOps \cup DirOps
Request(op) == todo = <<>> /\ op \in Registered

\* FuseContext::getattr, which the kernel asks before it sends a request: a
\* name that is not on disk and not subscribed is an empty file.
Getattr(p) ==
    IF disk[p] = Dir THEN {"directory"}
    ELSE IF disk[p] = Symlink THEN {"link"}
    ELSE IF IsFile(p) THEN {"file"}
    ELSE {IF on THEN "nothing" ELSE "file" : on \in IsSubscribed(tab, p)}

\* What is left of the tree when remove_all or a rename has taken p away.
Without(p) == [q \in Path |-> IF q \in Below(p) THEN Absent ELSE disk[q]]
-----------------------------------------------------------------------------
(* Names *)

MknodFile(p) ==
    /\ Request("mknod")
    /\ "nothing" \in Getattr(p) /\ disk[Parent(p)] = Dir
    /\ NewFile(p)
    /\ todo' = Calls(<<"mknod">>, p)
    /\ UNCHANGED <<tab, files, stray>>

\* The row first, then the directory.
Mkdir(p) ==
    /\ Request("mkdir") /\ "tree" \in Env
    /\ "nothing" \in Getattr(p) /\ disk[Parent(p)] = Dir
    /\ todo' = Calls(<<"mknod", "mkdir">>, p)
    /\ UNCHANGED <<disk, tab, files, history>>

\* unlink and rmdir remove all there is below the path.  (The library renames
\* an open file out of the way before it unlinks it, or replaces it.)
Erase(p) ==
    /\ \/ Request("unlink") /\ Getattr(p) \cap {"file", "link"} # {} /\ ~InUse(p)
       \/ Request("rmdir") /\ "directory" \in Getattr(p) /\ "tree" \in Env
    /\ \A q \in Below(p) : IsFile(q) => ~InUse(q)
    /\ disk[Parent(p)] = Dir
    /\ disk' = Without(p)
    /\ todo' = Calls(<<"unlink">>, p)
    /\ stray' = stray \ Below(p)
    /\ UNCHANGED <<tab, files, uncounted, excused>>

\* symlink and link change no table.  (A rename of one hard link to another is
\* RenameAlias.)
Alias(p, q) ==
    /\ "links" \in Env
    /\ "nothing" \in Getattr(q) /\ disk[Parent(q)] = Dir
    /\ \/ Request("symlink") /\ disk' = [disk EXCEPT ![q] = Symlink] /\ UNCHANGED excused
       \/ /\ Request("link") /\ IsFile(p)
          /\ disk' = [disk EXCEPT ![q] = disk[p]]
          /\ excused' = excused \cup {disk[p]}
    /\ stray' = stray \cup {q}
    /\ UNCHANGED <<tab, files, todo, uncounted>>

\* Mutant: the new name is not entered.
RenameCalls_Unnamed(p, q) ==
    (IF disk[q] = Absent THEN <<>> ELSE Calls(<<"count">>, q)) \o Calls(<<"unlink">>, p)
\* An overwritten file counts the change, a new name is entered; then the old
\* name is removed.  The rows of what is below a directory stay where they are.
RenameCalls(p, q) ==
    Calls(<<IF disk[q] = Absent THEN "mknod" ELSE "count">>, q) \o Calls(<<"unlink">>, p)

\* Where what is at r was, when a rename has taken p to q.
Moved(p, q, r) == p \o SubSeq(r, Len(q) + 1, Len(r))

Rename(p, q) ==
    /\ Request("rename") /\ "rename" \in Env
    /\ p # q /\ ~IsPrefix(p, q) /\ disk[p] # Absent /\ disk[Parent(q)] = Dir
    /\ \/ disk[q] = Absent /\ (disk[p] = Dir => "nothing" \in Getattr(q))
       \/ disk[q] # Absent /\ disk[p] # Dir /\ disk[q] # Dir /\ ~InUse(q) /\ disk[p] # disk[q]
       \/ disk[p] = Dir /\ disk[q] = Dir /\ \A r \in Below(q) \ {q} : disk[r] = Absent
    /\ disk' = [r \in Path |->
           IF IsPrefix(q, r) /\ Moved(p, q, r) \in Path THEN disk[Moved(p, q, r)]
           ELSE Without(p)[r]]
    /\ todo' = RenameCalls(p, q)
    /\ excused' = excused \cup {disk[r] : r \in {x \in Below(p) : IsFile(x) /\ InUse(x)}}
    /\ uncounted' = IF IsFile(p) /\ disk[q] # Absent THEN uncounted \cup {disk[p]} ELSE uncounted
    /\ stray' = (stray \ Below(p)) \cup (IF disk[p] = Dir THEN Below(q) \ {q} ELSE {})
                  \cup (IF disk[p] = Symlink THEN {q} ELSE {})
    /\ UNCHANGED <<tab, files>>

\* Of two links of one file: the kernel leaves both, the tables change as
\* above.
RenameAlias(p, q) ==
    /\ Request("rename") /\ "rename" \in Env
    /\ p # q /\ IsFile(p) /\ disk[p] = disk[q] /\ ~InUse(q)
    /\ todo' = RenameCalls(p, q)
    /\ UNCHANGED <<disk, tab, files, history>>

Truncate(p) ==
    /\ Request("truncate") /\ IsFile(p)
    /\ uncounted' = uncounted \cup {disk[p]}
    /\ todo' = Calls(<<"count">>, p)
    /\ UNCHANGED <<disk, tab, files, excused, stray>>
-----------------------------------------------------------------------------
(* Open files *)

\* Mutant: the first slot is handed out but never removed.
Remaining_Kept == free
Remaining == Front(free)

\* FileMap::registerFile: throws when there is no free slot, and the caller
\* closes the descriptor and fails.
RegisterFile(p, i) ==
    IF free = <<>> THEN UNCHANGED files
    ELSE /\ slot' = [slot EXCEPT ![Last(free)] = [path |-> p, inode |-> i, changed |-> FALSE]]
         /\ free' = Remaining
         /\ handles' = handles \cup {Last(free)}

\* create; and open of a file that is not there, which the kernel asks for
\* when getattr made one up.  (The row is entered before the context is
\* registered, but nobody else sees the file map.)
Create(p) ==
    /\ \/ Request("create") /\ "nothing" \in Getattr(p)
       \/ Request("open") /\ "file" \in Getattr(p)
    /\ disk[p] = Absent /\ disk[Parent(p)] = Dir
    /\ NewFile(p)
    /\ RegisterFile(p, disk'[p])
    /\ todo' = Calls(<<"mknod">>, p)
    /\ UNCHANGED <<tab, stray>>

Open(p) ==
    /\ Request("open") /\ IsFile(p)
    /\ RegisterFile(p, disk[p])
    /\ UNCHANGED <<disk, tab, todo, history>>

\* opendir takes a slot too; a directory that is not on disk yet is opened
\* like a file.
Opendir(p) ==
    /\ Request("opendir") /\ "directory" \in Getattr(p) /\ "tree" \in Env
    /\ RegisterFile(p, Dir)
    /\ UNCHANGED <<disk, tab, todo, history>>

\* Mutant: ftruncate, or write, forgets the mark.
Marked_Not(h) == slot
Marked(h) == [slot EXCEPT ![h].changed = TRUE]

\* write and ftruncate through a context; 0 is taken for no handle at all.
Change(h) ==
    /\ Request("write") \/ Request("ftruncate")
    /\ h # 0 /\ slot[h].inode # Dir
    /\ slot' = Marked(h)
    /\ uncounted' = uncounted \cup {slot[h].inode}
    /\ UNCHANGED <<disk, tab, free, handles, todo, excused, stray>>

\* write without a handle: the file that is at the path now.  (ftruncate
\* fails.)
ChangeByPath(p) ==
    /\ Request("write")
    /\ 0 \in handles /\ slot[0].inode # Dir /\ IsFile(p)
    /\ p = slot[0].path \/ disk[p] = slot[0].inode
    /\ uncounted' = uncounted \cup {disk[p]}
    /\ todo' = Calls(<<"count">>, p)
    /\ UNCHANGED <<disk, tab, files, excused, stray>>

\* What is still uncounted when the path has been counted.
Counted(p) == uncounted \ {disk[p]}

\* FileContext::~FileContext: a changed context counts at its own path.
Dropped(h) == IF slot[h].changed THEN Counted(slot[h].path) ELSE uncounted

\* release and releasedir; unregisterFile drops the context, but a handle 0
\* fails before it and keeps its slot for ever.
Close(h) ==
    /\ Request("release") \/ Request("releasedir")
    /\ handles' = handles \ {h}
    /\ IF h = 0
       THEN UNCHANGED <<slot, free, uncounted>>
       ELSE /\ uncounted' = Dropped(h)
            /\ slot' = [slot EXCEPT ![h] = NoContext]
            /\ free' = Append(free, h)
    /\ UNCHANGED <<disk, tab, todo, excused, stray>>
-----------------------------------------------------------------------------
(* The rest of a request *)

Step(call, p) ==
    /\ todo # <<>> /\ Head(todo) = [call |-> call, path |-> p]
    /\ todo' = Tail(todo)

DbMknod(p) ==
    /\ Step("mknod", p)
    /\ tab' = Mknod(tab, p)
    /\ UNCHANGED <<disk, files, history>>

DbUnlink(p) ==
    /\ Step("unlink", p)
    /\ tab' \in Unlink(tab, p)
    /\ UNCHANGED <<disk, files, history>>

DbCount(p) ==
    /\ Step("count", p)
    /\ uncounted' = Counted(p)
    /\ UNCHANGED <<disk, tab, files, excused, stray>>

MakeDirectory(p) ==
    /\ Step("mkdir", p)
    /\ disk' = IF disk[p] = Absent THEN [disk EXCEPT ![p] = Dir] ELSE disk
    /\ UNCHANGED <<tab, files, history>>
-----------------------------------------------------------------------------
(* Subscriptions, other threads, crashes *)

\* A checkout or release command asks for the attribute that has the name of
\* the hook.
Hook(p) == Request("getxattr") /\ "subscriptions" \in Env /\ Getattr(p) # {"nothing"}

\* The database makes, or takes away, the file after its own rows.  A path
\* without a row gets a file all the same.
CheckoutFile(p) ==
    /\ Hook(p)
    /\ \E r \in Checkout(tab, p) :
        /\ tab' = r.tab
        /\ IF r.done /\ disk[p] = Absent /\ disk[Parent(p)] = Dir
           THEN /\ NewFile(p)
                /\ stray' = IF p \in tab.known THEN stray ELSE stray \cup {p}
           ELSE /\ uncounted' = IF r.done THEN uncounted \ {disk[p]} ELSE uncounted
                /\ UNCHANGED <<disk, excused, stray>>
    /\ UNCHANGED <<files, todo>>

ReleaseFile(p) ==
    /\ Hook(p)
    /\ \E r \in Release(tab, p) :
        /\ tab' = r.tab
        /\ IF r.done /\ disk[p] # Dir
           THEN disk' = Without(p) /\ stray' = stray \ {p}
           ELSE UNCHANGED <<disk, stray>>
    /\ UNCHANGED <<files, todo, uncounted, excused>>

\* Another thread replaces a subscribed file by one it received.
Install(p) ==
    /\ "peers" \in Env
    /\ p \in tab.on /\ disk[p] # Dir /\ disk[Parent(p)] = Dir
    /\ NewFile(p)
    /\ UNCHANGED <<tab, files, todo, stray>>

\* It merges the listing of a peer's directory.
Learn(p) ==
    /\ "peers" \in Env
    /\ Parent(p) \in tab.known /\ p \notin tab.known
    /\ tab' = Merge(tab, Parent(p), {p})
    /\ UNCHANGED <<disk, files, todo, history>>

\* The tables that a crash leaves: those before the call to the database that a
\* request is in, or what some of its statements have made of them.
Calling(call, p) == todo # <<>> /\ Head(todo) = [call |-> call, path |-> p]
Interrupted ==
    {tab}
    \cup {MknodHalf(tab, p) : p \in {q \in Inner : Calling("mknod", q)}}
    \cup (UNION {UnlinkHalf(tab, p) : p \in {q \in Inner : Calling("unlink", q)}})
    \cup (UNION {CheckoutHalf(tab, p) \cup ReleaseHalf(tab, p)
                   \cup {r.tab : r \in Checkout(tab, p) \cup Release(tab, p)} :
                     p \in {q \in Asked : Hook(q)}})

\* The process dies; the next one starts on the same directory and database.
Crash ==
    /\ "crash" \in Env
    /\ tab' \in Interrupted
    /\ slot' = [s \in Slot |-> NoContext]
    /\ free' = FreeStore
    /\ handles' = {} /\ todo' = <<>>
    /\ excused' = excused \cup uncounted
    /\ stray' = stray \cup {p \in Inner : disk[p] # Absent /\ p \notin (tab').known}
    /\ UNCHANGED <<disk, uncounted>>
-----------------------------------------------------------------------------
Next ==
    \/ \E p \in Asked :
        \/ MknodFile(p) \/ Mkdir(p) \/ Erase(p) \/ Truncate(p)
        \/ Create(p) \/ Open(p) \/ ChangeByPath(p)
        \/ DbMknod(p) \/ DbUnlink(p) \/ DbCount(p) \/ MakeDirectory(p)
        \/ CheckoutFile(p) \/ ReleaseFile(p) \/ Install(p) \/ Learn(p)
    \/ \E p \in Asked \cup {Root} : Opendir(p)
    \/ \E p, q \in Asked : Alias(p, q) \/ Rename(p, q) \/ RenameAlias(p, q)
    \/ \E h \in handles : Change(h) \/ Close(h)
    \/ Crash

Spec == Init /\ [][Next]_vars
-----------------------------------------------------------------------------
(* Properties *)

\* Types of the state.
MountTypes ==
    /\ disk \in [Path -> Node] /\ tab \in Table
    /\ slot \in [Slot -> Context \cup {NoContext}]
    /\ free \in Seq(Slot) /\ handles \subseteq Slot
    /\ todo \in Seq(Call)
    /\ uncounted \subseteq Inode /\ excused \subseteq Inode /\ stray \subseteq Path

\* The file map never hands out a slot that is in use, and all slots come back
\* when the files are closed, except the one whose handle means "none".
SlotsConserved ==
    /\ IsInjective(free)
    /\ \A s \in Slot : s \in Range(free) <=> slot[s] = NoContext
    /\ handles \cap Range(free) = {}
    /\ \A s \in Slot \ handles : s \in Range(free) \/ s = 0

\* A change of a versioned file that went through the mount is counted by its
\* version, or an open file or the request in progress will count it; except
\* what was renamed while it was open, has hard links, or was open in a crash.
ChangesAreCounted ==
    \A p \in Inner : p \in tab.versioned /\ disk[p] \in uncounted =>
        \/ disk[p] \in excused
        \/ \E s \in Slot : slot[s] # NoContext /\ slot[s].path = p /\ slot[s].changed
        \/ \E i \in DOMAIN todo : todo[i] = [call |-> "count", path |-> p]

\* What is on disk is listed by readdir, for the user and for the peers, or the
\* request in progress will enter it; except links, what is below a renamed
\* directory, the file of a checkout for a path without a row, and what a crash
\* interrupted.
NothingIsHidden ==
    \A p \in Inner : disk[p] # Absent =>
        \/ p \in Listing(tab, Parent(p))
        \/ \E q \in stray : IsPrefix(q, p)
        \/ \E i \in DOMAIN todo : todo[i] = [call |-> "mknod", path |-> p]

\* A subscribed path has a version, so that its announcements are never empty;
\* mknod and checkout subscribe first, and only a crash in between leaves a path
\* with the one and without the other.
SubscribedHasVersion ==
    [][(tab').on \ (tab').versioned \subseteq tab.on \ tab.versioned \/ Crash]_vars
=============================================================================
