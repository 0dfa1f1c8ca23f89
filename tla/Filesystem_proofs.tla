------------------------- MODULE Filesystem_proofs -------------------------
(***************************************************************************)
(* Machine-checked proofs about the mounted file system and the tree on its  *)
(* way to another backend, for every tree of paths.  Of Mount: its types,    *)
(* the slots of the FileMap, the subscriptions, which changes are counted    *)
(* and which files are listed, for every number of slots and of files and    *)
(* every choice of requests and events.  Of TreeSync: the links of the rows  *)
(* and the completeness of a walk.                                           *)
(***************************************************************************)
EXTENDS Mount, TreeSync, ListLemmas, FiniteSetTheorems

\* The parts of the inductive invariant, by the state they speak of.  An open
\* handle has a context because its slot is not free.
DiskInv ==
    /\ disk \in [Path -> Node]
    /\ uncounted \subseteq Inode /\ excused \subseteq Inode /\ stray \subseteq Path
TodoInv == todo \in Seq(Call)
TabInv == tab \in Table
FilesInv ==
    /\ slot \in [Slot -> Context \cup {NoContext}]
    /\ free \in Seq(Slot) /\ handles \subseteq Slot
    /\ SlotsConserved
IInv == DiskInv /\ TodoInv /\ TabInv /\ FilesInv
-----------------------------------------------------------------------------
(* Lists of calls *)

CallName == {"mknod", "unlink", "count", "mkdir"}

LEMMA CallsAreCalls ==
    ASSUME NEW names \in Seq(CallName), NEW p \in Path
    PROVE  Calls(names, p) \in Seq(Call)
<1>1. names \in [1 .. Len(names) -> CallName] /\ Len(names) \in Nat
  OBVIOUS
<1>2. Calls(names, p) = [i \in 1 .. Len(names) |-> [call |-> names[i], path |-> p]]
  BY <1>1 DEF Calls
<1>3. \A i \in 1 .. Len(names) : [call |-> names[i], path |-> p] \in Call
  BY <1>1 DEF Call, CallName
<1> QED
  BY <1>1, <1>2, <1>3, IsASeq

LEMMA OneCall ==
    ASSUME NEW name \in CallName, NEW p \in Path
    PROVE  Calls(<<name>>, p) \in Seq(Call)
<1>1. <<name>> \in Seq(CallName)
  OBVIOUS
<1> QED
  BY <1>1, CallsAreCalls

\* The call that a request makes next is done.
LEMMA StepKeeps ==
    ASSUME TodoInv, NEW call, NEW p, Step(call, p)
    PROVE  TodoInv'
BY Popped DEF Step, TodoInv
-----------------------------------------------------------------------------
(* Tables *)

LEMMA EmptyTableIsGood == EmptyTable \in Table
BY PathAssumption DEF EmptyTable, Table

\* What is subscribed but has no version.
Torn(t) == t.on \ t.versioned

\* Database::mknod: what it subscribes gets a version, unless it is cut short.
LEMMA MknodKeeps ==
    ASSUME NEW t \in Table, NEW p \in Path
    PROVE  /\ Mknod(t, p) \in Table /\ Torn(Mknod(t, p)) \subseteq Torn(t)
           /\ MknodHalf(t, p) \in Table
<1>1. CASE Parent(p) \notin t.known
  BY <1>1 DEF Mknod, MknodHalf, Table
<1>2. CASE Parent(p) \in t.known /\ p \in t.known
  <2>1. Mknod(t, p) = [known |-> t.known \cup {p}, linked |-> t.linked, on |-> t.on,
                       versioned |-> t.versioned \cup ({p} \cap t.linked)]
    BY <1>2 DEF Mknod
  <2> QED
    BY <2>1 DEF Table, Torn, MknodHalf
<1>3. CASE Parent(p) \in t.known /\ p \notin t.known
  <2>1. Mknod(t, p) = [known |-> t.known \cup {p}, linked |-> t.linked \cup {p},
                       on |-> t.on \cup {p},
                       versioned |-> t.versioned \cup ({p} \cap (t.linked \cup {p}))]
    BY <1>3 DEF Mknod
  <2> QED
    BY <2>1 DEF Table, Torn, MknodHalf
<1> QED
  BY <1>1, <1>2, <1>3

\* The row that is hit belongs to a path of the table.
LEMMA HitIsKnown ==
    ASSUME NEW t \in Table, NEW p \in Path, NEW hit \in Hit(t, p)
    PROVE  hit \subseteq Path
BY DEF Hit, Table

LEMMA UnlinkKeeps ==
    ASSUME NEW t \in Table, NEW p \in Path, NEW u \in Unlink(t, p)
    PROVE  u \in Table /\ Torn(u) \subseteq Torn(t)
<1>1. PICK hit \in Hit(t, p) : u = [t EXCEPT !.on = @ \ hit, !.versioned = @ \ hit]
  BY DEF Unlink
<1> QED
  BY <1>1 DEF Table, Torn

LEMMA UnlinkHalfKeeps ==
    ASSUME NEW t \in Table, NEW p \in Path, NEW u \in UnlinkHalf(t, p)
    PROVE  u \in Table
<1>1. PICK hit \in Hit(t, p) : u = [t EXCEPT !.on = @ \ hit]
  BY DEF UnlinkHalf
<1> QED
  BY <1>1 DEF Table

LEMMA MergeKeeps ==
    ASSUME NEW t \in Table, NEW d, NEW names \in SUBSET Path
    PROVE  Merge(t, d, names) \in Table /\ Torn(Merge(t, d, names)) = Torn(t)
<1> DEFINE new == IF d \in t.known THEN names \ t.known ELSE {}
<1>1. new \subseteq Path
  OBVIOUS
<1>2. Merge(t, d, names) = [t EXCEPT !.known = @ \cup names, !.linked = @ \cup new]
  BY DEF Merge
<1> HIDE DEF new
<1> QED
  BY <1>1, <1>2 DEF Table, Torn

LEMMA CheckoutKeeps ==
    ASSUME NEW t \in Table, NEW p \in Path, NEW r \in Checkout(t, p)
    PROVE  r.tab \in Table /\ Torn(r.tab) \subseteq Torn(t)
<1>1. CASE r \in {[tab |-> t, done |-> FALSE] : on \in {TRUE} \cap IsSubscribed(t, p)}
  <2>1. r = [tab |-> t, done |-> FALSE]
    BY <1>1
  <2>2. r.tab = t
    BY <2>1, Zenon
  <2> QED
    BY <2>2
<1>2. CASE r \notin {[tab |-> t, done |-> FALSE] : on \in {TRUE} \cap IsSubscribed(t, p)}
  <2>1. PICK hit \in Hit(t, p) :
          r = [tab |-> [t EXCEPT !.on = @ \cup hit, !.versioned = @ \cup hit],
               done |-> hit \cap t.versioned = {}]
    BY <1>2 DEF Checkout
  <2>2. hit \subseteq Path
    BY HitIsKnown
  <2>3. r.tab = [t EXCEPT !.on = @ \cup hit, !.versioned = @ \cup hit]
    BY <2>1, Zenon
  <2> QED
    BY <2>2, <2>3 DEF Table, Torn
<1> QED
  BY <1>1, <1>2

LEMMA CheckoutHalfKeeps ==
    ASSUME NEW t \in Table, NEW p \in Path, NEW u \in CheckoutHalf(t, p)
    PROVE  u \in Table
<1>1. PICK hit \in Hit(t, p) : u = [t EXCEPT !.on = @ \cup hit]
  BY DEF CheckoutHalf
<1>2. hit \subseteq Path
  BY HitIsKnown
<1> QED
  BY <1>1, <1>2 DEF Table

LEMMA ReleaseKeeps ==
    ASSUME NEW t \in Table, NEW p \in Path, NEW r \in Release(t, p)
    PROVE  r.tab \in Table /\ Torn(r.tab) \subseteq Torn(t)
<1>1. CASE r \in {[tab |-> t, done |-> FALSE] : on \in {FALSE} \cap IsSubscribed(t, p)}
  <2>1. r = [tab |-> t, done |-> FALSE]
    BY <1>1
  <2>2. r.tab = t
    BY <2>1, Zenon
  <2> QED
    BY <2>2
<1>2. CASE r \notin {[tab |-> t, done |-> FALSE] : on \in {FALSE} \cap IsSubscribed(t, p)}
  <2>1. PICK hit \in Hit(t, p) :
          r = [tab |-> [t EXCEPT !.on = @ \ hit, !.versioned = @ \ hit], done |-> TRUE]
    BY <1>2 DEF Release
  <2>2. r.tab = [t EXCEPT !.on = @ \ hit, !.versioned = @ \ hit]
    BY <2>1, Zenon
  <2> QED
    BY <2>2 DEF Table, Torn
<1> QED
  BY <1>1, <1>2

\* What a crash leaves of a call comes of the table before it.
LEMMA InterruptedIs ==
    ASSUME NEW u \in Interrupted
    PROVE  \/ u = tab
           \/ \E p \in Inner : u = MknodHalf(tab, p)
           \/ \E p \in Inner : u \in UnlinkHalf(tab, p)
           \/ \E p \in Inner : u \in CheckoutHalf(tab, p)
           \/ \E p \in Inner : \E r \in Checkout(tab, p) \cup Release(tab, p) : u = r.tab
<1> DEFINE MadeIt == {MknodHalf(tab, p) : p \in {q \in Inner : Calling("mknod", q)}}
           Gone == UNION {UnlinkHalf(tab, p) : p \in {q \in Inner : Calling("unlink", q)}}
           Whole(p) == {r.tab : r \in Checkout(tab, p) \cup Release(tab, p)}
           Hooked(p) == CheckoutHalf(tab, p) \cup ReleaseHalf(tab, p) \cup Whole(p)
<1>0. Interrupted = {tab} \cup MadeIt \cup Gone
                     \cup (UNION {Hooked(p) : p \in {q \in Asked : Hook(q)}})
  BY DEF Interrupted
<1> HIDE DEF MadeIt, Gone, Hooked
<1>1. u = tab \/ u \in MadeIt \/ u \in Gone \/ u \in UNION {Hooked(p) : p \in {q \in Asked : Hook(q)}}
  BY <1>0, Zenon
<1> USE DEF MadeIt, Gone, Hooked
<1>2. CASE u = tab
  BY <1>2
<1>3. CASE u \in MadeIt
  BY <1>3
<1>4. CASE u \in Gone
  BY <1>4
<1>5. CASE u \in UNION {Hooked(p) : p \in {q \in Asked : Hook(q)}}
  <2>1. PICK p \in Asked : u \in Hooked(p)
    BY <1>5
  <2>2. p \in Inner
    BY AskedAssumption
  <2>3. CASE u \in ReleaseHalf(tab, p)
    BY <2>2, <2>3 DEF ReleaseHalf
  <2>4. CASE u \in CheckoutHalf(tab, p)
    BY <2>2, <2>4
  <2>5. CASE u \in Whole(p)
    BY <2>2, <2>5
  <2> QED
    BY <2>1, <2>3, <2>4, <2>5
<1> QED
  BY <1>1, <1>2, <1>3, <1>4, <1>5
-----------------------------------------------------------------------------
(* The FileMap *)

\* A context is never taken for none.
LEMMA ContextIsSome == NoContext \notin Context
BY DEF NoContext, Context

\* The free store of a new FileMap has every slot once.
LEMMA FreeStoreIsFull ==
    FreeStore \in Seq(Slot) /\ IsInjective(FreeStore) /\ Range(FreeStore) = Slot
<1>1. \A i \in 1 .. NSlots : i - 1 \in Slot
  BY SlotAssumption DEF Slot
<1>2. FreeStore \in Seq(Slot)
  BY <1>1, SlotAssumption, IsASeq DEF FreeStore
<1>3. IsInjective(FreeStore)
  BY SlotAssumption DEF FreeStore, IsInjective
<1>4. Range(FreeStore) = Slot
  <2>1. \A s \in Slot : s + 1 \in 1 .. NSlots /\ FreeStore[s + 1] = s
    BY SlotAssumption DEF FreeStore, Slot
  <2>2. DOMAIN FreeStore = 1 .. NSlots
    BY DEF FreeStore
  <2>3. \A i \in 1 .. NSlots : FreeStore[i] \in Slot
    BY <1>1 DEF FreeStore
  <2> QED
    BY <2>1, <2>2, <2>3 DEF Range
<1> QED
  BY <1>2, <1>3, <1>4

\* A FileMap without open files.
LEMMA FreshFiles ==
    ASSUME slot = [s \in Slot |-> NoContext], free = FreeStore, handles = {}
    PROVE  FilesInv
BY FreeStoreIsFull DEF FilesInv, SlotsConserved

\* FileMap::registerFile.
LEMMA RegisterKeeps ==
    ASSUME FilesInv, NEW p \in Path, NEW i \in Inode \cup {Dir}, RegisterFile(p, i)
    PROVE  FilesInv'
<1> DEFINE c == [path |-> p, inode |-> i, changed |-> FALSE]
           h == Last(free)
<1>1. CASE free = <<>>
  BY <1>1 DEF RegisterFile, files, FilesInv, SlotsConserved
<1>2. CASE free # <<>>
  <2>1. /\ slot' = [slot EXCEPT ![h] = c]
        /\ free' = Front(free)
        /\ handles' = handles \cup {h}
    BY <1>2 DEF RegisterFile, Remaining
  <2>2. free \in Seq(Slot) /\ IsInjective(free)
    BY DEF FilesInv, SlotsConserved
  <2>3. /\ free' \in Seq(Slot) /\ h \in Range(free) /\ h \in Slot
        /\ IsInjective(free') /\ Range(free') = Range(free) \ {h}
    BY <1>2, <2>1, <2>2, DropLast
  <2>4. c \in Context /\ c # NoContext
    <3>1. c \in Context
      BY DEF Context
    <3> QED
      BY <3>1, ContextIsSome
  <2> HIDE DEF c, h
  <2>5. slot' \in [Slot -> Context \cup {NoContext}]
    BY <2>1, <2>4 DEF FilesInv
  <2>6. \A s \in Slot : slot'[s] = IF s = h THEN c ELSE slot[s]
    BY <2>1 DEF FilesInv
  <2>7. SlotsConserved'
    BY <2>1, <2>3, <2>4, <2>6 DEF FilesInv, SlotsConserved
  <2> QED
    BY <2>1, <2>3, <2>5, <2>7 DEF FilesInv
<1> QED
  BY <1>1, <1>2

\* The context of a handle is marked.
LEMMA MarkKeeps ==
    ASSUME FilesInv, NEW h \in handles, slot' = Marked(h), UNCHANGED <<free, handles>>
    PROVE  FilesInv'
<1>1. h \in Slot /\ slot[h] \in Context
  BY DEF FilesInv, SlotsConserved
<1>2. [slot[h] EXCEPT !.changed = TRUE] \in Context
  BY <1>1 DEF Context
<1> DEFINE c == [slot[h] EXCEPT !.changed = TRUE]
<1>3. c \in Context /\ c # NoContext
  BY <1>2, ContextIsSome
<1>4. slot' = [slot EXCEPT ![h] = c]
  BY DEF Marked
<1> HIDE DEF c
<1>5. slot' \in [Slot -> Context \cup {NoContext}]
  BY <1>3, <1>4 DEF FilesInv
<1>6. \A s \in Slot : slot'[s] = NoContext <=> slot[s] = NoContext
  BY <1>1, <1>3, <1>4, ContextIsSome DEF FilesInv
<1>7. SlotsConserved'
  BY <1>6 DEF FilesInv, SlotsConserved
<1> QED
  BY <1>5, <1>7 DEF FilesInv

\* FileMap::unregisterFile, and release of the handle that means none.
LEMMA CloseKeeps ==
    ASSUME FilesInv, NEW h \in handles, Close(h)
    PROVE  FilesInv'
<1>1. h \in Slot /\ h \notin Range(free) /\ handles' = handles \ {h}
  BY DEF FilesInv, SlotsConserved, Close
<1>2. CASE h = 0
  BY <1>1, <1>2 DEF Close, FilesInv, SlotsConserved
<1>3. CASE h # 0
  <2>1. slot' = [slot EXCEPT ![h] = NoContext] /\ free' = Append(free, h)
    BY <1>3 DEF Close
  <2>2. free \in Seq(Slot) /\ IsInjective(free)
    BY DEF FilesInv, SlotsConserved
  <2>3. free' \in Seq(Slot) /\ IsInjective(free') /\ Range(free') = Range(free) \cup {h}
    BY <1>1, <2>1, <2>2, AppendNew
  <2>4. slot' \in [Slot -> Context \cup {NoContext}]
    BY <2>1 DEF FilesInv
  <2>5. \A s \in Slot : slot'[s] = IF s = h THEN NoContext ELSE slot[s]
    BY <2>1 DEF FilesInv
  <2>6. SlotsConserved'
    BY <1>1, <2>3, <2>5 DEF FilesInv, SlotsConserved
  <2> QED
    BY <1>1, <2>3, <2>4, <2>6 DEF FilesInv
<1> QED
  BY <1>2, <1>3
-----------------------------------------------------------------------------
(* The directory on disk *)

LEMMA NewFileKeeps ==
    ASSUME DiskInv, NEW p \in Path, NewFile(p)
    PROVE  /\ disk' \in [Path -> Node] /\ disk'[p] \in Inode
           /\ uncounted' \subseteq Inode /\ excused' \subseteq Inode
<1>1. PICK i \in Inode : /\ disk' = [disk EXCEPT ![p] = i]
                         /\ uncounted' = uncounted \ {i} /\ excused' = excused \ {i}
  BY DEF NewFile
<1> QED
  BY <1>1 DEF DiskInv, Node

LEMMA WithoutKeeps ==
    ASSUME DiskInv, NEW p PROVE Without(p) \in [Path -> Node]
BY DEF DiskInv, Without, Node

LEMMA UnchangedFiles == FilesInv /\ UNCHANGED files => FilesInv'
BY DEF FilesInv, SlotsConserved, files
LEMMA UnchangedTable == TabInv /\ UNCHANGED tab => TabInv'
BY DEF TabInv
LEMMA UnchangedTodo == TodoInv /\ UNCHANGED todo => TodoInv'
BY DEF TodoInv
LEMMA UnchangedDisk == DiskInv /\ UNCHANGED <<disk, history>> => DiskInv'
BY DEF DiskInv, history
-----------------------------------------------------------------------------
(* Requests *)

LEMMA MknodFileStep == ASSUME IInv, NEW p \in Path, MknodFile(p) PROVE IInv'
<1>1. DiskInv'
  BY NewFileKeeps DEF IInv, DiskInv, MknodFile
<1>2. TodoInv'
  BY OneCall DEF TodoInv, CallName, MknodFile
<1> QED
  BY <1>1, <1>2, UnchangedFiles, UnchangedTable DEF IInv, MknodFile

LEMMA MkdirStep == ASSUME IInv, NEW p \in Path, Mkdir(p) PROVE IInv'
<1>1. TodoInv'
  <2>1. <<"mknod", "mkdir">> \in Seq(CallName)
    BY DEF CallName
  <2> QED
    BY <2>1, CallsAreCalls DEF TodoInv, Mkdir
<1> QED
  BY <1>1, UnchangedFiles, UnchangedTable, UnchangedDisk DEF IInv, Mkdir

LEMMA EraseStep == ASSUME IInv, NEW p \in Path, Erase(p) PROVE IInv'
<1>1. DiskInv'
  BY WithoutKeeps DEF IInv, DiskInv, Erase
<1>2. TodoInv'
  BY OneCall DEF TodoInv, CallName, Erase
<1> QED
  BY <1>1, <1>2, UnchangedFiles, UnchangedTable DEF IInv, Erase

LEMMA AliasStep == ASSUME IInv, NEW p \in Path, NEW q \in Path, Alias(p, q) PROVE IInv'
<1>1. DiskInv'
  BY DEF IInv, DiskInv, Alias, Node, IsFile
<1> QED
  BY <1>1, UnchangedFiles, UnchangedTable, UnchangedTodo DEF IInv, Alias

LEMMA RenameCallsKeep == ASSUME NEW p \in Path, NEW q \in Path PROVE RenameCalls(p, q) \in Seq(Call)
<1>1. Calls(<<"unlink">>, p) \in Seq(Call)
  BY OneCall DEF CallName
<1>2. Calls(<<IF disk[q] = Absent THEN "mknod" ELSE "count">>, q) \in Seq(Call)
  BY OneCall DEF CallName
<1>3. \A s, t \in Seq(Call) : s \o t \in Seq(Call)
  OBVIOUS
<1> QED
  BY <1>1, <1>2, <1>3, Zenon DEF RenameCalls

LEMMA RenameStep == ASSUME IInv, NEW p \in Path, NEW q \in Path, Rename(p, q) PROVE IInv'
<1>1. DiskInv'
  <2>1. disk' \in [Path -> Node]
    <3>1. \A r \in Path : Without(p)[r] \in Node
      BY WithoutKeeps DEF IInv
    <3>2. \A r \in Path : disk[r] \in Node
      BY DEF IInv, DiskInv
    <3> QED
      BY <3>1, <3>2 DEF Rename
  <2>2. excused' \subseteq Inode
    BY DEF IInv, DiskInv, Rename, IsFile
  <2>3. uncounted' \subseteq Inode
    BY DEF IInv, DiskInv, Rename, IsFile
  <2>4. stray' \subseteq Path
    BY DEF IInv, DiskInv, Rename, Below
  <2> QED
    BY <2>1, <2>2, <2>3, <2>4 DEF DiskInv
<1>2. TodoInv'
  BY RenameCallsKeep, Zenon DEF TodoInv, Rename
<1> QED
  BY <1>1, <1>2, UnchangedFiles, UnchangedTable DEF IInv, Rename

LEMMA RenameAliasStep == ASSUME IInv, NEW p \in Path, NEW q \in Path, RenameAlias(p, q) PROVE IInv'
<1>1. TodoInv'
  BY RenameCallsKeep DEF TodoInv, RenameAlias
<1> QED
  BY <1>1, UnchangedFiles, UnchangedTable, UnchangedDisk DEF IInv, RenameAlias

LEMMA TruncateStep == ASSUME IInv, NEW p \in Path, Truncate(p) PROVE IInv'
<1>1. DiskInv'
  BY DEF IInv, DiskInv, Truncate, IsFile
<1>2. TodoInv'
  BY OneCall DEF TodoInv, CallName, Truncate
<1> QED
  BY <1>1, <1>2, UnchangedFiles, UnchangedTable DEF IInv, Truncate

LEMMA CreateStep == ASSUME IInv, NEW p \in Path, Create(p) PROVE IInv'
<1>1. /\ disk' \in [Path -> Node] /\ disk'[p] \in Inode
      /\ uncounted' \subseteq Inode /\ excused' \subseteq Inode
  BY NewFileKeeps DEF IInv, Create
<1>2. DiskInv'
  BY <1>1 DEF IInv, DiskInv, Create
<1>3. TodoInv'
  BY OneCall DEF TodoInv, CallName, Create
<1>4. FilesInv'
  BY <1>1, RegisterKeeps DEF IInv, Create
<1> QED
  BY <1>2, <1>3, <1>4, UnchangedTable DEF IInv, Create

LEMMA OpenStep == ASSUME IInv, NEW p \in Path, Open(p) PROVE IInv'
<1>1. FilesInv'
  BY RegisterKeeps DEF IInv, Open, IsFile
<1> QED
  BY <1>1, UnchangedTable, UnchangedTodo, UnchangedDisk DEF IInv, Open

LEMMA OpendirStep == ASSUME IInv, NEW p \in Path, Opendir(p) PROVE IInv'
<1>1. FilesInv'
  BY RegisterKeeps DEF IInv, Opendir
<1> QED
  BY <1>1, UnchangedTable, UnchangedTodo, UnchangedDisk DEF IInv, Opendir

LEMMA ChangeStep == ASSUME IInv, NEW h \in handles, Change(h) PROVE IInv'
<1>1. FilesInv'
  BY MarkKeeps DEF IInv, Change
<1>2. slot[h] \in Context
  BY DEF IInv, FilesInv, SlotsConserved
<1>3. slot[h].inode \in Inode
  BY <1>2 DEF Context, Change
<1>4. DiskInv'
  BY <1>3 DEF IInv, DiskInv, Change
<1> QED
  BY <1>1, <1>4, UnchangedTable, UnchangedTodo DEF IInv, Change

LEMMA ChangeByPathStep == ASSUME IInv, NEW p \in Path, ChangeByPath(p) PROVE IInv'
<1>1. DiskInv'
  BY DEF IInv, DiskInv, ChangeByPath, IsFile
<1>2. TodoInv'
  BY OneCall DEF TodoInv, CallName, ChangeByPath
<1> QED
  BY <1>1, <1>2, UnchangedFiles, UnchangedTable DEF IInv, ChangeByPath

LEMMA CloseStep == ASSUME IInv, NEW h \in handles, Close(h) PROVE IInv'
<1>1. FilesInv'
  BY CloseKeeps DEF IInv
<1>2. DiskInv'
  BY DEF IInv, DiskInv, Close, Dropped, Counted
<1> QED
  BY <1>1, <1>2, UnchangedTable, UnchangedTodo DEF IInv, Close
-----------------------------------------------------------------------------
(* The rest of a request, and what other threads and crashes do *)

LEMMA DbMknodStep == ASSUME IInv, NEW p \in Path, DbMknod(p) PROVE IInv'
<1>1. TabInv'
  BY MknodKeeps DEF IInv, TabInv, DbMknod
<1> QED
  BY <1>1, StepKeeps, UnchangedFiles, UnchangedDisk DEF IInv, DbMknod

LEMMA DbUnlinkStep == ASSUME IInv, NEW p \in Path, DbUnlink(p) PROVE IInv'
<1>1. TabInv'
  BY UnlinkKeeps DEF IInv, TabInv, DbUnlink
<1> QED
  BY <1>1, StepKeeps, UnchangedFiles, UnchangedDisk DEF IInv, DbUnlink

LEMMA DbCountStep == ASSUME IInv, NEW p \in Path, DbCount(p) PROVE IInv'
<1>1. DiskInv'
  BY DEF IInv, DiskInv, DbCount, Counted
<1> QED
  BY <1>1, StepKeeps, UnchangedFiles, UnchangedTable DEF IInv, DbCount

LEMMA MakeDirectoryStep == ASSUME IInv, NEW p \in Path, MakeDirectory(p) PROVE IInv'
<1>1. DiskInv'
  BY DEF IInv, DiskInv, MakeDirectory, Node, history
<1> QED
  BY <1>1, StepKeeps, UnchangedFiles, UnchangedTable DEF IInv, MakeDirectory

LEMMA CheckoutFileStep == ASSUME IInv, NEW p \in Path, CheckoutFile(p) PROVE IInv'
<1>1. PICK r \in Checkout(tab, p) :
        /\ tab' = r.tab
        /\ IF r.done /\ disk[p] = Absent /\ disk[Parent(p)] = Dir
           THEN /\ NewFile(p)
                /\ stray' = IF p \in tab.known THEN stray ELSE stray \cup {p}
           ELSE /\ uncounted' = IF r.done THEN uncounted \ {disk[p]} ELSE uncounted
                /\ UNCHANGED <<disk, excused, stray>>
  BY DEF CheckoutFile
<1>2. TabInv'
  BY <1>1, CheckoutKeeps DEF IInv, TabInv
<1>3. DiskInv'
  <2>1. CASE r.done /\ disk[p] = Absent /\ disk[Parent(p)] = Dir
    <3>1. NewFile(p) /\ stray' \subseteq Path
      BY <1>1, <2>1 DEF IInv, DiskInv
    <3> QED
      BY <3>1, NewFileKeeps DEF IInv, DiskInv
  <2>2. CASE ~(r.done /\ disk[p] = Absent /\ disk[Parent(p)] = Dir)
    BY <1>1, <2>2 DEF IInv, DiskInv
  <2> QED
    BY <2>1, <2>2
<1> QED
  BY <1>2, <1>3, UnchangedFiles, UnchangedTodo DEF IInv, CheckoutFile

LEMMA ReleaseFileStep == ASSUME IInv, NEW p \in Path, ReleaseFile(p) PROVE IInv'
<1>1. PICK r \in Release(tab, p) :
        /\ tab' = r.tab
        /\ IF r.done /\ disk[p] # Dir
           THEN disk' = Without(p) /\ stray' = stray \ {p}
           ELSE UNCHANGED <<disk, stray>>
  BY DEF ReleaseFile
<1>2. TabInv'
  BY <1>1, ReleaseKeeps DEF IInv, TabInv
<1>3. DiskInv'
  BY <1>1, WithoutKeeps DEF IInv, DiskInv, ReleaseFile
<1> QED
  BY <1>2, <1>3, UnchangedFiles, UnchangedTodo DEF IInv, ReleaseFile

LEMMA InstallStep == ASSUME IInv, NEW p \in Path, Install(p) PROVE IInv'
<1>1. DiskInv'
  BY NewFileKeeps DEF IInv, DiskInv, Install
<1> QED
  BY <1>1, UnchangedFiles, UnchangedTable, UnchangedTodo DEF IInv, Install

LEMMA LearnStep == ASSUME IInv, NEW p \in Path, Learn(p) PROVE IInv'
<1>1. TabInv'
  BY MergeKeeps DEF IInv, TabInv, Learn
<1> QED
  BY <1>1, UnchangedFiles, UnchangedDisk, UnchangedTodo DEF IInv, Learn

LEMMA CrashStep == ASSUME IInv, Crash PROVE IInv'
<1>1. FilesInv'
  BY FreeStoreIsFull DEF Crash, FilesInv, SlotsConserved
<1>2. DiskInv'
  BY DEF IInv, DiskInv, Crash, Inner
<1>3. TodoInv'
  BY DEF TodoInv, Crash
<1>4. TabInv'
  <2> PICK u \in Interrupted : tab' = u
    BY DEF Crash
  <2> QED
    BY InterruptedIs, MknodKeeps, UnlinkHalfKeeps, CheckoutHalfKeeps, CheckoutKeeps, ReleaseKeeps
    DEF IInv, TabInv, Inner
<1> QED
  BY <1>1, <1>2, <1>3, <1>4 DEF IInv
-----------------------------------------------------------------------------
LEMMA InitIInv == Init => IInv
<1> SUFFICES ASSUME Init PROVE IInv
  OBVIOUS
<1>1. DiskInv
  BY DEF Init, DiskInv, Node
<1>2. TodoInv
  BY DEF Init, TodoInv
<1>3. TabInv
  BY EmptyTableIsGood DEF Init, TabInv
<1>4. FilesInv
  BY FreshFiles DEF Init
<1> QED
  BY <1>1, <1>2, <1>3, <1>4 DEF IInv

LEMMA NextIInv == IInv /\ [Next]_vars => IInv'
<1> SUFFICES ASSUME IInv, [Next]_vars PROVE IInv'
  OBVIOUS
<1>1. Asked \subseteq Path /\ Root \in Path
  BY AskedAssumption, PathAssumption DEF Inner
<1>2. ASSUME NEW p \in Asked,
             \/ MknodFile(p) \/ Mkdir(p) \/ Erase(p) \/ Truncate(p)
             \/ Create(p) \/ Open(p) \/ ChangeByPath(p)
      PROVE  IInv'
  BY <1>1, <1>2, MknodFileStep, MkdirStep, EraseStep, TruncateStep, CreateStep, OpenStep,
     ChangeByPathStep
<1>3. ASSUME NEW p \in Asked,
             \/ DbMknod(p) \/ DbUnlink(p) \/ DbCount(p) \/ MakeDirectory(p)
             \/ CheckoutFile(p) \/ ReleaseFile(p) \/ Install(p) \/ Learn(p)
      PROVE  IInv'
  BY <1>1, <1>3, DbMknodStep, DbUnlinkStep, DbCountStep, MakeDirectoryStep, CheckoutFileStep,
     ReleaseFileStep, InstallStep, LearnStep
<1>4. ASSUME NEW p \in Asked \cup {Root}, Opendir(p) PROVE IInv'
  BY <1>1, <1>4, OpendirStep
<1>5. ASSUME NEW p \in Asked, NEW q \in Asked, Alias(p, q) \/ Rename(p, q) \/ RenameAlias(p, q)
      PROVE  IInv'
  BY <1>1, <1>5, AliasStep, RenameStep, RenameAliasStep
<1>6. ASSUME NEW h \in handles, Change(h) \/ Close(h) PROVE IInv'
  BY <1>6, ChangeStep, CloseStep
<1>7. CASE Crash
  BY <1>7, CrashStep
<1>8. CASE UNCHANGED vars
  BY <1>8, UnchangedFiles, UnchangedTable, UnchangedTodo, UnchangedDisk DEF IInv, vars
<1> QED
  BY <1>2, <1>3, <1>4, <1>5, <1>6, <1>7, <1>8 DEF Next

\* The state of a mount always has its type.
THEOREM TypesHold == Spec => []MountTypes
<1>1. IInv => MountTypes
  BY DEF IInv, DiskInv, TodoInv, TabInv, FilesInv, MountTypes
<1> QED
  BY InitIInv, NextIInv, <1>1, PTL DEF Spec

\* The file map never hands out a slot that is in use, and every slot but the
\* one whose number means "none" comes back (FileMap::registerFile,
\* unregisterFile).
THEOREM SlotsStayConserved == Spec => []SlotsConserved
<1>1. IInv => SlotsConserved
  BY DEF IInv, FilesInv
<1> QED
  BY InitIInv, NextIInv, <1>1, PTL DEF Spec

\* The steps that change the tables.
LEMMA TableSteps ==
    ASSUME Next, ~Crash
    PROVE  \/ UNCHANGED tab
           \/ \E p \in Asked : DbMknod(p) \/ DbUnlink(p) \/ CheckoutFile(p) \/ ReleaseFile(p) \/ Learn(p)
<1>1. ASSUME NEW p \in Asked, MknodFile(p) \/ Mkdir(p) \/ Erase(p) \/ Truncate(p) PROVE UNCHANGED tab
  BY <1>1 DEF MknodFile, Mkdir, Erase, Truncate
<1>2. ASSUME NEW p \in Asked, Create(p) \/ Open(p) \/ ChangeByPath(p) PROVE UNCHANGED tab
  BY <1>2 DEF Create, Open, ChangeByPath
<1>3. ASSUME NEW p \in Asked, DbCount(p) \/ MakeDirectory(p) \/ Install(p) PROVE UNCHANGED tab
  BY <1>3 DEF DbCount, MakeDirectory, Install
<1>4. ASSUME NEW p \in Asked \cup {Root}, Opendir(p) PROVE UNCHANGED tab
  BY <1>4 DEF Opendir
<1>5. ASSUME NEW p \in Asked, NEW q \in Asked, Alias(p, q) \/ Rename(p, q) \/ RenameAlias(p, q)
      PROVE  UNCHANGED tab
  BY <1>5 DEF Alias, Rename, RenameAlias
<1>6. ASSUME NEW h \in handles, Change(h) \/ Close(h) PROVE UNCHANGED tab
  BY <1>6 DEF Change, Close
<1> QED
  BY <1>1, <1>2, <1>3, <1>4, <1>5, <1>6, Zenon DEF Next

\* Whatever rows the calls hit that read an id they did not set, and although a
\* crash may come between any two statements of Database::mknod, unlink,
\* checkout and release: no step but the crash itself leaves a subscribed path
\* without a version.
THEOREM SubscribedStaysVersioned == Spec => SubscribedHasVersion
<1>1. ASSUME IInv, [Next]_vars
      PROVE  [Torn(tab') \subseteq Torn(tab) \/ Crash]_vars
  <2>1. CASE UNCHANGED vars
    BY <2>1
  <2>2. CASE Next /\ ~Crash
    <3>1. Asked \subseteq Path /\ tab \in Table
      BY <1>1, AskedAssumption DEF Inner, IInv, TabInv
    <3>2. CASE UNCHANGED tab
      BY <3>2
    <3>3. CASE \E p \in Asked : DbMknod(p) \/ DbUnlink(p)
      <4>1. PICK p \in Asked : DbMknod(p) \/ DbUnlink(p)
        BY <3>3
      <4>2. tab' = Mknod(tab, p) \/ tab' \in Unlink(tab, p)
        BY <4>1 DEF DbMknod, DbUnlink
      <4> QED
        BY <3>1, <4>2, MknodKeeps, UnlinkKeeps
    <3>4. CASE \E p \in Asked : CheckoutFile(p) \/ ReleaseFile(p)
      <4>1. PICK p \in Asked : CheckoutFile(p) \/ ReleaseFile(p)
        BY <3>4
      <4>2. \E r \in Checkout(tab, p) \cup Release(tab, p) : tab' = r.tab
        BY <4>1 DEF CheckoutFile, ReleaseFile
      <4> QED
        BY <3>1, <4>2, CheckoutKeeps, ReleaseKeeps
    <3>5. CASE \E p \in Asked : Learn(p)
      <4>1. PICK p \in Asked : tab' = Merge(tab, Parent(p), {p})
        BY <3>5 DEF Learn
      <4> QED
        BY <3>1, <4>1, MergeKeeps
    <3> QED
      BY <2>2, <3>2, <3>3, <3>4, <3>5, TableSteps
  <2> QED
    BY <1>1, <2>1, <2>2
<1>2. IInv /\ [Next]_vars
        => [(tab').on \ (tab').versioned \subseteq tab.on \ tab.versioned \/ Crash]_vars
  BY <1>1 DEF Torn
<1> QED
  BY InitIInv, NextIInv, <1>2, PTL DEF Spec, SubscribedHasVersion
-----------------------------------------------------------------------------
\* What a rename takes away with a directory, by position.
IsGraft(S, p, q, r, m) ==
    /\ m \in Seq(S) /\ IsPrefix(p, m)
    /\ Len(m) = Len(p) + (Len(r) - Len(q))
    /\ \A i \in 1 .. Len(p) : m[i] = p[i]
    /\ \A j \in 1 .. Len(r) - Len(q) : m[Len(p) + j] = r[Len(q) + j]

LEMMA MovedByPosition ==
    ASSUME NEW S, NEW p \in Seq(S), NEW q \in Seq(S), NEW r \in Seq(S), IsPrefix(q, r)
    PROVE  IsGraft(S, p, q, r, Moved(p, q, r))
<1> DEFINE s == SubSeq(r, Len(q) + 1, Len(r))
           c == p \o s
<1>1. Len(p) \in Nat /\ Len(q) \in Nat /\ Len(r) \in Nat /\ Len(q) <= Len(r)
  BY PrefixByPosition
<1>2. Len(q) \in 0 .. Len(r)
  BY <1>1
<1>3. /\ s \in Seq(S) /\ Len(s) = Len(r) - Len(q)
      /\ \A j \in 1 .. Len(r) - Len(q) : s[j] = r[Len(q) + j]
  BY <1>2, Suffix
<1> HIDE DEF s
<1>4. /\ c \in Seq(S) /\ Len(c) = Len(p) + Len(s)
      /\ \A i \in 1 .. Len(p) : c[i] = p[i]
      /\ \A j \in 1 .. Len(s) : c[Len(p) + j] = s[j]
  <2>1. s \in Seq(S)
    BY <1>3
  <2>2. c \in Seq(S) /\ Len(c) = Len(p) + Len(s) /\ \A i \in 1 .. Len(p) : c[i] = p[i]
    BY <2>1, Joined
  <2>3. \A j \in 1 .. Len(s) : c[Len(p) + j] = s[j]
    BY <2>1, Joined
  <2> QED
    BY <2>2, <2>3
<1> HIDE DEF c
<1>5. Len(p) <= Len(c)
  BY <1>1, <1>3, <1>4
<1>6. IsPrefix(p, c)
  BY <1>4, <1>5, PrefixByPosition
<1>7. /\ Len(c) = Len(p) + (Len(r) - Len(q))
      /\ \A j \in 1 .. Len(r) - Len(q) : c[Len(p) + j] = r[Len(q) + j]
  BY <1>3, <1>4
<1>8. Moved(p, q, r) = c
  BY DEF Moved, c, s
<1> QED
  BY <1>4, <1>6, <1>7, <1>8, Zenon DEF IsGraft

\* It takes the parent of what it takes.
LEMMA MovedParent ==
    ASSUME NEW S, NEW p \in Seq(S), NEW q \in Seq(S), NEW r \in Seq(S), IsPrefix(q, r), q # r
    PROVE  /\ r # <<>> /\ IsPrefix(q, Front(r))
           /\ Moved(p, q, r) # <<>> /\ Moved(p, q, r) # p
           /\ Front(Moved(p, q, r)) = Moved(p, q, Front(r))
<1> DEFINE g == Front(r)
           m == Moved(p, q, r)
           f == Moved(p, q, g)
           h == Front(m)
<1>1. Len(p) \in Nat /\ Len(q) \in Nat /\ r # <<>>
  <2>1. Len(q) <= Len(r) /\ \A i \in 1 .. Len(q) : q[i] = r[i]
    BY PrefixByPosition
  <2>2. Len(q) \in Nat /\ Len(p) \in Nat
    OBVIOUS
  <2>3. Len(q) # Len(r)
    BY <2>1, SeqEqual
  <2>4. r = <<>> => Len(r) = 0
    OBVIOUS
  <2> QED
    BY <2>1, <2>2, <2>3, <2>4
<1>2. /\ g \in Seq(S) /\ Len(r) \in Nat \ {0} /\ Len(g) = Len(r) - 1
      /\ \A i \in 1 .. Len(r) - 1 : g[i] = r[i]
  BY <1>1, FrontByPosition
<1>3. IsPrefix(q, g)
  BY <1>1, PrefixOfFront
<1> HIDE DEF g
<1>13. IsGraft(S, p, q, r, m)
  BY MovedByPosition, Zenon
<1>14. IsGraft(S, p, q, g, f)
  BY <1>2, <1>3, MovedByPosition, Zenon
<1> HIDE DEF m, f
<1>4. /\ m \in Seq(S) /\ Len(m) = Len(p) + (Len(r) - Len(q))
      /\ \A i \in 1 .. Len(p) : m[i] = p[i]
      /\ \A j \in 1 .. Len(r) - Len(q) : m[Len(p) + j] = r[Len(q) + j]
  BY <1>13, Zenon DEF IsGraft
<1>5. /\ f \in Seq(S) /\ Len(f) = Len(p) + (Len(g) - Len(q))
      /\ \A i \in 1 .. Len(p) : f[i] = p[i]
      /\ \A j \in 1 .. Len(g) - Len(q) : f[Len(p) + j] = g[Len(q) + j]
  BY <1>14, Zenon DEF IsGraft
<1>6. Len(q) <= Len(g)
  BY <1>2, <1>3, PrefixByPosition
<1>7. Len(m) # 0 /\ Len(m) # Len(p)
  BY <1>1, <1>2, <1>4, <1>6
<1>8. m # <<>> /\ m # p
  <2>1. m = <<>> => Len(m) = 0
    OBVIOUS
  <2> QED
    BY <1>7, <2>1
<1>9. /\ h \in Seq(S) /\ Len(h) = Len(m) - 1
      /\ \A i \in 1 .. Len(m) - 1 : h[i] = m[i]
  BY <1>4, <1>8, FrontByPosition
<1> HIDE DEF h
<1>10. Len(h) = Len(f)
  BY <1>1, <1>2, <1>4, <1>5, <1>9
<1>11. ASSUME NEW i \in 1 .. Len(h) PROVE h[i] = f[i]
  <2>1. i \in 1 .. Len(m) - 1 /\ h[i] = m[i]
    BY <1>9
  <2>2. CASE i \in 1 .. Len(p)
    BY <1>4, <1>5, <2>1, <2>2
  <2>3. CASE i \notin 1 .. Len(p)
    <3> DEFINE j == i - Len(p)
    <3>1. /\ i = Len(p) + j /\ j \in 1 .. Len(r) - Len(q) /\ j \in 1 .. Len(g) - Len(q)
          /\ Len(q) + j \in 1 .. Len(r) - 1
      <4>1. PICK a \in Nat, b \in Nat, k \in Nat : a = Len(p) /\ b = Len(q) /\ k = Len(r)
        BY <1>1, <1>2, Zenon
      <4>2. i \in Nat /\ 1 <= i /\ i <= a + (k - b) - 1 /\ ~(i <= a) /\ b <= k - 1
        BY <1>2, <1>4, <1>6, <2>1, <2>3, <4>1
      <4>3. i = a + (i - a) /\ i - a \in 1 .. k - b /\ i - a \in 1 .. (k - 1) - b /\ b + (i - a) \in 1 .. k - 1
        BY <4>1, <4>2
      <4>4. Len(g) = k - 1
        BY <1>2, <4>1, Zenon
      <4> QED
        BY <4>1, <4>3, <4>4, Zenon
    <3> HIDE DEF j
    <3>2. m[i] = r[Len(q) + j]
      BY <1>4, <3>1, Zenon
    <3>3. f[i] = g[Len(q) + j]
      BY <1>5, <3>1, Zenon
    <3>4. g[Len(q) + j] = r[Len(q) + j]
      BY <1>2, <3>1, Zenon
    <3> QED
      BY <2>1, <3>2, <3>3, <3>4, Zenon
  <2> QED
    BY <2>2, <2>3
<1>12. h = f
  BY <1>5, <1>9, <1>10, <1>11, SeqEqual
<1> QED
  BY <1>1, <1>3, <1>8, <1>12 DEF f, g, h, m

\* Two paths do not come from the same one; the directory itself goes to the
\* new name.
LEMMA MovedApart ==
    ASSUME NEW S, NEW p \in Seq(S), NEW q \in Seq(S), NEW r \in Seq(S), NEW t \in Seq(S),
           IsPrefix(q, r), IsPrefix(q, t), Moved(p, q, r) = Moved(p, q, t)
    PROVE  r = t
<1> DEFINE m == Moved(p, q, r)
<1>1. Len(p) \in Nat /\ Len(q) \in Nat /\ Len(r) \in Nat /\ Len(t) \in Nat
  OBVIOUS
<1>2. IsGraft(S, p, q, r, m)
  BY MovedByPosition, Zenon
<1>3. IsGraft(S, p, q, t, m)
  <2>1. m = Moved(p, q, t)
    OBVIOUS
  <2> HIDE DEF m
  <2> QED
    BY <2>1, MovedByPosition, Zenon
<1> HIDE DEF m
<1>4. Len(r) = Len(t)
  BY <1>1, <1>2, <1>3 DEF IsGraft
<1>5. (\A i \in 1 .. Len(q) : q[i] = r[i]) /\ (\A i \in 1 .. Len(q) : q[i] = t[i])
  BY PrefixByPosition
<1>6. ASSUME NEW i \in 1 .. Len(r) PROVE r[i] = t[i]
  <2>1. CASE i \in 1 .. Len(q)
    BY <1>5, <2>1
  <2>2. CASE i \notin 1 .. Len(q)
    <3> DEFINE j == i - Len(q)
    <3>1. i = Len(q) + j /\ j \in 1 .. Len(r) - Len(q) /\ j \in 1 .. Len(t) - Len(q)
      BY <1>1, <1>4, <2>2
    <3> HIDE DEF j
    <3> QED
      BY <1>2, <1>3, <3>1, Zenon DEF IsGraft
  <2> QED
    BY <2>1, <2>2
<1> QED
  BY <1>4, <1>6, SeqEqual

LEMMA MovedItself == ASSUME NEW S, NEW p \in Seq(S), NEW q \in Seq(S) PROVE Moved(p, q, q) = p
<1>1. q \in Seq(S) /\ Len(q) \in Nat /\ Len(q) < Len(q) + 1
  OBVIOUS
<1>2. SubSeq(q, Len(q) + 1, Len(q)) = <<>>
  BY <1>1, SubSeqEmpty
<1> QED
  BY <1>2, ConcatEmptySeq DEF Moved

\* The paths of the tree.
LEMMA PathsAreNames == \E S : Path \subseteq Seq(S) /\ Root \in Path
BY PathAssumption, Zenon

LEMMA PathOrder ==
    ASSUME NEW p \in Path, NEW q \in Path, NEW r \in Path
    PROVE  /\ IsPrefix(p, p)
           /\ IsPrefix(p, q) /\ IsPrefix(q, r) => IsPrefix(p, r)
           /\ IsPrefix(p, q) /\ IsPrefix(q, p) => p = q
<1>1. PICK S : p \in Seq(S) /\ q \in Seq(S) /\ r \in Seq(S)
  BY PathsAreNames, Zenon
<1> QED
  BY <1>1, PrefixOrder, Zenon

LEMMA ParentOf ==
    ASSUME NEW p \in Inner, NEW q \in Path
    PROVE  /\ p \in Path /\ p # Root /\ Parent(p) \in Path
           /\ IsPrefix(q, Parent(p)) <=> (IsPrefix(q, p) /\ q # p)
<1>1. PICK S : p \in Seq(S) /\ q \in Seq(S)
  BY PathsAreNames, Zenon DEF Inner
<1>2. p \in Path /\ p # Root /\ Parent(p) \in Path
  BY PathAssumption, Zenon DEF Inner
<1>3. IsPrefix(q, Front(p)) <=> (IsPrefix(q, p) /\ q # p)
  BY <1>1, <1>2, PrefixOfFront, Zenon DEF Root
<1> QED
  BY <1>2, <1>3, Zenon DEF Parent

\* Nothing but the root is above the root.
LEMMA RootIsAlone == ASSUME NEW p \in Path, IsPrefix(p, Root) PROVE p = Root
<1>1. PICK S : p \in Seq(S) /\ Root \in Seq(S)
  BY PathsAreNames, Zenon
<1>2. IsPrefix(Root, p)
  <2>1. Len(Root) = 0 /\ Len(p) \in Nat
    BY <1>1 DEF Root
  <2>2. Len(Root) <= Len(p) /\ \A i \in 1 .. Len(Root) : Root[i] = p[i]
    BY <2>1
  <2> QED
    BY <1>1, <2>2, PrefixByPosition
<1> QED
  BY <1>1, <1>2, PrefixOrder, Zenon

LEMMA MovedPath ==
    ASSUME NEW p \in Path, NEW q \in Path, NEW r \in Path, IsPrefix(q, r),
           Moved(p, q, r) \in Path
    PROVE  /\ IsPrefix(p, Moved(p, q, r))
           /\ r = q => Moved(p, q, r) = p
           /\ r # q => /\ r \in Inner /\ IsPrefix(q, Parent(r))
                      /\ Moved(p, q, r) \in Inner /\ Moved(p, q, r) # p
                      /\ Moved(p, q, Parent(r)) = Parent(Moved(p, q, r))
<1>1. PICK S : p \in Seq(S) /\ q \in Seq(S) /\ r \in Seq(S)
  BY PathsAreNames, Zenon
<1>2. IsPrefix(p, Moved(p, q, r))
  BY <1>1, MovedByPosition, Zenon DEF IsGraft
<1>3. r = q => Moved(p, q, r) = p
  BY <1>1, MovedItself, Zenon
<1>4. r # q => /\ r # <<>> /\ IsPrefix(q, Front(r))
               /\ Moved(p, q, r) # <<>> /\ Moved(p, q, r) # p
               /\ Front(Moved(p, q, r)) = Moved(p, q, Front(r))
  <2> SUFFICES ASSUME q # r
               PROVE  /\ r # <<>> /\ IsPrefix(q, Front(r))
                      /\ Moved(p, q, r) # <<>> /\ Moved(p, q, r) # p
                      /\ Front(Moved(p, q, r)) = Moved(p, q, Front(r))
    BY Zenon
  <2> QED
    BY <1>1, MovedParent
<1> QED
  BY <1>2, <1>3, <1>4, Zenon DEF Inner, Parent, Root

LEMMA MovedDiffer ==
    ASSUME NEW p \in Path, NEW q \in Path, NEW r \in Path, NEW t \in Path,
           IsPrefix(q, r), IsPrefix(q, t), Moved(p, q, r) = Moved(p, q, t)
    PROVE  r = t
<1>1. PICK S : p \in Seq(S) /\ q \in Seq(S) /\ r \in Seq(S) /\ t \in Seq(S)
  BY PathsAreNames, Zenon
<1> QED
  BY <1>1, MovedApart, Zenon
-----------------------------------------------------------------------------
(* Changes and their counts *)

\* The parts of the inductive invariant that says which changes are counted.
\* Two paths with the same file have been linked, or ...
TwoPaths == \A p, q \in Path : p # q /\ IsFile(p) /\ disk[q] = disk[p] => disk[p] \in excused
\* The file of an open handle is at the path of its context, or nowhere.
OpenWhere ==
    \A s \in handles : \A p \in Path :
        slot[s].inode \in Inode /\ disk[p] = slot[s].inode =>
            p = slot[s].path \/ slot[s].inode \in excused
\* A marked context has a handle that will be released.
MarkedOpen == \A s \in Slot : slot[s] # NoContext /\ slot[s].changed => s \in handles /\ s # 0
CountIn(p) == \E i \in 1 .. Len(todo) : todo[i] = [call |-> "count", path |-> p]
WillCount(s, p) ==
    slot[s] # NoContext /\ slot[s].path = p /\ slot[s].changed /\ slot[s].inode = disk[p]
CountDue ==
    \A p \in Path : disk[p] \in uncounted =>
        disk[p] \in excused \/ CountIn(p) \/ \E s \in Slot : WillCount(s, p)
CountInv == TwoPaths /\ OpenWhere /\ MarkedOpen /\ CountDue

\* The first call of a request.
LEMMA OneCallIs ==
    ASSUME NEW name, NEW p
    PROVE  /\ Len(Calls(<<name>>, p)) = 1
           /\ Calls(<<name>>, p)[1] = [call |-> name, path |-> p]
<1>1. Calls(<<name>>, p) = [i \in 1 .. 1 |-> [call |-> <<name>>[i], path |-> p]]
  BY DEF Calls
<1>2. <<name>>[1] = name
  OBVIOUS
<1> DEFINE c == Calls(<<name>>, p)
<1>3. DOMAIN c = 1 .. 1 /\ c[1] = [call |-> name, path |-> p]
  BY <1>1, <1>2
<1>4. c \in Seq({c[1]})
  <2>1. \A i \in 1 .. 1 : [call |-> <<name>>[i], path |-> p] \in {c[1]}
    BY <1>3
  <2> QED
    BY <1>1, <2>1, IsASeq
<1> HIDE DEF c
<1>5. Len(c) \in Nat /\ DOMAIN c = 1 .. Len(c)
  BY <1>4
<1>6. Len(c) = 1
  BY <1>3, <1>5
<1> QED
  BY <1>3, <1>6 DEF c

LEMMA NoCallsYet == todo = <<>> => \A p : ~CountIn(p)
BY DEF CountIn

\* A step that takes files away, or none, and counts or excuses some.
LEMMA FewerFiles ==
    ASSUME IInv, CountInv, UNCHANGED files,
           \A p \in Path : disk'[p] = disk[p] \/ disk'[p] \notin Inode,
           uncounted' \subseteq uncounted, excused \subseteq excused',
           \A p \in Path : CountIn(p) => CountIn(p)' \/ disk'[p] \notin uncounted'
    PROVE  CountInv'
<1>1. uncounted \subseteq Inode /\ UNCHANGED <<slot, handles>>
  BY DEF IInv, DiskInv, files
<1>2. TwoPaths'
  BY DEF CountInv, TwoPaths, IsFile
<1>3. OpenWhere'
  BY <1>1 DEF CountInv, OpenWhere
<1>4. MarkedOpen'
  BY <1>1 DEF CountInv, MarkedOpen
<1>5. CountDue'
  <2> SUFFICES ASSUME NEW p \in Path, disk'[p] \in uncounted', disk'[p] \notin excused', ~CountIn(p)'
               PROVE  \E s \in Slot : WillCount(s, p)'
    BY Zenon DEF CountDue
  <2>1. disk'[p] = disk[p] /\ disk[p] \in uncounted /\ disk[p] \notin excused /\ ~CountIn(p)
    BY <1>1
  <2>2. PICK s \in Slot : WillCount(s, p)
    BY <2>1 DEF CountInv, CountDue
  <2> QED
    BY <1>1, <2>1, <2>2 DEF WillCount
<1> QED
  BY <1>2, <1>3, <1>4, <1>5 DEF CountInv

\* A file that the step makes has never been changed; if it opens one, that is
\* the new one, or the one that is at the path.
Opened(p, i) == [path |-> p, inode |-> i, changed |-> FALSE]
Opens(p, i) ==
    /\ \A s \in Slot : slot'[s] = slot[s] \/ (slot[s] = NoContext /\ slot'[s] = Opened(p, i))
    /\ \A s \in handles' : (s \in handles /\ slot'[s] = slot[s]) \/ slot'[s] = Opened(p, i)
    /\ handles \subseteq handles'

LEMMA RegisterOpens ==
    ASSUME FilesInv, NEW p \in Path, NEW i \in Inode \cup {Dir}, RegisterFile(p, i)
    PROVE  Opens(p, i)
<1>1. CASE free = <<>>
  BY <1>1 DEF RegisterFile, files, Opens
<1>2. CASE free # <<>>
  <2> DEFINE h == Last(free)
  <2>1. slot' = [slot EXCEPT ![h] = Opened(p, i)] /\ handles' = handles \cup {h}
    BY <1>2 DEF RegisterFile, Opened
  <2>2. h \in Range(free) /\ h \in Slot
    BY <1>2, DropLast DEF FilesInv, SlotsConserved
  <2>3. slot[h] = NoContext /\ h \notin handles
    BY <2>2 DEF FilesInv, SlotsConserved
  <2> HIDE DEF h
  <2>4. \A s \in Slot : slot'[s] = IF s = h THEN Opened(p, i) ELSE slot[s]
    BY <2>1 DEF FilesInv
  <2>5. handles \subseteq Slot
    BY DEF FilesInv
  <2> QED
    BY <2>1, <2>2, <2>3, <2>4, <2>5 DEF Opens
<1> QED
  BY <1>1, <1>2

LEMMA OpensNone == UNCHANGED files => \A p, i : Opens(p, i)
BY DEF Opens, files

LEMMA OpenedIs == \A p, i : Opened(p, i).path = p /\ Opened(p, i).inode = i
BY DEF Opened
LEMMA OpenedIsUnchanged == \A p, i : ~Opened(p, i).changed
BY DEF Opened

LEMMA NewFileCounts ==
    ASSUME IInv, CountInv, NEW p \in Path, NewFile(p), Opens(p, disk'[p]),
           \A r \in Path : CountIn(r) => CountIn(r)'
    PROVE  CountInv'
<1>1. PICK i \in Inode : /\ i \notin Used /\ disk' = [disk EXCEPT ![p] = i]
                         /\ uncounted' = uncounted \ {i} /\ excused' = excused \ {i}
  BY DEF NewFile
<1>2. /\ disk \in [Path -> Node] /\ uncounted \subseteq Inode /\ handles \subseteq Slot
      /\ \A s \in handles : slot[s] # NoContext
  BY DEF IInv, DiskInv, FilesInv, SlotsConserved
<1>3. /\ \A r \in Path : disk[r] # i /\ disk'[r] = IF r = p THEN i ELSE disk[r]
      /\ \A s \in Slot : slot[s] # NoContext => slot[s].inode # i
  BY <1>1, <1>2 DEF Used, Range
<1>4. TwoPaths'
  BY <1>1, <1>3 DEF CountInv, TwoPaths, IsFile
<1>5. OpenWhere'
  <2> SUFFICES ASSUME NEW s \in handles', NEW r \in Path, slot'[s].inode \in Inode,
                      disk'[r] = slot'[s].inode, r # slot'[s].path
               PROVE  slot'[s].inode \in excused'
    BY DEF OpenWhere
  <2>1. CASE s \in handles /\ slot'[s] = slot[s]
    BY <1>1, <1>2, <1>3, <2>1 DEF CountInv, OpenWhere
  <2>2. CASE slot'[s] = Opened(p, disk'[p])
    <3>1. slot'[s].path = p /\ slot'[s].inode = disk'[p]
      BY <2>2, OpenedIs, SMT
    <3> QED
      BY <1>3, <3>1
  <2> QED
    BY <2>1, <2>2 DEF Opens
<1>6. MarkedOpen'
  BY OpenedIsUnchanged, Zenon DEF CountInv, MarkedOpen, Opens
<1>7. CountDue'
  <2> SUFFICES ASSUME NEW r \in Path, disk'[r] \in uncounted', disk'[r] \notin excused', ~CountIn(r)'
               PROVE  \E s \in Slot : WillCount(s, r)'
    BY Zenon DEF CountDue
  <2>1. r # p /\ disk'[r] = disk[r] /\ disk[r] \in uncounted /\ disk[r] \notin excused /\ ~CountIn(r)
    BY <1>1, <1>3
  <2>2. PICK s \in Slot : WillCount(s, r)
    BY <2>1 DEF CountInv, CountDue
  <2>3. slot'[s] = slot[s]
    BY <2>2 DEF Opens, WillCount
  <2> QED
    BY <2>1, <2>2, <2>3 DEF WillCount
<1> QED
  BY <1>4, <1>5, <1>6, <1>7 DEF CountInv

\* Opening what is at a path changes nothing.
LEMMA OpenCounts ==
    ASSUME IInv, CountInv, NEW p \in Path, NEW i \in Inode \cup {Dir}, Opens(p, i),
           i \in Inode => disk[p] = i, UNCHANGED <<disk, todo, uncounted, excused>>
    PROVE  CountInv'
<1>1. TwoPaths'
  BY DEF CountInv, TwoPaths, IsFile
<1>2. OpenWhere'
  <2> SUFFICES ASSUME NEW s \in handles', NEW r \in Path, slot'[s].inode \in Inode,
                      disk'[r] = slot'[s].inode, r # slot'[s].path
               PROVE  slot'[s].inode \in excused'
    BY DEF OpenWhere
  <2>1. CASE s \in handles /\ slot'[s] = slot[s]
    BY <2>1 DEF CountInv, OpenWhere
  <2>2. CASE slot'[s] = Opened(p, i)
    <3>1. disk[r] = disk[p] /\ IsFile(p) /\ r # p
      <4>1. slot'[s].path = p /\ slot'[s].inode = i
        BY <2>2, OpenedIs, SMT
      <4> QED
        BY <4>1 DEF IsFile
    <3>2. disk[p] \in excused
      BY <3>1, Zenon DEF CountInv, TwoPaths
    <3> QED
      BY <3>1, <3>2
  <2> QED
    BY <2>1, <2>2 DEF Opens
<1>3. MarkedOpen'
  BY OpenedIsUnchanged, Zenon DEF CountInv, MarkedOpen, Opens
<1>4. CountDue'
  <2> SUFFICES ASSUME NEW r \in Path, disk'[r] \in uncounted', disk'[r] \notin excused', ~CountIn(r)'
               PROVE  \E s \in Slot : WillCount(s, r)'
    BY Zenon DEF CountDue
  <2>1. disk'[r] = disk[r] /\ disk[r] \in uncounted /\ disk[r] \notin excused /\ ~CountIn(r)
    BY DEF CountIn
  <2>2. PICK s \in Slot : WillCount(s, r)
    BY <2>1 DEF CountInv, CountDue
  <2>3. slot'[s] = slot[s]
    BY <2>2 DEF Opens, WillCount
  <2> QED
    BY <2>1, <2>2, <2>3 DEF WillCount
<1> QED
  BY <1>1, <1>2, <1>3, <1>4 DEF CountInv

\* truncate, and write without a handle: the request counts the change.
LEMMA CountedNext ==
    ASSUME IInv, CountInv, NEW p \in Path, todo = <<>>, IsFile(p),
           uncounted' = uncounted \cup {disk[p]}, todo' = Calls(<<"count">>, p),
           UNCHANGED <<disk, files, excused>>
    PROVE  CountInv'
<1>1. CountIn(p)'
  BY OneCallIs DEF CountIn
<1>2. UNCHANGED <<slot, handles>> /\ ~\E r : CountIn(r)
  BY NoCallsYet DEF files
<1>3. TwoPaths' /\ OpenWhere' /\ MarkedOpen'
  BY <1>2 DEF CountInv, TwoPaths, OpenWhere, MarkedOpen, IsFile
<1>4. CountDue'
  <2> SUFFICES ASSUME NEW r \in Path, disk'[r] \in uncounted', disk'[r] \notin excused', ~CountIn(r)'
               PROVE  \E s \in Slot : WillCount(s, r)'
    BY Zenon DEF CountDue
  <2>1. r # p
    BY <1>1
  <2>2. disk[r] # disk[p]
    BY <2>1 DEF CountInv, TwoPaths
  <2>3. PICK s \in Slot : WillCount(s, r)
    BY <1>2, <2>2 DEF CountInv, CountDue
  <2> QED
    BY <1>2, <2>3 DEF WillCount
<1> QED
  BY <1>3, <1>4 DEF CountInv

LEMMA InitCounts == Init => CountInv
<1> SUFFICES ASSUME Init PROVE CountInv
  OBVIOUS
<1>1. TwoPaths
  BY DEF Init, TwoPaths, IsFile, Inode, Dir, Absent
<1>2. OpenWhere /\ CountDue
  BY DEF Init, OpenWhere, CountDue
<1>3. MarkedOpen
  BY DEF Init, MarkedOpen
<1> QED
  BY <1>1, <1>2, <1>3 DEF CountInv

\* A write through a handle marks the context, unless that is at another path
\* than the file.
LEMMA ChangeCounts == ASSUME IInv, CountInv, NEW h \in handles, Change(h) PROVE CountInv'
<1> DEFINE i == slot[h].inode
<1>1. /\ slot \in [Slot -> Context \cup {NoContext}] /\ h \in Slot
      /\ slot[h] \in Context /\ h # 0 /\ i # Dir
  BY DEF IInv, FilesInv, SlotsConserved, Change
<1>2. i \in Inode
  BY <1>1 DEF Context
<1>3. slot' = [slot EXCEPT ![h].changed = TRUE]
  BY DEF Change, Marked
<1> DEFINE c == [slot[h] EXCEPT !.changed = TRUE]
<1>4. c \in Context /\ c.path = slot[h].path /\ c.inode = i /\ c.changed /\ c # NoContext
  <2>1. c \in Context /\ c.path = slot[h].path /\ c.inode = i /\ c.changed
    BY <1>1 DEF Context
  <2> QED
    BY <2>1, ContextIsSome
<1>5. slot' = [slot EXCEPT ![h] = c]
  BY <1>3
<1> HIDE DEF c
<1>6. slot'[h] = c /\ \A s \in Slot \ {h} : slot'[s] = slot[s]
  BY <1>1, <1>5
<1>7. \A s \in Slot : slot'[s].path = slot[s].path /\ slot'[s].inode = slot[s].inode
  BY <1>4, <1>6
<1>8. UNCHANGED <<disk, excused, handles, todo>> /\ uncounted' = uncounted \cup {i}
  BY DEF Change
<1>9. TwoPaths'
  BY <1>8 DEF CountInv, TwoPaths, IsFile
<1>10. OpenWhere'
  BY <1>7, <1>8 DEF CountInv, OpenWhere, IInv, FilesInv
<1>11. MarkedOpen'
  <2> SUFFICES ASSUME NEW s \in Slot, slot'[s] # NoContext, slot'[s].changed
               PROVE  s \in handles' /\ s # 0
    BY DEF MarkedOpen
  <2>1. CASE s = h
    BY <1>1, <1>8, <2>1
  <2>2. CASE s # h
    <3>1. slot[s] # NoContext /\ slot[s].changed
      BY <1>6, <2>2, Zenon
    <3>2. s \in handles /\ s # 0
      BY <3>1, Zenon DEF CountInv, MarkedOpen
    <3> QED
      BY <1>8, <3>2
  <2> QED
    BY <2>1, <2>2
<1>12. CountDue'
  <2> SUFFICES ASSUME NEW r \in Path, disk'[r] \in uncounted', disk'[r] \notin excused', ~CountIn(r)'
               PROVE  \E s \in Slot : WillCount(s, r)'
    BY Zenon DEF CountDue
  <2>1. disk'[r] = disk[r] /\ disk[r] \notin excused /\ ~CountIn(r)
    BY <1>8 DEF CountIn
  <2>2. CASE disk[r] = i
    <3>1. r = slot[h].path
      BY <1>2, <2>1, <2>2 DEF CountInv, OpenWhere
    <3>2. WillCount(h, r)'
      BY <1>1, <1>4, <1>6, <2>1, <2>2, <3>1, Zenon DEF WillCount
    <3> QED
      BY <1>1, <3>2
  <2>3. CASE disk[r] # i
    <3>1. disk[r] \in uncounted
      BY <1>8, <2>1, <2>3
    <3>2. PICK s \in Slot : WillCount(s, r)
      BY <2>1, <3>1 DEF CountInv, CountDue
    <3>3. slot'[s].changed /\ slot'[s] # NoContext
      BY <1>4, <1>6, <3>2, Zenon DEF WillCount
    <3>4. WillCount(s, r)'
      BY <1>7, <2>1, <3>2, <3>3, Zenon DEF WillCount
    <3> QED
      BY <3>4
  <2> QED
    BY <2>2, <2>3
<1> QED
  BY <1>9, <1>10, <1>11, <1>12 DEF CountInv

\* The context that counted a change is dropped when it has done so.
LEMMA CloseCounts == ASSUME IInv, CountInv, NEW h \in handles, Close(h) PROVE CountInv'
<1>1. /\ UNCHANGED <<disk, todo, excused>> /\ handles' = handles \ {h}
      /\ uncounted' \subseteq uncounted
  BY DEF Close, Dropped, Counted
<1>2. h \in Slot /\ slot \in [Slot -> Context \cup {NoContext}] /\ handles \subseteq Slot
  BY DEF IInv, FilesInv
<1>3. \A s \in Slot : slot'[s] = slot[s] \/ (s = h /\ h # 0 /\ slot'[s] = NoContext)
  BY <1>2 DEF Close
<1>4. TwoPaths'
  BY <1>1 DEF CountInv, TwoPaths, IsFile
<1>5. OpenWhere'
  <2> SUFFICES ASSUME NEW s \in handles', NEW p \in Path, slot'[s].inode \in Inode,
                      disk'[p] = slot'[s].inode, p # slot'[s].path
               PROVE  slot'[s].inode \in excused'
    BY DEF OpenWhere
  <2>1. s \in handles /\ slot'[s] = slot[s]
    BY <1>1, <1>2, <1>3
  <2> QED
    BY <1>1, <2>1 DEF CountInv, OpenWhere
<1>6. MarkedOpen'
  <2> SUFFICES ASSUME NEW s \in Slot, slot'[s] # NoContext, slot'[s].changed
               PROVE  s \in handles' /\ s # 0
    BY DEF MarkedOpen
  <2>1. slot'[s] = slot[s]
    BY <1>3
  <2>2. s \in handles /\ s # 0
    BY <2>1, Zenon DEF CountInv, MarkedOpen
  <2>3. CASE s = h
    <3>1. slot' = [slot EXCEPT ![h] = NoContext]
      BY <2>2, <2>3 DEF Close
    <3>2. slot'[s] = NoContext
      BY <1>2, <2>3, <3>1
    <3> QED
      BY <3>2
  <2> QED
    BY <1>1, <2>2, <2>3
<1>7. CountDue'
  <2> SUFFICES ASSUME NEW r \in Path, disk'[r] \in uncounted', disk'[r] \notin excused', ~CountIn(r)'
               PROVE  \E s \in Slot : WillCount(s, r)'
    BY Zenon DEF CountDue
  <2>1. disk'[r] = disk[r] /\ disk[r] \in uncounted /\ disk[r] \notin excused /\ ~CountIn(r)
    BY <1>1 DEF CountIn
  <2>2. PICK s \in Slot : WillCount(s, r)
    BY <2>1 DEF CountInv, CountDue
  <2>3. CASE slot'[s] = slot[s]
    BY <2>1, <2>2, <2>3 DEF WillCount
  <2>4. CASE s = h /\ h # 0
    <3>1. slot[h].changed /\ slot[h].path = r
      BY <2>2, <2>4, Zenon DEF WillCount
    <3>2. uncounted' = Dropped(h)
      BY <2>4 DEF Close
    <3>3. uncounted' = uncounted \ {disk[r]}
      BY <3>1, <3>2, Zenon DEF Dropped, Counted
    <3> QED
      BY <2>1, <3>3
  <2> QED
    BY <1>3, <2>3, <2>4
<1> QED
  BY <1>4, <1>5, <1>6, <1>7 DEF CountInv

\* A hard link excuses its file.
LEMMA LinkCounts ==
    ASSUME IInv, CountInv, NEW p \in Path, NEW q \in Path, IsFile(p), 
           disk' = [disk EXCEPT ![q] = disk[p]], excused' = excused \cup {disk[p]},
           UNCHANGED <<files, todo, uncounted>>
    PROVE  CountInv'
<1>1. UNCHANGED <<slot, handles>> /\ disk \in [Path -> Node]
  BY DEF files, IInv, DiskInv
<1>2. \A r \in Path : disk'[r] \in excused' \/ disk'[r] = disk[r]
  BY <1>1
<1>3. TwoPaths'
  BY <1>2 DEF CountInv, TwoPaths, IsFile
<1>4. OpenWhere'
  BY <1>1, <1>2 DEF CountInv, OpenWhere
<1>5. MarkedOpen'
  BY <1>1 DEF CountInv, MarkedOpen
<1>6. CountDue'
  <2> SUFFICES ASSUME NEW r \in Path, disk'[r] \in uncounted', disk'[r] \notin excused', ~CountIn(r)'
               PROVE  \E s \in Slot : WillCount(s, r)'
    BY Zenon DEF CountDue
  <2>1. disk'[r] = disk[r] /\ disk[r] \in uncounted /\ disk[r] \notin excused /\ ~CountIn(r)
    BY <1>2 DEF CountIn
  <2>2. PICK s \in Slot : WillCount(s, r)
    BY <2>1 DEF CountInv, CountDue
  <2> QED
    BY <1>1, <2>1, <2>2 DEF WillCount
<1> QED
  BY <1>3, <1>4, <1>5, <1>6 DEF CountInv

\* The process forgets its contexts, and excuses what they had to count.
LEMMA CrashCounts == ASSUME IInv, CountInv, Crash PROVE CountInv'
<1>1. TwoPaths' /\ OpenWhere' /\ CountDue'
  BY DEF Crash, CountInv, TwoPaths, OpenWhere, CountDue, IsFile
<1>2. MarkedOpen'
  BY DEF Crash, MarkedOpen
<1> QED
  BY <1>1, <1>2 DEF CountInv

RenameFirst(q) == [call |-> IF disk[q] = Absent THEN "mknod" ELSE "count", path |-> q]
LEMMA RenameCallsAre ==
    ASSUME NEW p \in Path, NEW q \in Path
    PROVE  /\ RenameCalls(p, q) \in Seq(Call) /\ Len(RenameCalls(p, q)) = 2
           /\ RenameCalls(p, q)[1] = RenameFirst(q)
           /\ RenameCalls(p, q)[2] = [call |-> "unlink", path |-> p]
<1> DEFINE n == IF disk[q] = Absent THEN "mknod" ELSE "count"
           a == Calls(<<n>>, q)
           b == Calls(<<"unlink">>, p)
           c == a \o b
<1>1. n \in CallName /\ "unlink" \in CallName
  BY DEF CallName
<1> HIDE DEF n
<1>2. a \in Seq(Call) /\ Len(a) = 1 /\ a[1] = [call |-> n, path |-> q]
  BY <1>1, OneCall, OneCallIs
<1>3. b \in Seq(Call) /\ Len(b) = 1 /\ b[1] = [call |-> "unlink", path |-> p]
  BY <1>1, OneCall, OneCallIs
<1>4. RenameCalls(p, q) = c
  BY DEF RenameCalls, n
<1> HIDE DEF a, b
<1>5. a \in Seq(Call) /\ b \in Seq(Call)
  BY <1>2, <1>3, Zenon
<1>6. /\ c \in Seq(Call) /\ Len(c) = Len(a) + Len(b)
      /\ \A i \in 1 .. Len(a) : c[i] = a[i]
      /\ \A j \in 1 .. Len(b) : c[Len(a) + j] = b[j]
  BY <1>5, Joined
<1> HIDE DEF c
<1>7. Len(c) = 2 /\ c[1] = a[1] /\ c[2] = b[1]
  <2>1. 1 \in 1 .. Len(a) /\ 1 \in 1 .. Len(b) /\ Len(a) + 1 = 2 /\ Len(a) + Len(b) = 2
    BY <1>2, <1>3
  <2> QED
    BY <1>6, <2>1
<1> QED
  BY <1>2, <1>3, <1>4, <1>6, <1>7 DEF RenameFirst, n

\* What is on disk after a rename came from the old name or stayed.
Came(p, q, r) == IsPrefix(q, r) /\ Moved(p, q, r) \in Path
LEMMA RenamedDisk ==
    ASSUME IInv, NEW p \in Path, NEW q \in Path, Rename(p, q), NEW r \in Path
    PROVE  /\ Came(p, q, r) => disk'[r] = disk[Moved(p, q, r)] /\ Moved(p, q, r) \in Below(p)
           /\ ~Came(p, q, r) => disk'[r] = IF r \in Below(p) THEN Absent ELSE disk[r]
<1>1. disk' = [t \in Path |-> IF IsPrefix(q, t) /\ Moved(p, q, t) \in Path
                              THEN disk[Moved(p, q, t)] ELSE Without(p)[t]]
  BY DEF Rename
<1>2. Without(p)[r] = IF r \in Below(p) THEN Absent ELSE disk[r]
  BY DEF Without
<1>3. Came(p, q, r) => Moved(p, q, r) \in Below(p)
  BY MovedPath, Zenon DEF Came, Below
<1> QED
  BY <1>1, <1>2, <1>3, Zenon DEF Came

\* A renamed file that is open is excused; one that replaces another is counted
\* at the new name.
LEMMA RenameCounts ==
    ASSUME IInv, CountInv, NEW p \in Path, NEW q \in Path, Rename(p, q) PROVE CountInv'
<1> DEFINE C(r) == Came(p, q, r)
           M(r) == Moved(p, q, r)
<1>1. /\ todo = <<>> /\ UNCHANGED <<slot, handles>>
      /\ excused' = excused \cup {disk[r] : r \in {x \in Below(p) : IsFile(x) /\ InUse(x)}}
      /\ uncounted' = IF IsFile(p) /\ disk[q] # Absent THEN uncounted \cup {disk[p]} ELSE uncounted
  BY DEF Rename, Request, files
<1>2. excused \subseteq excused' /\ uncounted \subseteq Inode /\ Below(p) \subseteq Path /\ Absent \notin Inode
  BY <1>1 DEF IInv, DiskInv, Below, Absent, Inode
<1>3. ASSUME NEW r \in Path, disk'[r] \in Inode
      PROVE  IF C(r) THEN disk'[r] = disk[M(r)] /\ M(r) \in Below(p)
             ELSE disk'[r] = disk[r] /\ r \notin Below(p)
  BY <1>2, <1>3, RenamedDisk
<1>4. \A r, t \in Path : C(r) /\ C(t) /\ M(r) = M(t) => r = t
  BY MovedDiffer, Zenon DEF Came
<1>6. p \in Below(p)
  BY PathOrder, Zenon DEF Below
<1> HIDE DEF C, M
<1>7. TwoPaths'
  <2> SUFFICES ASSUME NEW r \in Path, NEW t \in Path, r # t, disk'[r] \in Inode, disk'[t] = disk'[r]
               PROVE  disk'[r] \in excused'
    BY DEF TwoPaths, IsFile
  <2>1. \E a, b \in Path : a # b /\ disk[a] = disk'[r] /\ disk[b] = disk'[r]
    BY <1>2, <1>3, <1>4
  <2> QED
    BY <1>2, <2>1 DEF CountInv, TwoPaths, IsFile
<1>8. OpenWhere'
  <2> SUFFICES ASSUME NEW s \in handles, NEW r \in Path, slot[s].inode \in Inode,
                      disk'[r] = slot[s].inode, r # slot[s].path
               PROVE  slot[s].inode \in excused'
    BY <1>1 DEF OpenWhere
  <2>1. CASE C(r)
    <3>1. disk[M(r)] = slot[s].inode /\ M(r) \in Below(p)
      BY <1>3, <2>1
    <3>2. IsFile(M(r)) /\ InUse(M(r))
      BY <3>1 DEF IsFile, InUse
    <3> QED
      BY <1>1, <3>1, <3>2
  <2>2. CASE ~C(r)
    BY <1>2, <1>3, <2>2 DEF CountInv, OpenWhere
  <2> QED
    BY <2>1, <2>2
<1>9. MarkedOpen'
  BY <1>1 DEF CountInv, MarkedOpen
<1>10. \A r : ~CountIn(r)
  BY <1>1, NoCallsYet
\* What is due at a path now is due there, or is excused.
<1>11. ASSUME NEW r \in Path, disk[r] \in uncounted, disk[r] \notin excused'
       PROVE  \E s \in handles : WillCount(s, r)
  <2>1. PICK s \in Slot : WillCount(s, r)
    BY <1>2, <1>10, <1>11 DEF CountInv, CountDue
  <2>2. s \in handles
    BY <2>1, Zenon DEF CountInv, MarkedOpen, WillCount
  <2> QED
    BY <2>1, <2>2
<1>12. CountDue'
  <2> SUFFICES ASSUME NEW r \in Path, disk'[r] \in uncounted', disk'[r] \notin excused', ~CountIn(r)'
               PROVE  \E s \in Slot : WillCount(s, r)'
    BY Zenon DEF CountDue
  <2>1. disk'[r] \in Inode
    BY <1>1, <1>2 DEF IsFile
  <2> DEFINE o == IF C(r) THEN M(r) ELSE r
  <2>2. o \in Path /\ disk'[r] = disk[o] /\ IsFile(o) /\ (o = p => C(r))
    BY <1>2, <1>3, <1>6, <2>1 DEF IsFile
  <2>3. CASE disk[o] \in uncounted
    <3>1. PICK s \in handles : WillCount(s, o)
      BY <1>11, <2>2, <2>3
    <3>2. ~C(r)
      <4>1. InUse(o)
        BY <3>1 DEF InUse, WillCount
      <4> QED
        BY <1>1, <1>3, <2>1, <2>2, <4>1
    <3>3. WillCount(s, r)'
      BY <1>1, <2>2, <3>1, <3>2, Zenon DEF WillCount
    <3> QED
      BY <3>1, <3>3 DEF IInv, FilesInv
  <2>4. CASE disk[o] \notin uncounted
    <3>1. disk[o] = disk[p] /\ disk[q] # Absent
      BY <1>1, <2>2, <2>4
    <3>2. o = p
      BY <1>2, <2>2, <3>1 DEF CountInv, TwoPaths
    <3>3. C(r) /\ M(r) = p
      BY <2>2, <3>2
    <3>4. r = q
      BY <3>3, MovedPath, Zenon DEF C, M, Came
    <3>5. CountIn(q)'
      <4>1. todo' = RenameCalls(p, q) /\ RenameFirst(q) = [call |-> "count", path |-> q]
        BY <3>1 DEF Rename, RenameFirst
      <4>2. Len(todo') = 2 /\ todo'[1] = [call |-> "count", path |-> q]
        BY <4>1, RenameCallsAre, Zenon
      <4>3. 1 \in 1 .. Len(todo')
        BY <4>2
      <4> QED
        BY <4>2, <4>3, Zenon DEF CountIn
    <3> QED
      BY <3>4, <3>5
  <2> QED
    BY <2>3, <2>4
<1> QED
  BY <1>7, <1>8, <1>9, <1>12 DEF CountInv

\* The rest of a request: what is not the call of a count leaves counts due.
LEMMA StepLeavesCounts ==
    ASSUME TodoInv, NEW name, name # "count", NEW p, Step(name, p)
    PROVE  \A r : CountIn(r) => CountIn(r)'
<1>1. todo \in Seq(Call) /\ todo # <<>> /\ todo' = Tail(todo) /\ Head(todo) = [call |-> name, path |-> p]
  BY DEF TodoInv, Step
<1>2. /\ Len(todo) \in Nat /\ Len(todo') = Len(todo) - 1 /\ todo[1] = [call |-> name, path |-> p]
      /\ \A i \in 1 .. Len(todo) - 1 : todo'[i] = todo[i + 1]
  BY <1>1, HeadTailProperties
<1> SUFFICES ASSUME NEW r, CountIn(r) PROVE CountIn(r)'
  OBVIOUS
<1>3. PICK i \in 1 .. Len(todo) : todo[i] = [call |-> "count", path |-> r]
  BY DEF CountIn
<1>4. i # 1
  BY <1>2, <1>3
<1>5. i - 1 \in 1 .. Len(todo') /\ (i - 1) + 1 = i /\ i - 1 \in 1 .. Len(todo) - 1
  BY <1>2, <1>4
<1>6. todo'[i - 1] = [call |-> "count", path |-> r]
  BY <1>2, <1>3, <1>5
<1> QED
  BY <1>5, <1>6 DEF CountIn

LEMMA DbCountCounts == ASSUME IInv, CountInv, NEW p \in Path, DbCount(p) PROVE CountInv'
<1>1. todo \in Seq(Call) /\ todo # <<>> /\ todo' = Tail(todo) /\ Head(todo) = [call |-> "count", path |-> p]
  BY DEF IInv, TodoInv, Step, DbCount
<1>2. /\ Len(todo) \in Nat /\ Len(todo') = Len(todo) - 1 /\ todo[1] = [call |-> "count", path |-> p]
      /\ \A i \in 1 .. Len(todo) - 1 : todo'[i] = todo[i + 1]
  BY <1>1, HeadTailProperties
<1>3. uncounted' = uncounted \ {disk[p]} /\ UNCHANGED <<disk, files, excused>>
  BY DEF DbCount, Counted
<1>4. ASSUME NEW r \in Path, CountIn(r), disk'[r] \in uncounted' PROVE CountIn(r)'
  <2>1. PICK i \in 1 .. Len(todo) : todo[i] = [call |-> "count", path |-> r]
    BY <1>4 DEF CountIn
  <2>2. r # p
    BY <1>3, <1>4
  <2>3. i # 1
    BY <1>2, <2>1, <2>2
  <2>4. i - 1 \in 1 .. Len(todo') /\ (i - 1) + 1 = i /\ i - 1 \in 1 .. Len(todo) - 1
    BY <1>2, <2>3
  <2>5. todo'[i - 1] = [call |-> "count", path |-> r]
    BY <1>2, <2>1, <2>4
  <2> QED
    BY <2>4, <2>5 DEF CountIn
<1>5. \A r \in Path : CountIn(r) => CountIn(r)' \/ disk'[r] \notin uncounted'
  BY <1>4
<1>6. uncounted' \subseteq uncounted /\ excused \subseteq excused' /\ UNCHANGED files
  BY <1>3
<1>7. \A r \in Path : disk'[r] = disk[r] \/ disk'[r] \notin Inode
  BY <1>3
<1> QED
  BY <1>5, <1>6, <1>7, FewerFiles

LEMMA EraseCounts == ASSUME IInv, CountInv, NEW p \in Path, Erase(p) PROVE CountInv'
<1>1. \A r \in Path : disk'[r] = disk[r] \/ disk'[r] \notin Inode
  BY DEF Erase, Without, Absent, Inode
<1>2. todo = <<>> /\ UNCHANGED <<files, uncounted, excused>>
  BY DEF Erase, Request
<1> QED
  BY <1>1, <1>2, NoCallsYet, FewerFiles

LEMMA MakeDirectoryCounts == ASSUME IInv, CountInv, NEW p \in Path, MakeDirectory(p) PROVE CountInv'
<1>1. \A r \in Path : disk'[r] = disk[r] \/ disk'[r] \notin Inode
  BY DEF MakeDirectory, Dir, Inode, IInv, DiskInv
<1>2. UNCHANGED <<files, uncounted, excused>> /\ Step("mkdir", p)
  BY DEF MakeDirectory, history
<1>3. \A r : CountIn(r) => CountIn(r)'
  BY <1>2, StepLeavesCounts DEF IInv
<1> QED
  BY <1>1, <1>2, <1>3, FewerFiles

LEMMA AliasCounts == ASSUME IInv, CountInv, NEW p \in Path, NEW q \in Path, Alias(p, q) PROVE CountInv'
<1>1. UNCHANGED <<files, todo, uncounted>>
  BY DEF Alias
<1>2. CASE disk' = [disk EXCEPT ![q] = Symlink] /\ UNCHANGED excused
  <2>1. \A r \in Path : disk'[r] = disk[r] \/ disk'[r] \notin Inode
    BY <1>2 DEF Symlink, Inode, IInv, DiskInv
  <2>2. \A r : CountIn(r) => CountIn(r)'
    BY <1>1 DEF CountIn
  <2> QED
    BY <1>1, <1>2, <2>1, <2>2, FewerFiles
<1>3. CASE IsFile(p) /\ disk' = [disk EXCEPT ![q] = disk[p]] /\ excused' = excused \cup {disk[p]}
  BY <1>1, <1>3, LinkCounts
<1> QED
  BY <1>2, <1>3 DEF Alias

LEMMA CheckoutFileCounts == ASSUME IInv, CountInv, NEW p \in Path, CheckoutFile(p) PROVE CountInv'
<1>1. UNCHANGED <<files, todo>> /\ \A r : CountIn(r) => CountIn(r)'
  BY DEF CheckoutFile, CountIn
<1>2. CASE NewFile(p)
  BY <1>1, <1>2, NewFileCounts, OpensNone
<1>3. CASE UNCHANGED <<disk, excused>> /\ uncounted' \subseteq uncounted
  BY <1>1, <1>3, FewerFiles
<1>4. NewFile(p) \/ (UNCHANGED <<disk, excused>> /\ uncounted' \subseteq uncounted)
  BY DEF CheckoutFile
<1> QED
  BY <1>2, <1>3, <1>4

LEMMA ReleaseFileCounts == ASSUME IInv, CountInv, NEW p \in Path, ReleaseFile(p) PROVE CountInv'
<1>1. UNCHANGED <<files, todo, uncounted, excused>> /\ \A r : CountIn(r) => CountIn(r)'
  BY DEF ReleaseFile, CountIn
<1>2. disk' = Without(p) \/ disk' = disk
  BY DEF ReleaseFile
<1>3. \A r \in Path : disk'[r] = disk[r] \/ disk'[r] \notin Inode
  BY <1>2 DEF Without, Absent, Inode
<1> QED
  BY <1>1, <1>3, FewerFiles

LEMMA CreateCounts == ASSUME IInv, CountInv, NEW p \in Path, Create(p) PROVE CountInv'
<1>1. NewFile(p) /\ RegisterFile(p, disk'[p]) /\ todo = <<>>
  BY DEF Create, Request
<1>2. disk'[p] \in Inode
  BY <1>1, NewFileKeeps DEF IInv
<1>3. Opens(p, disk'[p])
  BY <1>1, <1>2, RegisterOpens DEF IInv
<1> QED
  BY <1>1, <1>3, NoCallsYet, NewFileCounts

LEMMA NextCounts == IInv /\ CountInv /\ [Next]_vars => CountInv'
<1> SUFFICES ASSUME IInv, CountInv, [Next]_vars PROVE CountInv'
  OBVIOUS
<1>1. Asked \subseteq Path /\ Root \in Path
  BY AskedAssumption, PathAssumption DEF Inner
<1>2. ASSUME NEW p \in Path, MknodFile(p) PROVE CountInv'
  <2>1. NewFile(p) /\ UNCHANGED files /\ todo = <<>>
    BY <1>2 DEF MknodFile, Request
  <2> QED
    BY <2>1, NoCallsYet, OpensNone, NewFileCounts
<1>3. ASSUME NEW p \in Path, Mkdir(p) PROVE CountInv'
  <2>1. UNCHANGED <<disk, files, uncounted, excused>> /\ todo = <<>>
    BY <1>3 DEF Mkdir, Request, history
  <2> QED
    BY <2>1, NoCallsYet, FewerFiles
<1>4. ASSUME NEW p \in Path, Truncate(p) \/ ChangeByPath(p) PROVE CountInv'
  <2>1. /\ todo = <<>> /\ IsFile(p) /\ uncounted' = uncounted \cup {disk[p]}
        /\ todo' = Calls(<<"count">>, p) /\ UNCHANGED <<disk, files, excused>>
    BY <1>4 DEF Truncate, ChangeByPath, Request
  <2> QED
    BY <2>1, CountedNext
<1>5. ASSUME NEW p \in Path, Open(p) PROVE CountInv'
  <2>1. RegisterFile(p, disk[p]) /\ disk[p] \in Inode /\ UNCHANGED <<disk, todo, uncounted, excused>>
    BY <1>5 DEF Open, IsFile, history
  <2>2. Opens(p, disk[p])
    BY <2>1, RegisterOpens DEF IInv
  <2> QED
    BY <2>1, <2>2, OpenCounts
<1>6. ASSUME NEW p \in Path, Opendir(p) PROVE CountInv'
  <2>1. RegisterFile(p, Dir) /\ Dir \notin Inode /\ UNCHANGED <<disk, todo, uncounted, excused>>
    BY <1>6 DEF Opendir, history, Dir, Inode
  <2>2. Opens(p, Dir)
    BY <2>1, RegisterOpens DEF IInv
  <2> QED
    BY <2>1, <2>2, OpenCounts
<1>7. ASSUME NEW p \in Path, DbMknod(p) \/ DbUnlink(p) PROVE CountInv'
  <2>1. UNCHANGED <<disk, files, uncounted, excused>> /\ (Step("mknod", p) \/ Step("unlink", p))
    BY <1>7 DEF DbMknod, DbUnlink, history
  <2>2. \A r : CountIn(r) => CountIn(r)'
    BY <2>1, StepLeavesCounts DEF IInv
  <2> QED
    BY <2>1, <2>2, FewerFiles
<1>8. ASSUME NEW p \in Path, Install(p) PROVE CountInv'
  <2>1. NewFile(p) /\ UNCHANGED <<files, todo>>
    BY <1>8 DEF Install
  <2>2. \A r : CountIn(r) => CountIn(r)'
    BY <2>1 DEF CountIn
  <2> QED
    BY <2>1, <2>2, OpensNone, NewFileCounts
<1>9. ASSUME UNCHANGED <<disk, files, uncounted, excused, todo>> PROVE CountInv'
  <2>1. \A r : CountIn(r) => CountIn(r)'
    BY <1>9 DEF CountIn
  <2> QED
    BY <1>9, <2>1, FewerFiles
<1>10. ASSUME NEW p \in Asked,
             \/ MknodFile(p) \/ Mkdir(p) \/ Erase(p) \/ Truncate(p)
             \/ Create(p) \/ Open(p) \/ ChangeByPath(p)
      PROVE  CountInv'
  BY <1>1, <1>2, <1>3, <1>4, <1>5, <1>10, EraseCounts, CreateCounts
<1>11. ASSUME NEW p \in Asked,
             \/ DbMknod(p) \/ DbUnlink(p) \/ DbCount(p) \/ MakeDirectory(p)
             \/ CheckoutFile(p) \/ ReleaseFile(p) \/ Install(p) \/ Learn(p)
      PROVE  CountInv'
  <2>1. CASE Learn(p)
    BY <1>9, <2>1 DEF Learn, history
  <2> QED
    BY <1>1, <1>7, <1>8, <1>11, <2>1, DbCountCounts, MakeDirectoryCounts, CheckoutFileCounts,
       ReleaseFileCounts
<1>12. CASE UNCHANGED vars
  BY <1>9, <1>12 DEF vars, history
<1>13. ASSUME NEW p \in Asked \cup {Root}, Opendir(p) PROVE CountInv'
  BY <1>1, <1>6, <1>13
<1>14. ASSUME NEW p \in Asked, NEW q \in Asked, Alias(p, q) \/ Rename(p, q) \/ RenameAlias(p, q)
       PROVE  CountInv'
  <2>1. CASE RenameAlias(p, q)
    <3>1. UNCHANGED <<disk, files, uncounted, excused>> /\ todo = <<>>
      BY <2>1 DEF RenameAlias, Request, history
    <3> QED
      BY <3>1, NoCallsYet, FewerFiles
  <2> QED
    BY <1>1, <1>14, <2>1, AliasCounts, RenameCounts
<1>15. ASSUME NEW h \in handles, Change(h) \/ Close(h) PROVE CountInv'
  BY <1>15, ChangeCounts, CloseCounts
<1>16. CASE Crash
  BY <1>16, CrashCounts
<1> QED
  BY <1>10, <1>11, <1>12, <1>13, <1>14, <1>15, <1>16 DEF Next

\* What went through the mount into a versioned file is counted by its version,
\* or somebody will count it, whatever is renamed, linked, removed, received or
\* released meanwhile (FuseContext::release, truncate, rename; FileContext).
THEOREM ChangesGetCounted == Spec => []ChangesAreCounted
<1>1. IInv /\ CountInv => ChangesAreCounted
  <2> SUFFICES ASSUME IInv, CountInv, NEW p \in Inner, disk[p] \in uncounted, disk[p] \notin excused
               PROVE  \/ \E s \in Slot : slot[s] # NoContext /\ slot[s].path = p /\ slot[s].changed
                      \/ \E i \in DOMAIN todo : todo[i] = [call |-> "count", path |-> p]
    BY DEF ChangesAreCounted
  <2>1. CountIn(p) \/ \E s \in Slot : WillCount(s, p)
    BY DEF CountInv, CountDue, Inner
  <2>2. DOMAIN todo = 1 .. Len(todo)
    BY DEF IInv, TodoInv
  <2> QED
    BY <2>1, <2>2, Zenon DEF CountIn, WillCount
<1> QED
  BY InitIInv, NextIInv, InitCounts, NextCounts, <1>1, PTL DEF Spec
-----------------------------------------------------------------------------
(* What is on disk and what is listed *)

DiskClosed ==
    /\ disk[Root] = Dir
    /\ \A p \in Inner : disk[p] # Absent => disk[Parent(p)] = Dir
\* Every row has its directory's row above it, and only rows are subscribed.
RowsGood(t) ==
    /\ Root \in t.known /\ t.known \subseteq t.linked /\ t.on \subseteq t.known
    /\ \A p \in t.known \ {Root} : Parent(p) \in t.known
Covered(p) == \E q \in stray : IsPrefix(q, p)
Known(p) == p \in tab.known \/ Covered(p)
FirstIs(name, p) == Len(todo) # 0 /\ todo[1] = [call |-> name, path |-> p]
Entered == \A p \in Inner : disk[p] # Absent => Known(p) \/ FirstIs("mknod", p)
\* A row is entered, and a directory made, in a directory that is there.
MknodShape ==
    \A i \in 1 .. Len(todo) : todo[i].call = "mknod" =>
        i = 1 /\ todo[i].path \in Inner /\ disk[Parent(todo[i].path)] = Dir
MkdirShape ==
    \A i \in 1 .. Len(todo) : todo[i].call = "mkdir" =>
        /\ todo[i].path \in Inner /\ disk[Parent(todo[i].path)] = Dir
        /\ Known(todo[i].path) \/ FirstIs("mknod", todo[i].path)
TreeInv == DiskClosed /\ RowsGood(tab) /\ Entered /\ MknodShape /\ MkdirShape

\* Tables.
LEMMA EmptyTableRows == RowsGood(EmptyTable)
BY DEF RowsGood, EmptyTable

LEMMA MknodRows ==
    ASSUME NEW t \in Table, RowsGood(t), NEW p \in Inner
    PROVE  /\ RowsGood(Mknod(t, p)) /\ t.known \subseteq Mknod(t, p).known
           /\ Parent(p) \in t.known => p \in Mknod(t, p).known
<1>1. CASE Parent(p) \notin t.known
  BY <1>1 DEF Mknod
<1>2. CASE Parent(p) \in t.known /\ p \in t.known
  <2>1. Mknod(t, p) = [known |-> t.known \cup {p}, linked |-> t.linked, on |-> t.on,
                       versioned |-> t.versioned \cup ({p} \cap t.linked)]
    BY <1>2 DEF Mknod
  <2> QED
    BY <1>2, <2>1 DEF RowsGood
<1>3. CASE Parent(p) \in t.known /\ p \notin t.known
  <2>1. Mknod(t, p) = [known |-> t.known \cup {p}, linked |-> t.linked \cup {p},
                       on |-> t.on \cup {p},
                       versioned |-> t.versioned \cup ({p} \cap (t.linked \cup {p}))]
    BY <1>3 DEF Mknod
  <2> QED
    BY <1>3, <2>1 DEF RowsGood
<1> QED
  BY <1>1, <1>2, <1>3

LEMMA HitIsARow ==
    ASSUME NEW t \in Table, NEW p \in Path, NEW hit \in Hit(t, p)
    PROVE  hit \subseteq t.known
BY DEF Hit

LEMMA UnlinkRows ==
    ASSUME NEW t \in Table, RowsGood(t), NEW p \in Path, NEW u \in Unlink(t, p)
    PROVE  RowsGood(u) /\ u.known = t.known
<1>1. PICK hit \in Hit(t, p) : u = [t EXCEPT !.on = @ \ hit, !.versioned = @ \ hit]
  BY DEF Unlink
<1>2. u.known = t.known /\ u.linked = t.linked /\ u.on \subseteq t.on
  BY <1>1 DEF Table
<1> QED
  BY <1>2 DEF RowsGood

LEMMA MergeRows ==
    ASSUME NEW t \in Table, RowsGood(t), NEW p \in Inner, Parent(p) \in t.known, p \notin t.known
    PROVE  RowsGood(Merge(t, Parent(p), {p})) /\ t.known \subseteq Merge(t, Parent(p), {p}).known
<1>1. Merge(t, Parent(p), {p}) = [t EXCEPT !.known = @ \cup {p}, !.linked = @ \cup ({p} \ t.known)]
  BY DEF Merge
<1> DEFINE u == Merge(t, Parent(p), {p})
<1>2. u.known = t.known \cup {p} /\ u.linked = t.linked \cup {p} /\ u.on = t.on
  BY <1>1 DEF Table
<1> HIDE DEF u
<1> QED
  BY <1>2 DEF RowsGood, u

LEMMA CheckoutRows ==
    ASSUME NEW t \in Table, RowsGood(t), NEW p \in Path, NEW r \in Checkout(t, p)
    PROVE  RowsGood(r.tab) /\ r.tab.known = t.known
<1>1. CASE r \in {[tab |-> t, done |-> FALSE] : on \in {TRUE} \cap IsSubscribed(t, p)}
  <2>1. r = [tab |-> t, done |-> FALSE]
    BY <1>1
  <2>2. r.tab = t
    BY <2>1, Zenon
  <2> QED
    BY <2>2
<1>2. CASE r \notin {[tab |-> t, done |-> FALSE] : on \in {TRUE} \cap IsSubscribed(t, p)}
  <2>1. PICK hit \in Hit(t, p) :
          r = [tab |-> [t EXCEPT !.on = @ \cup hit, !.versioned = @ \cup hit],
               done |-> hit \cap t.versioned = {}]
    BY <1>2 DEF Checkout
  <2>2. hit \subseteq t.known
    BY HitIsARow
  <2> DEFINE u == r.tab
  <2>3. u = [t EXCEPT !.on = @ \cup hit, !.versioned = @ \cup hit]
    BY <2>1, Zenon
  <2> HIDE DEF u
  <2>4. u.known = t.known /\ u.linked = t.linked /\ u.on = t.on \cup hit
    BY <2>3 DEF Table
  <2>5. RowsGood(u)
    BY <2>2, <2>4 DEF RowsGood
  <2> QED
    BY <2>4, <2>5 DEF u
<1> QED
  BY <1>1, <1>2

LEMMA ReleaseRows ==
    ASSUME NEW t \in Table, RowsGood(t), NEW p \in Path, NEW r \in Release(t, p)
    PROVE  RowsGood(r.tab) /\ r.tab.known = t.known
<1>1. CASE r \in {[tab |-> t, done |-> FALSE] : on \in {FALSE} \cap IsSubscribed(t, p)}
  <2>1. r = [tab |-> t, done |-> FALSE]
    BY <1>1
  <2>2. r.tab = t
    BY <2>1, Zenon
  <2> QED
    BY <2>2
<1>2. CASE r \notin {[tab |-> t, done |-> FALSE] : on \in {FALSE} \cap IsSubscribed(t, p)}
  <2>1. PICK hit \in Hit(t, p) :
          r = [tab |-> [t EXCEPT !.on = @ \ hit, !.versioned = @ \ hit], done |-> TRUE]
    BY <1>2 DEF Release
  <2> DEFINE u == r.tab
  <2>2. u = [t EXCEPT !.on = @ \ hit, !.versioned = @ \ hit]
    BY <2>1, Zenon
  <2> HIDE DEF u
  <2>3. u.known = t.known /\ u.linked = t.linked /\ u.on \subseteq t.on
    BY <2>2 DEF Table
  <2>4. RowsGood(u)
    BY <2>3 DEF RowsGood
  <2> QED
    BY <2>3, <2>4 DEF u
<1> QED
  BY <1>1, <1>2

\* What a crash leaves of a call.
LEMMA HalfRows ==
    ASSUME NEW t \in Table, RowsGood(t), NEW p \in Inner,
           NEW u \in {MknodHalf(t, p)} \cup UnlinkHalf(t, p) \cup CheckoutHalf(t, p)
    PROVE  RowsGood(u)
<1>1. CASE u = MknodHalf(t, p)
  <2>1. RowsGood(Mknod(t, p)) /\ Mknod(t, p) \in Table
    BY MknodRows, MknodKeeps DEF Inner
  <2> QED
    BY <1>1, <2>1 DEF MknodHalf, RowsGood, Table
<1>2. CASE u \in UnlinkHalf(t, p)
  <2>1. PICK hit \in Hit(t, p) : u = [t EXCEPT !.on = @ \ hit]
    BY <1>2 DEF UnlinkHalf
  <2> QED
    BY <2>1 DEF RowsGood, Table
<1>3. CASE u \in CheckoutHalf(t, p)
  <2>1. PICK hit \in Hit(t, p) : u = [t EXCEPT !.on = @ \cup hit]
    BY <1>3 DEF CheckoutHalf
  <2>2. hit \subseteq t.known
    BY HitIsARow DEF Inner
  <2> QED
    BY <2>1, <2>2 DEF RowsGood, Table
<1> QED
  BY <1>1, <1>2, <1>3

LEMMA InterruptedRows ==
    ASSUME tab \in Table, RowsGood(tab), NEW u \in Interrupted
    PROVE  RowsGood(u)
<1>1. \A p \in Inner : p \in Path
  BY DEF Inner
<1> QED
  BY <1>1, InterruptedIs, HalfRows, CheckoutRows, ReleaseRows

\* What has no name in the request is known.
LEMMA NoShape == ASSUME todo = <<>> PROVE MknodShape /\ MkdirShape /\ \A n, p : ~FirstIs(n, p)
BY DEF MknodShape, MkdirShape, FirstIs

\* A request that makes one call.
LEMMA OneShape ==
    ASSUME NEW name \in {"mknod", "unlink", "count"}, NEW p \in Path, todo' = Calls(<<name>>, p),
           name = "mknod" => p \in Inner /\ disk'[Parent(p)] = Dir
    PROVE  MknodShape' /\ MkdirShape' /\ FirstIs(name, p)'
<1>1. Len(todo') = 1 /\ todo'[1] = [call |-> name, path |-> p]
  BY OneCallIs, Zenon
<1>2. \A i \in 1 .. Len(todo') : i = 1
  <2>1. \A i \in 1 .. 1 : i = 1
    OBVIOUS
  <2>2. Len(todo') = 1
    BY <1>1
  <2> QED
    BY <2>1, <2>2, Zenon
<1>3. todo'[1].call = name /\ todo'[1].path = p
  BY <1>1
<1>4. MknodShape'
  <2> SUFFICES ASSUME NEW i \in 1 .. Len(todo'), todo'[i].call = "mknod"
               PROVE  i = 1 /\ todo'[i].path \in Inner /\ disk'[Parent(todo'[i].path)] = Dir
    BY DEF MknodShape
  <2>1. i = 1 /\ name = "mknod" /\ todo'[i].path = p
    BY <1>2, <1>3
  <2> QED
    BY <2>1
<1>5. MkdirShape'
  <2>1. \A i \in 1 .. Len(todo') : todo'[i].call # "mkdir"
    BY <1>2, <1>3
  <2> QED
    BY <2>1 DEF MkdirShape
<1> QED
  BY <1>1, <1>4, <1>5 DEF FirstIs

\* Other threads, which leave directories alone and forget no row, leave the
\* request alone.
LEMMA SameShape ==
    ASSUME MknodShape, MkdirShape, UNCHANGED todo, \A p \in Path : disk[p] = Dir => disk'[p] = Dir,
           tab.known \subseteq tab'.known, stray \subseteq stray'
    PROVE  MknodShape' /\ MkdirShape'
<1>1. \A p : Known(p) => Known(p)'
  BY DEF Known, Covered
<1>2. \A n, p : FirstIs(n, p) => FirstIs(n, p)'
  BY DEF FirstIs
<1>3. \A p \in Inner : Parent(p) \in Path
  BY ParentOf, PathAssumption DEF Inner
<1>4. MknodShape'
  BY <1>3 DEF MknodShape
<1>5. MkdirShape'
  BY <1>1, <1>2, <1>3 DEF MkdirShape
<1> QED
  BY <1>4, <1>5

\* A new file among files.
LEMMA NewFileDisk ==
    ASSUME DiskInv, DiskClosed, NEW p \in Inner, NewFile(p), disk[Parent(p)] = Dir, disk[p] # Dir
    PROVE  /\ DiskClosed' /\ \A r \in Path : disk[r] = Dir => disk'[r] = Dir
           /\ \A r \in Path : r # p => disk'[r] = disk[r]
<1>1. PICK i \in Inode : disk' = [disk EXCEPT ![p] = i]
  BY DEF NewFile
<1>2. \A r \in Path : disk'[r] = IF r = p THEN i ELSE disk[r]
  BY <1>1 DEF DiskInv
<1>3. Root \in Path /\ p # Root /\ \A r \in Inner : Parent(r) \in Path /\ r \in Path
  BY ParentOf, PathAssumption DEF Inner
<1>4. ASSUME NEW r \in Inner, disk'[r] # Absent PROVE disk'[Parent(r)] = Dir
  <2>1. disk[Parent(r)] = Dir
    BY <1>2, <1>3, <1>4 DEF DiskClosed
  <2> QED
    BY <1>2, <1>3, <2>1
<1>5. DiskClosed'
  BY <1>2, <1>3, <1>4 DEF DiskClosed
<1> QED
  BY <1>2, <1>5

\* What is below a path is taken away.
LEMMA WithoutDisk ==
    ASSUME DiskClosed, NEW p \in Inner, disk' = Without(p)
    PROVE  DiskClosed' /\ \A r \in Path : disk'[r] = IF r \in Below(p) THEN Absent ELSE disk[r]
<1>1. \A r \in Path : disk'[r] = IF r \in Below(p) THEN Absent ELSE disk[r]
  BY DEF Without
<1>2. Root \in Path /\ p \in Path /\ p # Root /\ \A r \in Inner : Parent(r) \in Path /\ r \in Path
  BY ParentOf, PathAssumption DEF Inner
<1>3. \A r \in Inner : Parent(r) \in Below(p) => r \in Below(p)
  BY <1>2, ParentOf, Zenon DEF Below
<1>4. Root \notin Below(p)
  BY <1>2, RootIsAlone DEF Below
<1>5. ASSUME NEW r \in Inner, disk'[r] # Absent PROVE disk'[Parent(r)] = Dir
  <2>1. r \notin Below(p) /\ disk[Parent(r)] = Dir
    BY <1>1, <1>2, <1>5 DEF DiskClosed
  <2> QED
    BY <1>1, <1>2, <1>3, <2>1
<1>6. DiskClosed'
  BY <1>1, <1>2, <1>4, <1>5 DEF DiskClosed
<1> QED
  BY <1>1, <1>6

LEMMA InitTree == Init => TreeInv
<1> SUFFICES ASSUME Init PROVE TreeInv
  OBVIOUS
<1>1. RowsGood(tab)
  BY EmptyTableRows DEF Init
<1>2. DiskClosed /\ Entered
  BY PathAssumption DEF Init, DiskClosed, Entered, Inner
<1>3. MknodShape /\ MkdirShape
  BY NoShape DEF Init
<1> QED
  BY <1>1, <1>2, <1>3 DEF TreeInv

\* What getattr says of a path.
LEMMA NothingThere == ASSUME IInv, NEW p \in Path, "nothing" \in Getattr(p) PROVE disk[p] = Absent
<1>1. disk[p] \in Inode \cup {Absent, Dir, Symlink}
  BY DEF IInv, DiskInv, Node
<1> QED
  BY <1>1 DEF Getattr, IsFile

\* Requests that read the tree, or count.
LEMMA TreeStays ==
    ASSUME TreeInv, UNCHANGED <<disk, tab, stray>>,
           \/ UNCHANGED todo
           \/ todo = <<>> /\ \E p \in Path : todo' = Calls(<<"count">>, p)
    PROVE  TreeInv'
<1>1. DiskClosed' /\ RowsGood(tab)' /\ \A p : Known(p) => Known(p)'
  BY DEF TreeInv, DiskClosed, RowsGood, Known, Covered
<1>2. CASE UNCHANGED todo
  <2>1. MknodShape' /\ MkdirShape'
    BY <1>2, SameShape DEF TreeInv
  <2>2. Entered'
    BY <1>1, <1>2 DEF TreeInv, Entered, FirstIs
  <2> QED
    BY <1>1, <2>1, <2>2 DEF TreeInv
<1>3. CASE todo = <<>> /\ \E p \in Path : todo' = Calls(<<"count">>, p)
  <2>1. MknodShape' /\ MkdirShape'
    BY <1>3, OneShape
  <2>2. Entered'
    BY <1>1, <1>3, NoShape DEF TreeInv, Entered
  <2> QED
    BY <1>1, <2>1, <2>2 DEF TreeInv
<1> QED
  BY <1>2, <1>3

\* mknod and create, which enter the file they made.
LEMMA NewNameTree ==
    ASSUME IInv, TreeInv, NEW p \in Inner, todo = <<>>, NewFile(p), disk[Parent(p)] = Dir,
           disk[p] = Absent, todo' = Calls(<<"mknod">>, p), UNCHANGED <<tab, stray>>
    PROVE  TreeInv'
<1>1. /\ DiskClosed' /\ \A r \in Path : disk[r] = Dir => disk'[r] = Dir
      /\ \A r \in Path : r # p => disk'[r] = disk[r]
  BY NewFileDisk DEF IInv, TreeInv, Dir, Absent
<1>2. p \in Path /\ Parent(p) \in Path
  BY ParentOf, PathAssumption
<1>3. MknodShape' /\ MkdirShape' /\ FirstIs("mknod", p)'
  BY <1>1, <1>2, OneShape
<1>4. Entered'
  BY <1>1, <1>3, NoShape DEF TreeInv, Entered, Known, Covered, Inner
<1> QED
  BY <1>1, <1>3, <1>4 DEF TreeInv

LEMMA MkdirTree == ASSUME IInv, TreeInv, NEW p \in Inner, Mkdir(p) PROVE TreeInv'
<1>1. /\ todo = <<>> /\ todo' = Calls(<<"mknod", "mkdir">>, p) /\ disk[Parent(p)] = Dir
      /\ UNCHANGED <<disk, tab, stray>> /\ p \in Path
  BY DEF Mkdir, Request, history, Inner
<1> DEFINE n == <<"mknod", "mkdir">>
<1>2. n \in Seq(CallName) /\ Len(n) = 2 /\ n[1] = "mknod" /\ n[2] = "mkdir"
  BY DEF CallName
<1>3. DOMAIN n = 1 .. 2
  BY <1>2
<1> HIDE DEF n
<1>4. todo' \in Seq(Call) /\ todo' = [i \in 1 .. 2 |-> [call |-> n[i], path |-> p]]
  BY <1>1, <1>2, <1>3, CallsAreCalls DEF Calls, n
<1>5. Len(todo') = 2
  <2>1. DOMAIN todo' = 1 .. 2
    BY <1>4
  <2>2. Len(todo') \in Nat /\ DOMAIN todo' = 1 .. Len(todo')
    BY <1>4
  <2> QED
    BY <2>1, <2>2
<1>6. /\ todo'[1] = [call |-> "mknod", path |-> p] /\ todo'[2] = [call |-> "mkdir", path |-> p]
      /\ \A i \in 1 .. 2 : i = 1 \/ i = 2
  BY <1>2, <1>4
<1>7. FirstIs("mknod", p)'
  BY <1>5, <1>6 DEF FirstIs
<1>8. MknodShape'
  BY <1>1, <1>5, <1>6 DEF MknodShape
<1>9. MkdirShape'
  BY <1>1, <1>5, <1>6, <1>7 DEF MkdirShape
<1>10. DiskClosed' /\ RowsGood(tab)'
  BY <1>1 DEF TreeInv, DiskClosed, RowsGood
<1>11. Entered'
  BY <1>1, NoShape DEF TreeInv, Entered, Known, Covered
<1> QED
  BY <1>8, <1>9, <1>10, <1>11 DEF TreeInv

\* What covers a path that stays, stays.
LEMMA StaysCovered ==
    ASSUME NEW p \in Path, NEW r \in Path, r \notin Below(p), NEW q \in Path, IsPrefix(q, r)
    PROVE  q \notin Below(p) /\ q # p
BY PathOrder, Zenon DEF Below

LEMMA EraseTree == ASSUME IInv, TreeInv, NEW p \in Inner, Erase(p) PROVE TreeInv'
<1>1. /\ todo = <<>> /\ todo' = Calls(<<"unlink">>, p) /\ disk' = Without(p)
      /\ stray' = stray \ Below(p) /\ UNCHANGED tab /\ p \in Path
  BY DEF Erase, Request, Inner
<1>2. /\ DiskClosed'
      /\ \A r \in Path : disk'[r] = IF r \in Below(p) THEN Absent ELSE disk[r]
  BY <1>1, WithoutDisk DEF TreeInv
<1>3. MknodShape' /\ MkdirShape'
  BY <1>1, OneShape
<1>4. Entered'
  <2> SUFFICES ASSUME NEW r \in Inner, disk'[r] # Absent PROVE Known(r)'
    BY DEF Entered
  <2>1. r \in Path /\ r \notin Below(p) /\ disk[r] # Absent
    BY <1>2 DEF Inner
  <2>2. Known(r)
    BY <1>1, <2>1, NoShape DEF TreeInv, Entered
  <2>3. ASSUME NEW q \in stray, IsPrefix(q, r) PROVE q \in stray'
    BY <1>1, <2>1, <2>3, StaysCovered DEF IInv, DiskInv
  <2> QED
    BY <1>1, <2>2, <2>3 DEF Known, Covered
<1> QED
  BY <1>1, <1>2, <1>3, <1>4 DEF TreeInv

LEMMA AliasTree == ASSUME IInv, TreeInv, NEW p \in Inner, NEW q \in Inner, Alias(p, q) PROVE TreeInv'
<1>1. /\ todo = <<>> /\ disk[q] = Absent /\ disk[Parent(q)] = Dir
      /\ stray' = stray \cup {q} /\ UNCHANGED <<tab, todo>> /\ q \in Path
  BY NothingThere DEF Alias, Request, Inner
<1>2. \E x \in Node \ {Absent, Dir} : disk' = [disk EXCEPT ![q] = x]
  BY DEF Alias, IsFile, Node, Inode, Absent, Dir, Symlink
<1>3. Root \in Path /\ q # Root /\ \A r \in Inner : Parent(r) \in Path /\ r \in Path
  BY ParentOf, PathAssumption DEF Inner
<1>4. \A r \in Path : r # q => disk'[r] = disk[r]
  BY <1>2 DEF IInv, DiskInv
<1>5. Dir # Absent
  BY DEF Dir, Absent
<1>6. DiskClosed'
  <2>1. \A r \in Inner : disk[r] # Absent => Parent(r) # q
    BY <1>1, <1>3, <1>5 DEF TreeInv, DiskClosed
  <2>2. Parent(q) # q
    BY <1>1, <1>5
  <2> QED
    BY <1>1, <1>3, <1>4, <1>5, <2>1, <2>2 DEF TreeInv, DiskClosed
<1>7. MknodShape' /\ MkdirShape'
  BY <1>1, NoShape DEF MknodShape, MkdirShape
<1>8. Covered(q)'
  <2>1. IsPrefix(q, q)
    BY <1>1, PathOrder
  <2> QED
    BY <1>1, <2>1 DEF Covered
<1>9. Entered'
  BY <1>1, <1>3, <1>4, <1>8, NoShape DEF TreeInv, Entered, Known, Covered
<1> QED
  BY <1>1, <1>6, <1>7, <1>9 DEF TreeInv

\* The calls that are left when one is done.
LEMMA StepShape ==
    ASSUME IInv, MknodShape, MkdirShape, NEW name, NEW p, Step(name, p),
           \A r \in Path : disk[r] = Dir => disk'[r] = Dir,
           tab.known \subseteq tab'.known, UNCHANGED stray,
           name = "mknod" => Known(p)'
    PROVE  /\ MknodShape' /\ MkdirShape' /\ FirstIs(name, p)
           /\ \A r : FirstIs("mknod", r) => Known(r)'
<1>1. todo \in Seq(Call) /\ todo # <<>> /\ todo' = Tail(todo) /\ Head(todo) = [call |-> name, path |-> p]
  BY DEF IInv, TodoInv, Step
<1>2. /\ Len(todo) \in Nat \ {0} /\ Len(todo') = Len(todo) - 1 /\ todo[1] = [call |-> name, path |-> p]
      /\ \A i \in 1 .. Len(todo) - 1 : todo'[i] = todo[i + 1]
  BY <1>1, HeadTailProperties, EmptySeq
<1>3. \A i \in 1 .. Len(todo') : /\ todo'[i] = todo[i + 1] /\ i + 1 \in 1 .. Len(todo) /\ i + 1 # 1
  BY <1>2
<1>4. FirstIs(name, p)
  BY <1>2 DEF FirstIs
<1>5. \A r : FirstIs("mknod", r) => Known(r)'
  <2> SUFFICES ASSUME NEW r, FirstIs("mknod", r) PROVE Known(r)'
    OBVIOUS
  <2>1. [call |-> "mknod", path |-> r] = [call |-> name, path |-> p]
    BY <1>2 DEF FirstIs
  <2>2. name = "mknod" /\ r = p
    BY <2>1
  <2> QED
    BY <2>2
<1>6. \A r : Known(r) => Known(r)'
  BY DEF Known, Covered
<1>7. \A r \in Inner : Parent(r) \in Path
  BY ParentOf, PathAssumption DEF Inner
<1>8. MknodShape'
  BY <1>3, Zenon DEF MknodShape
<1>9. MkdirShape'
  <2> SUFFICES ASSUME NEW i \in 1 .. Len(todo'), todo'[i].call = "mkdir",
                      NEW x, x = todo'[i].path
               PROVE  x \in Inner /\ disk'[Parent(x)] = Dir /\ Known(x)'
    BY DEF MkdirShape, Known, Covered
  <2> DEFINE j == i + 1
  <2>1. todo'[i] = todo[j] /\ j \in 1 .. Len(todo)
    BY <1>3
  <2> HIDE DEF j
  <2>2. x \in Inner /\ disk[Parent(x)] = Dir /\ (Known(x) \/ FirstIs("mknod", x))
    BY <2>1 DEF MkdirShape
  <2> QED
    BY <1>5, <1>6, <1>7, <2>2
<1> QED
  BY <1>4, <1>5, <1>8, <1>9

\* The row of what the request made is entered, because its directory has one.
LEMMA DbMknodTree == ASSUME IInv, TreeInv, NEW p \in Inner, DbMknod(p) PROVE TreeInv'
<1>1. Step("mknod", p) /\ tab' = Mknod(tab, p) /\ UNCHANGED <<disk, stray>>
  BY DEF DbMknod, history
<1>2. p \in Path /\ Parent(p) \in Path /\ tab \in Table /\ stray \subseteq Path
  BY ParentOf, PathAssumption DEF IInv, TabInv, DiskInv
<1>3. /\ RowsGood(tab)' /\ tab.known \subseteq tab'.known
      /\ Parent(p) \in tab.known => p \in tab'.known
  BY <1>1, <1>2, MknodRows DEF TreeInv
<1>4. todo \in Seq(Call) /\ todo # <<>> /\ Head(todo) = [call |-> "mknod", path |-> p]
  BY <1>1 DEF Step, IInv, TodoInv
<1>5. Len(todo) \in Nat \ {0} /\ todo[1] = [call |-> "mknod", path |-> p]
  BY <1>4, EmptySeq
<1>6. disk[Parent(p)] = Dir
  <2>1. 1 \in 1 .. Len(todo) /\ todo[1].call = "mknod" /\ todo[1].path = p
    BY <1>5
  <2> QED
    BY <2>1 DEF TreeInv, MknodShape
<1>7. Parent(p) \in tab.known \/ Covered(Parent(p))
  <2>1. CASE Parent(p) = Root
    BY <2>1 DEF TreeInv, RowsGood
  <2>2. CASE Parent(p) # Root
    <3>1. Known(Parent(p)) \/ FirstIs("mknod", Parent(p))
      BY <1>2, <1>6, <2>2 DEF TreeInv, Entered, Inner, Dir, Absent
    <3>2. Parent(p) # p
      BY <1>2, ParentOf, PathOrder, Zenon
    <3>3. ~FirstIs("mknod", Parent(p))
      <4>1. [call |-> "mknod", path |-> p] # [call |-> "mknod", path |-> Parent(p)]
        BY <3>2
      <4> QED
        BY <1>5, <4>1 DEF FirstIs
    <3> QED
      BY <3>1, <3>3 DEF Known
  <2> QED
    BY <2>1, <2>2
<1>8. Covered(Parent(p)) => Covered(p)
  BY <1>2, ParentOf DEF Covered
<1>9. Known(p)'
  BY <1>1, <1>3, <1>7, <1>8 DEF Known, Covered
<1>10. /\ MknodShape' /\ MkdirShape' /\ \A r : FirstIs("mknod", r) => Known(r)'
  BY <1>1, <1>3, <1>9, StepShape DEF TreeInv
<1>11. Entered'
  BY <1>1, <1>3, <1>10 DEF TreeInv, Entered, Known, Covered
<1>12. DiskClosed'
  BY <1>1 DEF TreeInv, DiskClosed
<1> QED
  BY <1>3, <1>10, <1>11, <1>12 DEF TreeInv

\* The calls that enter nothing.
LEMMA DbOtherTree ==
    ASSUME IInv, TreeInv, NEW p \in Path, DbUnlink(p) \/ DbCount(p) PROVE TreeInv'
<1>1. UNCHANGED <<disk, stray>> /\ tab \in Table
  BY DEF DbUnlink, DbCount, history, IInv, TabInv
<1>2. RowsGood(tab)' /\ tab'.known = tab.known
  <2>1. CASE DbUnlink(p)
    BY <1>1, <2>1, UnlinkRows DEF DbUnlink, TreeInv
  <2>2. CASE DbCount(p)
    BY <2>2 DEF DbCount, TreeInv, RowsGood
  <2> QED
    BY <2>1, <2>2
<1>3. \E name \in {"unlink", "count"} : Step(name, p)
  BY DEF DbUnlink, DbCount
<1>4. /\ MknodShape' /\ MkdirShape' /\ \A r : FirstIs("mknod", r) => Known(r)'
  BY <1>1, <1>2, <1>3, StepShape DEF TreeInv
<1>5. Entered'
  BY <1>1, <1>2, <1>4 DEF TreeInv, Entered, Known, Covered
<1>6. DiskClosed'
  BY <1>1 DEF TreeInv, DiskClosed
<1> QED
  BY <1>2, <1>4, <1>5, <1>6 DEF TreeInv

LEMMA MakeDirectoryTree == ASSUME IInv, TreeInv, NEW p \in Inner, MakeDirectory(p) PROVE TreeInv'
<1>1. /\ Step("mkdir", p) /\ UNCHANGED <<tab, stray>>
      /\ disk' = IF disk[p] = Absent THEN [disk EXCEPT ![p] = Dir] ELSE disk
  BY DEF MakeDirectory, history
<1>2. /\ p \in Path /\ p # Root /\ Root \in Path /\ disk \in [Path -> Node]
      /\ \A r \in Inner : Parent(r) \in Path /\ r \in Path
  BY ParentOf, PathAssumption DEF IInv, DiskInv, Inner
<1>3. \A r \in Path : disk'[r] = disk[r] \/ (r = p /\ disk'[r] = Dir)
  BY <1>1, <1>2
<1>4. /\ MknodShape' /\ MkdirShape' /\ FirstIs("mkdir", p)
      /\ \A r : FirstIs("mknod", r) => Known(r)'
  BY <1>1, <1>2, <1>3, StepShape DEF TreeInv
<1>5. disk[Parent(p)] = Dir /\ (Known(p) \/ FirstIs("mknod", p))
  <2>1. todo \in Seq(Call) /\ Len(todo) \in Nat \ {0} /\ todo[1] = [call |-> "mkdir", path |-> p]
    BY <1>1, <1>4, EmptySeq DEF FirstIs, IInv, TodoInv, Step
  <2>2. 1 \in 1 .. Len(todo) /\ todo[1].call = "mkdir" /\ todo[1].path = p
    BY <2>1
  <2> QED
    BY <2>2 DEF TreeInv, MkdirShape
<1>6. DiskClosed'
  BY <1>2, <1>3, <1>5 DEF TreeInv, DiskClosed
<1>7. \A r : Known(r) => Known(r)'
  BY <1>1 DEF Known, Covered
<1>8. Entered'
  BY <1>2, <1>3, <1>4, <1>5, <1>7 DEF TreeInv, Entered
<1>9. RowsGood(tab)'
  BY <1>1 DEF TreeInv
<1> QED
  BY <1>4, <1>6, <1>8, <1>9 DEF TreeInv

LEMMA CheckoutFileTree == ASSUME IInv, TreeInv, NEW p \in Inner, CheckoutFile(p) PROVE TreeInv'
<1>1. p \in Path /\ tab \in Table /\ todo = <<>> /\ todo' = todo
  BY DEF Inner, IInv, TabInv, CheckoutFile, Hook, Request
<1>2. PICK r \in Checkout(tab, p) :
        /\ tab' = r.tab
        /\ IF r.done /\ disk[p] = Absent /\ disk[Parent(p)] = Dir
           THEN /\ NewFile(p)
                /\ stray' = IF p \in tab.known THEN stray ELSE stray \cup {p}
           ELSE UNCHANGED <<disk, stray>>
  BY DEF CheckoutFile
<1>3. RowsGood(tab)' /\ tab'.known = tab.known
  BY <1>1, <1>2, CheckoutRows DEF TreeInv
<1>4. MknodShape' /\ MkdirShape' /\ \A t : ~FirstIs("mknod", t)
  BY <1>1, NoShape DEF MknodShape, MkdirShape
<1>5. CASE NewFile(p) /\ disk[p] = Absent /\ disk[Parent(p)] = Dir
           /\ stray' = IF p \in tab.known THEN stray ELSE stray \cup {p}
  <2>1. DiskClosed' /\ \A t \in Path : t # p => disk'[t] = disk[t]
    BY <1>5, NewFileDisk DEF IInv, TreeInv, Dir, Absent
  <2>2. IsPrefix(p, p)
    BY <1>1, PathOrder
  <2>3. Known(p)' /\ \A t : Known(t) => Known(t)'
    BY <1>3, <1>5, <2>2 DEF Known, Covered
  <2>4. Entered'
    BY <1>4, <2>1, <2>3 DEF TreeInv, Entered, Inner
  <2> QED
    BY <1>3, <1>4, <2>1, <2>4 DEF TreeInv
<1>6. CASE UNCHANGED <<disk, stray>>
  <2>1. DiskClosed' /\ Entered'
    BY <1>3, <1>4, <1>6 DEF TreeInv, DiskClosed, Entered, Known, Covered
  <2> QED
    BY <1>3, <1>4, <2>1 DEF TreeInv
<1> QED
  BY <1>2, <1>5, <1>6

LEMMA ReleaseFileTree == ASSUME IInv, TreeInv, NEW p \in Inner, ReleaseFile(p) PROVE TreeInv'
<1>1. p \in Path /\ tab \in Table /\ todo = <<>> /\ todo' = todo /\ stray \subseteq Path
  BY DEF Inner, IInv, TabInv, DiskInv, ReleaseFile, Hook, Request
<1>2. PICK r \in Release(tab, p) :
        /\ tab' = r.tab
        /\ IF r.done /\ disk[p] # Dir
           THEN disk' = Without(p) /\ stray' = stray \ {p}
           ELSE UNCHANGED <<disk, stray>>
  BY DEF ReleaseFile
<1>3. RowsGood(tab)' /\ tab'.known = tab.known
  BY <1>1, <1>2, ReleaseRows DEF TreeInv
<1>4. MknodShape' /\ MkdirShape' /\ \A t : ~FirstIs("mknod", t)
  BY <1>1, NoShape DEF MknodShape, MkdirShape
<1>5. CASE disk' = Without(p) /\ stray' = stray \ {p}
  <2>1. /\ DiskClosed'
        /\ \A t \in Path : disk'[t] = IF t \in Below(p) THEN Absent ELSE disk[t]
    BY <1>5, WithoutDisk DEF TreeInv
  <2>2. Entered'
    <3> SUFFICES ASSUME NEW t \in Inner, disk'[t] # Absent PROVE Known(t)'
      BY DEF Entered
    <3>1. t \in Path /\ t \notin Below(p) /\ disk[t] # Absent
      BY <2>1 DEF Inner
    <3>2. Known(t)
      BY <1>4, <3>1 DEF TreeInv, Entered
    <3>3. ASSUME NEW q \in stray, IsPrefix(q, t) PROVE q \in stray'
      BY <1>1, <1>5, <3>1, <3>3, StaysCovered
    <3> QED
      BY <1>3, <3>2, <3>3 DEF Known, Covered
  <2> QED
    BY <1>3, <1>4, <2>1, <2>2 DEF TreeInv
<1>6. CASE UNCHANGED <<disk, stray>>
  <2>1. DiskClosed' /\ Entered'
    BY <1>3, <1>4, <1>6 DEF TreeInv, DiskClosed, Entered, Known, Covered
  <2> QED
    BY <1>3, <1>4, <2>1 DEF TreeInv
<1> QED
  BY <1>2, <1>5, <1>6

LEMMA InstallTree == ASSUME IInv, TreeInv, NEW p \in Inner, Install(p) PROVE TreeInv'
<1>1. /\ p \in tab.on /\ disk[p] # Dir /\ disk[Parent(p)] = Dir /\ NewFile(p)
      /\ UNCHANGED <<tab, todo, stray>>
  BY DEF Install
<1>2. /\ DiskClosed' /\ \A t \in Path : disk[t] = Dir => disk'[t] = Dir
      /\ \A t \in Path : t # p => disk'[t] = disk[t]
  BY <1>1, NewFileDisk DEF IInv, TreeInv
<1>3. MknodShape' /\ MkdirShape'
  BY <1>1, <1>2, SameShape DEF TreeInv
<1>4. p \in tab.known
  BY <1>1 DEF TreeInv, RowsGood
<1>5. Entered'
  BY <1>1, <1>2, <1>4 DEF TreeInv, Entered, Known, Covered, FirstIs, Inner
<1> QED
  BY <1>1, <1>2, <1>3, <1>5 DEF TreeInv

LEMMA LearnTree == ASSUME IInv, TreeInv, NEW p \in Inner, Learn(p) PROVE TreeInv'
<1>1. /\ Parent(p) \in tab.known /\ p \notin tab.known /\ tab' = Merge(tab, Parent(p), {p})
      /\ UNCHANGED <<disk, todo, stray>> /\ tab \in Table
  BY DEF Learn, history, IInv, TabInv
<1>2. RowsGood(tab)' /\ tab.known \subseteq tab'.known
  BY <1>1, MergeRows DEF TreeInv
<1>3. MknodShape' /\ MkdirShape'
  BY <1>1, <1>2, SameShape DEF TreeInv
<1>4. DiskClosed' /\ Entered'
  BY <1>1, <1>2 DEF TreeInv, DiskClosed, Entered, Known, Covered, FirstIs
<1> QED
  BY <1>2, <1>3, <1>4 DEF TreeInv

LEMMA CrashTree == ASSUME IInv, TreeInv, Crash PROVE TreeInv'
<1>1. /\ todo' = <<>> /\ UNCHANGED disk /\ tab' \in Interrupted
      /\ stray' = stray \cup {p \in Inner : disk[p] # Absent /\ p \notin (tab').known}
  BY DEF Crash
<1>2. MknodShape' /\ MkdirShape'
  BY <1>1 DEF MknodShape, MkdirShape
<1>3. Entered'
  <2> SUFFICES ASSUME NEW p \in Inner, disk[p] # Absent, p \notin (tab').known PROVE Covered(p)'
    BY <1>1 DEF Entered, Known
  <2>1. IsPrefix(p, p) /\ p \in stray'
    BY <1>1, PathOrder DEF Inner
  <2> QED
    BY <2>1 DEF Covered
<1>4. DiskClosed' /\ RowsGood(tab)'
  BY <1>1, InterruptedRows DEF TreeInv, DiskClosed, IInv, TabInv
<1> QED
  BY <1>2, <1>3, <1>4 DEF TreeInv

\* Below a path that is not a directory there is nothing.
LEMMA NothingBelow ==
    ASSUME DiskClosed, NEW p \in Path, disk[p] # Dir, NEW q \in Path, IsPrefix(p, q), q # p
    PROVE  disk[q] = Absent
<1> SUFFICES ASSUME disk[q] # Absent PROVE FALSE
  OBVIOUS
<1> DEFINE Bad == {r \in Path : IsPrefix(p, r) /\ r # p /\ disk[r] # Absent}
           T == {Len(r) : r \in Bad}
<1>1. PICK S : Path \subseteq Seq(S) /\ Root \in Path
  BY PathsAreNames
<1>2. \A r \in Path : Len(r) \in Nat
  BY <1>1
<1>3. T \in SUBSET Nat /\ T # {}
  BY <1>2
<1>4. PICK n \in T : \A m \in T : n <= m
  BY <1>3, LeastNat, Zenon
<1>5. PICK r \in Bad : n = Len(r)
  BY <1>4
<1>6. r \in Inner /\ r \in Path
  BY RootIsAlone DEF Inner
<1>7. Parent(r) \in Path /\ IsPrefix(p, Parent(r)) /\ disk[Parent(r)] = Dir
  BY <1>6, ParentOf DEF DiskClosed
<1>8. Parent(r) \in Bad
  BY <1>7 DEF Dir, Absent
<1>9. Len(Parent(r)) < Len(r)
  <2>1. r \in Seq(S) /\ r # <<>>
    BY <1>1, <1>6 DEF Inner, Root
  <2>2. Len(r) \in Nat \ {0} /\ Len(Front(r)) = Len(r) - 1
    BY <2>1, FrontByPosition
  <2> QED
    BY <2>2 DEF Parent
<1>10. Len(r) <= Len(Parent(r))
  BY <1>4, <1>5, <1>8
<1> QED
  BY <1>2, <1>6, <1>7, <1>9, <1>10

\* What is below a renamed directory stays without rows; the new name is
\* entered, or was there.
LEMMA RenameTree ==
    ASSUME IInv, TreeInv, NEW p \in Inner, NEW q \in Inner, Rename(p, q) PROVE TreeInv'
<1> DEFINE C(r) == Came(p, q, r)
           M(r) == Moved(p, q, r)
<1>1. /\ todo = <<>> /\ UNCHANGED tab /\ todo' = RenameCalls(p, q) /\ stray \subseteq Path
      /\ disk[p] # Absent /\ disk[Parent(q)] = Dir /\ p # q /\ ~IsPrefix(p, q)
      /\ disk[q] # Dir \/ \A r \in Below(q) \ {q} : disk[r] = Absent
      /\ stray' = (stray \ Below(p)) \cup (IF disk[p] = Dir THEN Below(q) \ {q} ELSE {})
                    \cup (IF disk[p] = Symlink THEN {q} ELSE {})
  BY DEF Rename, Request, IInv, DiskInv, Dir, Absent
<1>2. /\ p \in Path /\ q \in Path /\ p # Root /\ q # Root /\ Root \in Path
      /\ \A r \in Inner : Parent(r) \in Path /\ r \in Path /\ r # Root
      /\ \A r \in Path : r # Root => r \in Inner
  BY ParentOf, PathAssumption DEF Inner
<1>3. \A r \in Path :
        /\ C(r) => disk'[r] = disk[M(r)] /\ M(r) \in Below(p)
        /\ ~C(r) => disk'[r] = IF r \in Below(p) THEN Absent ELSE disk[r]
  BY <1>2, RenamedDisk
<1>4. C(q) /\ M(q) = p /\ q \notin Below(p)
  <2>1. IsPrefix(q, q) /\ Moved(p, q, q) = p
    <3>1. PICK S : p \in Seq(S) /\ q \in Seq(S)
      BY <1>2, PathsAreNames, Zenon
    <3> QED
      BY <1>2, <3>1, MovedItself, PathOrder, Zenon
  <2> QED
    BY <1>1, <1>2, <2>1 DEF Came, Below
<1>5. ASSUME NEW r \in Path, C(r), r # q
      PROVE  /\ r \in Inner /\ IsPrefix(q, Parent(r))
             /\ M(r) \in Inner /\ M(r) # p /\ M(Parent(r)) = Parent(M(r))
  <2>1. IsPrefix(q, r) /\ Moved(p, q, r) \in Path
    BY <1>5, Zenon DEF Came
  <2> QED
    BY <1>2, <1>5, <2>1, MovedPath, SMT
<1>6. /\ Root \notin Below(p) /\ ~C(Root)
      /\ \A r \in Inner : Parent(r) \in Below(p) => r \in Below(p)
  <2>1. Root \notin Below(p) /\ ~C(Root)
    BY <1>2, RootIsAlone DEF Below, Came
  <2>2. ASSUME NEW r \in Inner, Parent(r) \in Below(p) PROVE r \in Below(p)
    <3>1. IsPrefix(p, Parent(r)) /\ r \in Path
      BY <1>2, <2>2 DEF Below
    <3>2. IsPrefix(p, r)
      BY <1>2, <3>1, ParentOf
    <3> QED
      BY <3>1, <3>2 DEF Below
  <2> QED
    BY <2>1, <2>2
<1>7. ~C(Parent(q))
  <2>1. ~IsPrefix(q, Parent(q))
    BY <1>2, ParentOf, Zenon
  <2> QED
    BY <2>1, Zenon DEF Came
<1>8. ASSUME NEW r \in Inner, C(Parent(r)) PROVE IsPrefix(q, r) /\ r # q
  <2>1. IsPrefix(q, Parent(r))
    BY <1>8, Zenon DEF Came
  <2> QED
    BY <1>2, <2>1, ParentOf
\* Where a file was, or an empty directory, nothing else was below.
<1>9. \A r \in Path : IsPrefix(q, r) /\ r # q => disk[r] = Absent
  <2>1. CASE disk[q] # Dir
    BY <1>2, <2>1, NothingBelow, Zenon DEF TreeInv
  <2>2. CASE disk[q] = Dir
    BY <1>1, <2>2 DEF Below
  <2> QED
    BY <2>1, <2>2
<1>10. \A r \in Path : disk[p] # Dir /\ r \in Below(p) /\ r # p => disk[r] = Absent
  BY <1>2, NothingBelow, Zenon DEF TreeInv, Below
<1>11. Dir # Absent
  BY DEF Dir, Absent
<1>12. \A r \in Inner : disk[r] # Absent => disk[Parent(r)] = Dir
  BY DEF TreeInv, DiskClosed
<1> HIDE DEF C, M
<1>13. disk'[Root] = Dir
  BY <1>2, <1>3, <1>6 DEF TreeInv, DiskClosed
<1>14. ASSUME NEW r \in Inner, disk'[r] # Absent PROVE disk'[Parent(r)] = Dir
  <2>1. CASE r = q
    <3>1. Parent(q) \notin Below(p)
      BY <1>2, <1>4, <1>6
    <3> QED
      BY <1>1, <1>2, <1>3, <1>7, <2>1, <3>1
  <2>2. CASE C(r) /\ r # q
    <3>1. disk[M(r)] # Absent /\ M(r) \in Inner /\ M(Parent(r)) = Parent(M(r))
      BY <1>2, <1>3, <1>5, <1>14, <2>2
    <3>2. disk[M(Parent(r))] = Dir /\ M(Parent(r)) \in Path
      BY <1>2, <1>12, <3>1
    <3>3. C(Parent(r))
      BY <1>2, <1>5, <2>2, <3>2, Zenon DEF C, M, Came
    <3> QED
      BY <1>2, <1>3, <3>2, <3>3
  <2>3. CASE ~C(r)
    <3>1. r \notin Below(p) /\ disk[r] # Absent /\ disk[Parent(r)] = Dir
      BY <1>2, <1>3, <1>12, <1>14, <2>3
    <3>2. Parent(r) \notin Below(p)
      BY <1>6, <3>1
    <3>3. ~C(Parent(r))
      BY <1>2, <1>8, <1>9, <3>1
    <3> QED
      BY <1>2, <1>3, <3>1, <3>2, <3>3
  <2> QED
    BY <2>1, <2>2, <2>3
<1>15. DiskClosed'
  BY <1>13, <1>14 DEF DiskClosed
<1> DEFINE first == RenameFirst(q)
<1>16. /\ Len(todo') = 2 /\ todo'[1] = first /\ todo'[2] = [call |-> "unlink", path |-> p]
       /\ \A i \in 1 .. 2 : i = 1 \/ i = 2
  BY <1>1, <1>2, RenameCallsAre
<1>17. /\ first.path = q /\ first.call # "mkdir"
       /\ first = IF disk[q] = Absent THEN [call |-> "mknod", path |-> q]
                  ELSE [call |-> "count", path |-> q]
  BY DEF RenameFirst
<1> HIDE DEF first
<1>18. disk'[q] # Absent
  BY <1>1, <1>2, <1>3, <1>4
<1>19. MknodShape'
  BY <1>15, <1>16, <1>17, <1>18 DEF MknodShape, DiskClosed
<1>20. MkdirShape'
  BY <1>16, <1>17 DEF MkdirShape
<1>21. \A r \in Path : r \notin Below(p) /\ Known(r) => Known(r)'
  <2> SUFFICES ASSUME NEW r \in Path, r \notin Below(p), NEW s \in stray, IsPrefix(s, r)
               PROVE  s \in stray'
    BY <1>1 DEF Known, Covered
  <2>1. s \notin Below(p)
    BY <1>1, <1>2, StaysCovered
  <2> QED
    BY <1>1, <2>1
<1>22. Entered'
  <2> SUFFICES ASSUME NEW r \in Inner, disk'[r] # Absent PROVE Known(r)' \/ FirstIs("mknod", r)'
    BY DEF Entered
  <2>1. CASE r = q /\ disk[q] = Absent
    BY <1>16, <1>17, <2>1 DEF FirstIs
  <2>2. CASE r = q /\ disk[q] # Absent
    <3>1. Known(q)
      BY <1>1, <2>2, NoShape DEF TreeInv, Entered
    <3> QED
      BY <1>2, <1>4, <1>21, <2>2, <3>1
  <2>3. CASE C(r) /\ r # q
    <3>1. disk[M(r)] # Absent /\ M(r) \in Below(p) /\ M(r) # p /\ M(r) \in Path
      BY <1>2, <1>3, <1>5, <2>3
    <3>2. disk[p] = Dir
      BY <1>10, <3>1
    <3>3. r \in Below(q)
      BY <1>2, <2>3, Zenon DEF C, Came, Below
    <3>4. r \in stray' /\ IsPrefix(r, r)
      BY <1>1, <1>2, <2>3, <3>2, <3>3, PathOrder
    <3> QED
      BY <3>4 DEF Known, Covered
  <2>4. CASE ~C(r)
    <3>1. r \notin Below(p) /\ disk[r] # Absent /\ r \in Path
      BY <1>2, <1>3, <2>4
    <3>2. Known(r)
      BY <1>1, <3>1, NoShape DEF TreeInv, Entered
    <3> QED
      BY <1>21, <3>1, <3>2
  <2> QED
    BY <2>1, <2>2, <2>3, <2>4
<1>23. RowsGood(tab)'
  BY <1>1 DEF TreeInv
<1> QED
  BY <1>15, <1>19, <1>20, <1>22, <1>23 DEF TreeInv

LEMMA RenameAliasTree ==
    ASSUME IInv, TreeInv, NEW p \in Inner, NEW q \in Inner, RenameAlias(p, q) PROVE TreeInv'
<1>1. /\ todo = <<>> /\ todo' = RenameCalls(p, q) /\ disk[q] # Absent
      /\ UNCHANGED <<disk, tab, stray>> /\ p \in Path /\ q \in Path
  BY DEF RenameAlias, Request, history, IsFile, Inode, Absent, Inner
<1>2. /\ Len(todo') = 2 /\ todo'[1] = [call |-> "count", path |-> q]
      /\ todo'[2] = [call |-> "unlink", path |-> p]
      /\ \A i \in 1 .. 2 : i = 1 \/ i = 2
  BY <1>1, RenameCallsAre DEF RenameFirst
<1>3. MknodShape' /\ MkdirShape'
  BY <1>2 DEF MknodShape, MkdirShape
<1>4. DiskClosed' /\ RowsGood(tab)' /\ \A r : Known(r) => Known(r)'
  BY <1>1 DEF TreeInv, DiskClosed, RowsGood, Known, Covered
<1>5. Entered'
  BY <1>1, <1>4, NoShape DEF TreeInv, Entered
<1> QED
  BY <1>3, <1>4, <1>5 DEF TreeInv

\* Every request and event but those on open files.
LEMMA NextTree == IInv /\ TreeInv /\ [Next]_vars => TreeInv'
<1> SUFFICES ASSUME IInv, TreeInv, [Next]_vars PROVE TreeInv'
  OBVIOUS
<1>1. Asked \subseteq Inner /\ Asked \subseteq Path
  BY AskedAssumption DEF Inner
<1>2. ASSUME NEW p \in Inner, MknodFile(p) \/ Create(p) PROVE TreeInv'
  <2>1. /\ todo = <<>> /\ NewFile(p) /\ disk[Parent(p)] = Dir /\ disk[p] = Absent
        /\ todo' = Calls(<<"mknod">>, p) /\ UNCHANGED <<tab, stray>>
    BY <1>2, NothingThere DEF MknodFile, Create, Request, Inner
  <2> QED
    BY <2>1, NewNameTree
<1>3. ASSUME NEW p \in Path, Truncate(p) \/ ChangeByPath(p) \/ Open(p) \/ Opendir(p) PROVE TreeInv'
  <2>1. UNCHANGED <<disk, tab, stray>>
    BY <1>3 DEF Truncate, ChangeByPath, Open, Opendir, history
  <2>2. \/ UNCHANGED todo
        \/ todo = <<>> /\ todo' = Calls(<<"count">>, p)
    BY <1>3 DEF Truncate, ChangeByPath, Open, Opendir, Request
  <2> QED
    BY <2>1, <2>2, TreeStays
<1>4. ASSUME NEW h \in handles, Change(h) \/ Close(h) PROVE TreeInv'
  BY <1>4, TreeStays DEF Change, Close
<1>5. CASE UNCHANGED vars
  BY <1>5, TreeStays DEF vars, history
<1>6. ASSUME NEW p \in Asked,
             \/ MknodFile(p) \/ Mkdir(p) \/ Erase(p) \/ Truncate(p)
             \/ Create(p) \/ Open(p) \/ ChangeByPath(p)
      PROVE  TreeInv'
  BY <1>1, <1>2, <1>3, <1>6, MkdirTree, EraseTree
<1>7. ASSUME NEW p \in Asked,
             \/ DbMknod(p) \/ DbUnlink(p) \/ DbCount(p) \/ MakeDirectory(p)
             \/ CheckoutFile(p) \/ ReleaseFile(p) \/ Install(p) \/ Learn(p)
      PROVE  TreeInv'
  BY <1>1, <1>7, DbMknodTree, DbOtherTree, MakeDirectoryTree, CheckoutFileTree, ReleaseFileTree,
     InstallTree, LearnTree
<1>8. ASSUME NEW p \in Asked \cup {Root}, Opendir(p) PROVE TreeInv'
  BY <1>1, <1>3, <1>8, PathAssumption
<1>9. ASSUME NEW p \in Asked, NEW q \in Asked, Alias(p, q) \/ Rename(p, q) \/ RenameAlias(p, q)
      PROVE  TreeInv'
  BY <1>1, <1>9, AliasTree, RenameTree, RenameAliasTree
<1>10. CASE Crash
  BY <1>10, CrashTree
<1> QED
  BY <1>4, <1>5, <1>6, <1>7, <1>8, <1>9, <1>10 DEF Next

\* What is on disk is listed for the user and for the peers, or the request in
\* progress will enter it, in every order of requests, received files and
\* crashes (FuseContext::mknod, mkdir, create, rename; Database::readdir).
THEOREM NothingGetsHidden == Spec => []NothingIsHidden
<1>1. IInv /\ TreeInv => NothingIsHidden
  <2> SUFFICES ASSUME IInv, TreeInv, NEW p \in Inner, disk[p] # Absent, ~Covered(p)
               PROVE  \/ p \in Listing(tab, Parent(p))
                      \/ \E i \in DOMAIN todo : todo[i] = [call |-> "mknod", path |-> p]
    BY Zenon DEF NothingIsHidden, Covered
  <2>1. p \in tab.known \/ FirstIs("mknod", p)
    BY DEF TreeInv, Entered, Known
  <2>2. CASE p \in tab.known
    BY <2>2 DEF TreeInv, RowsGood, Listing, Children, Inner
  <2>3. CASE FirstIs("mknod", p)
    <3>1. Len(todo) \in Nat \ {0} /\ DOMAIN todo = 1 .. Len(todo)
      BY <2>3 DEF FirstIs, IInv, TodoInv
    <3>2. 1 \in DOMAIN todo
      BY <3>1
    <3> QED
      BY <2>3, <3>2, Zenon DEF FirstIs
  <2> QED
    BY <2>1, <2>2, <2>3
<1> QED
  BY InitIInv, NextIInv, InitTree, NextTree, <1>1, PTL DEF Spec
-----------------------------------------------------------------------------
(* The tree on its way to another backend *)

TreeTypes ==
    /\ sDirs \subseteq Path /\ rDirs \subseteq Path
    /\ queue \in Seq(Path) /\ link \in Seq(Chunk) /\ merging \subseteq Chunk
    /\ goal \subseteq Path
\* The directories of the sender: a finite tree, each with its row.
DirsGood ==
    /\ Root \in sDirs /\ sDirs \subseteq sTab.known /\ IsFiniteSet(sTab.known)
    /\ \A d \in sDirs \ {Root} : Parent(d) \in sDirs
TableGood(t) == t \in Table /\ RowsGood(t)
\* The receiver's files and directories have rows.
FilesGood == rFiles \subseteq rTab.known /\ rDirs \subseteq rTab.known
RowsInv == TableGood(sTab) /\ TableGood(rTab) /\ FilesGood
\* A listing is of one directory.
ChunkGood(c) == \A p \in c.names : p \in Inner /\ Parent(p) = c.dir
ChunksGood == (\A c \in merging : ChunkGood(c)) /\ \A j \in 1 .. Len(link) : ChunkGood(link[j])
\* The receiver has the row of a directory, or a file in its way, or it gets
\* the row by one of the first n listings.
Reached(d) == d \in rTab.known \/ Blocked(d)
Coming(p, n) == (\E c \in merging : p \in c.names) \/ \E j \in 1 .. n : p \in link[j].names
MergeInv == (\A c \in merging : c.dir \in rTab.known) /\ \A b, c \in merging : b = c
LinkInv ==
    \A d \in Path : \A i \in 1 .. Len(link) : link[i].dir = d => Reached(d) \/ Coming(d, i - 1)
\* This does not survive the loss of a listing, nor does the walk it is about.
QueueInv ==
    up => \A d \in Path : \A i \in 1 .. Len(queue) :
              queue[i] = d => Reached(d) \/ Coming(d, Len(link))
\* The walk has still to visit a directory, or one above it.
Ahead(d) == \E i \in 1 .. Len(queue) : IsPrefix(queue[i], d)
Served(p) == p \in rTab.known \/ Blocked(Parent(p)) \/ Coming(p, Len(link)) \/ Ahead(Parent(p))
GoalInv ==
    \A p \in goal : p \in Inner /\ Parent(p) \in sDirs /\ p \in sTab.linked /\ Served(p)
IdleInv == (~walking => queue = <<>>) /\ (~up => goal = {})
WalkInv ==
    /\ TreeTypes /\ DirsGood /\ RowsInv /\ ChunksGood
    /\ MergeInv /\ LinkInv /\ QueueInv /\ GoalInv /\ IdleInv

\* The elements of a finite set as a list.
LEMMA ListOfSet ==
    ASSUME NEW T, NEW S \in SUBSET T, IsFiniteSet(S)
    PROVE  /\ SetToSeq(S) \in Seq(T)
           /\ \A i \in 1 .. Len(SetToSeq(S)) : SetToSeq(S)[i] \in S
           /\ \A x \in S : \E i \in 1 .. Len(SetToSeq(S)) : SetToSeq(S)[i] = x
<1> DEFINE n == Cardinality(S)
           s == SetToSeq(S)
<1>1. n \in Nat /\ ExistsBijection(1 .. n, S)
  BY FS_CardinalityType
<1>2. PICK f \in [1 .. n -> S] : f \in Injection(1 .. n, S)
  BY <1>1 DEF ExistsBijection, Bijection, Injection
<1>3. IsInjective(f)
  BY <1>2 DEF IsInjective, Injection, IsInjective
<1>4. s \in [1 .. n -> S] /\ IsInjective(s)
  BY <1>2, <1>3 DEF SetToSeq
<1>5. s \in Injection(1 .. n, S)
  BY <1>4 DEF IsInjective, Injection
<1>6. IsFiniteSet(1 .. n) /\ Cardinality(1 .. n) = n
  BY <1>1, FS_Interval
<1>7. s \in Surjection(1 .. n, S)
  BY <1>1, <1>5, <1>6, FS_Injection
<1>8. \A x \in S : \E i \in 1 .. n : s[i] = x
  BY <1>7 DEF Surjection
<1> HIDE DEF s, n
<1>9. s \in Seq(T) /\ Len(s) = n
  BY <1>1, <1>4
<1> QED
  BY <1>4, <1>8, <1>9 DEF s

\* From a directory down to another of the same tree: the next one.
LEMMA NextBelow ==
    ASSUME NEW D \in SUBSET Path, \A e \in D \ {Root} : Parent(e) \in D,
           NEW d \in D, NEW q \in Path, IsPrefix(q, d), q # d
    PROVE  \E r \in D : r \in Inner /\ Parent(r) = q /\ IsPrefix(r, d)
<1> DEFINE R == {r \in D : IsPrefix(r, d) /\ IsPrefix(q, r) /\ q # r}
           T == {Len(r) : r \in R}
<1>1. d \in R
  BY PathOrder, Zenon
<1>2. T \in SUBSET Nat /\ T # {}
  <2>1. ASSUME NEW r \in R PROVE Len(r) \in Nat
    <3>1. PICK S : r \in Seq(S)
      BY PathAssumption, Zenon
    <3> QED
      BY <3>1
  <2> QED
    BY <1>1, <2>1
<1>3. PICK n \in T : \A m \in T : n <= m
  BY <1>2, LeastNat
<1>4. PICK r \in R : \A t \in R : Len(r) <= Len(t)
  BY <1>3
<1>5. r \in Inner
  BY RootIsAlone, Zenon DEF Inner
<1>6. Parent(r) \in D
  BY <1>5, Zenon DEF Inner
<1>7. IsPrefix(q, Parent(r)) /\ IsPrefix(Parent(r), d)
  <2>1. IsPrefix(q, Parent(r))
    BY <1>5, ParentOf, Zenon
  <2>2. IsPrefix(Parent(r), r)
    BY <1>5, ParentOf, PathOrder, Zenon
  <2> QED
    BY <1>6, <2>1, <2>2, PathOrder, Zenon
<1>8. ~(Len(r) <= Len(Parent(r)))
  <2>1. PICK S : r \in Seq(S)
    BY PathAssumption, Zenon
  <2>2. Len(r) \in Nat \ {0} /\ Len(Front(r)) = Len(r) - 1
    BY <1>5, <2>1, FrontByPosition, Zenon DEF Inner, Root
  <2> QED
    BY <2>2 DEF Parent
<1>9. Parent(r) = q
  BY <1>4, <1>6, <1>7, <1>8, Zenon
<1> QED
  BY <1>5, <1>9

LEMMA InitWalk == TreeInit => WalkInv
<1> SUFFICES ASSUME TreeInit PROVE WalkInv
  OBVIOUS
<1>1. TableGood(EmptyTable) /\ EmptyTable.known = {Root}
  BY EmptyTableIsGood, EmptyTableRows DEF TableGood, EmptyTable
<1>2. TreeTypes /\ RowsInv
  BY <1>1, PathAssumption DEF TreeInit, TreeTypes, RowsInv, FilesGood
<1>3. DirsGood
  BY <1>1, FS_Singleton DEF TreeInit, DirsGood
<1>4. Len(link) = 0 /\ Len(queue) = 0 /\ merging = {} /\ goal = {} /\ queue = <<>>
  BY DEF TreeInit
<1>5. ChunksGood /\ MergeInv /\ LinkInv /\ QueueInv
  BY <1>4 DEF ChunksGood, MergeInv, LinkInv, QueueInv
<1>6. GoalInv /\ IdleInv
  BY <1>4 DEF GoalInv, IdleInv
<1> QED
  BY <1>2, <1>3, <1>5, <1>6 DEF WalkInv

\* What each table operation does to the rows.
LEMMA MknodGrows ==
    ASSUME NEW t, TableGood(t), NEW p \in Inner
    PROVE  /\ TableGood(Mknod(t, p)) /\ t.known \subseteq Mknod(t, p).known
           /\ Parent(p) \in t.known => p \in Mknod(t, p).known
           /\ Mknod(t, p).known \subseteq t.known \cup {p}
           /\ t.on \subseteq Mknod(t, p).on /\ Mknod(t, p).on \subseteq t.on \cup {p}
           /\ t.linked \subseteq Mknod(t, p).linked
<1>1. p \in Path
  BY DEF Inner
<1>2. TableGood(Mknod(t, p)) /\ t.known \subseteq Mknod(t, p).known
      /\ (Parent(p) \in t.known => p \in Mknod(t, p).known)
  BY <1>1, MknodKeeps, MknodRows DEF TableGood
<1>3. CASE Parent(p) \notin t.known
  BY <1>2, <1>3 DEF Mknod
<1>4. CASE Parent(p) \in t.known
  <2>1. /\ Mknod(t, p).known = t.known \cup {p}
        /\ Mknod(t, p).linked = IF p \in t.known THEN t.linked ELSE t.linked \cup {p}
        /\ Mknod(t, p).on = IF p \in t.known THEN t.on ELSE t.on \cup {p}
    BY <1>4 DEF Mknod
  <2> QED
    BY <1>2, <2>1
<1> QED
  BY <1>3, <1>4

LEMMA UnlinkStays ==
    ASSUME NEW t, TableGood(t), NEW p \in Path, NEW u \in Unlink(t, p)
    PROVE  TableGood(u) /\ u.known = t.known /\ u.linked = t.linked
<1>1. TableGood(u) /\ u.known = t.known
  BY UnlinkKeeps, UnlinkRows DEF TableGood
<1>2. PICK hit \in Hit(t, p) : u = [t EXCEPT !.on = @ \ hit, !.versioned = @ \ hit]
  BY DEF Unlink
<1>3. u.linked = t.linked
  BY <1>2 DEF Table, TableGood
<1> QED
  BY <1>1, <1>3

LEMMA MergeGrows ==
    ASSUME NEW t, TableGood(t), NEW c \in Chunk, ChunkGood(c), c.dir \in t.known
    PROVE  LET u == Merge(t, c.dir, c.names)
           IN  TableGood(u) /\ u.known = t.known \cup c.names /\ u.on = t.on
<1> DEFINE u == Merge(t, c.dir, c.names)
<1>1. c.names \subseteq Path /\ \A p \in c.names : p \in Inner /\ Parent(p) = c.dir
  BY DEF Chunk, ChunkGood
<1>2. u \in Table
  BY <1>1, MergeKeeps DEF TableGood
<1>3. u = [t EXCEPT !.known = @ \cup c.names, !.linked = @ \cup (c.names \ t.known)]
  BY DEF Merge
<1> HIDE DEF u
<1>4. u.known = t.known \cup c.names /\ u.linked = t.linked \cup (c.names \ t.known) /\ u.on = t.on
  BY <1>3 DEF Table, TableGood
<1>5. RowsGood(u)
  BY <1>1, <1>4 DEF RowsGood, TableGood
<1> QED
  BY <1>2, <1>4, <1>5 DEF TableGood, u

\* Listings and rows survive when the receiver's rows and files only grow.
Grows == rTab.known \subseteq (rTab.known)' /\ rFiles \subseteq rFiles'

LEMMA BlockedStays == ASSUME Grows, NEW d, Blocked(d) PROVE Blocked(d)'
BY DEF Grows, Blocked

LEMMA ReachedStays == ASSUME Grows, NEW d, Reached(d) PROVE Reached(d)'
<1>1. CASE d \in rTab.known
  BY <1>1 DEF Grows, Reached
<1>2. CASE Blocked(d)
  BY <1>2, BlockedStays DEF Reached
<1> QED
  BY <1>1, <1>2 DEF Reached

\* Below a blocked directory everything is blocked.
LEMMA BlockedBelow ==
    ASSUME TreeTypes, RowsInv, NEW d \in Path, NEW p \in Path, IsPrefix(d, p), Blocked(d)
    PROVE  Blocked(p)
<1>1. PICK q \in rFiles : IsPrefix(q, d)
  BY DEF Blocked
<1>2. q \in Path
  BY DEF FilesGood, RowsInv, TableGood, Table
<1>3. IsPrefix(q, p)
  BY <1>1, <1>2, PathOrder, Zenon
<1> QED
  BY <1>1, <1>3 DEF Blocked

\* Steps that leave the listings alone.
LEMMA ChunksSame ==
    ASSUME WalkInv, Grows, UNCHANGED <<link, merging>>
    PROVE  ChunksGood' /\ MergeInv' /\ LinkInv'
<1>1. ChunksGood'
  BY DEF WalkInv, ChunksGood
<1>2. MergeInv'
  BY DEF WalkInv, MergeInv, Grows
<1>3. ASSUME NEW d \in Path, NEW i \in 1 .. Len(link), link[i].dir = d
      PROVE  Reached(d)' \/ Coming(d, i - 1)'
  <2>1. Reached(d) \/ Coming(d, i - 1)
    BY <1>3 DEF WalkInv, LinkInv
  <2>2. Coming(d, i - 1)' <=> Coming(d, i - 1)
    BY DEF Coming
  <2> QED
    BY <2>1, <2>2, ReachedStays
<1>4. LinkInv'
  BY <1>3 DEF LinkInv
<1> QED
  BY <1>1, <1>2, <1>4

LEMMA QueueSame ==
    ASSUME WalkInv, Grows, UNCHANGED <<link, merging>>, up' => up,
           queue' = queue \/ queue' = <<>>
    PROVE  QueueInv'
<1>1. CASE queue' = <<>>
  <2>1. Len(queue') = 0
    BY <1>1
  <2> QED
    BY <2>1 DEF QueueInv
<1>2. CASE queue' = queue
  <2>1. ASSUME NEW d \in Path, NEW i \in 1 .. Len(queue), queue[i] = d, up
        PROVE  Reached(d)' \/ Coming(d, Len(link))'
    <3>1. Reached(d) \/ Coming(d, Len(link))
      BY <2>1 DEF WalkInv, QueueInv
    <3>2. Coming(d, Len(link))' <=> Coming(d, Len(link))
      BY DEF Coming
    <3> QED
      BY <3>1, <3>2, ReachedStays
  <2> QED
    BY <1>2, <2>1 DEF QueueInv
<1> QED
  BY <1>1, <1>2

LEMMA ServedSame ==
    ASSUME WalkInv, Grows, UNCHANGED <<link, merging, queue>>, NEW p, Served(p)
    PROVE  Served(p)'
<1>1. Coming(p, Len(link))' <=> Coming(p, Len(link))
  BY DEF Coming
<1>2. Ahead(Parent(p))' <=> Ahead(Parent(p))
  BY DEF Ahead
<1>3. Blocked(Parent(p)) => Blocked(Parent(p))'
  BY BlockedStays
<1>4. p \in rTab.known => p \in (rTab.known)'
  BY DEF Grows
<1> QED
  BY <1>1, <1>2, <1>3, <1>4 DEF Served

LEMMA GrowsIfSame == ASSUME UNCHANGED <<rTab, rFiles>> PROVE Grows
BY DEF Grows

\* Users.
LEMMA MakeWalks ==
    ASSUME WalkInv, NEW p \in Made, NEW isDir \in BOOLEAN, Make(p, isDir)
    PROVE  WalkInv'
<1>1. Grows
  BY GrowsIfSame DEF Make, receiver
<1>2. p \in Inner /\ p \in Path
  BY TreeBounds DEF Inner
<1>3. UNCHANGED <<receiver, job, up, link, goal, walks, drops>>
  BY DEF Make
<1>4. UNCHANGED <<rTab, rDirs, rFiles, merging, walking, queue, up, link, goal>>
  BY <1>3 DEF receiver, job
<1>5. sTab' = Mknod(sTab, p) /\ Parent(p) \in sDirs /\ sDirs \subseteq sDirs' /\ sDirs' \subseteq sDirs \cup {p}
  BY DEF Make, Creatable
<1>6. /\ TableGood(sTab') /\ sTab.known \subseteq (sTab.known)' /\ p \in (sTab.known)'
      /\ (sTab.known)' \subseteq sTab.known \cup {p} /\ sTab.linked \subseteq (sTab.linked)'
  <2>1. TableGood(sTab) /\ Parent(p) \in sTab.known
    BY <1>5 DEF WalkInv, RowsInv, DirsGood
  <2> QED
    BY <1>2, <1>5, <2>1, MknodGrows
<1>7. TreeTypes'
  BY <1>2, <1>4, <1>5 DEF WalkInv, TreeTypes
<1>8. DirsGood'
  <2>1. IsFiniteSet(sTab.known \cup {p})
    BY FS_AddElement DEF WalkInv, DirsGood
  <2>2. IsFiniteSet((sTab.known)')
    BY <1>6, <2>1, FS_Subset
  <2> QED
    BY <1>5, <1>6, <2>2 DEF WalkInv, DirsGood
<1>9. RowsInv'
  BY <1>4, <1>6 DEF WalkInv, RowsInv, FilesGood
<1>10. GoalInv'
  BY <1>1, <1>4, <1>5, <1>6, ServedSame DEF WalkInv, GoalInv
<1>11. IdleInv'
  BY <1>4 DEF WalkInv, IdleInv
<1> QED
  BY <1>1, <1>4, <1>7, <1>8, <1>9, <1>10, <1>11, ChunksSame, QueueSame DEF WalkInv

LEMMA MakeThereWalks ==
    ASSUME WalkInv, NEW p \in Made, NEW isDir \in BOOLEAN, MakeThere(p, isDir)
    PROVE  WalkInv'
<1>1. UNCHANGED <<sTab, sDirs, merging, walking, queue, up, link, goal>>
  BY DEF MakeThere, sender, job
<1>2. p \in Inner /\ p \in Path
  BY TreeBounds DEF Inner
<1>3. /\ rTab' = Mknod(rTab, p) /\ Parent(p) \in rDirs
      /\ rDirs \subseteq rDirs' /\ rDirs' \subseteq rDirs \cup {p}
      /\ rFiles \subseteq rFiles' /\ rFiles' \subseteq rFiles \cup {p}
  BY DEF MakeThere, Creatable
<1>4. /\ TableGood(rTab') /\ rTab.known \subseteq (rTab.known)' /\ p \in (rTab.known)'
  <2>1. Parent(p) \in rTab.known
    BY <1>3 DEF WalkInv, RowsInv, FilesGood
  <2> QED
    BY <1>2, <1>3, <2>1, MknodGrows DEF WalkInv, RowsInv
<1>5. Grows
  BY <1>3, <1>4 DEF Grows
<1>6. TreeTypes'
  BY <1>1, <1>2, <1>3 DEF WalkInv, TreeTypes
<1>7. DirsGood'
  BY <1>1 DEF WalkInv, DirsGood
<1>8. RowsInv'
  BY <1>1, <1>3, <1>4 DEF WalkInv, RowsInv, FilesGood
<1>9. GoalInv'
  BY <1>1, <1>5, ServedSame DEF WalkInv, GoalInv
<1>10. IdleInv'
  BY <1>1 DEF WalkInv, IdleInv
<1> QED
  BY <1>1, <1>5, <1>6, <1>7, <1>8, <1>9, <1>10, ChunksSame, QueueSame DEF WalkInv

LEMMA RemoveDirWalks ==
    ASSUME WalkInv, NEW p \in Made, RemoveDir(p)
    PROVE  WalkInv'
<1>1. UNCHANGED <<rTab, rDirs, rFiles, merging, walking, queue, up, link>>
  BY DEF RemoveDir, receiver, job
<1>2. p \in Inner /\ p \in Path
  BY TreeBounds DEF Inner
<1>3. sTab' \in Unlink(sTab, p) /\ sDirs' = sDirs \ Below(p) /\ goal' = goal \ (Below(p) \ {p})
  BY DEF RemoveDir
<1>4. TableGood(sTab') /\ (sTab.known)' = sTab.known /\ (sTab.linked)' = sTab.linked
  BY <1>2, <1>3, UnlinkStays DEF WalkInv, RowsInv
<1>5. Grows
  BY <1>1, GrowsIfSame
<1>6. TreeTypes'
  BY <1>1, <1>3 DEF WalkInv, TreeTypes
<1>7. \A d \in Path \ {Root} : Parent(d) \in Below(p) => d \in Below(p) \ {p}
  <2>1. ASSUME NEW d \in Inner, Parent(d) \in Below(p) PROVE d \in Below(p) \ {p}
    <3>1. IsPrefix(p, Parent(d))
      BY <2>1 DEF Below
    <3>2. d \in Path /\ IsPrefix(p, d) /\ p # d
      BY <1>2, <3>1, ParentOf, Zenon
    <3> QED
      BY <3>2 DEF Below
  <2> QED
    BY <2>1 DEF Inner
<1>8. DirsGood'
  <2>1. Root \notin Below(p)
    BY <1>2, RootIsAlone DEF Below, Inner
  <2> QED
    BY <1>3, <1>4, <1>7, <2>1 DEF WalkInv, TreeTypes, DirsGood
<1>9. RowsInv'
  BY <1>1, <1>4 DEF WalkInv, RowsInv, FilesGood
<1>10. GoalInv'
  <2>1. ASSUME NEW g \in goal'
        PROVE  g \in Inner /\ Parent(g) \in sDirs' /\ g \in (sTab.linked)' /\ Served(g)'
    <3>1. g \in goal /\ g \notin Below(p) \ {p}
      BY <1>3, <2>1
    <3>2. g \in Inner /\ Parent(g) \in sDirs /\ g \in sTab.linked /\ Served(g)
      BY <3>1 DEF WalkInv, GoalInv
    <3>3. Parent(g) \notin Below(p)
      BY <1>7, <3>1, <3>2 DEF Inner
    <3> QED
      BY <1>1, <1>3, <1>4, <1>5, <3>2, <3>3, ServedSame
  <2> QED
    BY <2>1 DEF GoalInv
<1>11. IdleInv'
  BY <1>1, <1>3 DEF WalkInv, IdleInv
<1> QED
  BY <1>1, <1>5, <1>6, <1>8, <1>9, <1>10, <1>11, ChunksSame, QueueSame DEF WalkInv

\* The walk begins and ends, connections come and go.
LEMMA StartWalkWalks == ASSUME WalkInv, StartWalk PROVE WalkInv'
<1>1. /\ UNCHANGED <<sTab, sDirs, rTab, rDirs, rFiles, merging, up, link>>
      /\ walking' = TRUE /\ queue' = <<Root>>
      /\ goal' = {p \in sTab.linked : Parent(p) \in sDirs /\ p # Root}
  BY DEF StartWalk, sender, receiver
<1>2. up
  BY DEF StartWalk
<1>3. Grows
  BY <1>1, GrowsIfSame
<1>4. queue' \in Seq({Root}) /\ Len(queue') = 1 /\ queue'[1] = Root
  BY <1>1
<1>5. Root \in Path /\ goal' \subseteq Path
  BY <1>1, PathAssumption DEF WalkInv, RowsInv, TableGood, Table
<1>6. TreeTypes'
  <2>1. queue' \in Seq(Path)
    BY <1>4, <1>5
  <2> QED
    BY <1>1, <1>5, <2>1 DEF WalkInv, TreeTypes
<1>7. DirsGood' /\ RowsInv'
  BY <1>1 DEF WalkInv, DirsGood, RowsInv, FilesGood
<1>8. QueueInv'
  <2>1. ASSUME NEW d, d = Root PROVE Reached(d)'
    BY <1>1, <2>1 DEF WalkInv, RowsInv, TableGood, RowsGood, Reached
  <2>2. \A i \in 1 .. 1 : i = 1
    OBVIOUS
  <2> QED
    BY <1>4, <2>1, <2>2 DEF QueueInv
<1>9. GoalInv'
  <2>1. ASSUME NEW p \in goal'
        PROVE  p \in Inner /\ Parent(p) \in sDirs' /\ p \in (sTab.linked)' /\ Served(p)'
    <3>1. p \in Inner /\ Parent(p) \in sDirs' /\ p \in (sTab.linked)'
      BY <1>1, <1>5, <2>1 DEF Inner
    <3>2. IsPrefix(Root, Parent(p))
      <4>1. PICK S : Parent(p) \in Seq(S) /\ Root \in Seq(S)
        BY <3>1, ParentOf, PathsAreNames, Zenon
      <4>2. Len(Root) = 0 /\ Len(Parent(p)) \in Nat
        BY <4>1 DEF Root
      <4>3. Len(Root) <= Len(Parent(p)) /\ \A i \in 1 .. Len(Root) : Root[i] = Parent(p)[i]
        BY <4>2
      <4> QED
        BY <4>1, <4>3, PrefixByPosition
    <3>3. 1 \in 1 .. Len(queue')
      BY <1>4
    <3>4. Ahead(Parent(p))'
      BY <1>4, <3>2, <3>3 DEF Ahead
    <3> QED
      BY <3>1, <3>4 DEF Served
  <2> QED
    BY <2>1 DEF GoalInv
<1>10. IdleInv'
  BY <1>1, <1>2 DEF IdleInv
<1> QED
  BY <1>1, <1>3, <1>6, <1>7, <1>8, <1>9, <1>10, ChunksSame DEF WalkInv

LEMMA WalkEndWalks == ASSUME WalkInv, WalkEnd PROVE WalkInv'
<1>1. /\ UNCHANGED <<sTab, sDirs, rTab, rDirs, rFiles, merging, up, link, queue, goal>>
      /\ queue = <<>>
  BY DEF WalkEnd, sender, receiver
<1>2. Grows
  BY <1>1, GrowsIfSame
<1>3. TreeTypes' /\ DirsGood' /\ RowsInv'
  BY <1>1 DEF WalkInv, TreeTypes, DirsGood, RowsInv, FilesGood
<1>4. GoalInv'
  BY <1>1, <1>2, ServedSame DEF WalkInv, GoalInv
<1>5. IdleInv'
  BY <1>1 DEF WalkInv, IdleInv
<1> QED
  BY <1>1, <1>2, <1>3, <1>4, <1>5, ChunksSame, QueueSame DEF WalkInv

LEMMA ReconnectWalks ==
    ASSUME "reconnectDuringWalk" \notin TreeEnv, WalkInv, Reconnect
    PROVE  WalkInv'
<1>1. UNCHANGED <<sTab, sDirs, rTab, rDirs, rFiles, merging, link, walking, queue, goal>>
  BY DEF Reconnect, sender, receiver, job
<1>2. ~walking /\ ~up /\ queue = <<>> /\ goal = {}
  BY DEF Reconnect, WalkInv, IdleInv
<1>3. Grows
  BY <1>1, GrowsIfSame
<1>4. TreeTypes' /\ DirsGood' /\ RowsInv'
  BY <1>1 DEF WalkInv, TreeTypes, DirsGood, RowsInv, FilesGood
<1>5. QueueInv'
  <2>1. Len(queue') = 0
    BY <1>1, <1>2
  <2> QED
    BY <2>1 DEF QueueInv
<1>6. GoalInv' /\ IdleInv'
  BY <1>1, <1>2 DEF GoalInv, IdleInv
<1> QED
  BY <1>1, <1>3, <1>4, <1>5, <1>6, ChunksSame DEF WalkInv

LEMMA DropWalks == ASSUME WalkInv, Drop PROVE WalkInv'
<1>1. /\ UNCHANGED <<sTab, sDirs, rTab, rDirs, rFiles, merging, walking, queue>>
      /\ ~up' /\ goal' = {}
  BY DEF Drop, sender, receiver, job
<1>2. PICK n \in 0 .. Len(link) : link' = SubSeq(link, 1, n)
  BY DEF Drop
<1>3. Grows
  BY <1>1, GrowsIfSame
<1>4. /\ link' \in Seq(Chunk) /\ Len(link') = n /\ n \in Nat
      /\ \A i \in 1 .. n : link'[i] = link[i] /\ i \in 1 .. Len(link) /\ \A j \in 1 .. i - 1 : j \in 1 .. n
  BY <1>2 DEF WalkInv, TreeTypes
<1>5. TreeTypes' /\ DirsGood' /\ RowsInv'
  BY <1>1, <1>4 DEF WalkInv, TreeTypes, DirsGood, RowsInv, FilesGood
<1>6. ChunksGood'
  BY <1>1, <1>4 DEF WalkInv, ChunksGood
<1>7. MergeInv'
  BY <1>1 DEF WalkInv, MergeInv
<1>8. LinkInv'
  <2>1. ASSUME NEW d \in Path, NEW i \in 1 .. n, link[i].dir = d
        PROVE  Reached(d)' \/ Coming(d, i - 1)'
    <3>1. Reached(d) \/ Coming(d, i - 1)
      BY <1>4, <2>1 DEF WalkInv, LinkInv
    <3>2. Coming(d, i - 1) => Coming(d, i - 1)'
      BY <1>1, <1>4 DEF Coming
    <3> QED
      BY <1>3, <3>1, <3>2, ReachedStays
  <2> QED
    BY <1>4, <2>1 DEF LinkInv
<1>9. QueueInv' /\ GoalInv' /\ IdleInv'
  BY <1>1 DEF QueueInv, GoalInv, IdleInv, WalkInv
<1> QED
  BY <1>5, <1>6, <1>7, <1>8, <1>9 DEF WalkInv

\* The receiver merges a listing.
LEMMA MergeChunkWalks == ASSUME WalkInv, MergeChunk PROVE WalkInv'
<1>1. /\ UNCHANGED <<sTab, sDirs, rDirs, rFiles, walking, queue, up, link, goal>>
      /\ merging' = {}
  BY DEF MergeChunk, sender, job
<1>2. PICK c \in merging : rTab' = Merge(rTab, c.dir, c.names)
  BY DEF MergeChunk
<1>3. c \in Chunk /\ ChunkGood(c) /\ c.dir \in rTab.known /\ \A b \in merging : b = c
  BY DEF WalkInv, TreeTypes, ChunksGood, MergeInv
<1>4. TableGood(rTab') /\ (rTab.known)' = rTab.known \cup c.names /\ (rTab.on)' = rTab.on
  BY <1>2, <1>3, MergeGrows DEF WalkInv, RowsInv
<1>5. Grows
  BY <1>1, <1>4 DEF Grows
<1>6. ASSUME NEW p, NEW n, Coming(p, n) PROVE p \in (rTab.known)' \/ Coming(p, n)'
  BY <1>1, <1>3, <1>4, <1>6 DEF Coming
<1>7. TreeTypes' /\ DirsGood'
  BY <1>1 DEF WalkInv, TreeTypes, DirsGood
<1>8. RowsInv'
  BY <1>1, <1>4 DEF WalkInv, RowsInv, FilesGood
<1>9. ChunksGood' /\ MergeInv'
  BY <1>1 DEF WalkInv, ChunksGood, MergeInv
<1>10. LinkInv'
  <2>1. ASSUME NEW d \in Path, NEW i \in 1 .. Len(link), link[i].dir = d
        PROVE  Reached(d)' \/ Coming(d, i - 1)'
    <3>1. Reached(d) \/ Coming(d, i - 1)
      BY <2>1 DEF WalkInv, LinkInv
    <3> QED
      BY <1>5, <1>6, <3>1, ReachedStays DEF Reached
  <2> QED
    BY <1>1, <2>1 DEF LinkInv
<1>11. QueueInv'
  <2>1. ASSUME NEW d \in Path, NEW i \in 1 .. Len(queue), queue[i] = d, up
        PROVE  Reached(d)' \/ Coming(d, Len(link))'
    <3>1. Reached(d) \/ Coming(d, Len(link))
      BY <2>1 DEF WalkInv, QueueInv
    <3> QED
      BY <1>1, <1>5, <1>6, <3>1, ReachedStays DEF Reached
  <2> QED
    BY <1>1, <2>1 DEF QueueInv
<1>12. GoalInv'
  <2>1. ASSUME NEW p, Served(p) PROVE Served(p)'
    <3>1. Ahead(Parent(p))' <=> Ahead(Parent(p))
      BY <1>1 DEF Ahead
    <3>2. Blocked(Parent(p)) => Blocked(Parent(p))'
      BY <1>5, BlockedStays
    <3>3. Coming(p, Len(link)) => p \in (rTab.known)' \/ Coming(p, Len(link))'
      BY <1>1, <1>6
    <3> QED
      BY <1>4, <2>1, <3>1, <3>2, <3>3 DEF Served
  <2> QED
    BY <1>1, <2>1 DEF WalkInv, GoalInv
<1>13. IdleInv'
  BY <1>1 DEF WalkInv, IdleInv
<1> QED
  BY <1>7, <1>8, <1>9, <1>10, <1>11, <1>12, <1>13 DEF WalkInv

\* The receiver creates the directory of a listing, or loses the listing.
LEMMA HandleChunkWalks == ASSUME WalkInv, HandleChunk PROVE WalkInv'
<1> DEFINE c == Head(link)
           d == c.dir
<1>1. /\ UNCHANGED <<sTab, sDirs, rTab, rFiles, walking, queue, up, goal>>
      /\ link # <<>> /\ merging = {} /\ link' = Tail(link)
      /\ rDirs' = IF Blocked(d) THEN rDirs ELSE rDirs \cup WithParents(d)
      /\ merging' = IF Blocked(d) /\ d \notin rFiles THEN {} ELSE {c}
  BY DEF HandleChunk, sender, job
<1>2. /\ c \in Chunk /\ c = link[1] /\ 1 \in 1 .. Len(link)
      /\ link' \in Seq(Chunk) /\ Len(link) \in Nat /\ Len(link') = Len(link) - 1
      /\ \A i \in 1 .. Len(link) - 1 : link'[i] = link[i + 1]
  BY <1>1 DEF WalkInv, TreeTypes
<1> PICK size \in Nat \ {0} : size = Len(link)
  BY <1>2
<1>3. d \in Path /\ ChunkGood(c)
  BY <1>2 DEF WalkInv, ChunksGood, Chunk
<1> HIDE DEF c
<1>4. rDirs' \subseteq Path /\ rDirs' \subseteq rTab.known
  <2>1. WithParents(d) \subseteq Path
    BY DEF WithParents
  <2>2. CASE Blocked(d)
    BY <1>1, <2>2 DEF WalkInv, TreeTypes, RowsInv, FilesGood
  <2>3. CASE ~Blocked(d)
    <3>1. Reached(d) \/ Coming(d, 1 - 1)
      BY <1>2, <1>3 DEF WalkInv, LinkInv
    <3>2. d \in rTab.known
      BY <1>1, <2>3, <3>1 DEF Reached, Coming
    <3>3. ASSUME NEW q \in Path, IsPrefix(q, d) PROVE q \in rTab.known
      <4>1. /\ rTab.known \in SUBSET Path
            /\ \A e \in rTab.known \ {Root} : Parent(e) \in rTab.known
        BY DEF WalkInv, RowsInv, TableGood, RowsGood, Table
      <4>2. q = d \/ \E r \in rTab.known : r \in Inner /\ Parent(r) = q
        BY <3>2, <3>3, <4>1, NextBelow
      <4> QED
        BY <3>2, <4>1, <4>2 DEF Inner
    <3> QED
      BY <1>1, <2>1, <2>3, <3>3 DEF WithParents, WalkInv, TreeTypes, RowsInv, FilesGood
  <2> QED
    BY <2>2, <2>3
<1>5. Grows
  BY <1>1 DEF Grows
<1>6. TreeTypes' /\ DirsGood' /\ RowsInv'
  BY <1>1, <1>2, <1>4 DEF WalkInv, TreeTypes, DirsGood, RowsInv, FilesGood
<1>7. ChunksGood'
  <2>1. \A b \in merging' : ChunkGood(b)
    BY <1>1, <1>3
  <2>2. \A i \in 1 .. Len(link') : ChunkGood(link'[i])
    <3>1. \A i \in 1 .. Len(link) - 1 : i + 1 \in 1 .. Len(link)
      BY <1>2
    <3> QED
      BY <1>2, <3>1 DEF WalkInv, ChunksGood
  <2> QED
    BY <2>1, <2>2 DEF ChunksGood, ChunkGood
\* What was on its way still is, or is blocked.
<1>8. ASSUME NEW p \in Path, NEW n \in 0 .. size, Coming(p, n)
      PROVE  (n # 0 /\ Coming(p, n - 1)') \/ (p \in Inner /\ Blocked(Parent(p))')
  <2>1. PICK j \in 1 .. n : p \in link[j].names
    BY <1>1, <1>8 DEF Coming
  <2>2. n # 0 /\ n \in Nat
    BY <1>2, <2>1
  <2>3. CASE j # 1
    <3>1. j - 1 \in 1 .. n - 1 /\ j - 1 \in 1 .. Len(link) - 1 /\ (j - 1) + 1 = j
      BY <1>2, <2>1, <2>2, <2>3
    <3>2. link'[j - 1] = link[j]
      BY <1>2, <3>1
    <3> QED
      BY <2>1, <2>2, <3>1, <3>2 DEF Coming
  <2>4. CASE j = 1 /\ merging' = {c}
    BY <1>2, <2>1, <2>2, <2>4 DEF Coming
  <2>5. CASE j = 1 /\ merging' # {c}
    <3>1. Blocked(d) /\ p \in Inner /\ Parent(p) = d
      BY <1>1, <1>2, <1>3, <2>1, <2>5 DEF ChunkGood
    <3>2. \E q \in rFiles' : IsPrefix(q, Parent(p))
      BY <1>1, <3>1 DEF Blocked
    <3> QED
      BY <3>1, <3>2 DEF Blocked
  <2> QED
    BY <2>3, <2>4, <2>5, Zenon
<1>9. ASSUME NEW p \in Inner, Blocked(Parent(p))' PROVE Blocked(p)'
  <2>1. Parent(p) \in Path /\ p \in Path
    BY ParentOf, Zenon DEF Inner
  <2> IsPrefix(Parent(p), p)
    BY <2>1, ParentOf, PathOrder, Zenon
  <2>2. PICK q \in rFiles' : IsPrefix(q, Parent(p))
    BY <1>9 DEF Blocked
  <2>3. q \in Path
    BY <1>6, <2>2 DEF FilesGood, RowsInv, TableGood, Table
  <2>4. IsPrefix(q, p)
    BY <2>1, <2>2, <2>3, PathOrder, Zenon
  <2> QED
    BY <2>2, <2>4 DEF Blocked
<1>15. ASSUME NEW p PROVE Coming(p, Len(link))' <=> Coming(p, size - 1)'
  <2>1. Len(link') = size - 1
    BY <1>2
  <2> QED
    BY <2>1 DEF Coming
<1>10. MergeInv'
  <2>1. Reached(d) \/ Coming(d, 1 - 1)
    BY <1>2, <1>3 DEF WalkInv, LinkInv
  <2>2. ~Coming(d, 1 - 1)
    BY <1>1 DEF Coming
  <2>3. rFiles \subseteq rTab.known
    BY DEF WalkInv, RowsInv, FilesGood
  <2>4. merging' = {} \/ (merging' = {c} /\ d \in rTab.known)
    BY <1>1, <2>1, <2>2, <2>3 DEF Reached
  <2> QED
    BY <1>1, <2>4 DEF MergeInv
<1>11. LinkInv'
  <2>1. ASSUME NEW e \in Path, NEW i \in 1 .. Len(link'), link'[i].dir = e
        PROVE  Reached(e)' \/ Coming(e, i - 1)'
    <3>1. i + 1 \in 1 .. Len(link) /\ link[i + 1].dir = e /\ (i + 1) - 1 = i /\ i \in 0 .. size
      <4>1. i \in 1 .. size - 1 /\ i \in 1 .. Len(link) - 1
        BY <1>2
      <4>2. link'[i] = link[i + 1]
        BY <1>2, <4>1
      <4>3. i + 1 \in 1 .. size /\ (i + 1) - 1 = i /\ i \in 0 .. size
        BY <4>1
      <4> QED
        BY <2>1, <4>2, <4>3
    <3>2. Reached(e) \/ Coming(e, i)
      BY <3>1 DEF WalkInv, LinkInv
    <3>3. CASE Reached(e)
      BY <1>5, <3>3, ReachedStays
    <3>4. CASE Coming(e, i)
      <4>1. Coming(e, i - 1)' \/ (e \in Inner /\ Blocked(Parent(e))')
        BY <1>8, <3>1, <3>4
      <4> QED
        BY <1>9, <4>1 DEF Reached
    <3> QED
      BY <3>2, <3>3, <3>4
  <2> QED
    BY <2>1 DEF LinkInv
<1>12. QueueInv'
  <2>1. ASSUME NEW e \in Path, NEW i \in 1 .. Len(queue), queue[i] = e, up
        PROVE  Reached(e)' \/ Coming(e, size - 1)'
    <3>1. Reached(e) \/ Coming(e, Len(link))
      BY <2>1 DEF WalkInv, QueueInv
    <3>2. CASE Reached(e)
      BY <1>5, <3>2, ReachedStays
    <3>3. CASE Coming(e, Len(link))
      <4>1. size \in 0 .. size
        OBVIOUS
      <4>2. Coming(e, size - 1)' \/ (e \in Inner /\ Blocked(Parent(e))')
        BY <1>8, <3>3, <4>1
      <4> QED
        BY <1>9, <4>2 DEF Reached
    <3> QED
      BY <3>1, <3>2, <3>3
  <2> QED
    BY <1>1, <1>15, <2>1 DEF QueueInv
<1>13. GoalInv'
  <2>1. ASSUME NEW p \in Inner, Served(p) PROVE Served(p)'
    <3>1. Ahead(Parent(p))' <=> Ahead(Parent(p))
      BY <1>1 DEF Ahead
    <3>2. Blocked(Parent(p)) => Blocked(Parent(p))'
      BY <1>5, BlockedStays
    <3>3. Coming(p, size) => Coming(p, size - 1)' \/ Blocked(Parent(p))'
      BY <1>8 DEF Inner
    <3> QED
      BY <1>1, <1>15, <2>1, <3>1, <3>2, <3>3 DEF Served
  <2> QED
    BY <1>1, <2>1 DEF WalkInv, GoalInv
<1>14. IdleInv'
  BY <1>1 DEF WalkInv, IdleInv
<1> QED
  BY <1>6, <1>7, <1>10, <1>11, <1>12, <1>13, <1>14 DEF WalkInv

\* The places of a list that goes behind all but the first of another.
LEMMA PlaceBehind ==
    ASSUME NEW k \in Nat, 1 \in 1 .. k, NEW l \in Nat, NEW n \in 1 .. l
    PROVE  k - 1 + n \in 1 .. k - 1 + l
OBVIOUS

\* The walk lists the next directory; without a connection it ends.
LEMMA WalkStepWalks == ASSUME WalkInv, WalkStep PROVE WalkInv'
<1> DEFINE d == Head(queue)
           names == Sent(d)
           c == [dir |-> d, names |-> names]
           more == SetToSeq(names \cap sDirs)
<1>1. /\ UNCHANGED <<sTab, sDirs, rTab, rDirs, rFiles, merging, up, goal>>
      /\ walking /\ queue # <<>>
      /\ up => /\ link' = Append(link, c)
               /\ queue' = Tail(queue) \o more
               /\ UNCHANGED walking
      /\ ~up => walking' = FALSE /\ queue' = <<>> /\ UNCHANGED link
  BY DEF WalkStep, sender, receiver, SendTo, Visit
<1>2. Grows
  BY <1>1, GrowsIfSame
<1>3. DirsGood' /\ RowsInv' /\ MergeInv'
  BY <1>1 DEF WalkInv, DirsGood, RowsInv, FilesGood, MergeInv
<1>4. IdleInv'
  BY <1>1 DEF WalkInv, IdleInv
<1>5. CASE ~up
  <2>1. TreeTypes'
    BY <1>1, <1>5 DEF WalkInv, TreeTypes
  <2>2. GoalInv'
    BY <1>1, <1>5 DEF WalkInv, IdleInv, GoalInv
  <2> QED
    BY <1>1, <1>2, <1>3, <1>4, <1>5, <2>1, <2>2, ChunksSame, QueueSame DEF WalkInv
<1>6. CASE up
  <2>1. /\ d \in Path /\ Tail(queue) \in Seq(Path) /\ d = queue[1] /\ 1 \in 1 .. Len(queue)
        /\ Len(Tail(queue)) = Len(queue) - 1 /\ Len(queue) \in Nat
        /\ \A i \in 1 .. Len(queue) - 1 : Tail(queue)[i] = queue[i + 1] /\ i + 1 \in 1 .. Len(queue)
    BY <1>1 DEF WalkInv, TreeTypes
  <2>2. names \subseteq Path /\ \A p \in names : p \in Inner /\ Parent(p) = d
    BY DEF Sent, Listing, Children, Inner
  <2>3. \A p \in Inner : d \in sDirs /\ Parent(p) = d /\ p \in sTab.linked => p \in names
    BY DEF Sent, Listing, Children, WalkInv, DirsGood
  <2>4. IsFiniteSet(names \cap sDirs) /\ names \cap sDirs \in SUBSET Path
    <3>1. names \cap sDirs \in SUBSET sTab.known
      BY DEF WalkInv, DirsGood
    <3> QED
      BY <2>2, <3>1, FS_Subset DEF WalkInv, DirsGood
  <2>5. /\ more \in Seq(Path)
        /\ \A i \in 1 .. Len(more) : more[i] \in names \cap sDirs
        /\ \A x \in names \cap sDirs : \E i \in 1 .. Len(more) : more[i] = x
    BY <2>4, ListOfSet
  <2>6. c \in Chunk /\ ChunkGood(c) /\ c.dir = d /\ c.names = names
    BY <2>1, <2>2 DEF Chunk, ChunkGood
  <2> HIDE DEF c, d, names, more
  <2> PICK size \in Nat : size = Len(link)
    BY DEF WalkInv, TreeTypes
  <2>7. /\ link' \in Seq(Chunk) /\ Len(link') = size + 1
        /\ link'[size + 1] = c /\ \A i \in 1 .. size : link'[i] = link[i]
    <3>1. link \in Seq(Chunk) /\ link' = Append(link, c)
      BY <1>1, <1>6 DEF WalkInv, TreeTypes
    <3> QED
      BY <2>6, <3>1, AppendProperties
  <2>8. /\ queue' \in Seq(Path) /\ Len(queue') = Len(queue) - 1 + Len(more)
        /\ \A i \in 1 .. Len(queue) - 1 : queue'[i] = queue[i + 1] /\ i + 1 \in 1 .. Len(queue)
        /\ \A i \in 1 .. Len(more) : queue'[Len(queue) - 1 + i] = more[i]
    <3> DEFINE t == Tail(queue)
    <3>1. t \in Seq(Path) /\ queue' = t \o more
      BY <1>1, <1>6, <2>1
    <3> HIDE DEF t
    <3>2. /\ t \o more \in Seq(Path) /\ Len(t \o more) = Len(t) + Len(more)
          /\ \A i \in 1 .. Len(t) : (t \o more)[i] = t[i]
          /\ \A j \in 1 .. Len(more) : (t \o more)[Len(t) + j] = more[j]
      BY <2>5, <3>1, Joined
    <3>3. queue' \in Seq(Path) /\ Len(queue') = Len(queue) - 1 + Len(more)
      BY <2>1, <3>1, <3>2 DEF t
    <3>4. \A i \in 1 .. Len(queue) - 1 : queue'[i] = queue[i + 1] /\ i + 1 \in 1 .. Len(queue)
      BY <2>1, <3>1, <3>2 DEF t
    <3>5. \A i \in 1 .. Len(more) : queue'[Len(queue) - 1 + i] = more[i]
      BY <2>1, <3>1, <3>2 DEF t
    <3> QED
      BY <3>3, <3>4, <3>5
  <2>9. TreeTypes'
    BY <1>1, <2>7, <2>8 DEF WalkInv, TreeTypes
  <2>10. Len(more) \in Nat /\ \A i \in 1 .. Len(queue') :
            \/ \E j \in 1 .. Len(queue) : queue'[i] = queue[j]
            \/ queue'[i] \in names
    <3>1. Len(more) \in Nat
      BY <2>5
    <3>2. ASSUME NEW i \in 1 .. Len(queue'), ~(i <= Len(queue) - 1) PROVE queue'[i] \in names
      <4>1. i - (Len(queue) - 1) \in 1 .. Len(more)
        BY <2>1, <2>8, <3>1, <3>2
      <4>2. Len(queue) - 1 + (i - (Len(queue) - 1)) = i
        BY <2>1, <2>8, <3>1, <3>2
      <4>3. PICK k \in 1 .. Len(more) : Len(queue) - 1 + k = i
        BY <4>1, <4>2, Zenon
      <4>4. queue'[Len(queue) - 1 + k] = more[k]
        BY <2>8, Zenon
      <4>5. more[k] \in names
        BY <2>5
      <4> QED
        BY <4>3, <4>4, <4>5, Zenon
    <3>3. ASSUME NEW i \in 1 .. Len(queue'), i <= Len(queue) - 1
          PROVE  \E j \in 1 .. Len(queue) : queue'[i] = queue[j]
      BY <2>1, <2>8, <3>1, <3>3
    <3> QED
      BY <3>1, <3>2, <3>3
  \* Nothing is lost from the list of what is on its way.
  <2>11. ASSUME NEW p, NEW n \in 0 .. size, Coming(p, n) PROVE Coming(p, n)' /\ Coming(p, size + 1)'
    <3>1. \A j \in 1 .. n : j \in 1 .. size /\ j \in 1 .. size + 1
      OBVIOUS
    <3> QED
      BY <1>1, <2>7, <2>11, <3>1 DEF Coming
  <2>12. ASSUME NEW p \in names PROVE Coming(p, size + 1)'
    <3>1. size + 1 \in 1 .. size + 1
      OBVIOUS
    <3> QED
      BY <2>6, <2>7, <2>12, <3>1 DEF Coming
  <2>13. ASSUME NEW p PROVE Coming(p, Len(link))' <=> Coming(p, size + 1)'
    BY <2>7 DEF Coming
  <2>14. ChunksGood'
    <3>1. ASSUME NEW i \in 1 .. size + 1 PROVE i \in 1 .. size \/ i = size + 1
      OBVIOUS
    <3> QED
      BY <1>1, <2>6, <2>7, <3>1 DEF WalkInv, ChunksGood, ChunkGood
  <2>15. LinkInv'
    <3>1. ASSUME NEW e \in Path, NEW i \in 1 .. size + 1, link'[i].dir = e
          PROVE  Reached(e)' \/ Coming(e, i - 1)'
      <4>1. CASE i = size + 1
        <5>1. e = queue[1] /\ i - 1 = size
          BY <2>1, <2>6, <2>7, <3>1, <4>1
        <5>2. Reached(e) \/ Coming(e, Len(link))
          BY <1>6, <2>1, <5>1 DEF WalkInv, QueueInv
        <5>3. size \in 0 .. size
          OBVIOUS
        <5> QED
          BY <1>2, <2>11, <5>1, <5>2, <5>3, ReachedStays
      <4>2. CASE i # size + 1
        <5>1. i \in 1 .. size /\ i - 1 \in 0 .. size /\ link[i].dir = e
          BY <2>7, <3>1, <4>2
        <5>2. Reached(e) \/ Coming(e, i - 1)
          BY <5>1 DEF WalkInv, LinkInv
        <5> QED
          BY <1>2, <2>11, <5>1, <5>2, ReachedStays
      <4> QED
        BY <4>1, <4>2
    <3> QED
      BY <2>7, <3>1 DEF LinkInv
  <2>16. QueueInv'
    <3>1. ASSUME NEW e \in Path, NEW i \in 1 .. Len(queue'), queue'[i] = e
          PROVE  Reached(e)' \/ Coming(e, size + 1)'
      <4>1. CASE e \in names
        BY <2>12, <4>1
      <4>2. CASE e \notin names
        <5>1. PICK j \in 1 .. Len(queue) : queue[j] = e
          BY <2>10, <3>1, <4>2
        <5>2. Reached(e) \/ Coming(e, Len(link))
          BY <1>6, <5>1 DEF WalkInv, QueueInv
        <5>3. size \in 0 .. size
          OBVIOUS
        <5> QED
          BY <1>2, <2>11, <5>2, <5>3, ReachedStays
      <4> QED
        BY <4>1, <4>2
    <3> QED
      BY <2>13, <3>1 DEF QueueInv
  <2>17. GoalInv'
    <3>1. ASSUME NEW p \in Inner, Parent(p) \in sDirs, p \in sTab.linked, Served(p)
          PROVE  Served(p)'
      <4>1. CASE p \in rTab.known
        BY <1>1, <4>1 DEF Served
      <4>2. CASE Blocked(Parent(p))
        BY <1>2, <4>2, BlockedStays DEF Served
      <4>3. CASE Coming(p, Len(link))
        <5>1. size \in 0 .. size
          OBVIOUS
        <5> QED
          BY <2>11, <2>13, <4>3, <5>1 DEF Served
      <4>4. CASE Ahead(Parent(p))
        <5>1. PICK j \in 1 .. Len(queue) : IsPrefix(queue[j], Parent(p))
          BY <4>4 DEF Ahead
        <5>2. CASE j # 1
          <6>1. j - 1 \in 1 .. Len(queue) - 1 /\ (j - 1) + 1 = j
            BY <2>1, <5>2
          <6>2. queue'[j - 1] = queue[j]
            BY <2>8, <6>1
          <6>3. j - 1 \in 1 .. Len(queue')
            BY <2>1, <2>8, <2>10, <6>1
          <6> QED
            BY <5>1, <6>2, <6>3 DEF Ahead, Served
        <5>3. CASE j = 1 /\ Parent(p) = d
          <6>1. p \in names
            BY <2>3, <3>1, <5>3
          <6> QED
            BY <2>12, <2>13, <6>1 DEF Served
        <5>4. CASE j = 1 /\ Parent(p) # d
          <6>1. sDirs \in SUBSET Path /\ \A e \in sDirs \ {Root} : Parent(e) \in sDirs
            BY DEF WalkInv, TreeTypes, DirsGood
          <6>2. IsPrefix(d, Parent(p)) /\ d # Parent(p)
            BY <2>1, <5>1, <5>4
          <6>3. PICK r \in sDirs : r \in Inner /\ Parent(r) = d /\ IsPrefix(r, Parent(p))
            BY <2>1, <3>1, <6>1, <6>2, NextBelow, Zenon
          <6>4. r \in sTab.linked /\ d \in sDirs
            BY <6>1, <6>3 DEF WalkInv, DirsGood, RowsInv, TableGood, RowsGood, Inner
          <6>5. r \in names \cap sDirs
            BY <2>3, <6>3, <6>4
          <6>6. PICK i \in 1 .. Len(more) : more[i] = r
            BY <2>5, <6>5
          <6>7. /\ queue'[Len(queue) - 1 + i] = r
                /\ Len(queue) - 1 + i \in 1 .. Len(queue')
            <7>1. queue'[Len(queue) - 1 + i] = r
              BY <2>8, <6>6, Zenon
            <7>2. Len(queue) \in Nat /\ 1 \in 1 .. Len(queue) /\ Len(more) \in Nat
              BY <2>1, <2>10, Zenon
            <7>3. Len(queue) - 1 + i \in 1 .. Len(queue) - 1 + Len(more)
              BY <7>2, PlaceBehind, Zenon
            <7> QED
              BY <2>8, <7>1, <7>3, Zenon
          <6> QED
            BY <6>3, <6>7 DEF Ahead, Served
        <5> QED
          BY <5>2, <5>3, <5>4
      <4> QED
        BY <3>1, <4>1, <4>2, <4>3, <4>4 DEF Served
    <3> QED
      BY <1>1, <3>1 DEF WalkInv, GoalInv
  <2> QED
    BY <1>3, <1>4, <2>9, <2>14, <2>15, <2>16, <2>17 DEF WalkInv
<1> QED
  BY <1>5, <1>6

LEMMA NextWalk ==
    ASSUME "reconnectDuringWalk" \notin TreeEnv, WalkInv, [TreeNext]_treeVars
    PROVE  WalkInv'
<1>1. CASE UNCHANGED treeVars
  <2>1. UNCHANGED <<sTab, sDirs, rTab, rDirs, rFiles, merging, walking, queue, up, link, goal>>
    BY <1>1 DEF treeVars, sender, receiver, job
  <2>2. Grows
    BY <2>1, GrowsIfSame
  <2>3. TreeTypes' /\ DirsGood' /\ RowsInv'
    BY <2>1 DEF WalkInv, TreeTypes, DirsGood, RowsInv, FilesGood
  <2>4. GoalInv'
    BY <2>1, <2>2, ServedSame DEF WalkInv, GoalInv
  <2>5. IdleInv'
    BY <2>1 DEF WalkInv, IdleInv
  <2> QED
    BY <2>1, <2>2, <2>3, <2>4, <2>5, ChunksSame, QueueSame DEF WalkInv
<1>2. CASE \E p \in Made, isDir \in BOOLEAN : Make(p, isDir)
  BY <1>2, MakeWalks
<1>3. CASE \E p \in Made, isDir \in BOOLEAN : MakeThere(p, isDir)
  BY <1>3, MakeThereWalks
<1>4. CASE \E p \in Made : RemoveDir(p)
  BY <1>4, RemoveDirWalks
<1>5. CASE StartWalk
  BY <1>5, StartWalkWalks
<1>6. CASE WalkStep
  BY <1>6, WalkStepWalks
<1>7. CASE WalkEnd
  BY <1>7, WalkEndWalks
<1>8. CASE HandleChunk
  BY <1>8, HandleChunkWalks
<1>9. CASE MergeChunk
  BY <1>9, MergeChunkWalks
<1>10. CASE Drop
  BY <1>10, DropWalks
<1>11. CASE Reconnect
  BY <1>11, ReconnectWalks
<1> QED
  BY <1>1, <1>2, <1>3, <1>4, <1>5, <1>6, <1>7, <1>8, <1>9, <1>10, <1>11, Zenon DEF TreeNext

\* Every row of either table stays linked to the row of its directory, as long
\* as no peer reconnects while the walk of its lost connection still runs:
\* Database::merge comes only after the rows above, Backend's DirChunk handler
\* takes the chunks in the order of the walk, and a chunk that is lost to a file
\* in its way takes all below it along.
THEOREM RowsStayLinked ==
    ASSUME "reconnectDuringWalk" \notin TreeEnv
    PROVE  TreeSpec => []RowsAreLinked
<1>1. WalkInv => RowsAreLinked
  BY DEF WalkInv, RowsInv, TableGood, RowsGood, RowsAreLinked
<1> QED
  BY InitWalk, NextWalk, <1>1, PTL DEF TreeSpec

\* When a walk is over and no connection was lost, the receiver lists all that
\* the sender's tree held when the walk began, whatever users make, there or
\* here, and whichever directories they remove; but nothing below its own files.
THEOREM WalksComplete ==
    ASSUME "reconnectDuringWalk" \notin TreeEnv
    PROVE  TreeSpec => []WalkIsComplete
<1>1. WalkInv => WalkIsComplete
  <2> SUFFICES ASSUME WalkInv, ~walking, link = <<>>, merging = {}, NEW p \in goal,
                      ~Blocked(Parent(p))
               PROVE  p \in Listing(rTab, Parent(p))
    BY DEF WalkIsComplete
  <2>1. Len(queue) = 0 /\ Len(link) = 0
    BY DEF WalkInv, IdleInv
  <2>2. ~Coming(p, Len(link)) /\ ~Ahead(Parent(p))
    BY <2>1 DEF Coming, Ahead
  <2>3. p \in Inner /\ p \in rTab.known
    BY <2>2 DEF WalkInv, GoalInv, Served
  <2>4. Parent(p) \in rTab.known /\ p \in rTab.linked
    BY <2>3 DEF WalkInv, RowsInv, TableGood, RowsGood, Inner
  <2> QED
    BY <2>3, <2>4 DEF Listing, Children
<1> QED
  BY InitWalk, NextWalk, <1>1, PTL DEF TreeSpec
=============================================================================
