----------------------------- MODULE FileTable -----------------------------
(***************************************************************************)
(* The tables `files` and `version` of the Database, as far as the          *)
(* directory tree and the subscriptions go.  A table is a record of sets of *)
(* paths:                                                                   *)
(*   known      the path has a row                                          *)
(*   linked     the parent id in that row is the id of its directory        *)
(*   on         the row is subscribed                                       *)
(*   versioned  `version` has rows for it                                   *)
(* Rows are never deleted.  Most calls read the id of the row into a local  *)
(* that is not initialised: for a path without a row it is whatever the     *)
(* stack holds, the id of another row or none.  These return a set of       *)
(* tables.  Every call holds Database::m_mutex, but its statements are not  *)
(* in a transaction: each is on disk when it returns, and a process that    *)
(* dies between two of them leaves a half (..Half).                          *)
(***************************************************************************)
EXTENDS SequencesExt

CONSTANT Path  \* the paths of the tree, sequences of names

Root == <<>>
Parent(p) == Front(p)
Inner == Path \ {Root}
Children(d) == {p \in Inner : Parent(p) = d}
Below(p) == {q \in Path : IsPrefix(p, q)}

ASSUME PathAssumption ==
    /\ Path \subseteq Seq(STRING) /\ Root \in Path
    /\ \A p \in Path \ {Root} : Parent(p) \in Path

Table == [known : SUBSET Path, linked : SUBSET Path, on : SUBSET Path, versioned : SUBSET Path]

\* Database::init on a new data directory.
EmptyTable == [known |-> {Root}, linked |-> {Root}, on |-> {}, versioned |-> {}]

\* The rows that the id read for p may belong to.
Hit(t, p) == IF p \in t.known THEN {{p}} ELSE {{}} \cup {{q} : q \in t.known}

\* The rows a directory listing finds.
Listing(t, d) == IF d \in t.known THEN Children(d) \cap t.linked ELSE {}
Subscribed(t, d) == Listing(t, d) \cap t.on

\* Database::mknod: nothing without the parent's row; a row that is already
\* there keeps its subscription, and is found by its parent id.
Mknod(t, p) ==
    IF Parent(p) \notin t.known THEN t
    ELSE LET found == IF p \in t.known THEN t.linked ELSE t.linked \cup {p}
         IN  [known |-> t.known \cup {p},
              linked |-> found,
              on |-> IF p \in t.known THEN t.on ELSE t.on \cup {p},
              versioned |-> t.versioned \cup ({p} \cap found)]

\* The row is inserted, its version is not.
MknodHalf(t, p) == [Mknod(t, p) EXCEPT !.versioned = t.versioned]

\* Mutant: the row stays subscribed.
Unlink_StaysOn(t, p) == {[t EXCEPT !.versioned = @ \ hit] : hit \in Hit(t, p)}
\* Database::unlink.
Unlink(t, p) == {[t EXCEPT !.on = @ \ hit, !.versioned = @ \ hit] : hit \in Hit(t, p)}

\* The subscription is taken away, the version is not.
UnlinkHalf(t, p) == {[t EXCEPT !.on = @ \ hit] : hit \in Hit(t, p)}

\* Database::merge of the listing of a peer's directory: new rows are not
\* subscribed; an unknown directory leaves them with a parent id that means
\* nothing, and for good: later calls ignore rows that exist.
Merge(t, d, names) ==
    [t EXCEPT !.known = @ \cup names,
              !.linked = @ \cup (IF d \in t.known THEN names \ t.known ELSE {})]

\* Database::isSubscribed: the flag is not initialised either.
IsSubscribed(t, p) == IF p \in t.known THEN {p \in t.on} ELSE BOOLEAN

\* Database::checkout and release: the table they leave, and whether they go on
\* to create, or unlink, the file itself.  checkout throws for a path that is
\* subscribed, and after the update when `version` has rows already.
Checkout(t, p) ==
    {[tab |-> t, done |-> FALSE] : on \in {TRUE} \cap IsSubscribed(t, p)}
    \cup {[tab |-> [t EXCEPT !.on = @ \cup hit, !.versioned = @ \cup hit],
           done |-> hit \cap t.versioned = {}] :
             hit \in IF FALSE \in IsSubscribed(t, p) THEN Hit(t, p) ELSE {}}

\* Subscribed, but without a version.
CheckoutHalf(t, p) ==
    {[t EXCEPT !.on = @ \cup hit] :
        hit \in IF FALSE \in IsSubscribed(t, p) THEN Hit(t, p) ELSE {}}

Release(t, p) ==
    {[tab |-> t, done |-> FALSE] : on \in {FALSE} \cap IsSubscribed(t, p)}
    \cup {[tab |-> [t EXCEPT !.on = @ \ hit, !.versioned = @ \ hit], done |-> TRUE] :
             hit \in IF TRUE \in IsSubscribed(t, p) THEN Hit(t, p) ELSE {}}

\* Not subscribed any more, but still with a version.
ReleaseHalf(t, p) == IF TRUE \in IsSubscribed(t, p) THEN UnlinkHalf(t, p) ELSE {}
=============================================================================
