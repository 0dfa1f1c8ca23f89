--------------------------- MODULE CausalVersions ---------------------------
(***************************************************************************)
(* What the version vectors of one file promise, with no messages, jobs or  *)
(* downloads: a peer that edits its copy advances its own entry, a peer     *)
(* that replaces its copy takes a strictly newer version.  Every edit has   *)
(* an identity of its own, which the code does not keep: it is how the      *)
(* theorems can say that replacing a copy loses no edit.                    *)
(***************************************************************************)
EXTENDS VersionVector, FiniteSets

CONSTANT Peer

VARIABLES
    version,  \* the vector of each peer's copy
    edited,   \* how many edits each peer has closed, ever
    minted    \* every version ever created: its vector and the edits it includes

vars == <<version, edited, minted>>

Zero == [p \in Peer |-> 0]
Vector == [Peer -> Nat]
Edit == Peer \X Nat
Version == [v : Vector, edits : SUBSET Edit]

\* The edits that went into the copies with vector v.
EditsOf(v) == UNION {r.edits : r \in {q \in minted : q.v = v}}

\* The first v[k] edits of every peer k.
FirstEdits(v) == UNION {{k} \X (1 .. v[k]) : k \in Peer}

Incremented(n) == [version[n] EXCEPT ![n] = @ + 1]

Init ==
    /\ version = [n \in Peer |-> Zero]
    /\ edited = [n \in Peer |-> 0]
    /\ minted = {[v |-> Zero, edits |-> {}]}

Change(n) ==
    /\ version' = [version EXCEPT ![n] = Incremented(n)]
    /\ edited' = [edited EXCEPT ![n] = @ + 1]
    /\ minted' = minted \cup
          {[v |-> Incremented(n), edits |-> EditsOf(version[n]) \cup {<<n, edited[n] + 1>>}]}

Replace(n, r) ==
    /\ Less(version[n], r.v)
    /\ version' = [version EXCEPT ![n] = r.v]
    /\ UNCHANGED <<edited, minted>>

Next == \E n \in Peer : Change(n) \/ \E r \in minted : Replace(n, r)

Spec == Init /\ [][Next]_vars
-----------------------------------------------------------------------------
TypeOK ==
    /\ version \in [Peer -> Vector]
    /\ edited \in [Peer -> Nat]
    /\ minted \subseteq Version

\* A vector counts edits: it includes exactly the first v[k] edits of every
\* peer k.  So comparing vectors compares the sets of edits.
VectorsCountEdits ==
    \A r \in minted : r.edits = FirstEdits(r.v)

\* No version in the system is ahead of its owner: k's own entry is the number
\* of k's edits, and no vector anywhere has a larger one for k.
OwnerDominates ==
    /\ \A k \in Peer : version[k][k] = edited[k]
    /\ \A r \in minted, k \in Peer : r.v[k] <= edited[k]

\* Every copy is one that some edit made.
CopiesAreMinted == \A n \in Peer : \E r \in minted : r.v = version[n]

\* Two different edits never produce the same vector.
EditIsFresh ==
    [][\A r \in minted' : r \notin minted => \A q \in minted : q.v # r.v]_vars

\* Replacing or editing a copy never loses an edit that was in it.
NoEditLost == [][\A n \in Peer : EditsOf(version[n]) \subseteq EditsOf(version[n])']_vars
=============================================================================
