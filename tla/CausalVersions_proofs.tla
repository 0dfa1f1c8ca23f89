----------------------- MODULE CausalVersions_proofs -----------------------
(* Proofs about the comparison of version vectors, for any keys and         *)
(* counters, and about the abstract version history of one file, for any     *)
(* peers.                                                                  *)
EXTENDS CausalVersions, TLAPS
-----------------------------------------------------------------------------
(* The order of vectors *)

\* Some map from ids to counters, whichever keys it has.
IsVector(v) == \A k \in DOMAIN v : v[k] \in Nat

LEMMA AtIsNat == ASSUME NEW v, IsVector(v), NEW k PROVE At(v, k) \in Nat
  BY DEF At, IsVector

\* A missing key reads as zero, so comparisons may look at every key there is.
LEMMA LeqEverywhere ==
    ASSUME NEW v, NEW w, IsVector(v), IsVector(w), Leq(v, w), NEW k
    PROVE  At(v, k) <= At(w, k)
<1>1. CASE k \in KeyUnion(v, w)
  BY <1>1 DEF Leq
<1>2. CASE k \notin KeyUnion(v, w)
  BY <1>2 DEF At, KeyUnion
<1> QED
  BY <1>1, <1>2

\* operator< is operator<= without operator==.
THEOREM LessIsStrictLeq ==
    ASSUME NEW v, NEW w, IsVector(v), IsVector(w)
    PROVE  Less(v, w) <=> Leq(v, w) /\ ~Equal(v, w)
<1>1. \A k \in KeyUnion(v, w) : At(v, k) \in Nat /\ At(w, k) \in Nat
  BY AtIsNat
<1> QED
  BY <1>1 DEF Less, Leq, Equal

\* "Strictly newer" is irreflexive and transitive, so downloads along it can
\* neither go round in a circle nor both ways between two peers.
THEOREM LessIsStrictOrder ==
    ASSUME NEW u, NEW v, NEW w, IsVector(u), IsVector(v), IsVector(w)
    PROVE  /\ ~Less(v, v)
           /\ Less(u, v) /\ Less(v, w) => Less(u, w)
<1>1. ~Less(v, v)
  <2>1. \A k \in KeyUnion(v, v) : At(v, k) \in Nat
    BY AtIsNat
  <2> QED
    BY <2>1 DEF Less
<1>2. ASSUME Less(u, v), Less(v, w) PROVE Less(u, w)
  <2>1. Leq(u, v) /\ Leq(v, w)
    BY <1>2 DEF Less, Leq
  <2>2. PICK k \in KeyUnion(u, v) : At(u, k) < At(v, k)
    BY <1>2 DEF Less
  <2>3. \A j : At(u, j) <= At(v, j) /\ At(v, j) <= At(w, j)
    BY <2>1, LeqEverywhere
  <2>4. \A j : At(u, j) \in Nat /\ At(v, j) \in Nat /\ At(w, j) \in Nat
    BY AtIsNat
  <2>5. At(u, k) < At(w, k)
    BY <2>2, <2>3, <2>4
  <2>6. k \in KeyUnion(u, w)
    <3>1. At(w, k) # 0
      BY <2>4, <2>5
    <3> QED
      BY <3>1 DEF At, KeyUnion
  <2>7. \A j : At(u, j) <= At(w, j)
    BY <2>3, <2>4
  <2> QED
    BY <2>5, <2>6, <2>7 DEF Less
<1> QED
  BY <1>1, <1>2

\* Adding an absent key with count zero, as Database::assimilateKeys does,
\* changes no comparison.
THEOREM ZeroKeysDoNotMatter ==
    ASSUME NEW v, NEW w, IsVector(v), IsVector(w), NEW k, k \notin DOMAIN v
    PROVE  /\ Less(Put(v, k, 0), w) <=> Less(v, w)
           /\ Less(w, Put(v, k, 0)) <=> Less(w, v)
<1> DEFINE z == Put(v, k, 0)
<1>1. \A j : At(z, j) = At(v, j)
  BY DEF Put, At
<1>2. \A j : At(z, j) \in Nat /\ At(w, j) \in Nat /\ At(v, j) \in Nat
  BY <1>1, AtIsNat
<1>3. KeyUnion(v, w) \subseteq KeyUnion(z, w)
  BY DEF KeyUnion, Put
<1>4. ASSUME NEW j \in KeyUnion(z, w), j \notin KeyUnion(v, w)
      PROVE  At(v, j) = 0 /\ At(w, j) = 0
  BY <1>4 DEF KeyUnion, At
<1>5. KeyUnion(z, w) = KeyUnion(w, z) /\ KeyUnion(v, w) = KeyUnion(w, v)
  BY DEF KeyUnion
<1> HIDE DEF z
<1>6. Less(z, w) <=> Less(v, w)
  BY <1>1, <1>2, <1>3, <1>4 DEF Less
<1>7. Less(w, z) <=> Less(w, v)
  BY <1>1, <1>2, <1>3, <1>4, <1>5 DEF Less
<1> QED
  BY <1>6, <1>7 DEF z
-----------------------------------------------------------------------------
(* The versions of a file *)

\* On vectors with an entry for every peer the operators of VersionVector
\* compare entry by entry.
LEMMA LeqPointwise ==
    ASSUME NEW v \in Vector, NEW w \in Vector
    PROVE  Leq(v, w) <=> \A k \in Peer : v[k] <= w[k]
  BY DEF Leq, KeyUnion, At, Vector

LEMMA LessPointwise ==
    ASSUME NEW v \in Vector, NEW w \in Vector
    PROVE  Less(v, w) <=> (\A k \in Peer : v[k] <= w[k]) /\ (\E k \in Peer : v[k] < w[k])
  BY DEF Less, KeyUnion, At, Vector

\* Together inductive: a change is counted correctly because the owner's entry
\* is the owner's count and the copy it starts from is a minted version.
IInv == TypeOK /\ VectorsCountEdits /\ OwnerDominates /\ CopiesAreMinted

LEMMA FirstEditsAre ==
    ASSUME NEW v \in Vector, NEW e
    PROVE  e \in FirstEdits(v)
              <=> \E k \in Peer, i \in Nat : e = <<k, i>> /\ 1 <= i /\ i <= v[k]
  BY DEF FirstEdits, Vector

LEMMA EditsAreFirst ==
    ASSUME VectorsCountEdits, NEW r \in minted
    PROVE  EditsOf(r.v) = FirstEdits(r.v)
  BY DEF VectorsCountEdits, EditsOf

LEMMA InitIInv == Init => IInv
<1> SUFFICES ASSUME Init PROVE IInv
  OBVIOUS
<1> USE DEF Init
<1>1. Zero \in Vector
  BY DEF Zero, Vector
<1>2. TypeOK
  BY <1>1 DEF TypeOK, Version
<1>3. FirstEdits(Zero) = {}
  BY <1>1, FirstEditsAre DEF Zero
<1>4. VectorsCountEdits
  BY <1>3 DEF VectorsCountEdits
<1>5. OwnerDominates /\ CopiesAreMinted
  BY DEF OwnerDominates, CopiesAreMinted, Zero
<1> QED
  BY <1>2, <1>4, <1>5 DEF IInv

\* A change creates one version, which counts one edit more than the copy did
\* and is ahead of every older version in the editor's own entry.
LEMMA ChangeStep ==
    ASSUME IInv, NEW n \in Peer, Change(n)
    PROVE  /\ IInv'
           /\ \A q \in minted : q.v # Incremented(n)
           /\ EditsOf(version[n]) = FirstEdits(version[n])
<1> DEFINE v == version[n]
           new == [v |-> Incremented(n), edits |-> EditsOf(v) \cup {<<n, edited[n] + 1>>}]
<1>1. v \in Vector /\ edited[n] \in Nat /\ v[n] = edited[n]
  BY DEF IInv, TypeOK, OwnerDominates
<1>2. /\ Incremented(n) \in Vector
      /\ Incremented(n)[n] = edited[n] + 1
      /\ \A k \in Peer \ {n} : Incremented(n)[k] = v[k]
  BY <1>1 DEF Incremented, Vector
<1>3. EditsOf(v) = FirstEdits(v)
  BY EditsAreFirst DEF IInv, CopiesAreMinted
<1>4. new.edits = FirstEdits(Incremented(n))
  <2>1. ASSUME NEW e PROVE e \in new.edits <=> e \in FirstEdits(Incremented(n))
    <3>1. e \in FirstEdits(v) <=> \E k \in Peer, i \in Nat : e = <<k, i>> /\ 1 <= i /\ i <= v[k]
      BY <1>1, FirstEditsAre
    <3>2. e \in FirstEdits(Incremented(n)) <=> \E k \in Peer, i \in Nat :
              e = <<k, i>> /\ 1 <= i /\ i <= Incremented(n)[k]
      BY <1>2, FirstEditsAre
    <3>3. CASE e = <<n, edited[n] + 1>>
      BY <1>1, <1>2, <3>2, <3>3
    <3>4. CASE e # <<n, edited[n] + 1>>
      <4>1. ASSUME NEW k \in Peer, NEW i \in Nat, e = <<k, i>>, 1 <= i
            PROVE  i <= v[k] <=> i <= Incremented(n)[k]
        <5>1. CASE k = n
          BY <1>1, <1>2, <3>4, <4>1, <5>1
        <5>2. CASE k # n
          BY <1>2, <5>2
        <5> QED
          BY <5>1, <5>2
      <4> QED
        BY <1>3, <3>1, <3>2, <3>4, <4>1
    <3> QED
      BY <3>3, <3>4
  <2> QED
    BY <2>1
<1>5. new \in Version
  <2>1. ASSUME NEW e \in FirstEdits(Incremented(n)) PROVE e \in Edit
    BY <1>2, FirstEditsAre DEF Edit
  <2> QED
    BY <1>2, <1>4, <2>1 DEF Version
<1>6. minted' = minted \cup {new}
  BY DEF Change
<1>7. \A q \in minted : q.v # Incremented(n)
  BY <1>1, <1>2 DEF IInv, OwnerDominates, TypeOK, Version, Vector
<1>8. TypeOK'
  <2>1. version' \in [Peer -> Vector] /\ edited' \in [Peer -> Nat]
    BY <1>1, <1>2 DEF IInv, TypeOK, Change
  <2>2. minted' \subseteq Version
    BY <1>5, <1>6 DEF IInv, TypeOK
  <2> QED
    BY <2>1, <2>2 DEF TypeOK
<1>9. VectorsCountEdits'
  <2>1. new.edits = FirstEdits(new.v)
    BY <1>4
  <2> HIDE DEF new
  <2>2. \A r \in minted : r.edits = FirstEdits(r.v)
    BY Zenon DEF IInv, VectorsCountEdits
  <2> QED
    BY <1>6, <2>1, <2>2, Zenon DEF VectorsCountEdits
<1>10. OwnerDominates'
  <2>1. \A k \in Peer : version'[k][k] = edited'[k] /\ edited[k] <= edited'[k]
    BY <1>1, <1>2 DEF IInv, OwnerDominates, TypeOK, Change
  <2>2. \A k \in Peer : new.v[k] <= edited'[k]
    <3>1. \A k \in Peer : v[k] <= edited[k]
      BY DEF IInv, OwnerDominates, CopiesAreMinted
    <3> QED
      BY <1>1, <1>2, <3>1 DEF Change, IInv, TypeOK
  <2>3. \A r \in minted, k \in Peer : r.v[k] <= edited'[k]
    BY <2>1, <1>8 DEF IInv, OwnerDominates, TypeOK, Version, Vector
  <2> QED
    BY <1>6, <2>1, <2>2, <2>3 DEF OwnerDominates
<1>11. CopiesAreMinted'
  <2>1. ASSUME NEW m \in Peer PROVE \E r \in minted' : r.v = version'[m]
    <3>1. CASE m = n
      <4>1. version'[n] = new.v
        BY DEF Change, IInv, TypeOK
      <4> QED
        BY <1>6, <3>1, <4>1
    <3>2. CASE m # n
      BY <1>6, <3>2 DEF Change, IInv, TypeOK, CopiesAreMinted
    <3> QED
      BY <3>1, <3>2
  <2> QED
    BY <2>1 DEF CopiesAreMinted
<1> QED
  BY <1>3, <1>7, <1>8, <1>9, <1>10, <1>11 DEF IInv

\* Replacing keeps the owner's entry: the newer vector is not below the copy's
\* own count, and no version is above it.
LEMMA ReplaceStep ==
    ASSUME IInv, NEW n \in Peer, NEW r \in minted, Replace(n, r)
    PROVE  IInv'
<1>1. r.v \in Vector /\ version[n] \in Vector /\ version \in [Peer -> Vector]
  BY DEF IInv, TypeOK, Version
<1>2. version' = [version EXCEPT ![n] = r.v] /\ edited' = edited /\ minted' = minted
  BY DEF Replace
<1>3. \A k \in Peer : version[n][k] <= r.v[k]
  BY <1>1, LessPointwise DEF Replace
<1>4. r.v[n] = edited[n]
  <2>1. r.v[n] <= edited[n] /\ version[n][n] = edited[n]
    BY DEF IInv, OwnerDominates
  <2>2. version[n][n] \in Nat /\ r.v[n] \in Nat
    BY <1>1 DEF Vector
  <2> QED
    BY <1>3, <2>1, <2>2
<1>5. TypeOK'
  BY <1>1, <1>2 DEF IInv, TypeOK
<1>6. VectorsCountEdits'
  BY <1>2 DEF IInv, VectorsCountEdits
<1>7. OwnerDominates'
  BY <1>1, <1>2, <1>4 DEF IInv, OwnerDominates
<1>8. CopiesAreMinted'
  BY <1>1, <1>2 DEF IInv, CopiesAreMinted
<1> QED
  BY <1>5, <1>6, <1>7, <1>8 DEF IInv

LEMMA NextIInv == IInv /\ [Next]_vars => IInv'
<1> SUFFICES ASSUME IInv, [Next]_vars PROVE IInv'
  OBVIOUS
<1>1. CASE UNCHANGED vars
  BY <1>1 DEF vars, IInv, TypeOK, VectorsCountEdits, OwnerDominates, CopiesAreMinted
<1>2. ASSUME NEW n \in Peer, Change(n) PROVE IInv'
  BY <1>2, ChangeStep
<1>3. ASSUME NEW n \in Peer, NEW r \in minted, Replace(n, r) PROVE IInv'
  BY <1>3, ReplaceStep
<1> QED
  BY <1>1, <1>2, <1>3 DEF Next

\* The version vectors of one file form a sound causal history (VersionVector
\* with Database's increment and merge rules): vectors count edits, owners are
\* never overtaken and copies are real versions.
THEOREM Invariance == Spec => []IInv
  BY InitIInv, NextIInv, PTL DEF Spec

\* Two closes never produce the same vector.
THEOREM Freshness == Spec => EditIsFresh
<1>1. IInv /\ [Next]_vars
        => [\A r \in minted' : r \notin minted => \A q \in minted : q.v # r.v]_vars
  <2> SUFFICES ASSUME IInv, [Next]_vars, NEW r \in minted', r \notin minted
               PROVE  \A q \in minted : q.v # r.v
    OBVIOUS
  <2>1. PICK n \in Peer : Change(n)
    BY DEF Next, Replace, vars
  <2>2. r.v = Incremented(n)
    BY <2>1 DEF Change
  <2> QED
    BY <2>1, <2>2, ChangeStep
<1> QED
  BY <1>1, Invariance, PTL DEF Spec, EditIsFresh

\* No step on a copy loses an edit that was in it.
THEOREM NothingIsLost == Spec => NoEditLost
<1>1. IInv /\ [Next]_vars
        => [\A n \in Peer : EditsOf(version[n]) \subseteq EditsOf(version[n])']_vars
  <2> SUFFICES ASSUME IInv, IInv', Next, NEW m \in Peer
               PROVE  EditsOf(version[m]) \subseteq EditsOf(version[m])'
    BY NextIInv
  <2>1. EditsOf(version[m]) = FirstEdits(version[m])
    BY EditsAreFirst DEF IInv, CopiesAreMinted
  <2>2. EditsOf(version[m])' = FirstEdits(version'[m])
    <3>1. PICK r \in minted' : r.v = version'[m]
      BY DEF IInv, CopiesAreMinted
    <3>2. \A q \in minted' : q.edits = FirstEdits(q.v)
      BY DEF IInv, VectorsCountEdits
    <3> QED
      BY <3>1, <3>2 DEF EditsOf
  <2>3. version[m] \in Vector /\ version'[m] \in Vector
    BY DEF IInv, TypeOK
  <2>4. \A k \in Peer : version[m][k] <= version'[m][k]
    <3>1. ASSUME NEW n \in Peer, Change(n) PROVE \A k \in Peer : version[m][k] <= version'[m][k]
      BY <2>3, <3>1 DEF Change, Incremented, IInv, TypeOK, Vector
    <3>2. ASSUME NEW n \in Peer, NEW r \in minted, Replace(n, r)
          PROVE  \A k \in Peer : version[m][k] <= version'[m][k]
      <4>1. r.v \in Vector /\ version[n] \in Vector
        BY DEF IInv, TypeOK, Version
      <4> QED
        BY <2>3, <3>2, <4>1, LessPointwise DEF Replace, IInv, TypeOK, Vector
    <3> QED
      BY <3>1, <3>2 DEF Next
  <2>5. ASSUME NEW e \in FirstEdits(version[m]) PROVE e \in FirstEdits(version'[m])
    <3>1. PICK k \in Peer, i \in Nat : e = <<k, i>> /\ 1 <= i /\ i <= version[m][k]
      BY <2>3, FirstEditsAre
    <3>2. i <= version'[m][k]
      BY <2>3, <2>4, <3>1 DEF Vector
    <3> QED
      BY <2>3, <3>1, <3>2, FirstEditsAre
  <2> QED
    BY <2>1, <2>2, <2>5
<1> QED
  BY <1>1, Invariance, PTL DEF Spec, NoEditLost
=============================================================================
