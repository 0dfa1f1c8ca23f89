--------------------------- MODULE PeerIds_proofs ---------------------------
(***************************************************************************)
(* Machine-checked proofs about PeerIds, for any finite set of peers, any    *)
(* connections between them and any bounds: while no connection opens and    *)
(* no id is learned inside SendTree, every version read with its owner's     *)
(* numbering is what it was when it was written, and vectors of different    *)
(* numberings compare as the versions they stand for.                        *)
(***************************************************************************)
EXTENDS PeerIds, ListLemmas, FiniteSetTheorems
-----------------------------------------------------------------------------
(* What a vector stands for *)

\* Numberings of the peers that peer n knows, and who has which number.
Keys(n) == {s \in Seq(Peer) : n \notin Range(s) /\ IsInjective(s)}
Ids(s) == 0 .. Len(s)
Name(s, n, k) == IF k = 0 THEN n ELSE s[k]

\* Vectors with keys that are ids, and vectors with peers as keys.
Vec == UNION {[D -> Nat] : D \in SUBSET Nat}
Units(v) == {u \in (DOMAIN v) \X (Nat \ {0}) : u[2] <= v[u[1]]}
Hist == {h \in [Peer -> Nat] : IsFiniteSet(Units(h))}

\* Read with the numbering s of n, the vector v is h.
Stands(s, n, v, h) ==
    /\ DOMAIN v \subseteq Ids(s)
    /\ \A k \in DOMAIN v : v[k] = h[Name(s, n, k)]
    /\ \A p \in Peer : h[p] # 0 => \E k \in DOMAIN v : Name(s, n, k) = p
Below(g, h) == \A p \in Peer : g[p] <= h[p]

LEMMA VecIs ==
    ASSUME NEW v \in Vec
    PROVE  /\ DOMAIN v \subseteq Nat /\ \A k \in DOMAIN v : v[k] \in Nat
           /\ v = [k \in DOMAIN v |-> v[k]]
<1>1. PICK D \in SUBSET Nat : v \in [D -> Nat]
  BY DEF Vec
<1> QED
  BY <1>1

LEMMA IsVec ==
    ASSUME NEW w, DOMAIN w \in SUBSET Nat, w = [k \in DOMAIN w |-> w[k]],
           \A k \in DOMAIN w : w[k] \in Nat
    PROVE  w \in Vec
<1>1. w \in [DOMAIN w -> Nat]
  OBVIOUS
<1> QED
  BY <1>1, Zenon DEF Vec

LEMMA NameApart ==
    ASSUME NEW n \in Peer, NEW s \in Keys(n), NEW j \in Ids(s), NEW k \in Ids(s),
           Name(s, n, j) = Name(s, n, k)
    PROVE  j = k
<1>1. s \in Seq(Peer) /\ n \notin Range(s) /\ IsInjective(s)
  BY DEF Keys
<1>2. \A i \in Ids(s) : i = 0 \/ i \in DOMAIN s
  BY <1>1 DEF Ids
<1>3. \A i \in DOMAIN s : s[i] \in Range(s)
  BY DEF Range
<1>4. \A i \in DOMAIN s, l \in DOMAIN s : s[i] = s[l] => i = l
  BY <1>1 DEF IsInjective
<1> QED
  BY <1>1, <1>2, <1>3, <1>4, Zenon DEF Name

LEMMA NameIsPeer ==
    ASSUME NEW n \in Peer, NEW s \in Keys(n), NEW k \in Ids(s)
    PROVE  Name(s, n, k) \in Peer
BY DEF Keys, Ids, Name

LEMMA StandsAt ==
    ASSUME NEW n \in Peer, NEW s \in Keys(n), NEW v \in Vec, NEW h \in [Peer -> Nat],
           Stands(s, n, v, h), NEW k \in Ids(s)
    PROVE  At(v, k) = h[Name(s, n, k)]
<1>1. CASE k \in DOMAIN v
  BY <1>1 DEF Stands, At
<1>2. CASE k \notin DOMAIN v
  <2>1. Name(s, n, k) \in Peer
    BY NameIsPeer
  <2>2. ASSUME h[Name(s, n, k)] # 0 PROVE FALSE
    <3>1. PICK j \in DOMAIN v : Name(s, n, j) = Name(s, n, k)
      BY <2>1, <2>2 DEF Stands
    <3>2. j \in Ids(s)
      BY DEF Stands
    <3> QED
      BY <1>2, <3>1, <3>2, NameApart
  <2> QED
    BY <1>2, <2>2 DEF At
<1> QED
  BY <1>1, <1>2

\* Vectors compare as what they stand for.
LEMMA StandsLess ==
    ASSUME NEW n \in Peer, NEW s \in Keys(n),
           NEW v \in Vec, NEW h \in [Peer -> Nat], Stands(s, n, v, h),
           NEW w \in Vec, NEW g \in [Peer -> Nat], Stands(s, n, w, g)
    PROVE  /\ Less(v, w) <=> (h # g /\ Below(h, g))
           /\ Equal(v, w) => h = g
<1>1. KeyUnion(v, w) \subseteq Ids(s)
  BY DEF Stands, KeyUnion
<1>2. \A k \in Ids(s) : At(v, k) = h[Name(s, n, k)] /\ At(w, k) = g[Name(s, n, k)]
  BY StandsAt
<1>3. ASSUME NEW p \in Peer
      PROVE  \/ h[p] = 0 /\ g[p] = 0
             \/ \E k \in KeyUnion(v, w) : Name(s, n, k) = p /\ At(v, k) = h[p] /\ At(w, k) = g[p]
  <2>1. CASE h[p] # 0
    <3>1. PICK k \in DOMAIN v : Name(s, n, k) = p
      BY <2>1 DEF Stands
    <3> QED
      BY <1>1, <1>2, <3>1 DEF KeyUnion
  <2>2. CASE g[p] # 0
    <3>1. PICK k \in DOMAIN w : Name(s, n, k) = p
      BY <2>2 DEF Stands
    <3> QED
      BY <1>1, <1>2, <3>1 DEF KeyUnion
  <2> QED
    BY <2>1, <2>2
<1>4. \A k \in KeyUnion(v, w) : Name(s, n, k) \in Peer
  BY <1>1, NameIsPeer
<1>5. h # g <=> \E p \in Peer : h[p] # g[p]
  OBVIOUS
<1>6. \A p \in Peer : h[p] \in Nat /\ g[p] \in Nat
  OBVIOUS
<1>7. (\A k \in KeyUnion(v, w) : At(v, k) <= At(w, k)) <=> Below(h, g)
  BY <1>1, <1>2, <1>3, <1>4, <1>6 DEF Below
<1>8. Below(h, g) => ((\E k \in KeyUnion(v, w) : At(v, k) < At(w, k)) <=> h # g)
  BY <1>1, <1>2, <1>3, <1>4, <1>5, <1>6 DEF Below
<1>9. Less(v, w) <=> (h # g /\ Below(h, g))
  BY <1>7, <1>8 DEF Less
<1>10. Equal(v, w) => h = g
  BY <1>3, <1>5 DEF Equal
<1> QED
  BY <1>9, <1>10

LEMMA StandsMeaning ==
    ASSUME NEW n \in Peer, known[n] \in Keys(n), NEW v \in Vec, NEW h \in [Peer -> Nat],
           Stands(known[n], n, v, h)
    PROVE  Meaning(n, v) = h
<1> DEFINE s == known[n]
<1>1. s \in Seq(Peer) /\ DOMAIN s = 1 .. Len(s)
  BY DEF Keys
<1>2. ASSUME NEW p \in Peer, p = n \/ p \in Range(s)
      PROVE  At(v, IdIn(s, n, p)) = h[p]
  <2>1. IdIn(s, n, p) \in Ids(s) /\ Name(s, n, IdIn(s, n, p)) = p
    <3>1. CASE p = n
      BY <1>1, <3>1 DEF IdIn, Name, Ids
    <3>2. CASE p # n
      <4>1. \E i \in DOMAIN s : s[i] = p
        BY <1>2, <3>2 DEF Range
      <4>2. IdIn(s, n, p) \in DOMAIN s /\ s[IdIn(s, n, p)] = p
        BY <3>2, <4>1 DEF IdIn
      <4> QED
        BY <1>1, <4>2 DEF Ids, Name
    <3> QED
      BY <3>1, <3>2
  <2> QED
    BY <2>1, StandsAt
<1>3. ASSUME NEW p \in Peer, p # n, p \notin Range(s)
      PROVE  h[p] = 0
  <2>1. ASSUME NEW k \in Ids(s) PROVE Name(s, n, k) # p
    BY <1>1, <1>3 DEF Range, Ids, Name
  <2> QED
    BY <2>1 DEF Stands
<1> QED
  BY <1>2, <1>3 DEF Meaning
-----------------------------------------------------------------------------
(* Numberings *)

LEMMA GreatestNat ==
    ASSUME NEW S \in SUBSET Nat, S # {}, NEW b \in Nat, \A i \in S : i <= b
    PROVE  Max(S) \in S /\ \A i \in S : i <= Max(S)
<1> DEFINE T == {b - i : i \in S}
<1>1. T \in SUBSET Nat /\ T # {}
  <2>1. \A i \in S : b - i \in Nat
    OBVIOUS
  <2> QED
    BY <2>1
<1>2. PICK t \in T : \A u \in T : t <= u
  <2> HIDE DEF T
  <2> QED
    BY <1>1, LeastNat
<1>3. PICK i \in S : t = b - i
  OBVIOUS
<1>4. \A j \in S : i >= j
  <2> TAKE j \in S
  <2>1. b - j \in T
    OBVIOUS
  <2>2. b - i <= b - j
    BY <1>2, <1>3, <2>1
  <2>3. i \in Nat /\ j \in Nat
    OBVIOUS
  <2> QED
    BY <2>2, <2>3
<1>5. Max(S) \in S /\ \A j \in S : Max(S) >= j
  BY <1>4, Zenon DEF Max
<1> QED
  BY <1>5

\* Counted from below, every place of a finite set of numbers is taken once.
LEMMA NthEnumerates ==
    ASSUME NEW S \in SUBSET Nat, IsFiniteSet(S)
    PROVE  /\ Cardinality(S) \in Nat
           /\ \A k \in 1 .. Cardinality(S) : Nth(S, k) \in S
           /\ \A k \in 1 .. Cardinality(S), l \in 1 .. Cardinality(S) : Nth(S, k) = Nth(S, l) => k = l
           /\ \A i \in S : \E k \in 1 .. Cardinality(S) : Nth(S, k) = i
<1> DEFINE upTo(i) == {j \in S : j <= i}
           place(i) == Cardinality(upTo(i))
           c == Cardinality(S)
<1>1. c \in Nat
  BY FS_CardinalityType
<1>2. ASSUME NEW i \in S
      PROVE  IsFiniteSet(upTo(i)) /\ place(i) \in 1 .. c
  <2>1. IsFiniteSet(upTo(i)) /\ place(i) <= c
    BY FS_Subset, upTo(i) \subseteq S, Zenon
  <2>2. place(i) \in Nat
    BY <2>1, FS_CardinalityType, Zenon
  <2>3. i \in upTo(i)
    OBVIOUS
  <2>4. place(i) # 0
    BY <2>1, <2>3, FS_EmptySet, Zenon
  <2> HIDE DEF upTo
  <2> QED
    BY <1>1, <2>1, <2>2, <2>4
<1>3. ASSUME NEW i \in S, NEW j \in S, i < j
      PROVE  place(i) # place(j)
  <2>1. upTo(i) \subseteq upTo(j) /\ j \in upTo(j) /\ j \notin upTo(i)
    <3>1. \A l \in S : l <= i => l <= j
      BY <1>3
    <3>2. j <= j /\ ~(j <= i)
      BY <1>3
    <3> QED
      BY <3>1, <3>2, Zenon
  <2>2. IsFiniteSet(upTo(j))
    BY <1>2, Zenon
  <2> HIDE DEF upTo
  <2>3. Cardinality(upTo(i)) = Cardinality(upTo(j)) => upTo(i) = upTo(j)
    BY <2>1, <2>2, FS_Subset
  <2> QED
    BY <2>1, <2>3
<1>4. \A i \in S, j \in S : place(i) = place(j) => i = j
  <2> HIDE DEF place
  <2> QED
    BY <1>3
<1> DEFINE rank == [i \in S |-> place(i)]
<1>5. rank \in [S -> 1 .. c]
  BY <1>2
<1>6. rank \in Injection(S, 1 .. c)
  <2>1. \A i \in S, j \in S : rank[i] = rank[j] => i = j
    BY <1>4
  <2> HIDE DEF rank
  <2> QED
    BY <1>5, <2>1 DEF Injection, IsInjective
<1>7. IsFiniteSet(1 .. c) /\ Cardinality(1 .. c) = c
  BY <1>1, FS_Interval
<1>8. rank \in Surjection(S, 1 .. c)
  <2> HIDE DEF rank
  <2> QED
    BY <1>6, <1>7, FS_Injection
<1>9. \A k \in 1 .. c : \E i \in S : place(i) = k
  <2>1. \A k \in 1 .. c : \E i \in S : rank[i] = k
    <3> HIDE DEF rank
    <3> QED
      BY <1>8 DEF Surjection
  <2> QED
    BY <2>1
<1>10. \A k : Nth(S, k) = CHOOSE i \in S : place(i) = k
  BY Zenon DEF Nth
<1> HIDE DEF place, rank
<1>11. \A k \in 1 .. c : Nth(S, k) \in S /\ place(Nth(S, k)) = k
  BY <1>9, <1>10
<1>12. \A i \in S : place(i) \in 1 .. c
  BY <1>2 DEF place
<1>13. \A i \in S : Nth(S, place(i)) = i
  BY <1>4, <1>11, <1>12
<1> QED
  BY <1>1, <1>11, <1>12, <1>13

Extends(t, s) == Len(s) <= Len(t) /\ \A i \in 1 .. Len(s) : t[i] = s[i]

LEMMA IdOfName ==
    ASSUME NEW n \in Peer, NEW s \in Keys(n), NEW p, p = n \/ p \in Range(s)
    PROVE  IdIn(s, n, p) \in Ids(s) /\ Name(s, n, IdIn(s, n, p)) = p
<1>1. s \in Seq(Peer) /\ DOMAIN s = 1 .. Len(s) /\ Len(s) \in Nat
  BY DEF Keys
<1>2. CASE p = n
  BY <1>1, <1>2 DEF IdIn, Name, Ids
<1>3. CASE p # n
  <2>1. \E i \in DOMAIN s : s[i] = p
    BY <1>3 DEF Range
  <2>2. IdIn(s, n, p) \in DOMAIN s /\ s[IdIn(s, n, p)] = p
    BY <1>3, <2>1 DEF IdIn
  <2> QED
    BY <1>1, <2>2 DEF Ids, Name
<1> QED
  BY <1>2, <1>3

LEMMA RegisteredKeys ==
    ASSUME NEW n \in Peer, NEW s \in Keys(n), NEW p \in Peer
    PROVE  Registered(s, n, p) \in Keys(n) /\ Extends(Registered(s, n, p), s)
<1>1. s \in Seq(Peer) /\ n \notin Range(s) /\ IsInjective(s)
  BY DEF Keys
<1>2. CASE p = n \/ p \in Range(s)
  BY <1>1, <1>2 DEF Registered, Extends
<1>3. CASE p # n /\ p \notin Range(s)
  <2>1. Registered(s, n, p) = Append(s, p)
    BY <1>3 DEF Registered
  <2>2. /\ Append(s, p) \in Seq(Peer)
        /\ IsInjective(Append(s, p))
        /\ Range(Append(s, p)) = Range(s) \cup {p}
    BY <1>1, <1>3, AppendNew
  <2>3. Len(Append(s, p)) = Len(s) + 1 /\ \A i \in 1 .. Len(s) : Append(s, p)[i] = s[i]
    BY <1>1, AppendProperties
  <2>4. Len(s) \in Nat
    BY <1>1
  <2> QED
    BY <1>1, <1>3, <2>1, <2>2, <2>3, <2>4 DEF Keys, Extends
<1> QED
  BY <1>2, <1>3

\* An IdMap of one peer: ids and names, a name at most once.
IdMaps == {f \in UNION {[D -> Peer] : D \in SUBSET Nat} :
             IsFiniteSet(DOMAIN f) /\ \A i \in DOMAIN f, j \in DOMAIN f : f[i] = f[j] => i = j}

LEMMA LearnedKeys ==
    ASSUME NEW n \in Peer, known[n] \in Keys(n), NEW map \in IdMaps
    PROVE  /\ Learned(n, map) \in Keys(n) /\ Extends(Learned(n, map), known[n])
           /\ \A i \in DOMAIN map : map[i] = n \/ map[i] \in Range(Learned(n, map))
<1> DEFINE s == known[n]
           t == Learned(n, map)
           new == {i \in DOMAIN map : map[i] # n /\ map[i] \notin Range(known[n])}
           c == Cardinality(new)
           o == Len(s)
<1>1. s \in Seq(Peer) /\ DOMAIN s = 1 .. o /\ o \in Nat /\ n \notin Range(s)
  BY DEF Keys
<1>2. \A i \in 1 .. o, j \in 1 .. o : s[i] = s[j] => i = j
  BY <1>1 DEF Keys, IsInjective
<1>3. /\ IsFiniteSet(DOMAIN map) /\ DOMAIN map \subseteq Nat
      /\ \A i \in DOMAIN map : map[i] \in Peer
      /\ \A i \in DOMAIN map, j \in DOMAIN map : map[i] = map[j] => i = j
  <2>1. PICK D \in SUBSET Nat : map \in [D -> Peer]
    BY DEF IdMaps
  <2> QED
    BY <2>1 DEF IdMaps
<1>4. new \in SUBSET Nat /\ IsFiniteSet(new)
  BY <1>3, FS_Subset
<1>5. /\ c \in Nat
      /\ \A k \in 1 .. c : Nth(new, k) \in new
      /\ \A k \in 1 .. c, l \in 1 .. c : Nth(new, k) = Nth(new, l) => k = l
      /\ \A i \in new : \E k \in 1 .. c : Nth(new, k) = i
  BY <1>4, NthEnumerates
<1>6. t = [k \in 1 .. o + c |-> IF k <= o THEN s[k] ELSE map[Nth(new, k - o)]]
  BY Zenon DEF Learned
<1> DEFINE N(k) == Nth(new, k)
<1>7. /\ \A k \in 1 .. c : N(k) \in DOMAIN map /\ map[N(k)] # n /\ map[N(k)] \notin Range(s)
      /\ \A k \in 1 .. c, l \in 1 .. c : N(k) = N(l) => k = l
      /\ \A i \in DOMAIN map : i \in new => \E k \in 1 .. c : N(k) = i
  BY <1>5
<1>8. \A i \in DOMAIN map : i \notin new => map[i] = n \/ map[i] \in Range(s)
  OBVIOUS
<1>9. c \in Nat
  BY <1>5
<1>10. t = [k \in 1 .. o + c |-> IF k <= o THEN s[k] ELSE map[N(k - o)]]
  BY <1>6
<1>11. \A k \in 1 .. o : s[k] \in Range(s) /\ s[k] \in Peer
  BY <1>1 DEF Range
<1>12. known[n] = s
  OBVIOUS
<1> HIDE DEF t, N, c, new, o, s
<1>13. /\ \A k \in 1 .. o : k \in 1 .. o + c /\ t[k] = s[k]
       /\ \A k \in 1 .. c : o + k \in 1 .. o + c /\ t[o + k] = map[N(k)]
  BY <1>1, <1>9, <1>10
<1>14. \A k \in 1 .. o + c : k \in 1 .. o \/ \E l \in 1 .. c : k = o + l
  <2> TAKE k \in 1 .. o + c
  <2>1. CASE k <= o
    BY <1>1, <1>9, <2>1
  <2>2. CASE k > o
    <3>1. k - o \in 1 .. c /\ k = o + (k - o)
      BY <1>1, <1>9, <2>2
    <3> QED
      BY <3>1
  <2> QED
    BY <1>1, <1>9, <2>1, <2>2
<1>15. \A k \in 1 .. o + c : t[k] \in Peer /\ t[k] # n
  BY <1>1, <1>3, <1>7, <1>11, <1>13, <1>14
<1>16. \A k \in 1 .. o + c, l \in 1 .. o + c : t[k] = t[l] => k = l
  <2> TAKE k \in 1 .. o + c, l \in 1 .. o + c
  <2>1. CASE k \in 1 .. o /\ l \in 1 .. o
    BY <1>2, <1>13, <2>1
  <2>2. ASSUME NEW e \in 1 .. c, NEW i \in 1 .. o
        PROVE  t[o + e] # t[i]
    BY <1>7, <1>11, <1>13
  <2>3. ASSUME NEW e \in 1 .. c, NEW f \in 1 .. c, t[o + e] = t[o + f]
        PROVE  e = f
    BY <1>3, <1>7, <1>13, <2>3
  <2> QED
    BY <1>14, <2>1, <2>2, <2>3
<1>17. DOMAIN t = 1 .. o + c /\ o + c \in Nat
  BY <1>1, <1>9, <1>10
<1>18. t \in [1 .. o + c -> Peer]
  <2>1. t = [k \in 1 .. o + c |-> t[k]]
    BY <1>10
  <2> QED
    BY <1>15, <2>1
<1>19. t \in Seq(Peer) /\ Len(t) = o + c
  <2>1. t \in Seq(Peer)
    BY <1>17, <1>18, SeqDef
  <2> QED
    BY <1>17, <2>1
<1>20. t \in Keys(n)
  <2>1. n \notin Range(t)
    BY <1>15, <1>17 DEF Range
  <2>2. IsInjective(t)
    BY <1>16, <1>17 DEF IsInjective
  <2> QED
    BY <1>19, <2>1, <2>2 DEF Keys
<1>21. Extends(t, s)
  BY <1>1, <1>9, <1>13, <1>19 DEF Extends, o
<1>22. \A i \in DOMAIN map : map[i] = n \/ map[i] \in Range(t)
  <2> TAKE i \in DOMAIN map
  <2>1. CASE i \in new
    <3>1. PICK k \in 1 .. c : N(k) = i
      BY <1>7, <2>1
    <3>2. t[o + k] = map[i] /\ o + k \in DOMAIN t
      BY <1>13, <1>17, <3>1
    <3> QED
      BY <3>2 DEF Range
  <2>2. CASE i \notin new /\ map[i] # n
    <3>1. PICK k \in 1 .. o : s[k] = map[i]
      BY <1>1, <1>8, <2>2 DEF Range
    <3> QED
      BY <1>13, <1>17, <3>1 DEF Range
  <2> QED
    BY <2>1, <2>2
<1> QED
  BY <1>12, <1>20, <1>21, <1>22 DEF t
-----------------------------------------------------------------------------
(* Translation, and how rows change *)

LEMMA NameStays ==
    ASSUME NEW n \in Peer, NEW s \in Keys(n), NEW t \in Keys(n), Extends(t, s), NEW k \in Ids(s)
    PROVE  k \in Ids(t) /\ Name(t, n, k) = Name(s, n, k)
BY DEF Keys, Ids, Name, Extends

LEMMA StandsStays ==
    ASSUME NEW n \in Peer, NEW s \in Keys(n), NEW t \in Keys(n), Extends(t, s),
           NEW v, NEW h, Stands(s, n, v, h)
    PROVE  Stands(t, n, v, h)
<1>1. \A k \in DOMAIN v : k \in Ids(s) /\ k \in Ids(t) /\ Name(t, n, k) = Name(s, n, k)
  BY NameStays DEF Stands
<1> QED
  BY <1>1 DEF Stands

LEMMA IdsAreNat == ASSUME NEW n \in Peer, NEW s \in Keys(n)
                   PROVE  Ids(s) \subseteq Nat /\ 0 \in Ids(s) /\ Len(s) \in Nat /\ \A k \in Ids(s) : k <= Len(s)
<1>1. Len(s) \in Nat
  BY DEF Keys
<1> QED
  BY <1>1 DEF Ids

\* The entry a translated key is taken from.
Source(map, v, i) == Max({k \in DOMAIN v : At(map, k) = i})
Image(map, v) == {At(map, k) : k \in DOMAIN v}

LEMMA SourceOfKey ==
    ASSUME NEW map, NEW v \in Vec, NEW b \in Nat, \A k \in DOMAIN v : k <= b,
           NEW i \in Image(map, v)
    PROVE  Source(map, v, i) \in DOMAIN v /\ At(map, Source(map, v, i)) = i
<1> DEFINE S == {k \in DOMAIN v : At(map, k) = i}
<1>1. DOMAIN v \subseteq Nat
  BY VecIs
<1>2. S \in SUBSET Nat /\ S # {} /\ \A k \in S : k <= b
  BY <1>1 DEF Image
<1>3. Max(S) \in S
  <2> HIDE DEF S
  <2> QED
    BY <1>2, GreatestNat
<1>4. Source(map, v, i) = Max(S)
  BY Zenon DEF Source
<1> HIDE DEF Image
<1> QED
  BY <1>3, <1>4

LEMMA TranslatedIs ==
    ASSUME NEW map \in Vec, NEW v \in Vec, NEW b \in Nat, \A k \in DOMAIN v : k <= b
    PROVE  /\ Translated(map, v) \in Vec
           /\ DOMAIN Translated(map, v) = Image(map, v) \cup {0}
           /\ \A i \in Image(map, v) : Translated(map, v)[i] = v[Source(map, v, i)]
           /\ 0 \notin Image(map, v) => Translated(map, v)[0] = 0
<1> DEFINE D == Image(map, v)
           e(i) == IF i \in D THEN v[Source(map, v, i)] ELSE 0
<1>1. Translated(map, v) = [i \in D \cup {0} |-> e(i)]
  BY Zenon DEF Translated, Image, Source
<1>2. \A k : At(map, k) \in Nat
  BY VecIs DEF At
<1>3. D \cup {0} \in SUBSET Nat
  BY <1>2 DEF Image
<1>4. \A i \in D : Source(map, v, i) \in DOMAIN v
  BY SourceOfKey
<1>5. \A i \in D \cup {0} : e(i) \in Nat
  BY <1>4, VecIs
<1> HIDE DEF D
<1>6. Translated(map, v) \in Vec
  <2>1. /\ DOMAIN Translated(map, v) \in SUBSET Nat
        /\ Translated(map, v) = [i \in DOMAIN Translated(map, v) |-> Translated(map, v)[i]]
        /\ \A i \in DOMAIN Translated(map, v) : Translated(map, v)[i] \in Nat
    BY <1>1, <1>3, <1>5
  <2> QED
    BY <2>1, IsVec
<1> QED
  BY <1>1, <1>6 DEF D

\* m's numbers that the translation table of n's worker has right.
Right(map, s, m, t, n) ==
    {k \in Ids(s) : k \in DOMAIN map /\ map[k] \in Ids(t) /\ Name(t, n, map[k]) = Name(s, m, k)}

LEMMA TranslatedStands ==
    ASSUME NEW n \in Peer, NEW m \in Peer, NEW t \in Keys(n), NEW s \in Keys(m),
           NEW map \in Vec, NEW v \in Vec, NEW h \in [Peer -> Nat], Stands(s, m, v, h),
           DOMAIN v \subseteq Right(map, s, m, t, n)
    PROVE  Translated(map, v) \in Vec /\ Stands(t, n, Translated(map, v), h)
<1> DEFINE w == Translated(map, v)
<1>1. \A k \in DOMAIN v : /\ At(map, k) \in Ids(t) /\ Name(t, n, At(map, k)) = Name(s, m, k)
                          /\ v[k] = h[Name(s, m, k)]
  BY DEF Right, At, Stands
<1>2. Len(s) \in Nat /\ \A k \in DOMAIN v : k <= Len(s)
  BY IdsAreNat DEF Stands
<1>3. /\ w \in Vec /\ DOMAIN w = Image(map, v) \cup {0}
      /\ \A i \in Image(map, v) : w[i] = v[Source(map, v, i)]
      /\ 0 \notin Image(map, v) => w[0] = 0
  BY <1>2, TranslatedIs
<1>4. \A i \in Image(map, v) : Source(map, v, i) \in DOMAIN v /\ At(map, Source(map, v, i)) = i
  BY <1>2, SourceOfKey
<1>5. \A i \in Image(map, v) : i \in Ids(t) /\ w[i] = h[Name(t, n, i)]
  BY <1>1, <1>3, <1>4
<1>6. \A p \in Peer : h[p] # 0 => \E k \in DOMAIN v : Name(s, m, k) = p
  BY DEF Stands
<1>7. \A p \in Peer : h[p] # 0 => \E i \in Image(map, v) : Name(t, n, i) = p
  BY <1>1, <1>6 DEF Image
<1>8. 0 \in Ids(t) /\ Name(t, n, 0) = n
  BY IdsAreNat DEF Name
<1>9. 0 \notin Image(map, v) => h[n] = 0
  <2>1. \A i \in Image(map, v) : Name(t, n, i) = n => i = 0
    BY <1>5, <1>8, NameApart
  <2> QED
    BY <1>7, <2>1
<1> HIDE DEF w
<1>10. Stands(t, n, w, h)
  BY <1>3, <1>5, <1>7, <1>8, <1>9 DEF Stands
<1> QED
  BY <1>3, <1>10 DEF w

\* Translation with any table makes no units of its own: distinct keys of the
\* result come from distinct keys.
LEMMA TranslatedFits ==
    ASSUME NEW map \in Vec, NEW v \in Vec, NEW b \in Nat, \A k \in DOMAIN v : k <= b,
           IsFiniteSet(Units(v))
    PROVE  /\ Translated(map, v) \in Vec
           /\ IsFiniteSet(Units(Translated(map, v)))
           /\ Cardinality(Units(Translated(map, v))) <= Cardinality(Units(v))
<1> DEFINE w == Translated(map, v)
           S == Units(w)
           T == Units(v)
           src(i) == Source(map, v, i)
<1>1. /\ w \in Vec /\ DOMAIN w = Image(map, v) \cup {0}
      /\ \A i \in Image(map, v) : w[i] = v[src(i)]
      /\ 0 \notin Image(map, v) => w[0] = 0
  BY TranslatedIs
<1>2. \A i \in Image(map, v) : src(i) \in DOMAIN v /\ At(map, src(i)) = i
  BY SourceOfKey
<1> HIDE DEF w, src
<1>3. \A u \in S : /\ u = <<u[1], u[2]>> /\ u[1] \in DOMAIN w
                   /\ u[2] \in Nat \ {0} /\ u[2] <= w[u[1]]
  BY DEF Units
<1>4. \A i \in DOMAIN v, c \in Nat \ {0} : c <= v[i] => <<i, c>> \in T
  BY DEF Units
<1> HIDE DEF S, T
<1>5. \A u \in S : u[1] \in Image(map, v)
  BY <1>1, <1>3
<1> DEFINE f == [u \in S |-> <<src(u[1]), u[2]>>]
<1>6. \A u \in S : <<src(u[1]), u[2]>> \in T
  BY <1>1, <1>2, <1>3, <1>4, <1>5
<1>7. f \in [S -> T]
  BY <1>6
<1>8. \A u \in S, x \in S : f[u] = f[x] => u = x
  <2> SUFFICES ASSUME NEW u \in S, NEW x \in S, f[u] = f[x]
               PROVE  u = x
    OBVIOUS
  <2>1. src(u[1]) = src(x[1]) /\ u[2] = x[2]
    OBVIOUS
  <2>2. u[1] = x[1]
    BY <1>2, <1>5, <2>1
  <2> QED
    BY <1>3, <2>1, <2>2
<1> HIDE DEF f
<1>9. f \in Injection(S, T)
  BY <1>7, <1>8 DEF Injection, IsInjective
<1>10. IsFiniteSet(S) /\ Cardinality(S) <= Cardinality(T)
  BY <1>9, FS_Injection DEF T
<1> QED
  BY <1>1, <1>10 DEF S, T, w

\* A vector has as many units as the history it stands for.
LEMMA StandsFits ==
    ASSUME NEW n \in Peer, NEW s \in Keys(n), NEW v \in Vec, NEW h \in Hist, Stands(s, n, v, h)
    PROVE  IsFiniteSet(Units(v)) /\ Cardinality(Units(v)) = Cardinality(Units(h))
<1> DEFINE S == Units(v)
           T == Units(h)
           name(k) == Name(s, n, k)
<1>1. IsFiniteSet(T) /\ DOMAIN h = Peer /\ h \in [Peer -> Nat]
  BY DEF Hist
<1>2. /\ DOMAIN v \subseteq Ids(s)
      /\ \A k \in DOMAIN v : v[k] = h[name(k)] /\ name(k) \in Peer
      /\ \A p \in Peer : h[p] # 0 => \E k \in DOMAIN v : name(k) = p
      /\ \A j \in DOMAIN v, k \in DOMAIN v : name(j) = name(k) => j = k
  BY NameApart, NameIsPeer DEF Stands
<1>3. /\ \A u \in S : u = <<u[1], u[2]>> /\ u[1] \in DOMAIN v /\ u[2] \in Nat \ {0} /\ u[2] <= v[u[1]]
      /\ \A i \in DOMAIN v, c \in Nat \ {0} : c <= v[i] => <<i, c>> \in S
  BY DEF Units
<1>4. /\ \A u \in T : u = <<u[1], u[2]>> /\ u[1] \in Peer /\ u[2] \in Nat \ {0} /\ u[2] <= h[u[1]]
      /\ \A p \in Peer, c \in Nat \ {0} : c <= h[p] => <<p, c>> \in T
  BY <1>1 DEF Units
<1> HIDE DEF S, T, name
<1> DEFINE f == [u \in S |-> <<name(u[1]), u[2]>>]
<1>5. f \in [S -> T]
  BY <1>2, <1>3, <1>4
<1>6. \A u \in S, x \in S : f[u] = f[x] => u = x
  <2> SUFFICES ASSUME NEW u \in S, NEW x \in S, f[u] = f[x]
               PROVE  u = x
    OBVIOUS
  <2>1. name(u[1]) = name(x[1]) /\ u[2] = x[2]
    OBVIOUS
  <2>2. u[1] = x[1]
    BY <1>2, <1>3, <2>1
  <2> QED
    BY <1>3, <2>1, <2>2
<1>7. \A u \in T : \E x \in S : f[x] = u
  <2> TAKE u \in T
  <2>1. h[u[1]] # 0 /\ u[1] \in Peer
    BY <1>1, <1>4
  <2>2. PICK k \in DOMAIN v : name(k) = u[1]
    BY <1>2, <2>1
  <2>3. <<k, u[2]>> \in S
    BY <1>2, <1>3, <1>4, <2>2
  <2>4. f[<<k, u[2]>>] = u
    BY <1>4, <2>2, <2>3
  <2> QED
    BY <2>3, <2>4
<1> HIDE DEF f
<1>8. f \in Injection(S, T) /\ f \in Surjection(S, T)
  BY <1>5, <1>6, <1>7 DEF Injection, Surjection, IsInjective
<1>9. IsFiniteSet(S) /\ Cardinality(S) = Cardinality(T)
  BY <1>1, <1>8, FS_Injection
<1> QED
  BY <1>9 DEF S, T

LEMMA SmallerFits ==
    ASSUME NEW g \in Hist, NEW h \in Hist, Below(g, h),
           Cardinality(Units(h)) <= Cardinality(Units(g))
    PROVE  g = h
<1>1. /\ g \in [Peer -> Nat] /\ h \in [Peer -> Nat] /\ IsFiniteSet(Units(h)) /\ IsFiniteSet(Units(g))
      /\ DOMAIN g = Peer /\ DOMAIN h = Peer
  BY DEF Hist
<1>2. Units(g) \subseteq Units(h)
  <2> SUFFICES ASSUME NEW u \in Units(g) PROVE u \in Units(h)
    BY Zenon
  <2>1. u[1] \in Peer /\ u[2] \in Nat \ {0} /\ u[2] <= g[u[1]] /\ u \in Peer \X (Nat \ {0})
    BY <1>1 DEF Units
  <2>2. u[2] <= h[u[1]]
    BY <1>1, <2>1 DEF Below
  <2> QED
    BY <1>1, <2>1, <2>2 DEF Units
<1>3. Cardinality(Units(g)) \in Nat /\ Cardinality(Units(h)) \in Nat
  BY <1>1, FS_CardinalityType
<1>4. Cardinality(Units(g)) <= Cardinality(Units(h)) /\ (Cardinality(Units(h)) = Cardinality(Units(g)) => Units(h) = Units(g))
  BY <1>1, <1>2, FS_Subset
<1>5. Units(g) = Units(h)
  BY <1>3, <1>4
<1>6. \A p \in Peer : g[p] = h[p]
  <2> TAKE p \in Peer
  <2>1. g[p] \in Nat /\ h[p] \in Nat /\ g[p] <= h[p]
    BY <1>1 DEF Below
  <2>2. ASSUME h[p] # 0 PROVE h[p] <= g[p]
    <3>1. <<p, h[p]>> \in Units(h)
      BY <1>1, <2>1, <2>2 DEF Units
    <3>2. <<p, h[p]>> \in Units(g)
      BY <1>5, <3>1
    <3> QED
      BY <3>2 DEF Units
  <2> QED
    BY <2>1, <2>2
<1> QED
  BY <1>1, <1>6

\* Vectors that compare as equal have the same units.
LEMMA EqualFits ==
    ASSUME NEW v \in Vec, NEW w \in Vec, Equal(v, w)
    PROVE  Units(v) = Units(w)
<1>1. \A k \in DOMAIN v : v[k] \in Nat /\ v[k] # 0 => k \in DOMAIN w /\ w[k] = v[k]
  BY DEF Equal, KeyUnion, At
<1>2. \A k \in DOMAIN w : w[k] \in Nat /\ w[k] # 0 => k \in DOMAIN v /\ v[k] = w[k]
  BY DEF Equal, KeyUnion, At
<1>3. (\A k \in DOMAIN v : v[k] \in Nat) /\ (\A k \in DOMAIN w : w[k] \in Nat)
  BY VecIs
<1> QED
  BY <1>1, <1>2, <1>3 DEF Units

LEMMA ZeroRows ==
    ASSUME NEW n \in Peer, NEW s \in Keys(n), NEW v \in Vec, NEW h \in [Peer -> Nat],
           Stands(s, n, v, h), NEW D, D \subseteq Ids(s)
    PROVE  Merged([k \in D |-> 0], v) \in Vec /\ Stands(s, n, Merged([k \in D |-> 0], v), h)
<1> DEFINE w == Merged([k \in D |-> 0], v)
<1>1. w = [k \in D \cup DOMAIN v |-> IF k \in DOMAIN v THEN v[k] ELSE 0]
  BY DEF Merged
<1>2. DOMAIN w = D \cup DOMAIN v /\ \A k \in DOMAIN w : w[k] = At(v, k)
  BY <1>1 DEF At
<1>3. DOMAIN w \subseteq Ids(s)
  BY <1>2 DEF Stands
<1>4. \A k \in DOMAIN w : w[k] = h[Name(s, n, k)]
  BY <1>2, <1>3, StandsAt
<1>5. Stands(s, n, w, h)
  <2> HIDE DEF w
  <2> QED
    BY <1>2, <1>3, <1>4 DEF Stands
<1>6. w \in Vec
  <2>1. DOMAIN w \in SUBSET Nat
    BY <1>3, IdsAreNat
  <2>2. \A k \in DOMAIN w : w[k] \in Nat
    BY <1>3, <1>4, NameIsPeer
  <2>3. w = [k \in DOMAIN w |-> w[k]]
    BY <1>1
  <2> HIDE DEF w
  <2> QED
    BY <2>1, <2>2, <2>3, IsVec
<1> QED
  BY <1>5, <1>6

LEMMA NewerRows ==
    ASSUME NEW n \in Peer, NEW s \in Keys(n),
           NEW v \in Vec, NEW h \in [Peer -> Nat], Stands(s, n, v, h),
           NEW w \in Vec, NEW g \in [Peer -> Nat], Stands(s, n, w, g),
           Below(h, g)
    PROVE  Merged(v, w) \in Vec /\ Stands(s, n, Merged(v, w), g)
<1> DEFINE x == Merged(v, w)
<1>1. x = [k \in DOMAIN v \cup DOMAIN w |-> IF k \in DOMAIN w THEN w[k] ELSE v[k]]
  BY DEF Merged
<1>2. DOMAIN x = DOMAIN v \cup DOMAIN w /\ DOMAIN x \subseteq Ids(s)
  BY <1>1 DEF Stands
<1>3. \A k \in DOMAIN x : x[k] = g[Name(s, n, k)]
  <2> TAKE k \in DOMAIN x
  <2>1. k \in Ids(s) /\ Name(s, n, k) \in Peer
    BY <1>2, NameIsPeer
  <2>2. CASE k \in DOMAIN w
    BY <1>1, <2>2 DEF Stands
  <2>3. CASE k \notin DOMAIN w
    <3>1. x[k] = v[k] /\ v[k] = h[Name(s, n, k)] /\ At(w, k) = 0
      BY <1>1, <2>3 DEF Stands, At
    <3>2. g[Name(s, n, k)] = 0
      BY <2>1, <3>1, StandsAt
    <3>3. h[Name(s, n, k)] <= 0 /\ h[Name(s, n, k)] \in Nat
      BY <2>1, <3>2 DEF Below
    <3> QED
      BY <3>1, <3>2, <3>3
  <2> QED
    BY <2>2, <2>3
<1>4. Stands(s, n, x, g)
  <2>1. \A p \in Peer : g[p] # 0 => \E k \in DOMAIN w : Name(s, n, k) = p
    BY DEF Stands
  <2> HIDE DEF x
  <2> QED
    BY <1>2, <1>3, <2>1 DEF Stands
<1>5. x \in Vec
  <2>1. DOMAIN x \in SUBSET Nat
    BY <1>2, IdsAreNat
  <2>2. \A k \in DOMAIN x : x[k] \in Nat
    BY <1>2, <1>3, NameIsPeer
  <2>3. x = [k \in DOMAIN x |-> x[k]]
    BY <1>1
  <2> HIDE DEF x
  <2> QED
    BY <2>1, <2>2, <2>3, IsVec
<1> QED
  BY <1>4, <1>5

\* incrementVersion counts for the peer itself.
LEMMA EditedRows ==
    ASSUME NEW n \in Peer, NEW s \in Keys(n), NEW v \in Vec, NEW h \in Hist, Stands(s, n, v, h)
    PROVE  /\ Put(v, 0, At(v, 0) + 1) \in Vec
           /\ [h EXCEPT ![n] = @ + 1] \in Hist /\ Below(h, [h EXCEPT ![n] = @ + 1])
           /\ Stands(s, n, Put(v, 0, At(v, 0) + 1), [h EXCEPT ![n] = @ + 1])
<1> DEFINE w == Put(v, 0, At(v, 0) + 1)
           g == [h EXCEPT ![n] = @ + 1]
<1>1. h \in [Peer -> Nat] /\ DOMAIN h = Peer /\ IsFiniteSet(Units(h))
  BY DEF Hist
<1>2. g \in [Peer -> Nat] /\ DOMAIN g = Peer /\ g[n] = h[n] + 1 /\ \A p \in Peer : p # n => g[p] = h[p]
  BY <1>1
<1>3. w = [k \in DOMAIN v \cup {0} |-> IF k = 0 THEN At(v, 0) + 1 ELSE v[k]]
  BY DEF Put
<1>4. 0 \in Ids(s) /\ Name(s, n, 0) = n /\ Ids(s) \subseteq Nat
  BY IdsAreNat DEF Name
<1>5. At(v, 0) = h[n]
  BY <1>1, <1>4, StandsAt
<1>6. \A k \in Ids(s) : k # 0 => Name(s, n, k) \in Peer /\ Name(s, n, k) # n
  BY <1>4, NameApart, NameIsPeer
<1>7. DOMAIN w = DOMAIN v \cup {0} /\ DOMAIN w \subseteq Ids(s)
  BY <1>3, <1>4 DEF Stands
<1> HIDE DEF g
<1>8. \A k \in DOMAIN w : w[k] = g[Name(s, n, k)]
  <2> TAKE k \in DOMAIN w
  <2>1. CASE k = 0
    BY <1>2, <1>3, <1>4, <1>5, <2>1
  <2>2. CASE k # 0
    <3>1. k \in DOMAIN v /\ w[k] = v[k] /\ v[k] = h[Name(s, n, k)] /\ k \in Ids(s)
      BY <1>3, <1>7, <2>2 DEF Stands
    <3> QED
      BY <1>2, <1>6, <2>2, <3>1
  <2> QED
    BY <2>1, <2>2
<1>9. Stands(s, n, w, g)
  <2>1. \A p \in Peer : h[p] # 0 => \E k \in DOMAIN v : Name(s, n, k) = p
    BY DEF Stands
  <2>2. ASSUME NEW p \in Peer, g[p] # 0 PROVE \E k \in DOMAIN w : Name(s, n, k) = p
    <3>1. CASE p = n
      BY <1>4, <1>7, <3>1
    <3>2. CASE p # n
      BY <1>2, <1>7, <2>1, <2>2, <3>2
    <3> QED
      BY <3>1, <3>2
  <2> HIDE DEF w
  <2> QED
    BY <1>7, <1>8, <2>2 DEF Stands
<1>10. w \in Vec
  <2>1. DOMAIN w \in SUBSET Nat
    BY <1>4, <1>7
  <2>2. \A k \in DOMAIN w : w[k] \in Nat
    BY <1>2, <1>7, <1>8, NameIsPeer
  <2>3. w = [k \in DOMAIN w |-> w[k]]
    BY <1>3
  <2> HIDE DEF w
  <2> QED
    BY <2>1, <2>2, <2>3, IsVec
<1>11. Below(h, g)
  BY <1>1, <1>2 DEF Below
<1>12. g \in Hist
  <2>1. Units(g) = Units(h) \cup {<<n, h[n] + 1>>}
    <3>1. ASSUME NEW p \in Peer, NEW c \in Nat \ {0}
          PROVE  <<p, c>> \in Units(g) <=> (<<p, c>> \in Units(h) \/ <<p, c>> = <<n, h[n] + 1>>)
      <4>1. <<p, c>> \in Units(g) <=> c <= g[p]
        BY <1>2 DEF Units
      <4>2. <<p, c>> \in Units(h) <=> c <= h[p]
        BY <1>1 DEF Units
      <4>3. h[p] \in Nat
        BY <1>1
      <4> QED
        BY <1>2, <4>1, <4>2, <4>3
    <3>2. Units(g) \subseteq Peer \X (Nat \ {0}) /\ Units(h) \subseteq Peer \X (Nat \ {0})
      BY <1>1, <1>2 DEF Units
    <3>3. <<n, h[n] + 1>> \in Peer \X (Nat \ {0})
      BY <1>1
    <3> QED
      BY <3>1, <3>2, <3>3
  <2>2. IsFiniteSet(Units(g))
    BY <1>1, <2>1, FS_AddElement
  <2> QED
    BY <1>2, <2>2 DEF Hist
<1> QED
  BY <1>9, <1>10, <1>11, <1>12 DEF g

LEMMA NoHistory == Zero \in Hist
<1>1. Zero \in [Peer -> Nat] /\ \A p \in Peer : Zero[p] = 0
  BY DEF Zero
<1>2. Units(Zero) = {}
  BY <1>1 DEF Units, Zero
<1> QED
  BY <1>1, <1>2, FS_EmptySet DEF Hist
-----------------------------------------------------------------------------
(* Links *)

TreeMsg == [type : {"tree"}]
MapMsg == [type : {"map"}, ids : IdMaps]
InfoMsg == [type : {"info"}, v : Vec, means : Hist]
GetMsg == [type : {"get"}, v : Vec, means : Hist]
ChunkMsg == [type : {"chunk"}, means : Hist, asked : Hist]
Msg == TreeMsg \cup MapMsg \cup InfoMsg \cup GetMsg \cup ChunkMsg

\* What a message from m, whose numbering is s and whose copy is at h, may say
\* to a peer whose copy is at g.
Sound(x, m, s, h, g) ==
    /\ x.type = "map" => /\ 0 \in DOMAIN x.ids /\ DOMAIN x.ids \subseteq Ids(s)
                         /\ \A k \in DOMAIN x.ids : x.ids[k] = Name(s, m, k)
    /\ x.type = "info" => Stands(s, m, x.v, x.means) /\ Below(x.means, h)
    /\ x.type = "get" => Stands(s, m, x.v, x.means) /\ Below(x.means, g)
    /\ x.type = "chunk" => x.means = x.asked

\* An IdMap among the first i messages names k.
Told(q, i, k) == \E j \in 1 .. Len(q) : j <= i /\ q[j].type = "map" /\ k \in DOMAIN q[j].ids
Covered(q, i, K, R) == \A k \in K : k \in R \/ Told(q, i, k)
\* Every announcement comes after the map it is read with, of which R is here.
Ordered(q, R) == \A i \in 1 .. Len(q) : q[i].type = "info" => Covered(q, i - 1, DOMAIN q[i].v, R)

LEMMA MsgTypes ==
    ASSUME NEW x \in Msg
    PROVE  /\ x.type \in {"tree", "map", "info", "get", "chunk"}
           /\ x.type = "map" => x.ids \in IdMaps
           /\ x.type \in {"info", "get"} => x.v \in Vec /\ x.means \in Hist
           /\ x.type = "chunk" => x.means \in Hist /\ x.asked \in Hist
BY DEF Msg, TreeMsg, MapMsg, InfoMsg, GetMsg, ChunkMsg

LEMMA BelowTwice ==
    ASSUME NEW f \in Hist, NEW g \in Hist, NEW h \in Hist, Below(f, g), Below(g, h)
    PROVE  Below(f, h)
<1>1. f \in [Peer -> Nat] /\ g \in [Peer -> Nat] /\ h \in [Peer -> Nat]
  BY DEF Hist
<1>2. \A p \in Peer : f[p] <= g[p] /\ g[p] <= h[p] /\ f[p] \in Nat /\ g[p] \in Nat /\ h[p] \in Nat
  BY <1>1 DEF Below
<1> QED
  BY <1>2 DEF Below

LEMMA SoundStays ==
    ASSUME NEW m \in Peer, NEW s \in Keys(m), NEW t \in Keys(m), Extends(t, s),
           NEW g \in Hist, NEW g2 \in Hist, Below(g, g2),
           NEW h \in Hist, NEW h2 \in Hist, Below(h, h2),
           NEW x \in Msg, Sound(x, m, s, h, g)
    PROVE  Sound(x, m, t, h2, g2)
<1>1. x.type = "map" => /\ 0 \in DOMAIN x.ids /\ DOMAIN x.ids \subseteq Ids(t)
                        /\ \A k \in DOMAIN x.ids : x.ids[k] = Name(t, m, k)
  BY NameStays DEF Sound
<1>2. x.type \in {"info", "get"} => Stands(t, m, x.v, x.means)
  BY StandsStays DEF Sound
<1>3. x.type = "info" => Below(x.means, h2)
  BY BelowTwice, MsgTypes DEF Sound
<1>4. x.type = "get" => Below(x.means, g2)
  BY BelowTwice, MsgTypes DEF Sound
<1> QED
  BY <1>1, <1>2, <1>3, <1>4 DEF Sound

LEMMA CoveredMore ==
    ASSUME NEW q, NEW i \in Int, NEW K, NEW R, Covered(q, i, K, R),
           NEW j \in Int, i <= j, NEW L, L \subseteq K, NEW T, R \subseteq T
    PROVE  Covered(q, j, L, T)
<1>1. \A e \in 1 .. Len(q) : e <= i => e <= j
  OBVIOUS
<1> QED
  BY <1>1 DEF Covered, Told

LEMMA OrderedMore ==
    ASSUME NEW q, NEW R, Ordered(q, R), NEW T, R \subseteq T PROVE Ordered(q, T)
BY DEF Ordered, Covered

\* A message that joins a link gets a place, and the others keep their order.
Placed(q, r, i, x) ==
    /\ i \in 1 .. Len(q) + 1 /\ Len(r) = Len(q) + 1 /\ r[i] = x
    /\ \A j \in 1 .. Len(q) : r[IF j < i THEN j ELSE j + 1] = q[j]
    /\ \A j \in 1 .. Len(r) : j = i \/ \E e \in 1 .. Len(q) : j = IF e < i THEN e ELSE e + 1

LEMMA JoinsPlaces ==
    ASSUME NEW q \in Seq(Msg), NEW x \in Msg, NEW r \in Joins(q, x)
    PROVE  /\ r \in Seq(Msg)
           /\ \E i \in 1 .. Len(q) + 1 : Placed(q, r, i, x)
           /\ ~Urgent(x) => Placed(q, r, Len(q) + 1, x)
<1>1. Len(q) \in Nat
  OBVIOUS
<1>2. CASE ~Urgent(x)
  <2>1. r = Append(q, x)
    BY <1>2 DEF Joins
  <2>2. /\ r \in Seq(Msg) /\ Len(r) = Len(q) + 1 /\ r[Len(q) + 1] = x
        /\ \A i \in 1 .. Len(q) : r[i] = q[i]
    BY <2>1, AppendProperties
  <2>3. Placed(q, r, Len(q) + 1, x)
    <3>1. \A j \in 1 .. Len(r) : j = Len(q) + 1 \/ \E e \in 1 .. Len(q) : j = IF e < Len(q) + 1 THEN e ELSE e + 1
      BY <1>1, <2>2
    <3>2. \A j \in 1 .. Len(q) : r[IF j < Len(q) + 1 THEN j ELSE j + 1] = q[j]
      BY <1>1, <2>2
    <3> QED
      BY <1>1, <2>2, <3>1, <3>2 DEF Placed
  <2> QED
    BY <1>1, <2>2, <2>3
<1>3. CASE Urgent(x)
  <2>1. PICK i \in 1 .. Len(q) + 1 : r = InsertAt(q, i, x)
    BY <1>3 DEF Joins
  <2> DEFINE a == SubSeq(q, 1, i - 1)
             b == SubSeq(q, i, Len(q))
             c == a \o <<x>>
  <2>2. i - 1 \in 0 .. Len(q) /\ i = (i - 1) + 1
    BY <1>1
  <2>3. /\ a \in Seq(Msg) /\ Len(a) = i - 1
        /\ \A j \in 1 .. i - 1 : a[j] = q[j]
    BY <1>1, <2>2
  <2>4. /\ SubSeq(q, (i - 1) + 1, Len(q)) \in Seq(Msg)
        /\ Len(SubSeq(q, (i - 1) + 1, Len(q))) = Len(q) - (i - 1)
        /\ \A j \in 1 .. Len(q) - (i - 1) : SubSeq(q, (i - 1) + 1, Len(q))[j] = q[(i - 1) + j]
    BY <2>2, Suffix
  <2>5. /\ b \in Seq(Msg) /\ Len(b) = Len(q) - (i - 1)
        /\ \A j \in 1 .. Len(q) - (i - 1) : b[j] = q[(i - 1) + j]
    BY <2>2, <2>4
  <2>6. r = c \o b
    BY <2>1 DEF InsertAt
  <2> HIDE DEF a, b
  <2>7. <<x>> \in Seq(Msg) /\ Len(<<x>>) = 1 /\ <<x>>[1] = x
    OBVIOUS
  <2>8. /\ c \in Seq(Msg) /\ Len(c) = Len(a) + Len(<<x>>)
        /\ \A j \in 1 .. Len(a) : c[j] = a[j]
        /\ \A j \in 1 .. Len(<<x>>) : c[Len(a) + j] = <<x>>[j]
    <3>1. PICK y \in Seq(Msg) : y = <<x>>
      BY <2>7
    <3>2. c = a \o y
      BY <3>1
    <3>3. /\ a \o y \in Seq(Msg) /\ Len(a \o y) = Len(a) + Len(y)
          /\ \A j \in 1 .. Len(a) : (a \o y)[j] = a[j]
          /\ \A j \in 1 .. Len(y) : (a \o y)[Len(a) + j] = y[j]
      <4>1. a \in Seq(Msg)
        BY <2>3, Zenon
      <4> HIDE DEF c
      <4> QED
        BY <4>1, Joined
    <3> HIDE DEF c
    <3> QED
      BY <3>1, <3>2, <3>3, Zenon
  <2>9. Len(c) = i /\ c[i] = x /\ \A j \in 1 .. i - 1 : c[j] = q[j]
    <3>1. 1 \in 1 .. Len(<<x>>)
      BY <2>7
    <3>2. c[Len(a) + 1] = x
      BY <2>7, <2>8, <3>1
    <3> QED
      BY <1>1, <2>3, <2>7, <2>8, <3>2
  <2> HIDE DEF c
  <2>10. /\ r \in Seq(Msg) /\ Len(r) = Len(c) + Len(b)
         /\ \A j \in 1 .. Len(c) : r[j] = c[j]
         /\ \A j \in 1 .. Len(b) : r[Len(c) + j] = b[j]
    <3>1. b \in Seq(Msg) /\ c \in Seq(Msg)
      BY <2>5, <2>8
    <3>2. /\ c \o b \in Seq(Msg) /\ Len(c \o b) = Len(c) + Len(b)
          /\ \A j \in 1 .. Len(c) : (c \o b)[j] = c[j]
          /\ \A j \in 1 .. Len(b) : (c \o b)[Len(c) + j] = b[j]
      BY <3>1, Joined
    <3> QED
      BY <2>6, <3>2
  <2>11. Len(r) = Len(q) + 1 /\ r[i] = x
    BY <1>1, <2>5, <2>9, <2>10
  <2>12. \A j \in 1 .. Len(q) : r[IF j < i THEN j ELSE j + 1] = q[j]
    <3> TAKE j \in 1 .. Len(q)
    <3>1. CASE j < i
      BY <1>1, <2>9, <2>10, <3>1
    <3>2. CASE ~(j < i)
      <4>1. j - (i - 1) \in 1 .. Len(b)
        BY <1>1, <2>5, <3>2
      <4>2. i + (j - (i - 1)) = j + 1 /\ (i - 1) + (j - (i - 1)) = j
        BY <1>1
      <4>3. r[i + (j - (i - 1))] = b[j - (i - 1)]
        BY <2>9, <2>10, <4>1
      <4>4. b[j - (i - 1)] = q[(i - 1) + (j - (i - 1))]
        BY <2>5, <4>1
      <4> QED
        BY <3>2, <4>2, <4>3, <4>4
    <3> QED
      BY <3>1, <3>2
  <2>13. \A j \in 1 .. Len(r) : j = i \/ \E e \in 1 .. Len(q) : j = IF e < i THEN e ELSE e + 1
    <3> TAKE j \in 1 .. Len(r)
    <3>1. CASE j < i
      BY <1>1, <3>1
    <3>2. CASE j > i
      <4>1. j - 1 \in 1 .. Len(q) /\ ~(j - 1 < i) /\ (j - 1) + 1 = j
        BY <1>1, <2>11, <3>2
      <4> QED
        BY <4>1
    <3> QED
      BY <1>1, <3>1, <3>2
  <2> QED
    BY <1>3, <2>10, <2>11, <2>12, <2>13 DEF Placed
<1> QED
  BY <1>2, <1>3

LEMMA ToldStays ==
    ASSUME NEW q \in Seq(Msg), NEW r \in Seq(Msg), NEW x, NEW p \in 1 .. Len(q) + 1, Placed(q, r, p, x),
           NEW i \in 0 .. Len(q), NEW k, Told(q, i, k)
    PROVE  /\ Told(r, i + 1, k)
           /\ i < p => Told(r, i, k)
<1>1. PICK j \in 1 .. Len(q) : j <= i /\ q[j].type = "map" /\ k \in DOMAIN q[j].ids
  BY DEF Told
<1>2. Len(q) \in Nat /\ Len(r) = Len(q) + 1
  BY DEF Placed
<1>3. PICK e \in 1 .. Len(r) : e = (IF j < p THEN j ELSE j + 1) /\ r[e] = q[j]
  <2>1. r[IF j < p THEN j ELSE j + 1] = q[j]
    BY Zenon DEF Placed
  <2>2. (IF j < p THEN j ELSE j + 1) \in 1 .. Len(r)
    BY <1>2
  <2> QED
    BY <2>1, <2>2, Zenon
<1>4. e <= i + 1 /\ (i < p => e <= i)
  BY <1>1, <1>2, <1>3
<1> QED
  BY <1>1, <1>3, <1>4 DEF Told

LEMMA OrderedJoins ==
    ASSUME NEW q \in Seq(Msg), NEW r \in Seq(Msg), NEW x \in Msg, NEW p \in 1 .. Len(q) + 1,
           Placed(q, r, p, x), NEW R, Ordered(q, R), x.type = "info" => Covered(q, Len(q), DOMAIN x.v, R) /\ p = Len(q) + 1
    PROVE  Ordered(r, R)
<1>1. Len(q) \in Nat /\ Len(r) = Len(q) + 1
  BY DEF Placed
<1> SUFFICES ASSUME NEW i \in 1 .. Len(r), r[i].type = "info", NEW k \in DOMAIN r[i].v, k \notin R
             PROVE  Told(r, i - 1, k)
  BY DEF Ordered, Covered
<1>2. CASE i = p
  <2>1. r[i] = x
    BY <1>2 DEF Placed
  <2>2. Told(q, Len(q), k) /\ p = Len(q) + 1
    BY <2>1 DEF Covered
  <2>3. Len(q) \in 0 .. Len(q) /\ Len(q) < p /\ i - 1 = Len(q)
    BY <1>1, <1>2, <2>2
  <2> QED
    BY <2>2, <2>3, ToldStays
<1>3. CASE i # p
  <2>1. PICK e \in 1 .. Len(q) : i = IF e < p THEN e ELSE e + 1
    BY <1>3 DEF Placed
  <2>2. r[i] = q[e]
    BY <2>1 DEF Placed
  <2>3. Told(q, e - 1, k)
    BY <2>2 DEF Ordered, Covered
  <2>4. e - 1 \in 0 .. Len(q) /\ (e - 1) + 1 = e
    BY <1>1
  <2>5. Told(r, e, k) /\ (e - 1 < p => Told(r, e - 1, k))
    BY <2>3, <2>4, ToldStays
  <2>6. CASE e < p
    BY <1>1, <2>1, <2>5, <2>6
  <2>7. CASE ~(e < p)
    <3>1. i - 1 = e
      BY <1>1, <2>1, <2>7
    <3> QED
      BY <2>5, <3>1
  <2> QED
    BY <2>6, <2>7
<1> QED
  BY <1>2, <1>3

LEMMA CoveredJoins ==
    ASSUME NEW q \in Seq(Msg), NEW r \in Seq(Msg), NEW x \in Msg, NEW p \in 1 .. Len(q) + 1,
           Placed(q, r, p, x), NEW K, NEW R,
           Covered(q, Len(q), K, R) \/ (x.type = "map" /\ K \subseteq DOMAIN x.ids)
    PROVE  Covered(r, Len(r), K, R)
<1>1. Len(q) \in Nat /\ Len(r) = Len(q) + 1 /\ r[p] = x /\ p \in 1 .. Len(r)
  BY DEF Placed
<1>2. CASE x.type = "map" /\ K \subseteq DOMAIN x.ids
  BY <1>1, <1>2 DEF Covered, Told
<1>3. CASE Covered(q, Len(q), K, R)
  <2>1. Len(q) \in 0 .. Len(q)
    BY <1>1
  <2>2. \A k \in K : k \in R \/ Told(r, Len(q) + 1, k)
    BY <1>3, <2>1, ToldStays DEF Covered
  <2> QED
    BY <1>1, <2>2 DEF Covered
<1> QED
  BY <1>2, <1>3

\* The head of a link is handled, and what an IdMap names gets right.
LEMMA TailPlaces ==
    ASSUME NEW q \in Seq(Msg), q # <<>>
    PROVE  /\ Head(q) \in Msg /\ Tail(q) \in Seq(Msg) /\ Head(q) = q[1] /\ 1 \in 1 .. Len(q)
           /\ Len(q) \in Nat /\ Len(Tail(q)) = Len(q) - 1
           /\ \A i \in 1 .. Len(Tail(q)) : i + 1 \in 1 .. Len(q) /\ Tail(q)[i] = q[i + 1]
<1>1. /\ Head(q) \in Msg /\ Tail(q) \in Seq(Msg)
  BY Popped
<1>2. Len(q) \in Nat /\ Len(q) # 0
  BY EmptySeq
<1> QED
  BY <1>1, <1>2, HeadTailProperties

LEMMA ToldTail ==
    ASSUME NEW q \in Seq(Msg), q # <<>>, NEW i \in 1 .. Len(q), NEW k, Told(q, i, k)
    PROVE  (Head(q).type = "map" /\ k \in DOMAIN Head(q).ids) \/ Told(Tail(q), i - 1, k)
<1>1. /\ Head(q) = q[1] /\ Len(q) \in Nat /\ Len(Tail(q)) = Len(q) - 1
      /\ \A j \in 1 .. Len(Tail(q)) : Tail(q)[j] = q[j + 1]
  BY TailPlaces
<1>2. PICK j \in 1 .. Len(q) : j <= i /\ q[j].type = "map" /\ k \in DOMAIN q[j].ids
  BY DEF Told
<1>3. CASE j = 1
  BY <1>1, <1>2, <1>3
<1>4. CASE j # 1
  <2>1. j - 1 \in 1 .. Len(Tail(q)) /\ j - 1 <= i - 1 /\ (j - 1) + 1 = j
    BY <1>1, <1>2, <1>4
  <2>2. Tail(q)[j - 1] = q[j]
    BY <1>1, <2>1
  <2> QED
    BY <1>2, <2>1, <2>2 DEF Told
<1> QED
  BY <1>3, <1>4

LEMMA OrderedTail ==
    ASSUME NEW q \in Seq(Msg), q # <<>>, NEW R, Ordered(q, R), NEW T, R \subseteq T,
           Head(q).type = "map" => DOMAIN Head(q).ids \subseteq T
    PROVE  Ordered(Tail(q), T)
<1>1. /\ Len(q) \in Nat /\ Len(Tail(q)) = Len(q) - 1
      /\ \A j \in 1 .. Len(Tail(q)) : j + 1 \in 1 .. Len(q) /\ Tail(q)[j] = q[j + 1]
  BY TailPlaces
<1> SUFFICES ASSUME NEW i \in 1 .. Len(Tail(q)), Tail(q)[i].type = "info",
                    NEW k \in DOMAIN Tail(q)[i].v, k \notin T
             PROVE  Told(Tail(q), i - 1, k)
  BY DEF Ordered, Covered
<1>2. i + 1 \in 1 .. Len(q) /\ Tail(q)[i] = q[i + 1] /\ (i + 1) - 1 = i /\ i \in 1 .. Len(q)
  BY <1>1
<1>3. Covered(q, (i + 1) - 1, DOMAIN q[i + 1].v, R)
  BY <1>2 DEF Ordered
<1>4. Told(q, i, k)
  BY <1>2, <1>3 DEF Covered
<1> QED
  BY <1>2, <1>4, ToldTail

LEMMA CoveredTail ==
    ASSUME NEW q \in Seq(Msg), q # <<>>, NEW K, NEW R, Covered(q, Len(q), K, R), NEW T, R \subseteq T,
           Head(q).type = "map" => DOMAIN Head(q).ids \subseteq T
    PROVE  Covered(Tail(q), Len(Tail(q)), K, T)
<1>1. Len(q) \in Nat /\ Len(Tail(q)) = Len(q) - 1 /\ 1 \in 1 .. Len(q)
  BY TailPlaces
<1>2. Len(q) \in 1 .. Len(q)
  BY <1>1
<1>3. \A k \in K : k \in R \/ (Head(q).type = "map" /\ k \in DOMAIN Head(q).ids) \/ Told(Tail(q), Len(q) - 1, k)
  BY <1>2, ToldTail DEF Covered
<1> QED
  BY <1>1, <1>3 DEF Covered
-----------------------------------------------------------------------------
(* The inductive invariant *)

Row == {None} \cup [v : Vec, means : Hist]
Job == [to : Peer, pc : {"map", "info"}] \cup [to : Peer, pc : {"send"}, v : Vec, asked : Hist]

Types ==
    /\ known \in [Peer -> Seq(Peer)]
    /\ version \in [Peer -> Vec]
    /\ truth \in [Peer -> Hist]
    /\ workers \in [Peer -> Seq(Vec)]
    /\ trans \in [Link -> Vec]
    /\ jobs \in [Peer -> Seq(Job)]
    /\ link \in [Link -> Seq(Msg)]
    /\ row \in [Link -> Row]

KnownInv == \A n \in Peer : known[n] \in Keys(n)
RowsInv == \A n \in Peer : Stands(known[n], n, version[n], truth[n])
DownInv == \A l \in Link : row[l] # None => Stands(known[l[1]], l[1], row[l].v, row[l].means)

\* The messages q of m to n, who reads ids with the table map.
LinkOk(q, map, n, m, t, s, g, h) ==
    /\ \A i \in 1 .. Len(q) : Sound(q[i], m, s, h, g)
    /\ Ordered(q, Right(map, s, m, t, n))
LinksOk(lk, tr, kn, th) ==
    \A n \in Peer, m \in Peer :
        n # m => LinkOk(lk[<<m, n>>], tr[<<n, m>>], n, m, kn[n], kn[m], th[n], th[m])

\* SendTree has sent the map to n and not yet the version.
Waits(js, n) == js # <<>> /\ Head(js).pc = "info" /\ Head(js).to = n
CoverOk(q, map, n, m, t, s) == Covered(q, Len(q), Ids(s), Right(map, s, m, t, n))
HalvesOk(lk, tr, kn, js, u) ==
    \A n \in Peer, m \in Peer :
        n # m /\ Waits(js[m], n) /\ {n, m} \in u =>
            CoverOk(lk[<<m, n>>], tr[<<n, m>>], n, m, kn[n], kn[m])

\* Nothing is on its way over a connection that is down.
Quiet(lk, u) == \A n \in Peer, m \in Peer : n # m /\ {n, m} \notin u => lk[<<m, n>>] = <<>>

Net(lk, tr, kn, th, js, u) ==
    LinksOk(lk, tr, kn, th) /\ HalvesOk(lk, tr, kn, js, u) /\ Quiet(lk, u)

Fits(v, h) == IsFiniteSet(Units(v)) /\ Cardinality(Units(v)) <= Cardinality(Units(h))
JobsOk(js, n, g) ==
    \A i \in 1 .. Len(js) :
        /\ js[i].to # n
        /\ js[i].pc = "info" => i = 1
        /\ js[i].pc = "send" => Fits(js[i].v, js[i].asked) /\ Below(js[i].asked, g)
JobsInv == \A n \in Peer : JobsOk(jobs[n], n, truth[n])

NetInv == Net(link, trans, known, truth, jobs, up)

IdsInv == Types /\ KnownInv /\ RowsInv /\ DownInv /\ JobsInv /\ NetInv

LEMMA BelowItself == ASSUME NEW h \in Hist PROVE Below(h, h)
<1>1. \A p \in Peer : h[p] \in Nat
  BY DEF Hist
<1> QED
  BY <1>1 DEF Below

LEMMA ExtendsItself == ASSUME NEW n, NEW s \in Keys(n) PROVE Extends(s, s)
BY DEF Keys, Extends

LEMMA RightGrows ==
    ASSUME NEW n \in Peer, NEW m \in Peer, NEW s \in Keys(m), NEW s2 \in Keys(m), Extends(s2, s),
           NEW t \in Keys(n), NEW t2 \in Keys(n), Extends(t2, t), NEW map
    PROVE  Right(map, s, m, t, n) \subseteq Right(map, s2, m, t2, n)
<1> SUFFICES ASSUME NEW k \in Right(map, s, m, t, n) PROVE k \in Right(map, s2, m, t2, n)
  BY Zenon
<1>1. k \in Ids(s) /\ k \in DOMAIN map /\ map[k] \in Ids(t) /\ Name(t, n, map[k]) = Name(s, m, k)
  BY DEF Right
<1>2. k \in Ids(s2) /\ Name(s2, m, k) = Name(s, m, k)
  BY <1>1, NameStays
<1>3. map[k] \in Ids(t2) /\ Name(t2, n, map[k]) = Name(t, n, map[k])
  BY <1>1, NameStays
<1> QED
  BY <1>1, <1>2, <1>3 DEF Right

LEMMA LinkOkStays ==
    ASSUME NEW n \in Peer, NEW m \in Peer, NEW s \in Keys(m), NEW s2 \in Keys(m), Extends(s2, s),
           NEW t \in Keys(n), NEW t2 \in Keys(n), Extends(t2, t),
           NEW g \in Hist, NEW g2 \in Hist, Below(g, g2),
           NEW h \in Hist, NEW h2 \in Hist, Below(h, h2),
           NEW map, NEW q \in Seq(Msg), LinkOk(q, map, n, m, t, s, g, h)
    PROVE  LinkOk(q, map, n, m, t2, s2, g2, h2)
<1>1. \A i \in 1 .. Len(q) : q[i] \in Msg
  OBVIOUS
<1>2. \A i \in 1 .. Len(q) : Sound(q[i], m, s2, h2, g2)
  BY <1>1, SoundStays DEF LinkOk
<1>3. Ordered(q, Right(map, s2, m, t2, n))
  BY RightGrows, OrderedMore DEF LinkOk
<1> QED
  BY <1>2, <1>3 DEF LinkOk

LEMMA LinkOkJoins ==
    ASSUME NEW n, NEW m, NEW s, NEW t, NEW g, NEW h, NEW map,
           NEW q \in Seq(Msg), LinkOk(q, map, n, m, t, s, g, h),
           NEW x \in Msg, Sound(x, m, s, h, g),
           x.type = "info" => Covered(q, Len(q), DOMAIN x.v, Right(map, s, m, t, n)),
           NEW r \in Joins(q, x)
    PROVE  r \in Seq(Msg) /\ LinkOk(r, map, n, m, t, s, g, h)
<1>1. r \in Seq(Msg) /\ \E i \in 1 .. Len(q) + 1 : Placed(q, r, i, x) /\ (~Urgent(x) => i = Len(q) + 1)
  <2>1. CASE Urgent(x)
    BY <2>1, JoinsPlaces
  <2>2. CASE ~Urgent(x)
    <3>1. Len(q) + 1 \in 1 .. Len(q) + 1
      <4>1. Len(q) \in Nat
        OBVIOUS
      <4> QED
        BY <4>1
    <3> QED
      BY <2>2, <3>1, JoinsPlaces
  <2> QED
    BY <2>1, <2>2
<1>2. PICK i \in 1 .. Len(q) + 1 : Placed(q, r, i, x) /\ (~Urgent(x) => i = Len(q) + 1)
  BY <1>1
<1>3. x.type = "info" => i = Len(q) + 1
  BY <1>2 DEF Urgent
<1>4. Ordered(r, Right(map, s, m, t, n))
  BY <1>1, <1>2, <1>3, OrderedJoins DEF LinkOk
<1>5. \A j \in 1 .. Len(r) : r[j] = x \/ \E e \in 1 .. Len(q) : r[j] = q[e]
  <2> TAKE j \in 1 .. Len(r)
  <2>1. j = i \/ \E e \in 1 .. Len(q) : j = IF e < i THEN e ELSE e + 1
    BY <1>2 DEF Placed
  <2>2. \A e \in 1 .. Len(q) : r[IF e < i THEN e ELSE e + 1] = q[e]
    BY <1>2 DEF Placed
  <2>3. r[i] = x
    BY <1>2 DEF Placed
  <2> QED
    BY <2>1, <2>2, <2>3
<1>6. \A j \in 1 .. Len(r) : Sound(r[j], m, s, h, g)
  BY <1>5 DEF LinkOk
<1> QED
  BY <1>1, <1>4, <1>6 DEF LinkOk

LEMMA CoverOkJoins ==
    ASSUME NEW n, NEW m, NEW s, NEW t, NEW map, NEW q \in Seq(Msg),
           NEW x \in Msg, CoverOk(q, map, n, m, t, s) \/ (x.type = "map" /\ Ids(s) \subseteq DOMAIN x.ids),
           NEW r \in Joins(q, x)
    PROVE  CoverOk(r, map, n, m, t, s)
<1>1. PICK i \in 1 .. Len(q) + 1 : Placed(q, r, i, x)
  BY JoinsPlaces
<1>2. r \in Seq(Msg)
  BY JoinsPlaces
<1> QED
  BY <1>1, <1>2, CoveredJoins DEF CoverOk

LEMMA LinkOkTail ==
    ASSUME NEW n, NEW m, NEW s, NEW t, NEW t2, NEW g, NEW h, NEW map, NEW map2,
           NEW q \in Seq(Msg), q # <<>>, LinkOk(q, map, n, m, t, s, g, h),
           Right(map, s, m, t, n) \subseteq Right(map2, s, m, t2, n),
           Head(q).type = "map" => DOMAIN Head(q).ids \subseteq Right(map2, s, m, t2, n)
    PROVE  LinkOk(Tail(q), map2, n, m, t2, s, g, h)
<1>1. \A i \in 1 .. Len(Tail(q)) : i + 1 \in 1 .. Len(q) /\ Tail(q)[i] = q[i + 1]
  BY TailPlaces
<1>2. \A i \in 1 .. Len(Tail(q)) : Sound(Tail(q)[i], m, s, h, g)
  BY <1>1 DEF LinkOk
<1>3. Ordered(Tail(q), Right(map2, s, m, t2, n))
  BY OrderedTail DEF LinkOk
<1> QED
  BY <1>2, <1>3 DEF LinkOk

LEMMA CoverOkTail ==
    ASSUME NEW n, NEW m, NEW s, NEW t, NEW t2, NEW map, NEW map2,
           NEW q \in Seq(Msg), q # <<>>, CoverOk(q, map, n, m, t, s),
           Right(map, s, m, t, n) \subseteq Right(map2, s, m, t2, n),
           Head(q).type = "map" => DOMAIN Head(q).ids \subseteq Right(map2, s, m, t2, n)
    PROVE  CoverOk(Tail(q), map2, n, m, t2, s)
BY CoveredTail DEF CoverOk

LEMMA SoundHead ==
    ASSUME NEW n, NEW m, NEW s, NEW t, NEW g, NEW h, NEW map, NEW q \in Seq(Msg), q # <<>>,
           LinkOk(q, map, n, m, t, s, g, h)
    PROVE  /\ Head(q) \in Msg /\ Tail(q) \in Seq(Msg) /\ Sound(Head(q), m, s, h, g)
           /\ Head(q).type = "info" => DOMAIN Head(q).v \subseteq Right(map, s, m, t, n)
<1>1. /\ Head(q) \in Msg /\ Tail(q) \in Seq(Msg) /\ Head(q) = q[1] /\ 1 \in 1 .. Len(q)
  BY TailPlaces
<1>2. Sound(Head(q), m, s, h, g)
  BY <1>1 DEF LinkOk
<1>3. ASSUME Head(q).type = "info", NEW k \in DOMAIN Head(q).v
      PROVE  k \in Right(map, s, m, t, n)
  <2>1. Covered(q, 1 - 1, DOMAIN q[1].v, Right(map, s, m, t, n))
    BY <1>1, <1>3 DEF LinkOk, Ordered
  <2>2. ~Told(q, 1 - 1, k)
    BY DEF Told
  <2> QED
    BY <1>1, <1>3, <2>1, <2>2 DEF Covered
<1> QED
  BY <1>1, <1>2, <1>3

(* Jobs *)

LEMMA JobTypes ==
    ASSUME NEW j \in Job
    PROVE  /\ j.to \in Peer /\ j.pc \in {"map", "info", "send"}
           /\ j.pc = "send" => j.v \in Vec /\ j.asked \in Hist
           /\ j.pc = "map" => [j EXCEPT !.pc = "info"] \in Job /\ [j EXCEPT !.pc = "info"].to = j.to
                              /\ [j EXCEPT !.pc = "info"].pc = "info"
BY DEF Job

LEMMA JobsOkGrow ==
    ASSUME NEW n, NEW g \in Hist, NEW g2 \in Hist, Below(g, g2), NEW js \in Seq(Job), JobsOk(js, n, g)
    PROVE  JobsOk(js, n, g2)
<1>1. \A i \in 1 .. Len(js) : js[i] \in Job
  OBVIOUS
<1>2. \A i \in 1 .. Len(js) : js[i].pc = "send" => Below(js[i].asked, g2)
  BY <1>1, JobTypes, BelowTwice DEF JobsOk
<1> QED
  BY <1>2 DEF JobsOk

LEMMA JobsOkTail ==
    ASSUME NEW n, NEW g, NEW js \in Seq(Job), js # <<>>, JobsOk(js, n, g)
    PROVE  /\ Head(js) \in Job /\ Tail(js) \in Seq(Job) /\ Head(js).to # n
           /\ Head(js).pc = "send" => Fits(Head(js).v, Head(js).asked) /\ Below(Head(js).asked, g)
           /\ JobsOk(Tail(js), n, g) /\ \A k : ~Waits(Tail(js), k)
<1>1. Head(js) \in Job /\ Tail(js) \in Seq(Job)
  BY Popped
<1>2. Len(js) \in Nat /\ Len(js) # 0
  BY EmptySeq
<1>3. /\ Head(js) = js[1] /\ 1 \in 1 .. Len(js) /\ Len(Tail(js)) = Len(js) - 1
      /\ \A i \in 1 .. Len(Tail(js)) : i + 1 \in 1 .. Len(js) /\ Tail(js)[i] = js[i + 1] /\ i + 1 # 1
  BY <1>2, HeadTailProperties
<1>4. \A i \in 1 .. Len(Tail(js)) : Tail(js)[i].pc # "info"
  BY <1>3 DEF JobsOk
<1>5. JobsOk(Tail(js), n, g)
  BY <1>3, <1>4 DEF JobsOk
<1>6. \A k : ~Waits(Tail(js), k)
  <2>1. ASSUME Tail(js) # <<>> PROVE Head(Tail(js)) = Tail(js)[1] /\ 1 \in 1 .. Len(Tail(js))
    <3>1. Len(Tail(js)) \in Nat /\ Len(Tail(js)) # 0
      BY <1>1, <2>1, EmptySeq
    <3> QED
      BY <1>1, <2>1, <3>1, HeadTailProperties
  <2> QED
    BY <1>4, <2>1 DEF Waits
<1> QED
  BY <1>1, <1>3, <1>5, <1>6 DEF JobsOk

LEMMA JobsOkHead ==
    ASSUME NEW n, NEW g, NEW js \in Seq(Job), js # <<>>, JobsOk(js, n, g)
    PROVE  /\ Head(js).to \in Peer /\ Head(js).to # n
           /\ Head(js).pc = "send" => /\ Head(js).v \in Vec /\ Head(js).asked \in Hist
                                      /\ Fits(Head(js).v, Head(js).asked) /\ Below(Head(js).asked, g)
<1> DEFINE j == Head(js)
<1>1. /\ j \in Job /\ j.to # n
      /\ j.pc = "send" => Fits(j.v, j.asked) /\ Below(j.asked, g)
  BY JobsOkTail
<1> HIDE DEF j
<1>2. j.to \in Peer /\ (j.pc = "send" => j.v \in Vec /\ j.asked \in Hist)
  BY <1>1, JobTypes
<1> QED
  BY <1>1, <1>2 DEF j

LEMMA JobsOkAppend ==
    ASSUME NEW n, NEW g, NEW js \in Seq(Job), JobsOk(js, n, g), NEW j \in Job, j.to # n, j.pc # "info",
           j.pc = "send" => Fits(j.v, j.asked) /\ Below(j.asked, g)
    PROVE  /\ Append(js, j) \in Seq(Job) /\ JobsOk(Append(js, j), n, g)
           /\ \A k : Waits(Append(js, j), k) => Waits(js, k)
<1>1. /\ Append(js, j) \in Seq(Job) /\ Len(Append(js, j)) = Len(js) + 1
      /\ \A i \in 1 .. Len(js) : Append(js, j)[i] = js[i]
      /\ Append(js, j)[Len(js) + 1] = j /\ Len(js) \in Nat
  BY AppendProperties
<1>2. ASSUME NEW i \in 1 .. Len(js) + 1
      PROVE  i \in 1 .. Len(js) \/ i = Len(js) + 1
  BY <1>1
<1>3. JobsOk(Append(js, j), n, g)
  BY <1>1, <1>2 DEF JobsOk
<1>4. \A k : Waits(Append(js, j), k) => Waits(js, k)
  <2>1. CASE js = <<>>
    <3>1. Head(Append(js, j)) = j
      BY <2>1
    <3> QED
      BY <3>1 DEF Waits
  <2>2. CASE js # <<>>
    <3>1. Head(Append(js, j)) = Head(js)
      BY <2>2, HeadStays
    <3> QED
      BY <2>2, <3>1 DEF Waits
  <2> QED
    BY <2>1, <2>2
<1> QED
  BY <1>1, <1>3, <1>4

LEMMA JobsOkInfo ==
    ASSUME NEW n, NEW g, NEW js \in Seq(Job), js # <<>>, JobsOk(js, n, g), Head(js).pc = "map"
    PROVE  /\ [js EXCEPT ![1].pc = "info"] \in Seq(Job) /\ JobsOk([js EXCEPT ![1].pc = "info"], n, g)
           /\ \A k : Waits([js EXCEPT ![1].pc = "info"], k) => k = Head(js).to
<1> DEFINE e == [js[1] EXCEPT !.pc = "info"]
           r == [js EXCEPT ![1] = e]
<1>1. r = [js EXCEPT ![1].pc = "info"]
  OBVIOUS
<1>2. Len(js) \in Nat /\ Len(js) # 0 /\ Head(js) = js[1] /\ js[1] \in Job /\ 1 \in 1 .. Len(js)
  BY EmptySeq, Popped, HeadTailProperties
<1>3. e \in Job /\ e.to = Head(js).to /\ e.pc = "info"
  BY <1>2, JobTypes
<1> HIDE DEF e
<1>4. r \in Seq(Job)
  BY <1>3, ReplacedHead
<1>5. Len(r) = Len(js) /\ r[1] = e /\ \A i \in 1 .. Len(js) : i # 1 => r[i] = js[i]
  BY <1>2
<1> HIDE DEF r
<1>6. JobsOk(r, n, g)
  BY <1>2, <1>3, <1>5 DEF JobsOk
<1>7. Head(r) = e
  <2>1. r # <<>>
    BY <1>2, <1>4, <1>5, EmptySeq
  <2> QED
    BY <1>4, <1>5, <2>1, HeadTailProperties
<1>8. \A k : Waits(r, k) => k = Head(js).to
  BY <1>3, <1>7 DEF Waits
<1> QED
  BY <1>1, <1>4, <1>6, <1>8
-----------------------------------------------------------------------------
(* What is on its way, as links, tables, numberings and jobs change *)

LEMMA Pairs ==
    /\ \A a \in Peer, b \in Peer : a # b => <<a, b>> \in Link
    /\ \A l \in Link : l = <<l[1], l[2]>> /\ l[1] \in Peer /\ l[2] \in Peer /\ l[1] # l[2]
BY DEF Link

KnownOk(kn) == \A n \in Peer : kn[n] \in Keys(n)

LEMMA NetJoins ==
    ASSUME NEW lk \in [Link -> Seq(Msg)], NEW tr, NEW kn, KnownOk(kn), NEW th, NEW js, NEW u,
           Net(lk, tr, kn, th, js, u),
           NEW n \in Peer, NEW m \in Peer, n # m, {n, m} \in u,
           NEW x \in Msg, Sound(x, n, kn[n], th[n], th[m]),
           x.type = "info" => CoverOk(lk[<<n, m>>], tr[<<m, n>>], m, n, kn[m], kn[n]) /\ DOMAIN x.v \subseteq Ids(kn[n]),
           NEW js2, \A a \in Peer, b \in Peer : Waits(js2[a], b) =>
              Waits(js[a], b) \/ (a = n /\ b = m /\ x.type = "map" /\ Ids(kn[n]) \subseteq DOMAIN x.ids),
           NEW r \in Joins(lk[<<n, m>>], x)
    PROVE  /\ [lk EXCEPT ![<<n, m>>] = r] \in [Link -> Seq(Msg)]
           /\ Net([lk EXCEPT ![<<n, m>>] = r], tr, kn, th, js2, u)
<1> DEFINE k2 == [lk EXCEPT ![<<n, m>>] = r]
<1>1. <<n, m>> \in Link /\ lk[<<n, m>>] \in Seq(Msg)
  BY Pairs
<1>2. LinkOk(lk[<<n, m>>], tr[<<m, n>>], m, n, kn[m], kn[n], th[m], th[n])
  BY DEF Net, LinksOk
<1>3. x.type = "info" => Covered(lk[<<n, m>>], Len(lk[<<n, m>>]), DOMAIN x.v, Right(tr[<<m, n>>], kn[n], n, kn[m], m))
  BY DEF CoverOk, Covered
<1>4. r \in Seq(Msg) /\ LinkOk(r, tr[<<m, n>>], m, n, kn[m], kn[n], th[m], th[n])
  BY <1>1, <1>2, <1>3, LinkOkJoins
<1>5. /\ k2 \in [Link -> Seq(Msg)] /\ k2[<<n, m>>] = r
      /\ \A a \in Peer, b \in Peer : a # b /\ (a # m \/ b # n) => k2[<<b, a>>] = lk[<<b, a>>]
  BY <1>1, <1>4, Pairs
<1> HIDE DEF k2
<1>6. LinksOk(k2, tr, kn, th)
  <2> SUFFICES ASSUME NEW a \in Peer, NEW b \in Peer, a # b
               PROVE  LinkOk(k2[<<b, a>>], tr[<<a, b>>], a, b, kn[a], kn[b], th[a], th[b])
    BY DEF LinksOk
  <2>1. LinkOk(lk[<<b, a>>], tr[<<a, b>>], a, b, kn[a], kn[b], th[a], th[b])
    BY DEF Net, LinksOk
  <2>2. CASE a = m /\ b = n
    BY <1>4, <1>5, <2>2
  <2>3. CASE a # m \/ b # n
    BY <1>5, <2>1, <2>3
  <2> QED
    BY <2>2, <2>3
<1>7. HalvesOk(k2, tr, kn, js2, u)
  <2> SUFFICES ASSUME NEW a \in Peer, NEW b \in Peer, a # b, Waits(js2[b], a), {a, b} \in u
               PROVE  CoverOk(k2[<<b, a>>], tr[<<a, b>>], a, b, kn[a], kn[b])
    BY DEF HalvesOk
  <2>1. Waits(js[b], a) => CoverOk(lk[<<b, a>>], tr[<<a, b>>], a, b, kn[a], kn[b])
    BY DEF Net, HalvesOk
  <2>2. CASE a = m /\ b = n
    <3>1. CoverOk(lk[<<n, m>>], tr[<<m, n>>], m, n, kn[m], kn[n]) \/ (x.type = "map" /\ Ids(kn[n]) \subseteq DOMAIN x.ids)
      BY <2>1, <2>2
    <3>2. CoverOk(r, tr[<<m, n>>], m, n, kn[m], kn[n])
      BY <1>1, <3>1, CoverOkJoins
    <3> QED
      BY <1>5, <2>2, <3>2
  <2>3. CASE a # m \/ b # n
    BY <1>5, <2>1, <2>3
  <2> QED
    BY <2>2, <2>3
<1>8. Quiet(k2, u)
  <2> SUFFICES ASSUME NEW a \in Peer, NEW b \in Peer, a # b, {a, b} \notin u
               PROVE  k2[<<b, a>>] = <<>>
    BY DEF Quiet
  <2>1. lk[<<b, a>>] = <<>>
    BY DEF Net, Quiet
  <2>2. a # m \/ b # n
    OBVIOUS
  <2> QED
    BY <1>5, <2>1, <2>2
<1> QED
  BY <1>5, <1>6, <1>7, <1>8 DEF Net, k2

\* The next message of m is handled by n, whose table for m becomes map.
LEMMA NetTail ==
    ASSUME NEW lk \in [Link -> Seq(Msg)], NEW tr \in [Link -> Vec], NEW kn, KnownOk(kn),
           NEW th, NEW js, NEW u, Net(lk, tr, kn, th, js, u),
           NEW n \in Peer, NEW m \in Peer, n # m, lk[<<m, n>>] # <<>>,
           NEW map, Right(tr[<<n, m>>], kn[m], m, kn[n], n) \subseteq Right(map, kn[m], m, kn[n], n),
           Head(lk[<<m, n>>]).type = "map" => DOMAIN Head(lk[<<m, n>>]).ids \subseteq Right(map, kn[m], m, kn[n], n)
    PROVE  /\ [lk EXCEPT ![<<m, n>>] = Tail(@)] \in [Link -> Seq(Msg)]
           /\ Net([lk EXCEPT ![<<m, n>>] = Tail(@)], [tr EXCEPT ![<<n, m>>] = map], kn, th, js, u)
<1> DEFINE q == lk[<<m, n>>]
           k2 == [lk EXCEPT ![<<m, n>>] = Tail(q)]
           t2 == [tr EXCEPT ![<<n, m>>] = map]
<1>1. <<m, n>> \in Link /\ <<n, m>> \in Link /\ q \in Seq(Msg) /\ q # <<>>
  BY Pairs
<1>2. Tail(q) \in Seq(Msg)
  BY <1>1, Popped
<1>3. k2 = [lk EXCEPT ![<<m, n>>] = Tail(@)]
  OBVIOUS
<1>4. /\ k2 \in [Link -> Seq(Msg)] /\ k2[<<m, n>>] = Tail(q)
      /\ \A a \in Peer, b \in Peer : a # b /\ (a # n \/ b # m) => k2[<<b, a>>] = lk[<<b, a>>]
  BY <1>1, <1>2, Pairs
<1>5. /\ t2[<<n, m>>] = map
      /\ \A a \in Peer, b \in Peer : a # b /\ (a # n \/ b # m) => t2[<<a, b>>] = tr[<<a, b>>]
  BY <1>1, Pairs
<1> HIDE DEF k2, t2
<1>6. LinksOk(k2, t2, kn, th)
  <2> SUFFICES ASSUME NEW a \in Peer, NEW b \in Peer, a # b
               PROVE  LinkOk(k2[<<b, a>>], t2[<<a, b>>], a, b, kn[a], kn[b], th[a], th[b])
    BY DEF LinksOk
  <2>1. LinkOk(lk[<<b, a>>], tr[<<a, b>>], a, b, kn[a], kn[b], th[a], th[b])
    BY DEF Net, LinksOk
  <2>2. CASE a = n /\ b = m
    <3>1. LinkOk(q, tr[<<n, m>>], n, m, kn[n], kn[m], th[n], th[m])
      BY <2>1, <2>2
    <3>2. LinkOk(Tail(q), map, n, m, kn[n], kn[m], th[n], th[m])
      BY <1>1, <3>1, LinkOkTail
    <3> QED
      BY <1>4, <1>5, <2>2, <3>2
  <2>3. CASE a # n \/ b # m
    BY <1>4, <1>5, <2>1, <2>3
  <2> QED
    BY <2>2, <2>3
<1>7. HalvesOk(k2, t2, kn, js, u)
  <2> SUFFICES ASSUME NEW a \in Peer, NEW b \in Peer, a # b, Waits(js[b], a), {a, b} \in u
               PROVE  CoverOk(k2[<<b, a>>], t2[<<a, b>>], a, b, kn[a], kn[b])
    BY DEF HalvesOk
  <2>1. CoverOk(lk[<<b, a>>], tr[<<a, b>>], a, b, kn[a], kn[b])
    BY DEF Net, HalvesOk
  <2>2. CASE a = n /\ b = m
    <3>1. CoverOk(q, tr[<<n, m>>], n, m, kn[n], kn[m])
      BY <2>1, <2>2
    <3>2. CoverOk(Tail(q), map, n, m, kn[n], kn[m])
      BY <1>1, <3>1, CoverOkTail
    <3> QED
      BY <1>4, <1>5, <2>2, <3>2
  <2>3. CASE a # n \/ b # m
    BY <1>4, <1>5, <2>1, <2>3
  <2> QED
    BY <2>2, <2>3
<1>8. Quiet(k2, u)
  <2> SUFFICES ASSUME NEW a \in Peer, NEW b \in Peer, a # b, {a, b} \notin u
               PROVE  k2[<<b, a>>] = <<>>
    BY DEF Quiet
  <2>1. lk[<<b, a>>] = <<>>
    BY DEF Net, Quiet
  <2>2. a # n \/ b # m
    BY <1>1, <2>1
  <2> QED
    BY <1>4, <2>1, <2>2
<1> QED
  BY <1>3, <1>4, <1>6, <1>7, <1>8 DEF Net, t2

LEMMA NetTailPlain ==
    ASSUME NEW lk \in [Link -> Seq(Msg)], NEW tr \in [Link -> Vec], NEW kn, KnownOk(kn),
           NEW th, NEW js, NEW u, Net(lk, tr, kn, th, js, u),
           NEW n \in Peer, NEW m \in Peer, n # m, lk[<<m, n>>] # <<>>,
           Head(lk[<<m, n>>]).type # "map"
    PROVE  /\ [lk EXCEPT ![<<m, n>>] = Tail(@)] \in [Link -> Seq(Msg)]
           /\ Net([lk EXCEPT ![<<m, n>>] = Tail(@)], tr, kn, th, js, u)
<1>1. [tr EXCEPT ![<<n, m>>] = tr[<<n, m>>]] = tr
  OBVIOUS
<1>2. Right(tr[<<n, m>>], kn[m], m, kn[n], n) \subseteq Right(tr[<<n, m>>], kn[m], m, kn[n], n)
  OBVIOUS
<1>3. /\ [lk EXCEPT ![<<m, n>>] = Tail(@)] \in [Link -> Seq(Msg)]
      /\ Net([lk EXCEPT ![<<m, n>>] = Tail(@)], [tr EXCEPT ![<<n, m>>] = tr[<<n, m>>]], kn, th, js, u)
  BY <1>2, NetTail
<1> QED
  BY <1>1, <1>3

\* Numberings and histories grow; who is halfway through SendTree learns nothing.
LEMMA NetGrows ==
    ASSUME NEW lk \in [Link -> Seq(Msg)], NEW tr, NEW kn, KnownOk(kn), NEW kn2, KnownOk(kn2),
           \A a \in Peer : Extends(kn2[a], kn[a]),
           NEW th \in [Peer -> Hist], NEW th2 \in [Peer -> Hist], \A a \in Peer : Below(th[a], th2[a]),
           NEW js, NEW u, Net(lk, tr, kn, th, js, u),
           \A a \in Peer, b \in Peer : Waits(js[a], b) => kn2[a] = kn[a]
    PROVE  Net(lk, tr, kn2, th2, js, u)
<1>1. LinksOk(lk, tr, kn2, th2)
  <2> SUFFICES ASSUME NEW a \in Peer, NEW b \in Peer, a # b
               PROVE  LinkOk(lk[<<b, a>>], tr[<<a, b>>], a, b, kn2[a], kn2[b], th2[a], th2[b])
    BY DEF LinksOk
  <2>1. LinkOk(lk[<<b, a>>], tr[<<a, b>>], a, b, kn[a], kn[b], th[a], th[b])
    BY DEF Net, LinksOk
  <2>2. lk[<<b, a>>] \in Seq(Msg)
    BY Pairs
  <2>3. /\ kn[a] \in Keys(a) /\ kn2[a] \in Keys(a) /\ Extends(kn2[a], kn[a])
        /\ kn[b] \in Keys(b) /\ kn2[b] \in Keys(b) /\ Extends(kn2[b], kn[b])
    BY DEF KnownOk
  <2>4. /\ th[a] \in Hist /\ th2[a] \in Hist /\ Below(th[a], th2[a])
        /\ th[b] \in Hist /\ th2[b] \in Hist /\ Below(th[b], th2[b])
    OBVIOUS
  <2> QED
    BY <2>1, <2>2, <2>3, <2>4, LinkOkStays
<1>2. HalvesOk(lk, tr, kn2, js, u)
  <2> SUFFICES ASSUME NEW a \in Peer, NEW b \in Peer, a # b, Waits(js[b], a), {a, b} \in u
               PROVE  CoverOk(lk[<<b, a>>], tr[<<a, b>>], a, b, kn2[a], kn2[b])
    BY DEF HalvesOk
  <2>1. CoverOk(lk[<<b, a>>], tr[<<a, b>>], a, b, kn[a], kn[b])
    BY DEF Net, HalvesOk
  <2>2. kn2[b] = kn[b]
    OBVIOUS
  <2>3. /\ kn[a] \in Keys(a) /\ kn2[a] \in Keys(a) /\ Extends(kn2[a], kn[a])
        /\ kn[b] \in Keys(b) /\ Extends(kn[b], kn[b])
    BY ExtendsItself DEF KnownOk
  <2>4. Right(tr[<<a, b>>], kn[b], b, kn[a], a) \subseteq Right(tr[<<a, b>>], kn[b], b, kn2[a], a)
    BY <2>3, RightGrows
  <2> QED
    BY <2>1, <2>2, <2>4 DEF CoverOk, Covered
<1> QED
  BY <1>1, <1>2 DEF Net

LEMMA NetJobs ==
    ASSUME NEW lk, NEW tr, NEW kn, NEW th, NEW js, NEW u, Net(lk, tr, kn, th, js, u),
           NEW js2, \A a \in Peer, b \in Peer : Waits(js2[a], b) /\ {a, b} \in u => Waits(js[a], b)
    PROVE  Net(lk, tr, kn, th, js2, u)
<1>1. \A a \in Peer, b \in Peer : {a, b} = {b, a}
  OBVIOUS
<1> QED
  BY <1>1 DEF Net, HalvesOk

\* A connection starts or ends with nothing on its way.
LEMMA NetConnects ==
    ASSUME NEW lk, NEW tr \in [Link -> Vec], NEW kn, NEW th, NEW js, NEW u, Net(lk, tr, kn, th, js, u),
           NEW n \in Peer, NEW m \in Peer, n # m, {n, m} \notin u,
           ~Waits(js[n], m), ~Waits(js[m], n), NEW e, NEW f
    PROVE  Net(lk, [tr EXCEPT ![<<n, m>>] = e, ![<<m, n>>] = f], kn, th, js, u \cup {{n, m}})
<1> DEFINE t2 == [tr EXCEPT ![<<n, m>>] = e, ![<<m, n>>] = f]
           u2 == u \cup {{n, m}}
<1>1. lk[<<n, m>>] = <<>> /\ lk[<<m, n>>] = <<>>
  <2>1. {m, n} = {n, m}
    OBVIOUS
  <2> QED
    BY <2>1 DEF Net, Quiet
<1>2. \A a \in Peer, b \in Peer : a # b /\ {a, b} # {n, m} => t2[<<a, b>>] = tr[<<a, b>>]
  BY Pairs
<1> HIDE DEF t2
<1>3. \A a \in Peer, b \in Peer : {a, b} = {n, m} /\ a # b => (a = n /\ b = m) \/ (a = m /\ b = n)
  OBVIOUS
<1>4. LinksOk(lk, t2, kn, th)
  <2> SUFFICES ASSUME NEW a \in Peer, NEW b \in Peer, a # b
               PROVE  LinkOk(lk[<<b, a>>], t2[<<a, b>>], a, b, kn[a], kn[b], th[a], th[b])
    BY DEF LinksOk
  <2>1. LinkOk(lk[<<b, a>>], tr[<<a, b>>], a, b, kn[a], kn[b], th[a], th[b])
    BY DEF Net, LinksOk
  <2>2. CASE {a, b} = {n, m}
    <3>1. lk[<<b, a>>] = <<>>
      BY <1>1, <1>3, <2>2
    <3>2. \A g \in 1 .. Len(lk[<<b, a>>]) : FALSE
      BY <3>1
    <3> QED
      BY <3>2 DEF LinkOk, Ordered
  <2>3. CASE {a, b} # {n, m}
    BY <1>2, <2>1, <2>3
  <2> QED
    BY <2>2, <2>3
<1>5. HalvesOk(lk, t2, kn, js, u2)
  <2> SUFFICES ASSUME NEW a \in Peer, NEW b \in Peer, a # b, Waits(js[b], a), {a, b} \in u2
               PROVE  CoverOk(lk[<<b, a>>], t2[<<a, b>>], a, b, kn[a], kn[b])
    BY DEF HalvesOk
  <2>1. {a, b} # {n, m}
    BY <1>3
  <2>2. CoverOk(lk[<<b, a>>], tr[<<a, b>>], a, b, kn[a], kn[b])
    BY <2>1 DEF Net, HalvesOk
  <2> QED
    BY <1>2, <2>1, <2>2
<1>6. Quiet(lk, u2)
  BY DEF Net, Quiet
<1> QED
  BY <1>4, <1>5, <1>6 DEF Net, t2

LEMMA NetDrops ==
    ASSUME NEW lk \in [Link -> Seq(Msg)], NEW tr, NEW kn, NEW th, NEW js, NEW u, Net(lk, tr, kn, th, js, u),
           NEW n \in Peer, NEW m \in Peer, n # m
    PROVE  /\ [lk EXCEPT ![<<n, m>>] = <<>>, ![<<m, n>>] = <<>>] \in [Link -> Seq(Msg)]
           /\ Net([lk EXCEPT ![<<n, m>>] = <<>>, ![<<m, n>>] = <<>>], tr, kn, th, js, u \ {{n, m}})
<1> DEFINE k2 == [lk EXCEPT ![<<n, m>>] = <<>>, ![<<m, n>>] = <<>>]
           u2 == u \ {{n, m}}
<1>1. <<n, m>> \in Link /\ <<m, n>> \in Link
  BY Pairs
<1>2. /\ k2 \in [Link -> Seq(Msg)] /\ k2[<<n, m>>] = <<>> /\ k2[<<m, n>>] = <<>>
      /\ \A a \in Peer, b \in Peer : a # b /\ {a, b} # {n, m} => k2[<<b, a>>] = lk[<<b, a>>]
  <2>1. <<>> \in Seq(Msg)
    OBVIOUS
  <2> QED
    <3>1. <<n, m>> # <<m, n>>
      OBVIOUS
    <3>2. k2 \in [Link -> Seq(Msg)] /\ k2[<<n, m>>] = <<>> /\ k2[<<m, n>>] = <<>>
      BY <1>1, <2>1, <3>1
    <3>3. ASSUME NEW l \in Link, l # <<n, m>>, l # <<m, n>> PROVE k2[l] = lk[l]
      BY <3>3
    <3>4. ASSUME NEW a \in Peer, NEW b \in Peer, a # b, {a, b} # {n, m} PROVE k2[<<b, a>>] = lk[<<b, a>>]
      <4>1. <<b, a>> \in Link /\ <<b, a>> # <<n, m>> /\ <<b, a>> # <<m, n>>
        BY <3>4, Pairs
      <4> QED
        BY <3>3, <4>1, Zenon
    <3> QED
      BY <3>2, <3>4, Zenon
<1> HIDE DEF k2
<1>3. \A a \in Peer, b \in Peer : {a, b} = {n, m} /\ a # b => (a = n /\ b = m) \/ (a = m /\ b = n)
  OBVIOUS
<1>4. LinksOk(k2, tr, kn, th)
  <2> SUFFICES ASSUME NEW a \in Peer, NEW b \in Peer, a # b
               PROVE  LinkOk(k2[<<b, a>>], tr[<<a, b>>], a, b, kn[a], kn[b], th[a], th[b])
    BY DEF LinksOk
  <2>1. LinkOk(lk[<<b, a>>], tr[<<a, b>>], a, b, kn[a], kn[b], th[a], th[b])
    BY DEF Net, LinksOk
  <2>2. CASE {a, b} = {n, m}
    <3>1. k2[<<b, a>>] = <<>>
      BY <1>2, <1>3, <2>2
    <3>2. \A g \in 1 .. Len(k2[<<b, a>>]) : FALSE
      BY <3>1
    <3> QED
      BY <3>2 DEF LinkOk, Ordered
  <2>3. CASE {a, b} # {n, m}
    BY <1>2, <2>1, <2>3
  <2> QED
    BY <2>2, <2>3
<1>5. HalvesOk(k2, tr, kn, js, u2)
  <2> SUFFICES ASSUME NEW a \in Peer, NEW b \in Peer, a # b, Waits(js[b], a), {a, b} \in u2
               PROVE  CoverOk(k2[<<b, a>>], tr[<<a, b>>], a, b, kn[a], kn[b])
    BY DEF HalvesOk
  <2>1. {a, b} # {n, m} /\ {a, b} \in u
    OBVIOUS
  <2>2. CoverOk(lk[<<b, a>>], tr[<<a, b>>], a, b, kn[a], kn[b])
    BY <2>1 DEF Net, HalvesOk
  <2> QED
    BY <1>2, <2>1, <2>2
<1>6. Quiet(k2, u2)
  <2> SUFFICES ASSUME NEW a \in Peer, NEW b \in Peer, a # b, {a, b} \notin u2
               PROVE  k2[<<b, a>>] = <<>>
    BY DEF Quiet
  <2>1. CASE {a, b} = {n, m}
    BY <1>2, <1>3, <2>1
  <2>2. CASE {a, b} # {n, m}
    BY <1>2, <2>2 DEF Net, Quiet
  <2> QED
    BY <2>1, <2>2
<1> QED
  BY <1>2, <1>4, <1>5, <1>6 DEF Net, k2
-----------------------------------------------------------------------------
(* Edits and jobs *)

LEMMA IdMapNamesAll ==
    ASSUME NEW n \in Peer, known[n] \in Keys(n)
    PROVE  /\ IdMap(n) \in IdMaps /\ DOMAIN IdMap(n) = Ids(known[n]) /\ 0 \in DOMAIN IdMap(n)
           /\ \A k \in DOMAIN IdMap(n) : IdMap(n)[k] = Name(known[n], n, k)
<1> DEFINE s == known[n]
           f == IdMap(n)
<1>1. s \in Seq(Peer) /\ DOMAIN s = 1 .. Len(s) /\ Len(s) \in Nat
  BY DEF Keys
<1>2. DOMAIN s \cup {0} = Ids(s) /\ Ids(s) \in SUBSET Nat /\ IsFiniteSet(Ids(s))
  <2>1. PICK k \in Nat : k = Len(s)
    BY <1>1, Zenon
  <2>2. Ids(s) = 0 .. k /\ DOMAIN s = 1 .. k
    BY <1>1, <2>1, Zenon DEF Ids
  <2>3. IsFiniteSet(0 .. k)
    BY FS_Interval
  <2>4. (1 .. k) \cup {0} = 0 .. k /\ 0 .. k \in SUBSET Nat
    OBVIOUS
  <2> QED
    BY <2>2, <2>3, <2>4, Zenon
<1>3. f = [i \in Ids(s) |-> IF i = 0 THEN n ELSE s[i]]
  BY <1>2 DEF IdMap
<1>4. DOMAIN f = Ids(s) /\ \A k \in Ids(s) : f[k] = Name(s, n, k)
  BY <1>3 DEF Name
<1>5. f = [i \in Ids(s) |-> f[i]]
  BY <1>3
<1> HIDE DEF f
<1>6. f \in [Ids(s) -> Peer]
  BY <1>4, <1>5, NameIsPeer
<1>7. f \in UNION {[D -> Peer] : D \in SUBSET Nat}
  BY <1>2, <1>6
<1>8. \A i \in DOMAIN f, j \in DOMAIN f : f[i] = f[j] => i = j
  BY <1>4, NameApart
<1>9. f \in IdMaps
  BY <1>2, <1>4, <1>7, <1>8 DEF IdMaps
<1>10. 0 \in Ids(s)
  BY IdsAreNat
<1> QED
  BY <1>4, <1>9, <1>10 DEF f

LEMMA MapMsgIs ==
    ASSUME NEW f \in IdMaps
    PROVE  [type |-> "map", ids |-> f] \in Msg
BY DEF Msg, MapMsg

LEMMA PeerFacts ==
    ASSUME IdsInv, NEW n \in Peer
    PROVE  /\ known[n] \in Keys(n) /\ version[n] \in Vec /\ truth[n] \in Hist /\ truth[n] \in [Peer -> Nat]
           /\ workers[n] \in Seq(Vec) /\ jobs[n] \in Seq(Job)
           /\ Stands(known[n], n, version[n], truth[n]) /\ JobsOk(jobs[n], n, truth[n])
BY DEF IdsInv, Types, KnownInv, RowsInv, JobsInv, Hist

LEMMA LinkFacts ==
    ASSUME IdsInv, NEW n \in Peer, NEW m \in Peer, n # m
    PROVE  /\ <<m, n>> \in Link /\ link[<<m, n>>] \in Seq(Msg)
           /\ <<n, m>> \in Link /\ trans[<<n, m>>] \in Vec
           /\ LinkOk(link[<<m, n>>], trans[<<n, m>>], n, m, known[n], known[m], truth[n], truth[m])
           /\ row[<<n, m>>] \in Row
           /\ row[<<n, m>>] # None => Stands(known[n], n, row[<<n, m>>].v, row[<<n, m>>].means)
BY Pairs DEF IdsInv, Types, DownInv, NetInv, Net, LinksOk

LEMMA InitIds == Init => IdsInv
<1> SUFFICES ASSUME Init PROVE IdsInv
  OBVIOUS
<1>1. NoMap \in Vec
  <2>1. DOMAIN NoMap = {} /\ NoMap = [k \in DOMAIN NoMap |-> NoMap[k]]
    BY DEF NoMap
  <2> QED
    BY <2>1, IsVec
<1>2. Cardinality(Peer) \in Nat
  BY PeerAssumption, FS_CardinalityType
<1>3. Types
  <2>1. <<>> \in Seq(Peer) /\ <<>> \in Seq(Job) /\ <<>> \in Seq(Msg)
    OBVIOUS
  <2>2. [k \in {0} |-> 0] \in Vec
    <3>1. /\ DOMAIN [k \in {0} |-> 0] \in SUBSET Nat
          /\ \A k \in DOMAIN [i \in {0} |-> 0] : [i \in {0} |-> 0][k] \in Nat
      OBVIOUS
    <3> QED
      BY <3>1, IsVec
  <2>3. [i \in 1 .. Cardinality(Peer) |-> NoMap] \in Seq(Vec)
    BY <1>1, <1>2
  <2>4. known \in [Peer -> Seq(Peer)] /\ jobs \in [Peer -> Seq(Job)] /\ link \in [Link -> Seq(Msg)]
    BY <2>1 DEF Init
  <2>5. version \in [Peer -> Vec] /\ truth \in [Peer -> Hist]
    BY <2>2, NoHistory DEF Init
  <2>6. workers \in [Peer -> Seq(Vec)]
    BY <2>3, Zenon DEF Init
  <2>7. trans \in [Link -> Vec] /\ row \in [Link -> Row]
    BY <1>1 DEF Init, Row
  <2> QED
    BY <2>4, <2>5, <2>6, <2>7 DEF Types
<1>4. \A n \in Peer : known[n] = <<>> /\ jobs[n] = <<>>
  BY DEF Init
<1>5. KnownInv
  <2>1. \A n \in Peer : <<>> \in Keys(n)
    BY DEF Keys, Range, IsInjective
  <2> QED
    BY <1>4, <2>1 DEF KnownInv
<1>6. RowsInv
  <2> SUFFICES ASSUME NEW n \in Peer PROVE Stands(known[n], n, version[n], truth[n])
    BY DEF RowsInv
  <2>1. version[n] = [k \in {0} |-> 0] /\ truth[n] = [p \in Peer |-> 0] /\ 0 \in Ids(known[n]) /\ Name(known[n], n, 0) = n
    BY <1>4 DEF Init, Zero, Ids, Name
  <2> QED
    BY <2>1 DEF Stands
<1>7. DownInv
  BY DEF Init, DownInv
<1>8. JobsInv
  BY <1>4 DEF JobsInv, JobsOk
<1>9. \A n \in Peer, m \in Peer : n # m => link[<<m, n>>] = <<>>
  BY Pairs DEF Init
<1>10. LinksOk(link, trans, known, truth)
  BY <1>9 DEF LinksOk, LinkOk, Ordered
<1>11. HalvesOk(link, trans, known, jobs, up)
  BY <1>4 DEF HalvesOk, Waits
<1>12. Quiet(link, up)
  BY <1>9 DEF Quiet
<1> QED
  BY <1>3, <1>5, <1>6, <1>7, <1>8, <1>10, <1>11, <1>12 DEF IdsInv, NetInv, Net

\* Edit
LEMMA EditKeeps ==
    ASSUME IdsInv, NEW n \in Peer, Edit(n)
    PROVE  IdsInv'
<1>1. /\ known[n] \in Keys(n) /\ version[n] \in Vec /\ truth[n] \in Hist
      /\ Stands(known[n], n, version[n], truth[n])
  BY PeerFacts
<1> DEFINE v == Put(version[n], 0, At(version[n], 0) + 1)
           h == [truth[n] EXCEPT ![n] = @ + 1]
<1>2. v \in Vec /\ h \in Hist /\ Below(truth[n], h) /\ Stands(known[n], n, v, h)
  BY <1>1, EditedRows
<1>3. /\ UNCHANGED <<known, workers, trans, up, jobs, link, row>>
      /\ version' = [version EXCEPT ![n] = v] /\ truth' = [truth EXCEPT ![n] = h]
  BY DEF Edit
<1> HIDE DEF v, h
<1>4. version \in [Peer -> Vec] /\ truth \in [Peer -> Hist] /\ Types
  BY DEF IdsInv, Types
<1>5. version' \in [Peer -> Vec] /\ truth' \in [Peer -> Hist]
  BY <1>2, <1>3, <1>4
<1>6. Types'
  BY <1>3, <1>4, <1>5 DEF Types
<1>7. \A a \in Peer : Below(truth[a], truth'[a])
  BY <1>2, <1>3, <1>4, BelowItself
<1>8. KnownInv' /\ DownInv'
  BY <1>3 DEF IdsInv, KnownInv, DownInv
<1>9. RowsInv'
  BY <1>2, <1>3, <1>4 DEF IdsInv, RowsInv
<1>10. JobsInv'
  <2>1. ASSUME NEW a \in Peer PROVE JobsOk(jobs[a], a, truth'[a])
    BY <1>4, <1>5, <1>7, PeerFacts, JobsOkGrow
  <2> QED
    BY <1>3, <2>1 DEF JobsInv
<1>11. NetInv'
  <2>1. KnownOk(known) /\ \A a \in Peer : Extends(known[a], known[a])
    BY ExtendsItself DEF IdsInv, KnownInv, KnownOk
  <2>2. link \in [Link -> Seq(Msg)] /\ Net(link, trans, known, truth, jobs, up)
    BY DEF IdsInv, Types, NetInv
  <2>3. Net(link, trans, known, truth', jobs, up)
    BY <1>4, <1>5, <1>7, <2>1, <2>2, NetGrows
  <2> QED
    BY <1>3, <2>3 DEF NetInv
<1> QED
  BY <1>6, <1>8, <1>9, <1>10, <1>11 DEF IdsInv

\* The parts of the invariant that only know the tables.
LEMMA TablesKeep ==
    ASSUME IdsInv, UNCHANGED <<known, version, truth, row>>
    PROVE  KnownInv' /\ RowsInv' /\ DownInv'
BY DEF IdsInv, KnownInv, RowsInv, DownInv

LEMMA JobsKeep ==
    ASSUME IdsInv, NEW n \in Peer, NEW js \in Seq(Job), JobsOk(js, n, truth[n]),
           jobs' = [jobs EXCEPT ![n] = js], UNCHANGED truth
    PROVE  jobs' \in [Peer -> Seq(Job)] /\ JobsInv' /\ jobs'[n] = js /\ \A a \in Peer : a # n => jobs'[a] = jobs[a]
<1>1. jobs \in [Peer -> Seq(Job)]
  BY DEF IdsInv, Types
<1> QED
  BY <1>1 DEF IdsInv, JobsInv

LEMMA NetNow ==
    ASSUME IdsInv
    PROVE  /\ KnownOk(known) /\ link \in [Link -> Seq(Msg)] /\ trans \in [Link -> Vec]
           /\ truth \in [Peer -> Hist] /\ known \in [Peer -> Seq(Peer)]
           /\ Net(link, trans, known, truth, jobs, up)
BY DEF IdsInv, Types, KnownInv, KnownOk, NetInv

LEMMA JobMapKeeps ==
    ASSUME IdsInv, NEW n \in Peer, JobMap(n)
    PROVE  IdsInv'
<1> DEFINE m == Head(jobs[n]).to
           js == [jobs[n] EXCEPT ![1].pc = "info"]
           x == [type |-> "map", ids |-> IdMap(n)]
<1>1. /\ jobs[n] \in Seq(Job) /\ jobs[n] # <<>> /\ Head(jobs[n]).pc = "map" /\ JobsOk(jobs[n], n, truth[n])
      /\ known[n] \in Keys(n)
  BY PeerFacts DEF JobMap
<1>2. m \in Peer /\ m # n
  BY <1>1, JobsOkHead
<1>3. js \in Seq(Job) /\ JobsOk(js, n, truth[n]) /\ \A k : Waits(js, k) => k = m
  BY <1>1, JobsOkInfo
<1>4. jobs' = [jobs EXCEPT ![n] = js] /\ UNCHANGED <<known, version, truth, workers, trans, up, row>>
  BY DEF JobMap
<1>5. Post(n, m, x)
  BY DEF JobMap
<1> HIDE DEF m, js
<1>6. jobs' \in [Peer -> Seq(Job)] /\ JobsInv' /\ jobs'[n] = js /\ \A a \in Peer : a # n => jobs'[a] = jobs[a]
  BY <1>3, <1>4, JobsKeep
<1>7. KnownInv' /\ RowsInv' /\ DownInv'
  BY <1>4, TablesKeep
<1>8. /\ KnownOk(known) /\ link \in [Link -> Seq(Msg)] /\ Net(link, trans, known, truth, jobs, up)
  BY NetNow
<1>9. link' \in [Link -> Seq(Msg)] /\ Net(link', trans, known, truth, jobs', up)
  <2>1. CASE {n, m} \in up
    <3>1. PICK r \in Joins(link[<<n, m>>], x) : link' = [link EXCEPT ![<<n, m>>] = r]
      BY <1>5, <2>1 DEF Post, Send
    <3>2. /\ IdMap(n) \in IdMaps /\ DOMAIN IdMap(n) = Ids(known[n]) /\ 0 \in DOMAIN IdMap(n)
          /\ \A k \in DOMAIN IdMap(n) : IdMap(n)[k] = Name(known[n], n, k)
      BY <1>1, IdMapNamesAll
    <3>3. x \in Msg /\ x.type = "map" /\ x.ids = IdMap(n)
      BY <3>2, MapMsgIs
    <3> HIDE DEF x
    <3>4. Sound(x, n, known[n], truth[n], truth[m])
      BY <3>2, <3>3 DEF Sound
    <3>5. \A a \in Peer, b \in Peer : Waits(jobs'[a], b) =>
              Waits(jobs[a], b) \/ (a = n /\ b = m /\ x.type = "map" /\ Ids(known[n]) \subseteq DOMAIN x.ids)
      BY <1>3, <1>6, <3>2, <3>3
    <3>6. x.type # "info"
      BY <3>3
    <3>7. /\ [link EXCEPT ![<<n, m>>] = r] \in [Link -> Seq(Msg)]
          /\ Net([link EXCEPT ![<<n, m>>] = r], trans, known, truth, jobs', up)
      <4>1. /\ x.type = "info" => CoverOk(link[<<n, m>>], trans[<<m, n>>], m, n, known[m], known[n])
                                   /\ DOMAIN x.v \subseteq Ids(known[n])
            /\ n # m /\ x \in Msg
        BY <1>2, <3>3, <3>6, Zenon
      <4>2. KnownOk(known) /\ link \in [Link -> Seq(Msg)] /\ Net(link, trans, known, truth, jobs, up)
        BY <1>8, Zenon
      <4> HIDE DEF IdsInv
      <4> QED
        BY <1>2, <2>1, <3>4, <3>5, <4>1, <4>2, NetJoins, Zenon
    <3> QED
      BY <3>1, <3>7
  <2>2. CASE {n, m} \notin up
    <3>1. link' = link
      BY <1>5, <2>2 DEF Post
    <3>2. \A a \in Peer, b \in Peer : Waits(jobs'[a], b) /\ {a, b} \in up => Waits(jobs[a], b)
      BY <1>3, <1>6, <2>2
    <3> QED
      BY <1>8, <3>1, <3>2, NetJobs
  <2> QED
    BY <2>1, <2>2
<1>10. NetInv'
  BY <1>4, <1>9 DEF NetInv
<1>11. Types'
  BY <1>4, <1>6, <1>9 DEF IdsInv, Types
<1> QED
  BY <1>6, <1>7, <1>10, <1>11 DEF IdsInv

\* A job ends: the head of the list goes, and a plain message may join.
LEMMA JobEnds ==
    ASSUME IdsInv, NEW n \in Peer, jobs[n] # <<>>, jobs' = [jobs EXCEPT ![n] = Tail(@)],
           UNCHANGED <<known, version, truth, workers, trans, up, row>>,
           NEW m \in Peer, n # m, NEW x \in Msg, UNCHANGED link \/ Post(n, m, x),
           Post(n, m, x) /\ {n, m} \in up =>
               /\ Sound(x, n, known[n], truth[n], truth[m])
               /\ x.type = "info" => Waits(jobs[n], m) /\ DOMAIN x.v \subseteq Ids(known[n])
    PROVE  IdsInv'
<1> DEFINE js == Tail(jobs[n])
<1>1. jobs[n] \in Seq(Job) /\ JobsOk(jobs[n], n, truth[n])
  BY PeerFacts
<1>2. js \in Seq(Job) /\ JobsOk(js, n, truth[n]) /\ \A k : ~Waits(js, k)
  BY <1>1, JobsOkTail
<1>3. jobs' = [jobs EXCEPT ![n] = js]
  OBVIOUS
<1> HIDE DEF js
<1>4. jobs' \in [Peer -> Seq(Job)] /\ JobsInv' /\ jobs'[n] = js /\ \A a \in Peer : a # n => jobs'[a] = jobs[a]
  BY <1>2, <1>3, JobsKeep
<1>5. KnownInv' /\ RowsInv' /\ DownInv'
  BY TablesKeep
<1>6. /\ KnownOk(known) /\ link \in [Link -> Seq(Msg)] /\ Net(link, trans, known, truth, jobs, up)
  BY NetNow
<1>7. \A a \in Peer, b \in Peer : Waits(jobs'[a], b) => Waits(jobs[a], b)
  BY <1>2, <1>4
<1>8. link' \in [Link -> Seq(Msg)] /\ Net(link', trans, known, truth, jobs', up)
  <2>1. CASE UNCHANGED link
    BY <1>6, <1>7, <2>1, NetJobs
  <2>2. CASE Post(n, m, x) /\ {n, m} \in up
    <3>1. PICK r \in Joins(link[<<n, m>>], x) : link' = [link EXCEPT ![<<n, m>>] = r]
      BY <2>2 DEF Post, Send
    <3>2. x.type = "info" => CoverOk(link[<<n, m>>], trans[<<m, n>>], m, n, known[m], known[n]) /\ DOMAIN x.v \subseteq Ids(known[n])
      <4>1. {m, n} = {n, m}
        OBVIOUS
      <4> QED
        BY <1>6, <2>2, <4>1 DEF Net, HalvesOk
    <3>3. /\ [link EXCEPT ![<<n, m>>] = r] \in [Link -> Seq(Msg)]
          /\ Net([link EXCEPT ![<<n, m>>] = r], trans, known, truth, jobs', up)
      BY <1>6, <1>7, <2>2, <3>2, NetJoins
    <3> QED
      BY <3>1, <3>3
  <2>3. CASE Post(n, m, x) /\ {n, m} \notin up
    <3>1. link' = link
      BY <2>3 DEF Post
    <3> QED
      BY <1>6, <1>7, <3>1, NetJobs
  <2> QED
    BY <2>1, <2>2, <2>3
<1>9. NetInv'
  BY <1>8 DEF NetInv
<1>10. Types'
  BY <1>4, <1>8 DEF IdsInv, Types
<1> QED
  BY <1>4, <1>5, <1>9, <1>10 DEF IdsInv

LEMMA JobInfoKeeps ==
    ASSUME IdsInv, NEW n \in Peer, JobInfo(n)
    PROVE  IdsInv'
<1> DEFINE m == Head(jobs[n]).to
           x == [type |-> "info", v |-> version[n], means |-> truth[n]]
<1>1. /\ jobs[n] \in Seq(Job) /\ jobs[n] # <<>> /\ Head(jobs[n]).pc = "info" /\ JobsOk(jobs[n], n, truth[n])
  BY PeerFacts DEF JobInfo, Halfway
<1>2. m \in Peer /\ m # n
  BY <1>1, JobsOkHead
<1>3. /\ version[n] \in Vec /\ truth[n] \in Hist /\ Stands(known[n], n, version[n], truth[n])
      /\ Below(truth[n], truth[n])
  BY PeerFacts, BelowItself
<1>4. x \in Msg /\ x.type = "info" /\ x.v = version[n] /\ x.means = truth[n]
  BY <1>3 DEF Msg, InfoMsg
<1>5. Post(n, m, x) /\ jobs' = [jobs EXCEPT ![n] = Tail(@)] /\ UNCHANGED <<known, version, truth, workers, trans, up, row>>
  BY DEF JobInfo
<1>6. Waits(jobs[n], m)
  BY <1>1 DEF Waits
<1> HIDE DEF m, x
<1>7. Sound(x, n, known[n], truth[n], truth[m])
  BY <1>3, <1>4 DEF Sound
<1>8. DOMAIN x.v \subseteq Ids(known[n])
  BY <1>3, <1>4 DEF Stands
<1> QED
  BY <1>1, <1>2, <1>4, <1>5, <1>6, <1>7, <1>8, JobEnds

LEMMA JobSendKeeps ==
    ASSUME IdsInv, NEW n \in Peer, JobSend(n)
    PROVE  IdsInv'
<1> DEFINE j == Head(jobs[n])
           m == j.to
           x == [type |-> "chunk", means |-> truth[n], asked |-> j.asked]
<1>1. /\ jobs[n] \in Seq(Job) /\ jobs[n] # <<>> /\ j.pc = "send" /\ JobsOk(jobs[n], n, truth[n])
  BY PeerFacts DEF JobSend
<1>2. /\ m \in Peer /\ m # n /\ j.v \in Vec /\ j.asked \in Hist
      /\ Fits(j.v, j.asked) /\ Below(j.asked, truth[n])
  BY <1>1, JobsOkHead
<1>3. /\ known[n] \in Keys(n) /\ version[n] \in Vec /\ truth[n] \in Hist
      /\ Stands(known[n], n, version[n], truth[n])
  BY PeerFacts
<1>4. x \in Msg /\ x.type = "chunk" /\ x.means = truth[n] /\ x.asked = j.asked
  BY <1>2, <1>3 DEF Msg, ChunkMsg
<1>5. /\ jobs' = [jobs EXCEPT ![n] = Tail(@)] /\ UNCHANGED <<known, version, truth, workers, trans, up, row>>
      /\ IF IsCurrent(n, j.v) THEN Post(n, m, x) ELSE UNCHANGED link
  BY DEF JobSend
<1> HIDE DEF j, m, x
<1>6. ASSUME IsCurrent(n, j.v)
      PROVE  Sound(x, n, known[n], truth[n], truth[m])
  <2>1. Units(version[n]) = Units(j.v)
    BY <1>2, <1>3, <1>6, EqualFits DEF IsCurrent
  <2>2. Cardinality(Units(version[n])) = Cardinality(Units(truth[n]))
    BY <1>3, StandsFits
  <2>3. Cardinality(Units(truth[n])) <= Cardinality(Units(j.asked))
    BY <1>2, <2>1, <2>2 DEF Fits
  <2>4. j.asked = truth[n]
    BY <1>2, <1>3, <2>3, SmallerFits
  <2> QED
    BY <1>4, <2>4 DEF Sound
<1>7. CASE IsCurrent(n, j.v)
  BY <1>1, <1>2, <1>4, <1>5, <1>6, <1>7, JobEnds
<1>8. CASE ~IsCurrent(n, j.v)
  <2>1. UNCHANGED link
    BY <1>5, <1>8
  <2>2. [type |-> "tree"] \in Msg
    BY DEF Msg, TreeMsg
  <2>3. Sound([type |-> "tree"], n, known[n], truth[n], truth[m]) /\ [type |-> "tree"].type # "info"
    BY DEF Sound
  <2> QED
    BY <1>1, <1>2, <1>5, <2>1, <2>2, <2>3, JobEnds
<1> QED
  BY <1>7, <1>8
-----------------------------------------------------------------------------
(* Connections, requests and announcements *)

LEMMA NewJob ==
    ASSUME IdsInv, NEW n \in Peer, NEW j \in Job, j.to # n, j.pc # "info",
           j.pc = "send" => Fits(j.v, j.asked) /\ Below(j.asked, truth[n]),
           jobs' = [jobs EXCEPT ![n] = Append(@, j)], UNCHANGED truth
    PROVE  /\ jobs' \in [Peer -> Seq(Job)] /\ JobsInv'
           /\ \A a \in Peer, b \in Peer : Waits(jobs'[a], b) => Waits(jobs[a], b)
<1> DEFINE js == Append(jobs[n], j)
<1>1. jobs[n] \in Seq(Job) /\ JobsOk(jobs[n], n, truth[n])
  BY PeerFacts
<1>2. js \in Seq(Job) /\ JobsOk(js, n, truth[n]) /\ \A k : Waits(js, k) => Waits(jobs[n], k)
  BY <1>1, JobsOkAppend
<1>3. jobs' = [jobs EXCEPT ![n] = js]
  OBVIOUS
<1> HIDE DEF js
<1>4. jobs' \in [Peer -> Seq(Job)] /\ JobsInv' /\ jobs'[n] = js /\ \A a \in Peer : a # n => jobs'[a] = jobs[a]
  BY <1>2, <1>3, JobsKeep
<1> QED
  BY <1>2, <1>4

LEMMA TreeJobIs == ASSUME NEW m \in Peer PROVE TreeJob(m) \in Job /\ TreeJob(m).to = m /\ TreeJob(m).pc = "map"
BY DEF TreeJob, Job

LEMMA NewTreeJob ==
    ASSUME IdsInv, NEW n \in Peer, NEW m \in Peer, n # m,
           jobs' = [jobs EXCEPT ![n] = Append(@, TreeJob(m))], UNCHANGED truth
    PROVE  /\ jobs' \in [Peer -> Seq(Job)] /\ JobsInv'
           /\ \A a \in Peer, b \in Peer : Waits(jobs'[a], b) => Waits(jobs[a], b)
<1>1. PICK j \in Job : j = TreeJob(m) /\ j.to = m /\ j.pc = "map"
  BY TreeJobIs, Zenon
<1>2. jobs' = [jobs EXCEPT ![n] = Append(@, j)]
  BY <1>1, Zenon
<1>3. j.to # n /\ j.pc # "info" /\ j.pc # "send"
  BY <1>1
<1>4. j.pc = "send" => Fits(j.v, j.asked) /\ Below(j.asked, truth[n])
  BY <1>3, Zenon
<1> QED
  BY <1>2, <1>3, <1>4, NewJob, Zenon

LEMMA DropKeeps ==
    ASSUME IdsInv, NEW n \in Peer, NEW m \in Peer, n # m, Drop(n, m)
    PROVE  IdsInv'
<1>1. /\ link' = [link EXCEPT ![<<n, m>>] = <<>>, ![<<m, n>>] = <<>>] /\ up' = up \ {{n, m}}
      /\ workers' = [workers EXCEPT ![n] = Append(@, trans[<<n, m>>]), ![m] = Append(@, trans[<<m, n>>])]
      /\ UNCHANGED <<known, version, truth, trans, jobs, row>>
  BY DEF Drop
<1>2. KnownInv' /\ RowsInv' /\ DownInv'
  BY <1>1, TablesKeep
<1>3. link' \in [Link -> Seq(Msg)] /\ Net(link', trans, known, truth, jobs, up')
  BY <1>1, NetNow, NetDrops
<1>4. workers' \in [Peer -> Seq(Vec)]
  <2>1. trans[<<n, m>>] \in Vec /\ trans[<<m, n>>] \in Vec
    BY LinkFacts
  <2>2. Append(workers[n], trans[<<n, m>>]) \in Seq(Vec) /\ Append(workers[m], trans[<<m, n>>]) \in Seq(Vec)
    BY <2>1, PeerFacts, Appended
  <2>3. workers \in [Peer -> Seq(Vec)]
    BY DEF IdsInv, Types
  <2> QED
    BY <1>1, <2>2, <2>3
<1>5. Types'
  BY <1>1, <1>3, <1>4 DEF IdsInv, Types
<1>6. JobsInv' /\ NetInv'
  BY <1>1, <1>3 DEF IdsInv, JobsInv, NetInv
<1> QED
  BY <1>2, <1>5, <1>6 DEF IdsInv

LEMMA ConnectKeeps ==
    ASSUME "connectDuringSync" \notin Env, IdsInv, NEW n \in Peer, NEW m \in Peer, n # m, Connect(n, m)
    PROVE  IdsInv'
<1> DEFINE s == Registered(known[n], n, m)
           t == Registered(known[m], m, n)
           kn == [known EXCEPT ![n] = s, ![m] = t]
           e == Last(workers[n])
           f == Last(workers[m])
           tr == [trans EXCEPT ![<<n, m>>] = e, ![<<m, n>>] = f]
<1>1. /\ {n, m} \notin up /\ workers[n] # <<>> /\ workers[m] # <<>>
      /\ ~Halfway(n) /\ ~Halfway(m)
      /\ known' = kn /\ trans' = tr
      /\ workers' = [workers EXCEPT ![n] = Front(@), ![m] = Front(@)]
      /\ up' = up \cup {{n, m}}
      /\ UNCHANGED <<version, truth, jobs, link, row>>
  BY DEF Connect
<1>2. s \in Keys(n) /\ Extends(s, known[n]) /\ t \in Keys(m) /\ Extends(t, known[m])
  BY PeerFacts, RegisteredKeys
<1>3. /\ Front(workers[n]) \in Seq(Vec) /\ e \in Vec
      /\ Front(workers[m]) \in Seq(Vec) /\ f \in Vec
  <2>1. ASSUME NEW a \in Peer, workers[a] # <<>>
        PROVE  Front(workers[a]) \in Seq(Vec) /\ Last(workers[a]) \in Vec
    <3>1. workers[a] \in Seq(Vec) /\ Len(workers[a]) \in Nat \ {0} /\ Front(workers[a]) \in Seq(Vec)
      BY <2>1, PeerFacts, FrontByPosition
    <3> QED
      BY <3>1 DEF Last
  <2> QED
    BY <1>1, <2>1
<1> HIDE DEF s, t, e, f
<1>4. /\ KnownOk(known) /\ link \in [Link -> Seq(Msg)] /\ trans \in [Link -> Vec]
      /\ truth \in [Peer -> Hist] /\ known \in [Peer -> Seq(Peer)]
      /\ Net(link, trans, known, truth, jobs, up)
  BY NetNow
<1>5. s \in Seq(Peer) /\ t \in Seq(Peer)
  BY <1>2 DEF Keys
<1>6. /\ kn \in [Peer -> Seq(Peer)] /\ kn[n] = s /\ kn[m] = t
      /\ \A a \in Peer : a # n /\ a # m => kn[a] = known[a]
  BY <1>4, <1>5
<1>7. /\ tr \in [Link -> Vec]
  BY <1>3, <1>4, Pairs
<1> HIDE DEF kn, tr
<1>8. KnownOk(kn) /\ \A a \in Peer : Extends(kn[a], known[a])
  <2> SUFFICES ASSUME NEW a \in Peer PROVE kn[a] \in Keys(a) /\ Extends(kn[a], known[a])
    BY DEF KnownOk
  <2>1. known[a] \in Keys(a)
    BY <1>4 DEF KnownOk
  <2> QED
    BY <1>2, <1>6, <2>1, ExtendsItself
<1>9. \A a \in Peer, b \in Peer : Waits(jobs[a], b) => kn[a] = known[a] /\ a # n /\ a # m
  BY <1>1, <1>6 DEF Waits, Halfway
<1>10. Net(link, trans, kn, truth, jobs, up)
  <2>1. \A a \in Peer : Below(truth[a], truth[a])
    BY <1>4, BelowItself
  <2> QED
    BY <1>4, <1>8, <1>9, <2>1, NetGrows
<1>11. Net(link, tr, kn, truth, jobs, up \cup {{n, m}})
  <2>1. ~Waits(jobs[n], m) /\ ~Waits(jobs[m], n)
    BY <1>9
  <2> QED
    BY <1>1, <1>4, <1>10, <2>1, NetConnects DEF tr
<1>12. NetInv'
  BY <1>1, <1>11 DEF NetInv
<1>13. Types'
  <2>1. workers \in [Peer -> Seq(Vec)]
    BY DEF IdsInv, Types
  <2>2. workers' \in [Peer -> Seq(Vec)]
    BY <1>1, <1>3, <2>1
  <2> QED
    BY <1>1, <1>6, <1>7, <2>2 DEF IdsInv, Types
<1>14. KnownInv'
  BY <1>1, <1>8 DEF KnownInv, KnownOk
<1>15. RowsInv'
  <2>1. ASSUME NEW a \in Peer PROVE Stands(kn[a], a, version[a], truth[a])
    <3>1. known[a] \in Keys(a) /\ Stands(known[a], a, version[a], truth[a])
      BY PeerFacts
    <3>2. kn[a] \in Keys(a) /\ Extends(kn[a], known[a])
      BY <1>8 DEF KnownOk
    <3> QED
      BY <3>1, <3>2, StandsStays
  <2> QED
    BY <1>1, <2>1 DEF RowsInv
<1>16. DownInv'
  <2>1. ASSUME NEW l \in Link, row[l] # None
        PROVE  Stands(kn[l[1]], l[1], row[l].v, row[l].means)
    <3>1. l[1] \in Peer /\ Stands(known[l[1]], l[1], row[l].v, row[l].means)
      BY <2>1, Pairs DEF IdsInv, DownInv
    <3>2. known[l[1]] \in Keys(l[1]) /\ kn[l[1]] \in Keys(l[1]) /\ Extends(kn[l[1]], known[l[1]])
      BY <1>4, <1>8, <3>1 DEF KnownOk
    <3> QED
      BY <3>1, <3>2, StandsStays
  <2> QED
    BY <1>1, <2>1 DEF DownInv
<1>17. JobsInv'
  BY <1>1 DEF IdsInv, JobsInv
<1> QED
  BY <1>12, <1>13, <1>14, <1>15, <1>16, <1>17 DEF IdsInv

LEMMA StartSyncKeeps ==
    ASSUME IdsInv, NEW n \in Peer, NEW m \in Peer, n # m, StartSync(n, m)
    PROVE  IdsInv'
<1> DEFINE x == [type |-> "tree"]
<1>1. /\ {n, m} \in up /\ jobs' = [jobs EXCEPT ![n] = Append(@, TreeJob(m))] /\ Send(n, m, x)
      /\ UNCHANGED <<known, version, truth, workers, trans, up, row>>
  BY DEF StartSync
<1>2. /\ jobs' \in [Peer -> Seq(Job)] /\ JobsInv'
      /\ \A a \in Peer, b \in Peer : Waits(jobs'[a], b) => Waits(jobs[a], b)
  BY <1>1, NewTreeJob, Zenon
<1>3. KnownInv' /\ RowsInv' /\ DownInv'
  BY <1>1, TablesKeep
<1>4. x \in Msg /\ x.type = "tree"
  BY DEF Msg, TreeMsg
<1> HIDE DEF x
<1>5. Sound(x, n, known[n], truth[n], truth[m])
  BY <1>4 DEF Sound
<1>6. PICK r \in Joins(link[<<n, m>>], x) : link' = [link EXCEPT ![<<n, m>>] = r]
  BY <1>1 DEF Send
<1>7. /\ KnownOk(known) /\ link \in [Link -> Seq(Msg)] /\ Net(link, trans, known, truth, jobs, up)
  BY NetNow
<1>8. x.type # "info"
  BY <1>4
<1>9. /\ [link EXCEPT ![<<n, m>>] = r] \in [Link -> Seq(Msg)]
      /\ Net([link EXCEPT ![<<n, m>>] = r], trans, known, truth, jobs', up)
  BY <1>1, <1>2, <1>4, <1>5, <1>7, <1>8, NetJoins
<1>10. link' \in [Link -> Seq(Msg)] /\ NetInv'
  BY <1>1, <1>6, <1>9 DEF NetInv
<1>11. Types'
  BY <1>1, <1>2, <1>10 DEF IdsInv, Types
<1> QED
  BY <1>2, <1>3, <1>10, <1>11 DEF IdsInv

LEMMA HandleTreeKeeps ==
    ASSUME IdsInv, NEW n \in Peer, NEW m \in Peer, n # m, HandleTree(n, m)
    PROVE  IdsInv'
<1>1. /\ link[<<m, n>>] # <<>> /\ Head(link[<<m, n>>]).type # "map"
      /\ link' = [link EXCEPT ![<<m, n>>] = Tail(@)]
      /\ jobs' = [jobs EXCEPT ![n] = Append(@, TreeJob(m))]
      /\ UNCHANGED <<known, version, truth, workers, trans, up, row>>
  BY DEF HandleTree, Arrived, Consumed
<1>2. /\ jobs' \in [Peer -> Seq(Job)] /\ JobsInv'
      /\ \A a \in Peer, b \in Peer : Waits(jobs'[a], b) => Waits(jobs[a], b)
  BY <1>1, NewTreeJob, Zenon
<1>3. KnownInv' /\ RowsInv' /\ DownInv'
  BY <1>1, TablesKeep
<1>4. link' \in [Link -> Seq(Msg)] /\ Net(link', trans, known, truth, jobs, up)
  BY <1>1, NetNow, NetTailPlain
<1>5. Net(link', trans, known, truth, jobs', up)
  BY <1>2, <1>4, NetJobs
<1>6. NetInv'
  BY <1>1, <1>5 DEF NetInv
<1>7. Types'
  BY <1>1, <1>2, <1>4 DEF IdsInv, Types
<1> QED
  BY <1>2, <1>3, <1>6, <1>7 DEF IdsInv

LEMMA HandleGetKeeps ==
    ASSUME IdsInv, NEW n \in Peer, NEW m \in Peer, n # m, HandleGet(n, m)
    PROVE  IdsInv'
<1> DEFINE x == Head(link[<<m, n>>])
           v == Translated(trans[<<n, m>>], x.v)
           j == FileJob(m, v, x.means)
<1>1. /\ link[<<m, n>>] # <<>> /\ x.type = "get"
      /\ link' = [link EXCEPT ![<<m, n>>] = Tail(@)]
      /\ jobs' = [jobs EXCEPT ![n] = Append(@, j)]
      /\ UNCHANGED <<known, version, truth, workers, trans, up, row>>
  BY DEF HandleGet, Arrived, Consumed, Message
<1>2. /\ link[<<m, n>>] \in Seq(Msg) /\ trans[<<n, m>>] \in Vec
      /\ LinkOk(link[<<m, n>>], trans[<<n, m>>], n, m, known[n], known[m], truth[n], truth[m])
  BY LinkFacts
<1>3. x \in Msg /\ Sound(x, m, known[m], truth[m], truth[n])
  BY <1>1, <1>2, SoundHead
<1> HIDE DEF x
<1>4. /\ x.v \in Vec /\ x.means \in Hist /\ Stands(known[m], m, x.v, x.means) /\ Below(x.means, truth[n])
  BY <1>1, <1>3, MsgTypes DEF Sound
<1>5. IsFiniteSet(Units(x.v)) /\ Cardinality(Units(x.v)) = Cardinality(Units(x.means))
  BY <1>4, PeerFacts, StandsFits
<1>6. Len(known[m]) \in Nat /\ \A k \in DOMAIN x.v : k <= Len(known[m])
  BY <1>4, PeerFacts, IdsAreNat DEF Stands
<1>7. /\ v \in Vec /\ IsFiniteSet(Units(v)) /\ Cardinality(Units(v)) <= Cardinality(Units(x.v))
  BY <1>2, <1>4, <1>5, <1>6, TranslatedFits
<1> HIDE DEF v
<1>8. j \in Job /\ j.to = m /\ j.pc = "send" /\ j.v = v /\ j.asked = x.means
  BY <1>4, <1>7 DEF FileJob, Job
<1> HIDE DEF j
<1>9. Fits(j.v, j.asked) /\ Below(j.asked, truth[n])
  BY <1>4, <1>5, <1>7, <1>8 DEF Fits
<1>10. /\ jobs' \in [Peer -> Seq(Job)] /\ JobsInv'
       /\ \A a \in Peer, b \in Peer : Waits(jobs'[a], b) => Waits(jobs[a], b)
  BY <1>1, <1>8, <1>9, NewJob
<1>11. KnownInv' /\ RowsInv' /\ DownInv'
  BY <1>1, TablesKeep
<1>12. link' \in [Link -> Seq(Msg)] /\ Net(link', trans, known, truth, jobs, up)
  BY <1>1, NetNow, NetTailPlain DEF x
<1>13. Net(link', trans, known, truth, jobs', up)
  BY <1>10, <1>12, NetJobs
<1>14. NetInv'
  BY <1>1, <1>13 DEF NetInv
<1>15. Types'
  BY <1>1, <1>10, <1>12 DEF IdsInv, Types
<1> QED
  BY <1>10, <1>11, <1>14, <1>15 DEF IdsInv

\* After an IdMap the table has every id right that the map names, and those
\* it had right before.
LEMMA MergedIsRight ==
    ASSUME NEW n \in Peer, NEW m \in Peer, n # m, NEW s \in Keys(m), NEW t \in Keys(n),
           NEW old \in Vec, NEW map \in IdMaps,
           0 \in DOMAIN map, DOMAIN map \subseteq Ids(s), \A k \in DOMAIN map : map[k] = Name(s, m, k),
           \A k \in DOMAIN map : map[k] = n \/ map[k] \in Range(t)
    PROVE  /\ Merged(old, Mapped(n, m, t, map)) \in Vec
           /\ Right(old, s, m, t, n) \subseteq Right(Merged(old, Mapped(n, m, t, map)), s, m, t, n)
           /\ DOMAIN map \subseteq Right(Merged(old, Mapped(n, m, t, map)), s, m, t, n)
<1> DEFINE new == Mapped(n, m, t, map)
           w == Merged(old, new)
<1>1. map[0] = m
  BY DEF Name
<1>2. DOMAIN new = DOMAIN map /\ \A k \in DOMAIN map : new[k] = IdIn(t, n, map[k])
  BY <1>1 DEF Mapped
<1>3. \A k \in DOMAIN map : new[k] \in Ids(t) /\ Name(t, n, new[k]) = Name(s, m, k)
  BY <1>2, IdOfName
<1> HIDE DEF new
<1>4. w = [k \in DOMAIN old \cup DOMAIN map |-> IF k \in DOMAIN map THEN new[k] ELSE old[k]]
  BY <1>2 DEF Merged
<1>5. /\ DOMAIN w = DOMAIN old \cup DOMAIN map
      /\ \A k \in DOMAIN map : w[k] = new[k]
      /\ \A k \in DOMAIN old : k \notin DOMAIN map => w[k] = old[k]
      /\ w = [k \in DOMAIN w |-> w[k]]
  BY <1>4
<1> HIDE DEF w
<1>6. w \in Vec
  <2>1. DOMAIN old \subseteq Nat /\ \A k \in DOMAIN old : old[k] \in Nat
    BY VecIs
  <2>2. DOMAIN map \subseteq Nat /\ Ids(t) \subseteq Nat
    BY IdsAreNat
  <2>3. DOMAIN w \in SUBSET Nat
    BY <1>5, <2>1, <2>2
  <2>4. \A k \in DOMAIN w : w[k] \in Nat
    BY <1>3, <1>5, <2>1, <2>2
  <2> QED
    BY <1>5, <2>3, <2>4, IsVec
<1>7. DOMAIN map \subseteq Right(w, s, m, t, n)
  BY <1>3, <1>5 DEF Right
<1>8. Right(old, s, m, t, n) \subseteq Right(w, s, m, t, n)
  <2> SUFFICES ASSUME NEW k \in Right(old, s, m, t, n) PROVE k \in Right(w, s, m, t, n)
    BY Zenon
  <2>1. CASE k \in DOMAIN map
    BY <1>7, <2>1
  <2>2. CASE k \notin DOMAIN map
    BY <1>5, <2>2 DEF Right
  <2> QED
    BY <2>1, <2>2
<1> QED
  BY <1>6, <1>7, <1>8 DEF w, new

LEMMA HandleMapKeeps ==
    ASSUME "learnDuringSync" \notin Env, IdsInv, NEW n \in Peer, NEW m \in Peer, n # m, HandleMap(n, m)
    PROVE  IdsInv'
<1> DEFINE x == Head(link[<<m, n>>])
           keys == Learned(n, x.ids)
           kn == [known EXCEPT ![n] = keys]
           new == Merged(trans[<<n, m>>], Mapped(n, m, keys, x.ids))
           tr == [trans EXCEPT ![<<n, m>>] = new]
<1>1. /\ link[<<m, n>>] # <<>> /\ x.type = "map"
      /\ ~Halfway(n) \/ keys = known[n]
      /\ known' = kn /\ trans' = tr
      /\ link' = [link EXCEPT ![<<m, n>>] = Tail(@)]
      /\ UNCHANGED <<version, truth, workers, up, jobs, row>>
  BY DEF HandleMap, Arrived, Consumed, Message
<1>2. /\ link[<<m, n>>] \in Seq(Msg) /\ trans[<<n, m>>] \in Vec /\ <<n, m>> \in Link
      /\ LinkOk(link[<<m, n>>], trans[<<n, m>>], n, m, known[n], known[m], truth[n], truth[m])
  BY LinkFacts
<1>3. x \in Msg /\ Sound(x, m, known[m], truth[m], truth[n])
  BY <1>1, <1>2, SoundHead
<1> HIDE DEF x
<1>4. /\ x.ids \in IdMaps /\ 0 \in DOMAIN x.ids /\ DOMAIN x.ids \subseteq Ids(known[m])
      /\ \A k \in DOMAIN x.ids : x.ids[k] = Name(known[m], m, k)
  BY <1>1, <1>3, MsgTypes DEF Sound
<1>5. known[n] \in Keys(n) /\ known[m] \in Keys(m)
  BY PeerFacts
<1>6. /\ keys \in Keys(n) /\ Extends(keys, known[n])
      /\ \A i \in DOMAIN x.ids : x.ids[i] = n \/ x.ids[i] \in Range(keys)
  BY <1>4, <1>5, LearnedKeys
<1> HIDE DEF keys
<1>7. /\ new \in Vec
      /\ Right(trans[<<n, m>>], known[m], m, keys, n) \subseteq Right(new, known[m], m, keys, n)
      /\ DOMAIN x.ids \subseteq Right(new, known[m], m, keys, n)
  BY <1>2, <1>4, <1>5, <1>6, MergedIsRight
<1> HIDE DEF new
<1>8. /\ KnownOk(known) /\ link \in [Link -> Seq(Msg)] /\ trans \in [Link -> Vec]
      /\ truth \in [Peer -> Hist] /\ known \in [Peer -> Seq(Peer)]
      /\ Net(link, trans, known, truth, jobs, up)
  BY NetNow
<1>9. /\ kn \in [Peer -> Seq(Peer)] /\ kn[n] = keys /\ kn[m] = known[m]
      /\ \A a \in Peer : a # n => kn[a] = known[a]
  <2>1. keys \in Seq(Peer)
    BY <1>6 DEF Keys
  <2> QED
    BY <1>8, <2>1
<1>10. tr \in [Link -> Vec]
  BY <1>7, <1>8
<1> HIDE DEF kn
<1>11. KnownOk(kn) /\ \A a \in Peer : Extends(kn[a], known[a])
  <2> SUFFICES ASSUME NEW a \in Peer PROVE kn[a] \in Keys(a) /\ Extends(kn[a], known[a])
    BY DEF KnownOk
  <2>1. known[a] \in Keys(a)
    BY <1>8 DEF KnownOk
  <2> QED
    BY <1>6, <1>9, <2>1, ExtendsItself
<1>12. \A a \in Peer, b \in Peer : Waits(jobs[a], b) => kn[a] = known[a]
  BY <1>1, <1>9 DEF Waits, Halfway
<1>13. Net(link, trans, kn, truth, jobs, up)
  <2>1. \A a \in Peer : Below(truth[a], truth[a])
    BY <1>8, BelowItself
  <2> QED
    BY <1>8, <1>11, <1>12, <2>1, NetGrows
<1>14. link' \in [Link -> Seq(Msg)] /\ Net(link', tr, kn, truth, jobs, up)
  <2>1. Right(trans[<<n, m>>], kn[m], m, kn[n], n) \subseteq Right(new, kn[m], m, kn[n], n)
    BY <1>7, <1>9
  <2>2. Head(link[<<m, n>>]).type = "map" => DOMAIN Head(link[<<m, n>>]).ids \subseteq Right(new, kn[m], m, kn[n], n)
    BY <1>7, <1>9 DEF x
  <2> HIDE DEF tr
  <2> QED
    BY <1>1, <1>8, <1>11, <1>13, <2>1, <2>2, NetTail DEF tr
<1>15. NetInv'
  BY <1>1, <1>14 DEF NetInv
<1>16. Types'
  BY <1>1, <1>9, <1>10, <1>14 DEF IdsInv, Types
<1>17. KnownInv'
  BY <1>1, <1>11 DEF KnownInv, KnownOk
<1>18. RowsInv'
  <2>1. ASSUME NEW a \in Peer PROVE Stands(kn[a], a, version[a], truth[a])
    <3>1. known[a] \in Keys(a) /\ Stands(known[a], a, version[a], truth[a])
      BY PeerFacts
    <3>2. kn[a] \in Keys(a) /\ Extends(kn[a], known[a])
      BY <1>11 DEF KnownOk
    <3> QED
      BY <3>1, <3>2, StandsStays
  <2> QED
    BY <1>1, <2>1 DEF RowsInv
<1>19. DownInv'
  <2>1. ASSUME NEW l \in Link, row[l] # None
        PROVE  Stands(kn[l[1]], l[1], row[l].v, row[l].means)
    <3>1. l[1] \in Peer /\ Stands(known[l[1]], l[1], row[l].v, row[l].means)
      BY <2>1, Pairs DEF IdsInv, DownInv
    <3>2. known[l[1]] \in Keys(l[1]) /\ kn[l[1]] \in Keys(l[1]) /\ Extends(kn[l[1]], known[l[1]])
      BY <1>8, <1>11, <3>1 DEF KnownOk
    <3> QED
      BY <3>1, <3>2, StandsStays
  <2> QED
    BY <1>1, <2>1 DEF DownInv
<1>20. JobsInv'
  BY <1>1 DEF IdsInv, JobsInv
<1> QED
  BY <1>15, <1>16, <1>17, <1>18, <1>19, <1>20 DEF IdsInv

\* What the head of a link announces, as its receiver reads it.
LEMMA Announced ==
    ASSUME IdsInv, NEW n \in Peer, NEW m \in Peer, n # m, Arrived(n, m, "info")
    PROVE  /\ Translated(trans[<<n, m>>], Message(n, m).v) \in Vec /\ Message(n, m).means \in Hist
           /\ Stands(known[n], n, Translated(trans[<<n, m>>], Message(n, m).v), Message(n, m).means)
           /\ Below(Message(n, m).means, truth[m])
<1> DEFINE x == Head(link[<<m, n>>])
<1>1. /\ link[<<m, n>>] # <<>> /\ x.type = "info" /\ Message(n, m) = x
  BY DEF Arrived, Message
<1>2. /\ link[<<m, n>>] \in Seq(Msg) /\ trans[<<n, m>>] \in Vec
      /\ LinkOk(link[<<m, n>>], trans[<<n, m>>], n, m, known[n], known[m], truth[n], truth[m])
  BY LinkFacts
<1>3. x \in Msg /\ Sound(x, m, known[m], truth[m], truth[n]) /\ DOMAIN x.v \subseteq Right(trans[<<n, m>>], known[m], m, known[n], n)
  BY <1>1, <1>2, SoundHead
<1> HIDE DEF x
<1>4. x.v \in Vec /\ x.means \in Hist /\ Stands(known[m], m, x.v, x.means) /\ Below(x.means, truth[m])
  BY <1>1, <1>3, MsgTypes DEF Sound
<1>5. known[n] \in Keys(n) /\ known[m] \in Keys(m) /\ x.means \in [Peer -> Nat]
  BY <1>4, PeerFacts DEF Hist
<1>6. /\ Translated(trans[<<n, m>>], x.v) \in Vec
      /\ Stands(known[n], n, Translated(trans[<<n, m>>], x.v), x.means)
  BY <1>2, <1>3, <1>4, <1>5, TranslatedStands
<1> QED
  BY <1>1, <1>4, <1>6

LEMMA HandleInfoKeeps ==
    ASSUME IdsInv, NEW n \in Peer, NEW m \in Peer, n # m, HandleInfo(n, m)
    PROVE  IdsInv'
<1> DEFINE theirs == Translated(trans[<<n, m>>], Message(n, m).v)
           mine == Merged([k \in DOMAIN theirs |-> 0], version[n])
           means == Message(n, m).means
           x == [type |-> "get", v |-> theirs, means |-> means]
           lk == Consumed(n, m)
           new == [v |-> theirs, means |-> means]
<1>1. /\ Arrived(n, m, "info")
      /\ version' = [version EXCEPT ![n] = mine]
      /\ \/ /\ row' = [row EXCEPT ![<<n, m>>] = IF @ # None /\ Geq(@.v, theirs) THEN @ ELSE new]
            /\ Reply(n, m, x)
         \/ UNCHANGED row /\ link' = lk
      /\ UNCHANGED <<known, truth, workers, trans, up, jobs>>
  BY DEF HandleInfo
<1>2. theirs \in Vec /\ means \in Hist /\ Stands(known[n], n, theirs, means) /\ Below(means, truth[m])
  BY <1>1, Announced
<1> HIDE DEF theirs, means
<1>3. /\ known[n] \in Keys(n) /\ version[n] \in Vec /\ truth[n] \in [Peer -> Nat]
      /\ Stands(known[n], n, version[n], truth[n])
  BY PeerFacts
<1>4. DOMAIN theirs \subseteq Ids(known[n])
  BY <1>2 DEF Stands
<1>5. mine \in Vec /\ Stands(known[n], n, mine, truth[n])
  BY <1>3, <1>4, ZeroRows
<1> HIDE DEF mine
<1>6. /\ KnownOk(known) /\ link \in [Link -> Seq(Msg)] /\ trans \in [Link -> Vec]
      /\ Net(link, trans, known, truth, jobs, up)
  BY NetNow
<1>7. lk \in [Link -> Seq(Msg)] /\ Net(lk, trans, known, truth, jobs, up)
  <2>1. link[<<m, n>>] # <<>> /\ Head(link[<<m, n>>]).type # "map"
    BY <1>1 DEF Arrived
  <2> QED
    BY <1>6, <2>1, NetTailPlain DEF Consumed
<1>8. lk[<<n, m>>] = link[<<n, m>>]
  BY <1>6, Pairs DEF Consumed
<1>9. {n, m} \in up
  <2>1. {n, m} \notin up => link[<<m, n>>] = <<>>
    BY <1>6 DEF Net, Quiet
  <2> QED
    BY <1>1, <2>1 DEF Arrived
<1>10. new \in [v : Vec, means : Hist] /\ new.v = theirs /\ new.means = means
  BY <1>2
<1>11. x \in Msg /\ x.type = "get" /\ x.v = theirs /\ x.means = means
  BY <1>2 DEF Msg, GetMsg
<1> HIDE DEF x, new, lk
<1>12. /\ link' \in [Link -> Seq(Msg)] /\ Net(link', trans, known, truth, jobs, up)
  <2>1. CASE link' = lk
    BY <1>7, <2>1
  <2>2. CASE Reply(n, m, x)
    <3>1. PICK r \in Joins(link[<<n, m>>], x) : link' = [lk EXCEPT ![<<n, m>>] = r]
      BY <2>2 DEF Reply, lk
    <3>2. r \in Joins(lk[<<n, m>>], x)
      BY <1>8
    <3>3. Sound(x, n, known[n], truth[n], truth[m])
      BY <1>2, <1>11 DEF Sound
    <3>4. x.type # "info" /\ \A a \in Peer, b \in Peer : Waits(jobs[a], b) =>
              Waits(jobs[a], b) \/ (a = n /\ b = m /\ x.type = "map" /\ Ids(known[n]) \subseteq DOMAIN x.ids)
      BY <1>11
    <3>5. /\ [lk EXCEPT ![<<n, m>>] = r] \in [Link -> Seq(Msg)]
          /\ Net([lk EXCEPT ![<<n, m>>] = r], trans, known, truth, jobs, up)
      BY <1>6, <1>7, <1>9, <1>11, <3>2, <3>3, <3>4, NetJoins
    <3> QED
      BY <3>1, <3>5
  <2> QED
    BY <1>1, <2>1, <2>2
<1>13. \A l \in Link : row'[l] = row[l] \/ (l = <<n, m>> /\ row'[l] = new)
  <2>1. row \in [Link -> Row]
    BY DEF IdsInv, Types
  <2> QED
    BY <1>1, <2>1
<1>14. DownInv'
  <2>1. ASSUME NEW l \in Link, row'[l] # None
        PROVE  Stands(known[l[1]], l[1], row'[l].v, row'[l].means)
    <3>1. CASE row'[l] = row[l]
      BY <2>1, <3>1 DEF IdsInv, DownInv
    <3>2. CASE l = <<n, m>> /\ row'[l] = new
      BY <1>2, <1>10, <3>2
    <3> QED
      BY <1>13, <3>1, <3>2
  <2> QED
    BY <1>1, <2>1 DEF DownInv
<1>15. Types'
  <2>1. version \in [Peer -> Vec] /\ row \in [Link -> Row]
    BY DEF IdsInv, Types
  <2>2. version' \in [Peer -> Vec]
    BY <1>1, <1>5, <2>1
  <2>3. row' \in [Link -> Row]
    <3>1. new \in Row
      BY <1>10 DEF Row
    <3> QED
      BY <1>1, <2>1, <3>1
  <2> QED
    BY <1>1, <1>12, <2>2, <2>3 DEF IdsInv, Types
<1>16. RowsInv'
  <2>1. version \in [Peer -> Vec]
    BY DEF IdsInv, Types
  <2>2. \A a \in Peer : version'[a] = IF a = n THEN mine ELSE version[a]
    BY <1>1, <2>1
  <2> QED
    BY <1>1, <1>5, <2>2 DEF IdsInv, RowsInv
<1>17. KnownInv' /\ JobsInv'
  BY <1>1 DEF IdsInv, KnownInv, JobsInv
<1>18. NetInv'
  BY <1>1, <1>12 DEF NetInv
<1> QED
  BY <1>14, <1>15, <1>16, <1>17, <1>18 DEF IdsInv

LEMMA HandleChunkKeeps ==
    ASSUME IdsInv, NEW n \in Peer, NEW m \in Peer, n # m, HandleChunk(n, m)
    PROVE  IdsInv'
<1> DEFINE r == row[<<n, m>>]
<1>1. /\ link[<<m, n>>] # <<>> /\ Head(link[<<m, n>>]).type # "map"
      /\ link' = [link EXCEPT ![<<m, n>>] = Tail(@)]
      /\ UNCHANGED <<known, workers, trans, up, jobs>>
  BY DEF HandleChunk, Arrived, Consumed
<1>2. link' \in [Link -> Seq(Msg)] /\ Net(link', trans, known, truth, jobs, up)
  BY <1>1, NetNow, NetTailPlain
<1>3. CASE UNCHANGED <<version, truth, row>>
  <2>1. KnownInv' /\ RowsInv' /\ DownInv'
    BY <1>1, <1>3, TablesKeep
  <2>2. Types' /\ NetInv' /\ JobsInv'
    BY <1>1, <1>2, <1>3 DEF IdsInv, Types, NetInv, JobsInv
  <2> QED
    BY <2>1, <2>2 DEF IdsInv
<1>4. CASE ~UNCHANGED <<version, truth, row>>
  <2>1. /\ r # None /\ Less(version[n], r.v)
        /\ version' = [version EXCEPT ![n] = Merged(@, r.v)]
        /\ truth' = [truth EXCEPT ![n] = r.means]
        /\ row' = [row EXCEPT ![<<n, m>>] = None]
    BY <1>4 DEF HandleChunk
  <2>2. r \in Row /\ Stands(known[n], n, r.v, r.means) /\ <<n, m>> \in Link
    BY <2>1, LinkFacts
  <2> HIDE DEF r
  <2>3. r.v \in Vec /\ r.means \in Hist /\ r.means \in [Peer -> Nat]
    BY <2>1, <2>2 DEF Row, Hist
  <2>4. /\ known[n] \in Keys(n) /\ version[n] \in Vec /\ truth[n] \in Hist /\ truth[n] \in [Peer -> Nat]
        /\ Stands(known[n], n, version[n], truth[n])
    BY PeerFacts
  <2>5. Below(truth[n], r.means)
    BY <2>1, <2>2, <2>3, <2>4, StandsLess
  <2>6. Merged(version[n], r.v) \in Vec /\ Stands(known[n], n, Merged(version[n], r.v), r.means)
    BY <2>2, <2>3, <2>4, <2>5, NewerRows
  <2>7. version \in [Peer -> Vec] /\ truth \in [Peer -> Hist] /\ row \in [Link -> Row] /\ Types
    BY DEF IdsInv, Types
  <2> DEFINE v == Merged(version[n], r.v)
  <2>8. version' = [version EXCEPT ![n] = v]
    BY <2>1
  <2>9. v \in Vec /\ Stands(known[n], n, v, r.means)
    BY <2>6
  <2> HIDE DEF v
  <2>10. /\ version' \in [Peer -> Vec] /\ truth' \in [Peer -> Hist] /\ row' \in [Link -> Row]
    BY <2>1, <2>3, <2>7, <2>8, <2>9 DEF Row
  <2>11. Types'
    BY <1>1, <1>2, <2>7, <2>10 DEF Types
  <2>12. \A a \in Peer : Below(truth[a], truth'[a])
    <3> TAKE a \in Peer
    <3>1. CASE a = n
      BY <2>1, <2>5, <2>7, <3>1
    <3>2. CASE a # n
      <4>1. truth'[a] = truth[a] /\ truth[a] \in Hist
        BY <2>1, <2>7, <3>2
      <4> QED
        BY <4>1, BelowItself
    <3> QED
      BY <3>1, <3>2
  <2>13. RowsInv'
    <3>1. \A a \in Peer : version'[a] = (IF a = n THEN v ELSE version[a]) /\ truth'[a] = (IF a = n THEN r.means ELSE truth[a])
      BY <2>1, <2>7, <2>8
    <3> QED
      BY <1>1, <2>9, <3>1 DEF IdsInv, RowsInv
  <2>14. DownInv'
    <3>1. \A l \in Link : row'[l] = None \/ row'[l] = row[l]
      BY <2>1, <2>7
    <3> QED
      BY <1>1, <3>1 DEF IdsInv, DownInv
  <2>15. KnownInv'
    BY <1>1 DEF IdsInv, KnownInv
  <2>16. JobsInv'
    <3>1. ASSUME NEW a \in Peer PROVE JobsOk(jobs[a], a, truth'[a])
      <4>1. truth[a] \in Hist /\ truth'[a] \in Hist /\ Below(truth[a], truth'[a])
        BY <2>7, <2>10, <2>12
      <4> QED
        BY <4>1, PeerFacts, JobsOkGrow
    <3> QED
      BY <1>1, <3>1 DEF JobsInv
  <2>17. NetInv'
    <3>1. KnownOk(known) /\ \A a \in Peer : Extends(known[a], known[a])
      BY ExtendsItself DEF IdsInv, KnownInv, KnownOk
    <3>2. Net(link', trans, known, truth', jobs, up)
      BY <1>2, <2>7, <2>10, <2>12, <3>1, NetGrows
    <3> QED
      BY <1>1, <3>2 DEF NetInv
  <2> QED
    BY <2>11, <2>13, <2>14, <2>15, <2>16, <2>17 DEF IdsInv
<1> QED
  BY <1>3, <1>4

\* The inductive invariant holds.
LEMMA IdsStayRight ==
    ASSUME "connectDuringSync" \notin Env, "learnDuringSync" \notin Env
    PROVE  Spec => []IdsInv
<1>1. ASSUME IdsInv, Next PROVE IdsInv'
  <2>1. ASSUME NEW n \in Peer, Edit(n) \/ JobMap(n) \/ JobInfo(n) \/ JobSend(n)
        PROVE  IdsInv'
    BY <1>1, <2>1, EditKeeps, JobMapKeeps, JobInfoKeeps, JobSendKeeps
  <2>2. ASSUME NEW n \in Peer, NEW m \in Peer, n # m,
               \/ Connect(n, m) \/ Drop(n, m) \/ StartSync(n, m)
               \/ HandleTree(n, m) \/ HandleMap(n, m) \/ HandleInfo(n, m)
               \/ HandleGet(n, m) \/ HandleChunk(n, m)
        PROVE  IdsInv'
    BY <1>1, <2>2, ConnectKeeps, DropKeeps, StartSyncKeeps, HandleTreeKeeps, HandleMapKeeps,
       HandleInfoKeeps, HandleGetKeeps, HandleChunkKeeps
  <2> QED
    BY <1>1, <2>1, <2>2, Pairs DEF Next
<1>2. IdsInv /\ UNCHANGED vars => IdsInv'
  BY DEF vars, IdsInv, Types, KnownInv, RowsInv, DownInv, JobsInv, NetInv
<1>3. IdsInv /\ [Next]_vars => IdsInv'
  BY <1>1, <1>2
<1> QED
  BY InitIds, <1>3, PTL DEF Spec

\* The version rows of every peer, read with its own numbering, are the version
\* its copy descends from, in whatever order ids were given out and whichever
\* table a worker kept from an earlier connection.
THEOREM RowsKeepMeaning ==
    ASSUME "connectDuringSync" \notin Env, "learnDuringSync" \notin Env
    PROVE  Spec => []RowsMeanTheTruth
<1>1. IdsInv => RowsMeanTheTruth
  <2> SUFFICES ASSUME IdsInv, NEW n \in Peer PROVE Meaning(n, version[n]) = truth[n]
    BY DEF RowsMeanTheTruth
  <2> QED
    BY PeerFacts, StandsMeaning
<1> QED
  BY <1>1, IdsStayRight, PTL

\* A download is registered under the version that was announced, as the
\* receiver numbers it.
THEOREM DownloadsKeepMeaning ==
    ASSUME "connectDuringSync" \notin Env, "learnDuringSync" \notin Env
    PROVE  Spec => []DownloadsMeanTheTruth
<1>1. IdsInv => DownloadsMeanTheTruth
  <2> SUFFICES ASSUME IdsInv, NEW l \in Link, row[l] # None
               PROVE  Meaning(l[1], row[l].v) = row[l].means
    BY DEF DownloadsMeanTheTruth
  <2>1. l[1] \in Peer /\ Stands(known[l[1]], l[1], row[l].v, row[l].means) /\ row[l] \in Row
    BY Pairs DEF IdsInv, DownInv, Types
  <2>2. row[l].v \in Vec /\ row[l].means \in [Peer -> Nat]
    BY <2>1 DEF Row, Hist
  <2>3. known[l[1]] \in Keys(l[1])
    BY <2>1, PeerFacts
  <2> QED
    BY <2>1, <2>2, <2>3, StandsMeaning
<1> QED
  BY <1>1, IdsStayRight, PTL

\* When a NodeInfo is handled, operator< on the two vectors answers as it would
\* on the versions they stand for, so a newer copy is fetched and no other.
THEOREM OrderSurvivesNumbering ==
    ASSUME "connectDuringSync" \notin Env, "learnDuringSync" \notin Env
    PROVE  Spec => []NewerIsNewer
<1>1. IdsInv => NewerIsNewer
  <2>1. ASSUME IdsInv, NEW n \in Peer, NEW m \in Peer, n # m, Arrived(n, m, "info")
        PROVE  Less(version[n], Translated(trans[<<n, m>>], Message(n, m).v))
                 <=> truth[n] # Message(n, m).means /\ \A p \in Peer : truth[n][p] <= Message(n, m).means[p]
    <3> DEFINE w == Translated(trans[<<n, m>>], Message(n, m).v)
               g == Message(n, m).means
    <3>1. w \in Vec /\ g \in Hist /\ Stands(known[n], n, w, g)
      BY <2>1, Announced
    <3>2. /\ known[n] \in Keys(n) /\ version[n] \in Vec /\ truth[n] \in [Peer -> Nat]
          /\ Stands(known[n], n, version[n], truth[n])
      BY <2>1, PeerFacts
    <3> HIDE DEF w, g
    <3>3. g \in [Peer -> Nat]
      BY <3>1 DEF Hist
    <3>4. Less(version[n], w) <=> (truth[n] # g /\ Below(truth[n], g))
      BY <3>1, <3>2, <3>3, StandsLess
    <3> QED
      BY <3>4 DEF Below, w, g
  <2> SUFFICES ASSUME IdsInv, NEW l \in Link, Arrived(l[1], l[2], "info")
               PROVE  Less(version[l[1]], Translated(trans[l], Message(l[1], l[2]).v))
                        <=> truth[l[1]] # Message(l[1], l[2]).means
                            /\ \A p \in Peer : truth[l[1]][p] <= Message(l[1], l[2]).means[p]
    BY DEF NewerIsNewer
  <2>2. l = <<l[1], l[2]>> /\ l[1] \in Peer /\ l[2] \in Peer /\ l[1] # l[2]
    BY Pairs
  <2> QED
    BY <2>1, <2>2, Zenon
<1> QED
  BY <1>1, IdsStayRight, PTL

\* SendFile serves a request only if it names the present version: a request read
\* with the wrong table compares as equal to no other version.
THEOREM AskedIsServed ==
    ASSUME "connectDuringSync" \notin Env, "learnDuringSync" \notin Env
    PROVE  Spec => []ServedIsAsked
<1>1. IdsInv => ServedIsAsked
  <2> SUFFICES ASSUME IdsInv, NEW l \in Link, NEW i \in DOMAIN link[l], link[l][i].type = "chunk"
               PROVE  link[l][i].means = link[l][i].asked
    BY DEF ServedIsAsked
  <2>1. l = <<l[1], l[2]>> /\ l[1] \in Peer /\ l[2] \in Peer /\ l[1] # l[2]
    BY Pairs
  <2>2. /\ link[l] \in Seq(Msg)
        /\ LinkOk(link[l], trans[<<l[2], l[1]>>], l[2], l[1], known[l[2]], known[l[1]], truth[l[2]], truth[l[1]])
    BY <2>1, LinkFacts
  <2>3. i \in 1 .. Len(link[l])
    BY <2>2
  <2> QED
    BY <2>2, <2>3 DEF LinkOk, Sound
<1> QED
  BY <1>1, IdsStayRight, PTL
=============================================================================
