----------------------------- MODULE ListLemmas -----------------------------
(* Sequences: the queues of every module, and the lists without duplicates   *)
(* of PriorityQueue (nodes) and Session (pools).                            *)
EXTENDS SequencesExt, SequenceTheorems, WellFoundedInduction, TLAPS

\* A set of numbers that is not empty has a least one.
LEMMA LeastNat == ASSUME NEW T \in SUBSET Nat, T # {} PROVE \E n \in T : \A m \in T : n <= m
<1>1. PICK n \in T : \A m \in T : ~(<<m, n>> \in OpToRel(<, Nat))
  BY NatLessThanWellFounded, WFMin
<1>2. \A m \in T : ~(m < n)
  BY <1>1 DEF OpToRel
<1> QED
  BY <1>2

LEMMA Appended == ASSUME NEW S, NEW q \in Seq(S), NEW e \in S PROVE Append(q, e) \in Seq(S)
  OBVIOUS

LEMMA Popped ==
    ASSUME NEW S, NEW q \in Seq(S), q # <<>>
    PROVE  Head(q) \in S /\ Tail(q) \in Seq(S)
  OBVIOUS

LEMMA ReplacedHead ==
    ASSUME NEW S, NEW q \in Seq(S), q # <<>>, NEW e \in S
    PROVE  [q EXCEPT ![1] = e] \in Seq(S)
<1>1. 1 \in 1 .. Len(q)
  OBVIOUS
<1> QED
  BY <1>1, ExceptSeq

LEMMA Prefix ==
    ASSUME NEW S, NEW q \in Seq(S), NEW i \in 0 .. Len(q)
    PROVE  SubSeq(q, 1, i) \in Seq(S)
  OBVIOUS

LEMMA CutOut ==
    ASSUME NEW S, NEW q \in Seq(S), NEW i \in DOMAIN q
    PROVE  SubSeq(q, 1, i - 1) \o SubSeq(q, i + 1, Len(q)) \in Seq(S)
<1>1. SubSeq(q, 1, i - 1) \in Seq(S) /\ SubSeq(q, i + 1, Len(q)) \in Seq(S)
  OBVIOUS
<1> QED
  BY <1>1

LEMMA SeqGrows == ASSUME NEW S, NEW T, S \subseteq T, NEW q \in Seq(S) PROVE q \in Seq(T)
  OBVIOUS

\* What waits at the head of a queue stays there when something is appended.
LEMMA HeadStays ==
    ASSUME NEW S, NEW q \in Seq(S), q # <<>>, NEW f
    PROVE  Append(q, f) # <<>> /\ Head(Append(q, f)) = Head(q)
<1>1. q \in Seq(S \cup {f})
  BY SeqGrows
<1>2. Len(q) \in Nat /\ Len(q) # 0 /\ Len(Append(q, f)) = Len(q) + 1
  BY <1>1
<1>3. Append(q, f)[1] = q[1]
  BY <1>1, <1>2
<1> QED
  BY <1>1, <1>2, <1>3

\* What concatenation and a rest hold, by position.
LEMMA Joined ==
    ASSUME NEW S, NEW s \in Seq(S), NEW t \in Seq(S)
    PROVE  /\ s \o t \in Seq(S) /\ Len(s \o t) = Len(s) + Len(t)
           /\ \A i \in 1 .. Len(s) : (s \o t)[i] = s[i]
           /\ \A j \in 1 .. Len(t) : (s \o t)[Len(s) + j] = t[j]
<1>1. Len(s) \in Nat /\ Len(t) \in Nat
  OBVIOUS
<1>2. /\ s \o t \in Seq(S) /\ Len(s \o t) = Len(s) + Len(t)
      /\ \A i \in 1 .. Len(s) + Len(t) : (s \o t)[i] = IF i <= Len(s) THEN s[i] ELSE t[i - Len(s)]
  BY ConcatProperties
<1>3. ASSUME NEW j \in 1 .. Len(t) PROVE (s \o t)[Len(s) + j] = t[j]
  <2>1. Len(s) + j \in 1 .. Len(s) + Len(t) /\ ~(Len(s) + j <= Len(s)) /\ (Len(s) + j) - Len(s) = j
    BY <1>1
  <2> QED
    BY <1>2, <2>1
<1>4. ASSUME NEW i \in 1 .. Len(s) PROVE (s \o t)[i] = s[i]
  <2>1. i \in 1 .. Len(s) + Len(t) /\ i <= Len(s)
    BY <1>1
  <2> QED
    BY <1>2, <2>1
<1> QED
  BY <1>2, <1>3, <1>4

LEMMA Suffix ==
    ASSUME NEW S, NEW s \in Seq(S), NEW k \in 0 .. Len(s)
    PROVE  /\ SubSeq(s, k + 1, Len(s)) \in Seq(S)
           /\ Len(SubSeq(s, k + 1, Len(s))) = Len(s) - k
           /\ \A j \in 1 .. Len(s) - k : SubSeq(s, k + 1, Len(s))[j] = s[k + j]
<1> DEFINE m == k + 1
<1>1. Len(s) \in Nat /\ m \in Nat /\ k \in Nat
  OBVIOUS
<1>2. \A i \in m .. Len(s) : s[i] \in S
  BY <1>1
<1> HIDE DEF m
<1>3. /\ SubSeq(s, m, Len(s)) \in Seq(S)
      /\ Len(SubSeq(s, m, Len(s))) = IF m <= Len(s) THEN Len(s) - m + 1 ELSE 0
      /\ \A i \in 1 .. Len(s) - m + 1 : SubSeq(s, m, Len(s))[i] = s[m + i - 1]
  BY <1>1, <1>2, SubSeqProperties
<1>4. /\ Len(s) - m + 1 = Len(s) - k /\ (~(m <= Len(s)) => Len(s) - k = 0)
      /\ \A j \in 1 .. Len(s) - k : m + j - 1 = k + j
  BY <1>1 DEF m
<1>5. Len(SubSeq(s, m, Len(s))) = Len(s) - k
  BY <1>3, <1>4
<1>6. \A j \in 1 .. Len(s) - k : SubSeq(s, m, Len(s))[j] = s[k + j]
  BY <1>3, <1>4
<1> QED
  BY <1>3, <1>5, <1>6 DEF m

\* What is taken from the head of a queue, and what stays.
LEMMA Divided ==
    ASSUME NEW S, NEW s \in Seq(S), NEW n \in 0 .. Len(s)
    PROVE  /\ SubSeq(s, 1, n) \in Seq(S) /\ Len(SubSeq(s, 1, n)) = n
           /\ SubSeq(s, n + 1, Len(s)) \in Seq(S)
           /\ SubSeq(s, 1, n) \o SubSeq(s, n + 1, Len(s)) = s
<1>1. Len(s) \in Nat /\ 1 \in 1 .. Len(s) + 1 /\ n \in 1 - 1 .. Len(s) /\ Len(s) \in n .. Len(s)
  OBVIOUS
<1>2. SubSeq(s, 1, n) \in Seq(S) /\ Len(SubSeq(s, 1, n)) = n
  OBVIOUS
<1>3. SubSeq(s, n + 1, Len(s)) \in Seq(S)
  BY Suffix
<1>4. SubSeq(s, 1, n) \o SubSeq(s, n + 1, Len(s)) = SubSeq(s, 1, Len(s))
  BY <1>1, ConcatAdjacentSubSeq
<1>5. SubSeq(s, 1, Len(s)) = s
  BY SubSeqFull
<1> QED
  BY <1>2, <1>3, <1>4, <1>5, Zenon

\* What is left of two queues together without the first of them.
LEMMA RestOfJoined ==
    ASSUME NEW S, NEW a \in Seq(S), NEW b \in Seq(S)
    PROVE  SubSeq(a \o b, Len(a) + 1, Len(a \o b)) = b
<1> DEFINE c == a \o b
<1>1. /\ c \in Seq(S) /\ Len(c) = Len(a) + Len(b) /\ Len(a) \in Nat /\ Len(b) \in Nat
      /\ \A j \in 1 .. Len(b) : c[Len(a) + j] = b[j]
  BY Joined
<1> HIDE DEF c
<1>2. /\ SubSeq(c, Len(a) + 1, Len(c)) \in Seq(S)
      /\ Len(SubSeq(c, Len(a) + 1, Len(c))) = Len(c) - Len(a)
      /\ \A j \in 1 .. Len(c) - Len(a) : SubSeq(c, Len(a) + 1, Len(c))[j] = c[Len(a) + j]
  <2>1. Len(a) \in 0 .. Len(c)
    BY <1>1
  <2> QED
    BY <1>1, <2>1, Suffix
<1> DEFINE d == SubSeq(c, Len(a) + 1, Len(c))
<1> HIDE DEF d
<1>3. d \in Seq(S) /\ Len(d) = Len(b) /\ \A j \in 1 .. Len(b) : d[j] = b[j]
  <2>1. Len(c) - Len(a) = Len(b)
    BY <1>1
  <2> QED
    BY <1>1, <1>2, <2>1 DEF d
<1>4. d = b
  BY <1>3, SeqEqual
<1> QED
  BY <1>4 DEF c, d

\* The head of a queue goes to the end of the one before it.
LEMMA HeadJoins ==
    ASSUME NEW S, NEW a \in Seq(S), NEW b \in Seq(S), b # <<>>
    PROVE  Append(a, Head(b)) \o Tail(b) = a \o b
<1>1. Head(b) \in S /\ Tail(b) \in Seq(S) /\ <<Head(b)>> \o Tail(b) = b
  OBVIOUS
<1> PICK h \in S, t \in Seq(S) : h = Head(b) /\ t = Tail(b)
  BY <1>1
<1>2. Append(a, h) = a \o <<h>>
  BY AppendIsConcat
<1>3. <<h>> \in Seq(S)
  OBVIOUS
<1>4. (a \o <<h>>) \o t = a \o (<<h>> \o t)
  BY <1>3, ConcatAssociative
<1> QED
  BY <1>1, <1>2, <1>4

\* Queues of one and of two elements.

LEMMA OneElement ==
    ASSUME NEW x
    PROVE  Append(<<>>, x) = <<x>> /\ Head(<<x>>) = x /\ Tail(<<x>>) = <<>>
<1>1. <<x>>[1] = x /\ <<x>> \in Seq({x}) /\ <<x>> # <<>>
  OBVIOUS
<1>2. Head(<<x>>) = x
  BY <1>1, HeadTailProperties
<1>3. Tail(<<x>>) = <<>>
  OBVIOUS
<1>4. Append(<<>>, x) = <<x>>
  OBVIOUS
<1> QED
  BY <1>2, <1>3, <1>4

LEMMA AppendToOne ==
    ASSUME NEW x, NEW y, NEW q, q = <<x>>
    PROVE  Append(q, y) = <<x, y>>
<1>1. q \in Seq({x, y}) /\ Len(q) = 1 /\ q[1] = x
  OBVIOUS
<1>2. /\ Append(q, y) \in Seq({x, y}) /\ Len(Append(q, y)) = 2
      /\ Append(q, y)[1] = x /\ Append(q, y)[2] = y
  BY <1>1
<1>3. <<x, y>> \in Seq({x, y}) /\ Len(<<x, y>>) = 2 /\ <<x, y>>[1] = x /\ <<x, y>>[2] = y
  OBVIOUS
<1>4. \A i \in 1 .. 2 : i = 1 \/ i = 2
  OBVIOUS
<1> QED
  BY <1>2, <1>3, <1>4, SeqEqual

LEMMA TwoElements ==
    ASSUME NEW x, NEW y
    PROVE  Append(<<x>>, y) = <<x, y>> /\ Head(<<x, y>>) = x /\ Tail(<<x, y>>) = <<y>>
<1>1. Append(<<x>>, y) = <<x, y>>
  BY AppendToOne
<1>2. Head(<<x, y>>) = x
  <2>1. <<x, y>>[1] = x /\ <<x, y>> \in Seq({x, y}) /\ <<x, y>> # <<>>
    OBVIOUS
  <2> QED
    BY <2>1, HeadTailProperties
<1>3. Tail(<<x, y>>) = <<y>>
  OBVIOUS
<1> QED
  BY <1>1, <1>2, <1>3

\* A prefix, element by element.
LEMMA PrefixByPosition ==
    ASSUME NEW S, NEW s \in Seq(S), NEW t \in Seq(S)
    PROVE  IsPrefix(s, t) <=> (Len(s) <= Len(t) /\ \A i \in 1 .. Len(s) : s[i] = t[i])
<1>1. Len(s) \in Nat /\ Len(t) \in Nat
  OBVIOUS
<1>2. SubSeq(s, 1, Len(s)) = s
  BY SubSeqFull
<1>3. CASE Len(s) <= Len(t)
  <2>1. Len(s) \in 0 .. Len(t)
    BY <1>1, <1>3
  <2>2. /\ SubSeq(t, 1, Len(s)) \in Seq(S) /\ Len(SubSeq(t, 1, Len(s))) = Len(s)
        /\ \A i \in 1 .. Len(s) : SubSeq(t, 1, Len(s))[i] = t[i]
    BY <1>1, <2>1
  <2>3. SubSeq(t, 1, Len(s)) = s <=> (\A i \in 1 .. Len(s) : SubSeq(t, 1, Len(s))[i] = s[i])
    BY <2>2, SeqEqual
  <2> QED
    BY <1>2, <1>3, <2>2, <2>3 DEF IsPrefix
<1>4. CASE ~(Len(s) <= Len(t))
  BY <1>4 DEF IsPrefix
<1> QED
  BY <1>3, <1>4

LEMMA PrefixOrder ==
    ASSUME NEW S, NEW s \in Seq(S), NEW t \in Seq(S), NEW u \in Seq(S)
    PROVE  /\ IsPrefix(s, s)
           /\ IsPrefix(s, t) /\ IsPrefix(t, u) => IsPrefix(s, u)
           /\ IsPrefix(s, t) /\ IsPrefix(t, s) => s = t
<1>1. Len(s) \in Nat /\ Len(t) \in Nat /\ Len(u) \in Nat
  OBVIOUS
<1>2. IsPrefix(s, s)
  BY <1>1, PrefixByPosition
<1>3. ASSUME IsPrefix(s, t), IsPrefix(t, u) PROVE IsPrefix(s, u)
  <2>1. Len(s) <= Len(t) /\ \A i \in 1 .. Len(s) : s[i] = t[i]
    BY <1>3, PrefixByPosition
  <2>2. Len(t) <= Len(u) /\ \A i \in 1 .. Len(t) : t[i] = u[i]
    BY <1>3, PrefixByPosition
  <2>3. Len(s) <= Len(u) /\ \A i \in 1 .. Len(s) : i \in 1 .. Len(t)
    BY <1>1, <2>1, <2>2
  <2>4. \A i \in 1 .. Len(s) : s[i] = u[i]
    BY <2>1, <2>2, <2>3
  <2> QED
    BY <2>3, <2>4, PrefixByPosition
<1>4. ASSUME IsPrefix(s, t), IsPrefix(t, s) PROVE s = t
  <2>1. Len(s) <= Len(t) /\ \A i \in 1 .. Len(s) : s[i] = t[i]
    BY <1>4, PrefixByPosition
  <2>2. Len(t) <= Len(s)
    BY <1>4, PrefixByPosition
  <2>3. Len(s) = Len(t)
    BY <1>1, <2>1, <2>2
  <2> QED
    BY <2>1, <2>3, SeqEqual
<1> QED
  BY <1>2, <1>3, <1>4

\* All but the last element.
LEMMA FrontByPosition ==
    ASSUME NEW S, NEW t \in Seq(S), t # <<>>
    PROVE  /\ Front(t) \in Seq(S) /\ Len(t) \in Nat \ {0} /\ Len(Front(t)) = Len(t) - 1
           /\ \A i \in 1 .. Len(t) - 1 : Front(t)[i] = t[i]
<1>1. Len(t) \in Nat \ {0}
  BY EmptySeq
<1> DEFINE n == Len(t) - 1
<1>2. n \in 0 .. Len(t)
  BY <1>1
<1>3. Front(t) = SubSeq(t, 1, n)
  BY DEF Front
<1> HIDE DEF n
<1>4. /\ SubSeq(t, 1, n) \in Seq(S) /\ Len(SubSeq(t, 1, n)) = n
      /\ \A i \in 1 .. n : SubSeq(t, 1, n)[i] = t[i]
  BY <1>1, <1>2
<1> QED
  BY <1>1, <1>3, <1>4 DEF n

LEMMA PrefixOfFront ==
    ASSUME NEW S, NEW t \in Seq(S), t # <<>>, NEW s \in Seq(S)
    PROVE  IsPrefix(s, Front(t)) <=> (IsPrefix(s, t) /\ s # t)
<1> DEFINE f == Front(t)
<1>1. /\ f \in Seq(S) /\ Len(t) \in Nat \ {0} /\ Len(f) = Len(t) - 1
      /\ \A i \in 1 .. Len(t) - 1 : f[i] = t[i]
  BY FrontByPosition
<1> HIDE DEF f
<1>2. Len(s) \in Nat
  OBVIOUS
<1>3. ASSUME IsPrefix(s, f) PROVE IsPrefix(s, t) /\ s # t
  <2>1. Len(s) <= Len(f) /\ \A i \in 1 .. Len(s) : s[i] = f[i]
    BY <1>1, <1>3, PrefixByPosition
  <2>2. Len(s) <= Len(t) /\ Len(s) # Len(t) /\ \A i \in 1 .. Len(s) : i \in 1 .. Len(t) - 1
    BY <1>1, <1>2, <2>1
  <2>3. \A i \in 1 .. Len(s) : s[i] = t[i]
    BY <1>1, <2>1, <2>2
  <2> QED
    BY <2>2, <2>3, PrefixByPosition
<1>4. ASSUME IsPrefix(s, t), s # t PROVE IsPrefix(s, f)
  <2>1. Len(s) <= Len(t) /\ \A i \in 1 .. Len(s) : s[i] = t[i]
    BY <1>4, PrefixByPosition
  <2>2. Len(s) # Len(t)
    BY <1>4, <2>1, SeqEqual
  <2>3. Len(s) <= Len(f) /\ \A i \in 1 .. Len(s) : i \in 1 .. Len(t) - 1
    BY <1>1, <1>2, <2>1, <2>2
  <2>4. \A i \in 1 .. Len(s) : s[i] = f[i]
    BY <1>1, <2>1, <2>3
  <2> QED
    BY <1>1, <2>3, <2>4, PrefixByPosition
<1> QED
  BY <1>3, <1>4 DEF f

-----------------------------------------------------------------------------
\* Pushing an element a duplicate-free list does not hold keeps it
\* duplicate-free and adds just that element.
LEMMA AppendNew ==
    ASSUME NEW S, NEW s \in Seq(S), NEW e \in S, IsInjective(s), e \notin Range(s)
    PROVE  /\ Append(s, e) \in Seq(S)
           /\ IsInjective(Append(s, e))
           /\ Range(Append(s, e)) = Range(s) \cup {e}
<1>1. /\ Append(s, e) \in Seq(S)
      /\ DOMAIN Append(s, e) = 1 .. Len(s) + 1
      /\ \A i \in 1 .. Len(s) : Append(s, e)[i] = s[i]
      /\ Append(s, e)[Len(s) + 1] = e
  OBVIOUS
<1>2. DOMAIN s = 1 .. Len(s) /\ Len(s) \in Nat
  OBVIOUS
<1>3. \A i \in 1 .. Len(s) : s[i] # e
  BY <1>2 DEF Range
<1>4. IsInjective(Append(s, e))
  BY <1>1, <1>2, <1>3 DEF IsInjective
<1>5. Range(Append(s, e)) = Range(s) \cup {e}
  <2>1. ASSUME NEW x \in Range(Append(s, e)) PROVE x \in Range(s) \cup {e}
    BY <1>1, <1>2 DEF Range
  <2>2. ASSUME NEW x \in Range(s) PROVE x \in Range(Append(s, e))
    <3>1. PICK i \in 1 .. Len(s) : x = s[i]
      BY <1>2 DEF Range
    <3>2. i \in 1 .. Len(s) + 1 /\ x = Append(s, e)[i]
      BY <1>1, <1>2, <3>1
    <3>3. QED BY <1>1, <3>2 DEF Range
  <2>3. e \in Range(Append(s, e))
    <3>1. Len(s) + 1 \in DOMAIN Append(s, e)
      BY <1>1, <1>2
    <3>2. QED BY <1>1, <3>1 DEF Range
  <2>4. QED BY <2>1, <2>2, <2>3
<1>6. QED BY <1>1, <1>4, <1>5

\* Popping the last element of a duplicate-free list removes just it.
LEMMA DropLast ==
    ASSUME NEW S, NEW s \in Seq(S), s # <<>>, IsInjective(s)
    PROVE  /\ Front(s) \in Seq(S)
           /\ Last(s) \in Range(s) /\ Last(s) \in S
           /\ IsInjective(Front(s))
           /\ Range(Front(s)) = Range(s) \ {Last(s)}
<1>1. DOMAIN s = 1 .. Len(s) /\ Len(s) \in Nat \ {0}
  BY EmptySeq
<1>2. /\ Front(s) \in Seq(S)
      /\ DOMAIN Front(s) = 1 .. Len(s) - 1
      /\ \A i \in 1 .. Len(s) - 1 : Front(s)[i] = s[i]
  <2>1. /\ Front(s) \in Seq(S) /\ Len(Front(s)) = Len(s) - 1
        /\ \A i \in 1 .. Len(s) - 1 : Front(s)[i] = s[i]
    BY FrontByPosition
  <2>2. DOMAIN Front(s) = 1 .. Len(Front(s))
    BY <2>1
  <2> QED
    BY <2>1, <2>2, Zenon
<1>3. Last(s) = s[Len(s)] /\ Last(s) \in Range(s) /\ Last(s) \in S
  <2>1. Last(s) = s[Len(s)]
    BY Zenon DEF Last
  <2>2. Len(s) \in DOMAIN s
    <3>1. \A k \in Nat \ {0} : k \in 1 .. k
      OBVIOUS
    <3> QED
      BY <1>1, <3>1, Zenon
  <2>3. s[Len(s)] \in S
    <3>1. \A i \in 1 .. Len(s) : s[i] \in S
      OBVIOUS
    <3> QED
      BY <1>1, <2>2, <3>1, Zenon
  <2> QED
    BY <2>1, <2>2, <2>3, Zenon DEF Range
<1>4. PICK n \in Nat : n = Len(s) /\ n # 0
  BY <1>1, Zenon
<1>5. \A i \in 1 .. n - 1 : i \in 1 .. n /\ n \in 1 .. n /\ i # n
  OBVIOUS
<1>6. \A i \in 1 .. n : i # n => i \in 1 .. n - 1
  OBVIOUS
<1>7. /\ DOMAIN s = 1 .. n /\ DOMAIN Front(s) = 1 .. n - 1 /\ Last(s) = s[n]
      /\ \A i \in 1 .. n - 1 : Front(s)[i] = s[i]
  BY <1>1, <1>2, <1>3, <1>4
<1>8. \A i, j \in 1 .. n : s[i] = s[j] => i = j
  BY <1>7, Zenon DEF IsInjective
<1>9. IsInjective(Front(s))
  BY <1>5, <1>7, <1>8, Zenon DEF IsInjective
<1>10. Range(Front(s)) = Range(s) \ {Last(s)}
  <2>1. ASSUME NEW x \in Range(Front(s)) PROVE x \in Range(s) \ {Last(s)}
    <3>1. PICK i \in 1 .. n - 1 : x = Front(s)[i]
      BY <1>7, <2>1, Zenon DEF Range
    <3>2. x = s[i] /\ i \in 1 .. n /\ n \in 1 .. n /\ i # n
      BY <1>5, <1>7, <3>1, Zenon
    <3>3. s[i] # s[n]
      BY <1>8, <3>2, Zenon
    <3> QED
      BY <1>7, <3>2, <3>3, Zenon DEF Range
  <2>2. ASSUME NEW x \in Range(s) \ {Last(s)} PROVE x \in Range(Front(s))
    <3>1. PICK i \in 1 .. n : x = s[i]
      BY <1>7, <2>2, Zenon DEF Range
    <3>2. i \in 1 .. n - 1
      BY <1>6, <1>7, <2>2, <3>1, Zenon
    <3> QED
      BY <1>7, <3>1, <3>2, Zenon DEF Range
  <2> QED
    BY <2>1, <2>2, Zenon
<1> QED
  BY <1>2, <1>3, <1>9, <1>10, Zenon

\* Popping the first element of a duplicate-free list removes just it.
LEMMA DropFirst ==
    ASSUME NEW S, NEW s \in Seq(S), s # <<>>, IsInjective(s)
    PROVE  /\ Tail(s) \in Seq(S)
           /\ Head(s) \in Range(s) /\ Head(s) \in S
           /\ IsInjective(Tail(s))
           /\ Range(Tail(s)) = Range(s) \ {Head(s)}
           /\ Tail(s) = <<>> <=> Len(s) = 1
<1>1. DOMAIN s = 1 .. Len(s) /\ Len(s) \in Nat \ {0}
  BY EmptySeq
<1>2. /\ Tail(s) \in Seq(S)
      /\ Len(Tail(s)) = Len(s) - 1
      /\ DOMAIN Tail(s) = 1 .. Len(s) - 1
      /\ \A i \in 1 .. Len(s) - 1 : Tail(s)[i] = s[i + 1]
  BY <1>1, HeadTailProperties
<1>3. Head(s) = s[1] /\ Head(s) \in Range(s) /\ Head(s) \in S
  BY <1>1 DEF Range
<1>4. IsInjective(Tail(s))
  <2>1. SUFFICES ASSUME NEW i \in 1 .. Len(s) - 1, NEW j \in 1 .. Len(s) - 1,
                        Tail(s)[i] = Tail(s)[j]
                 PROVE  i = j
    BY <1>2 DEF IsInjective
  <2>2. s[i + 1] = s[j + 1] /\ i + 1 \in DOMAIN s /\ j + 1 \in DOMAIN s
    BY <1>1, <1>2, <2>1
  <2>3. i + 1 = j + 1
    BY <2>2 DEF IsInjective
  <2>4. QED BY <2>3
<1>5. Range(Tail(s)) = Range(s) \ {Head(s)}
  <2>1. ASSUME NEW x \in Range(Tail(s)) PROVE x \in Range(s) \ {Head(s)}
    <3>1. PICK i \in 1 .. Len(s) - 1 : x = Tail(s)[i]
      BY <1>2 DEF Range
    <3>2. x = s[i + 1] /\ i + 1 \in DOMAIN s /\ 1 \in DOMAIN s /\ i + 1 # 1
      BY <1>1, <1>2, <3>1
    <3>3. QED BY <3>2, <1>3 DEF Range, IsInjective
  <2>2. ASSUME NEW x \in Range(s) \ {Head(s)} PROVE x \in Range(Tail(s))
    <3>1. PICK i \in 1 .. Len(s) : x = s[i]
      BY <1>1 DEF Range
    <3>2. i - 1 \in 1 .. Len(s) - 1 /\ (i - 1) + 1 = i
      BY <1>1, <1>3, <3>1
    <3>3. x = Tail(s)[i - 1] /\ i - 1 \in DOMAIN Tail(s)
      BY <1>2, <3>1, <3>2
    <3>4. QED BY <3>3 DEF Range
  <2>3. QED BY <2>1, <2>2
<1>6. Tail(s) = <<>> <=> Len(s) = 1
  BY <1>1, <1>2, EmptySeq
<1>7. QED BY <1>2, <1>3, <1>4, <1>5, <1>6
=============================================================================
