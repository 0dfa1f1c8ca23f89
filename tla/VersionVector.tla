--------------------------- MODULE VersionVector ---------------------------
(***************************************************************************)
(* The comparison operators of class VersionVector                         *)
(* (src/src/backend/VersionVector.cpp): a std::map from client ids to      *)
(* counters in which a missing key reads as zero.  A vector is a function  *)
(* whose domain is the set of keys present in the map.                     *)
(***************************************************************************)
EXTENDS Integers

\* operator[] const: a missing key reads as 0.
At(v, k) == IF k \in DOMAIN v THEN v[k] ELSE 0

\* operator[] used as an lvalue: inserts the key when it is missing.
Put(v, k, x) == [j \in DOMAIN v \cup {k} |-> IF j = k THEN x ELSE v[j]]

KeyUnion(v, w) == DOMAIN v \cup DOMAIN w

Leq(v, w) == \A k \in KeyUnion(v, w) : At(v, k) <= At(w, k)

\* Mutant: the loop forgets atLeastOneLess and returns true at its end.
Less_NoStrict(v, w) == Leq(v, w)
\* operator<: no key of the union is greater and at least one is less.
Less(v, w) ==
    /\ \A k \in KeyUnion(v, w) : At(v, k) <= At(w, k)
    /\ \E k \in KeyUnion(v, w) : At(v, k) < At(w, k)

Greater(v, w) == Less(w, v)
Geq(v, w) == Leq(w, v)

\* operator==: equal with missing elements set to zero.
Equal(v, w) == \A k \in KeyUnion(v, w) : At(v, k) = At(w, k)
=============================================================================
