------------------------------ MODULE Ordered -------------------------------
(* Lists made of sets and of other lists: a query's ORDER BY, a filter, and   *)
(* an element that is taken out and put in elsewhere.                         *)
EXTENDS Integers, Sequences, FiniteSets

\* The members of S in the strict total order before, a set of pairs.
OrderBy(S, before) ==
    [k \in 1 .. Cardinality(S) |->
        CHOOSE x \in S : Cardinality({y \in S : <<y, x>> \in before}) = k - 1]

Ascending(S) == OrderBy(S, {p \in S \X S : p[1] < p[2]})

\* The elements of s with an index in K.
Picked(s, K) == [k \in 1 .. Cardinality(K) |-> s[Ascending(K)[k]]]

\* Where the k-th element comes from when one goes from one place to another.
Whence(k, from, to) ==
    CASE k = to -> from
      [] from <= k /\ k < to -> k + 1
      [] to < k /\ k <= from -> k - 1
      [] OTHER -> k

Moved(s, from, to) == [k \in DOMAIN s |-> s[Whence(k, from, to)]]
=============================================================================
