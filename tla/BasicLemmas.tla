---------------------------- MODULE BasicLemmas ----------------------------
(***************************************************************************)
(* SumFunction, by which the models say what a fetch has loaded, what its  *)
(* windows hold and what a tab keeps: the sum does not depend on the order *)
(* its terms are taken in, grows with them, and follows a change of one of *)
(* them.  And the Max and Min of two, the Min of any naturals, the powers  *)
(* of two; induction over the naturals (CountUp), for a set in place of a  *)
(* predicate; and that there is a function with a value defined by one     *)
(* further down (DescendingRecursion), such as a run of steps (RunExists). *)
(*                                                                         *)
(* The argument.  The library defines a sum by a recursive function that   *)
(* takes one element away after the other (IsIter).  There is one          *)
(* (IterExists), and it is determined (IterUnique).  Every proof is an     *)
(* induction over the subsets of a finite set, SmallerSetsFirst, stated    *)
(* with the set of the subsets that are Good in place of a predicate: a    *)
(* set outside of it would have a smallest one.                            *)
(***************************************************************************)
EXTENDS Sequences, FiniteSetsExt, Functions, FiniteSetTheorems, TLAPS

\* Induction over the subsets of a finite set: one is Good if it is Good
\* without any one of its elements.
LEMMA SmallerSetsFirst ==
    ASSUME NEW S, IsFiniteSet(S), NEW Good,
           \A T \in SUBSET S : (\A x \in T : T \ {x} \in Good) => T \in Good
    PROVE  \A T \in SUBSET S : T \in Good
PROOF
<1> DEFINE Bad == {T \in SUBSET S : T \notin Good}
<1> SUFFICES ASSUME Bad # {} PROVE FALSE
  OBVIOUS
<1>1. IsWellFoundedOn(StrictSubsetOrdering(S), SUBSET S)
  <2> HIDE DEF Bad
  <2>1. FiniteSubsetsOf(S) = SUBSET S
    BY FS_FiniteSubsetsOfFinite
  <2>2. IsWellFoundedOn(StrictSubsetOrdering(S), FiniteSubsetsOf(S))
    BY FS_StrictSubsetOrderingWellFounded
  <2> QED BY <2>1, <2>2
<1>2. PICK T \in Bad : \A U \in Bad : <<U, T>> \notin StrictSubsetOrdering(S)
  <2> HIDE DEF Bad
  <2>1. Bad \subseteq SUBSET S
    BY DEF Bad
  <2> QED BY <1>1, <2>1, WFMin
<1>3. PICK x \in T : T \ {x} \notin Good
  OBVIOUS
<1>4. T \ {x} \in Bad
  BY <1>3
<1>5. <<T \ {x}, T>> \in StrictSubsetOrdering(S)
  BY <1>3, <1>4 DEF StrictSubsetOrdering
<1> QED BY <1>2, <1>4, <1>5
-----------------------------------------------------------------------------
\* The element of a set that a fold takes first.
FirstOf(s) == CHOOSE x \in s : TRUE

\* g gives the sum of f over every subset of S.
IsIter(f, S, g) ==
    g = [s \in SUBSET S |->
            IF s = {} THEN 0 ELSE f[FirstOf(s)] + g[s \ {FirstOf(s)}]]

\* The element a fold takes away is one of the set.
LEMMA FirstIsOne == ASSUME NEW s, s # {} PROVE FirstOf(s) \in s
BY DEF FirstOf

\* What the library sums by.
LEMMA SumIsIter ==
    ASSUME NEW f, NEW S
    PROVE  SumFunctionOnSet(f, S) = (CHOOSE g : IsIter(f, S, g))[S]
BY DEF SumFunctionOnSet, FoldFunctionOnSet, MapThenFoldSet, IsIter, FirstOf

\* Two such functions agree where both are defined.
LEMMA IterUnique ==
    ASSUME NEW f, NEW S, IsFiniteSet(S),
           NEW T, NEW U, S \subseteq T, S \subseteq U,
           NEW g, NEW h, IsIter(f, T, g), IsIter(f, U, h)
    PROVE  g[S] = h[S]
PROOF
<1> DEFINE Good == {s \in SUBSET S : g[s] = h[s]}
<1>1. ASSUME NEW s \in SUBSET S, \A x \in s : s \ {x} \in Good
      PROVE  s \in Good
  <2>1. CASE s = {}
    BY <2>1 DEF IsIter
  <2>2. CASE s # {}
    <3>1. g[s \ {FirstOf(s)}] = h[s \ {FirstOf(s)}]
      BY <1>1, <2>2, FirstIsOne
    <3>2. g[s] = f[FirstOf(s)] + g[s \ {FirstOf(s)}]
      BY <2>2 DEF IsIter
    <3>3. h[s] = f[FirstOf(s)] + h[s \ {FirstOf(s)}]
      BY <2>2 DEF IsIter
    <3> QED BY <3>1, <3>2, <3>3
  <2> QED BY <2>1, <2>2
<1> HIDE DEF Good
<1>2. \A R \in SUBSET S : R \in Good
  BY <1>1, SmallerSetsFirst
<1>3. S \in Good
  BY <1>2
<1> QED BY <1>3 DEF Good

\* There is such a function on every finite set.
LEMMA IterExists ==
    ASSUME NEW f, NEW S, IsFiniteSet(S)
    PROVE  \E g : IsIter(f, S, g)
PROOF
<1> DEFINE it(T) == CHOOSE g : IsIter(f, T, g)
           Good == {T \in SUBSET S : \E g : IsIter(f, T, g)}
<1>1. ASSUME NEW T \in SUBSET S, \A x \in T : T \ {x} \in Good
      PROVE  T \in Good
  <2> DEFINE g == [s \in SUBSET T |->
                     IF s = {} THEN 0
                     ELSE f[FirstOf(s)] + it(s \ {FirstOf(s)})[s \ {FirstOf(s)}]]
  <2>1. ASSUME NEW s \in SUBSET T, s # T
        PROVE  IsIter(f, s, it(s))
    <3>1. PICK x \in T : x \notin s
      BY <2>1
    <3>2. PICK h : IsIter(f, T \ {x}, h)
      BY <1>1
    <3>3. IsIter(f, s, [r \in SUBSET s |-> h[r]])
      <4>1. ASSUME NEW r \in SUBSET s
            PROVE  h[r] = IF r = {} THEN 0 ELSE f[FirstOf(r)] + h[r \ {FirstOf(r)}]
        BY <3>1, <3>2 DEF IsIter
      <4> QED BY <4>1 DEF IsIter
    <3> QED BY <3>3
  <2>2. ASSUME NEW s \in SUBSET T, s # T
        PROVE  it(s)[s] = g[s]
    <3>1. it(s) = [r \in SUBSET s |->
                     IF r = {} THEN 0
                     ELSE f[FirstOf(r)] + it(s)[r \ {FirstOf(r)}]]
      BY <2>1, <2>2 DEF IsIter
    <3>2. CASE s = {}
      BY <3>1, <3>2
    <3>3. CASE s # {}
      <4> DEFINE u == s \ {FirstOf(s)}
      <4>1. FirstOf(s) \in s
        BY <3>3, FirstIsOne
      <4>2. u \in SUBSET T /\ u # T /\ u \subseteq s /\ IsFiniteSet(u)
        BY <4>1, FS_Subset
      <4>3. IsIter(f, u, it(u)) /\ IsIter(f, s, it(s))
        BY <4>2, <2>1, <2>2
      <4>4. it(u)[u] = it(s)[u]
        <5> HIDE DEF it, u
        <5> QED BY <4>2, <4>3, IterUnique
      <4>5. it(s)[s] = f[FirstOf(s)] + it(s)[u]
        BY <3>1, <3>3
      <4> QED BY <4>4, <4>5, <3>3
    <3> QED BY <3>2, <3>3
  <2>3. ASSUME NEW s \in SUBSET T
        PROVE  g[s] = IF s = {} THEN 0 ELSE f[FirstOf(s)] + g[s \ {FirstOf(s)}]
    <3>1. CASE s = {}
      BY <3>1
    <3>2. CASE s # {}
      <4>1. s \ {FirstOf(s)} \in SUBSET T /\ s \ {FirstOf(s)} # T
        BY <3>2, FirstIsOne
      <4>2. it(s \ {FirstOf(s)})[s \ {FirstOf(s)}] = g[s \ {FirstOf(s)}]
        BY <4>1, <2>2
      <4> QED BY <4>2, <3>2
    <3> QED BY <3>1, <3>2
  <2>4. g = [s \in SUBSET T |-> IF s = {} THEN 0
                                ELSE f[FirstOf(s)] + g[s \ {FirstOf(s)}]]
    <3>1. g = [s \in SUBSET T |-> g[s]]
      OBVIOUS
    <3> HIDE DEF g
    <3> QED BY <3>1, <2>3
  <2>5. IsIter(f, T, g)
    BY <2>4, Zenon DEF IsIter
  <2> QED BY <2>5
<1> HIDE DEF Good
<1>2. \A T \in SUBSET S : T \in Good
  BY <1>1, SmallerSetsFirst
<1>3. S \in Good
  BY <1>2
<1> QED BY <1>3 DEF Good
-----------------------------------------------------------------------------
\* Nothing sums to nothing.
LEMMA SumOfNone == ASSUME NEW f PROVE SumFunctionOnSet(f, {}) = 0
PROOF
<1>1. IsFiniteSet({})
  BY FS_EmptySet
<1>2. PICK g : IsIter(f, {}, g)
  BY <1>1, IterExists
<1>3. IsIter(f, {}, CHOOSE h : IsIter(f, {}, h))
  BY <1>2
<1>4. (CHOOSE h : IsIter(f, {}, h))[{}] = 0
  BY <1>3 DEF IsIter
<1> QED BY <1>4, SumIsIter

\* A sum is the term the fold takes first and the sum of the others.
LEMMA SumOfFirst ==
    ASSUME NEW f, NEW S, IsFiniteSet(S), S # {}
    PROVE  SumFunctionOnSet(f, S)
               = f[FirstOf(S)] + SumFunctionOnSet(f, S \ {FirstOf(S)})
PROOF
<1> DEFINE x == FirstOf(S)
           g == CHOOSE h : IsIter(f, S, h)
           k == CHOOSE h : IsIter(f, S \ {x}, h)
<1>1. x \in S /\ IsFiniteSet(S \ {x})
  BY FirstIsOne, FS_RemoveElement
<1>2. IsIter(f, S, g) /\ IsIter(f, S \ {x}, k)
  BY <1>1, IterExists
<1> HIDE DEF g, k
<1>3. g[S] = f[x] + g[S \ {x}]
  BY <1>2 DEF IsIter
<1>4. g[S \ {x}] = k[S \ {x}]
  <2> HIDE DEF x
  <2> QED BY <1>1, <1>2, IterUnique
<1>5. SumFunctionOnSet(f, S) = g[S]
  BY SumIsIter DEF g
<1>6. SumFunctionOnSet(f, S \ {x}) = k[S \ {x}]
  BY SumIsIter DEF k
<1> QED BY <1>3, <1>4, <1>5, <1>6

\* A sum of integers is one.
LEMMA SumIsInt ==
    ASSUME NEW S, IsFiniteSet(S), NEW f, \A x \in S : f[x] \in Int
    PROVE  SumFunctionOnSet(f, S) \in Int
PROOF
<1> DEFINE Good == {T \in SUBSET S : SumFunctionOnSet(f, T) \in Int}
<1>1. ASSUME NEW T \in SUBSET S, \A x \in T : T \ {x} \in Good
      PROVE  T \in Good
  <2>1. CASE T = {}
    BY <2>1, SumOfNone
  <2>2. CASE T # {}
    <3>1. FirstOf(T) \in T /\ IsFiniteSet(T)
      BY <2>2, FirstIsOne, FS_Subset
    <3>2. SumFunctionOnSet(f, T \ {FirstOf(T)}) \in Int /\ f[FirstOf(T)] \in Int
      BY <1>1, <3>1
    <3> QED BY <2>2, <3>1, <3>2, SumOfFirst
  <2> QED BY <2>1, <2>2
<1> HIDE DEF Good
<1>2. \A T \in SUBSET S : T \in Good
  BY <1>1, SmallerSetsFirst
<1>3. S \in Good
  BY <1>2
<1> QED BY <1>3 DEF Good

\* A sum is any one of its terms and the sum of the others: the order in
\* which the fold takes them does not matter.
LEMMA SumOfOneMore ==
    ASSUME NEW S, IsFiniteSet(S), NEW f, \A y \in S : f[y] \in Int,
           NEW x \in S
    PROVE  SumFunctionOnSet(f, S) = f[x] + SumFunctionOnSet(f, S \ {x})
PROOF
<1> DEFINE Splits(T) ==
               \A y \in T : SumFunctionOnSet(f, T)
                                = f[y] + SumFunctionOnSet(f, T \ {y})
           Good == {T \in SUBSET S : Splits(T)}
<1>1. ASSUME NEW T \in SUBSET S, \A y \in T : T \ {y} \in Good
      PROVE  T \in Good
  <2> SUFFICES ASSUME NEW y \in T
               PROVE  SumFunctionOnSet(f, T)
                          = f[y] + SumFunctionOnSet(f, T \ {y})
    OBVIOUS
  <2> DEFINE c == FirstOf(T)
  <2>1. c \in T /\ IsFiniteSet(T)
    BY FirstIsOne, FS_Subset
  <2>2. SumFunctionOnSet(f, T) = f[c] + SumFunctionOnSet(f, T \ {c})
    BY <2>1, SumOfFirst
  <2> HIDE DEF c
  <2>3. CASE y = c
    BY <2>2, <2>3
  <2>4. CASE y # c
    <3>1. /\ T \ {c} \in Good /\ T \ {y} \in Good
          /\ y \in T \ {c} /\ c \in T \ {y}
      BY <1>1, <2>1, <2>4
    <3> DEFINE rest == (T \ {c}) \ {y}
    <3>2. SumFunctionOnSet(f, T \ {c}) = f[y] + SumFunctionOnSet(f, rest)
      BY <3>1
    <3>3. (T \ {y}) \ {c} = rest
      OBVIOUS
    <3>4. SumFunctionOnSet(f, T \ {y}) = f[c] + SumFunctionOnSet(f, rest)
      BY <3>1, <3>3
    <3>5. IsFiniteSet(rest) /\ rest \subseteq S
      BY <2>1, FS_RemoveElement
    <3>6. SumFunctionOnSet(f, rest) \in Int /\ f[y] \in Int /\ f[c] \in Int
      BY <3>5, SumIsInt, <2>1
    <3> HIDE DEF rest
    <3> QED BY <2>2, <3>2, <3>4, <3>6
  <2> QED BY <2>3, <2>4
<1> HIDE DEF Good
<1>2. \A T \in SUBSET S : T \in Good
  BY <1>1, SmallerSetsFirst
<1>3. S \in Good
  BY <1>2
<1> QED BY <1>3 DEF Good

\* A sum of natural numbers is one.
LEMMA SumIsNat ==
    ASSUME NEW S, IsFiniteSet(S), NEW f, \A x \in S : f[x] \in Nat
    PROVE  SumFunctionOnSet(f, S) \in Nat
PROOF
<1> DEFINE Good == {T \in SUBSET S : SumFunctionOnSet(f, T) \in Nat}
<1>1. ASSUME NEW T \in SUBSET S, \A x \in T : T \ {x} \in Good
      PROVE  T \in Good
  <2>1. CASE T = {}
    BY <2>1, SumOfNone
  <2>2. CASE T # {}
    <3>1. FirstOf(T) \in T /\ IsFiniteSet(T)
      BY <2>2, FirstIsOne, FS_Subset
    <3>2. SumFunctionOnSet(f, T \ {FirstOf(T)}) \in Nat /\ f[FirstOf(T)] \in Nat
      BY <1>1, <3>1
    <3> QED BY <2>2, <3>1, <3>2, SumOfFirst
  <2> QED BY <2>1, <2>2
<1> HIDE DEF Good
<1>2. \A T \in SUBSET S : T \in Good
  BY <1>1, SmallerSetsFirst
<1>3. S \in Good
  BY <1>2
<1> QED BY <1>3 DEF Good

\* A sum of one term.
LEMMA SumOfOne ==
    ASSUME NEW f, NEW x, DOMAIN f = {x}, f[x] \in Int
    PROVE  SumFunction(f) = f[x]
PROOF
<1>1. IsFiniteSet({x}) /\ \A y \in {x} : f[y] \in Int
  BY FS_Singleton
<1>2. SumFunctionOnSet(f, {x}) = f[x] + SumFunctionOnSet(f, {x} \ {x})
  BY <1>1, SumOfOneMore
<1>3. SumFunctionOnSet(f, {x} \ {x}) = 0
  <2>1. {x} \ {x} = {}
    OBVIOUS
  <2> QED BY <2>1, SumOfNone
<1>4. SumFunction(f) = SumFunctionOnSet(f, {x})
  BY DEF SumFunction
<1> QED BY <1>2, <1>3, <1>4

\* A sum grows with its terms.
LEMMA SumMonotone ==
    ASSUME NEW S, IsFiniteSet(S), NEW f, NEW g,
           \A x \in S : f[x] \in Int /\ g[x] \in Int /\ f[x] <= g[x]
    PROVE  SumFunctionOnSet(f, S) <= SumFunctionOnSet(g, S)
PROOF
<1> DEFINE Good == {T \in SUBSET S :
                       SumFunctionOnSet(f, T) <= SumFunctionOnSet(g, T)}
<1>1. ASSUME NEW T \in SUBSET S, \A x \in T : T \ {x} \in Good
      PROVE  T \in Good
  <2>1. CASE T = {}
    BY <2>1, SumOfNone
  <2>2. CASE T # {}
    <3> DEFINE c == FirstOf(T)
               r == T \ {c}
    <3>1. c \in T /\ IsFiniteSet(T) /\ r \in Good /\ IsFiniteSet(r)
      BY <1>1, <2>2, FirstIsOne, FS_Subset
    <3>2. /\ SumFunctionOnSet(f, T) = f[c] + SumFunctionOnSet(f, r)
          /\ SumFunctionOnSet(g, T) = g[c] + SumFunctionOnSet(g, r)
      BY <2>2, <3>1, SumOfFirst
    <3> HIDE DEF c
    <3>3. r \subseteq S
      BY <3>1
    <3> HIDE DEF r
    <3>4. SumFunctionOnSet(f, r) \in Int /\ SumFunctionOnSet(g, r) \in Int
      BY <3>1, <3>3, SumIsInt
    <3>5. SumFunctionOnSet(f, r) <= SumFunctionOnSet(g, r)
      BY <3>1
    <3>6. f[c] \in Int /\ g[c] \in Int /\ f[c] <= g[c]
      BY <3>1
    <3> QED BY <3>2, <3>4, <3>5, <3>6
  <2> QED BY <2>1, <2>2
<1> HIDE DEF Good
<1>2. \A T \in SUBSET S : T \in Good
  BY <1>1, SmallerSetsFirst
<1>3. S \in Good
  BY <1>2
<1> QED BY <1>3 DEF Good

\* Only the terms count.
LEMMA SumOfSameTerms ==
    ASSUME NEW S, IsFiniteSet(S), NEW f, NEW g,
           \A x \in S : f[x] \in Int /\ f[x] = g[x]
    PROVE  SumFunctionOnSet(f, S) = SumFunctionOnSet(g, S)
PROOF
<1>1. SumFunctionOnSet(f, S) <= SumFunctionOnSet(g, S)
  BY SumMonotone
<1>2. SumFunctionOnSet(g, S) <= SumFunctionOnSet(f, S)
  BY SumMonotone
<1>3. SumFunctionOnSet(f, S) \in Int /\ SumFunctionOnSet(g, S) \in Int
  BY SumIsInt
<1> QED BY <1>1, <1>2, <1>3

\* One term more or less changes the sum by as much.
LEMMA SumOfOneChanged ==
    ASSUME NEW S, IsFiniteSet(S), NEW f, NEW g, NEW x \in S,
           \A y \in S : f[y] \in Int /\ g[y] \in Int,
           \A y \in S \ {x} : g[y] = f[y]
    PROVE  SumFunctionOnSet(g, S) = SumFunctionOnSet(f, S) - f[x] + g[x]
PROOF
<1> DEFINE r == S \ {x}
<1>1. /\ SumFunctionOnSet(f, S) = f[x] + SumFunctionOnSet(f, r)
      /\ SumFunctionOnSet(g, S) = g[x] + SumFunctionOnSet(g, r)
  BY SumOfOneMore
<1>2. IsFiniteSet(r) /\ \A y \in r : y \in S /\ f[y] = g[y]
  BY FS_RemoveElement
<1> HIDE DEF r
<1>3. SumFunctionOnSet(f, r) = SumFunctionOnSet(g, r)
  BY <1>2, SumOfSameTerms
<1>4. SumFunctionOnSet(f, r) \in Int
  BY <1>2, SumIsInt
<1> QED BY <1>1, <1>3, <1>4

\* A sum of zeros is zero.
LEMMA SumOfZeros ==
    ASSUME NEW S, IsFiniteSet(S), NEW f, \A x \in S : f[x] = 0
    PROVE  SumFunctionOnSet(f, S) = 0
PROOF
<1> DEFINE Good == {T \in SUBSET S : SumFunctionOnSet(f, T) = 0}
<1>1. ASSUME NEW T \in SUBSET S, \A x \in T : T \ {x} \in Good
      PROVE  T \in Good
  <2>1. CASE T = {}
    BY <2>1, SumOfNone
  <2>2. CASE T # {}
    <3>1. FirstOf(T) \in T /\ IsFiniteSet(T)
      BY <2>2, FirstIsOne, FS_Subset
    <3>2. SumFunctionOnSet(f, T \ {FirstOf(T)}) = 0 /\ f[FirstOf(T)] = 0
      BY <1>1, <3>1
    <3> QED BY <2>2, <3>1, <3>2, SumOfFirst
  <2> QED BY <2>1, <2>2
<1> HIDE DEF Good
<1>2. \A T \in SUBSET S : T \in Good
  BY <1>1, SmallerSetsFirst
<1>3. S \in Good
  BY <1>2
<1> QED BY <1>3 DEF Good

\* A number appended to a sequence is added to its sum.
LEMMA SumOfAppend ==
    ASSUME NEW s \in Seq(Int), NEW e \in Int
    PROVE  SumFunction(Append(s, e)) = SumFunction(s) + e
PROOF
<1> DEFINE n == Len(s)
           t == Append(s, e)
<1>1. /\ n \in Nat /\ DOMAIN s = 1 .. n /\ DOMAIN t = 1 .. n + 1
      /\ t[n + 1] = e
      /\ \A i \in 1 .. n : t[i] = s[i] /\ s[i] \in Int
  OBVIOUS
<1> HIDE DEF t, n
<1>2. IsFiniteSet(1 .. n) /\ IsFiniteSet(1 .. n + 1)
  BY <1>1, FS_Interval
<1>3. n + 1 \in 1 .. n + 1 /\ (1 .. n + 1) \ {n + 1} = 1 .. n
      /\ \A i \in 1 .. n + 1 : t[i] \in Int
  BY <1>1
<1>4. SumFunctionOnSet(t, 1 .. n + 1)
        = t[n + 1] + SumFunctionOnSet(t, (1 .. n + 1) \ {n + 1})
  BY <1>2, <1>3, SumOfOneMore
<1>5. SumFunctionOnSet(t, 1 .. n) = SumFunctionOnSet(s, 1 .. n)
  BY <1>1, <1>2, SumOfSameTerms
<1>6. SumFunctionOnSet(s, 1 .. n) \in Int
  BY <1>1, <1>2, SumIsInt
<1>7. SumFunction(t) = e + SumFunctionOnSet(s, 1 .. n)
  BY <1>1, <1>3, <1>4, <1>5 DEF SumFunction
<1>8. SumFunction(s) = SumFunctionOnSet(s, 1 .. n)
  BY <1>1 DEF SumFunction
<1> QED BY <1>6, <1>7, <1>8 DEF t

\* The sum of a concatenation is the sum of its parts.
LEMMA SumOfConcat ==
    ASSUME NEW s \in Seq(Int), NEW t \in Seq(Int)
    PROVE  SumFunction(s \o t) = SumFunction(s) + SumFunction(t)
PROOF
<1> DEFINE n == Len(t)
           first(k) == SubSeq(t, 1, k)
           Adds(k) == SumFunction(s \o first(k))
                        = SumFunction(s) + SumFunction(first(k))
           Good == {T \in SUBSET (1 .. n) :
                      \A k \in 0 .. n : T = 1 .. k => Adds(k)}
<1>1. n \in Nat /\ first(n) = t
  OBVIOUS
<1>2. SumFunction(s) \in Int
  <2>1. DOMAIN s = 1 .. Len(s) /\ Len(s) \in Nat
        /\ \A i \in 1 .. Len(s) : s[i] \in Int
    OBVIOUS
  <2>2. IsFiniteSet(1 .. Len(s))
    BY <2>1, FS_Interval
  <2>3. SumFunctionOnSet(s, 1 .. Len(s)) \in Int
    BY <2>1, <2>2, SumIsInt
  <2> QED BY <2>1, <2>3 DEF SumFunction
<1>3. Adds(0)
  <2>1. first(0) = <<>> /\ s \o <<>> = s
    OBVIOUS
  <2>2. SumFunction(<<>>) = 0
    <3>1. SumFunction(<<>>) = SumFunctionOnSet(<<>>, DOMAIN <<>>)
      BY DEF SumFunction
    <3>2. DOMAIN <<>> = {}
      OBVIOUS
    <3> QED BY <3>1, <3>2, SumOfNone
  <2> HIDE DEF first
  <2>3. SumFunction(s \o first(0)) = SumFunction(s)
    BY <2>1
  <2>4. SumFunction(first(0)) = 0
    BY <2>1, <2>2
  <2> QED BY <1>2, <2>3, <2>4
<1>4. ASSUME NEW k \in 1 .. n, Adds(k - 1) PROVE Adds(k)
  <2> DEFINE u == first(k - 1)
  <2>1. /\ u \in Seq(Int) /\ s \o u \in Seq(Int) /\ t[k] \in Int
        /\ k - 1 \in Nat
    OBVIOUS
  <2>2. first(k) = Append(u, t[k])
    OBVIOUS
  <2>3. s \o Append(u, t[k]) = Append(s \o u, t[k])
    <3> HIDE DEF u
    <3> QED BY <2>1
  <2>4. SumFunction(u) \in Int
    <3> HIDE DEF u
    <3>1. DOMAIN u = 1 .. Len(u) /\ Len(u) \in Nat
          /\ \A i \in 1 .. Len(u) : u[i] \in Int
      BY <2>1
    <3>2. IsFiniteSet(1 .. Len(u))
      BY <3>1, FS_Interval
    <3>3. SumFunctionOnSet(u, 1 .. Len(u)) \in Int
      BY <3>1, <3>2, SumIsInt
    <3> QED BY <3>1, <3>3 DEF SumFunction
  <2>5. SumFunction(s \o u) = SumFunction(s) + SumFunction(u)
    BY <1>4
  <2> HIDE DEF u
  <2>6. /\ SumFunction(Append(u, t[k])) = SumFunction(u) + t[k]
        /\ SumFunction(Append(s \o u, t[k])) = SumFunction(s \o u) + t[k]
    BY <2>1, SumOfAppend
  <2>7. SumFunction(s \o Append(u, t[k]))
          = SumFunction(s) + SumFunction(Append(u, t[k]))
    BY <1>2, <2>1, <2>3, <2>4, <2>5, <2>6
  <2> QED BY <2>2, <2>7
<1>5. ASSUME NEW T \in SUBSET (1 .. n), \A x \in T : T \ {x} \in Good
      PROVE  T \in Good
  <2> HIDE DEF Adds
  <2> SUFFICES ASSUME NEW k \in 0 .. n, T = 1 .. k PROVE Adds(k)
    OBVIOUS
  <2>1. CASE k = 0
    BY <1>3, <2>1
  <2>2. CASE k # 0
    <3>1. k \in 1 .. n /\ k \in T /\ T \ {k} = 1 .. k - 1
          /\ k - 1 \in 0 .. n
      BY <1>1, <2>2
    <3>2. T \ {k} \in Good
      BY <1>5, <3>1
    <3>3. Adds(k - 1)
      BY <3>1, <3>2
    <3> QED BY <1>4, <3>1, <3>3
  <2> QED BY <2>1, <2>2
<1>6. Adds(n)
  <2> HIDE DEF Adds
  <2>1. IsFiniteSet(1 .. n)
    BY <1>1, FS_Interval
  <2>2. 1 .. n \in Good
    <3> HIDE DEF Good
    <3>1. \A T \in SUBSET (1 .. n) : T \in Good
      BY <1>5, <2>1, SmallerSetsFirst
    <3> QED BY <3>1
  <2>3. \A k \in 0 .. n : 1 .. n = 1 .. k => Adds(k)
    BY <2>2
  <2> HIDE DEF n
  <2> QED BY <1>1, <2>3
<1> QED BY <1>1, <1>6

\* The smaller of two numbers is one of them.
LEMMA MinOfTwo ==
    ASSUME NEW a \in Int, NEW b \in Int
    PROVE  Min({a, b}) = IF a <= b THEN a ELSE b
BY DEF Min

\* And so is the larger.
LEMMA MaxOfTwo ==
    ASSUME NEW a \in Int, NEW b \in Int
    PROVE  Max({a, b}) = IF a >= b THEN a ELSE b
BY DEF Max

\* A set of naturals has a least element.
LEMMA MinOfNaturals ==
    ASSUME NEW S \in SUBSET Nat, S # {}
    PROVE  Min(S) \in S /\ \A y \in S : Min(S) <= y
PROOF
<1> DEFINE R == {ss \in Nat \X Nat : ss[1] < ss[2]}
<1>1. IsWellFoundedOn(R, Nat)
  BY NatLessThanWellFounded DEF OpToRel
<1>2. PICK x \in S : \A y \in S : <<y, x>> \notin R
  <2> HIDE DEF R
  <2> QED BY <1>1, WFMin
<1>3. ASSUME NEW y \in S PROVE x <= y
  <2>1. CASE y < x
    <3>1. <<y, x>> \in Nat \X Nat /\ <<y, x>>[1] < <<y, x>>[2]
      BY <2>1
    <3>2. <<y, x>> \in R
      BY <3>1
    <3> QED BY <3>2, <1>2
  <2>2. CASE ~(y < x)
    BY <2>2
  <2> QED BY <2>1, <2>2
<1> HIDE DEF R
<1> QED BY <1>3 DEF Min
-----------------------------------------------------------------------------
\* What holds of zero, and of the next of any number it holds of, holds of all
\* of them.
LEMMA CountUp ==
    ASSUME NEW Good, 0 \in Good, \A n \in Nat : n \in Good => n + 1 \in Good
    PROVE  \A n \in Nat : n \in Good
PROOF
<1> DEFINE Bad == Nat \ Good
<1> SUFFICES ASSUME Bad # {} PROVE FALSE
  OBVIOUS
<1> DEFINE m == Min(Bad)
<1>1. m \in Bad /\ \A y \in Bad : m <= y
  BY MinOfNaturals
<1> HIDE DEF m
<1>2. m # 0 /\ m - 1 \in Nat /\ ~(m <= m - 1)
  BY <1>1
<1>3. m - 1 \in Good
  BY <1>1, <1>2
<1>4. m - 1 + 1 \in Good /\ m - 1 + 1 = m
  BY <1>1, <1>2, <1>3
<1> QED BY <1>1, <1>4

\* A function on S into V defined by its values further down: the elements of
\* D have theirs first, any other puts something on top of the value of an
\* element of smaller rank.
IsRecursion(S, V, D, rank, down, first, put) ==
    /\ D \subseteq S
    /\ rank \in [S -> Nat] /\ down \in [S \ D -> S]
    /\ \A x \in S \ D : rank[down[x]] < rank[x]
    /\ first \in [D -> V] /\ put \in [S \ D -> [V -> V]]

IsDefinedSo(f, S, V, D, down, first, put) ==
    /\ f \in [S -> V]
    /\ \A x \in S : f[x] = IF x \in D THEN first[x] ELSE put[x][f[down[x]]]

\* There is such a function.
LEMMA DescendingRecursion ==
    ASSUME NEW S, NEW V, NEW D, NEW rank, NEW down, NEW first, NEW put,
           IsRecursion(S, V, D, rank, down, first, put)
    PROVE  \E f : IsDefinedSo(f, S, V, D, down, first, put)
PROOF
<1> DEFINE Low(n) == {x \in S : rank[x] < n}
           Value(f, x) == IF x \in D THEN first[x] ELSE put[x][f[down[x]]]
           UpTo(f, n) == f \in [Low(n) -> V] /\ \A x \in Low(n) : f[x] = Value(f, x)
           partial(n) == CHOOSE f : UpTo(f, n)
           Good == {n \in Nat : \E f : UpTo(f, n)}
<1> USE DEF IsRecursion
<1>1. ASSUME NEW x \in S, x \notin D, NEW n \in Nat, x \in Low(n + 1)
      PROVE  down[x] \in Low(n)
  BY <1>1
<1>2. 0 \in Good
  <2>1. Low(0) = {}
    OBVIOUS
  <2>2. UpTo([x \in Low(0) |-> x], 0)
    BY <2>1
  <2> QED BY <2>2
<1>3. ASSUME NEW n \in Nat, n \in Good
      PROVE  n + 1 \in Good
  <2> DEFINE g == [x \in Low(n + 1) |-> Value(partial(n), x)]
  <2>1. UpTo(partial(n), n)
    BY <1>3
  <2>2. ASSUME NEW x \in Low(n) PROVE g[x] = partial(n)[x]
    <3>1. x \in Low(n + 1)
      OBVIOUS
    <3> HIDE DEF Low, Value, partial
    <3> QED BY <2>1, <3>1
  <2>3. ASSUME NEW x \in Low(n + 1)
        PROVE  g[x] \in V /\ g[x] = Value(g, x)
    <3>1. CASE x \in D
      BY <3>1
    <3>2. CASE x \notin D
      <4>1. down[x] \in Low(n)
        BY <1>1, <3>2
      <4>2. g[down[x]] = partial(n)[down[x]] /\ partial(n)[down[x]] \in V
        <5> HIDE DEF Low, g, partial
        <5> QED BY <2>1, <2>2, <4>1
      <4>3. g[x] = put[x][partial(n)[down[x]]]
        BY <3>2
      <4>4. put[x] \in [V -> V]
        BY <3>2
      <4> HIDE DEF g, partial
      <4> QED BY <3>2, <4>2, <4>3, <4>4
    <3> QED BY <3>1, <3>2
  <2>4. UpTo(g, n + 1)
    <3>1. g \in [Low(n + 1) -> V]
      <4> HIDE DEF Value
      <4> QED BY <2>3
    <3> HIDE DEF g
    <3> QED BY <2>3, <3>1
  <2> HIDE DEF UpTo
  <2> QED BY <2>4
<1>4. \A n \in Nat : UpTo(partial(n), n)
  <2>1. \A n \in Nat : n \in Good
    <3> HIDE DEF Good
    <3> QED BY <1>2, <1>3, CountUp
  <2> HIDE DEF UpTo
  <2> QED BY <2>1
<1>5. ASSUME NEW n \in Nat, NEW k \in Nat, NEW x \in S, x \in Low(n), x \in Low(k)
      PROVE  partial(n)[x] = partial(k)[x]
  <2> DEFINE Same == {m \in Nat : \A y \in Low(n) \cap Low(k) :
                         rank[y] < m => partial(n)[y] = partial(k)[y]}
  <2>1. 0 \in Same
    <3> HIDE DEF partial
    <3> QED OBVIOUS
  <2>2. ASSUME NEW m \in Nat, m \in Same
        PROVE  m + 1 \in Same
    <3> SUFFICES ASSUME NEW y \in Low(n) \cap Low(k), rank[y] < m + 1
                 PROVE  partial(n)[y] = partial(k)[y]
      <4> HIDE DEF Low, partial
      <4> QED OBVIOUS
    <3>1. /\ partial(n)[y] = Value(partial(n), y)
          /\ partial(k)[y] = Value(partial(k), y)
      <4> HIDE DEF Value, partial, Low
      <4> QED BY <1>4
    <3>2. CASE y \in D
      BY <3>1, <3>2
    <3>3. CASE y \notin D
      <4>1. down[y] \in Low(n) \cap Low(k) /\ rank[down[y]] < m
        BY <3>3
      <4>2. partial(n)[down[y]] = partial(k)[down[y]]
        <5> HIDE DEF Low, partial
        <5> QED BY <2>2, <4>1
      <4> HIDE DEF partial
      <4> QED BY <3>1, <3>3, <4>2
    <3> QED BY <3>2, <3>3
  <2>3. \A m \in Nat : m \in Same
    <3> HIDE DEF Same
    <3> QED BY <2>1, <2>2, CountUp
  <2>4. rank[x] + 1 \in Nat /\ rank[x] < rank[x] + 1
    OBVIOUS
  <2>5. rank[x] + 1 \in Same
    <3> HIDE DEF Same
    <3> QED BY <2>3, <2>4
  <2> HIDE DEF partial, Low
  <2> QED BY <2>4, <2>5, <1>5
<1> DEFINE whole == [x \in S |-> partial(rank[x] + 1)[x]]
<1>6. ASSUME NEW x \in S
      PROVE  whole[x] \in V /\ whole[x] = Value(whole, x)
  <2>1. rank[x] + 1 \in Nat /\ x \in Low(rank[x] + 1)
    OBVIOUS
  <2>2. /\ partial(rank[x] + 1) \in [Low(rank[x] + 1) -> V]
        /\ partial(rank[x] + 1)[x] = Value(partial(rank[x] + 1), x)
    <3> HIDE DEF partial, Low, Value
    <3> QED BY <1>4, <2>1
  <2>3. whole[x] = partial(rank[x] + 1)[x]
    OBVIOUS
  <2>4. CASE x \in D
    <3> HIDE DEF partial, Low, whole
    <3> QED BY <2>1, <2>2, <2>3, <2>4
  <2>5. CASE x \notin D
    <3> DEFINE y == down[x]
    <3>1. y \in S /\ y \in Low(rank[x]) /\ y \in Low(rank[x] + 1) /\ y \in Low(rank[y] + 1)
          /\ rank[y] + 1 \in Nat
      BY <2>5
    <3>2. whole[y] = partial(rank[y] + 1)[y]
      BY <3>1
    <3>3. partial(rank[y] + 1)[y] = partial(rank[x] + 1)[y]
      <4> HIDE DEF partial, Low, y
      <4> QED BY <1>5, <2>1, <3>1
    <3> HIDE DEF partial, Low, whole
    <3> QED BY <2>1, <2>2, <2>3, <2>5, <3>2, <3>3
  <2> QED BY <2>4, <2>5
<1>7. whole \in [S -> V]
  <2> HIDE DEF Value, partial
  <2> QED BY <1>6
<1> HIDE DEF whole
<1> QED BY <1>6, <1>7 DEF IsDefinedSo

\* A run of n steps: each takes the last value to the next.
AreSteps(n, V, base, next) == n \in Nat /\ base \in V /\ next \in [1 .. n -> [V -> V]]

IsRun(f, n, V, base, next) ==
    /\ f \in [0 .. n -> V]
    /\ \A k \in 0 .. n : f[k] = IF k = 0 THEN base ELSE next[k][f[k - 1]]

\* There is such a run.
LEMMA RunExists ==
    ASSUME NEW n, NEW V, NEW base, NEW next, AreSteps(n, V, base, next)
    PROVE  \E f : IsRun(f, n, V, base, next)
PROOF
<1> USE DEF AreSteps
<1> DEFINE S == 0 .. n
           D == {0}
           rank == [k \in S |-> k]
           down == [k \in S \ D |-> k - 1]
           first == [k \in D |-> base]
           put == [k \in S \ D |-> next[k]]
<1>1. IsRecursion(S, V, D, rank, down, first, put)
  BY DEF IsRecursion
<1>2. PICK f : IsDefinedSo(f, S, V, D, down, first, put)
  <2> HIDE DEF S, D, rank, down, first, put
  <2> QED BY <1>1, DescendingRecursion
<1>3. IsRun(f, n, V, base, next)
  BY <1>2 DEF IsDefinedSo, IsRun
<1> QED BY <1>3

\* Two to any power is a positive natural number: as many as the subsets of
\* that many.
LEMMA PowerOfTwo == \A n \in Nat : 2 ^ n \in Nat /\ 2 ^ n > 0
PROOF
<1> SUFFICES ASSUME NEW n \in Nat PROVE 2 ^ n \in Nat /\ 2 ^ n > 0
  OBVIOUS
<1>1. IsFiniteSet(1 .. n) /\ Cardinality(1 .. n) = n
  BY FS_Interval
<1>2. IsFiniteSet(SUBSET (1 .. n)) /\ Cardinality(SUBSET (1 .. n)) = 2 ^ n
  BY <1>1, FS_SUBSET
<1>3. Cardinality(SUBSET (1 .. n)) \in Nat
  BY <1>2, FS_CardinalityType
<1>4. Cardinality(SUBSET (1 .. n)) # 0
  <2>1. {} \in SUBSET (1 .. n)
    OBVIOUS
  <2> QED BY <1>2, <2>1, FS_EmptySet
<1> QED BY <1>2, <1>3, <1>4
=============================================================================
