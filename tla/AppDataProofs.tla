--------------------------- MODULE AppDataProofs ----------------------------
(***************************************************************************)
(* The app's saved data and its tabs, for any data of the previous version *)
(* and any files, and for any number of commands, launches and kills.      *)
(*                                                                         *)
(* Saved data (DataInv).  What an unowned directory holds depends on how   *)
(* far its last launch came: a torn or whole log before the copy, a whole  *)
(* log from then on, a whole copy of the database before it is renamed     *)
(* (Unowned).  Once owned, the database is there, sound and without a log  *)
(* to recover (Adopting).                                                  *)
(*                                                                         *)
(* Imports (ImportInv).  One runs at a time.  For each name it has still   *)
(* to create, the rows there are of that name and the entries it has left  *)
(* are no more than the file's: when it began no row had that name.        *)
(*                                                                         *)
(* Tabs (WindowInv).  The table has the rows that the bar shows or is      *)
(* about to show, less those being closed (RowsShown).  A tab is created   *)
(* behind all others, so a row has as many positions as rows before it     *)
(* (RowsKept); a new order therefore leaves rows it does not list behind   *)
(* those it lists, when they were created before it was given.  So the     *)
(* positions the table has, or will have once the order on its way is      *)
(* written, sort the rows as the bar does (OrderKept), until a tab is      *)
(* created past such an order.                                             *)
(***************************************************************************)
EXTENDS AppData, SequenceTheorems, FiniteSetTheorems, TLAPS

-----------------------------------------------------------------------------
(* Lists in an order.                                                      *)

\* before is a strict total order of S.
Orders(before, S) ==
    /\ \A x \in S : <<x, x>> \notin before
    /\ \A x, y \in S : x = y \/ <<x, y>> \in before \/ <<y, x>> \in before
    /\ \A x, y, z \in S :
          <<x, y>> \in before /\ <<y, z>> \in before => <<x, z>> \in before

RankIn(S, before, x) == Cardinality({y \in S : <<y, x>> \in before})

\* A member has a smaller rank than one it comes before.
LEMMA RankGrows ==
    ASSUME NEW S, NEW before, IsFiniteSet(S), Orders(before, S)
    PROVE  /\ \A x \in S : RankIn(S, before, x) \in 0 .. Cardinality(S) - 1
           /\ \A x, y \in S : <<x, y>> \in before =>
                 RankIn(S, before, x) < RankIn(S, before, y)
           /\ \A x, y \in S : RankIn(S, before, x) = RankIn(S, before, y) => x = y
PROOF
<1> DEFINE Below(x) == {y \in S : <<y, x>> \in before}
<1>1. ASSUME NEW T \in SUBSET S
      PROVE  /\ IsFiniteSet(T) /\ Cardinality(T) \in Nat
             /\ Cardinality(T) <= Cardinality(S)
  BY FS_Subset, FS_CardinalityType
<1>2. ASSUME NEW x \in S
      PROVE  RankIn(S, before, x) \in 0 .. Cardinality(S) - 1
  <2>1. Below(x) \in SUBSET (S \ {x})
    BY <1>2 DEF Orders
  <2>2. IsFiniteSet(S \ {x}) /\ Cardinality(S \ {x}) = Cardinality(S) - 1
    BY <1>2, FS_RemoveElement
  <2>3. Cardinality(Below(x)) <= Cardinality(S \ {x})
    BY <2>1, <2>2, FS_Subset
  <2>4. Below(x) \in SUBSET S
    OBVIOUS
  <2>5. Cardinality(Below(x)) \in Nat
    BY <1>1, <2>4
  <2>6. Cardinality(S) \in Nat
    BY FS_CardinalityType
  <2>7. RankIn(S, before, x) = Cardinality(Below(x))
    BY DEF RankIn
  <2> HIDE DEF Below
  <2> QED BY <2>2, <2>3, <2>5, <2>6, <2>7
<1>3. ASSUME NEW x \in S, NEW y \in S, <<x, y>> \in before
      PROVE  RankIn(S, before, x) < RankIn(S, before, y)
  <2>1. /\ Below(x) \in SUBSET Below(y) /\ x \in Below(y) /\ x \notin Below(x)
        /\ Below(y) \in SUBSET S
    BY <1>3 DEF Orders
  <2>2. IsFiniteSet(Below(y)) /\ Cardinality(Below(y)) \in Nat
    BY <1>1, <2>1
  <2>3. /\ Cardinality(Below(x)) <= Cardinality(Below(y))
        /\ Cardinality(Below(y)) = Cardinality(Below(x)) => Below(y) = Below(x)
    BY <2>1, <2>2, FS_Subset
  <2>4. Cardinality(Below(x)) \in Nat
    <3>1. Below(x) \in SUBSET S
      OBVIOUS
    <3> QED BY <1>1, <3>1
  <2>5. /\ RankIn(S, before, x) = Cardinality(Below(x))
        /\ RankIn(S, before, y) = Cardinality(Below(y))
    BY DEF RankIn
  <2> HIDE DEF Below
  <2> QED BY <2>1, <2>2, <2>3, <2>4, <2>5
<1>4. ASSUME NEW x \in S, NEW y \in S,
             RankIn(S, before, x) = RankIn(S, before, y)
      PROVE  x = y
  <2>1. RankIn(S, before, x) \in Int
    BY <1>2
  <2>2. ~ (<<x, y>> \in before) /\ ~ (<<y, x>> \in before)
    BY <1>3, <1>4, <2>1
  <2> QED BY <2>2 DEF Orders
<1> QED BY <1>2, <1>3, <1>4

\* OrderBy lists every member once, at its rank.
LEMMA OrderByFacts ==
    ASSUME NEW S, NEW before, IsFiniteSet(S), Orders(before, S)
    PROVE  /\ OrderBy(S, before) \in [1 .. Cardinality(S) -> S]
           /\ Cardinality(S) \in Nat
           /\ \A k \in 1 .. Cardinality(S) :
                 RankIn(S, before, OrderBy(S, before)[k]) = k - 1
           /\ \A x \in S :
                 /\ RankIn(S, before, x) + 1 \in 1 .. Cardinality(S)
                 /\ OrderBy(S, before)[RankIn(S, before, x) + 1] = x
           /\ \A j, k \in 1 .. Cardinality(S) :
                 /\ j < k => <<OrderBy(S, before)[j], OrderBy(S, before)[k]>> \in before
                 /\ OrderBy(S, before)[j] = OrderBy(S, before)[k] => j = k
PROOF
<1> DEFINE n == Cardinality(S)
           o == OrderBy(S, before)
           rank == [x \in S |-> RankIn(S, before, x)]
<1>1. n \in Nat
  BY FS_CardinalityType
<1>2. /\ \A x \in S : rank[x] = RankIn(S, before, x) /\ rank[x] \in 0 .. n - 1
      /\ \A x, y \in S : rank[x] = rank[y] => x = y
      /\ \A x, y \in S : <<x, y>> \in before => rank[x] < rank[y]
  BY RankGrows
<1>3. \A k \in 0 .. n - 1 : \E x \in S : rank[x] = k
  <2>1. rank \in [S -> 0 .. n - 1]
    BY <1>2
  <2>2. rank \in Injection(S, 0 .. n - 1)
    BY <1>2, <2>1 DEF Injection, IsInjective
  <2>3. IsFiniteSet(0 .. n - 1) /\ Cardinality(0 .. n - 1) = n
    <3>1. 0 \in Int /\ n - 1 \in Int
      BY <1>1
    <3>2. /\ IsFiniteSet(0 .. n - 1)
          /\ Cardinality(0 .. n - 1) = IF 0 > n - 1 THEN 0 ELSE n - 1 - 0 + 1
      BY <3>1, FS_Interval
    <3> HIDE DEF n
    <3> QED BY <1>1, <3>2
  <2>4. rank \in Surjection(S, 0 .. n - 1)
    <3> HIDE DEF rank
    <3> QED BY <2>2, <2>3, FS_Injection
  <2> HIDE DEF rank, n
  <2> QED BY <2>4 DEF Surjection
<1>4. ASSUME NEW k \in 1 .. n
      PROVE  o[k] \in S /\ rank[o[k]] = k - 1
  <2>1. k - 1 \in 0 .. n - 1
    BY <1>1
  <2>2. PICK x \in S : rank[x] = k - 1
    BY <1>3, <2>1
  <2>3. \E z \in S : Cardinality({y \in S : <<y, z>> \in before}) = k - 1
    BY <1>2, <2>2 DEF RankIn
  <2>4. o[k] = CHOOSE z \in S : Cardinality({y \in S : <<y, z>> \in before}) = k - 1
    BY DEF OrderBy
  <2>5. /\ o[k] \in S
        /\ Cardinality({y \in S : <<y, o[k]>> \in before}) = k - 1
    <3> HIDE DEF o, n, rank
    <3> QED BY <2>3, <2>4, Zenon
  <2> HIDE DEF o
  <2> QED BY <2>5 DEF RankIn
<1>5. o \in [1 .. n -> S]
  BY <1>4 DEF OrderBy
<1> HIDE DEF o, n, rank
<1>6. ASSUME NEW x \in S
      PROVE  rank[x] + 1 \in 1 .. n /\ o[rank[x] + 1] = x
  <2>1. rank[x] \in 0 .. n - 1
    BY <1>2
  <2>2. rank[x] + 1 \in 1 .. n /\ rank[x] + 1 - 1 = rank[x]
    BY <1>1, <2>1
  <2>3. o[rank[x] + 1] \in S /\ rank[o[rank[x] + 1]] = rank[x]
    <3>1. PICK k \in 1 .. n : k = rank[x] + 1
      BY <2>2
    <3>2. o[k] \in S /\ rank[o[k]] = k - 1
      BY <1>4
    <3> QED BY <2>1, <3>1, <3>2
  <2> QED BY <1>2, <2>2, <2>3
<1>7. ASSUME NEW j \in 1 .. n, NEW k \in 1 .. n
      PROVE  /\ j < k => <<o[j], o[k]>> \in before
             /\ o[j] = o[k] => j = k
  <2>1. /\ o[j] \in S /\ rank[o[j]] = j - 1
        /\ o[k] \in S /\ rank[o[k]] = k - 1
    BY <1>4
  <2>2. o[j] = o[k] => j = k
    BY <2>1
  <2>3. ASSUME j < k PROVE <<o[j], o[k]>> \in before
    <3>1. ~ (<<o[k], o[j]>> \in before)
      BY <1>2, <2>1, <2>3
    <3> QED BY <2>1, <2>2, <2>3, <3>1 DEF Orders
  <2> QED BY <2>2, <2>3
<1>8. \A k \in 1 .. n : RankIn(S, before, o[k]) = k - 1
  BY <1>2, <1>4
<1>9. \A x \in S : RankIn(S, before, x) + 1 \in 1 .. n
                   /\ o[RankIn(S, before, x) + 1] = x
  BY <1>2, <1>6
<1> QED BY <1>1, <1>5, <1>7, <1>8, <1>9 DEF o, n

\* A list of every member, each after those before it, is the list.
LEMMA OrderIsUnique ==
    ASSUME NEW S, NEW before, IsFiniteSet(S), Orders(before, S),
           NEW s \in Seq(S), \A x \in S : \E k \in 1 .. Len(s) : s[k] = x,
           \A j, k \in 1 .. Len(s) : j < k => <<s[j], s[k]>> \in before
    PROVE  s = OrderBy(S, before)
PROOF
<1> DEFINE n == Cardinality(S)
           o == OrderBy(S, before)
           below(k) == {y \in S : <<y, s[k]>> \in before}
<1>1. /\ s \in [1 .. Len(s) -> S] /\ Len(s) \in Nat
      /\ \A k \in 1 .. Len(s) : s[k] \in S
  OBVIOUS
<1>2. \A j, k \in 1 .. Len(s) : s[j] = s[k] => j = k
  <2>1. \A j, k \in 1 .. Len(s) : j = k \/ j < k \/ k < j
    BY <1>1
  <2> QED BY <1>1, <2>1 DEF Orders
<1>3. ASSUME NEW k \in 0 .. Len(s)
      PROVE  Cardinality({s[j] : j \in 1 .. k}) = k
  <2> DEFINE f == [j \in 1 .. k |-> s[j]]
             T == {s[j] : j \in 1 .. k}
  <2>1. f \in Bijection(1 .. k, T)
    <3>1. \A j \in 1 .. k : j \in 1 .. Len(s)
      BY <1>1
    <3>2. f \in [1 .. k -> T]
      BY <1>3
    <3>3. \A i, j \in 1 .. k : f[i] = f[j] => i = j
      BY <1>2, <3>1
    <3>4. \A t \in T : \E j \in 1 .. k : f[j] = t
      BY <1>3
    <3> QED BY <3>2, <3>3, <3>4 DEF Bijection, Injection, IsInjective, Surjection
  <2>2. ExistsBijection(1 .. k, T)
    BY <2>1 DEF ExistsBijection
  <2>3. IsFiniteSet(1 .. k) /\ Cardinality(1 .. k) = k
    <3>1. /\ IsFiniteSet(1 .. k)
          /\ Cardinality(1 .. k) = IF 1 > k THEN 0 ELSE k - 1 + 1
      BY FS_Interval
    <3> QED BY <3>1
  <2> HIDE DEF T
  <2>4. Cardinality(T) = k
    BY <2>2, <2>3, FS_Bijection
  <2> QED BY <2>4 DEF T
<1>4. Len(s) = n
  <2>1. {s[j] : j \in 1 .. Len(s)} = S
    BY <1>1
  <2>2. Cardinality({s[j] : j \in 1 .. Len(s)}) = Len(s)
    BY <1>1, <1>3
  <2> QED BY <2>1, <2>2
<1>5. ASSUME NEW k \in 1 .. Len(s)
      PROVE  RankIn(S, before, s[k]) = k - 1
  <2>1. below(k) = {s[j] : j \in 1 .. k - 1}
    <3>1. ASSUME NEW y \in below(k) PROVE y \in {s[j] : j \in 1 .. k - 1}
      <4>1. PICK j \in 1 .. Len(s) : s[j] = y
        OBVIOUS
      <4>2. ~ (k < j)
        BY <1>1, <3>1, <4>1 DEF Orders
      <4>3. j # k
        BY <1>1, <3>1, <4>1 DEF Orders
      <4> QED BY <4>1, <4>2, <4>3
    <3>2. ASSUME NEW j \in 1 .. k - 1 PROVE s[j] \in below(k)
      <4>1. j \in 1 .. Len(s) /\ j < k
        OBVIOUS
      <4> QED BY <1>1, <4>1
    <3> QED BY <3>1, <3>2
  <2>2. k - 1 \in 0 .. Len(s)
    BY <1>1
  <2>3. Cardinality(below(k)) = k - 1
    <3> HIDE DEF below
    <3> QED BY <1>3, <2>1, <2>2
  <2> QED BY <2>3 DEF RankIn
<1>6. /\ o \in [1 .. n -> S] /\ \A k \in 1 .. n : RankIn(S, before, o[k]) = k - 1
  BY OrderByFacts
<1>7. \A k \in 1 .. n : s[k] = o[k]
  <2>1. \A x, y \in S : RankIn(S, before, x) = RankIn(S, before, y) => x = y
    BY RankGrows
  <2> HIDE DEF o, n
  <2>2. ASSUME NEW k \in 1 .. n PROVE s[k] = o[k]
    <3>1. k \in 1 .. Len(s) /\ s[k] \in S /\ o[k] \in S
      BY <1>1, <1>4, <1>6
    <3>2. RankIn(S, before, s[k]) = k - 1 /\ RankIn(S, before, o[k]) = k - 1
      BY <1>5, <1>6, <3>1
    <3> QED BY <2>1, <3>1, <3>2
  <2> QED BY <2>2
<1> HIDE DEF o, n
<1> QED BY <1>1, <1>4, <1>6, <1>7 DEF o

\* The members of a set of numbers, the smallest first.
LEMMA AscendingFacts ==
    ASSUME NEW K \in SUBSET Int, IsFiniteSet(K)
    PROVE  /\ Cardinality(K) \in Nat
           /\ Ascending(K) \in [1 .. Cardinality(K) -> K]
           /\ \A x \in K : \E k \in 1 .. Cardinality(K) : Ascending(K)[k] = x
           /\ \A j, k \in 1 .. Cardinality(K) :
                 /\ j < k => Ascending(K)[j] < Ascending(K)[k]
                 /\ Ascending(K)[j] = Ascending(K)[k] => j = k
PROOF
<1> DEFINE before == {p \in K \X K : p[1] < p[2]}
<1>1. \A x, y \in K : <<x, y>> \in before <=> x < y
  OBVIOUS
<1>2. Orders(before, K)
  <2> HIDE DEF before
  <2> QED BY <1>1 DEF Orders
<1>3. Ascending(K) = OrderBy(K, before)
  BY DEF Ascending
<1> HIDE DEF before
<1>4. /\ OrderBy(K, before) \in [1 .. Cardinality(K) -> K]
      /\ Cardinality(K) \in Nat
      /\ \A x \in K :
           /\ RankIn(K, before, x) + 1 \in 1 .. Cardinality(K)
           /\ OrderBy(K, before)[RankIn(K, before, x) + 1] = x
      /\ \A j, k \in 1 .. Cardinality(K) :
           /\ j < k => <<OrderBy(K, before)[j], OrderBy(K, before)[k]>> \in before
           /\ OrderBy(K, before)[j] = OrderBy(K, before)[k] => j = k
  BY <1>2, OrderByFacts
<1> QED BY <1>1, <1>3, <1>4

\* What is picked out of a list stays in its order.
LEMMA PickedFacts ==
    ASSUME NEW T, NEW s \in Seq(T), NEW K \in SUBSET (DOMAIN s)
    PROVE  /\ Picked(s, K) \in Seq(T) /\ Len(Picked(s, K)) = Cardinality(K)
           /\ IsFiniteSet(K) /\ Cardinality(K) \in Nat
           /\ Ascending(K) \in [1 .. Cardinality(K) -> K]
           /\ \A k \in 1 .. Cardinality(K) :
                 Ascending(K)[k] \in DOMAIN s /\ Picked(s, K)[k] = s[Ascending(K)[k]]
           /\ \A x \in K : \E k \in 1 .. Cardinality(K) : Ascending(K)[k] = x
           /\ \A j, k \in 1 .. Cardinality(K) :
                 /\ j < k => Ascending(K)[j] < Ascending(K)[k]
                 /\ Ascending(K)[j] = Ascending(K)[k] => j = k
PROOF
<1>1. DOMAIN s = 1 .. Len(s) /\ Len(s) \in Nat
  OBVIOUS
<1>2. IsFiniteSet(1 .. Len(s))
  BY <1>1, FS_Interval
<1>3. IsFiniteSet(K) /\ K \in SUBSET Int
  BY <1>1, <1>2, FS_Subset
<1>4. /\ Cardinality(K) \in Nat
      /\ Ascending(K) \in [1 .. Cardinality(K) -> K]
      /\ \A x \in K : \E k \in 1 .. Cardinality(K) : Ascending(K)[k] = x
      /\ \A j, k \in 1 .. Cardinality(K) :
            /\ j < k => Ascending(K)[j] < Ascending(K)[k]
            /\ Ascending(K)[j] = Ascending(K)[k] => j = k
  BY <1>3, AscendingFacts
<1>5. \A k \in 1 .. Cardinality(K) :
         /\ Ascending(K)[k] \in DOMAIN s
         /\ Picked(s, K)[k] = s[Ascending(K)[k]] /\ Picked(s, K)[k] \in T
  <2>1. \A k \in 1 .. Cardinality(K) : Ascending(K)[k] \in K
    BY <1>4
  <2>2. \A k \in DOMAIN s : s[k] \in T
    OBVIOUS
  <2> QED BY <2>1, <2>2 DEF Picked
<1>6. Picked(s, K) \in [1 .. Cardinality(K) -> T]
  BY <1>5 DEF Picked
<1>7. Picked(s, K) \in Seq(T) /\ Len(Picked(s, K)) = Cardinality(K)
  <2> HIDE DEF Picked
  <2> QED BY <1>4, <1>6
<1> QED BY <1>3, <1>4, <1>5, <1>7

\* Max of the positions and -1 is below the next position.
LEMMA NextPositionFacts ==
    ASSUME NEW D, tabs \in [D -> Nat], IsFiniteSet(D)
    PROVE  NextPosition \in Nat /\ \A t \in D : tabs[t] < NextPosition
PROOF
<1> DEFINE used == {tabs[t] : t \in D}
           all == {tabs[t] : t \in DOMAIN tabs} \union {-1}
<1>1. IsFiniteSet(used)
  <2>1. tabs \in Surjection(D, used)
    BY DEF Surjection
  <2> HIDE DEF used
  <2> QED BY <2>1, FS_Surjection
<1>2. all = used \union {-1} /\ used \in SUBSET Nat
  OBVIOUS
<1>3. IsFiniteSet(all) /\ all \in SUBSET Int /\ -1 \in all
  <2> HIDE DEF all, used
  <2> QED BY <1>1, <1>2, FS_AddElement
<1>4. \E x \in all : \A y \in all : x >= y
  <2> HIDE DEF all, used
  <2> DEFINE n == Cardinality(all)
  <2>1. /\ n \in Nat /\ Ascending(all) \in [1 .. n -> all]
        /\ \A x \in all : \E k \in 1 .. n : Ascending(all)[k] = x
        /\ \A j, k \in 1 .. n : j < k => Ascending(all)[j] < Ascending(all)[k]
    BY <1>3, AscendingFacts
  <2> HIDE DEF n
  <2>2. n \in 1 .. n
    BY <1>3, <2>1
  <2>3. \A k \in 1 .. n : Ascending(all)[n] >= Ascending(all)[k]
    <3>1. \A k \in 1 .. n : Ascending(all)[k] \in Int
      BY <1>3, <2>1
    <3> QED BY <2>1, <2>2, <3>1
  <2> QED BY <2>1, <2>2, <2>3
<1>5. Max(all) \in all /\ \A y \in all : Max(all) >= y
  <2> HIDE DEF all, used
  <2> QED BY <1>4 DEF Max
<1>6. NextPosition = Max(all) + 1
  BY DEF NextPosition
<1>7. \A t \in D : tabs[t] \in all
  OBVIOUS
<1> HIDE DEF all, used
<1>8. Max(all) \in Int /\ Max(all) >= -1
  BY <1>3, <1>5
<1>9. \A t \in D : tabs[t] \in Int /\ Max(all) >= tabs[t]
  BY <1>3, <1>5, <1>7
<1> HIDE DEF NextPosition
<1> QED BY <1>6, <1>8, <1>9
-----------------------------------------------------------------------------
(* The launch, and what the tables hold.                                   *)

\* What a database of the app's own holds.
Stored(t) ==
    /\ TablesOK(t, MaxIds)
    /\ \A i \in DOMAIN t.conns : t.conns[i].by = "import" => t.conns[i].grants = {}

LegacyShape ==
    /\ legacy = [main |-> legacy.main, wal |-> legacy.wal]
    /\ legacy.main \in LegacyTables \union {None}
    /\ \/ legacy.wal = None
       \/ \E t, u \in LegacyTables : legacy.main = t /\ legacy.wal = Wal(t, u)

\* Until the app has a database of its own, what lies in its directory is what
\* is left of one or more copies of the previous version's.
Unowned ==
    /\ launch # "running"
    /\ data.wal # None => legacy.wal # None /\ data.wal \in {Torn, legacy.wal}
    /\ launch \in {"sidecars", "database", "rename"} =>
          data.main = None /\ legacy.main # None
    /\ launch \in {"database", "rename"} => data.wal = legacy.wal
    /\ launch = "rename" => data.partial = legacy.main /\ source = LegacyContent
    /\ data.main # None =>
          /\ data.main \in LegacyTables /\ source \in LegacyTables
          /\ OwnContent = source

Adopting ==
    /\ data = [main |-> data.main, wal |-> data.wal, partial |-> data.partial]
    /\ launch \in {"closed", "sidecars", "database", "rename", "opening", "running"}
    /\ owned \in BOOLEAN
    /\ owned => /\ launch \in {"closed", "opening", "running"}
                /\ data.main # None /\ data.wal = None /\ Stored(data.main)
    /\ ~ owned => Unowned

\* What an import has still to create are connections.
JobsTyped ==
    /\ jobs # {} => Running
    /\ \A j \in jobs : j.op = "import" =>
          /\ j \in [op : {"import"}, file : Seq(PortableConnection),
                    rest : Seq(PortableConnection)]
          /\ j.rest # <<>>
    /\ file # None /\ Parses(file) => file.connections \in Seq(PortableConnection)

DataInv == LegacyShape /\ Adopting /\ JobsTyped

\* What the previous version saved can be stored.
LEMMA LegacyIsStored ==
    /\ \A t \in LegacyTables : Stored(t) /\ t # None
    /\ Stored(EmptyTables) /\ EmptyTables # None
    /\ \A t : Stored(t) => t # None
PROOF
<1>1. ASSUME NEW t, Stored(t) PROVE t # None
  <2>1. /\ t \in [conns : [DOMAIN t.conns -> Row], schemas : SUBSET Ids,
                  tabs : [DOMAIN t.tabs -> Nat]]
        /\ DOMAIN t.conns \in SUBSET Ids /\ DOMAIN t.tabs \in SUBSET Ids
    BY <1>1 DEF Stored, TablesOK, Ids
  <2> QED BY <2>1, AppDataAssumption
<1>2. ASSUME NEW t \in LegacyTables PROVE Stored(t)
  <2>1. /\ t \in [conns : [DOMAIN t.conns -> Row], schemas : SUBSET (1 .. FirstFreshId - 1),
                  tabs : [DOMAIN t.tabs -> Nat]]
        /\ DOMAIN t.conns \union DOMAIN t.tabs \subseteq 1 .. FirstFreshId - 1
        /\ \A i \in DOMAIN t.conns : t.conns[i].by = "legacy"
    BY AppDataAssumption DEF TablesOK
  <2>2. 1 .. FirstFreshId - 1 \subseteq 1 .. MaxIds
    BY AppDataAssumption
  <2>3. TablesOK(t, MaxIds)
    BY <2>1, <2>2 DEF TablesOK
  <2> QED BY <2>1, <2>3 DEF Stored
<1>3. Stored(EmptyTables)
  <2>1. EmptyTables = [conns |-> <<>>, schemas |-> {}, tabs |-> <<>>]
    BY AppDataAssumption DEF NoTables, NoRows
  <2>2. <<>> \in [{} -> Row] /\ <<>> \in [{} -> Nat] /\ DOMAIN <<>> = {}
    OBVIOUS
  <2> QED BY <2>1, <2>2 DEF Stored, TablesOK
<1> QED BY <1>1, <1>2, <1>3

\* The previous version's data, with its log, is data it has saved.
LEMMA LegacyReads ==
    ASSUME LegacyShape, legacy.main # None
    PROVE  LegacyContent \in LegacyTables
PROOF
<1>1. CASE legacy.wal = None
  BY <1>1 DEF LegacyShape, LegacyContent, Content
<1>2. ASSUME NEW t \in LegacyTables, NEW u \in LegacyTables,
             legacy.main = t, legacy.wal = Wal(t, u)
      PROVE  LegacyContent = u
  <2>1. Wal(t, u).base = t /\ Wal(t, u).tip = u
    BY DEF Wal
  <2>2. Wal(t, u) \notin {None, Torn}
    BY AppDataAssumption
  <2> QED BY <1>2, <2>1, <2>2 DEF LegacyContent, Content
<1> QED BY <1>1, <1>2 DEF LegacyShape

\* A command that writes what can be stored leaves all else as it is.
LEMMA WritingKeepsData ==
    ASSUME DataInv, Running, UNCHANGED <<legacy, launch, source, owned>>,
           \/ UNCHANGED data
           \/ \E t : Stored(t) /\ Write(t)
    PROVE  LegacyShape' /\ Adopting' /\ Running'
PROOF
<1>1. owned /\ data.wal = None /\ Stored(data.main)
  BY DEF DataInv, Adopting, Unowned, Running
<1>2. CASE UNCHANGED data
  <2>1. LegacyShape' /\ Running'
    BY DEF DataInv, LegacyShape, Running
  <2>2. Adopting'
    BY <1>1, <1>2 DEF DataInv, Adopting, Stored, TablesOK
  <2> QED BY <2>1, <2>2
<1>3. ASSUME NEW t, Stored(t), Write(t)
      PROVE  LegacyShape' /\ Adopting' /\ Running'
  <2>1. /\ data' = [main |-> t, wal |-> None, partial |-> data.partial]
    BY <1>1, <1>3 DEF DataInv, Adopting, Write
  <2>2. t # None
    BY <1>3, LegacyIsStored
  <2>3. LegacyShape' /\ Running'
    BY DEF DataInv, LegacyShape, Running
  <2>4. Stored(data'.main)
    BY <1>3, <2>1
  <2>5. Stored(data.main)'
    BY <2>4 DEF Stored, TablesOK
  <2>6. Adopting'
    BY <1>1, <2>1, <2>2, <2>5 DEF DataInv, Adopting
  <2> QED BY <2>3, <2>6
<1> QED BY <1>2, <1>3

USE DEF tables, conns, tabs

\* What the statements make of a table can be stored.
LEMMA EditsAreStored ==
    ASSUME NEW t, Stored(t)
    PROVE  /\ \A i \in Ids, row \in Row : (row.by = "import" => row.grants = {}) =>
                 Stored([t EXCEPT !.conns = With(@, i, row)])
           /\ \A i \in DOMAIN t.conns, row \in Row :
                 (row.by = "import" => row.grants = {}) =>
                 Stored([t EXCEPT !.conns[i] = row])
           /\ \A i : Stored([t EXCEPT !.conns = Without(@, i)])
           /\ \A S \in SUBSET Ids : Stored([t EXCEPT !.schemas = S])
           /\ \A f : DOMAIN f \subseteq Ids /\ f \in [DOMAIN f -> Nat] =>
                 Stored([t EXCEPT !.tabs = f])
PROOF
<1>1. /\ t \in [conns : [DOMAIN t.conns -> Row], schemas : SUBSET Ids,
                tabs : [DOMAIN t.tabs -> Nat]]
      /\ DOMAIN t.conns \subseteq Ids /\ DOMAIN t.tabs \subseteq Ids
      /\ \A i \in DOMAIN t.conns : t.conns[i].by = "import" => t.conns[i].grants = {}
  BY DEF Stored, TablesOK, Ids
<1>2. t = [conns |-> t.conns, schemas |-> t.schemas, tabs |-> t.tabs]
  BY <1>1
<1>3. ASSUME NEW c, NEW S \in SUBSET Ids, NEW f, DOMAIN c \subseteq Ids,
             c \in [DOMAIN c -> Row], DOMAIN f \subseteq Ids, f \in [DOMAIN f -> Nat],
             \A i \in DOMAIN c : c[i].by = "import" => c[i].grants = {}
      PROVE  Stored([conns |-> c, schemas |-> S, tabs |-> f])
  BY <1>3 DEF Stored, TablesOK, Ids
<1>4. t.schemas \in SUBSET Ids /\ t.conns \in [DOMAIN t.conns -> Row]
      /\ t.tabs \in [DOMAIN t.tabs -> Nat]
  BY <1>1
<1>5. ASSUME NEW i \in Ids, NEW row \in Row, row.by = "import" => row.grants = {}
      PROVE  Stored([t EXCEPT !.conns = With(@, i, row)])
  <2> DEFINE c == With(t.conns, i, row)
  <2>1. /\ DOMAIN c \subseteq Ids /\ c \in [DOMAIN c -> Row]
        /\ \A j \in DOMAIN c : c[j].by = "import" => c[j].grants = {}
    BY <1>1, <1>4, <1>5 DEF With
  <2>2. [t EXCEPT !.conns = With(@, i, row)]
          = [conns |-> c, schemas |-> t.schemas, tabs |-> t.tabs]
    BY <1>2
  <2> HIDE DEF c
  <2> QED BY <1>1, <1>3, <1>4, <2>1, <2>2
<1>6. ASSUME NEW i \in DOMAIN t.conns, NEW row \in Row,
             row.by = "import" => row.grants = {}
      PROVE  Stored([t EXCEPT !.conns[i] = row])
  <2> DEFINE c == [t.conns EXCEPT ![i] = row]
  <2>1. /\ DOMAIN c \subseteq Ids /\ c \in [DOMAIN c -> Row]
        /\ \A j \in DOMAIN c : c[j].by = "import" => c[j].grants = {}
    BY <1>1, <1>4, <1>6
  <2>2. [t EXCEPT !.conns[i] = row]
          = [conns |-> c, schemas |-> t.schemas, tabs |-> t.tabs]
    BY <1>2
  <2> HIDE DEF c
  <2> QED BY <1>1, <1>3, <1>4, <2>1, <2>2
<1>7. ASSUME NEW i PROVE Stored([t EXCEPT !.conns = Without(@, i)])
  <2> DEFINE c == Without(t.conns, i)
  <2>1. /\ DOMAIN c \subseteq Ids /\ c \in [DOMAIN c -> Row]
        /\ \A j \in DOMAIN c : c[j].by = "import" => c[j].grants = {}
    BY <1>1, <1>4 DEF Without
  <2>2. [t EXCEPT !.conns = Without(@, i)]
          = [conns |-> c, schemas |-> t.schemas, tabs |-> t.tabs]
    BY <1>2
  <2>3. Stored([conns |-> c, schemas |-> t.schemas, tabs |-> t.tabs])
    <3> HIDE DEF c
    <3> QED BY <1>1, <1>3, <1>4, <2>1
  <2> QED BY <2>2, <2>3
<1>8. ASSUME NEW S \in SUBSET Ids PROVE Stored([t EXCEPT !.schemas = S])
  <2>1. [t EXCEPT !.schemas = S] = [conns |-> t.conns, schemas |-> S, tabs |-> t.tabs]
    BY <1>2
  <2> QED BY <1>1, <1>3, <1>4, <2>1
<1>9. ASSUME NEW f, DOMAIN f \subseteq Ids, f \in [DOMAIN f -> Nat]
      PROVE  Stored([t EXCEPT !.tabs = f])
  <2>1. [t EXCEPT !.tabs = f]
          = [conns |-> t.conns, schemas |-> t.schemas, tabs |-> f]
    BY <1>2
  <2> QED BY <1>1, <1>3, <1>4, <1>9, <2>1
<1> QED BY <1>5, <1>6, <1>7, <1>8, <1>9

\* While the app runs, its tables are what it has stored.
LEMMA StoredWhileRunning ==
    ASSUME DataInv, Running
    PROVE  /\ owned /\ Stored(tables) /\ DOMAIN tabs \subseteq Ids
           /\ tabs \in [DOMAIN tabs -> Nat] /\ IsFiniteSet(DOMAIN tabs)
           /\ DOMAIN conns \subseteq Ids /\ conns \in [DOMAIN conns -> Row]
           /\ IsFiniteSet(DOMAIN conns) /\ tables.schemas \in SUBSET Ids
PROOF
<1>1. owned /\ Stored(data.main)
  BY DEF DataInv, Adopting, Unowned, Running
<1>2. /\ DOMAIN tabs \subseteq Ids /\ tabs \in [DOMAIN tabs -> Nat]
      /\ DOMAIN conns \subseteq Ids /\ conns \in [DOMAIN conns -> Row]
      /\ tables.schemas \in SUBSET Ids
  BY <1>1 DEF Stored, TablesOK, Ids
<1>3. IsFiniteSet(Ids)
  BY AppDataAssumption, FS_Interval DEF Ids
<1>4. IsFiniteSet(DOMAIN tabs) /\ IsFiniteSet(DOMAIN conns)
  BY <1>2, <1>3, FS_Subset
<1> QED BY <1>1, <1>2, <1>4

\* The tables after a step that goes on running.
Edits == \/ UNCHANGED data
         \/ \E t : Stored(t) /\ Write(t)

\* A row of the user's, and one of a file.
LEMMA RowsAreRows ==
    /\ \A n \in Names, g \in {{}, Grants} :
          LET row == [name |-> n, grants |-> g, by |-> "user"]
          IN  row \in Row /\ row.by # "import"
    /\ \A e \in PortableConnection :
          /\ FromPortable(e) \in Row /\ FromPortable(e).grants = {}
          /\ FromPortable(e).by = "import" /\ FromPortable(e).name = e.name
BY DEF Row, Authors, Grants, FromPortable, PortableConnection

\* The commands over the tables of connections and schemas.
LEMMA StoreEdits ==
    ASSUME DataInv,
           \/ ConnectionCreate \/ ConnectionUpdate \/ ConnectionDelete
           \/ DeleteAllForConnection \/ TopicSchemaSet \/ TopicSchemaDelete
           \/ ConnectionsExport \/ ReceiveFile \/ ConnectionsImport \/ ImportNext,
           nextConn \in Nat, nextConn <= MaxIds + 1
    PROVE  Running /\ UNCHANGED <<legacy, launch, source, owned>> /\ Edits
PROOF
<1>1. Running /\ UNCHANGED <<legacy, launch, source, owned>>
  BY DEF ConnectionCreate, ConnectionUpdate, ConnectionDelete,
     DeleteAllForConnection, TopicSchemaSet, TopicSchemaDelete,
     ConnectionsExport, ReceiveFile, ConnectionsImport, ImportNext, Given,
     storeFrame
<1> SUFFICES Edits
  BY <1>1
<1>2. Stored(tables) /\ tables.schemas \in SUBSET Ids
  BY <1>1, StoredWhileRunning
<1> DEFINE granted(row) == row.by = "import" => row.grants = {}
<1>3. /\ \A i \in Ids, row \in Row : granted(row) =>
            Stored([tables EXCEPT !.conns = With(@, i, row)])
      /\ \A i \in DOMAIN conns, row \in Row : granted(row) =>
            Stored([tables EXCEPT !.conns[i] = row])
      /\ \A i : Stored([tables EXCEPT !.conns = Without(@, i)])
      /\ \A S \in SUBSET Ids : Stored([tables EXCEPT !.schemas = S])
  BY <1>2, EditsAreStored
<1>4. ASSUME NEW row \in Row, granted(row), Insert(row) PROVE Edits
  BY <1>3, <1>4 DEF Insert, FreshId, Edits
<1>5. CASE ConnectionCreate
  <2>1. PICK n \in Names, g \in {{}, Grants} :
           Insert([name |-> n, grants |-> g, by |-> "user"])
    BY <1>5 DEF ConnectionCreate
  <2> QED BY <1>4, <2>1, RowsAreRows
<1>6. CASE ConnectionUpdate
  <2>1. PICK i \in DOMAIN conns, n \in Names, g \in {{}, Grants} :
           Write([tables EXCEPT !.conns[i] = [name |-> n, grants |-> g, by |-> "user"]])
    BY <1>6 DEF ConnectionUpdate
  <2>2. Stored([tables EXCEPT !.conns[i] = [name |-> n, grants |-> g, by |-> "user"]])
    BY <1>3, RowsAreRows
  <2> QED BY <2>1, <2>2 DEF Edits
<1>7. CASE ConnectionDelete
  BY <1>3, <1>7 DEF ConnectionDelete, Edits
<1>8. CASE DeleteAllForConnection
  <2>1. PICK j \in jobs : Write([tables EXCEPT !.schemas = @ \ {j.id}])
    BY <1>8 DEF DeleteAllForConnection
  <2>2. tables.schemas \ {j.id} \in SUBSET Ids
    BY <1>2
  <2>3. Stored([tables EXCEPT !.schemas = @ \ {j.id}])
    BY <1>3, <2>2
  <2> QED BY <2>1, <2>3 DEF Edits
<1>9. CASE TopicSchemaSet
  <2>1. PICK i \in 1 .. nextConn - 1 :
           Write([tables EXCEPT !.schemas = @ \union {i}])
    BY <1>9 DEF TopicSchemaSet
  <2>2. tables.schemas \union {i} \in SUBSET Ids
    BY <1>2, AppDataAssumption DEF Ids
  <2>3. Stored([tables EXCEPT !.schemas = @ \union {i}])
    BY <1>3, <2>2
  <2> QED BY <2>1, <2>3 DEF Edits
<1>10. CASE TopicSchemaDelete
  <2>1. PICK i \in tables.schemas : Write([tables EXCEPT !.schemas = @ \ {i}])
    BY <1>10 DEF TopicSchemaDelete
  <2>2. tables.schemas \ {i} \in SUBSET Ids
    BY <1>2
  <2>3. Stored([tables EXCEPT !.schemas = @ \ {i}])
    BY <1>3, <2>2
  <2> QED BY <2>1, <2>3 DEF Edits
<1>11. CASE ConnectionsExport \/ ReceiveFile \/ ConnectionsImport
  BY <1>11 DEF ConnectionsExport, ReceiveFile, ConnectionsImport, Edits
<1>12. CASE ImportNext
  <2>1. PICK j \in jobs : j.op = "import" /\ Insert(FromPortable(Head(j.rest)))
    BY <1>12 DEF ImportNext
  <2>2. j.rest \in Seq(PortableConnection) /\ j.rest # <<>>
    BY <2>1 DEF DataInv, JobsTyped
  <2>3. Head(j.rest) \in PortableConnection
    BY <2>2
  <2> QED BY <1>4, <2>1, <2>3, RowsAreRows
<1> QED BY <1>1, <1>5, <1>6, <1>7, <1>8, <1>9, <1>10, <1>11, <1>12

\* The commands over the table of tabs.
LEMMA TabEdits ==
    ASSUME DataInv,
           \/ LoadTabs \/ AddTab \/ CloseTab \/ MoveTab \/ CommitTabOrder
           \/ CreateCommits \/ DeleteCommits \/ ReorderCommits \/ CallAnswered
    PROVE  Running /\ UNCHANGED <<legacy, launch, source, owned>> /\ Edits
PROOF
<1>1. Running /\ UNCHANGED <<legacy, launch, source, owned>>
  BY DEF LoadTabs, AddTab, CloseTab, MoveTab, CommitTabOrder, CreateCommits,
     DeleteCommits, ReorderCommits, CallAnswered, Given, Send, tabFrame
<1> SUFFICES Edits
  BY <1>1
<1>2. /\ Stored(tables) /\ DOMAIN tabs \subseteq Ids
      /\ tabs \in [DOMAIN tabs -> Nat] /\ IsFiniteSet(DOMAIN tabs)
  BY <1>1, StoredWhileRunning
<1>3. \A f : DOMAIN f \subseteq Ids /\ f \in [DOMAIN f -> Nat] =>
         Stored([tables EXCEPT !.tabs = f])
  BY <1>2, EditsAreStored
<1>4. CASE InsertTab
  <2> DEFINE f == With(tabs, nextTab, NextPosition)
  <2>1. NextPosition \in Nat
    BY <1>2, NextPositionFacts
  <2>2. Write([tables EXCEPT !.tabs = f]) /\ nextTab \in Ids
    BY <1>4 DEF InsertTab
  <2>3. DOMAIN f \subseteq Ids /\ f \in [DOMAIN f -> Nat]
    <3> HIDE DEF NextPosition
    <3> QED BY <1>2, <2>1, <2>2 DEF With
  <2>4. Stored([tables EXCEPT !.tabs = f])
    <3> HIDE DEF f
    <3> QED BY <1>3, <2>3
  <2> QED BY <2>2, <2>4 DEF Edits
<1>5. CASE LoadTabs
  BY <1>4, <1>5 DEF LoadTabs, Edits
<1>6. CASE AddTab \/ CloseTab \/ MoveTab \/ CommitTabOrder \/ CallAnswered
  BY <1>6 DEF AddTab, CloseTab, MoveTab, CommitTabOrder, CallAnswered, Edits
<1>7. CASE CreateCommits
  BY <1>4, <1>7 DEF CreateCommits
<1>8. CASE DeleteCommits
  <2>1. PICK c \in calls : Write([tables EXCEPT !.tabs = Without(@, c.id)])
    BY <1>8 DEF DeleteCommits
  <2> DEFINE f == Without(tabs, c.id)
  <2>2. DOMAIN f \subseteq Ids /\ f \in [DOMAIN f -> Nat]
    BY <1>2 DEF Without
  <2>3. Stored([tables EXCEPT !.tabs = f])
    <3> HIDE DEF f
    <3> QED BY <1>3, <2>2
  <2> QED BY <2>1, <2>3 DEF Edits
<1>9. CASE ReorderCommits
  <2>1. PICK c \in calls : Write([tables EXCEPT !.tabs = PositionsOf(c.ids)])
    BY <1>9 DEF ReorderCommits
  <2> DEFINE f == PositionsOf(c.ids)
  <2>2. \A t \in DOMAIN tabs : (\E k \in 1 .. Len(c.ids) : c.ids[k] = t) =>
           (CHOOSE k \in 1 .. Len(c.ids) : c.ids[k] = t) - 1 \in Nat
    <3>1. ASSUME NEW t, \E k \in 1 .. Len(c.ids) : c.ids[k] = t
          PROVE  (CHOOSE k \in 1 .. Len(c.ids) : c.ids[k] = t) \in 1 .. Len(c.ids)
      BY <3>1, Zenon
    <3>2. \A k \in 1 .. Len(c.ids) : k - 1 \in Nat
      OBVIOUS
    <3> QED BY <3>1, <3>2
  <2>3. DOMAIN f = DOMAIN tabs /\ f \in [DOMAIN f -> Nat]
    BY <1>2, <2>2 DEF PositionsOf
  <2>4. Stored([tables EXCEPT !.tabs = f])
    <3> HIDE DEF f
    <3> QED BY <1>2, <1>3, <2>3
  <2> QED BY <2>1, <2>4 DEF Edits
<1> QED BY <1>1, <1>5, <1>6, <1>7, <1>8, <1>9

\* Until the app has its own database the launch moves through the adoption,
\* and from then on it leaves the database alone.
LEMMA LaunchKeepsData ==
    ASSUME DataInv, LaunchStep \/ DatabaseOpened \/ AppStops
    PROVE  LegacyShape' /\ Adopting'
PROOF
<1>1. /\ data = [main |-> data.main, wal |-> data.wal, partial |-> data.partial]
      /\ launch \in {"closed", "sidecars", "database", "rename", "opening", "running"}
      /\ owned \in BOOLEAN
      /\ legacy = [main |-> legacy.main, wal |-> legacy.wal]
  BY DEF DataInv, Adopting, LegacyShape
<1>2. ASSUME NEW t, data'.main = t, Stored(t) PROVE Stored(data.main)'
  BY <1>2 DEF Stored, TablesOK
<1>3. CASE owned
  <2>1. /\ launch \in {"closed", "opening", "running"}
        /\ data.main # None /\ data.wal = None /\ Stored(data.main)
    BY <1>3 DEF DataInv, Adopting
  <2>2. OwnContent = data.main
    BY <2>1 DEF OwnContent, Content
  <2>3. /\ data'.main = data.main /\ data'.wal = None
        /\ launch' \in {"closed", "opening", "running"} /\ owned' = TRUE
        /\ data' = [main |-> data'.main, wal |-> data'.wal, partial |-> data'.partial]
    <3>1. CASE LaunchStep
      BY <1>1, <1>3, <2>1, <3>1 DEF LaunchStep, Launch, CopySidecars, CopyDatabase,
         RenameDatabase, AdoptionFails, OldVersionRuns, HasOwnDatabase
    <3>2. CASE DatabaseOpened
      BY <1>1, <1>3, <2>1, <2>2, <3>2 DEF DatabaseOpened, OpenDatabase
    <3>3. CASE AppStops
      BY <1>1, <1>3, <2>1, <3>3 DEF AppStops, Stops, CutShort
    <3> QED BY <3>1, <3>2, <3>3
  <2>4. Stored(data.main)'
    BY <1>2, <2>1, <2>3
  <2>5. Adopting'
    BY <2>1, <2>3, <2>4 DEF Adopting
  <2>6. LegacyShape'
    <3>1. CASE legacy' = legacy
      BY <3>1 DEF DataInv, LegacyShape
    <3>2. ASSUME NEW t \in LegacyTables, legacy' = [main |-> t, wal |-> None]
          PROVE  LegacyShape'
      BY <3>2 DEF LegacyShape
    <3> QED BY <3>1, <3>2 DEF LaunchStep, Launch, CopySidecars, CopyDatabase,
               RenameDatabase, AdoptionFails, OldVersionRuns, DatabaseOpened,
               OpenDatabase, AppStops, Stops
  <2> QED BY <2>5, <2>6
<1>4. CASE ~ owned
  <2>1. Unowned
    BY <1>4 DEF DataInv, Adopting
  <2>2. /\ legacy.main # None => LegacyContent \in LegacyTables
        /\ \A t \in LegacyTables : t # None
        /\ None # Torn
    BY LegacyReads, LegacyIsStored, AppDataAssumption DEF DataInv
  <2>3. CASE legacy' = legacy /\ owned' = owned /\ launch' # "running"
    <3>1. LegacyShape'
      BY <2>3 DEF DataInv, LegacyShape
    <3>2. LegacyContent' = LegacyContent
      BY <2>3 DEF LegacyContent
    <3>3. /\ launch' \in {"closed", "sidecars", "database", "rename", "opening"}
          /\ data' = [main |-> data'.main, wal |-> data'.wal, partial |-> data'.partial]
          /\ Unowned'
      <4>1. CASE Launch
        BY <1>1, <2>1, <2>3, <3>2, <4>1
           DEF Launch, HasOwnDatabase, Unowned, OwnContent
      <4>2. CASE CopySidecars
        BY <1>1, <2>1, <2>3, <3>2, <4>2 DEF CopySidecars, Unowned, OwnContent
      <4>3. CASE CopyDatabase
        BY <1>1, <2>1, <2>3, <3>2, <4>3 DEF CopyDatabase, CopyTarget, Unowned
      <4>4. CASE RenameDatabase
        <5>1. /\ data' = [main |-> legacy.main, wal |-> legacy.wal, partial |-> None]
              /\ source' = LegacyContent /\ launch' = "opening"
          BY <1>1, <2>1, <4>4 DEF RenameDatabase, CopyTarget, Unowned
        <5>2. OwnContent' = LegacyContent
          BY <5>1 DEF OwnContent, LegacyContent
        <5>3. legacy.main \in LegacyTables
          BY <2>1, <4>4 DEF RenameDatabase, Unowned, DataInv, LegacyShape
        <5> QED BY <2>2, <2>3, <5>1, <5>2, <5>3 DEF Unowned
      <4>5. CASE CutShort /\ launch' \in {"opening", "closed"} /\ UNCHANGED source
        <5>1. CASE data' = data
          BY <1>1, <2>1, <2>3, <3>2, <4>5, <5>1 DEF Unowned, OwnContent
        <5>2. CASE launch = "sidecars" /\ legacy.wal # None
                   /\ data' = [data EXCEPT !.wal = Torn]
          BY <1>1, <2>1, <2>3, <4>5, <5>2 DEF Unowned
        <5>3. CASE launch = "database" /\ data' = [data EXCEPT !.partial = Torn]
          BY <1>1, <2>1, <2>3, <4>5, <5>3 DEF Unowned
        <5> QED BY <4>5, <5>1, <5>2, <5>3 DEF CutShort, CopyTarget
      <4>6. CASE UNCHANGED <<data, source>> /\ launch' \in {"opening", "closed"}
        BY <1>1, <2>1, <2>3, <3>2, <4>6 DEF Unowned, OwnContent
      <4>7. CASE OldVersionRuns
        <5>1. launch = "closed" /\ UNCHANGED <<data, launch, source>>
          BY <4>7 DEF OldVersionRuns
        <5> QED BY <1>1, <2>1, <2>3, <5>1 DEF Unowned, OwnContent
      <4>8. CASE LaunchStep
        BY <4>1, <4>2, <4>3, <4>4, <4>5, <4>7, <4>8 DEF LaunchStep, AdoptionFails
      <4>9. CASE DatabaseOpened
        BY <2>3, <4>6, <4>9 DEF DatabaseOpened, OpenDatabase
      <4>10. CASE AppStops
        BY <4>5, <4>10 DEF AppStops, Stops
      <4> QED BY <4>8, <4>9, <4>10
    <3>4. Adopting'
      BY <1>1, <1>4, <2>3, <3>3 DEF Adopting
    <3> QED BY <3>1, <3>4
  <2>4. CASE legacy' # legacy
    <3>1. OldVersionRuns /\ owned' = owned
      BY <2>4 DEF LaunchStep, Launch, CopySidecars, CopyDatabase, RenameDatabase,
         AdoptionFails, DatabaseOpened, OpenDatabase, AppStops, Stops
    <3>2. PICK t \in LegacyTables : legacy' = [main |-> t, wal |-> None]
      BY <3>1 DEF OldVersionRuns
    <3>3. /\ launch = "closed" /\ data.wal = None
          /\ UNCHANGED <<data, launch, source, owned>>
      BY <3>1 DEF OldVersionRuns
    <3>4. LegacyShape'
      BY <3>2 DEF LegacyShape
    <3>5. Unowned'
      BY <2>1, <3>3 DEF Unowned, OwnContent
    <3>6. Adopting'
      BY <1>1, <1>4, <3>3, <3>5 DEF Adopting
    <3> QED BY <3>4, <3>6
  <2>5. CASE DatabaseOpened /\ OwnContent # Torn
    <3>1. /\ data' = [main |-> OwnContent, wal |-> None, partial |-> data.partial]
          /\ launch' = "running" /\ owned' = TRUE /\ UNCHANGED legacy
      BY <1>1, <2>5 DEF DatabaseOpened, OpenDatabase
    <3>2. Stored(OwnContent) /\ OwnContent # None
      <4>1. CASE data.main = None
        <5>1. OwnContent = EmptyTables
          BY <4>1 DEF OwnContent, Content
        <5> QED BY <5>1, LegacyIsStored
      <4>2. CASE data.main # None
        <5>1. OwnContent \in LegacyTables
          BY <2>1, <4>2 DEF Unowned
        <5> QED BY <5>1, LegacyIsStored
      <4> QED BY <4>1, <4>2
    <3>3. Stored(data.main)'
      BY <1>2, <3>1, <3>2
    <3>4. Adopting'
      BY <3>1, <3>2, <3>3 DEF Adopting
    <3>5. LegacyShape'
      BY <3>1 DEF DataInv, LegacyShape
    <3> QED BY <3>4, <3>5
  <2>6. \/ legacy' = legacy /\ owned' = owned /\ launch' # "running"
        \/ legacy' # legacy
        \/ DatabaseOpened /\ OwnContent # Torn
    <3>1. CASE LaunchStep
      BY <1>4, <2>1, <3>1 DEF LaunchStep, Launch, CopySidecars, CopyDatabase,
         RenameDatabase, AdoptionFails, OldVersionRuns, Unowned
    <3>2. CASE DatabaseOpened
      BY <1>1, <1>4, <3>2 DEF DatabaseOpened, OpenDatabase
    <3>3. CASE AppStops
      BY <3>3 DEF AppStops, Stops
    <3> QED BY <3>1, <3>2, <3>3
  <2> QED BY <2>3, <2>4, <2>5, <2>6
<1> QED BY <1>1, <1>3, <1>4

\* The bounds of ids and of what the user does.
Counted ==
    /\ nextConn \in FirstFreshId .. MaxIds + 1 /\ nextTab \in FirstFreshId .. MaxIds + 1
    /\ commands \in 0 .. MaxCommands /\ stops \in 0 .. MaxStops

StoreStep ==
    \/ ConnectionCreate \/ ConnectionUpdate \/ ConnectionDelete
    \/ DeleteAllForConnection \/ TopicSchemaSet \/ TopicSchemaDelete
    \/ ConnectionsExport \/ ReceiveFile \/ ConnectionsImport \/ ImportNext

TabStep ==
    \/ LoadTabs \/ AddTab \/ CloseTab \/ MoveTab \/ CommitTabOrder
    \/ CreateCommits \/ DeleteCommits \/ ReorderCommits \/ CallAnswered

\* Ids and commands are counted up to their bounds.
LEMMA CountersStay ==
    ASSUME Counted, [Next]_vars
    PROVE  Counted'
PROOF
<1>1. /\ MaxIds \in Nat /\ MaxCommands \in Nat /\ MaxStops \in Nat
      /\ FirstFreshId \in 1 .. MaxIds + 1
  BY AppDataAssumption
<1>2. CASE UNCHANGED vars
  BY <1>2 DEF Counted, vars, storeVars
<1>3. CASE LaunchStep \/ DatabaseOpened
  BY <1>3 DEF LaunchStep, DatabaseOpened, Counted, storeVars
<1>4. CASE AppStops
  BY <1>1, <1>4 DEF AppStops, Counted
<1>5. CASE StoreStep
  <2>1. /\ nextTab' = nextTab /\ stops' = stops
        /\ nextConn' = nextConn \/ (nextConn \in Ids /\ nextConn' = nextConn + 1)
    BY <1>5 DEF StoreStep, ConnectionCreate, ConnectionUpdate, ConnectionDelete,
       DeleteAllForConnection, TopicSchemaSet, TopicSchemaDelete, ConnectionsExport,
       ReceiveFile, ConnectionsImport, ImportNext, Insert, storeFrame, storeVars
  <2>2. \/ commands' = commands
        \/ commands < MaxCommands /\ commands' = commands + 1
    BY <1>5 DEF StoreStep, ConnectionCreate, ConnectionUpdate, ConnectionDelete,
       DeleteAllForConnection, TopicSchemaSet, TopicSchemaDelete, ConnectionsExport,
       ReceiveFile, ConnectionsImport, ImportNext, Given
  <2> QED BY <1>1, <2>1, <2>2 DEF Counted, Ids
<1>6. CASE TabStep
  <2>1. /\ nextConn' = nextConn /\ stops' = stops
        /\ nextTab' = nextTab \/ (nextTab \in Ids /\ nextTab' = nextTab + 1)
    BY <1>6 DEF TabStep, LoadTabs, AddTab, CloseTab, MoveTab, CommitTabOrder,
       CreateCommits, DeleteCommits, ReorderCommits, CallAnswered, InsertTab,
       tabFrame, storeVars
  <2>2. \/ commands' = commands
        \/ commands < MaxCommands /\ commands' = commands + 1
    BY <1>6 DEF TabStep, LoadTabs, AddTab, CloseTab, MoveTab, CommitTabOrder,
       CreateCommits, DeleteCommits, ReorderCommits, CallAnswered, Send, Given
  <2> QED BY <1>1, <2>1, <2>2 DEF Counted, Ids
<1> QED BY <1>2, <1>3, <1>4, <1>5, <1>6 DEF Next, StoreStep, TabStep

\* What is exported and what an import has to create are connections without
\* secrets.
LEMMA JobsStayTyped ==
    ASSUME DataInv, [Next]_vars
    PROVE  JobsTyped'
PROOF
<1>1. /\ jobs # {} => Running
      /\ \A j \in jobs : j.op = "import" =>
            /\ j \in [op : {"import"}, file : Seq(PortableConnection),
                      rest : Seq(PortableConnection)]
            /\ j.rest # <<>>
      /\ file # None /\ Parses(file) => file.connections \in Seq(PortableConnection)
  BY DEF DataInv, JobsTyped
<1>2. ASSUME UNCHANGED file,
             \A j \in jobs' : j.op = "import" =>
                 \/ j \in jobs
                 \/ /\ j \in [op : {"import"}, file : Seq(PortableConnection),
                              rest : Seq(PortableConnection)]
                    /\ j.rest # <<>>,
             jobs' # {} => Running'
      PROVE  JobsTyped'
  BY <1>1, <1>2 DEF JobsTyped, Parses
<1>3. CASE UNCHANGED vars
  <2>1. UNCHANGED <<file, jobs, launch>>
    BY <1>3 DEF vars, fileVars, storeVars
  <2> QED BY <1>1, <1>2, <2>1 DEF Running
<1>4. CASE LaunchStep \/ DatabaseOpened
  <2>1. UNCHANGED <<file, jobs>> /\ jobs = {}
    BY <1>1, <1>4 DEF LaunchStep, DatabaseOpened, Launch, CopySidecars, CopyDatabase,
       RenameDatabase, AdoptionFails, OldVersionRuns, OpenDatabase, Running, storeVars
  <2> QED BY <1>2, <2>1
<1>5. CASE AppStops
  <2>1. UNCHANGED file /\ jobs' = {}
    BY <1>5 DEF AppStops
  <2> QED BY <1>2, <2>1
<1>6. CASE TabStep
  <2>1. UNCHANGED <<file, jobs>> /\ Running /\ Running'
    BY <1>6 DEF TabStep, LoadTabs, AddTab, CloseTab, MoveTab, CommitTabOrder,
       CreateCommits, DeleteCommits, ReorderCommits, CallAnswered, Send, Given,
       tabFrame, storeVars, Running
  <2> QED BY <1>2, <2>1
<1>7. CASE ConnectionCreate \/ ConnectionUpdate \/ TopicSchemaSet \/ TopicSchemaDelete
  <2>1. UNCHANGED <<file, jobs>> /\ Running /\ Running'
    BY <1>7 DEF ConnectionCreate, ConnectionUpdate, TopicSchemaSet, TopicSchemaDelete,
       Given, storeFrame, storeVars, Running
  <2> QED BY <1>2, <2>1
<1>8. CASE ConnectionDelete
  <2>1. PICK i : jobs' = jobs \union {[op |-> "delete", id |-> i]}
    BY <1>8 DEF ConnectionDelete
  <2>2. UNCHANGED file /\ Running /\ Running'
    BY <1>8 DEF ConnectionDelete, Given, storeFrame, Running
  <2> QED BY <1>2, <2>1, <2>2
<1>9. CASE DeleteAllForConnection
  <2>1. \A j \in jobs' : j \in jobs
    BY <1>9 DEF DeleteAllForConnection
  <2>2. UNCHANGED file /\ Running /\ Running'
    BY <1>9 DEF DeleteAllForConnection, storeFrame, Running
  <2> QED BY <1>2, <2>1, <2>2
<1>10. CASE ConnectionsExport
  <2>1. PICK ids : file' = ExportFile(select_for_export(conns, ListConnections, ids))
    BY <1>10 DEF ConnectionsExport
  <2>2. UNCHANGED jobs /\ Running /\ Running'
    BY <1>10 DEF ConnectionsExport, Given, storeFrame, Running
  <2>3. /\ IsFiniteSet(DOMAIN conns) /\ DOMAIN conns \subseteq Ids
        /\ conns \in [DOMAIN conns -> Row]
    BY <2>2, StoredWhileRunning
  <2> DEFINE order == ListConnections
             K == {k \in DOMAIN order : order[k] \in ids}
             chosen == Picked(order, K)
             exported == select_for_export(conns, order, ids)
  <2>4. order \in Seq(DOMAIN conns)
    <3>1. DOMAIN conns \in SUBSET Int
      BY <2>3 DEF Ids
    <3>2. /\ Cardinality(DOMAIN conns) \in Nat
          /\ Ascending(DOMAIN conns) \in [1 .. Cardinality(DOMAIN conns) -> DOMAIN conns]
      BY <2>3, <3>1, AscendingFacts
    <3> QED BY <3>2 DEF ListConnections
  <2>5. chosen \in Seq(DOMAIN conns)
    <3> HIDE DEF order
    <3>1. K \in SUBSET (DOMAIN order)
      OBVIOUS
    <3> HIDE DEF K
    <3> QED BY <2>4, <3>1, PickedFacts
  <2>6. exported = [k \in 1 .. Len(chosen) |-> Portable(conns[chosen[k]])]
    BY DEF select_for_export
  <2>7. exported \in Seq(PortableConnection)
    <3> HIDE DEF chosen, exported
    <3>1. Len(chosen) \in Nat /\ \A k \in 1 .. Len(chosen) : chosen[k] \in DOMAIN conns
      BY <2>5
    <3>2. \A k \in 1 .. Len(chosen) : Portable(conns[chosen[k]]) \in PortableConnection
      BY <2>3, <3>1 DEF Portable, PortableConnection, Row
    <3> QED BY <2>6, <3>1, <3>2
  <2>8. file'.connections = exported
    <3> HIDE DEF exported, order
    <3>1. file' = ExportFile(exported)
      BY <2>1 DEF exported, order
    <3> QED BY <3>1 DEF ExportFile
  <2>9. \A j \in jobs' : j \in jobs
    BY <2>2
  <2> HIDE DEF exported
  <2> QED BY <1>1, <2>2, <2>7, <2>8, <2>9 DEF JobsTyped
<1>11. CASE ReceiveFile
  <2>1. file' \in ForeignFiles /\ UNCHANGED jobs /\ Running /\ Running'
    BY <1>11 DEF ReceiveFile, Given, storeFrame, Running
  <2>2. Parses(file') => file'.connections \in Seq(PortableConnection)
    BY <2>1, AppDataAssumption
  <2> QED BY <1>1, <2>1, <2>2 DEF JobsTyped, Parses
<1>12. CASE ConnectionsImport
  <2> DEFINE existing == {conns[i].name : i \in DOMAIN conns}
             importable == partition_importable(file.connections, existing)
             job == [op |-> "import", file |-> file.connections, rest |-> importable]
  <2>1. /\ file # None /\ Parses(file) /\ UNCHANGED file /\ Running /\ Running'
        /\ jobs' = IF importable = <<>> THEN jobs ELSE jobs \union {job}
    BY <1>12 DEF ConnectionsImport, Given, storeFrame, Running
  <2>2. file.connections \in Seq(PortableConnection)
    BY <1>1, <2>1
  <2>3. importable \in Seq(PortableConnection)
    <3> DEFINE K == {k \in DOMAIN file.connections :
                        file.connections[k].name \notin existing}
    <3>1. importable = Picked(file.connections, K)
      BY DEF partition_importable
    <3>2. K \in SUBSET (DOMAIN file.connections)
      OBVIOUS
    <3> HIDE DEF K, importable
    <3> QED BY <2>2, <3>1, <3>2, PickedFacts
  <2>4. \A j \in jobs' : j \in jobs \/ (j = job /\ importable # <<>>)
    BY <2>1
  <2> HIDE DEF importable
  <2> QED BY <1>2, <2>1, <2>2, <2>3, <2>4
<1>13. CASE ImportNext
  <2>1. PICK j \in jobs :
           /\ j.op = "import"
           /\ jobs' = (jobs \ {j}) \union
                       (IF Len(j.rest) = 1 THEN {} ELSE {[j EXCEPT !.rest = Tail(@)]})
    BY <1>13 DEF ImportNext
  <2>2. UNCHANGED file /\ Running /\ Running'
    BY <1>13 DEF ImportNext, storeFrame, Running
  <2>3. /\ j \in [op : {"import"}, file : Seq(PortableConnection),
                  rest : Seq(PortableConnection)]
        /\ j.rest # <<>>
    BY <1>1, <2>1
  <2> DEFINE more == [j EXCEPT !.rest = Tail(@)]
  <2>4. /\ more.rest = Tail(j.rest)
        /\ more \in [op : {"import"}, file : Seq(PortableConnection),
                     rest : Seq(PortableConnection)]
    BY <2>3
  <2>5. Len(j.rest) # 1 => more.rest # <<>>
    <3> DEFINE r == j.rest
    <3>1. r \in Seq(PortableConnection) /\ r # <<>>
      BY <2>3
    <3> HIDE DEF r
    <3>2. Len(r) \in Nat /\ Len(r) # 0 /\ Len(Tail(r)) = Len(r) - 1
      BY <3>1
    <3>3. Len(r) # 1 => Tail(r) # <<>>
      BY <3>2
    <3> QED BY <2>4, <3>3 DEF r
  <2>6. \A k \in jobs' : k \in jobs \/ (k = more /\ Len(j.rest) # 1)
    BY <2>1
  <2> HIDE DEF more
  <2> QED BY <1>2, <2>2, <2>4, <2>5, <2>6
<1> QED BY <1>3, <1>4, <1>5, <1>6, <1>7, <1>8, <1>9, <1>10, <1>11, <1>12, <1>13
        DEF Next, TabStep

\* Rows and the adoption are as they should be after every step.
LEMMA DataStaysSound ==
    ASSUME DataInv, Counted, [Next]_vars
    PROVE  DataInv'
PROOF
<1>1. JobsTyped'
  BY JobsStayTyped
<1>2. nextConn \in Nat /\ nextConn <= MaxIds + 1
  BY AppDataAssumption DEF Counted
<1>3. CASE StoreStep
  <2>1. Running /\ UNCHANGED <<legacy, launch, source, owned>> /\ Edits
    BY <1>2, <1>3, StoreEdits DEF StoreStep
  <2> QED BY <1>1, <2>1, WritingKeepsData DEF Edits, DataInv
<1>4. CASE TabStep
  <2>1. Running /\ UNCHANGED <<legacy, launch, source, owned>> /\ Edits
    BY <1>4, TabEdits DEF TabStep
  <2> QED BY <1>1, <2>1, WritingKeepsData DEF Edits, DataInv
<1>5. CASE LaunchStep \/ DatabaseOpened \/ AppStops
  BY <1>1, <1>5, LaunchKeepsData DEF DataInv
<1>6. CASE UNCHANGED vars
  <2>1. UNCHANGED <<legacy, data, launch, source, owned>>
    BY <1>6 DEF vars, fileVars
  <2>2. LegacyShape'
    BY <2>1 DEF DataInv, LegacyShape
  <2>3. Unowned' = Unowned /\ Stored(data.main)' = Stored(data.main)
    BY <2>1 DEF Unowned, OwnContent, LegacyContent, Stored, TablesOK
  <2>4. Adopting'
    <3>1. Adopting
      BY DEF DataInv
    <3> QED BY <2>1, <2>3, <3>1 DEF Adopting
  <2> QED BY <1>1, <2>2, <2>4 DEF DataInv
<1> QED BY <1>3, <1>4, <1>5, <1>6 DEF Next, StoreStep, TabStep

\* Neither a launch nor a stop changes a database the app has opened.
LEMMA LaunchesLeaveOwnData ==
    ASSUME DataInv, owned, [Next]_vars, launch' # "running"
    PROVE  data'.main = data.main /\ data'.wal = None
PROOF
<1>1. /\ launch \in {"closed", "opening", "running"}
      /\ data = [main |-> data.main, wal |-> data.wal, partial |-> data.partial]
      /\ data.main # None /\ data.wal = None
  BY DEF DataInv, Adopting
<1>2. OwnContent = data.main
  BY <1>1 DEF OwnContent, Content
<1>3. CASE LaunchStep
  BY <1>1, <1>3 DEF LaunchStep, Launch, CopySidecars, CopyDatabase,
     RenameDatabase, AdoptionFails, OldVersionRuns, HasOwnDatabase
<1>4. CASE DatabaseOpened
  BY <1>1, <1>2, <1>4 DEF DatabaseOpened, OpenDatabase
<1>5. CASE AppStops
  BY <1>1, <1>5 DEF AppStops, Stops, CutShort
<1>6. CASE UNCHANGED vars
  BY <1>1, <1>6 DEF vars, fileVars
<1>7. ~ StoreStep
  BY DEF StoreStep, ConnectionCreate, ConnectionUpdate, ConnectionDelete,
     DeleteAllForConnection, TopicSchemaSet, TopicSchemaDelete,
     ConnectionsExport, ReceiveFile, ConnectionsImport, ImportNext, Given,
     Running, storeFrame
<1>8. ~ TabStep
  BY DEF TabStep, LoadTabs, AddTab, CloseTab, MoveTab, CommitTabOrder,
     CreateCommits, DeleteCommits, ReorderCommits, CallAnswered, Given, Send,
     Running, tabFrame
<1> QED BY <1>3, <1>4, <1>5, <1>6, <1>7, <1>8 DEF Next, StoreStep, TabStep

\* The app starts with nothing of its own.
LEMMA DataStartsSound ==
    ASSUME Init
    PROVE  DataInv /\ Counted
PROOF
<1>1. /\ data = [main |-> None, wal |-> None, partial |-> None]
      /\ launch = "closed" /\ source = None /\ owned = FALSE
      /\ file = None /\ jobs = {}
      /\ LegacyInit
  BY DEF Init, AdoptionInit
<1>2. LegacyShape
  <2>1. CASE legacy = [main |-> None, wal |-> None]
    BY <2>1 DEF LegacyShape
  <2>2. ASSUME NEW t \in LegacyTables, legacy = [main |-> t, wal |-> None]
        PROVE  LegacyShape
    BY <2>2 DEF LegacyShape
  <2>3. ASSUME NEW t \in LegacyTables, NEW u \in LegacyTables,
               legacy = [main |-> t, wal |-> Wal(t, u)]
        PROVE  LegacyShape
    BY <2>3 DEF LegacyShape
  <2> QED BY <1>1, <2>1, <2>2, <2>3 DEF LegacyInit
<1>3. Adopting
  BY <1>1 DEF Adopting, Unowned
<1>4. JobsTyped
  BY <1>1 DEF JobsTyped
<1>5. Counted
  BY AppDataAssumption DEF Init, Counted
<1> QED BY <1>2, <1>3, <1>4, <1>5 DEF DataInv

\* Once the app has opened its database, no launch and no stop changes what
\* was committed to it: adopt_legacy_app_data returns before it copies
\* anything when the database is there.
THEOREM OwnDataStays == Spec => OwnDataSurvives
PROOF
<1>1. Init => DataInv /\ Counted
  BY DataStartsSound
<1>2. DataInv /\ Counted /\ [Next]_vars => DataInv' /\ Counted'
  BY DataStaysSound, CountersStay
<1>3. DataInv /\ [Next]_vars =>
         ((owned /\ launch' # "running") => (data'.main = data.main /\ data'.wal = None))
  BY LaunchesLeaveOwnData
<1> QED BY <1>1, <1>2, <1>3, PTL DEF Spec, OwnDataSurvives

-----------------------------------------------------------------------------
(* Positions of tabs.                                                      *)

Positions(p) == p \in [DOMAIN p -> Nat] /\ DOMAIN p \subseteq Ids

Before(p, x, y) == p[x] < p[y] \/ (p[x] = p[y] /\ x < y)
Ahead(p, t) == {s \in DOMAIN p : Before(p, s, t)}
Older(p, t) == {s \in DOMAIN p : s < t}

\* The positions when ids has been written over them.
Placed(p, ids) ==
    [t \in DOMAIN p |->
        IF \E k \in 1 .. Len(ids) : ids[k] = t
        THEN (CHOOSE k \in 1 .. Len(ids) : ids[k] = t) - 1 ELSE p[t]]

Listed(ids, t) == \E k \in 1 .. Len(ids) : ids[k] = t

Distinct(ids) == \A j, k \in 1 .. Len(ids) : ids[j] = ids[k] => j = k

\* The rows that a new order leaves alone were created later than those it
\* names, each behind all there were.
LateRows(p, ids) ==
    \A y \in DOMAIN p : ~ Listed(ids, y) =>
        /\ \A k \in 1 .. Len(ids) : ids[k] < y
        /\ Cardinality(Older(p, y)) <= p[y]
        /\ \A z \in DOMAIN p : ~ Listed(ids, z) /\ y < z => p[y] < p[z]

\* Sets of rows are finite and have as many members as their parts at least.
LEMMA RowsAreFinite ==
    ASSUME NEW p, Positions(p)
    PROVE  /\ IsFiniteSet(DOMAIN p) /\ DOMAIN p \in SUBSET Int
           /\ \A T \in SUBSET (DOMAIN p) :
                 /\ IsFiniteSet(T) /\ Cardinality(T) \in Nat
                 /\ \A U \in SUBSET T :
                       IsFiniteSet(U) /\ Cardinality(U) \in Nat
                       /\ Cardinality(U) <= Cardinality(T)
           /\ \A t : Ahead(p, t) \in SUBSET (DOMAIN p) /\ Older(p, t) \in SUBSET (DOMAIN p)
PROOF
<1>1. IsFiniteSet(Ids) /\ Ids \in SUBSET Int
  BY AppDataAssumption, FS_Interval DEF Ids
<1>2. IsFiniteSet(DOMAIN p) /\ DOMAIN p \in SUBSET Int
  BY <1>1, FS_Subset DEF Positions
<1>3. ASSUME NEW T \in SUBSET (DOMAIN p)
      PROVE  /\ IsFiniteSet(T) /\ Cardinality(T) \in Nat
             /\ \A U \in SUBSET T :
                   IsFiniteSet(U) /\ Cardinality(U) \in Nat
                   /\ Cardinality(U) <= Cardinality(T)
  <2>1. IsFiniteSet(T)
    BY <1>2, FS_Subset
  <2> QED BY <2>1, FS_Subset, FS_CardinalityType
<1> QED BY <1>2, <1>3 DEF Ahead, Older

\* The query's order is an order.
LEMMA TabsAreOrdered ==
    ASSUME NEW p, Positions(p)
    PROVE  /\ Orders(TabsBefore(p), DOMAIN p)
           /\ \A x, y \in DOMAIN p : <<x, y>> \in TabsBefore(p) <=> Before(p, x, y)
           /\ Roomy(p) <=> \A t \in DOMAIN p : Cardinality(Ahead(p, t)) <= p[t]
PROOF
<1>1. \A x \in DOMAIN p : p[x] \in Nat /\ x \in Int
  BY RowsAreFinite DEF Positions
<1>2. ASSUME NEW x \in DOMAIN p, NEW y \in DOMAIN p
      PROVE  <<x, y>> \in TabsBefore(p) <=> Before(p, x, y)
  BY DEF TabsBefore, Before
<1>3. /\ \A x \in DOMAIN p : ~ Before(p, x, x)
      /\ \A x, y \in DOMAIN p : x = y \/ Before(p, x, y) \/ Before(p, y, x)
      /\ \A x, y, z \in DOMAIN p : Before(p, x, y) /\ Before(p, y, z) => Before(p, x, z)
  BY <1>1 DEF Before
<1>4. Orders(TabsBefore(p), DOMAIN p)
  BY <1>2, <1>3 DEF Orders
<1>5. ASSUME NEW t \in DOMAIN p
      PROVE  {s \in DOMAIN p : <<s, t>> \in TabsBefore(p)} = Ahead(p, t)
  BY <1>2 DEF Ahead
<1> QED BY <1>2, <1>4, <1>5 DEF Roomy

\* A position behind all others leaves room for all of them.
LEMMA LastHasRoom ==
    ASSUME NEW p, Positions(p), Roomy(p), NEW n \in Nat,
           \A t \in DOMAIN p : p[t] < n
    PROVE  Cardinality(DOMAIN p) <= n
PROOF
<1> DEFINE c == Cardinality(DOMAIN p)
           o == OrderBy(DOMAIN p, TabsBefore(p))
<1>1. /\ o \in [1 .. c -> DOMAIN p] /\ c \in Nat
      /\ \A k \in 1 .. c : RankIn(DOMAIN p, TabsBefore(p), o[k]) = k - 1
  BY RowsAreFinite, TabsAreOrdered, OrderByFacts
<1>2. \A t \in DOMAIN p : RankIn(DOMAIN p, TabsBefore(p), t) <= p[t] /\ p[t] \in Nat
  BY DEF Roomy, RankIn, Positions
<1> HIDE DEF c, o
<1>3. CASE c = 0
  BY <1>3 DEF c
<1>4. CASE c > 0
  <2>1. c \in 1 .. c /\ o[c] \in DOMAIN p
    BY <1>1, <1>4
  <2>2. c - 1 <= p[o[c]] /\ p[o[c]] < n /\ p[o[c]] \in Nat
    BY <1>1, <1>2, <2>1
  <2>3. c <= n
    BY <1>1, <2>2
  <2> QED BY <2>3 DEF c
<1> QED BY <1>1, <1>3, <1>4

\* A new tab behind all others.
LEMMA InsertKeepsRoom ==
    ASSUME NEW p, Positions(p), Roomy(p), NEW i \in Ids, \A t \in DOMAIN p : t < i,
           NEW n \in Nat, \A t \in DOMAIN p : p[t] < n
    PROVE  /\ Positions(With(p, i, n)) /\ Roomy(With(p, i, n))
           /\ DOMAIN With(p, i, n) = DOMAIN p \union {i}
           /\ With(p, i, n)[i] = n /\ \A t \in DOMAIN p : With(p, i, n)[t] = p[t]
           /\ Cardinality(Older(With(p, i, n), i)) <= n
           /\ \A t \in DOMAIN p : Older(With(p, i, n), t) = Older(p, t)
PROOF
<1> DEFINE q == With(p, i, n)
<1>1. i \notin DOMAIN p /\ i \in Int
  BY RowsAreFinite DEF Ids
<1>2. /\ DOMAIN q = DOMAIN p \union {i} /\ q[i] = n
      /\ \A t \in DOMAIN p : q[t] = p[t]
  BY <1>1 DEF With
<1>3. \A t \in DOMAIN p : p[t] \in Nat /\ t \in Int
  BY RowsAreFinite DEF Positions
<1>4. Positions(q)
  <2>1. q \in [DOMAIN q -> Nat]
    BY <1>2, <1>3 DEF With
  <2> HIDE DEF q
  <2> QED BY <1>2, <2>1 DEF Positions
<1> HIDE DEF q
<1>5. ASSUME NEW t \in DOMAIN p PROVE Ahead(q, t) = Ahead(p, t) /\ Older(q, t) = Older(p, t)
  BY <1>1, <1>2, <1>3 DEF Ahead, Older, Before
<1>6. Ahead(q, i) \in SUBSET (DOMAIN p) /\ Older(q, i) \in SUBSET (DOMAIN p)
  BY <1>1, <1>2 DEF Ahead, Older, Before
<1>7. Cardinality(DOMAIN p) <= n
  BY LastHasRoom
<1>8. Cardinality(Ahead(q, i)) <= n /\ Cardinality(Older(q, i)) <= n
  <2>1. /\ Cardinality(DOMAIN p) \in Nat
        /\ Cardinality(Ahead(q, i)) \in Nat /\ Cardinality(Older(q, i)) \in Nat
        /\ Cardinality(Ahead(q, i)) <= Cardinality(DOMAIN p)
        /\ Cardinality(Older(q, i)) <= Cardinality(DOMAIN p)
    BY <1>6, RowsAreFinite
  <2> QED BY <1>7, <2>1
<1>9. \A t \in DOMAIN p : Cardinality(Ahead(p, t)) <= p[t]
  BY TabsAreOrdered
<1>10. \A t \in DOMAIN q : Cardinality(Ahead(q, t)) <= q[t]
  BY <1>2, <1>5, <1>8, <1>9
<1>11. Roomy(q)
  BY <1>4, <1>10, TabsAreOrdered
<1> QED BY <1>2, <1>4, <1>5, <1>8, <1>11 DEF q

\* A tab is closed.
LEMMA DeleteKeepsRoom ==
    ASSUME NEW p, Positions(p), Roomy(p), NEW i
    PROVE  /\ Positions(Without(p, i)) /\ Roomy(Without(p, i))
           /\ DOMAIN Without(p, i) = DOMAIN p \ {i}
           /\ \A t \in DOMAIN p \ {i} : Without(p, i)[t] = p[t]
           /\ \A t : Cardinality(Older(Without(p, i), t)) <= Cardinality(Older(p, t))
PROOF
<1> DEFINE q == Without(p, i)
<1>1. /\ DOMAIN q = DOMAIN p \ {i}
      /\ \A t \in DOMAIN p \ {i} : q[t] = p[t] /\ p[t] \in Nat
  BY DEF Without, Positions
<1>2. Positions(q)
  <2>1. q \in [DOMAIN q -> Nat]
    BY <1>1 DEF Without
  <2> HIDE DEF q
  <2> QED BY <1>1, <2>1 DEF Positions
<1> HIDE DEF q
<1>3. ASSUME NEW t
      PROVE  Cardinality(Older(q, t)) <= Cardinality(Older(p, t))
  <2>1. Older(q, t) \in SUBSET Older(p, t)
    BY <1>1 DEF Older
  <2> QED BY <2>1, RowsAreFinite
<1>4. ASSUME NEW t \in DOMAIN q
      PROVE  Cardinality(Ahead(q, t)) <= q[t]
  <2>1. Ahead(q, t) \in SUBSET Ahead(p, t)
    BY <1>1 DEF Ahead, Before
  <2>2. Cardinality(Ahead(p, t)) <= p[t] /\ p[t] = q[t] /\ p[t] \in Nat
    BY <1>1, TabsAreOrdered
  <2>3. /\ Cardinality(Ahead(q, t)) <= Cardinality(Ahead(p, t))
        /\ Cardinality(Ahead(p, t)) \in Nat /\ Cardinality(Ahead(q, t)) \in Nat
    BY <2>1, RowsAreFinite
  <2> QED BY <2>2, <2>3
<1>5. Roomy(q)
  BY <1>2, <1>4, TabsAreOrdered
<1> QED BY <1>1, <1>2, <1>3, <1>5 DEF q

\* A set of numbers that is not empty has a largest member.
LEMMA LargestOf ==
    ASSUME NEW K \in SUBSET Int, IsFiniteSet(K), K # {}
    PROVE  \E x \in K : \A y \in K : y <= x
PROOF
<1> DEFINE n == Cardinality(K)
<1>1. /\ n \in Nat /\ Ascending(K) \in [1 .. n -> K]
      /\ \A x \in K : \E k \in 1 .. n : Ascending(K)[k] = x
      /\ \A j, k \in 1 .. n : j < k => Ascending(K)[j] < Ascending(K)[k]
  BY AscendingFacts
<1> HIDE DEF n
<1>2. n \in 1 .. n
  <2>1. PICK x \in K : TRUE
    OBVIOUS
  <2>2. PICK k \in 1 .. n : Ascending(K)[k] = x
    BY <1>1
  <2> QED BY <1>1, <2>2
<1>3. \A k \in 1 .. n : Ascending(K)[k] \in Int
  BY <1>1
<1>4. \A k \in 1 .. n : Ascending(K)[k] <= Ascending(K)[n]
  BY <1>1, <1>2, <1>3
<1> QED BY <1>1, <1>2, <1>4

\* Every listed row gets its index and every other one keeps its position.
LEMMA PlacedFacts ==
    ASSUME NEW p, Positions(p), NEW ids \in Seq(Ids), Distinct(ids)
    PROVE  /\ DOMAIN Placed(p, ids) = DOMAIN p /\ Positions(Placed(p, ids))
           /\ \A k \in 1 .. Len(ids) : ids[k] \in DOMAIN p => Placed(p, ids)[ids[k]] = k - 1
           /\ \A t \in DOMAIN p : ~ Listed(ids, t) => Placed(p, ids)[t] = p[t]
           /\ \A t : Older(Placed(p, ids), t) = Older(p, t)
PROOF
<1> DEFINE q == Placed(p, ids)
           at(t) == CHOOSE k \in 1 .. Len(ids) : ids[k] = t
<1>1. \A t \in DOMAIN p : q[t] = IF Listed(ids, t) THEN at(t) - 1 ELSE p[t]
  BY DEF Placed, Listed
<1>2. ASSUME NEW t, Listed(ids, t) PROVE at(t) \in 1 .. Len(ids) /\ ids[at(t)] = t
  <2>1. \E k \in 1 .. Len(ids) : ids[k] = t
    BY <1>2 DEF Listed
  <2> QED BY <2>1, Zenon
<1> HIDE DEF at
<1>3. ASSUME NEW k \in 1 .. Len(ids), ids[k] \in DOMAIN p
      PROVE  q[ids[k]] = k - 1
  <2>1. PICK t \in DOMAIN p : t = ids[k]
    BY <1>3
  <2>2. Listed(ids, t)
    BY <2>1 DEF Listed
  <2>3. at(t) \in 1 .. Len(ids) /\ ids[at(t)] = ids[k]
    BY <1>2, <2>1, <2>2
  <2>4. at(t) = k
    BY <2>3 DEF Distinct
  <2>5. q[t] = at(t) - 1
    BY <1>1, <2>2
  <2> HIDE DEF q
  <2> QED BY <2>1, <2>4, <2>5
<1>4. \A t \in DOMAIN p : ~ Listed(ids, t) => q[t] = p[t]
  BY <1>1
<1>5. \A t \in DOMAIN p : q[t] \in Nat
  <2>1. \A t \in DOMAIN p : Listed(ids, t) => at(t) - 1 \in Nat
    BY <1>2
  <2>2. \A t \in DOMAIN p : p[t] \in Nat
    BY DEF Positions
  <2> HIDE DEF q
  <2> QED BY <1>1, <2>1, <2>2
<1>6. DOMAIN q = DOMAIN p
  BY DEF Placed
<1>7. Positions(q)
  <2>1. q \in [DOMAIN p -> Nat]
    BY <1>5 DEF Placed
  <2> HIDE DEF q
  <2> QED BY <1>6, <2>1 DEF Positions
<1> HIDE DEF q
<1>8. \A t : Older(q, t) = Older(p, t)
  BY <1>6 DEF Older
<1> QED BY <1>3, <1>4, <1>6, <1>7, <1>8 DEF q

\* A new order leaves every row the room it had or its index.
LEMMA OrderKeepsRoom ==
    ASSUME NEW p, Positions(p), Roomy(p), NEW ids \in Seq(Ids), Distinct(ids),
           LateRows(p, ids)
    PROVE  Roomy(Placed(p, ids))
PROOF
<1>1. PICK q : q = Placed(p, ids)
  OBVIOUS
<1>2. /\ DOMAIN q = DOMAIN p /\ Positions(q)
      /\ \A k \in 1 .. Len(ids) : ids[k] \in DOMAIN p => q[ids[k]] = k - 1
      /\ \A t \in DOMAIN p : ~ Listed(ids, t) => q[t] = p[t]
  BY <1>1, PlacedFacts
<1>3. /\ \A t \in DOMAIN p : p[t] \in Nat /\ q[t] \in Nat /\ t \in Int
      /\ Len(ids) \in Nat /\ \A k \in 1 .. Len(ids) : ids[k] \in Int
  <2>1. \A t \in DOMAIN p : p[t] \in Nat /\ q[t] \in Nat
    BY <1>2 DEF Positions
  <2>2. \A t \in DOMAIN p : t \in Int
    BY RowsAreFinite
  <2>3. Len(ids) \in Nat /\ \A k \in 1 .. Len(ids) : ids[k] \in Int
    <3>1. Len(ids) \in Nat /\ \A k \in 1 .. Len(ids) : ids[k] \in Ids
      OBVIOUS
    <3>2. Ids \in SUBSET Int
      BY DEF Ids
    <3> QED BY <3>1, <3>2
  <2> QED BY <2>1, <2>2, <2>3
<1>4. ASSUME NEW t \in DOMAIN p, ~ Listed(ids, t)
      PROVE  Cardinality(Ahead(q, t)) <= q[t]
  <2>1. Ahead(q, t) \in SUBSET Older(p, t)
    <3> SUFFICES ASSUME NEW s \in DOMAIN p, Before(q, s, t) PROVE s < t
      BY <1>2 DEF Ahead, Older
    <3>1. CASE Listed(ids, s)
      BY <1>4, <3>1 DEF Listed, LateRows
    <3>2. CASE ~ Listed(ids, s)
      <4>1. s > t => p[t] < p[s]
        BY <1>3, <1>4, <3>2 DEF LateRows
      <4>2. q[s] = p[s] /\ q[t] = p[t]
        BY <1>2, <1>4, <3>2
      <4> QED BY <1>3, <4>1, <4>2 DEF Before
    <3> QED BY <3>1, <3>2
  <2>2. /\ Cardinality(Ahead(q, t)) \in Nat /\ Cardinality(Older(p, t)) \in Nat
        /\ Cardinality(Ahead(q, t)) <= Cardinality(Older(p, t))
    BY <2>1, RowsAreFinite
  <2>3. Cardinality(Older(p, t)) <= p[t] /\ q[t] = p[t]
    BY <1>2, <1>4 DEF LateRows
  <2> QED BY <1>3, <2>2, <2>3
<1>5. ASSUME NEW m \in 1 .. Len(ids), ids[m] \in DOMAIN p
      PROVE  Cardinality(Ahead(q, ids[m])) <= m - 1
  <2>1. PICK t \in DOMAIN p : t = ids[m]
    BY <1>5
  <2>2. q[t] = m - 1 /\ Listed(ids, t)
    BY <1>2, <2>1 DEF Listed
  <2> DEFINE late == {y \in DOMAIN p : ~ Listed(ids, y) /\ p[y] < m - 1}
  <2>3. \A s \in Ahead(q, t) : ~ Listed(ids, s) => s \in late
    <3> SUFFICES ASSUME NEW s \in DOMAIN p, Before(q, s, t), ~ Listed(ids, s)
                 PROVE  p[s] < m - 1
      BY <1>2 DEF Ahead
    <3>1. t < s
      BY <2>1 DEF LateRows
    <3>2. q[s] = p[s]
      BY <1>2
    <3> QED BY <1>3, <2>2, <3>1, <3>2 DEF Before
  <2>4. \A s \in Ahead(q, t) : s \in DOMAIN p /\ s # t
    BY <1>2, <1>3 DEF Ahead, Before
  <2>5. CASE late = {}
    <3> DEFINE T == {ids[j] : j \in 1 .. m - 1}
               f == [j \in 1 .. m - 1 |-> ids[j]]
    <3>1. Ahead(q, t) \in SUBSET T
      <4> SUFFICES ASSUME NEW s \in Ahead(q, t) PROVE s \in T
        OBVIOUS
      <4>1. PICK j \in 1 .. Len(ids) : ids[j] = s
        BY <2>3, <2>5 DEF Listed
      <4>2. q[s] = j - 1 /\ Before(q, s, t)
        BY <1>2, <2>4, <4>1 DEF Ahead
      <4>3. j <= m
        BY <2>2, <4>2 DEF Before
      <4>4. j # m
        BY <2>1, <2>4, <4>1
      <4> QED BY <4>1, <4>3, <4>4
    <3>2. IsFiniteSet(1 .. m - 1) /\ Cardinality(1 .. m - 1) = m - 1
      <4>1. 1 \in Int /\ m - 1 \in Int /\ m >= 1
        OBVIOUS
      <4>2. /\ IsFiniteSet(1 .. m - 1)
            /\ Cardinality(1 .. m - 1) = IF 1 > m - 1 THEN 0 ELSE m - 1 - 1 + 1
        BY <4>1, FS_Interval
      <4> QED BY <4>1, <4>2
    <3>3. f \in Surjection(1 .. m - 1, T)
      BY DEF Surjection
    <3> HIDE DEF T, f
    <3>4. IsFiniteSet(T) /\ Cardinality(T) <= m - 1
      BY <3>2, <3>3, FS_Surjection
    <3>5. Cardinality(Ahead(q, t)) <= Cardinality(T) /\ Cardinality(Ahead(q, t)) \in Nat
          /\ Cardinality(T) \in Nat
      BY <3>1, <3>4, FS_Subset, FS_CardinalityType
    <3> QED BY <2>1, <3>4, <3>5
  <2>6. CASE late # {}
    <3>1. late \in SUBSET Int /\ IsFiniteSet(late)
      <4>1. late \in SUBSET (DOMAIN p)
        OBVIOUS
      <4> HIDE DEF late
      <4> QED BY <1>3, <4>1, RowsAreFinite
    <3>2. PICK y \in late : \A z \in late : z <= y
      <4> HIDE DEF late
      <4> QED BY <2>6, <3>1, LargestOf
    <3> DEFINE O == Older(p, y)
               U == (O \ {t}) \union {y}
    <3>3. y \in DOMAIN p /\ ~ Listed(ids, y) /\ p[y] < m - 1 /\ t < y
      BY <2>1 DEF LateRows
    <3>4. Cardinality(O) <= p[y]
      BY <3>3 DEF LateRows
    <3>5. Ahead(q, t) \in SUBSET U
      <4> SUFFICES ASSUME NEW s \in Ahead(q, t) PROVE s \in U
        OBVIOUS
      <4>1. CASE Listed(ids, s)
        <5>1. s < y
          BY <3>3, <4>1 DEF Listed, LateRows
        <5> QED BY <2>4, <5>1 DEF Older
      <4>2. CASE ~ Listed(ids, s)
        <5>1. s \in late
          BY <2>3, <4>2
        <5>2. s <= y
          BY <3>2, <5>1
        <5>3. s = y \/ s < y
          BY <1>3, <2>4, <3>3, <5>2
        <5> QED BY <2>4, <5>3 DEF Older
      <4> QED BY <4>1, <4>2
    <3>6. t \in O /\ O \in SUBSET (DOMAIN p)
      BY <3>3 DEF Older
    <3> HIDE DEF O
    <3>7. IsFiniteSet(O) /\ Cardinality(O) \in Nat
      BY <3>6, RowsAreFinite
    <3>8. IsFiniteSet(O \ {t}) /\ Cardinality(O \ {t}) = Cardinality(O) - 1
      BY <3>6, <3>7, FS_RemoveElement
    <3>9. IsFiniteSet(U) /\ Cardinality(U) <= Cardinality(O)
      <4>1. /\ IsFiniteSet(U)
            /\ \/ Cardinality(U) = Cardinality(O \ {t})
               \/ Cardinality(U) = Cardinality(O \ {t}) + 1
        BY <3>8, FS_AddElement
      <4> QED BY <3>7, <3>8, <4>1
    <3>10. Cardinality(Ahead(q, t)) <= Cardinality(U) /\ Cardinality(Ahead(q, t)) \in Nat
           /\ Cardinality(U) \in Nat
      <4> HIDE DEF U
      <4> QED BY <3>5, <3>9, FS_Subset, FS_CardinalityType
    <3> HIDE DEF U
    <3> QED BY <1>3, <2>1, <3>3, <3>4, <3>7, <3>9, <3>10
  <2> QED BY <2>5, <2>6
<1>6. ASSUME NEW t \in DOMAIN q PROVE Cardinality(Ahead(q, t)) <= q[t]
  <2>1. CASE Listed(ids, t)
    <3>1. PICK m \in 1 .. Len(ids) : ids[m] = t
      BY <2>1 DEF Listed
    <3> QED BY <1>2, <1>5, <1>6, <3>1
  <2> QED BY <1>2, <1>4, <2>1
<1> QED BY <1>1, <1>2, <1>6, TabsAreOrdered

-----------------------------------------------------------------------------
(* The window.                                                             *)

\* Until loadTabs has answered, nothing is shown and nothing on its way.
Bars ==
    /\ bar \in Seq(Ids) /\ Distinct(bar)
    /\ \A k \in 1 .. Len(bar) : bar[k] < nextTab
    /\ loaded \in BOOLEAN /\ dragging \in BOOLEAN /\ overtaken \in BOOLEAN
    /\ loaded => Running
    /\ ~ loaded => bar = <<>> /\ calls = {} /\ ~ dragging /\ ~ overtaken

\* One call of a kind: a create that may have its id, a delete of a tab of the
\* bar, an order of earlier ids.
CallsTyped ==
    /\ \A c \in calls :
          \/ /\ c \in [op : {"create"}, id : Nat] /\ c.id < nextTab
             /\ c.id # 0 => \A k \in 1 .. Len(bar) : bar[k] < c.id
          \/ /\ c \in [op : {"delete"}, id : Ids, committed : BOOLEAN]
             /\ Listed(bar, c.id)
          \/ /\ c \in [op : {"reorder"}, ids : Seq(Ids)] /\ Distinct(c.ids)
             /\ \A k \in 1 .. Len(c.ids) : c.ids[k] < nextTab
    /\ \A c, d \in calls : c.op = d.op => c = d
    /\ \A c, d \in calls :
          c.op = "create" /\ c.id # 0 /\ d.op = "reorder" => ~ Listed(d.ids, c.id)

Creates(cs, t) == \E c \in cs : c.op = "create" /\ c.id = t /\ t # 0
Deletes(cs, t) == \E c \in cs : c.op = "delete" /\ c.id = t /\ c.committed

\* The rows are the tabs of the bar, save what an answer under way will change.
RowsShown == \A t \in Ids :
    t \in DOMAIN tabs <=> (Listed(bar, t) \/ Creates(calls, t)) /\ ~ Deletes(calls, t)

\* A row that was just created is behind the others, however they are ordered.
RowsKept ==
    /\ owned => Roomy(tabs) /\ \A t \in DOMAIN tabs : t < nextTab
    /\ \A c \in calls :
          /\ c.op = "create" /\ c.id # 0 => Cardinality(Older(tabs, c.id)) <= tabs[c.id]
          /\ c.op = "reorder" => LateRows(tabs, c.ids)

\* The positions p have the bar's tabs in its order, a new one behind them.
BarIn(p) ==
    /\ \A j, k \in 1 .. Len(bar) :
          j < k /\ bar[j] \in DOMAIN p /\ bar[k] \in DOMAIN p => Before(p, bar[j], bar[k])
    /\ \A c \in calls, k \in 1 .. Len(bar) :
          c.op = "create" /\ c.id # 0 /\ bar[k] \in DOMAIN p => Before(p, bar[k], c.id)

\* The bar has the order that the table has or will have.
OrderKept ==
    (loaded /\ ~ dragging /\ ~ overtaken) =>
        /\ Idle("reorder") => BarIn(tabs)
        /\ \A c \in calls : c.op = "reorder" => BarIn(Placed(tabs, c.ids))

WindowInv == Bars /\ CallsTyped /\ (loaded => RowsShown) /\ RowsKept /\ OrderKept

\* The window stays as it is and the rows it shows stay.
LEMMA WindowIsLeftAlone ==
    ASSUME WindowInv, UNCHANGED <<bar, loaded, dragging, calls, overtaken, nextTab>>,
           loaded => Running' /\ tabs' = tabs,
           owned' => Roomy(tabs') /\ \A t \in DOMAIN tabs' : t < nextTab
    PROVE  WindowInv'
PROOF
<1>1. Bars' /\ CallsTyped'
  BY DEF WindowInv, Bars, CallsTyped, Running
<1>2. (loaded => RowsShown)'
  BY DEF WindowInv, RowsShown
<1>3. ~ loaded => calls = {}
  BY DEF WindowInv, Bars
<1>4. RowsKept'
  BY <1>3 DEF WindowInv, RowsKept
<1>5. OrderKept'
  BY DEF WindowInv, OrderKept, Idle, BarIn
<1> QED BY <1>1, <1>2, <1>4, <1>5 DEF WindowInv

\* What a step writes is what the tables hold after it.
LEMMA WritingTables ==
    ASSUME DataInv, Running, NEW t, Write(t)
    PROVE  data'.main = t
PROOF
<1>1. data = [main |-> data.main, wal |-> data.wal, partial |-> data.partial]
  BY DEF DataInv, Adopting
<1> QED BY <1>1 DEF Write

\* The commands over connections, schemas and export files leave the tabs alone.
LEMMA StoreLeavesTabs ==
    ASSUME DataInv, StoreStep
    PROVE  /\ tabs' = tabs /\ Running /\ Running'
           /\ UNCHANGED <<bar, loaded, dragging, calls, overtaken, nextTab, owned>>
PROOF
<1>1. /\ Running /\ Running'
      /\ UNCHANGED <<bar, loaded, dragging, calls, overtaken, nextTab, owned>>
  BY DEF StoreStep, ConnectionCreate, ConnectionUpdate, ConnectionDelete,
     DeleteAllForConnection, TopicSchemaSet, TopicSchemaDelete, ConnectionsExport,
     ReceiveFile, ConnectionsImport, ImportNext, Given, storeFrame, windowVars, Running
<1> SUFFICES tabs' = tabs
  BY <1>1
<1>2. /\ data.main = [conns |-> data.main.conns, schemas |-> data.main.schemas,
                      tabs |-> data.main.tabs]
  <2>1. Stored(tables)
    BY <1>1, StoredWhileRunning
  <2> QED BY <2>1 DEF Stored, TablesOK
<1>3. ASSUME NEW c, Write([tables EXCEPT !.conns = c]) PROVE tabs' = tabs
  <2>1. data'.main = [tables EXCEPT !.conns = c]
    BY <1>1, <1>3, WritingTables
  <2> QED BY <1>2, <2>1
<1>4. ASSUME NEW S, Write([tables EXCEPT !.schemas = S]) PROVE tabs' = tabs
  <2>1. data'.main = [tables EXCEPT !.schemas = S]
    BY <1>1, <1>4, WritingTables
  <2> QED BY <1>2, <2>1
<1>5. ASSUME NEW row, Insert(row) PROVE tabs' = tabs
  BY <1>3, <1>5 DEF Insert
<1>6. CASE ConnectionCreate \/ ImportNext
  BY <1>5, <1>6 DEF ConnectionCreate, ImportNext
<1>7. CASE ConnectionUpdate
  <2>1. PICK i \in DOMAIN conns, n \in Names, g \in {{}, Grants} :
           Write([tables EXCEPT !.conns[i] = [name |-> n, grants |-> g, by |-> "user"]])
    BY <1>7 DEF ConnectionUpdate
  <2>2. data'.main
          = [tables EXCEPT !.conns[i] = [name |-> n, grants |-> g, by |-> "user"]]
    BY <1>1, <2>1, WritingTables
  <2> QED BY <1>2, <2>2
<1>8. CASE ConnectionDelete
  <2>1. PICK i : Write([tables EXCEPT !.conns = Without(@, i)])
    BY <1>8 DEF ConnectionDelete
  <2> QED BY <1>3, <2>1
<1>9. CASE DeleteAllForConnection \/ TopicSchemaSet \/ TopicSchemaDelete
  BY <1>4, <1>9 DEF DeleteAllForConnection, TopicSchemaSet, TopicSchemaDelete
<1>10. CASE ConnectionsExport \/ ReceiveFile \/ ConnectionsImport
  BY <1>10 DEF ConnectionsExport, ReceiveFile, ConnectionsImport
<1> QED BY <1>1, <1>6, <1>7, <1>8, <1>9, <1>10 DEF StoreStep

\* A launch finds the rows that were there, or those the previous version saved.
LEMMA LaunchKeepsRows ==
    ASSUME DataInv, Counted, WindowInv, LaunchStep \/ DatabaseOpened \/ AppStops, owned'
    PROVE  Roomy(tabs') /\ \A t \in DOMAIN tabs' : t < nextTab
PROOF
<1>1. ASSUME NEW t \in LegacyTables \union {EmptyTables}
      PROVE  Roomy(t.tabs) /\ \A s \in DOMAIN t.tabs : s < nextTab
  <2>1. CASE t \in LegacyTables
    <3>1. Roomy(t.tabs) /\ DOMAIN t.tabs \subseteq 1 .. FirstFreshId - 1
      BY <2>1, AppDataAssumption DEF TablesOK
    <3>2. nextTab \in Int /\ FirstFreshId \in Int /\ FirstFreshId <= nextTab
      BY AppDataAssumption DEF Counted
    <3> QED BY <3>1, <3>2
  <2>2. CASE t = EmptyTables
    <3>1. DOMAIN t.tabs = {}
      BY <2>2, AppDataAssumption DEF NoTables, NoRows
    <3> QED BY <3>1 DEF Roomy
  <2> QED BY <2>1, <2>2
<1>2. CASE owned
  <2>1. data'.main = data.main
    <3>1. CASE launch' # "running"
      BY <1>2, <3>1, LaunchesLeaveOwnData DEF Next
    <3>2. CASE launch' = "running"
      <4>1. DatabaseOpened /\ OwnContent # Torn
        BY <1>2, <3>2 DEF LaunchStep, Launch, CopySidecars, CopyDatabase,
           RenameDatabase, AdoptionFails, OldVersionRuns, DatabaseOpened,
           OpenDatabase, AppStops, Stops, DataInv, Adopting
      <4>2. /\ data = [main |-> data.main, wal |-> data.wal, partial |-> data.partial]
            /\ data.main # None /\ data.wal = None
        BY <1>2 DEF DataInv, Adopting
      <4>3. OwnContent = data.main
        BY <4>2 DEF OwnContent, Content
      <4> QED BY <4>1, <4>2, <4>3 DEF DatabaseOpened, OpenDatabase
    <3> QED BY <3>1, <3>2
  <2> QED BY <1>2, <2>1 DEF WindowInv, RowsKept
<1>3. CASE ~ owned
  <2>1. DatabaseOpened /\ OwnContent # Torn
    BY <1>3 DEF LaunchStep, DatabaseOpened, OpenDatabase, AppStops
  <2>2. data = [main |-> data.main, wal |-> data.wal, partial |-> data.partial]
    BY DEF DataInv, Adopting
  <2>3. data'.main = OwnContent
    BY <2>1, <2>2 DEF DatabaseOpened, OpenDatabase
  <2>4. OwnContent \in LegacyTables \union {EmptyTables}
    BY <1>3 DEF DataInv, Adopting, Unowned, OwnContent, Content
  <2> QED BY <1>1, <2>3, <2>4
<1> QED BY <1>2, <1>3

\* What the window holds is untouched by the stores, and gone with the app.
LEMMA OthersKeepWindow ==
    ASSUME DataInv, Counted, WindowInv,
           StoreStep \/ LaunchStep \/ DatabaseOpened \/ AppStops \/ UNCHANGED vars
    PROVE  WindowInv'
PROOF
<1>1. CASE StoreStep
  <2>1. /\ tabs' = tabs /\ Running /\ Running'
        /\ UNCHANGED <<bar, loaded, dragging, calls, overtaken, nextTab, owned>>
    BY <1>1, StoreLeavesTabs
  <2>2. owned => Roomy(tabs) /\ \A t \in DOMAIN tabs : t < nextTab
    BY DEF WindowInv, RowsKept
  <2> QED BY <2>1, <2>2, WindowIsLeftAlone
<1>2. CASE LaunchStep \/ DatabaseOpened
  <2>1. UNCHANGED <<bar, loaded, dragging, calls, overtaken, nextTab>>
    BY <1>2 DEF LaunchStep, DatabaseOpened, windowVars
  <2>2. ~ Running
    BY <1>2 DEF LaunchStep, Launch, CopySidecars, CopyDatabase, RenameDatabase,
       AdoptionFails, OldVersionRuns, DatabaseOpened, OpenDatabase, Running
  <2>3. ~ loaded
    BY <2>2 DEF WindowInv, Bars
  <2>4. owned' => Roomy(tabs') /\ \A t \in DOMAIN tabs' : t < nextTab
    BY <1>2, LaunchKeepsRows
  <2> QED BY <2>1, <2>3, <2>4, WindowIsLeftAlone
<1>3. CASE AppStops
  <2>1. /\ bar' = <<>> /\ loaded' = FALSE /\ dragging' = FALSE
        /\ calls' = {} /\ overtaken' = FALSE /\ nextTab' = nextTab
    BY <1>3 DEF AppStops
  <2>2. owned' => Roomy(tabs') /\ \A t \in DOMAIN tabs' : t < nextTab
    BY <1>3, LaunchKeepsRows
  <2>3. Bars'
    <3>1. <<>> \in Seq(Ids) /\ Distinct(<<>>) /\ \A k \in 1 .. Len(<<>>) : FALSE
      BY DEF Distinct
    <3> QED BY <2>1, <3>1 DEF Bars, Distinct
  <2>4. CallsTyped' /\ RowsKept' /\ OrderKept'
    BY <2>1, <2>2 DEF CallsTyped, RowsKept, OrderKept
  <2> QED BY <2>1, <2>3, <2>4 DEF WindowInv
<1>4. CASE UNCHANGED vars
  <2>1. /\ UNCHANGED <<bar, loaded, dragging, calls, overtaken, nextTab, owned>>
        /\ UNCHANGED <<data, launch>>
    BY <1>4 DEF vars, windowVars, fileVars
  <2>2. /\ owned => Roomy(tabs) /\ \A t \in DOMAIN tabs : t < nextTab
        /\ loaded => Running
    BY DEF WindowInv, RowsKept, Bars
  <2>3. tabs' = tabs /\ (loaded => Running')
    BY <2>1, <2>2 DEF Running
  <2> QED BY <2>1, <2>2, <2>3, WindowIsLeftAlone
<1> QED BY <1>1, <1>2, <1>3, <1>4

\* What every command of the tab bar starts from.
LEMMA WindowFacts ==
    ASSUME DataInv, Counted, WindowInv, Running
    PROVE  /\ owned /\ Positions(tabs) /\ Roomy(tabs)
           /\ \A t \in DOMAIN tabs : t < nextTab
           /\ nextTab \in Int /\ nextTab >= 1
           /\ loaded \in BOOLEAN /\ dragging \in BOOLEAN /\ overtaken \in BOOLEAN
PROOF
<1>1. owned /\ Positions(tabs)
  BY StoredWhileRunning DEF Positions
<1>2. nextTab \in Int /\ nextTab >= 1
  BY AppDataAssumption DEF Counted
<1> QED BY <1>1, <1>2 DEF WindowInv, RowsKept, Bars

\* The row of a new tab.
LEMMA InsertedTab ==
    ASSUME DataInv, Counted, WindowInv, Running, InsertTab
    PROVE  /\ nextTab \in Ids /\ nextTab \notin DOMAIN tabs /\ nextTab' = nextTab + 1
           /\ DOMAIN tabs' = DOMAIN tabs \union {nextTab}
           /\ Positions(tabs') /\ Roomy(tabs')
           /\ \A t \in DOMAIN tabs : tabs'[t] = tabs[t] /\ tabs[t] < tabs'[nextTab]
           /\ Cardinality(Older(tabs', nextTab)) <= tabs'[nextTab]
           /\ \A t \in DOMAIN tabs : Older(tabs', t) = Older(tabs, t)
PROOF
<1>1. PICK p : p = tabs
  OBVIOUS
<1>2. PICK n : n = NextPosition
  OBVIOUS
<1>3. /\ Positions(p) /\ Roomy(p) /\ \A t \in DOMAIN p : t < nextTab
      /\ nextTab \in Ids /\ nextTab' = nextTab + 1
  BY <1>1, WindowFacts DEF InsertTab
<1>4. n \in Nat /\ \A t \in DOMAIN p : p[t] < n
  BY <1>1, <1>2, <1>3, RowsAreFinite, NextPositionFacts DEF Positions
<1>5. tabs' = With(p, nextTab, n)
  <2>1. data'.main = [tables EXCEPT !.tabs = With(@, nextTab, NextPosition)]
    BY WritingTables DEF InsertTab
  <2>2. Stored(tables)
    BY StoredWhileRunning
  <2>3. data.main = [conns |-> data.main.conns, schemas |-> data.main.schemas,
                     tabs |-> data.main.tabs]
    BY <2>2 DEF Stored, TablesOK
  <2> QED BY <1>1, <1>2, <2>1, <2>3
<1>6. PICK i : i = nextTab
  OBVIOUS
<1>7. PICK q : q = With(p, i, n)
  OBVIOUS
<1>8. /\ Positions(q) /\ Roomy(q) /\ DOMAIN q = DOMAIN p \union {i}
      /\ q[i] = n /\ \A t \in DOMAIN p : q[t] = p[t]
      /\ Cardinality(Older(q, i)) <= n
      /\ \A t \in DOMAIN p : Older(q, t) = Older(p, t)
  <2>1. /\ i \in Ids /\ \A t \in DOMAIN p : t < i
        /\ Positions(p) /\ Roomy(p)
    BY <1>3, <1>6
  <2>2. n \in Nat /\ \A t \in DOMAIN p : p[t] < n
    BY <1>4
  <2>3. /\ Positions(With(p, i, n)) /\ Roomy(With(p, i, n))
        /\ DOMAIN With(p, i, n) = DOMAIN p \union {i}
        /\ With(p, i, n)[i] = n /\ \A t \in DOMAIN p : With(p, i, n)[t] = p[t]
        /\ Cardinality(Older(With(p, i, n), i)) <= n
        /\ \A t \in DOMAIN p : Older(With(p, i, n), t) = Older(p, t)
    BY <2>1, <2>2, InsertKeepsRoom
  <2> QED BY <1>7, <2>3
<1>9. i \notin DOMAIN p
  <2>1. ~ (i < i)
    BY <1>3, <1>6 DEF Ids
  <2> QED BY <1>3, <1>6, <2>1
<1>10. tabs' = q
  BY <1>5, <1>6, <1>7
<1> QED BY <1>1, <1>3, <1>4, <1>6, <1>8, <1>9, <1>10

\* loadTabs shows the rows in their order, or the first tab.
LEMMA LoadKeepsWindow ==
    ASSUME DataInv, Counted, WindowInv, LoadTabs
    PROVE  WindowInv'
PROOF
<1>1. /\ Running /\ Running' /\ ~ loaded /\ loaded' = TRUE
      /\ UNCHANGED <<dragging, calls, overtaken, owned>>
      /\ calls = {} /\ ~ overtaken /\ ~ dragging
  BY DEF LoadTabs, tabFrame, WindowInv, Bars, Running
<1>2. /\ owned /\ Positions(tabs) /\ Roomy(tabs)
      /\ \A t \in DOMAIN tabs : t < nextTab
      /\ nextTab \in Int /\ dragging \in BOOLEAN /\ overtaken \in BOOLEAN
  BY <1>1, WindowFacts
<1> SUFFICES /\ bar' \in Seq(Ids) /\ Distinct(bar')
             /\ \A k \in 1 .. Len(bar') : bar'[k] < nextTab'
             /\ \A t \in Ids : t \in DOMAIN tabs' <=> Listed(bar', t)
             /\ Roomy(tabs') /\ \A t \in DOMAIN tabs' : t < nextTab'
             /\ \A j, k \in 1 .. Len(bar') :
                  j < k /\ bar'[j] \in DOMAIN tabs' /\ bar'[k] \in DOMAIN tabs' =>
                      Before(tabs', bar'[j], bar'[k])
  BY <1>1, <1>2 DEF WindowInv, Bars, CallsTyped, RowsShown, Creates, Deletes, RowsKept,
     OrderKept, BarIn
<1>3. CASE tabs = NoRows
  <2>1. InsertTab /\ bar' = <<nextTab>>
    BY <1>3 DEF LoadTabs
  <2>2. /\ nextTab \in Ids /\ nextTab' = nextTab + 1
        /\ DOMAIN tabs' = DOMAIN tabs \union {nextTab} /\ Roomy(tabs')
    BY <1>1, <2>1, InsertedTab
  <2>3. DOMAIN tabs' = {nextTab}
    BY <1>3, <2>2 DEF NoRows
  <2>4. /\ bar' \in Seq(Ids) /\ Len(bar') = 1 /\ bar'[1] = nextTab
    BY <2>1, <2>2
  <2>5. Distinct(bar') /\ \A t : Listed(bar', t) <=> t = nextTab
    BY <2>4 DEF Distinct, Listed
  <2> QED BY <1>2, <2>2, <2>3, <2>4, <2>5
<1>4. CASE tabs # NoRows
  <2>1. tabs' = tabs /\ nextTab' = nextTab /\ bar' = TabOrder
    BY <1>4 DEF LoadTabs
  <2>2. PICK p : p = tabs
    OBVIOUS
  <2> DEFINE n == Cardinality(DOMAIN p)
             o == OrderBy(DOMAIN p, TabsBefore(p))
  <2>3. /\ o \in [1 .. n -> DOMAIN p] /\ n \in Nat
        /\ \A x \in DOMAIN p : /\ RankIn(DOMAIN p, TabsBefore(p), x) + 1 \in 1 .. n
                               /\ o[RankIn(DOMAIN p, TabsBefore(p), x) + 1] = x
        /\ \A j, k \in 1 .. n : /\ j < k => <<o[j], o[k]>> \in TabsBefore(p)
                                /\ o[j] = o[k] => j = k
    BY <1>2, <2>2, RowsAreFinite, TabsAreOrdered, OrderByFacts
  <2>4. bar' = o
    BY <2>1, <2>2 DEF TabOrder
  <2> HIDE DEF n, o
  <2>5. \A k \in 1 .. n : o[k] \in DOMAIN p /\ o[k] \in Ids /\ o[k] < nextTab
    BY <1>2, <2>2, <2>3 DEF Positions
  <2>6. o \in Seq(Ids) /\ Len(o) = n
    BY <2>3, <2>5
  <2>7. Distinct(o) /\ \A t : t \in DOMAIN p <=> Listed(o, t)
    <3>1. Distinct(o)
      BY <2>3, <2>6 DEF Distinct
    <3>2. ASSUME NEW t \in DOMAIN p PROVE Listed(o, t)
      BY <2>3, <2>6 DEF Listed
    <3>3. ASSUME NEW t, Listed(o, t) PROVE t \in DOMAIN p
      BY <2>5, <2>6, <3>3 DEF Listed
    <3> QED BY <3>1, <3>2, <3>3
  <2>8. \A j, k \in 1 .. n : j < k => Before(p, o[j], o[k])
    BY <1>2, <2>2, <2>3, <2>5, TabsAreOrdered
  <2> QED BY <1>2, <2>1, <2>2, <2>4, <2>5, <2>6, <2>7, <2>8
<1> QED BY <1>3, <1>4

\* A command is sent.
LEMMA SendKeepsWindow ==
    ASSUME DataInv, Counted, WindowInv, AddTab \/ CloseTab
    PROVE  WindowInv'
PROOF
<1>1. /\ Running /\ Running' /\ loaded
      /\ UNCHANGED <<data, nextTab, bar, loaded, dragging, overtaken, owned>>
  BY DEF AddTab, CloseTab, Send, Given, tabFrame, Running
<1>2. /\ owned /\ nextTab \in Int /\ nextTab >= 1
      /\ loaded \in BOOLEAN /\ dragging \in BOOLEAN /\ overtaken \in BOOLEAN
  BY <1>1, WindowFacts
<1>3. PICK c : /\ calls' = calls \union {c} /\ Idle(c.op)
               /\ \/ c = [op |-> "create", id |-> 0]
                  \/ \E k \in 1 .. Len(bar) :
                        c = [op |-> "delete", id |-> bar[k], committed |-> FALSE]
  BY DEF AddTab, CloseTab, Send
<1>4. c.op \in {"create", "delete"}
  BY <1>3
<1>5. Bars'
  BY <1>1 DEF WindowInv, Bars
<1>6. CallsTyped'
  <2>1. \/ c \in [op : {"create"}, id : Nat] /\ c.id = 0
        \/ c \in [op : {"delete"}, id : Ids, committed : BOOLEAN] /\ Listed(bar, c.id)
    <3>1. CASE c = [op |-> "create", id |-> 0]
      BY <3>1
    <3>2. ASSUME NEW k \in 1 .. Len(bar),
                 c = [op |-> "delete", id |-> bar[k], committed |-> FALSE]
          PROVE  /\ c \in [op : {"delete"}, id : Ids, committed : BOOLEAN]
                 /\ Listed(bar, c.id)
      <4>1. bar \in Seq(Ids)
        BY DEF WindowInv, Bars
      <4>2. bar[k] \in Ids
        BY <4>1
      <4> QED BY <3>2, <4>2 DEF Listed
    <3> QED BY <1>3, <3>1, <3>2
  <2>2. \A d \in calls' : d \in calls \/ d = c
    BY <1>3
  <2>3. \A d \in calls : d.op # c.op
    BY <1>3 DEF Idle
  <2>4. 0 < nextTab
    BY <1>2
  <2>5. CallsTyped
    BY DEF WindowInv
  <2>6. \A d \in calls' :
          \/ /\ d \in [op : {"create"}, id : Nat] /\ d.id < nextTab
             /\ d.id # 0 => \A k \in 1 .. Len(bar) : bar[k] < d.id
          \/ /\ d \in [op : {"delete"}, id : Ids, committed : BOOLEAN]
             /\ Listed(bar, d.id)
          \/ /\ d \in [op : {"reorder"}, ids : Seq(Ids)] /\ Distinct(d.ids)
             /\ \A k \in 1 .. Len(d.ids) : d.ids[k] < nextTab
    BY <2>1, <2>2, <2>4, <2>5 DEF CallsTyped
  <2>7. \A d, e \in calls' : d.op = e.op => d = e
    BY <2>2, <2>3, <2>5 DEF CallsTyped
  <2>8. \A d, e \in calls' :
           d.op = "create" /\ d.id # 0 /\ e.op = "reorder" => ~ Listed(e.ids, d.id)
    BY <1>4, <2>1, <2>2, <2>5 DEF CallsTyped
  <2> QED BY <1>1, <2>6, <2>7, <2>8 DEF CallsTyped
<1>7. c.op = "create" => c.id = 0
  BY <1>3
<1>8. c.op = "delete" => c.committed = FALSE
  BY <1>3
<1>9. RowsShown'
  <2>1. \A t : Creates(calls', t) <=> Creates(calls, t)
    BY <1>3, <1>4, <1>7 DEF Creates
  <2>2. \A t : Deletes(calls', t) <=> Deletes(calls, t)
    BY <1>3, <1>4, <1>8 DEF Deletes
  <2> QED BY <1>1, <2>1, <2>2 DEF WindowInv, RowsShown
<1>10. RowsKept'
  BY <1>1, <1>3, <1>4, <1>7 DEF WindowInv, RowsKept
<1>11. OrderKept'
  <2>1. \A p : BarIn(p)' <=> BarIn(p)
    BY <1>1, <1>3, <1>4, <1>7 DEF BarIn
  <2>2. Idle("reorder")' <=> Idle("reorder")
    BY <1>3, <1>4 DEF Idle
  <2> QED BY <1>1, <1>3, <1>4, <2>1, <2>2 DEF WindowInv, OrderKept
<1> QED BY <1>5, <1>6, <1>9, <1>10, <1>11 DEF WindowInv

\* A list with one element elsewhere has the same elements.
LEMMA MovedFacts ==
    ASSUME NEW T, NEW s \in Seq(T), NEW from \in 1 .. Len(s), NEW to \in 1 .. Len(s)
    PROVE  /\ Moved(s, from, to) \in Seq(T) /\ Len(Moved(s, from, to)) = Len(s)
           /\ Distinct(s) => Distinct(Moved(s, from, to))
           /\ \A t : Listed(Moved(s, from, to), t) <=> Listed(s, t)
PROOF
<1> DEFINE n == Len(s)
           m == Moved(s, from, to)
<1>1. n \in Nat /\ DOMAIN s = 1 .. n /\ \A k \in 1 .. n : s[k] \in T
  OBVIOUS
<1>2. \A k \in 1 .. n : Whence(k, from, to) \in 1 .. n /\ Whence(k, to, from) \in 1 .. n
  BY <1>1 DEF Whence
<1>3. \A j, k \in 1 .. n : Whence(j, from, to) = Whence(k, from, to) => j = k
  BY <1>1 DEF Whence
<1>4. \A k \in 1 .. n : Whence(Whence(k, to, from), from, to) = k
  BY <1>1 DEF Whence
<1>5. \A k \in 1 .. n : m[k] = s[Whence(k, from, to)]
  BY <1>1 DEF Moved
<1>6. m \in Seq(T) /\ Len(m) = n
  <2>1. m = [k \in 1 .. n |-> s[Whence(k, from, to)]]
    BY <1>1 DEF Moved
  <2>2. \A k \in 1 .. n : s[Whence(k, from, to)] \in T
    BY <1>1, <1>2
  <2> HIDE DEF m, n
  <2> QED BY <1>1, <2>1, <2>2
<1> HIDE DEF m
<1>7. Distinct(s) => Distinct(m)
  <2> SUFFICES ASSUME Distinct(s), NEW j \in 1 .. n, NEW k \in 1 .. n, m[j] = m[k]
               PROVE  j = k
    BY <1>6 DEF Distinct
  <2>1. PICK a \in 1 .. n : a = Whence(j, from, to)
    BY <1>2
  <2>2. PICK b \in 1 .. n : b = Whence(k, from, to)
    BY <1>2
  <2>3. s[a] = s[b]
    BY <1>5, <2>1, <2>2
  <2>4. a = b
    BY <2>3 DEF Distinct
  <2> QED BY <1>3, <2>1, <2>2, <2>4
<1>8. ASSUME NEW t, Listed(m, t) PROVE Listed(s, t)
  BY <1>2, <1>5, <1>6, <1>8 DEF Listed
<1>9. ASSUME NEW t, Listed(s, t) PROVE Listed(m, t)
  <2>1. PICK k \in 1 .. n : s[k] = t
    BY <1>9 DEF Listed
  <2>2. PICK j \in 1 .. n : j = Whence(k, to, from)
    BY <1>2
  <2>3. m[j] = t
    BY <1>4, <1>5, <2>1, <2>2
  <2> QED BY <1>6, <2>3 DEF Listed
<1> QED BY <1>6, <1>7, <1>8, <1>9 DEF m

\* A tab is dragged.
LEMMA MoveKeepsWindow ==
    ASSUME DataInv, Counted, WindowInv, MoveTab
    PROVE  WindowInv'
PROOF
<1>1. /\ Running /\ Running' /\ loaded /\ dragging' = TRUE
      /\ UNCHANGED <<data, nextTab, loaded, calls, overtaken, owned>>
  BY DEF MoveTab, Given, tabFrame, Running
<1>2. PICK from \in 1 .. Len(bar), to \in 1 .. Len(bar) : bar' = Moved(bar, from, to)
  BY DEF MoveTab
<1>3. bar \in Seq(Ids) /\ Distinct(bar) /\ \A k \in 1 .. Len(bar) : bar[k] < nextTab
  BY DEF WindowInv, Bars
<1>4. /\ bar' \in Seq(Ids) /\ Len(bar') = Len(bar) /\ Distinct(bar')
      /\ \A t : Listed(bar', t) <=> Listed(bar, t)
  BY <1>2, <1>3, MovedFacts
<1>5. \A i : (\A k \in 1 .. Len(bar) : bar[k] < i) =>
                (\A k \in 1 .. Len(bar') : bar'[k] < i)
  <2> SUFFICES ASSUME NEW i, \A k \in 1 .. Len(bar) : bar[k] < i,
                      NEW k \in 1 .. Len(bar')
               PROVE  bar'[k] < i
    OBVIOUS
  <2>1. PICK t : t = bar'[k]
    OBVIOUS
  <2>2. Listed(bar, t)
    BY <1>4, <2>1 DEF Listed
  <2> QED BY <2>1, <2>2 DEF Listed
<1>6. Bars'
  BY <1>1, <1>3, <1>4, <1>5 DEF WindowInv, Bars
<1>7. CallsTyped'
  BY <1>1, <1>4, <1>5 DEF WindowInv, CallsTyped
<1>8. RowsShown' /\ RowsKept'
  BY <1>1, <1>4 DEF WindowInv, RowsShown, RowsKept
<1>9. OrderKept'
  BY <1>1 DEF OrderKept
<1> QED BY <1>6, <1>7, <1>8, <1>9 DEF WindowInv

\* The new order is sent: its indices have the bar's order, and a row the bar
\* does not show yet has room for all of the bar's before it.
LEMMA OrderIsSent ==
    ASSUME DataInv, Counted, WindowInv, CommitTabOrder
    PROVE  WindowInv'
PROOF
<1>1. /\ Running /\ Running' /\ loaded /\ dragging' = FALSE /\ Idle("reorder")
      /\ UNCHANGED <<data, nextTab, bar, loaded, overtaken, owned>>
  BY DEF CommitTabOrder, tabFrame, Running, WindowInv, Bars
<1>2. PICK c : c = [op |-> "reorder", ids |-> bar] /\ calls' = calls \union {c}
  BY DEF CommitTabOrder
<1>3. /\ owned /\ Positions(tabs) /\ nextTab \in Int
      /\ loaded \in BOOLEAN /\ overtaken \in BOOLEAN
      /\ \A t \in DOMAIN tabs : t < nextTab
  BY <1>1, WindowFacts
<1>4. bar \in Seq(Ids) /\ Distinct(bar) /\ \A k \in 1 .. Len(bar) : bar[k] < nextTab
  BY DEF WindowInv, Bars
<1>5. /\ \A d \in calls' : d \in calls \/ d = c
      /\ \A d \in calls : d.op # "reorder"
      /\ c.op = "reorder" /\ c.ids = bar
  BY <1>1, <1>2 DEF Idle
<1>6. Bars'
  BY <1>1 DEF WindowInv, Bars
<1>7. \A d \in calls : d.op = "create" /\ d.id # 0 =>
         /\ ~ Listed(bar, d.id) /\ \A k \in 1 .. Len(bar) : bar[k] < d.id
         /\ d.id \in Int
  <2> SUFFICES ASSUME NEW d \in calls, d.op = "create", d.id # 0
               PROVE  /\ ~ Listed(bar, d.id) /\ \A k \in 1 .. Len(bar) : bar[k] < d.id
                      /\ d.id \in Int
    OBVIOUS
  <2>1. /\ \A k \in 1 .. Len(bar) : bar[k] < d.id
        /\ d.id \in Int
    BY DEF WindowInv, CallsTyped
  <2>2. ~ (d.id < d.id)
    BY <2>1
  <2> QED BY <2>1, <2>2 DEF Listed
<1>8. CallsTyped'
  <2>1. CallsTyped
    BY DEF WindowInv
  <2>2. c \in [op : {"reorder"}, ids : Seq(Ids)]
    BY <1>2, <1>4
  <2>3. \A d \in calls' :
          \/ /\ d \in [op : {"create"}, id : Nat] /\ d.id < nextTab
             /\ d.id # 0 => \A k \in 1 .. Len(bar) : bar[k] < d.id
          \/ /\ d \in [op : {"delete"}, id : Ids, committed : BOOLEAN]
             /\ Listed(bar, d.id)
          \/ /\ d \in [op : {"reorder"}, ids : Seq(Ids)] /\ Distinct(d.ids)
             /\ \A k \in 1 .. Len(d.ids) : d.ids[k] < nextTab
    BY <1>4, <1>5, <2>1, <2>2 DEF CallsTyped
  <2>4. \A d, e \in calls' : d.op = e.op => d = e
    BY <1>5, <2>1 DEF CallsTyped
  <2>5. \A d, e \in calls' :
           d.op = "create" /\ d.id # 0 /\ e.op = "reorder" => ~ Listed(e.ids, d.id)
    BY <1>5, <1>7
  <2> QED BY <1>1, <2>3, <2>4, <2>5 DEF CallsTyped
<1>9. /\ \A t : Creates(calls', t) <=> Creates(calls, t)
      /\ \A t : Deletes(calls', t) <=> Deletes(calls, t)
  BY <1>2, <1>5 DEF Creates, Deletes
<1>10. RowsShown'
  BY <1>1, <1>9 DEF WindowInv, RowsShown
<1>11. \A t \in DOMAIN tabs : ~ Listed(bar, t) => Creates(calls, t)
  BY <1>1, <1>3 DEF WindowInv, RowsShown, Positions
<1>12. \A d, e \in calls : d.op = e.op => d = e
  BY DEF WindowInv, CallsTyped
<1>13. LateRows(tabs, bar)
  <2> SUFFICES ASSUME NEW y \in DOMAIN tabs, ~ Listed(bar, y)
               PROVE  /\ \A k \in 1 .. Len(bar) : bar[k] < y
                      /\ Cardinality(Older(tabs, y)) <= tabs[y]
                      /\ \A z \in DOMAIN tabs : ~ Listed(bar, z) /\ y < z => tabs[y] < tabs[z]
    BY DEF LateRows
  <2>1. PICK d \in calls : d.op = "create" /\ d.id = y /\ y # 0
    BY <1>11 DEF Creates
  <2>2. Cardinality(Older(tabs, y)) <= tabs[y]
    BY <2>1 DEF WindowInv, RowsKept
  <2>3. \A z \in DOMAIN tabs : ~ Listed(bar, z) => z = y
    BY <1>11, <1>12, <2>1 DEF Creates
  <2>4. ~ (y < y)
    BY <1>7, <2>1
  <2> QED BY <1>7, <2>1, <2>2, <2>3, <2>4
<1>14. RowsKept'
  BY <1>1, <1>5, <1>13 DEF WindowInv, RowsKept
<1>15. PICK q : q = Placed(tabs, bar)
  OBVIOUS
<1>16. /\ DOMAIN q = DOMAIN tabs
       /\ \A k \in 1 .. Len(bar) : bar[k] \in DOMAIN tabs => q[bar[k]] = k - 1
       /\ \A t \in DOMAIN tabs : ~ Listed(bar, t) => q[t] = tabs[t]
  BY <1>3, <1>4, <1>15, PlacedFacts
<1>17. ASSUME NEW d \in calls, d.op = "create", d.id # 0, NEW k \in 1 .. Len(bar),
              bar[k] \in DOMAIN tabs
       PROVE  Before(q, bar[k], d.id)
  <2>1. PICK y : y = d.id
    OBVIOUS
  <2>2. /\ ~ Listed(bar, y) /\ \A j \in 1 .. Len(bar) : bar[j] < y
        /\ y \in Int /\ y < nextTab /\ y # 0 /\ y \in Nat
    BY <1>7, <1>17, <2>1 DEF WindowInv, CallsTyped
  <2>3. Creates(calls, y) /\ y \in Ids
    <3>1. nextTab <= MaxIds + 1 /\ MaxIds \in Nat
      BY AppDataAssumption DEF Counted
    <3> QED BY <1>3, <1>17, <2>1, <2>2, <3>1 DEF Creates, Ids
  <2>4. ~ Deletes(calls, y)
    BY <2>2 DEF WindowInv, CallsTyped, Deletes
  <2>5. y \in DOMAIN tabs
    BY <1>1, <2>3, <2>4 DEF WindowInv, RowsShown
  <2>6. q[y] = tabs[y] /\ q[bar[k]] = k - 1 /\ bar[k] < y
    BY <1>16, <1>17, <2>2, <2>5
  <2>7. Cardinality(Older(tabs, y)) <= tabs[y] /\ tabs[y] \in Nat
    BY <1>3, <1>17, <2>1, <2>5 DEF WindowInv, RowsKept, Positions
  <2>8. Len(bar) - 1 <= Cardinality(Older(tabs, y))
    <3> DEFINE K == {j \in 1 .. Len(bar) : ~ Deletes(calls, bar[j])}
               f == [j \in K |-> bar[j]]
               O == Older(tabs, y)
    <3>1. f \in Injection(K, O)
      <4>1. \A j \in K : bar[j] \in O
        <5> SUFFICES ASSUME NEW j \in K PROVE bar[j] \in DOMAIN tabs /\ bar[j] < y
          BY DEF Older
        <5>1. bar[j] \in Ids /\ Listed(bar, bar[j])
          BY <1>4 DEF Listed
        <5> QED BY <1>1, <2>2, <5>1 DEF WindowInv, RowsShown
      <4>2. f \in [K -> O]
        <5> HIDE DEF O
        <5> QED BY <4>1
      <4>3. \A i, j \in K : f[i] = f[j] => i = j
        BY <1>4 DEF Distinct
      <4> QED BY <4>2, <4>3 DEF Injection, IsInjective
    <3>2. /\ IsFiniteSet(1 .. Len(bar)) /\ Cardinality(1 .. Len(bar)) = Len(bar)
          /\ Len(bar) \in Nat
      <4>1. Len(bar) \in Nat /\ 1 \in Int /\ Len(bar) \in Int
        BY <1>4
      <4>2. /\ IsFiniteSet(1 .. Len(bar))
            /\ Cardinality(1 .. Len(bar)) = IF 1 > Len(bar) THEN 0 ELSE Len(bar) - 1 + 1
        BY <4>1, FS_Interval
      <4> QED BY <4>1, <4>2
    <3>3. Len(bar) - 1 <= Cardinality(K) /\ IsFiniteSet(K) /\ Cardinality(K) \in Nat
      <4>1. K = 1 .. Len(bar) \/ \E i \in 1 .. Len(bar) : K = (1 .. Len(bar)) \ {i}
        <5>1. CASE \A j \in 1 .. Len(bar) : ~ Deletes(calls, bar[j])
          BY <5>1
        <5>2. ASSUME NEW i \in 1 .. Len(bar), Deletes(calls, bar[i])
              PROVE  K = (1 .. Len(bar)) \ {i}
          <6>1. PICK e \in calls : e.op = "delete" /\ e.id = bar[i]
            BY <5>2 DEF Deletes
          <6>2. \A j \in 1 .. Len(bar) : Deletes(calls, bar[j]) => bar[j] = bar[i]
            BY <1>12, <6>1 DEF Deletes
          <6>3. \A j \in 1 .. Len(bar) : Deletes(calls, bar[j]) <=> j = i
            BY <1>4, <5>2, <6>2 DEF Distinct
          <6> QED BY <6>3
        <5> QED BY <5>1, <5>2
      <4> HIDE DEF K
      <4>2. CASE K = 1 .. Len(bar)
        BY <3>2, <4>2
      <4>3. ASSUME NEW i \in 1 .. Len(bar), K = (1 .. Len(bar)) \ {i}
            PROVE  /\ Len(bar) - 1 <= Cardinality(K) /\ IsFiniteSet(K)
                   /\ Cardinality(K) \in Nat
        <5>1. /\ IsFiniteSet((1 .. Len(bar)) \ {i})
              /\ Cardinality((1 .. Len(bar)) \ {i}) = Cardinality(1 .. Len(bar)) - 1
          BY <3>2, FS_RemoveElement
        <5>2. IsFiniteSet(K) /\ Cardinality(K) = Len(bar) - 1
          BY <3>2, <4>3, <5>1
        <5>3. Cardinality(K) \in Nat
          BY <5>2, FS_CardinalityType
        <5> QED BY <3>2, <5>2, <5>3
      <4> QED BY <4>1, <4>2, <4>3
    <3> HIDE DEF K, f, O
    <3>4. IsFiniteSet(O) /\ Cardinality(O) \in Nat
      BY <1>3, RowsAreFinite DEF O
    <3>5. Cardinality(K) <= Cardinality(O)
      BY <3>1, <3>3, <3>4, FS_Injection
    <3> QED BY <3>2, <3>3, <3>4, <3>5 DEF O
  <2>9. Len(bar) \in Nat /\ k <= Len(bar) /\ Cardinality(Older(tabs, y)) \in Nat
    BY <1>3, <1>4, RowsAreFinite
  <2> QED BY <2>1, <2>6, <2>7, <2>8, <2>9 DEF Before
<1>18. BarIn(q)'
  <2>1. \A j, k \in 1 .. Len(bar) :
           j < k /\ bar[j] \in DOMAIN q /\ bar[k] \in DOMAIN q => Before(q, bar[j], bar[k])
    BY <1>16 DEF Before
  <2> QED BY <1>1, <1>5, <1>16, <1>17, <2>1 DEF BarIn
<1>19. OrderKept'
  <2>1. ~ Idle("reorder")'
    BY <1>2 DEF Idle
  <2>2. \A d \in calls' : d.op = "reorder" => d = c
    BY <1>5
  <2>3. Placed(tabs, bar)' = q
    BY <1>1, <1>15 DEF Placed
  <2> QED BY <1>1, <1>5, <1>15, <1>18, <2>1, <2>2, <2>3 DEF OrderKept
<1> QED BY <1>6, <1>8, <1>10, <1>14, <1>19 DEF WindowInv

\* A tab that has a row and is not shown yet.
LEMMA CreatedTab ==
    ASSUME DataInv, Counted, WindowInv, loaded,
           NEW d \in calls, d.op = "create", d.id # 0
    PROVE  /\ d.id \in Ids /\ d.id < nextTab /\ d.id \in DOMAIN tabs
           /\ ~ Listed(bar, d.id) /\ ~ Deletes(calls, d.id)
           /\ \A k \in 1 .. Len(bar) : bar[k] < d.id
           /\ Cardinality(Older(tabs, d.id)) <= tabs[d.id]
PROOF
<1>1. /\ d.id \in Nat /\ d.id < nextTab
      /\ \A k \in 1 .. Len(bar) : bar[k] < d.id
  BY DEF WindowInv, CallsTyped
<1>2. ~ Listed(bar, d.id)
  <2>1. ~ (d.id < d.id)
    BY <1>1
  <2> QED BY <1>1, <2>1 DEF Listed
<1>3. d.id \in Ids
  <2>1. nextTab <= MaxIds + 1 /\ MaxIds \in Nat /\ nextTab \in Int
    BY AppDataAssumption DEF Counted
  <2> QED BY <1>1, <2>1 DEF Ids
<1>4. ~ Deletes(calls, d.id)
  BY <1>2 DEF WindowInv, CallsTyped, Deletes
<1>5. Creates(calls, d.id)
  BY DEF Creates
<1>6. d.id \in DOMAIN tabs
  BY <1>3, <1>4, <1>5 DEF WindowInv, RowsShown
<1> QED BY <1>1, <1>2, <1>3, <1>4, <1>6 DEF WindowInv, RowsKept

\* The call about a tab is the only one of its kind.
LEMMA OneCallOfAKind ==
    ASSUME WindowInv, NEW c \in calls
    PROVE  /\ \A d \in calls \ {c} : d.op # c.op
           /\ c.op \in {"create", "delete", "reorder"}
           /\ c.op = "create" => c = [op |-> "create", id |-> c.id]
           /\ c.op = "delete" =>
                 /\ c = [op |-> "delete", id |-> c.id, committed |-> c.committed]
                 /\ Listed(bar, c.id) /\ c.id \in Ids /\ c.committed \in BOOLEAN
           /\ c.op = "reorder" =>
                 /\ c.ids \in Seq(Ids) /\ Distinct(c.ids)
                 /\ \A k \in 1 .. Len(c.ids) : c.ids[k] < nextTab
PROOF
<1>1. \A d \in calls \ {c} : d.op # c.op
  BY DEF WindowInv, CallsTyped
<1>2. \/ /\ c \in [op : {"create"}, id : Nat]
      \/ /\ c \in [op : {"delete"}, id : Ids, committed : BOOLEAN]
         /\ Listed(bar, c.id)
      \/ /\ c \in [op : {"reorder"}, ids : Seq(Ids)] /\ Distinct(c.ids)
         /\ \A k \in 1 .. Len(c.ids) : c.ids[k] < nextTab
  BY DEF WindowInv, CallsTyped
<1> QED BY <1>1, <1>2

\* The row of a new tab is written.  An order that is on its way does not know
\* it, and from then on the bar's order is not claimed.
LEMMA CreateKeepsWindow ==
    ASSUME DataInv, Counted, WindowInv, CreateCommits
    PROVE  WindowInv'
PROOF
<1>1. /\ Running /\ Running'
      /\ UNCHANGED <<bar, loaded, dragging, owned>>
      /\ overtaken' = (overtaken \/ ~ Idle("reorder"))
  BY DEF CreateCommits, tabFrame, Running
<1>2. PICK c \in calls :
         /\ c.op = "create" /\ c.id = 0 /\ InsertTab
         /\ calls' = (calls \ {c}) \union {[c EXCEPT !.id = nextTab]}
  BY DEF CreateCommits
<1>3. PICK n : n = [c EXCEPT !.id = nextTab]
  OBVIOUS
<1>4. /\ loaded /\ Bars /\ CallsTyped
      /\ \A d \in calls \ {c} : d.op # "create"
      /\ n = [op |-> "create", id |-> nextTab]
  <2>1. c = [op |-> "create", id |-> c.id] /\ \A d \in calls \ {c} : d.op # "create"
    BY <1>2, OneCallOfAKind
  <2> QED BY <1>2, <1>3, <2>1 DEF WindowInv, Bars
<1>5. \A d \in calls' : (d \in calls /\ d.op # "create") \/ d = n
  BY <1>2, <1>3, <1>4
<1>6. PICK p : p = tabs
  OBVIOUS
<1>7. PICK q : q = tabs'
  OBVIOUS
<1>8. PICK i : i = nextTab
  OBVIOUS
<1>9. /\ i \in Ids /\ i \notin DOMAIN p /\ nextTab' = i + 1
      /\ DOMAIN q = DOMAIN p \union {i}
      /\ Positions(q) /\ Roomy(q)
      /\ \A t \in DOMAIN p : q[t] = p[t] /\ p[t] < q[i]
      /\ Cardinality(Older(q, i)) <= q[i]
      /\ \A t \in DOMAIN p : Older(q, t) = Older(p, t)
  BY <1>1, <1>2, <1>6, <1>7, <1>8, InsertedTab
<1>10. /\ owned /\ i \in Int /\ i >= 1 /\ overtaken \in BOOLEAN
       /\ \A t \in DOMAIN p : t < i /\ t \in Int /\ p[t] \in Nat
  <2>1. /\ owned /\ nextTab \in Int /\ nextTab >= 1 /\ overtaken \in BOOLEAN
        /\ \A t \in DOMAIN tabs : t < nextTab
        /\ Positions(tabs)
    BY <1>1, WindowFacts
  <2>2. \A t \in DOMAIN p : t \in Int /\ p[t] \in Nat
    BY <1>6, <2>1, RowsAreFinite DEF Positions
  <2> QED BY <1>6, <1>8, <2>1, <2>2
<1>11. /\ bar \in Seq(Ids) /\ Distinct(bar)
       /\ \A k \in 1 .. Len(bar) : bar[k] \in Ids /\ bar[k] < i /\ bar[k] \in Int
       /\ ~ Listed(bar, i)
  <2>1. bar \in Seq(Ids) /\ Distinct(bar) /\ \A k \in 1 .. Len(bar) : bar[k] < i
    BY <1>4, <1>8 DEF Bars
  <2>2. \A k \in 1 .. Len(bar) : bar[k] \in Ids
    BY <2>1
  <2>3. \A k \in 1 .. Len(bar) : bar[k] \in Int
    <3>1. Ids \in SUBSET Int
      BY DEF Ids
    <3> QED BY <2>2, <3>1
  <2>4. ~ (i < i)
    BY <1>10
  <2>5. ~ Listed(bar, i)
    BY <2>1, <2>4 DEF Listed
  <2> QED BY <2>1, <2>2, <2>3, <2>5
<1>12. Bars'
  <2>1. \A k \in 1 .. Len(bar) : bar[k] < i + 1
    BY <1>10, <1>11
  <2>2. overtaken' \in BOOLEAN
    BY <1>1, <1>10
  <2> QED BY <1>1, <1>4, <1>9, <2>1, <2>2 DEF Bars
<1>13. \A d \in calls : d.op = "reorder" =>
          /\ d \in [op : {"reorder"}, ids : Seq(Ids)] /\ Distinct(d.ids)
          /\ \A k \in 1 .. Len(d.ids) : d.ids[k] < i /\ d.ids[k] \in Int
          /\ ~ Listed(d.ids, i)
  <2> SUFFICES ASSUME NEW d \in calls, d.op = "reorder"
               PROVE  /\ d \in [op : {"reorder"}, ids : Seq(Ids)] /\ Distinct(d.ids)
                      /\ \A k \in 1 .. Len(d.ids) : d.ids[k] < i /\ d.ids[k] \in Int
                      /\ ~ Listed(d.ids, i)
    OBVIOUS
  <2>1. /\ d \in [op : {"reorder"}, ids : Seq(Ids)] /\ Distinct(d.ids)
        /\ \A k \in 1 .. Len(d.ids) : d.ids[k] < i
    BY <1>4, <1>8 DEF CallsTyped
  <2>2. \A k \in 1 .. Len(d.ids) : d.ids[k] \in Ids
    BY <2>1
  <2>3. Ids \in SUBSET Int
    BY DEF Ids
  <2>4. ~ (i < i)
    BY <1>10
  <2> QED BY <2>1, <2>2, <2>3, <2>4 DEF Listed
<1>14. CallsTyped'
  <2>1. n \in [op : {"create"}, id : Nat] /\ n.id = i /\ i < i + 1 /\ n.op = "create"
    BY <1>4, <1>8, <1>10
  <2>2. \A d \in calls' :
          \/ /\ d \in [op : {"create"}, id : Nat] /\ d.id < i + 1
             /\ d.id # 0 => \A k \in 1 .. Len(bar) : bar[k] < d.id
          \/ /\ d \in [op : {"delete"}, id : Ids, committed : BOOLEAN]
             /\ Listed(bar, d.id)
          \/ /\ d \in [op : {"reorder"}, ids : Seq(Ids)] /\ Distinct(d.ids)
             /\ \A k \in 1 .. Len(d.ids) : d.ids[k] < i + 1
    <3> SUFFICES ASSUME NEW d \in calls', d # n
                 PROVE  \/ /\ d \in [op : {"delete"}, id : Ids, committed : BOOLEAN]
                           /\ Listed(bar, d.id)
                        \/ /\ d \in [op : {"reorder"}, ids : Seq(Ids)] /\ Distinct(d.ids)
                           /\ \A k \in 1 .. Len(d.ids) : d.ids[k] < i + 1
      BY <1>11, <2>1
    <3>1. d \in calls /\ d.op # "create"
      BY <1>5
    <3>2. CASE d.op = "reorder"
      BY <1>10, <1>13, <3>1, <3>2
    <3>3. CASE d.op # "reorder"
      BY <1>4, <3>1, <3>3 DEF CallsTyped
    <3> QED BY <3>2, <3>3
  <2>3. \A d, e \in calls' : d.op = e.op => d = e
    BY <1>4, <1>5, <2>1 DEF CallsTyped
  <2>4. \A d, e \in calls' :
           d.op = "create" /\ d.id # 0 /\ e.op = "reorder" => ~ Listed(e.ids, d.id)
    BY <1>5, <1>13, <2>1
  <2> QED BY <1>1, <1>9, <2>2, <2>3, <2>4 DEF CallsTyped
<1>15. /\ \A t : Creates(calls', t) <=> t = i
       /\ \A t : ~ Creates(calls, t)
       /\ \A t : Deletes(calls', t) <=> Deletes(calls, t)
  <2>1. \A t : Creates(calls', t) <=> t = i
    <3>1. n \in calls' /\ n.op = "create" /\ n.id = i /\ i # 0
      BY <1>2, <1>3, <1>4, <1>8, <1>10
    <3> QED BY <1>5, <3>1 DEF Creates
  <2>2. \A t : ~ Creates(calls, t)
    BY <1>2, <1>4 DEF Creates
  <2>3. \A t : Deletes(calls', t) <=> Deletes(calls, t)
    BY <1>2, <1>4, <1>5 DEF Deletes
  <2> QED BY <2>1, <2>2, <2>3
<1>16. RowsShown'
  <2>1. ~ Deletes(calls, i)
    BY <1>4, <1>11 DEF Deletes, CallsTyped
  <2>2. \A t \in Ids : t \in DOMAIN p <=> Listed(bar, t) /\ ~ Deletes(calls, t)
    BY <1>4, <1>6, <1>15 DEF WindowInv, RowsShown
  <2>3. \A t \in Ids :
           t \in DOMAIN q <=> (Listed(bar, t) \/ t = i) /\ ~ Deletes(calls, t)
    BY <1>9, <2>1, <2>2
  <2> QED BY <1>1, <1>7, <1>15, <2>3 DEF RowsShown
<1>17. RowsKept'
  <2>1. \A t \in DOMAIN q : t < i + 1
    BY <1>9, <1>10
  <2>2. ASSUME NEW d \in calls, d.op = "reorder"
        PROVE  LateRows(q, d.ids)
    <3>1. LateRows(p, d.ids)
      BY <1>6, <2>2 DEF WindowInv, RowsKept
    <3> SUFFICES ASSUME NEW y \in DOMAIN q, ~ Listed(d.ids, y)
                 PROVE  /\ \A k \in 1 .. Len(d.ids) : d.ids[k] < y
                        /\ Cardinality(Older(q, y)) <= q[y]
                        /\ \A z \in DOMAIN q : ~ Listed(d.ids, z) /\ y < z => q[y] < q[z]
      BY DEF LateRows
    <3>2. CASE y \in DOMAIN p
      <4>1. /\ \A k \in 1 .. Len(d.ids) : d.ids[k] < y
            /\ Cardinality(Older(p, y)) <= p[y]
            /\ \A z \in DOMAIN p : ~ Listed(d.ids, z) /\ y < z => p[y] < p[z]
        BY <3>1, <3>2 DEF LateRows
      <4>2. Older(q, y) = Older(p, y) /\ q[y] = p[y] /\ p[y] < q[i]
        BY <1>9, <3>2
      <4>3. \A z \in DOMAIN q : ~ Listed(d.ids, z) /\ y < z => q[y] < q[z]
        BY <1>9, <4>1, <4>2
      <4> QED BY <4>1, <4>2, <4>3
    <3>3. CASE y = i
      <4>1. \A z \in DOMAIN q : ~ (i < z)
        BY <1>9, <1>10
      <4> QED BY <1>9, <1>13, <2>2, <3>3, <4>1
    <3> QED BY <1>9, <3>2, <3>3
  <2>3. \A d \in calls' : d.op = "create" => d.id = i
    BY <1>4, <1>5, <1>8
  <2>4. \A d \in calls' : d.op = "reorder" => d \in calls
    BY <1>4, <1>5
  <2> QED BY <1>7, <1>9, <2>1, <2>2, <2>3, <2>4 DEF RowsKept
<1>18. OrderKept'
  <2> SUFFICES ASSUME ~ dragging, ~ overtaken'
               PROVE  /\ BarIn(q)'
                      /\ \A d \in calls' : d.op # "reorder"
    BY <1>1, <1>7 DEF OrderKept
  <2>1. ~ overtaken /\ Idle("reorder")
    BY <1>1, <1>10
  <2>2. \A d \in calls' : d.op # "reorder"
    BY <1>4, <1>5, <2>1 DEF Idle
  <2>3. BarIn(p)
    BY <1>1, <1>4, <1>6, <2>1 DEF WindowInv, OrderKept
  <2>4. \A k \in 1 .. Len(bar) : bar[k] \in DOMAIN q => bar[k] \in DOMAIN p /\ bar[k] # i
    BY <1>9, <1>10, <1>11
  <2>5. \A j, k \in 1 .. Len(bar) :
           j < k /\ bar[j] \in DOMAIN q /\ bar[k] \in DOMAIN q => Before(q, bar[j], bar[k])
    BY <1>9, <2>3, <2>4 DEF BarIn, Before
  <2>6. \A k \in 1 .. Len(bar) : bar[k] \in DOMAIN q => Before(q, bar[k], i)
    BY <1>9, <2>4 DEF Before
  <2>7. \A d \in calls' : d.op = "create" => d.id = i
    BY <1>4, <1>5, <1>8
  <2> QED BY <1>1, <2>2, <2>5, <2>6, <2>7 DEF BarIn
<1> QED BY <1>12, <1>14, <1>16, <1>17, <1>18 DEF WindowInv

\* What holds of the bar in some positions holds in those of fewer rows.
LEMMA BarInFewerRows ==
    ASSUME NEW p, NEW q, DOMAIN q \subseteq DOMAIN p, \A t \in DOMAIN q : q[t] = p[t],
           BarIn(p), NEW C \in SUBSET calls,
           \A d \in C : d.op = "create" /\ d.id # 0 => d.id \in DOMAIN q
    PROVE  /\ \A j, k \in 1 .. Len(bar) :
                j < k /\ bar[j] \in DOMAIN q /\ bar[k] \in DOMAIN q =>
                    Before(q, bar[j], bar[k])
           /\ \A d \in C, k \in 1 .. Len(bar) :
                d.op = "create" /\ d.id # 0 /\ bar[k] \in DOMAIN q =>
                    Before(q, bar[k], d.id)
BY DEF BarIn, Before

\* A row is deleted.
LEMMA DeleteKeepsWindow ==
    ASSUME DataInv, Counted, WindowInv, DeleteCommits
    PROVE  WindowInv'
PROOF
<1>1. /\ Running /\ Running'
      /\ UNCHANGED <<nextTab, bar, loaded, dragging, overtaken, owned>>
  BY DEF DeleteCommits, tabFrame, Running
<1>2. PICK c \in calls :
         /\ c.op = "delete" /\ ~ c.committed
         /\ Write([tables EXCEPT !.tabs = Without(@, c.id)])
         /\ calls' = (calls \ {c}) \union {[c EXCEPT !.committed = TRUE]}
  BY DEF DeleteCommits
<1>3. PICK n : n = [c EXCEPT !.committed = TRUE]
  OBVIOUS
<1>4. PICK i : i = c.id
  OBVIOUS
<1>5. /\ loaded /\ Bars /\ CallsTyped
      /\ \A d \in calls \ {c} : d.op # "delete"
      /\ n = [op |-> "delete", id |-> i, committed |-> TRUE]
      /\ Listed(bar, i) /\ i \in Ids
  <2>1. /\ c = [op |-> "delete", id |-> c.id, committed |-> c.committed]
        /\ \A d \in calls \ {c} : d.op # "delete"
        /\ Listed(bar, c.id) /\ c.id \in Ids
    BY <1>2, OneCallOfAKind
  <2> QED BY <1>2, <1>3, <1>4, <2>1 DEF WindowInv, Bars
<1>6. \A d \in calls' : (d \in calls /\ d.op # "delete") \/ d = n
  BY <1>2, <1>3, <1>5
<1>7. PICK p : p = tabs
  OBVIOUS
<1>8. PICK q : q = tabs'
  OBVIOUS
<1>9. /\ owned /\ Positions(p) /\ Roomy(p) /\ \A t \in DOMAIN p : t < nextTab
  BY <1>1, <1>7, WindowFacts
<1>10. q = Without(p, i)
  <2>1. data'.main = [tables EXCEPT !.tabs = Without(@, c.id)]
    BY <1>1, <1>2, WritingTables
  <2>2. Stored(tables)
    BY <1>1, StoredWhileRunning
  <2>3. data.main = [conns |-> data.main.conns, schemas |-> data.main.schemas,
                     tabs |-> data.main.tabs]
    BY <2>2 DEF Stored, TablesOK
  <2> QED BY <1>4, <1>7, <1>8, <2>1, <2>3
<1>11. /\ Positions(q) /\ Roomy(q) /\ DOMAIN q = DOMAIN p \ {i}
       /\ \A t \in DOMAIN q : q[t] = p[t]
       /\ \A t : Cardinality(Older(q, t)) <= Cardinality(Older(p, t))
  BY <1>9, <1>10, DeleteKeepsRoom
<1>12. \A t : /\ Cardinality(Older(p, t)) \in Nat /\ Cardinality(Older(q, t)) \in Nat
              /\ t \in DOMAIN p => p[t] \in Nat
  BY <1>9, <1>11, RowsAreFinite DEF Positions
<1>13. Bars'
  BY <1>1, <1>5 DEF Bars
<1>14. CallsTyped'
  <2>1. n \in [op : {"delete"}, id : Ids, committed : BOOLEAN] /\ n.id = i
    BY <1>5
  <2>2. \A d \in calls' :
          \/ /\ d \in [op : {"create"}, id : Nat] /\ d.id < nextTab
             /\ d.id # 0 => \A k \in 1 .. Len(bar) : bar[k] < d.id
          \/ /\ d \in [op : {"delete"}, id : Ids, committed : BOOLEAN]
             /\ Listed(bar, d.id)
          \/ /\ d \in [op : {"reorder"}, ids : Seq(Ids)] /\ Distinct(d.ids)
             /\ \A k \in 1 .. Len(d.ids) : d.ids[k] < nextTab
    BY <1>5, <1>6, <2>1 DEF CallsTyped
  <2>3. \A d, e \in calls' : d.op = e.op => d = e
    BY <1>5, <1>6, <2>1 DEF CallsTyped
  <2>4. \A d, e \in calls' :
           d.op = "create" /\ d.id # 0 /\ e.op = "reorder" => ~ Listed(e.ids, d.id)
    <3>1. n.op = "delete"
      BY <1>5
    <3> QED BY <1>5, <1>6, <3>1 DEF CallsTyped
  <2> QED BY <1>1, <2>2, <2>3, <2>4 DEF CallsTyped
<1>15. /\ \A t : Creates(calls', t) <=> Creates(calls, t)
       /\ \A t : Deletes(calls', t) <=> t = i
       /\ \A t : ~ Deletes(calls, t)
  <2>1. n.op = "delete" /\ n.committed = TRUE /\ n.id = i /\ n \in calls'
    BY <1>2, <1>3, <1>5
  <2>2. \A d \in calls : d.op = "create" => d \in calls'
    BY <1>2
  <2>3. \A t : Creates(calls', t) <=> Creates(calls, t)
    BY <1>6, <2>1, <2>2 DEF Creates
  <2>4. \A t : Deletes(calls', t) <=> t = i
    BY <1>6, <2>1 DEF Deletes
  <2>5. \A t : ~ Deletes(calls, t)
    BY <1>2, <1>5 DEF Deletes
  <2> QED BY <2>3, <2>4, <2>5
<1>16. RowsShown'
  <2>1. \A t \in Ids : t \in DOMAIN p <=> Listed(bar, t) \/ Creates(calls, t)
    BY <1>5, <1>7, <1>15 DEF WindowInv, RowsShown
  <2>2. \A t \in Ids :
           t \in DOMAIN q <=> (Listed(bar, t) \/ Creates(calls, t)) /\ t # i
    BY <1>11, <2>1
  <2> QED BY <1>1, <1>8, <1>15, <2>2 DEF RowsShown
<1>17. \A d \in calls' : d.op = "create" /\ d.id # 0 =>
          d \in calls /\ d.id \in DOMAIN q /\ Cardinality(Older(p, d.id)) <= p[d.id]
  <2> SUFFICES ASSUME NEW d \in calls, d.op = "create", d.id # 0
               PROVE  d.id \in DOMAIN q /\ Cardinality(Older(p, d.id)) <= p[d.id]
    <3>1. n.op = "delete"
      BY <1>5
    <3> QED BY <1>6, <3>1
  <2>1. d.id \in DOMAIN p /\ ~ Listed(bar, d.id) /\ Cardinality(Older(p, d.id)) <= p[d.id]
    BY <1>5, <1>7, CreatedTab
  <2>2. d.id # i
    BY <1>5, <2>1
  <2> QED BY <1>11, <2>1, <2>2
<1>18. \A d \in calls' : d.op = "reorder" => d \in calls
  BY <1>5, <1>6
<1>19. RowsKept'
  <2>1. \A d \in calls' : d.op = "create" /\ d.id # 0 =>
            Cardinality(Older(q, d.id)) <= q[d.id]
    <3> SUFFICES ASSUME NEW d \in calls', d.op = "create", d.id # 0
                 PROVE  Cardinality(Older(q, d.id)) <= q[d.id]
      OBVIOUS
    <3>1. PICK t : t = d.id
      OBVIOUS
    <3>2. t \in DOMAIN q /\ t \in DOMAIN p /\ Cardinality(Older(p, t)) <= p[t]
      BY <1>11, <1>17, <3>1
    <3> QED BY <1>11, <1>12, <3>1, <3>2
  <2>2. ASSUME NEW d \in calls, d.op = "reorder" PROVE LateRows(q, d.ids)
    <3>1. LateRows(p, d.ids)
      BY <1>7, <2>2 DEF WindowInv, RowsKept
    <3> SUFFICES ASSUME NEW y \in DOMAIN q, ~ Listed(d.ids, y)
                 PROVE  /\ \A k \in 1 .. Len(d.ids) : d.ids[k] < y
                        /\ Cardinality(Older(q, y)) <= q[y]
                        /\ \A z \in DOMAIN q : ~ Listed(d.ids, z) /\ y < z => q[y] < q[z]
      BY DEF LateRows
    <3>2. y \in DOMAIN p /\ q[y] = p[y]
      BY <1>11
    <3>3. /\ \A k \in 1 .. Len(d.ids) : d.ids[k] < y
          /\ Cardinality(Older(p, y)) <= p[y]
          /\ \A z \in DOMAIN p : ~ Listed(d.ids, z) /\ y < z => p[y] < p[z]
      BY <3>1, <3>2 DEF LateRows
    <3>4. \A z \in DOMAIN q : ~ Listed(d.ids, z) /\ y < z => q[y] < q[z]
      BY <1>11, <3>2, <3>3
    <3>5. Cardinality(Older(q, y)) <= q[y]
      BY <1>11, <1>12, <3>2, <3>3
    <3> QED BY <3>3, <3>4, <3>5
  <2>3. \A t \in DOMAIN q : t < nextTab
    BY <1>9, <1>11
  <2> QED BY <1>1, <1>8, <1>11, <1>18, <2>1, <2>2, <2>3 DEF RowsKept
<1>20. OrderKept'
  <2> DEFINE C == calls' \intersect calls
  <2>1. \A d \in C : d.op = "create" /\ d.id # 0 => d.id \in DOMAIN q
    BY <1>17
  <2>2. ASSUME NEW r, NEW s, BarIn(r), DOMAIN r = DOMAIN p, DOMAIN s = DOMAIN q,
               \A t \in DOMAIN s : s[t] = r[t]
        PROVE  BarIn(s)'
    <3>1. C \in SUBSET calls /\ DOMAIN s \subseteq DOMAIN r
      BY <1>11, <2>2
    <3> HIDE DEF C
    <3>2. /\ \A j, k \in 1 .. Len(bar) :
                j < k /\ bar[j] \in DOMAIN s /\ bar[k] \in DOMAIN s =>
                    Before(s, bar[j], bar[k])
          /\ \A d \in C, k \in 1 .. Len(bar) :
                d.op = "create" /\ d.id # 0 /\ bar[k] \in DOMAIN s =>
                    Before(s, bar[k], d.id)
      BY <2>1, <2>2, <3>1, BarInFewerRows
    <3>3. \A d \in calls' : d.op = "create" /\ d.id # 0 => d \in C
      BY <1>17 DEF C
    <3> QED BY <1>1, <3>2, <3>3 DEF BarIn
  <2> SUFFICES ASSUME ~ dragging, ~ overtaken
               PROVE  /\ Idle("reorder")' => BarIn(q)'
                      /\ \A d \in calls' : d.op = "reorder" => BarIn(Placed(q, d.ids))'
    BY <1>1, <1>8 DEF OrderKept
  <2>3. /\ Idle("reorder") => BarIn(p)
        /\ \A d \in calls : d.op = "reorder" => BarIn(Placed(p, d.ids))
    BY <1>5, <1>7 DEF WindowInv, OrderKept
  <2>4. Idle("reorder")' => Idle("reorder")
    <3>1. \A d \in calls : d.op = "reorder" => d \in calls'
      BY <1>2
    <3> QED BY <3>1 DEF Idle
  <2>5. Idle("reorder")' => BarIn(q)'
    BY <1>11, <2>2, <2>3, <2>4
  <2>6. ASSUME NEW d \in calls, BarIn(Placed(p, d.ids))
        PROVE  BarIn(Placed(q, d.ids))'
    <3>1. PICK r : r = Placed(p, d.ids)
      OBVIOUS
    <3>2. PICK s : s = Placed(q, d.ids)
      OBVIOUS
    <3>3. DOMAIN r = DOMAIN p /\ DOMAIN s = DOMAIN q
      BY <3>1, <3>2 DEF Placed
    <3>4. \A t \in DOMAIN s : s[t] = r[t]
      <4>1. ASSUME NEW t \in DOMAIN q PROVE s[t] = r[t]
        <5>1. t \in DOMAIN p /\ q[t] = p[t]
          BY <1>11
        <5> QED BY <3>1, <3>2, <5>1 DEF Placed
      <4> QED BY <3>3, <4>1
    <3>5. BarIn(s)'
      BY <2>2, <2>6, <3>1, <3>3, <3>4
    <3> QED BY <3>2, <3>5
  <2> QED BY <1>18, <2>3, <2>5, <2>6
<1> QED BY <1>13, <1>14, <1>16, <1>19, <1>20 DEF WindowInv

\* A new order is written.
LEMMA ReorderKeepsWindow ==
    ASSUME DataInv, Counted, WindowInv, ReorderCommits
    PROVE  WindowInv'
PROOF
<1>1. /\ Running /\ Running'
      /\ UNCHANGED <<nextTab, bar, loaded, dragging, overtaken, owned>>
  BY DEF ReorderCommits, tabFrame, Running
<1>2. PICK c \in calls :
         /\ c.op = "reorder"
         /\ Write([tables EXCEPT !.tabs = PositionsOf(c.ids)])
         /\ calls' = calls \ {c}
  BY DEF ReorderCommits
<1>3. /\ loaded /\ Bars /\ CallsTyped
      /\ \A d \in calls' : d \in calls /\ d.op # "reorder"
      /\ \A d \in calls : d.op # "reorder" => d \in calls'
      /\ c.ids \in Seq(Ids) /\ Distinct(c.ids)
  <2>1. /\ \A d \in calls \ {c} : d.op # "reorder"
        /\ c.ids \in Seq(Ids) /\ Distinct(c.ids)
    BY <1>2, OneCallOfAKind
  <2> QED BY <1>2, <2>1 DEF WindowInv, Bars
<1>4. PICK p : p = tabs
  OBVIOUS
<1>5. PICK q : q = tabs'
  OBVIOUS
<1>6. /\ owned /\ Positions(p) /\ Roomy(p) /\ \A t \in DOMAIN p : t < nextTab
  BY <1>1, <1>4, WindowFacts
<1>7. q = Placed(p, c.ids)
  <2>1. data'.main = [tables EXCEPT !.tabs = PositionsOf(c.ids)]
    BY <1>1, <1>2, WritingTables
  <2>2. Stored(tables)
    BY <1>1, StoredWhileRunning
  <2>3. data.main = [conns |-> data.main.conns, schemas |-> data.main.schemas,
                     tabs |-> data.main.tabs]
    BY <2>2 DEF Stored, TablesOK
  <2>4. PositionsOf(c.ids) = Placed(p, c.ids)
    BY <1>4 DEF PositionsOf, Placed
  <2> QED BY <1>5, <2>1, <2>3, <2>4
<1>8. /\ DOMAIN q = DOMAIN p
      /\ \A t \in DOMAIN p : ~ Listed(c.ids, t) => q[t] = p[t]
      /\ \A t : Older(q, t) = Older(p, t)
  BY <1>3, <1>6, <1>7, PlacedFacts
<1>9. Roomy(q)
  <2>1. LateRows(p, c.ids)
    BY <1>2, <1>4 DEF WindowInv, RowsKept
  <2> QED BY <1>3, <1>6, <1>7, <2>1, OrderKeepsRoom
<1>10. Bars'
  BY <1>1, <1>3 DEF Bars
<1>11. CallsTyped'
  BY <1>1, <1>3 DEF CallsTyped
<1>12. RowsShown'
  <2>1. \A t : /\ Creates(calls', t) <=> Creates(calls, t)
               /\ Deletes(calls', t) <=> Deletes(calls, t)
    BY <1>3 DEF Creates, Deletes
  <2> QED BY <1>1, <1>3, <1>4, <1>5, <1>8, <2>1 DEF WindowInv, RowsShown
<1>13. RowsKept'
  <2>1. ASSUME NEW d \in calls', d.op = "create", d.id # 0
        PROVE  Cardinality(Older(q, d.id)) <= q[d.id]
    <3>1. d \in calls /\ ~ Listed(c.ids, d.id)
      BY <1>2, <1>3, <2>1 DEF CallsTyped
    <3>2. d.id \in DOMAIN p /\ Cardinality(Older(p, d.id)) <= p[d.id]
      BY <1>3, <1>4, <2>1, <3>1, CreatedTab
    <3> QED BY <1>8, <3>1, <3>2
  <2> QED BY <1>1, <1>3, <1>5, <1>6, <1>8, <1>9, <2>1 DEF RowsKept
<1>14. OrderKept'
  <2> SUFFICES ASSUME ~ dragging, ~ overtaken PROVE BarIn(q)'
    BY <1>1, <1>3, <1>5 DEF OrderKept
  <2>1. BarIn(q)
    BY <1>2, <1>3, <1>4, <1>7 DEF WindowInv, OrderKept
  <2> QED BY <1>1, <1>3, <2>1 DEF BarIn
<1> QED BY <1>10, <1>11, <1>12, <1>13, <1>14 DEF WindowInv

\* The answer to a create puts the tab at the end of the bar.
LEMMA CreatedIsShown ==
    ASSUME DataInv, Counted, WindowInv, CallAnswered,
           NEW c \in calls, c.op = "create", c.id # 0,
           bar' = Append(bar, c.id), calls' = calls \ {c}
    PROVE  WindowInv'
PROOF
<1>1. /\ Running /\ Running' /\ UNCHANGED <<data, nextTab, loaded, dragging, overtaken, owned>>
  BY DEF CallAnswered, tabFrame, Running
<1>2. /\ loaded /\ Bars /\ CallsTyped
      /\ \A d \in calls' : d \in calls /\ d.op # "create"
      /\ \A d \in calls : d.op # "create" => d \in calls'
  <2>1. \A d \in calls \ {c} : d.op # "create"
    BY OneCallOfAKind
  <2> QED BY <2>1 DEF WindowInv, Bars
<1>3. PICK i : i = c.id
  OBVIOUS
<1>4. /\ i \in Ids /\ i < nextTab /\ i \in DOMAIN tabs
      /\ ~ Listed(bar, i) /\ ~ Deletes(calls, i)
      /\ \A k \in 1 .. Len(bar) : bar[k] < i
  BY <1>2, <1>3, CreatedTab
<1>5. bar \in Seq(Ids) /\ Distinct(bar) /\ \A k \in 1 .. Len(bar) : bar[k] < nextTab
  BY <1>2 DEF Bars
<1>6. PICK n : n = Len(bar)
  OBVIOUS
<1>7. /\ n \in Nat /\ bar' \in Seq(Ids) /\ Len(bar') = n + 1
      /\ bar'[n + 1] = i /\ \A k \in 1 .. n : bar'[k] = bar[k]
  BY <1>3, <1>4, <1>5, <1>6
<1>8. \A k \in 1 .. n + 1 : k \in 1 .. n \/ k = n + 1
  BY <1>7
<1>9. \A t : Listed(bar', t) <=> Listed(bar, t) \/ t = i
  <2>1. ASSUME NEW t, Listed(bar', t) PROVE Listed(bar, t) \/ t = i
    BY <1>6, <1>7, <1>8, <2>1 DEF Listed
  <2>2. ASSUME NEW t, Listed(bar, t) PROVE Listed(bar', t)
    BY <1>6, <1>7, <2>2 DEF Listed
  <2>3. Listed(bar', i)
    <3>1. n + 1 \in 1 .. n + 1
      BY <1>7
    <3> QED BY <1>7, <3>1 DEF Listed
  <2> QED BY <2>1, <2>2, <2>3
<1>10. Distinct(bar')
  <2> SUFFICES ASSUME NEW j \in 1 .. n + 1, NEW k \in 1 .. n + 1, bar'[j] = bar'[k]
               PROVE  j = k
    BY <1>7 DEF Distinct
  <2>1. \A m \in 1 .. n : bar'[m] # i
    BY <1>4, <1>6, <1>7 DEF Listed
  <2> QED BY <1>5, <1>6, <1>7, <1>8, <2>1 DEF Distinct
<1>11. Bars'
  <2>1. \A k \in 1 .. Len(bar') : bar'[k] < nextTab
    BY <1>4, <1>5, <1>6, <1>7, <1>8
  <2> QED BY <1>1, <1>2, <1>7, <1>10, <2>1 DEF Bars
<1>12. CallsTyped'
  BY <1>1, <1>2, <1>9 DEF CallsTyped
<1>13. RowsShown'
  <2>1. \A t : /\ Creates(calls, t) <=> t = i
               /\ ~ Creates(calls', t)
               /\ Deletes(calls', t) <=> Deletes(calls, t)
    <3>1. i # 0
      BY <1>3
    <3>2. \A d \in calls : d.op = "create" => d = c
      BY OneCallOfAKind
    <3> QED BY <1>2, <1>3, <3>1, <3>2 DEF Creates, Deletes
  <2> QED BY <1>1, <1>2, <1>9, <2>1 DEF WindowInv, RowsShown
<1>14. RowsKept'
  BY <1>1, <1>2 DEF WindowInv, RowsKept
<1>15. OrderKept'
  <2>1. ASSUME NEW p, BarIn(p) PROVE BarIn(p)'
    <3>1. \A k \in 1 .. n : bar[k] \in DOMAIN p => Before(p, bar[k], i)
      BY <1>3, <1>6, <2>1 DEF BarIn
    <3>2. ASSUME NEW j \in 1 .. n + 1, NEW k \in 1 .. n + 1, j < k,
                 bar'[j] \in DOMAIN p, bar'[k] \in DOMAIN p
          PROVE  Before(p, bar'[j], bar'[k])
      <4>1. j \in 1 .. n /\ bar'[j] = bar[j]
        BY <1>7, <1>8, <3>2
      <4>2. CASE k \in 1 .. n
        BY <1>6, <1>7, <2>1, <3>2, <4>1, <4>2 DEF BarIn
      <4>3. CASE k = n + 1
        BY <1>7, <3>1, <3>2, <4>1, <4>3
      <4> QED BY <1>8, <4>2, <4>3
    <3> QED BY <1>2, <1>7, <3>2 DEF BarIn
  <2>2. Idle("reorder")' => Idle("reorder")
    BY <1>2 DEF Idle
  <2>3. (loaded /\ ~ dragging /\ ~ overtaken) =>
           /\ Idle("reorder") => BarIn(tabs)
           /\ \A d \in calls : d.op = "reorder" => BarIn(Placed(tabs, d.ids))
    BY DEF WindowInv, OrderKept
  <2>4. (loaded /\ ~ dragging /\ ~ overtaken) =>
           /\ Idle("reorder")' => BarIn(tabs)'
           /\ \A d \in calls' : d.op = "reorder" => BarIn(Placed(tabs, d.ids))'
    BY <1>1, <1>2, <2>1, <2>2, <2>3
  <2> QED BY <1>1, <2>4 DEF OrderKept
<1> QED BY <1>11, <1>12, <1>13, <1>14, <1>15 DEF WindowInv

\* The answer to a delete takes the tab out of the bar.
LEMMA DeletedIsGone ==
    ASSUME DataInv, Counted, WindowInv, CallAnswered,
           NEW c \in calls, c.op = "delete", c.committed,
           bar' = Picked(bar, {k \in DOMAIN bar : bar[k] # c.id}), calls' = calls \ {c}
    PROVE  WindowInv'
PROOF
<1>1. /\ Running /\ Running' /\ UNCHANGED <<data, nextTab, loaded, dragging, overtaken, owned>>
  BY DEF CallAnswered, tabFrame, Running
<1>2. /\ loaded /\ Bars /\ CallsTyped
      /\ \A d \in calls' : d \in calls /\ d.op # "delete"
      /\ \A d \in calls : d.op # "delete" => d \in calls'
  <2>1. \A d \in calls \ {c} : d.op # "delete"
    BY OneCallOfAKind
  <2> QED BY <2>1 DEF WindowInv, Bars
<1>3. PICK i : i = c.id
  OBVIOUS
<1>4. bar \in Seq(Ids) /\ Distinct(bar) /\ \A k \in 1 .. Len(bar) : bar[k] < nextTab
  BY <1>2 DEF Bars
<1> DEFINE K == {k \in DOMAIN bar : bar[k] # i}
           n == Cardinality(K)
           at == Ascending(K)
<1>5. /\ bar' \in Seq(Ids) /\ Len(bar') = n /\ n \in Nat
      /\ \A k \in 1 .. n : at[k] \in K /\ at[k] \in DOMAIN bar /\ bar'[k] = bar[at[k]]
      /\ \A x \in K : \E k \in 1 .. n : at[k] = x
      /\ \A j, k \in 1 .. n : /\ j < k => at[j] < at[k]
                              /\ at[j] = at[k] => j = k
  <2>1. K \in SUBSET (DOMAIN bar) /\ bar' = Picked(bar, K)
    BY <1>3
  <2> HIDE DEF K
  <2>2. /\ Picked(bar, K) \in Seq(Ids) /\ Len(Picked(bar, K)) = n /\ n \in Nat
        /\ at \in [1 .. n -> K]
        /\ \A k \in 1 .. n : at[k] \in DOMAIN bar /\ Picked(bar, K)[k] = bar[at[k]]
        /\ \A x \in K : \E k \in 1 .. n : at[k] = x
        /\ \A j, k \in 1 .. n : /\ j < k => at[j] < at[k]
                                /\ at[j] = at[k] => j = k
    BY <1>4, <2>1, PickedFacts
  <2>3. \A k \in 1 .. n : at[k] \in K
    <3> HIDE DEF n, at
    <3> QED BY <2>2
  <2> QED BY <2>1, <2>2, <2>3
<1>6. DOMAIN bar = 1 .. Len(bar) /\ \A x : x \in K <=> x \in 1 .. Len(bar) /\ bar[x] # i
  BY <1>4
<1> HIDE DEF K, n, at
<1>7. \A k \in 1 .. n : at[k] \in 1 .. Len(bar) /\ bar'[k] = bar[at[k]] /\ bar'[k] # i
  BY <1>5, <1>6
<1>8. \A t : Listed(bar', t) <=> Listed(bar, t) /\ t # i
  <2>1. ASSUME NEW t, Listed(bar', t) PROVE Listed(bar, t) /\ t # i
    BY <1>5, <1>7, <2>1 DEF Listed
  <2>2. ASSUME NEW t, Listed(bar, t), t # i PROVE Listed(bar', t)
    <3>1. PICK x \in 1 .. Len(bar) : bar[x] = t
      BY <2>2 DEF Listed
    <3>2. PICK k \in 1 .. n : at[k] = x
      BY <1>5, <1>6, <2>2, <3>1
    <3> QED BY <1>5, <3>1, <3>2 DEF Listed
  <2> QED BY <2>1, <2>2
<1>9. Distinct(bar')
  <2> SUFFICES ASSUME NEW j \in 1 .. n, NEW k \in 1 .. n, bar'[j] = bar'[k]
               PROVE  j = k
    BY <1>5 DEF Distinct
  <2>1. at[j] = at[k]
    BY <1>4, <1>7 DEF Distinct
  <2> QED BY <1>5, <2>1
<1>10. \A x : (\A k \in 1 .. Len(bar) : bar[k] < x) => (\A k \in 1 .. Len(bar') : bar'[k] < x)
  <2> SUFFICES ASSUME NEW x, \A k \in 1 .. Len(bar) : bar[k] < x, NEW k \in 1 .. n
               PROVE  bar'[k] < x
    BY <1>5
  <2>1. PICK a \in 1 .. Len(bar) : a = at[k]
    BY <1>7
  <2> QED BY <1>7, <2>1
<1>11. Bars'
  BY <1>1, <1>2, <1>4, <1>5, <1>9, <1>10 DEF Bars
<1>12. CallsTyped'
  <2>1. \A d \in calls' :
          \/ /\ d \in [op : {"create"}, id : Nat] /\ d.id < nextTab
             /\ d.id # 0 => \A k \in 1 .. Len(bar') : bar'[k] < d.id
          \/ /\ d \in [op : {"reorder"}, ids : Seq(Ids)] /\ Distinct(d.ids)
             /\ \A k \in 1 .. Len(d.ids) : d.ids[k] < nextTab
    BY <1>2, <1>10 DEF CallsTyped
  <2> QED BY <1>1, <1>2, <2>1 DEF CallsTyped
<1>13. RowsShown'
  <2>1. c \in calls /\ c.op = "delete" /\ c.id = i /\ c.committed
    BY <1>3
  <2>2. \A d \in calls : d.op = "delete" => d = c
    BY OneCallOfAKind
  <2>3. \A t : /\ Creates(calls', t) <=> Creates(calls, t)
               /\ Deletes(calls, t) <=> t = i
               /\ ~ Deletes(calls', t)
    BY <1>2, <2>1, <2>2 DEF Creates, Deletes
  <2>4. ~ Creates(calls, i)
    <3>1. Listed(bar, i)
      BY <2>1, OneCallOfAKind
    <3>2. ASSUME NEW d \in calls, d.op = "create", d.id = i, i # 0 PROVE FALSE
      BY <1>2, <3>1, <3>2, CreatedTab
    <3> QED BY <3>2 DEF Creates
  <2>5. \A t \in Ids :
           t \in DOMAIN tabs <=> (Listed(bar, t) \/ Creates(calls, t)) /\ t # i
    BY <1>2, <2>3 DEF WindowInv, RowsShown
  <2>6. \A t \in Ids : t \in DOMAIN tabs <=> Listed(bar', t) \/ Creates(calls, t)
    BY <1>8, <2>4, <2>5
  <2> QED BY <1>1, <2>3, <2>6 DEF RowsShown
<1>14. RowsKept'
  BY <1>1, <1>2 DEF WindowInv, RowsKept
<1>15. OrderKept'
  <2>1. ASSUME NEW p, BarIn(p) PROVE BarIn(p)'
    <3>1. ASSUME NEW j \in 1 .. n, NEW k \in 1 .. n, j < k,
                 bar'[j] \in DOMAIN p, bar'[k] \in DOMAIN p
          PROVE  Before(p, bar'[j], bar'[k])
      <4>1. PICK a \in 1 .. Len(bar) : a = at[j]
        BY <1>7
      <4>2. PICK b \in 1 .. Len(bar) : b = at[k]
        BY <1>7
      <4>3. a < b /\ bar'[j] = bar[a] /\ bar'[k] = bar[b]
        BY <1>5, <1>7, <3>1, <4>1, <4>2
      <4> QED BY <2>1, <3>1, <4>3 DEF BarIn
    <3>2. ASSUME NEW d \in calls', NEW k \in 1 .. n,
                 d.op = "create", d.id # 0, bar'[k] \in DOMAIN p
          PROVE  Before(p, bar'[k], d.id)
      <4>1. PICK a \in 1 .. Len(bar) : a = at[k]
        BY <1>7
      <4>2. bar'[k] = bar[a] /\ d \in calls
        BY <1>2, <1>7, <4>1
      <4> QED BY <2>1, <3>2, <4>2 DEF BarIn
    <3> QED BY <1>5, <3>1, <3>2 DEF BarIn
  <2>2. Idle("reorder")' => Idle("reorder")
    BY <1>2 DEF Idle
  <2>3. (loaded /\ ~ dragging /\ ~ overtaken) =>
           /\ Idle("reorder") => BarIn(tabs)
           /\ \A d \in calls : d.op = "reorder" => BarIn(Placed(tabs, d.ids))
    BY DEF WindowInv, OrderKept
  <2>4. (loaded /\ ~ dragging /\ ~ overtaken) =>
           /\ Idle("reorder")' => BarIn(tabs)'
           /\ \A d \in calls' : d.op = "reorder" => BarIn(Placed(tabs, d.ids))'
    BY <1>1, <1>2, <2>1, <2>2, <2>3
  <2> QED BY <1>1, <2>4 DEF OrderKept
<1> QED BY <1>11, <1>12, <1>13, <1>14, <1>15 DEF WindowInv

\* The bar and the table agree after every step, up to what is on its way.
LEMMA WindowStaysSound ==
    ASSUME DataInv, Counted, WindowInv, [Next]_vars
    PROVE  WindowInv'
PROOF
<1>1. CASE CallAnswered
  <2>1. PICK c \in calls :
           /\ \/ c.op = "create" /\ c.id # 0 /\ bar' = Append(bar, c.id)
              \/ /\ c.op = "delete" /\ c.committed
                 /\ bar' = Picked(bar, {k \in DOMAIN bar : bar[k] # c.id})
           /\ calls' = calls \ {c}
    BY <1>1 DEF CallAnswered
  <2> QED BY <1>1, <2>1, CreatedIsShown, DeletedIsGone
<1>2. CASE TabStep /\ ~ CallAnswered
  BY <1>2, LoadKeepsWindow, SendKeepsWindow, MoveKeepsWindow, OrderIsSent,
     CreateKeepsWindow, DeleteKeepsWindow, ReorderKeepsWindow DEF TabStep
<1>3. CASE ~ TabStep
  BY <1>3, OthersKeepWindow DEF Next, TabStep, StoreStep
<1> QED BY <1>1, <1>2, <1>3

\* The window starts empty.
LEMMA WindowStartsEmpty ==
    ASSUME Init
    PROVE  WindowInv
PROOF
<1>1. /\ bar = <<>> /\ loaded = FALSE /\ dragging = FALSE /\ calls = {}
      /\ overtaken = FALSE /\ owned = FALSE
  BY DEF Init
<1>2. <<>> \in Seq(Ids) /\ Len(<<>>) = 0
  OBVIOUS
<1>3. Bars
  <2>1. Distinct(<<>>) /\ \A k \in 1 .. Len(<<>>) : FALSE
    BY <1>2 DEF Distinct
  <2> QED BY <1>1, <1>2, <2>1 DEF Bars, Distinct
<1>4. CallsTyped /\ RowsKept /\ OrderKept
  BY <1>1 DEF CallsTyped, RowsKept, OrderKept
<1> QED BY <1>1, <1>3, <1>4 DEF WindowInv

\* In every state a rest without commands shows the tabs the table has, and in
\* the order of the table unless a tab was created while a new order was on
\* its way.
LEMMA SettledBarIsTheTable ==
    ASSUME DataInv, Counted, WindowInv
    PROVE  TabsKeepTheirOrder
PROOF
<1> SUFFICES ASSUME Settled
             PROVE  Range(bar) = DOMAIN tabs /\ (overtaken \/ bar = TabOrder)
  BY DEF TabsKeepTheirOrder
<1>1. Running /\ loaded /\ calls = {} /\ ~ dragging
  BY DEF Settled
<1>2. bar \in Seq(Ids) /\ Distinct(bar)
  BY DEF WindowInv, Bars
<1>3. Positions(tabs)
  BY <1>1, WindowFacts
<1>4. \A t \in Ids : t \in DOMAIN tabs <=> Listed(bar, t)
  BY <1>1 DEF WindowInv, RowsShown, Creates, Deletes
<1>5. DOMAIN bar = 1 .. Len(bar) /\ \A k \in 1 .. Len(bar) : bar[k] \in Ids
  BY <1>2
<1>6. \A k \in 1 .. Len(bar) : bar[k] \in DOMAIN tabs
  BY <1>4, <1>5 DEF Listed
<1>7. Range(bar) = DOMAIN tabs
  <2>1. \A t \in DOMAIN tabs : t \in Range(bar)
    BY <1>3, <1>4, <1>5 DEF Positions, Listed, Range
  <2>2. \A t \in Range(bar) : t \in DOMAIN tabs
    BY <1>5, <1>6 DEF Range
  <2> QED BY <2>1, <2>2
<1>8. ASSUME ~ overtaken PROVE bar = TabOrder
  <2>1. PICK p : p = tabs
    OBVIOUS
  <2>2. BarIn(p)
    BY <1>1, <1>8, <2>1 DEF WindowInv, OrderKept, Idle
  <2>3. \A j, k \in 1 .. Len(bar) : j < k => <<bar[j], bar[k]>> \in TabsBefore(p)
    BY <1>3, <1>6, <2>1, <2>2, TabsAreOrdered DEF BarIn
  <2>4. bar \in Seq(DOMAIN p)
    BY <1>2, <1>6, <2>1
  <2>5. \A x \in DOMAIN p : \E k \in 1 .. Len(bar) : bar[k] = x
    BY <1>3, <1>4, <2>1 DEF Positions, Listed
  <2>6. IsFiniteSet(DOMAIN p) /\ Orders(TabsBefore(p), DOMAIN p)
    BY <1>3, <2>1, RowsAreFinite, TabsAreOrdered
  <2>7. bar = OrderBy(DOMAIN p, TabsBefore(p))
    BY <2>3, <2>4, <2>5, <2>6, OrderIsUnique
  <2> QED BY <2>1, <2>7 DEF TabOrder
<1> QED BY <1>7, <1>8

-----------------------------------------------------------------------------
(* Imports.                                                                *)

EntriesOf(f, n) == {k \in DOMAIN f : f[k].name = n}
ImportedAs(c, n) == {i \in DOMAIN c : c[i].by = "import" /\ c[i].name = n}

\* One import at a time, and what it still has to create of a name fits into
\* what its file has of it.
ImportInv ==
    /\ \A i, j \in jobs : i.op = "import" /\ j.op = "import" => i = j
    /\ \A j \in jobs : j.op = "import" =>
          \A n \in Names : Entries(j.rest, n) > 0 =>
              Imported(tables, n) + Entries(j.rest, n) <= Entries(j.file, n)

\* A part of a finite set is finite and no larger.
LEMMA PartsAreSmaller ==
    ASSUME NEW S, IsFiniteSet(S), NEW T \in SUBSET S
    PROVE  /\ IsFiniteSet(T) /\ Cardinality(T) \in Nat /\ Cardinality(S) \in Nat
           /\ Cardinality(T) <= Cardinality(S)
BY FS_Subset, FS_CardinalityType

\* The entries of a name are counted.
LEMMA EntriesAreCounted ==
    ASSUME NEW f \in Seq(PortableConnection), NEW n
    PROVE  /\ IsFiniteSet(EntriesOf(f, n)) /\ Entries(f, n) \in Nat
           /\ Entries(f, n) = Cardinality(EntriesOf(f, n))
           /\ Entries(f, n) > 0 => \E k \in DOMAIN f : f[k].name = n
PROOF
<1>1. DOMAIN f = 1 .. Len(f) /\ Len(f) \in Nat
  OBVIOUS
<1>2. IsFiniteSet(1 .. Len(f))
  BY <1>1, FS_Interval
<1>3. EntriesOf(f, n) \in SUBSET (1 .. Len(f))
  BY <1>1 DEF EntriesOf
<1>4. Entries(f, n) = Cardinality(EntriesOf(f, n))
  BY DEF Entries, EntriesOf
<1>5. IsFiniteSet(EntriesOf(f, n)) /\ Cardinality(EntriesOf(f, n)) \in Nat
  BY <1>2, <1>3, PartsAreSmaller
<1>6. Cardinality({}) = 0
  BY FS_EmptySet
<1>7. EntriesOf(f, n) # {} => \E k \in DOMAIN f : f[k].name = n
  BY DEF EntriesOf
<1>8. EntriesOf(f, n) = {} => Cardinality(EntriesOf(f, n)) = 0
  BY <1>6
<1> QED BY <1>4, <1>5, <1>7, <1>8

\* The first entry counts for its name.
LEMMA EntriesOfTheRest ==
    ASSUME NEW r \in Seq(PortableConnection), r # <<>>, NEW n
    PROVE  /\ Tail(r) \in Seq(PortableConnection)
           /\ Entries(r, n) = Entries(Tail(r), n) + (IF Head(r).name = n THEN 1 ELSE 0)
PROOF
<1> DEFINE t == Tail(r)
           S == EntriesOf(t, n)
           U == EntriesOf(r, n) \ {1}
           f == [k \in S |-> k + 1]
<1>1. /\ t \in Seq(PortableConnection) /\ Len(r) \in Nat /\ Len(r) >= 1
      /\ DOMAIN r = 1 .. Len(r) /\ DOMAIN t = 1 .. Len(r) - 1
      /\ \A k \in 1 .. Len(r) - 1 : t[k] = r[k + 1]
      /\ Head(r) = r[1]
  OBVIOUS
<1> HIDE DEF t
<1>2. \A k : k \in S <=> k \in 1 .. Len(r) - 1 /\ r[k + 1].name = n
  BY <1>1 DEF EntriesOf
<1>3. \A k : k \in U <=> k \in 1 .. Len(r) /\ k # 1 /\ r[k].name = n
  BY <1>1 DEF EntriesOf
<1>4. f \in Bijection(S, U)
  <2> HIDE DEF S, U
  <2>1. \A k \in S : k + 1 \in U /\ k \in Int
    BY <1>1, <1>2, <1>3
  <2>2. f \in [S -> U]
    BY <2>1
  <2>3. \A j, k \in S : f[j] = f[k] => j = k
    BY <2>1
  <2>4. \A u \in U : \E k \in S : f[k] = u
    <3> SUFFICES ASSUME NEW u \in U PROVE u - 1 \in S /\ f[u - 1] = u
      OBVIOUS
    <3>1. u \in 1 .. Len(r) /\ u # 1 /\ r[u].name = n
      BY <1>3
    <3>2. u - 1 \in 1 .. Len(r) - 1 /\ u - 1 + 1 = u
      BY <1>1, <3>1
    <3>3. u - 1 \in S
      BY <1>2, <3>1, <3>2
    <3> QED BY <3>2, <3>3
  <2> QED BY <2>2, <2>3, <2>4 DEF Bijection, Injection, Surjection, IsInjective
<1>5. /\ IsFiniteSet(S) /\ Entries(t, n) = Cardinality(S) /\ Entries(t, n) \in Nat
      /\ IsFiniteSet(EntriesOf(r, n)) /\ Entries(r, n) = Cardinality(EntriesOf(r, n))
      /\ Entries(r, n) \in Nat
  BY <1>1, EntriesAreCounted
<1>6. IsFiniteSet(U) /\ Cardinality(U) = Cardinality(S)
  <2>1. ExistsBijection(S, U)
    BY <1>4 DEF ExistsBijection
  <2> HIDE DEF S, U
  <2> QED BY <1>5, <2>1, FS_Bijection
<1>7. CASE Head(r).name = n
  <2>1. 1 \in EntriesOf(r, n)
    BY <1>1, <1>7 DEF EntriesOf
  <2>2. Cardinality(U) = Cardinality(EntriesOf(r, n)) - 1
    BY <1>5, <2>1, FS_RemoveElement
  <2> HIDE DEF S, U
  <2> QED BY <1>1, <1>5, <1>6, <1>7, <2>2 DEF t
<1>8. CASE Head(r).name # n
  <2>1. U = EntriesOf(r, n)
    BY <1>1, <1>8 DEF EntriesOf
  <2> HIDE DEF S, U
  <2> QED BY <1>1, <1>5, <1>6, <1>8, <2>1 DEF t
<1> QED BY <1>7, <1>8

\* Entries that are picked are entries.
LEMMA EntriesPicked ==
    ASSUME NEW s \in Seq(PortableConnection), NEW K \in SUBSET (DOMAIN s), NEW n
    PROVE  /\ Picked(s, K) \in Seq(PortableConnection)
           /\ Entries(Picked(s, K), n) <= Entries(s, n)
           /\ Entries(Picked(s, K), n) > 0 => \E k \in K : s[k].name = n
PROOF
<1> DEFINE c == Cardinality(K)
           at == Ascending(K)
           p == Picked(s, K)
           S == EntriesOf(p, n)
           U == EntriesOf(s, n)
           f == [k \in S |-> at[k]]
<1>1. /\ p \in Seq(PortableConnection) /\ Len(p) = c /\ at \in [1 .. c -> K]
      /\ \A k \in 1 .. c : at[k] \in DOMAIN s /\ p[k] = s[at[k]]
      /\ \A j, k \in 1 .. c : at[j] = at[k] => j = k
  BY PickedFacts
<1> HIDE DEF c, at, p
<1>2. DOMAIN p = 1 .. c /\ \A k \in 1 .. c : at[k] \in K
  BY <1>1
<1>3. \A k \in S : k \in 1 .. c /\ p[k].name = n
  BY <1>2 DEF EntriesOf
<1>4. \A k \in S : at[k] \in U
  BY <1>1, <1>3 DEF EntriesOf
<1>5. f \in Injection(S, U)
  <2> HIDE DEF S, U
  <2>1. f \in [S -> U]
    BY <1>4
  <2>2. \A j, k \in S : f[j] = f[k] => j = k
    BY <1>1, <1>3
  <2> QED BY <2>1, <2>2 DEF Injection, IsInjective
<1>6. /\ IsFiniteSet(S) /\ Entries(p, n) = Cardinality(S) /\ Entries(p, n) \in Nat
      /\ IsFiniteSet(U) /\ Entries(s, n) = Cardinality(U) /\ Entries(s, n) \in Nat
      /\ Entries(p, n) > 0 => \E k \in DOMAIN p : p[k].name = n
  BY <1>1, EntriesAreCounted
<1>7. Cardinality(S) <= Cardinality(U)
  <2> HIDE DEF S, U, f
  <2> QED BY <1>5, <1>6, FS_Injection
<1>8. Entries(p, n) > 0 => \E k \in K : s[k].name = n
  <2> SUFFICES ASSUME NEW k \in 1 .. c, p[k].name = n PROVE \E x \in K : s[x].name = n
    BY <1>2, <1>6
  <2>1. PICK x \in K : x = at[k]
    BY <1>2
  <2> QED BY <1>1, <2>1
<1> HIDE DEF S, U
<1> QED BY <1>1, <1>6, <1>7, <1>8 DEF p

\* Rows of files are counted.
LEMMA ImportsAreCounted ==
    ASSUME NEW t, IsFiniteSet(DOMAIN t.conns), NEW n
    PROVE  /\ IsFiniteSet(ImportedAs(t.conns, n)) /\ Imported(t, n) \in Nat
           /\ Imported(t, n) = Cardinality(ImportedAs(t.conns, n))
PROOF
<1>1. ImportedAs(t.conns, n) \in SUBSET (DOMAIN t.conns)
  BY DEF ImportedAs
<1>2. Imported(t, n) = Cardinality(ImportedAs(t.conns, n))
  BY DEF Imported, ImportedAs
<1> QED BY <1>1, <1>2, PartsAreSmaller

\* The rows of files after a step were there before, save the one an import
\* creates.
LEMMA StoresImportNothing ==
    ASSUME DataInv, StoreStep \/ TabStep, ~ ImportNext
    PROVE  \A i \in DOMAIN conns' : conns'[i].by = "import" =>
               i \in DOMAIN conns /\ conns'[i] = conns[i]
PROOF
<1>1. Running
  BY DEF StoreStep, ConnectionCreate, ConnectionUpdate, ConnectionDelete,
     DeleteAllForConnection, TopicSchemaSet, TopicSchemaDelete, ConnectionsExport,
     ReceiveFile, ConnectionsImport, TabStep, LoadTabs, AddTab, CloseTab, MoveTab,
     CommitTabOrder, CreateCommits, DeleteCommits, ReorderCommits, CallAnswered,
     Send, Given
<1>2. data.main = [conns |-> data.main.conns, schemas |-> data.main.schemas,
                   tabs |-> data.main.tabs]
  <2>1. Stored(tables)
    BY <1>1, StoredWhileRunning
  <2> QED BY <2>1 DEF Stored, TablesOK
<1> DEFINE Kept(c) == \A i \in DOMAIN c : c[i].by = "import" =>
                          i \in DOMAIN conns /\ c[i] = conns[i]
<1>3. ASSUME NEW t, Write(t), Kept(t.conns) PROVE Kept(conns')
  <2>1. data'.main = t
    BY <1>1, <1>3, WritingTables
  <2> QED BY <1>3, <2>1
<1>4. Kept(conns)
  OBVIOUS
<1>5. ASSUME NEW i, NEW row, row.by = "user" PROVE Kept(With(conns, i, row))
  <2>1. "user" # "import"
    OBVIOUS
  <2> QED BY <1>5, <2>1 DEF With
<1>6. CASE ConnectionCreate
  <2>1. PICK n \in Names, g \in {{}, Grants} :
           Insert([name |-> n, grants |-> g, by |-> "user"])
    BY <1>6 DEF ConnectionCreate
  <2>2. PICK row : row = [name |-> n, grants |-> g, by |-> "user"]
    OBVIOUS
  <2>3. PICK t : t = [tables EXCEPT !.conns = With(@, FreshId, row)]
    OBVIOUS
  <2>4. Write(t)
    BY <2>1, <2>2, <2>3 DEF Insert
  <2>5. t.conns = With(conns, FreshId, row) /\ row.by = "user"
    BY <1>2, <2>2, <2>3
  <2>6. Kept(With(conns, FreshId, row))
    BY <1>5, <2>5
  <2>7. Kept(t.conns)
    BY <2>5, <2>6
  <2> QED BY <1>3, <2>4, <2>7
<1>7. CASE ConnectionUpdate
  <2>1. PICK i \in DOMAIN conns, n \in Names, g \in {{}, Grants} :
           Write([tables EXCEPT !.conns[i] = [name |-> n, grants |-> g, by |-> "user"]])
    BY <1>7 DEF ConnectionUpdate
  <2>2. PICK row : row = [name |-> n, grants |-> g, by |-> "user"]
    OBVIOUS
  <2>3. PICK t : t = [tables EXCEPT !.conns[i] = row]
    OBVIOUS
  <2>4. t.conns = [conns EXCEPT ![i] = row] /\ row.by = "user"
    BY <1>2, <2>2, <2>3
  <2>5. conns \in [DOMAIN conns -> Row]
    BY <1>1, StoredWhileRunning
  <2>6. PICK c : c = conns
    OBVIOUS
  <2>7. \A k \in DOMAIN c : [c EXCEPT ![i] = row][k] = IF k = i THEN row ELSE c[k]
    OBVIOUS
  <2>8. Kept(t.conns)
    BY <2>4, <2>6, <2>7
  <2> QED BY <1>3, <2>1, <2>2, <2>3, <2>8
<1>8. CASE ConnectionDelete
  <2>1. PICK i : Write([tables EXCEPT !.conns = Without(@, i)])
    BY <1>8 DEF ConnectionDelete
  <2>2. PICK t : t = [tables EXCEPT !.conns = Without(@, i)]
    OBVIOUS
  <2>3. t.conns = Without(conns, i)
    BY <1>2, <2>2
  <2>4. Kept(t.conns)
    BY <2>3 DEF Without
  <2> QED BY <1>3, <2>1, <2>2, <2>4
<1>9. ASSUME NEW S, Write([tables EXCEPT !.schemas = S]) PROVE Kept(conns')
  <2>1. PICK t : t = [tables EXCEPT !.schemas = S]
    OBVIOUS
  <2>2. t.conns = conns
    BY <1>2, <2>1
  <2> QED BY <1>3, <1>4, <1>9, <2>1, <2>2
<1>10. ASSUME NEW f, Write([tables EXCEPT !.tabs = f]) PROVE Kept(conns')
  <2>1. PICK t : t = [tables EXCEPT !.tabs = f]
    OBVIOUS
  <2>2. t.conns = conns
    BY <1>2, <2>1
  <2> QED BY <1>3, <1>4, <1>10, <2>1, <2>2
<1>11. ASSUME UNCHANGED data PROVE Kept(conns')
  BY <1>4, <1>11
<1>12. CASE DeleteAllForConnection \/ TopicSchemaSet \/ TopicSchemaDelete
  BY <1>9, <1>12 DEF DeleteAllForConnection, TopicSchemaSet, TopicSchemaDelete
<1>13. CASE ConnectionsExport \/ ReceiveFile \/ ConnectionsImport
  BY <1>11, <1>13 DEF ConnectionsExport, ReceiveFile, ConnectionsImport
<1>14. CASE TabStep
  BY <1>10, <1>11, <1>14 DEF TabStep, LoadTabs, AddTab, CloseTab, MoveTab,
     CommitTabOrder, CreateCommits, DeleteCommits, ReorderCommits, CallAnswered,
     InsertTab
<1> QED BY <1>6, <1>7, <1>8, <1>12, <1>13, <1>14 DEF StoreStep

\* Only a step of an import makes one more row, of the name of its next entry.
LEMMA ImportsGrowByOne ==
    ASSUME DataInv, Counted, StoreStep \/ TabStep
    PROVE  /\ ~ ImportNext => \A n : Imported(data'.main, n) <= Imported(tables, n)
           /\ \A j \in jobs : j.op = "import" /\ Insert(FromPortable(Head(j.rest))) =>
                 \A n : Imported(data'.main, n) <=
                           Imported(tables, n) + (IF n = Head(j.rest).name THEN 1 ELSE 0)
           /\ \A n : Imported(data'.main, n) \in Nat /\ Imported(tables, n) \in Nat
PROOF
<1>1. Running /\ Running' /\ DataInv'
  <2>1. Running
    BY DEF StoreStep, ConnectionCreate, ConnectionUpdate, ConnectionDelete,
       DeleteAllForConnection, TopicSchemaSet, TopicSchemaDelete, ConnectionsExport,
       ReceiveFile, ConnectionsImport, ImportNext, TabStep, LoadTabs, AddTab, CloseTab,
       MoveTab, CommitTabOrder, CreateCommits, DeleteCommits, ReorderCommits,
       CallAnswered, Send, Given
  <2>2. launch' = launch
    BY DEF StoreStep, ConnectionCreate, ConnectionUpdate, ConnectionDelete,
       DeleteAllForConnection, TopicSchemaSet, TopicSchemaDelete, ConnectionsExport,
       ReceiveFile, ConnectionsImport, ImportNext, TabStep, LoadTabs, AddTab, CloseTab,
       MoveTab, CommitTabOrder, CreateCommits, DeleteCommits, ReorderCommits,
       CallAnswered, storeFrame, tabFrame
  <2>3. Next
    BY DEF Next, StoreStep, TabStep
  <2> QED BY <2>1, <2>2, <2>3, DataStaysSound DEF Running
<1>2. PICK c : c = conns
  OBVIOUS
<1>3. PICK d : d = conns'
  OBVIOUS
<1>4. IsFiniteSet(DOMAIN c)
  BY <1>1, <1>2, StoredWhileRunning
<1>5. IsFiniteSet(DOMAIN d)
  <2>1. Stored(data.main)'
    BY <1>1 DEF DataInv, Adopting, Unowned, Running
  <2>2. DOMAIN d \subseteq Ids
    BY <1>3, <2>1 DEF Stored, TablesOK, Ids
  <2>3. IsFiniteSet(Ids)
    BY AppDataAssumption, FS_Interval DEF Ids
  <2> QED BY <2>2, <2>3, FS_Subset
<1>6. \A n : /\ IsFiniteSet(ImportedAs(c, n)) /\ Imported(tables, n) \in Nat
             /\ Imported(tables, n) = Cardinality(ImportedAs(c, n))
  BY <1>2, <1>4, ImportsAreCounted
<1>7. \A n : /\ IsFiniteSet(ImportedAs(d, n)) /\ Imported(data'.main, n) \in Nat
             /\ Imported(data'.main, n) = Cardinality(ImportedAs(d, n))
  <2>1. PICK t : t = data'.main
    OBVIOUS
  <2>2. IsFiniteSet(DOMAIN t.conns) /\ t.conns = d
    BY <1>3, <1>5, <2>1
  <2> QED BY <2>1, <2>2, ImportsAreCounted
<1>8. ASSUME ~ ImportNext, NEW n PROVE Imported(data'.main, n) <= Imported(tables, n)
  <2>1. \A i \in DOMAIN d : d[i].by = "import" => i \in DOMAIN c /\ d[i] = c[i]
    BY <1>2, <1>3, <1>8, StoresImportNothing
  <2>2. ImportedAs(d, n) \in SUBSET ImportedAs(c, n)
    BY <2>1 DEF ImportedAs
  <2> QED BY <1>6, <1>7, <2>2, PartsAreSmaller
<1>9. ASSUME NEW j \in jobs, j.op = "import", Insert(FromPortable(Head(j.rest))), NEW n
      PROVE  Imported(data'.main, n) <=
                Imported(tables, n) + (IF n = Head(j.rest).name THEN 1 ELSE 0)
  <2>1. PICK row : row = FromPortable(Head(j.rest))
    OBVIOUS
  <2>2. row.by = "import" /\ row.name = Head(j.rest).name
    BY <2>1 DEF FromPortable
  <2>3. PICK i : i = FreshId
    OBVIOUS
  <2>4. d = With(c, i, row)
    <3>1. data'.main = [tables EXCEPT !.conns = With(@, FreshId, row)]
      BY <1>1, <1>9, <2>1, WritingTables DEF Insert
    <3>2. Stored(tables)
      BY <1>1, StoredWhileRunning
    <3>3. data.main = [conns |-> data.main.conns, schemas |-> data.main.schemas,
                       tabs |-> data.main.tabs]
      BY <3>2 DEF Stored, TablesOK
    <3> QED BY <1>2, <1>3, <2>3, <3>1, <3>3
  <2>5. \A k \in DOMAIN d : (k \in DOMAIN c /\ d[k] = c[k]) \/ (k = i /\ d[k] = row)
    BY <2>4 DEF With
  <2>6. CASE n # row.name
    <3>1. ImportedAs(d, n) \in SUBSET ImportedAs(c, n)
      BY <2>5, <2>6 DEF ImportedAs
    <3>2. Cardinality(ImportedAs(d, n)) <= Cardinality(ImportedAs(c, n))
      BY <1>6, <3>1, PartsAreSmaller
    <3> QED BY <1>6, <1>7, <2>2, <2>6, <3>2
  <2>7. CASE n = row.name
    <3> DEFINE T == ImportedAs(c, n) \union {i}
    <3>1. ImportedAs(d, n) \in SUBSET T
      BY <2>5 DEF ImportedAs
    <3>2. /\ IsFiniteSet(T)
          /\ Cardinality(T) \in {Imported(tables, n), Imported(tables, n) + 1}
      BY <1>6, FS_AddElement
    <3> HIDE DEF T
    <3>3. Cardinality(ImportedAs(d, n)) <= Cardinality(T)
      BY <3>1, <3>2, PartsAreSmaller
    <3> QED BY <1>6, <1>7, <2>2, <2>7, <3>2, <3>3
  <2> QED BY <2>6, <2>7
<1> QED BY <1>6, <1>7, <1>8, <1>9

\* The next row of an import fits into what its file has of the name.
LEMMA NextEntryFits ==
    ASSUME DataInv, Counted, ImportInv, ImportNext
    PROVE  \E j \in jobs :
              /\ j.op = "import"
              /\ jobs' = (jobs \ {j}) \union
                          (IF Len(j.rest) = 1 THEN {} ELSE {[j EXCEPT !.rest = Tail(@)]})
              /\ \A k \in jobs : k.op = "import" => k = j
              /\ j \in [op : {"import"}, file : Seq(PortableConnection),
                        rest : Seq(PortableConnection)]
              /\ j.rest # <<>>
              /\ \A n \in Names :
                    /\ Imported(data'.main, n) > Imported(tables, n) =>
                          Imported(data'.main, n) <= Entries(j.file, n)
                    /\ Entries(Tail(j.rest), n) > 0 =>
                          Imported(data'.main, n) + Entries(Tail(j.rest), n)
                             <= Entries(j.file, n)
PROOF
<1>1. PICK j \in jobs :
         /\ j.op = "import" /\ Insert(FromPortable(Head(j.rest)))
         /\ jobs' = (jobs \ {j}) \union
                     (IF Len(j.rest) = 1 THEN {} ELSE {[j EXCEPT !.rest = Tail(@)]})
  BY DEF ImportNext
<1>2. /\ j \in [op : {"import"}, file : Seq(PortableConnection),
                rest : Seq(PortableConnection)]
      /\ j.rest # <<>>
  BY <1>1 DEF DataInv, JobsTyped
<1>3. ASSUME NEW n \in Names
      PROVE  /\ Imported(data'.main, n) > Imported(tables, n) =>
                   Imported(data'.main, n) <= Entries(j.file, n)
             /\ Entries(Tail(j.rest), n) > 0 =>
                   Imported(data'.main, n) + Entries(Tail(j.rest), n)
                      <= Entries(j.file, n)
  <2>1. /\ Imported(data'.main, n) <=
              Imported(tables, n) + (IF n = Head(j.rest).name THEN 1 ELSE 0)
        /\ Imported(data'.main, n) \in Nat /\ Imported(tables, n) \in Nat
    BY <1>1, ImportsGrowByOne DEF StoreStep
  <2>2. /\ Tail(j.rest) \in Seq(PortableConnection)
        /\ Entries(j.rest, n)
              = Entries(Tail(j.rest), n) + (IF Head(j.rest).name = n THEN 1 ELSE 0)
    BY <1>2, EntriesOfTheRest
  <2>3. Entries(Tail(j.rest), n) \in Nat /\ Entries(j.file, n) \in Nat
    BY <1>2, <2>2, EntriesAreCounted
  <2>4. Entries(j.rest, n) > 0 =>
           Imported(tables, n) + Entries(j.rest, n) <= Entries(j.file, n)
    BY <1>1 DEF ImportInv
  <2>5. PICK a : a = Imported(data'.main, n)
    OBVIOUS
  <2>6. PICK b : b = Imported(tables, n)
    OBVIOUS
  <2>7. CASE n = Head(j.rest).name
    BY <2>1, <2>2, <2>3, <2>4, <2>5, <2>6, <2>7
  <2>8. CASE n # Head(j.rest).name
    BY <2>1, <2>2, <2>3, <2>4, <2>5, <2>6, <2>8
  <2> QED BY <2>7, <2>8
<1>4. \A k \in jobs : k.op = "import" => k = j
  BY <1>1 DEF ImportInv
<1> QED BY <1>1, <1>2, <1>3, <1>4

\* The count stays within the file.
LEMMA ImportsStayCounted ==
    ASSUME DataInv, Counted, ImportInv, [Next]_vars
    PROVE  ImportInv'
PROOF
<1>1. jobs # {} => Running
  BY DEF DataInv, JobsTyped
<1>2. ASSUME data' = data \/ (~ ImportNext /\ (StoreStep \/ TabStep)),
             \A j \in jobs' : j.op = "import" => j \in jobs
      PROVE  ImportInv'
  <2>1. \A i, j \in jobs' : i.op = "import" /\ j.op = "import" => i = j
    BY <1>2 DEF ImportInv
  <2>2. ASSUME NEW j \in jobs', j.op = "import", NEW n \in Names, Entries(j.rest, n) > 0
        PROVE  Imported(data'.main, n) + Entries(j.rest, n) <= Entries(j.file, n)
    <3>1. Imported(tables, n) + Entries(j.rest, n) <= Entries(j.file, n) /\ j \in jobs
      BY <1>2, <2>2 DEF ImportInv
    <3>2. CASE data' = data
      BY <3>1, <3>2
    <3>3. CASE ~ ImportNext /\ (StoreStep \/ TabStep)
      <4>1. /\ Imported(data'.main, n) <= Imported(tables, n)
            /\ Imported(data'.main, n) \in Nat /\ Imported(tables, n) \in Nat
        BY <3>3, ImportsGrowByOne
      <4>2. Entries(j.rest, n) \in Nat /\ Entries(j.file, n) \in Nat
        <5>1. j.rest \in Seq(PortableConnection) /\ j.file \in Seq(PortableConnection)
          BY <2>2, <3>1 DEF DataInv, JobsTyped
        <5> QED BY <5>1, EntriesAreCounted
      <4>3. PICK a : a = Imported(data'.main, n)
        OBVIOUS
      <4>4. PICK b : b = Imported(tables, n)
        OBVIOUS
      <4> QED BY <3>1, <4>1, <4>2, <4>3, <4>4
    <3> QED BY <1>2, <3>2, <3>3
  <2> QED BY <2>1, <2>2 DEF ImportInv
<1>3. CASE LaunchStep \/ DatabaseOpened \/ AppStops
  <2>1. jobs' = {}
    BY <1>1, <1>3 DEF LaunchStep, DatabaseOpened, AppStops, Launch, CopySidecars,
       CopyDatabase, RenameDatabase, AdoptionFails, OldVersionRuns, OpenDatabase,
       Running, storeVars
  <2> QED BY <2>1 DEF ImportInv
<1>4. CASE UNCHANGED vars
  <2>1. data' = data
    BY <1>4 DEF vars, fileVars
  <2>2. jobs' = jobs
    BY <1>4 DEF vars, storeVars
  <2>3. data' = data \/ (~ ImportNext /\ (StoreStep \/ TabStep))
    BY <2>1
  <2>4. \A j \in jobs' : j.op = "import" => j \in jobs
    BY <2>2
  <2> QED BY <1>2, <2>3, <2>4
<1>5. CASE TabStep /\ ~ ImportNext
  <2>1. tabFrame
    BY <1>5 DEF TabStep, LoadTabs, AddTab, CloseTab, MoveTab, CommitTabOrder,
       CreateCommits, DeleteCommits, ReorderCommits, CallAnswered
  <2>2. UNCHANGED jobs
    BY <2>1 DEF tabFrame, storeVars
  <2> QED BY <1>2, <1>5, <2>2
<1>6. CASE StoreStep /\ ~ ImportNext /\ ~ ConnectionsImport
  <2>1. CASE \/ ConnectionCreate \/ ConnectionUpdate \/ TopicSchemaSet
             \/ TopicSchemaDelete \/ ConnectionsExport \/ ReceiveFile
    <3>1. UNCHANGED jobs
      BY <2>1 DEF ConnectionCreate, ConnectionUpdate, TopicSchemaSet,
         TopicSchemaDelete, ConnectionsExport, ReceiveFile, storeVars
    <3> QED BY <1>2, <1>6, <3>1
  <2>2. CASE ConnectionDelete
    <3>1. PICK i \in DOMAIN conns : jobs' = jobs \union {[op |-> "delete", id |-> i]}
      BY <2>2 DEF ConnectionDelete
    <3>2. \A j \in jobs' : j.op = "import" => j \in jobs
      BY <3>1
    <3> QED BY <1>2, <1>6, <3>2
  <2>3. CASE DeleteAllForConnection
    <3>1. \A j \in jobs' : j \in jobs
      BY <2>3 DEF DeleteAllForConnection
    <3> QED BY <1>2, <1>6, <3>1
  <2> QED BY <1>6, <2>1, <2>2, <2>3 DEF StoreStep
<1>7. CASE ConnectionsImport
  <2> DEFINE existing == {conns[i].name : i \in DOMAIN conns}
             all == file.connections
             K == {k \in DOMAIN all : all[k].name \notin existing}
             rest == Picked(all, K)
             job == [op |-> "import", file |-> all, rest |-> rest]
  <2>1. /\ Running /\ ~ Importing /\ file # None /\ Parses(file) /\ UNCHANGED data
        /\ jobs' = IF rest = <<>> THEN jobs ELSE jobs \union {job}
    BY <1>7 DEF ConnectionsImport, Given, partition_importable
  <2>2. \A j \in jobs : j.op # "import"
    BY <2>1 DEF Importing
  <2>3. all \in Seq(PortableConnection)
    BY <2>1 DEF DataInv, JobsTyped
  <2>4. ASSUME NEW n \in Names, Entries(rest, n) > 0
        PROVE  Imported(data'.main, n) + Entries(rest, n) <= Entries(all, n)
    <3>1. K \in SUBSET (DOMAIN all)
      OBVIOUS
    <3> HIDE DEF all
    <3>2. /\ rest \in Seq(PortableConnection)
          /\ Entries(rest, n) <= Entries(all, n)
          /\ Entries(rest, n) > 0 => \E k \in K : all[k].name = n
      <4> HIDE DEF K
      <4> QED BY <2>3, <3>1, EntriesPicked
    <3>3. n \notin existing
      BY <2>4, <3>2
    <3>4. Imported(tables, n) = 0
      <4>1. {i \in DOMAIN conns : conns[i].by = "import" /\ conns[i].name = n} = {}
        BY <3>3
      <4>2. Imported(tables, n) = Cardinality({})
        BY <4>1 DEF Imported
      <4> QED BY <4>2, FS_EmptySet
    <3>5. Entries(rest, n) \in Nat /\ Entries(all, n) \in Nat
      BY <2>3, <3>2, EntriesAreCounted
    <3>6. Imported(data'.main, n) = 0
      BY <2>1, <3>4
    <3> HIDE DEF rest
    <3> QED BY <3>2, <3>5, <3>6
  <2>5. \A j \in jobs' : j.op = "import" => j = job
    BY <2>1, <2>2
  <2>6. job.rest = rest /\ job.file = all
    OBVIOUS
  <2> HIDE DEF rest, all, job
  <2> QED BY <2>4, <2>5, <2>6 DEF ImportInv
<1>8. CASE ImportNext
  <2>1. PICK j \in jobs :
           /\ j.op = "import"
           /\ jobs' = (jobs \ {j}) \union
                       (IF Len(j.rest) = 1 THEN {} ELSE {[j EXCEPT !.rest = Tail(@)]})
           /\ \A k \in jobs : k.op = "import" => k = j
           /\ j \in [op : {"import"}, file : Seq(PortableConnection),
                     rest : Seq(PortableConnection)]
           /\ \A n \in Names :
                 Entries(Tail(j.rest), n) > 0 =>
                    Imported(data'.main, n) + Entries(Tail(j.rest), n) <= Entries(j.file, n)
    BY <1>8, NextEntryFits
  <2>2. PICK more : more = [j EXCEPT !.rest = Tail(@)]
    OBVIOUS
  <2>3. more.rest = Tail(j.rest) /\ more.file = j.file
    BY <2>1, <2>2
  <2>4. \A k \in jobs' : k.op = "import" => k = more
    BY <2>1, <2>2
  <2> QED BY <2>1, <2>3, <2>4 DEF ImportInv
<1> QED BY <1>3, <1>4, <1>5, <1>6, <1>7, <1>8 DEF Next, StoreStep, TabStep

-----------------------------------------------------------------------------
(* Theorems.                                                               *)

AppInv == DataInv /\ Counted /\ WindowInv

\* Every state the app reaches satisfies the invariant.
LEMMA AppStaysSound == Spec => []AppInv
PROOF
<1>1. Init => AppInv
  BY DataStartsSound, WindowStartsEmpty DEF AppInv
<1>2. AppInv /\ [Next]_vars => AppInv'
  BY DataStaysSound, CountersStay, WindowStaysSound DEF AppInv
<1> QED BY <1>1, <1>2, PTL DEF Spec

\* With no tab command on its way and no tab held, the bar shows exactly the
\* rows of the table, in the order list() will give them, unless a create was
\* committed while a reorder was on its way.
THEOREM TabsStayInOrder == Spec => []TabsKeepTheirOrder
PROOF
<1>1. AppInv => TabsKeepTheirOrder
  BY SettledBarIsTheTable DEF AppInv
<1> QED BY <1>1, AppStaysSound, PTL

\* Rows have their types, the previous version's data is adopted whole or not
\* at all, and no connection from an export file has a secret or may publish.
THEOREM StoredDataIsSound == Spec => []StoredDataInvariant
PROOF
<1>1. AppInv => StoredDataInvariant
  <2> SUFFICES ASSUME AppInv PROVE StoredDataInvariant
    OBVIOUS
  <2>1. TypeOK
    <3>1. launch \in {"closed", "sidecars", "database", "rename", "opening", "running"}
      BY DEF AppInv, DataInv, Adopting
    <3>2. Running => TablesOK(tables, MaxIds)
      BY StoredWhileRunning DEF AppInv, Stored
    <3>3. IsInjective(bar) /\ Range(bar) \subseteq Ids
      <4>1. bar \in Seq(Ids) /\ Distinct(bar)
        BY DEF AppInv, WindowInv, Bars
      <4>2. DOMAIN bar = 1 .. Len(bar) /\ \A k \in 1 .. Len(bar) : bar[k] \in Ids
        BY <4>1
      <4> QED BY <4>1, <4>2 DEF IsInjective, Range, Distinct
    <3> QED BY <3>1, <3>2, <3>3 DEF AppInv, Counted, TypeOK
  <2>2. AdoptionIsWhole
    BY DEF AppInv, DataInv, Adopting, Unowned, AdoptionIsWhole
  <2>3. ImportGrantsNothing
    BY StoredWhileRunning DEF AppInv, Stored, ImportGrantsNothing
  <2> QED BY <2>1, <2>2, <2>3 DEF StoredDataInvariant
<1> QED BY <1>1, AppStaysSound, PTL

\* However often a file is imported, and wherever an import was cut off, no
\* step makes more rows of a name than the file has entries for it:
\* connections_import creates only what partition_importable leaves.
THEOREM ImportsAreRepeatable == Spec => ImportIsRepeatable
PROOF
<1>1. Init => AppInv /\ ImportInv
  BY DataStartsSound, WindowStartsEmpty DEF AppInv, Init, ImportInv
<1>2. AppInv /\ ImportInv /\ [Next]_vars => AppInv' /\ ImportInv'
  BY DataStaysSound, CountersStay, WindowStaysSound, ImportsStayCounted DEF AppInv
<1>3. AppInv /\ ImportInv /\ [Next]_vars =>
         \A j \in jobs : (Running /\ launch' = "running" /\ j.op = "import") =>
            \A n \in Names : Imported(data'.main, n) > Imported(tables, n)
                => Imported(data'.main, n) <= Entries(j.file, n)
  <2> SUFFICES ASSUME AppInv, ImportInv, [Next]_vars, NEW j \in jobs, Running,
                      launch' = "running", j.op = "import", NEW n \in Names,
                      Imported(data'.main, n) > Imported(tables, n)
               PROVE  Imported(data'.main, n) <= Entries(j.file, n)
    OBVIOUS
  <2>1. CASE ImportNext
    <3>1. PICK k \in jobs :
             /\ \A i \in jobs : i.op = "import" => i = k
             /\ Imported(data'.main, n) > Imported(tables, n) =>
                   Imported(data'.main, n) <= Entries(k.file, n)
      BY <2>1, NextEntryFits DEF AppInv
    <3> QED BY <3>1
  <2>2. CASE ~ ImportNext /\ (StoreStep \/ TabStep)
    <3>1. /\ Imported(data'.main, n) <= Imported(tables, n)
          /\ Imported(data'.main, n) \in Nat /\ Imported(tables, n) \in Nat
      BY <2>2, ImportsGrowByOne DEF AppInv
    <3> QED BY <3>1
  <2>3. CASE UNCHANGED data
    <3>1. Imported(tables, n) \in Nat
      <4>1. IsFiniteSet(DOMAIN tables.conns)
        BY StoredWhileRunning DEF AppInv
      <4> QED BY <4>1, ImportsAreCounted
    <3> QED BY <2>3, <3>1
  <2>4. UNCHANGED data \/ StoreStep \/ TabStep
    <3>1. ~ (LaunchStep \/ DatabaseOpened \/ AppStops)
      BY DEF LaunchStep, Launch, CopySidecars, CopyDatabase, RenameDatabase,
         AdoptionFails, OldVersionRuns, DatabaseOpened, OpenDatabase, AppStops, Stops,
         Running
    <3> QED BY <3>1 DEF Next, StoreStep, TabStep, vars, fileVars
  <2> QED BY <2>1, <2>2, <2>3, <2>4
<1> QED BY <1>1, <1>2, <1>3, PTL DEF Spec, ImportIsRepeatable
=============================================================================
