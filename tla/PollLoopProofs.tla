---------------------------- MODULE PollLoopProofs ----------------------------
(***************************************************************************)
(* A fetch of any topic, with any filter: what the loop takes from each    *)
(* partition is the oldest of what the filter selects, all of it when its  *)
(* partitions end it, within every limit, and one message past the byte    *)
(* budget at most.                                                         *)
(*                                                                         *)
(* The argument.  For each partition with work, the offsets below its      *)
(* position are accounted for: one that is wanted has been taken, or is    *)
(* queued at the partition's shard, or came when the partition had nothing *)
(* left to contribute, after everything that was taken (AnsweredFor).  An  *)
(* announced end, or a record past the filter, therefore means that there  *)
(* is nothing left to want (Announced), so that a finished partition is    *)
(* complete or exhausted (Finished).  What is queued of a partition is one *)
(* event, at its own shard (Dealt): handing it over disturbs no other      *)
(* partition (HandOverQueue, Handled).  Before the plan nothing has been   *)
(* read, and only the windows are to be looked at (Fresh, FreshInv).       *)
(***************************************************************************)
EXTENDS PollLoop, BasicLemmas, SequenceTheorems

\* Every consumer there may be, whether the plan uses it or not.
Shard == 0 .. MAX_FETCH_SHARDS - 1

\* What has arrived at some shard.
Queued(e) == \E s \in Shard : \E i \in DOMAIN queue[s] : queue[s][i] = e

\* A partition holds its records between its watermarks.
LogsOK ==
    \A p \in Partitions :
        /\ log[p].low <= log[p].end
        /\ log[p].records \subseteq log[p].low .. log[p].end - 1

\* No window reaches past its partition, nor past the To time.
Windowed ==
    \A p \in Partitions :
        /\ high[p] <= log[p].end /\ end[p] <= log[p].end
        /\ filter.to # None =>
              \A o \in log[p].records : o < end[p] => o < filter.to

\* The From time resolved no earlier than it, or than the high watermark
\* read before.
FromResolved ==
    phase \in {"to", "plan"} /\ filter.from # None =>
        \A p \in Partitions : fromOffset[p] >= Min({filter.from, high[p]})

\* Reading starts where the filter says.
StartsRight ==
    \A p \in Working :
        /\ filter.offset # None => start[p] >= Min({filter.offset, high[p]})
        /\ filter.from # None => start[p] >= Min({filter.from, high[p]})

\* Until the plan is made nothing is read or counted.
Fresh ==
    phase \in {"watermarks", "from", "to", "plan"} =>
        /\ remaining = Nowhere /\ taken = [p \in Partitions |-> <<>>]
        /\ finished = {} /\ unfinished = 0
        /\ queue = [s \in Shard |-> <<>>]
        /\ nextShard = 0 /\ swept = 0

\* What the while of the loop has seen to when it polls.
Polling ==
    /\ phase = "poll" => idle < MaxIdle /\ ~stoppedAtByteBudget
    /\ ~stoppedAtByteBudget /\ filter.bytes # None => bytes < filter.bytes

\* Each partition has one event queued at most, at its own shard.
Dealt ==
    \A s \in Shard : \A i \in DOMAIN queue[s] :
        /\ queue[s][i].partition \in Working
        /\ ShardOf(queue[s][i].partition) = s
        /\ \A j \in DOMAIN queue[s] :
              queue[s][j].partition = queue[s][i].partition => i = j

\* What was taken is wanted, oldest first, and behind the position.
Ordered(p) ==
    /\ Held(p) \subseteq Wanted(p)
    /\ \A i, j \in DOMAIN taken[p] : i < j => taken[p][i] < taken[p][j]
    /\ \A h \in Held(p) : h < position[p]
    /\ start[p] <= position[p]

\* A queued event is the next record wanted, or says that there is none.
Announced(p, o) ==
    IF o # None /\ o < end[p]
    THEN o \in Wanted(p) /\ o < position[p] /\ \A h \in Held(p) : h < o
    ELSE end[p] <= position[p]

\* A record that came when its partition had no more to contribute.
Skipped(p, o) == remaining[p] = 0 /\ \A h \in Held(p) : h < o

\* No wanted record is passed over without a reason.
AnsweredFor(p) ==
    \A o \in Wanted(p) :
        o < position[p] /\ ~Queued([partition |-> p, offset |-> o])
        => o \in Held(p) \/ Skipped(p, o)

\* What is true of each partition that has work.
Reading ==
    \A p \in Working :
        /\ Ordered(p) /\ AnsweredFor(p)
        /\ \A o \in Option(Offsets) :
              Queued([partition |-> p, offset |-> o]) => Announced(p, o)

\* A finished partition has given all that it may, and is counted once.
Finished ==
    /\ finished \subseteq Working
    /\ \A p \in finished : remaining[p] = 0 \/ Wanted(p) \subseteq Held(p)
    /\ UnfinishedCountsThem

\* What each partition has given.
Lengths == [p \in Partitions |-> Len(taken[p])]
\* What each partition may give.
AllLimits == [p \in Partitions |-> Limit(p)]

\* The limits keep to the matches, to the total asked for and to the cap.
LoadLimits ==
    /\ SumFunction(AllLimits) <= matching
    /\ filter.total # None => SumFunction(AllLimits) <= filter.total
    /\ \A p \in Partitions : Limit(p) <= EffectiveMax(filter.cap)

\* The inductive invariant.
IInv ==
    /\ TypeOK /\ LogsOK /\ Windowed /\ FromResolved /\ StartsRight /\ Fresh
    /\ Polling /\ Dealt /\ Reading /\ Finished /\ LoadLimits
-----------------------------------------------------------------------------
\* Offsets are naturals, and None is none of them.
LEMMA OptionFacts ==
    /\ None \notin Int /\ None \notin Offsets
    /\ \A o \in Offsets : o \in Int /\ o \in Nat /\ o <= MaxOffset
    /\ \A S, x : x \in Option(S) /\ x # None => x \in S
    /\ Offsets \subseteq Nat /\ MaxOffset \in Nat
    /\ \A o \in Nat : o <= MaxOffset => o \in Offsets
BY FetchWindowAssumption, PollLoopAssumption DEF Option, Offsets

\* The types of what a filter asks for.
LEMMA FilterFacts ==
    ASSUME filter \in Filters
    PROVE  /\ filter.offset # None => filter.offset \in Nat
           /\ filter.from # None => filter.from \in Nat
           /\ filter.to # None => filter.to \in Nat
           /\ filter.total # None => filter.total \in Nat
           /\ filter.bytes # None => filter.bytes \in Nat \ {0}
           /\ EffectiveMax(filter.cap) \in Nat
BY PollLoopAssumption, FetchWindowAssumption
   DEF Filter, Option, EffectiveMax

\* There is a shard, and never more than MAX_FETCH_SHARDS.
LEMMA ShardCountFacts ==
    ASSUME NEW n \in Nat
    PROVE  ShardCount(n) \in 1 .. MAX_FETCH_SHARDS
PROOF
<1>1. MAX_FETCH_SHARDS \in Nat \ {0}
  BY FetchWindowAssumption
<1> DEFINE m == Min({n, MAX_FETCH_SHARDS})
<1>2. m \in Int /\ m <= MAX_FETCH_SHARDS
  BY <1>1, MinOfTwo
<1> HIDE DEF m
<1>3. Max({1, m}) \in 1 .. MAX_FETCH_SHARDS
  BY <1>1, <1>2, MaxOfTwo
<1> QED BY <1>3 DEF ShardCount, m

\* Each partition is dealt to one of the shards in use.
LEMMA ShardsFacts ==
    /\ IsFiniteSet(Working) /\ Cardinality(Working) \in Nat
    /\ Cardinality(Shards) \in Nat \ {0}
    /\ Shards = 0 .. Cardinality(Shards) - 1
    /\ Shards \subseteq Shard
    /\ \A p \in Partitions : ShardOf(p) \in Shards
PROOF
<1>1. IsFiniteSet(Working) /\ Cardinality(Working) \in Nat
  <2>1. Working \subseteq Partitions
    BY DEF Working
  <2> QED BY <2>1, PollLoopAssumption, FS_Subset, FS_CardinalityType
<1> DEFINE n == ShardCount(Cardinality(Working))
<1>2. n \in 1 .. MAX_FETCH_SHARDS /\ MAX_FETCH_SHARDS \in Nat
  BY <1>1, ShardCountFacts, FetchWindowAssumption
<1>3. Shards = 0 .. n - 1
  BY DEF Shards
<1> HIDE DEF n
<1>4. Cardinality(Shards) = n
  BY <1>2, <1>3, FS_Interval
<1>5. ASSUME NEW p \in Partitions PROVE ShardOf(p) \in Shards
  <2> DEFINE c == Cardinality({q \in Working : q < p})
  <2>1. IsFiniteSet({q \in Working : q < p})
    BY <1>1, FS_Subset
  <2>2. c \in Nat
    BY <2>1, FS_CardinalityType
  <2>3. c % n \in 0 .. n - 1
    <3> HIDE DEF c
    <3> QED BY <2>2, <1>2
  <2> QED BY <2>3, <1>3 DEF ShardOf, n
<1> QED BY <1>1, <1>2, <1>3, <1>4, <1>5 DEF Shard

\* The type invariant, partition by partition.
LEMMA TypeFacts ==
    ASSUME TypeOK
    PROVE  /\ log \in [Partitions -> Log] /\ filter \in Filters
           /\ \A p \in Partitions :
                 /\ log[p].low \in Offsets /\ log[p].end \in Offsets
                 /\ log[p].records \in SUBSET Offsets
                 /\ low[p] \in Offsets /\ high[p] \in Offsets
                 /\ fromOffset[p] \in Offsets
                 /\ start[p] \in Offsets /\ end[p] \in Offsets
                 /\ position[p] \in Offsets
                 /\ remaining[p] \in Nat /\ taken[p] \in Seq(Offsets)
                 /\ Len(taken[p]) \in Nat /\ Limit(p) \in Nat
           /\ \A s \in Shard : queue[s] \in Seq(Events)
           /\ nextShard \in Shards /\ nextShard \in Shard
PROOF
<1>1. /\ log \in [Partitions -> Log] /\ filter \in Filters
      /\ low \in [Partitions -> Offsets] /\ high \in [Partitions -> Offsets]
      /\ fromOffset \in [Partitions -> Offsets]
      /\ start \in [Partitions -> Offsets] /\ end \in [Partitions -> Offsets]
      /\ position \in [Partitions -> Offsets]
      /\ remaining \in [Partitions -> Nat]
      /\ taken \in [Partitions -> Seq(Offsets)]
      /\ queue \in [Shard -> Seq(Events)] /\ nextShard \in Shards
  BY DEF TypeOK, Shard
<1>2. ASSUME NEW p \in Partitions
      PROVE  /\ log[p].low \in Offsets /\ log[p].end \in Offsets
             /\ log[p].records \in SUBSET Offsets
  BY <1>1 DEF Log
<1>3. ASSUME NEW p \in Partitions
      PROVE  Len(taken[p]) \in Nat /\ Limit(p) \in Nat
  BY <1>1 DEF Limit
<1> QED BY <1>1, <1>2, <1>3, ShardsFacts

\* A sum over the partitions is a natural number.
LEMMA SumOfPartitions ==
    ASSUME NEW f \in [Partitions -> Nat]
    PROVE  /\ SumFunction(f) \in Nat
           /\ SumFunction(f) = SumFunctionOnSet(f, Partitions)
PROOF
<1>1. IsFiniteSet(Partitions) /\ \A x \in Partitions : f[x] \in Nat
  BY PollLoopAssumption
<1>2. SumFunctionOnSet(f, Partitions) \in Nat
  BY <1>1, SumIsNat
<1> QED BY <1>2 DEF SumFunction

\* Sums over the partitions compare as their terms do.
LEMMA SumsCompare ==
    ASSUME NEW f \in [Partitions -> Nat], NEW g \in [Partitions -> Nat],
           \A p \in Partitions : f[p] <= g[p]
    PROVE  SumFunction(f) <= SumFunction(g)
PROOF
<1>1. /\ IsFiniteSet(Partitions)
      /\ \A x \in Partitions : f[x] \in Int /\ g[x] \in Int /\ f[x] <= g[x]
  BY PollLoopAssumption
<1>2. SumFunctionOnSet(f, Partitions) <= SumFunctionOnSet(g, Partitions)
  BY <1>1, SumMonotone
<1> QED BY <1>2, SumOfPartitions
-----------------------------------------------------------------------------
\* What a time resolves to: within the partition, with every record below it
\* older than the time, and no earlier than the time or the high watermark.
LEMMA OffsetAtFacts ==
    ASSUME TypeOK, LogsOK, Windowed, NEW p \in Partitions, NEW time \in Nat
    PROVE  /\ OffsetAt(p, time) \in Offsets
           /\ OffsetAt(p, time) <= log[p].end
           /\ OffsetAt(p, time) >= Min({time, high[p]})
           /\ \A o \in log[p].records : o < OffsetAt(p, time) => o < time
PROOF
<1> DEFINE later == {o \in log[p].records : o >= time}
<1>1. /\ high[p] \in Offsets /\ log[p].end \in Offsets
      /\ log[p].low \in Offsets /\ log[p].records \in SUBSET Offsets
      /\ high[p] <= log[p].end
      /\ log[p].records \subseteq log[p].low .. log[p].end - 1
      /\ Offsets \subseteq Nat
  BY TypeFacts, OptionFacts DEF LogsOK, Windowed
<1> DEFINE least == Min({time, high[p]})
<1>2. least \in Nat /\ least <= time /\ least <= high[p]
  <2>1. high[p] \in Nat
    BY <1>1
  <2> QED BY <2>1, MinOfTwo
<1> HIDE DEF least
<1>4. CASE later = {}
  <2>1. OffsetAt(p, time) = high[p]
    BY <1>4 DEF OffsetAt
  <2>2. \A o \in log[p].records : o < time
    BY <1>1, <1>4
  <2> QED BY <1>1, <1>2, <2>1, <2>2 DEF least
<1>5. CASE later # {}
  <2>1. OffsetAt(p, time) = Min(later)
    BY <1>5 DEF OffsetAt
  <2>2. later \in SUBSET Nat
    BY <1>1
  <2>3. Min(later) \in later /\ \A o \in later : Min(later) <= o
    BY <2>2, <1>5, MinOfNaturals
  <2>4. /\ OffsetAt(p, time) \in log[p].records /\ OffsetAt(p, time) >= time
        /\ \A o \in log[p].records : o >= time => OffsetAt(p, time) <= o
    BY <2>1, <2>3
  <2>5. \A o \in log[p].records : o < OffsetAt(p, time) => o < time
    BY <1>1, <2>4
  <2>6. /\ OffsetAt(p, time) \in log[p].low .. log[p].end - 1
        /\ log[p].low \in Nat /\ log[p].end \in Nat
    BY <1>1, <2>4
  <2>7. OffsetAt(p, time) <= log[p].end /\ OffsetAt(p, time) \in Nat
    BY <2>6
  <2>8. OffsetAt(p, time) >= Min({time, high[p]})
    BY <1>2, <2>4, <2>7 DEF least
  <2> QED BY <1>1, <2>4, <2>5, <2>7, <2>8
<1> QED BY <1>4, <1>5

\* Clamping an offset to the watermarks keeps it, or moves it to the nearer
\* of them.
LEMMA ClampFacts ==
    ASSUME NEW o \in Nat, NEW l \in Offsets, NEW h \in Offsets
    PROVE  Clamp(o, l, h) \in Offsets /\ Clamp(o, l, h) >= Min({o, h})
PROOF
<1>1. /\ l \in Nat /\ h \in Nat /\ l <= MaxOffset /\ h <= MaxOffset
      /\ MaxOffset \in Nat
  BY PollLoopAssumption DEF Offsets
<1> DEFINE m == Min({o, h})
<1>2. m \in Nat /\ m <= h
  BY <1>1, MinOfTwo
<1> HIDE DEF m
<1>3. Max({l, m}) = IF l >= m THEN l ELSE m
  BY <1>1, <1>2, MaxOfTwo
<1>4. Clamp(o, l, h) = Max({l, m})
  BY DEF Clamp, m
<1>5. Clamp(o, l, h) \in Offsets /\ Clamp(o, l, h) >= m
  BY <1>1, <1>2, <1>3, <1>4 DEF Offsets
<1> QED BY <1>5 DEF m

\* The combined start is no earlier than either of what it combines.
LEMMA CombinedFacts ==
    ASSUME NEW a \in Option(Offsets), NEW b \in Option(Offsets),
           a # None \/ b # None
    PROVE  /\ CombinedStart(a, b) \in Offsets
           /\ a # None => CombinedStart(a, b) >= a
           /\ b # None => CombinedStart(a, b) >= b
PROOF
<1>1. /\ a # None => a \in Offsets
      /\ b # None => b \in Offsets
      /\ \A o \in Offsets : o \in Int
  BY OptionFacts DEF Option
<1> DEFINE first == CombinedStart(a, b)
<1>2. CASE a # None /\ b # None
  <2>0. a \in Int /\ b \in Int
    BY <1>1, <1>2
  <2>1. {a, b} \ {None} = {a, b}
    BY <1>2
  <2>2. CombinedStart(a, b) = IF a >= b THEN a ELSE b
    BY <2>0, <2>1, MaxOfTwo DEF CombinedStart
  <2> HIDE DEF first
  <2>3. first = IF a >= b THEN a ELSE b
    BY <2>2 DEF first
  <2>4. first \in Offsets /\ first >= a /\ first >= b
    BY <1>1, <1>2, <2>0, <2>3
  <2> QED BY <2>4 DEF first
<1>3. CASE a # None /\ b = None
  <2>1. {a, b} \ {None} = {a, a}
    BY <1>3
  <2>2. a \in Int
    BY <1>1, <1>3
  <2>3. Max({a, a}) = a
    BY <2>2, MaxOfTwo
  <2> HIDE DEF first
  <2>4. first = a
    BY <2>1, <2>3 DEF CombinedStart, first
  <2>5. first \in Offsets /\ first >= a
    BY <1>1, <1>3, <2>2, <2>4
  <2> QED BY <2>5, <1>3 DEF first
<1>4. CASE a = None /\ b # None
  <2>1. {a, b} \ {None} = {b, b}
    BY <1>4
  <2>2. b \in Int
    BY <1>1, <1>4
  <2>3. Max({b, b}) = b
    BY <2>2, MaxOfTwo
  <2> HIDE DEF first
  <2>4. first = b
    BY <2>1, <2>3 DEF CombinedStart, first
  <2>5. first \in Offsets /\ first >= b
    BY <1>1, <1>4, <2>2, <2>4
  <2> QED BY <2>5, <1>4 DEF first
<1> QED BY <1>2, <1>3, <1>4

\* The start of the filter's window: an offset, past every bound asked for.
LEMMA FilterStartFacts ==
    ASSUME TypeOK
    PROVE  /\ FilterStart \in [Partitions -> Offsets]
           /\ \A p \in Partitions :
                 /\ filter.offset # None =>
                       FilterStart[p] >= Min({filter.offset, high[p]})
                 /\ filter.from # None => FilterStart[p] >= fromOffset[p]
PROOF
<1> SUFFICES ASSUME NEW p \in Partitions
             PROVE  /\ FilterStart[p] \in Offsets
                    /\ filter.offset # None =>
                          FilterStart[p] >= Min({filter.offset, high[p]})
                    /\ filter.from # None => FilterStart[p] >= fromOffset[p]
  BY DEF FilterStart
<1>1. /\ low[p] \in Offsets /\ high[p] \in Offsets /\ fromOffset[p] \in Offsets
      /\ filter.offset # None => filter.offset \in Nat
      /\ None \notin Int /\ None \notin Offsets
      /\ \A o \in Offsets : o \in Int
  BY TypeFacts, FilterFacts, OptionFacts
<1>2. CASE ~Pinned
  BY <1>1, <1>2 DEF Pinned, FilterStart
<1>3. CASE Pinned
  <2> DEFINE a == IF filter.offset = None THEN None
                  ELSE Clamp(filter.offset, low[p], high[p])
             b == IF filter.from = None THEN None ELSE fromOffset[p]
  <2>1. FilterStart[p] = CombinedStart(a, b)
    BY <1>3 DEF FilterStart
  <2>2. filter.offset # None => /\ a \in Offsets
                                /\ a >= Min({filter.offset, high[p]})
    BY <1>1, ClampFacts
  <2>3. /\ a \in Option(Offsets) /\ b \in Option(Offsets)
        /\ a # None \/ b # None
        /\ filter.offset # None => a # None
        /\ filter.from # None => b # None /\ b = fromOffset[p]
    <3>1. None \notin Offsets
      BY <1>1
    <3>2. filter.offset # None => a \in Offsets /\ a # None
      BY <2>2, <3>1
    <3>3. filter.offset = None => a = None
      OBVIOUS
    <3>4. filter.from # None => b # None /\ b = fromOffset[p] /\ b \in Offsets
      BY <1>1, <3>1
    <3>5. filter.from = None => b = None
      OBVIOUS
    <3> HIDE DEF a, b
    <3> QED BY <1>3, <3>2, <3>3, <3>4, <3>5 DEF Option, Pinned
  <2> HIDE DEF a, b
  <2>4. /\ CombinedStart(a, b) \in Offsets
        /\ a # None => CombinedStart(a, b) >= a
        /\ b # None => CombinedStart(a, b) >= b
    BY <2>3, CombinedFacts
  <2>5. ASSUME filter.offset # None
        PROVE  CombinedStart(a, b) >= Min({filter.offset, high[p]})
    <3>1. filter.offset \in Int /\ high[p] \in Int
      BY <1>1, <2>5
    <3>2. Min({filter.offset, high[p]}) \in Int
      BY <3>1, MinOfTwo
    <3>3. /\ a \in Int /\ a >= Min({filter.offset, high[p]})
          /\ CombinedStart(a, b) \in Int /\ CombinedStart(a, b) >= a
      BY <1>1, <2>2, <2>3, <2>4, <2>5
    <3> HIDE DEF a
    <3> DEFINE c == CombinedStart(a, b)
               m == Min({filter.offset, high[p]})
    <3> HIDE DEF c, m
    <3>4. c >= m
      BY <3>2, <3>3 DEF c, m
    <3> QED BY <3>4 DEF c, m
  <2> QED BY <2>1, <2>3, <2>4, <2>5
<1> QED BY <1>2, <1>3

\* A window's limit is within what it has available, and within the cap.
LEMMA WindowFacts ==
    ASSUME TypeOK
    PROVE  LET available == Available(FilterStart, end)
           IN  /\ available \in [Partitions -> Nat]
               /\ Windows \in [Partitions -> Nat]
               /\ \A p \in Partitions :
                     /\ Windows[p] <= available[p]
                     /\ Windows[p] <= EffectiveMax(filter.cap)
                     /\ available[p] <= MaxOffset
PROOF
<1> DEFINE available == Available(FilterStart, end)
<1>1. DOMAIN FilterStart = Partitions
  BY DEF FilterStart
<1>2. /\ available = [p \in Partitions |-> available[p]]
      /\ Windows = [p \in Partitions |-> Windows[p]]
  BY <1>1 DEF Available, Windows, PartitionLimits
<1>3. ASSUME NEW p \in Partitions
      PROVE  /\ available[p] \in Nat /\ Windows[p] \in Nat
             /\ Windows[p] <= available[p] /\ available[p] <= MaxOffset
             /\ Windows[p] <= EffectiveMax(filter.cap)
  <2>1. /\ FilterStart[p] \in Nat /\ end[p] \in Nat /\ end[p] <= MaxOffset
        /\ MaxOffset \in Nat /\ EffectiveMax(filter.cap) \in Nat
    BY FilterStartFacts, TypeFacts, FilterFacts, PollLoopAssumption DEF Offsets
  <2>2. available[p] = Max({end[p] - FilterStart[p], 0})
    BY <1>1 DEF Available
  <2>3. available[p] \in Nat /\ available[p] <= MaxOffset
    BY <2>1, <2>2, MaxOfTwo
  <2>4. Windows[p] = Min({available[p], EffectiveMax(filter.cap)})
    BY <1>1 DEF Windows, PartitionLimits
  <2> HIDE DEF available
  <2>5. Windows[p] = IF available[p] <= EffectiveMax(filter.cap)
                     THEN available[p] ELSE EffectiveMax(filter.cap)
    BY <2>1, <2>3, <2>4, MinOfTwo
  <2> QED BY <2>1, <2>3, <2>5
<1> HIDE DEF available
<1> QED BY <1>2, <1>3 DEF available

\* A share of the total, or the whole window: never more than the window,
\* and in sum never more than the total.
LEMMA LimitsFacts ==
    ASSUME TypeOK, NEW limits \in Limits
    PROVE  /\ limits \in [Partitions -> Nat]
           /\ \A p \in Partitions : limits[p] <= Windows[p]
           /\ filter.total # None => SumFunction(limits) <= filter.total
PROOF
<1>1. Windows \in [Partitions -> Nat]
  BY WindowFacts
<1>2. CASE filter.total = None
  <2>1. limits = Windows
    BY <1>2 DEF Limits
  <2> QED BY <1>1, <1>2, <2>1
<1>3. CASE filter.total # None
  <2>1. FairShare(limits, Windows, filter.total)
    BY <1>3 DEF Limits
  <2>2. /\ limits \in [Partitions -> Nat]
        /\ \A p \in Partitions : limits[p] <= Windows[p]
        /\ SumFunction(limits) = Min({filter.total, SumFunction(Windows)})
    BY <1>1, <2>1 DEF FairShare
  <2>3. SumFunction(Windows) \in Nat
    BY <1>1, SumOfPartitions
  <2>4. filter.total \in Nat
    BY <1>3, TypeFacts, FilterFacts
  <2> QED BY <2>2, <2>3, <2>4, MinOfTwo
<1> QED BY <1>2, <1>3
-----------------------------------------------------------------------------
\* Where nothing is taken and no limit is set there is no work.
LEMMA NothingTaken ==
    ASSUME remaining = Nowhere, taken = [p \in Partitions |-> <<>>]
    PROVE  /\ \A p \in Partitions : Limit(p) = 0 /\ Held(p) = {}
           /\ Working = {} /\ Shards = {0}
PROOF
<1>1. ASSUME NEW p \in Partitions PROVE Limit(p) = 0 /\ Held(p) = {}
  <2>1. remaining[p] = 0 /\ taken[p] = <<>>
    BY DEF Nowhere
  <2> QED BY <2>1 DEF Limit, Held
<1>2. Working = {}
  BY <1>1 DEF Working
<1>3. Cardinality(Working) = 0
  BY <1>2, FS_EmptySet
<1>4. ShardCount(0) = 1
  <2>1. Min({0, MAX_FETCH_SHARDS}) = 0
    BY FetchWindowAssumption, MinOfTwo
  <2>2. Max({1, 0}) = 1
    BY MaxOfTwo
  <2> QED BY <2>1, <2>2 DEF ShardCount
<1>5. Shards = {0}
  BY <1>3, <1>4 DEF Shards
<1> QED BY <1>1, <1>2, <1>5

\* Before the plan.
NothingRead ==
    /\ remaining = Nowhere /\ taken = [p \in Partitions |-> <<>>]
    /\ finished = {} /\ unfinished = 0 /\ queue = [s \in Shard |-> <<>>]
    /\ filter \in Filters /\ matching \in Nat

\* What the invariant says of reading holds before anything is read.
LEMMA NothingReadInv ==
    NothingRead => StartsRight /\ Dealt /\ Reading /\ Finished /\ LoadLimits
PROOF
<1> SUFFICES ASSUME NothingRead
             PROVE  StartsRight /\ Dealt /\ Reading /\ Finished /\ LoadLimits
  OBVIOUS
<1> USE DEF NothingRead
<1>1. Working = {} /\ \A p \in Partitions : Limit(p) = 0
  BY NothingTaken
<1>2. StartsRight /\ Reading
  BY <1>1 DEF StartsRight, Reading
<1>3. Dealt
  BY DEF Dealt
<1>4. Finished
  BY <1>1, FS_EmptySet DEF Finished, UnfinishedCountsThem
<1>5. LoadLimits
  <2>1. AllLimits \in [Partitions -> Nat]
    BY <1>1 DEF AllLimits
  <2>2. IsFiniteSet(Partitions) /\ \A p \in Partitions : AllLimits[p] = 0
    BY <1>1, PollLoopAssumption DEF AllLimits
  <2>3. SumFunction(AllLimits) = 0
    BY <2>1, <2>2, SumOfZeros, SumOfPartitions
  <2>4. /\ EffectiveMax(filter.cap) \in Nat
        /\ filter.total # None => filter.total \in Nat
    BY FilterFacts
  <2> QED BY <1>1, <2>3, <2>4 DEF LoadLimits
<1> QED BY <1>2, <1>3, <1>4, <1>5

\* A fetch starts in the invariant.
LEMMA InitInv == Init => IInv
PROOF
<1> SUFFICES ASSUME Init PROVE IInv
  OBVIOUS
<1>0. 0 \in Offsets /\ MaxOffset \in Nat /\ MaxIdle \in Nat \ {0}
  BY PollLoopAssumption DEF Offsets
<1>1. Nowhere \in [Partitions -> Offsets] /\ Nowhere \in [Partitions -> Nat]
  BY <1>0 DEF Nowhere
<1>2. remaining = Nowhere /\ taken = [p \in Partitions |-> <<>>]
  BY DEF Init
<1>3. Working = {} /\ Shards = {0}
  BY <1>2, NothingTaken
<1>4. Cardinality(Shards) = 1
  BY <1>3, FS_Singleton
<1>5. /\ log \in [Partitions -> Logs] /\ log \in [Partitions -> Log]
      /\ filter \in Filters
  BY PollLoopAssumption DEF Init
<1>6. TypeOK
  <2>1. /\ cancelled \in BOOLEAN /\ phase = "watermarks" /\ matching \in Nat
        /\ finished \subseteq Partitions /\ unfinished \in Nat
        /\ swept \in 0 .. Cardinality(Shards) /\ idle \in 0 .. MaxIdle
        /\ nextShard \in Shards
        /\ bytes \in Nat /\ stoppedAtByteBudget \in BOOLEAN
    <3>1. /\ swept = 0 /\ idle = 0 /\ nextShard = 0 /\ bytes = 0
          /\ matching = 0 /\ unfinished = 0
      BY DEF Init
    <3>2. /\ cancelled = FALSE /\ phase = "watermarks" /\ finished = {}
          /\ stoppedAtByteBudget = FALSE
      BY DEF Init
    <3>3. /\ swept \in 0 .. Cardinality(Shards) /\ idle \in 0 .. MaxIdle
          /\ nextShard \in Shards
      BY <1>0, <1>3, <1>4, <3>1
    <3> QED BY <3>1, <3>2, <3>3
  <2>2. /\ {low, high, fromOffset, start, end}
              \subseteq [Partitions -> Offsets]
        /\ remaining \in [Partitions -> Nat]
        /\ position \in [Partitions -> Offsets]
    BY <1>1 DEF Init
  <2>3. atEnd \in [Partitions -> Option(Offsets)]
    BY DEF Init, Option
  <2>4. /\ queue \in [0 .. MAX_FETCH_SHARDS - 1 -> Seq(Events)]
        /\ taken \in [Partitions -> Seq(Offsets)]
    BY DEF Init
  <2> QED BY <1>5, <2>1, <2>2, <2>3, <2>4 DEF TypeOK
<1>7. LogsOK
  BY <1>5, PollLoopAssumption DEF LogsOK
<1>8. Windowed
  <2> SUFFICES ASSUME NEW p \in Partitions
               PROVE  /\ high[p] <= log[p].end /\ end[p] <= log[p].end
                      /\ \A o \in log[p].records : ~(o < end[p])
    BY DEF Windowed
  <2>1. high[p] = 0 /\ end[p] = 0
    BY DEF Init, Nowhere
  <2>2. log[p].end \in Nat /\ \A o \in log[p].records : o \in Nat
    BY <1>6, TypeFacts, OptionFacts
  <2> QED BY <2>1, <2>2
<1>9. FromResolved
  BY DEF Init, FromResolved
<1>10. Fresh
  BY DEF Init, Fresh, Shard
<1>11. Polling
  <2>1. filter.bytes # None => filter.bytes \in Nat \ {0}
    BY <1>5, FilterFacts
  <2> QED BY <2>1 DEF Init, Polling
<1>12. StartsRight /\ Dealt /\ Reading /\ Finished /\ LoadLimits
  <2>1. matching \in Nat
    BY DEF Init
  <2> QED BY <1>2, <1>5, <2>1, NothingReadInv DEF Init, Shard, NothingRead
<1> QED BY <1>6, <1>7, <1>8, <1>9, <1>10, <1>11, <1>12 DEF IInv
-----------------------------------------------------------------------------
\* What the invariant's account of reading depends on.
readVars == <<log, filter, high, start, end, matching, remaining, finished,
              unfinished, taken, position, queue>>

\* The invariant's account of reading.
ReadInv ==
    /\ LogsOK /\ Windowed /\ StartsRight
    /\ Dealt /\ Reading /\ Finished /\ LoadLimits

\* A step that reads nothing keeps the account.
LEMMA ReadInvStays == ReadInv /\ UNCHANGED readVars => ReadInv'
PROOF
<1> SUFFICES ASSUME ReadInv, UNCHANGED readVars PROVE ReadInv'
  OBVIOUS
<1> USE DEF readVars
<1>1. LogsOK' /\ Windowed'
  BY DEF ReadInv, LogsOK, Windowed
<1>2. /\ \A p : Limit(p)' = Limit(p)
      /\ Working' = Working
      /\ \A p : ShardOf(p)' = ShardOf(p)
      /\ \A p : Held(p)' = Held(p) /\ Wanted(p)' = Wanted(p)
      /\ \A e : Queued(e)' <=> Queued(e)
      /\ AllLimits' = AllLimits
  BY DEF Limit, Working, ShardOf, Held, Wanted, Queued, AllLimits
<1>3. StartsRight'
  BY <1>2 DEF ReadInv, StartsRight
<1>4. Dealt'
  BY <1>2 DEF ReadInv, Dealt
<1>5. Reading'
  BY <1>2 DEF ReadInv, Reading, Ordered, AnsweredFor, Announced, Skipped
<1>6. Finished'
  BY <1>2 DEF ReadInv, Finished, UnfinishedCountsThem
<1>7. LoadLimits'
  BY <1>2 DEF ReadInv, LoadLimits
<1> QED BY <1>1, <1>3, <1>4, <1>5, <1>6, <1>7 DEF ReadInv

\* The shards follow from the limits of the partitions.
LEMMA ShardsStay ==
    ASSUME \A p \in Partitions : Limit(p)' = Limit(p)
    PROVE  /\ Working' = Working /\ Shards' = Shards
           /\ \A p : ShardOf(p)' = ShardOf(p)
           /\ AllLimits' = AllLimits
PROOF
<1>1. Working' = Working
  BY DEF Working
<1>2. Shards' = Shards /\ \A p : ShardOf(p)' = ShardOf(p)
  BY <1>1 DEF Shards, ShardOf
<1>3. AllLimits' = AllLimits
  BY DEF AllLimits
<1> QED BY <1>1, <1>2, <1>3

\* A step that counts nothing leaves the shards as they are.
LEMMA CountsStay ==
    ASSUME UNCHANGED countVars
    PROVE  Shards' = Shards
PROOF
<1>1. \A p \in Partitions : Limit(p)' = Limit(p)
  BY DEF countVars, Limit
<1> QED BY <1>1, ShardsStay

\* A Stop changes nothing but its flag.
LEMMA StopInv == IInv /\ Stop => IInv'
PROOF
<1> SUFFICES ASSUME IInv, Stop PROVE IInv'
  OBVIOUS
<1> USE DEF Stop
<1>1. Shards' = Shards
  BY CountsStay
<1>2. TypeOK'
  BY <1>1 DEF IInv, TypeOK, logVars, planVars, countVars, brokerVars, turnVars
<1>3. FromResolved' /\ Fresh' /\ Polling'
  BY DEF IInv, FromResolved, Fresh, Polling, logVars, planVars, countVars,
         turnVars
<1>4. ReadInv'
  BY ReadInvStays DEF IInv, ReadInv, readVars, logVars, planVars, countVars,
     brokerVars
<1> QED BY <1>2, <1>3, <1>4 DEF IInv, ReadInv

\* A set-up that fails, or is stopped, has read nothing.
LEMMA SetupEndsInv ==
    ASSUME IInv,
           \/ StoppedEarly
           \/ \E during \in {"watermarks", "from", "to", "plan"} : Fail(during)
    PROVE  IInv'
PROOF
<1>1. /\ phase' \in {"over", "failed"}
      /\ UNCHANGED <<logVars, cancelled, planVars, countVars, brokerVars,
                     queue, turnVars, idle>>
  BY DEF StoppedEarly, Fail
<1>2. Shards' = Shards
  BY <1>1, CountsStay
<1>3. TypeOK'
  BY <1>1, <1>2 DEF IInv, TypeOK, logVars, planVars, countVars, brokerVars,
     turnVars
<1>4. FromResolved' /\ Fresh' /\ Polling'
  BY <1>1 DEF IInv, FromResolved, Fresh, Polling, logVars, countVars
<1>5. ReadInv'
  BY <1>1, ReadInvStays DEF IInv, ReadInv, readVars, logVars, planVars,
     countVars, brokerVars
<1> QED BY <1>3, <1>4, <1>5 DEF IInv, ReadInv

\* Before the plan, only the windows are to be looked at.
LEMMA FreshInv ==
    ASSUME IInv, TypeOK', Windowed', UNCHANGED <<log, filter>>,
           phase \in {"watermarks", "from", "to"},
           UNCHANGED <<countVars, queue, turnVars, matching>>
    PROVE  /\ phase' \in {"from", "to", "plan"} => Fresh' /\ Polling'
           /\ LogsOK' /\ StartsRight' /\ Dealt' /\ Reading' /\ Finished'
           /\ LoadLimits'
PROOF
<1> USE DEF countVars, turnVars
<1>1. Fresh /\ TypeOK /\ LogsOK /\ Polling
  BY DEF IInv
<1>2. /\ remaining' = Nowhere /\ taken' = [p \in Partitions |-> <<>>]
      /\ finished' = {} /\ unfinished' = 0
      /\ queue' = [s \in Shard |-> <<>>]
      /\ nextShard' = 0 /\ swept' = 0
  BY <1>1 DEF Fresh
<1>3. LogsOK'
  BY <1>1 DEF LogsOK
<1>4. filter' \in Filters /\ matching' \in Nat
  BY DEF TypeOK
<1>5. (StartsRight /\ Dealt /\ Reading /\ Finished /\ LoadLimits)'
  <2>1. NothingRead'
    BY <1>2, <1>4 DEF NothingRead, Nowhere, Shard
  <2>2. NothingRead' =>
           (StartsRight /\ Dealt /\ Reading /\ Finished /\ LoadLimits)'
    BY NothingReadInv, PTL
  <2> QED BY <2>1, <2>2
<1>6. ASSUME phase' \in {"from", "to", "plan"} PROVE Fresh' /\ Polling'
  <2>1. Fresh'
    BY <1>2 DEF Fresh, Nowhere, Shard
  <2>2. Polling'
    BY <1>1, <1>6 DEF Polling
  <2> QED BY <2>1, <2>2
<1> QED BY <1>3, <1>5, <1>6

\* The watermarks, read once.
LEMMA WatermarksInv == IInv /\ Watermarks => IInv'
PROOF
<1> SUFFICES ASSUME IInv, Watermarks PROVE IInv'
  OBVIOUS
<1> USE DEF Watermarks
<1>1. Shards' = Shards
  BY CountsStay
<1>2. TypeOK
  BY DEF IInv
<1>3. low' \in [Partitions -> Offsets] /\ high' \in [Partitions -> Offsets]
  BY <1>2, TypeFacts
<1>4. TypeOK'
  BY <1>1, <1>2, <1>3 DEF TypeOK, logVars, countVars, brokerVars, turnVars
<1>5. Windowed'
  <2>1. \A p \in Partitions : log[p].end \in Nat
    BY <1>2, TypeFacts, OptionFacts
  <2> QED BY <2>1 DEF IInv, Windowed, logVars
<1>6. FromResolved'
  BY DEF FromResolved
<1>7. /\ UNCHANGED <<log, filter, countVars, queue, turnVars, matching>>
      /\ phase = "watermarks" /\ phase' = "from"
  BY DEF logVars
<1> HIDE DEF Watermarks
<1> QED BY <1>4, <1>5, <1>6, <1>7, FreshInv DEF IInv

\* The From time, resolved after the watermarks.
LEMMA ResolveFromInv == IInv /\ ResolveFrom => IInv'
PROOF
<1> SUFFICES ASSUME IInv, ResolveFrom PROVE IInv'
  OBVIOUS
<1> USE DEF ResolveFrom
<1>1. Shards' = Shards
  BY CountsStay
<1>2. TypeOK /\ LogsOK /\ Windowed
  BY DEF IInv
<1>3. filter.from # None => filter.from \in Nat
  BY <1>2, TypeFacts, FilterFacts
<1>4. fromOffset' \in [Partitions -> Offsets]
  BY <1>2, <1>3, TypeFacts, OffsetAtFacts DEF TypeOK
<1>5. TypeOK'
  BY <1>1, <1>2, <1>4 DEF TypeOK, logVars, countVars, brokerVars, turnVars
<1>6. Windowed'
  BY <1>2 DEF Windowed, logVars
<1>7. FromResolved'
  <2> SUFFICES ASSUME filter.from # None, NEW p \in Partitions
               PROVE  fromOffset'[p] >= Min({filter.from, high[p]})
    BY DEF FromResolved, logVars
  <2>1. fromOffset'[p] = OffsetAt(p, filter.from)
    OBVIOUS
  <2> QED BY <2>1, <1>2, <1>3, OffsetAtFacts
<1>8. /\ UNCHANGED <<log, filter, countVars, queue, turnVars, matching>>
      /\ phase = "from" /\ phase' = "to"
  BY DEF logVars
<1> HIDE DEF ResolveFrom
<1> QED BY <1>5, <1>6, <1>7, <1>8, FreshInv DEF IInv

\* The To time, resolved last.
LEMMA ResolveToInv == IInv /\ ResolveTo => IInv'
PROOF
<1> SUFFICES ASSUME IInv, ResolveTo PROVE IInv'
  OBVIOUS
<1> USE DEF ResolveTo
<1>1. Shards' = Shards
  BY CountsStay
<1>2. TypeOK /\ LogsOK /\ Windowed /\ FromResolved
  BY DEF IInv
<1>3. filter.to # None => filter.to \in Nat
  BY <1>2, TypeFacts, FilterFacts
<1>4. end' \in [Partitions -> Offsets]
  BY <1>2, <1>3, TypeFacts, OffsetAtFacts DEF TypeOK
<1>5. TypeOK'
  BY <1>1, <1>2, <1>4 DEF TypeOK, logVars, countVars, brokerVars, turnVars
<1>6. Windowed'
  <2> SUFFICES ASSUME NEW p \in Partitions
               PROVE  /\ high[p] <= log[p].end /\ end'[p] <= log[p].end
                      /\ filter.to # None =>
                            \A o \in log[p].records :
                               o < end'[p] => o < filter.to
    BY DEF Windowed, logVars
  <2>1. CASE filter.to = None
    BY <2>1, <1>2 DEF Windowed
  <2>2. CASE filter.to # None
    <3>1. end'[p] = OffsetAt(p, filter.to)
      BY <2>2
    <3> QED BY <2>2, <3>1, <1>2, <1>3, OffsetAtFacts DEF Windowed
  <2> QED BY <2>1, <2>2
<1>7. FromResolved'
  BY <1>2 DEF FromResolved, logVars
<1>8. /\ UNCHANGED <<log, filter, countVars, queue, turnVars, matching>>
      /\ phase = "to" /\ phase' = "plan"
  BY DEF logVars
<1> HIDE DEF ResolveTo
<1> QED BY <1>5, <1>6, <1>7, <1>8, FreshInv DEF IInv
-----------------------------------------------------------------------------
\* A record that arrives later is past every window.
LEMMA ProduceInv ==
    ASSUME IInv, NEW p \in Partitions, Produce(p)
    PROVE  IInv'
PROOF
<1>1. /\ log[p].end < MaxOffset
      /\ \/ log' = [log EXCEPT ![p].end = @ + 1,
                               ![p].records = @ \union {log[p].end}]
         \/ log' = [log EXCEPT ![p].end = @ + 1]
      /\ UNCHANGED <<filter, cancelled, phase, planVars, countVars,
                     brokerVars, queue, turnVars, idle>>
  BY DEF Produce
<1>2. TypeOK /\ LogsOK /\ Windowed
  BY DEF IInv
<1>3. /\ log \in [Partitions -> Log] /\ MaxOffset \in Nat
      /\ log[p].end \in Nat /\ log[p].low \in Nat
      /\ log[p].records \in SUBSET Offsets
      /\ \A o \in log[p].records : o \in Nat
  BY <1>2, TypeFacts, OptionFacts
<1> DEFINE e == log[p].end
<1>4. /\ log'[p].low = log[p].low /\ log'[p].end = e + 1
      /\ log'[p].records \in {log[p].records, log[p].records \union {e}}
      /\ \A q \in Partitions \ {p} : log'[q] = log[q]
  BY <1>1, <1>3 DEF Log
<1>5. e \in Offsets /\ e + 1 \in Offsets
  BY <1>1, <1>3, OptionFacts
<1>6. log' \in [Partitions -> Log]
  BY <1>1, <1>3, <1>5 DEF Log
<1>7. Shards' = Shards
  BY <1>1, CountsStay
<1>8. TypeOK'
  BY <1>1, <1>2, <1>6, <1>7 DEF TypeOK, planVars, countVars, brokerVars,
     turnVars
<1>9. LogsOK'
  <2> SUFFICES ASSUME NEW q \in Partitions
               PROVE  /\ log'[q].low <= log'[q].end
                      /\ log'[q].records
                            \subseteq log'[q].low .. log'[q].end - 1
    BY DEF LogsOK
  <2>1. CASE q # p
    BY <2>1, <1>2, <1>4 DEF LogsOK
  <2>2. CASE q = p
    <3>1. /\ log[p].low <= e
          /\ log[p].records \subseteq log[p].low .. e - 1
      BY <1>2 DEF LogsOK
    <3>2. e \in log[p].low .. e
      BY <1>3, <3>1
    <3>3. log[p].records \subseteq log[p].low .. e
      BY <1>3, <3>1
    <3>4. log'[p].records \subseteq log[p].low .. e
      BY <1>4, <3>2, <3>3
    <3> QED BY <2>2, <1>3, <1>4, <3>1, <3>4
  <2> QED BY <2>1, <2>2
<1>10. /\ \A q \in Partitions : high[q] \in Nat /\ end[q] \in Nat
       /\ end[p] <= e /\ high[p] <= e
  BY <1>2, TypeFacts, OptionFacts DEF Windowed
<1>11. Windowed'
  <2> SUFFICES ASSUME NEW q \in Partitions
               PROVE  /\ high[q] <= log'[q].end /\ end[q] <= log'[q].end
                      /\ filter.to # None =>
                            \A o \in log'[q].records :
                               o < end[q] => o < filter.to
    BY <1>1 DEF Windowed, planVars
  <2>1. CASE q # p
    BY <2>1, <1>2, <1>4 DEF Windowed
  <2>2. CASE q = p
    <3>1. high[p] <= e + 1 /\ end[p] <= e + 1 /\ ~(e < end[p])
      BY <1>3, <1>10
    <3> QED BY <2>2, <3>1, <1>2, <1>4 DEF Windowed
  <2> QED BY <2>1, <2>2
<1>12. /\ \A q : Limit(q)' = Limit(q)
       /\ Working' = Working
       /\ \A q : ShardOf(q)' = ShardOf(q)
       /\ \A q : Held(q)' = Held(q)
       /\ \A x : Queued(x)' <=> Queued(x)
       /\ AllLimits' = AllLimits
  BY <1>1 DEF countVars, Limit, Working, ShardOf, Held, Queued, AllLimits
<1>13. ASSUME NEW q \in Partitions PROVE Wanted(q)' = Wanted(q)
  <2>1. start' = start /\ end' = end
    BY <1>1 DEF planVars
  <2>2. CASE q # p
    BY <2>1, <2>2, <1>4 DEF Wanted
  <2>3. CASE q = p
    <3>1. ~(e < end[p])
      BY <1>3, <1>10
    <3> QED BY <2>1, <2>3, <3>1, <1>4 DEF Wanted
  <2> QED BY <2>2, <2>3
<1>14. FromResolved' /\ Fresh' /\ Polling' /\ StartsRight' /\ Dealt'
  BY <1>1, <1>12 DEF IInv, FromResolved, Fresh, Polling, StartsRight, Dealt,
     planVars, countVars, turnVars
<1>15. Reading'
  <2>1. Working \subseteq Partitions
    BY DEF Working
  <2> QED BY <2>1, <1>1, <1>12, <1>13 DEF IInv, Reading, Ordered, AnsweredFor,
          Announced, Skipped, planVars, countVars, brokerVars
<1>16. Finished'
  <2>1. finished \subseteq Partitions
    BY <1>2 DEF TypeOK
  <2> QED BY <2>1, <1>1, <1>12, <1>13 DEF IInv, Finished,
          UnfinishedCountsThem, countVars
<1>17. LoadLimits'
  BY <1>1, <1>12 DEF IInv, LoadLimits, planVars
<1> QED BY <1>8, <1>9, <1>11, <1>14, <1>15, <1>16, <1>17 DEF IInv
-----------------------------------------------------------------------------
\* The turn passes from a shard to a shard.
LEMMA TurnFacts ==
    ASSUME TypeOK, Turn, Shards' = Shards
    PROVE  nextShard' \in Shards'
PROOF
<1> DEFINE n == Cardinality(Shards)
<1>1. n \in Nat \ {0} /\ Shards = 0 .. n - 1 /\ nextShard \in Shards
  BY ShardsFacts, TypeFacts
<1>2. nextShard' = (nextShard + 1) % n
  BY DEF Turn
<1> HIDE DEF n
<1>3. nextShard + 1 \in Nat
  BY <1>1
<1>4. (nextShard + 1) % n \in 0 .. n - 1
  BY <1>1, <1>3
<1> QED BY <1>1, <1>2, <1>4

\* Looking at the condition of the while.
LEMMA CheckInv == IInv /\ Check => IInv'
PROOF
<1> SUFFICES ASSUME IInv, Check PROVE IInv'
  OBVIOUS
<1> USE DEF Check
<1>1. Shards' = Shards
  BY CountsStay
<1>2. 0 \in 0 .. Cardinality(Shards)
  BY ShardsFacts
<1>3. TypeOK'
  BY <1>1, <1>2 DEF IInv, TypeOK, logVars, planVars, countVars, brokerVars
<1>4. FromResolved' /\ Fresh'
  BY DEF FromResolved, Fresh
<1>5. Polling'
  BY DEF IInv, Polling, MoreToRead, countVars, logVars
<1>6. ReadInv'
  BY ReadInvStays DEF IInv, ReadInv, readVars, logVars, planVars, countVars,
     brokerVars
<1> QED BY <1>3, <1>4, <1>5, <1>6 DEF IInv, ReadInv

\* Passing a shard that has nothing.
LEMMA PollOnInv == IInv /\ PollOn => IInv'
PROOF
<1> SUFFICES ASSUME IInv, PollOn PROVE IInv'
  OBVIOUS
<1> USE DEF PollOn
<1>1. Shards' = Shards
  BY CountsStay
<1>2. nextShard' \in Shards'
  BY <1>1, TurnFacts DEF IInv
<1>3. swept' \in 0 .. Cardinality(Shards)
  BY ShardsFacts DEF IInv, TypeOK
<1>4. TypeOK'
  BY <1>1, <1>2, <1>3 DEF IInv, TypeOK, logVars, planVars, countVars,
     brokerVars
<1>5. FromResolved' /\ Fresh' /\ Polling'
  BY DEF IInv, FromResolved, Fresh, Polling, logVars, countVars
<1>6. ReadInv'
  BY ReadInvStays DEF IInv, ReadInv, readVars, logVars, planVars, countVars,
     brokerVars
<1> QED BY <1>4, <1>5, <1>6 DEF IInv, ReadInv

\* A wait in vain: the idle clock was below its limit.
LEMMA PollNothingInv == IInv /\ PollNothing => IInv'
PROOF
<1> SUFFICES ASSUME IInv, PollNothing PROVE IInv'
  OBVIOUS
<1> USE DEF PollNothing
<1>1. Shards' = Shards
  BY CountsStay
<1>2. nextShard' \in Shards'
  BY <1>1, TurnFacts DEF IInv
<1>3. idle' \in 0 .. MaxIdle
  <2>1. idle \in 0 .. MaxIdle /\ idle < MaxIdle /\ MaxIdle \in Nat
    BY PollLoopAssumption DEF IInv, TypeOK, Polling
  <2> QED BY <2>1
<1>4. TypeOK'
  BY <1>1, <1>2, <1>3 DEF IInv, TypeOK, logVars, planVars, countVars,
     brokerVars
<1>5. FromResolved' /\ Fresh' /\ Polling'
  BY DEF IInv, FromResolved, Fresh, Polling, logVars, countVars
<1>6. ReadInv'
  BY ReadInvStays DEF IInv, ReadInv, readVars, logVars, planVars, countVars,
     brokerVars
<1> QED BY <1>4, <1>5, <1>6 DEF IInv, ReadInv
-----------------------------------------------------------------------------
\* The plan: limits, starts and shards, and nothing read yet.
LEMMA PlanInv == IInv /\ Plan => IInv'
PROOF
<1> SUFFICES ASSUME IInv, Plan PROVE IInv'
  OBVIOUS
<1>1. /\ phase = "plan" /\ phase' = "check"
      /\ UNCHANGED <<logVars, cancelled, low, high, fromOffset, end, finished,
                     taken, bytes, stoppedAtByteBudget, atEnd, queue, turnVars,
                     idle>>
      /\ position' = start'
      /\ matching' = SumFunction(Available(FilterStart, end))
  BY DEF Plan
<1>2. PICK limits \in Limits :
         /\ remaining' = limits
         /\ start' = IF Pinned THEN FilterStart
                     ELSE [p \in Partitions |->
                              NewestFirst(low[p], end[p], limits[p])]
         /\ unfinished' = Cardinality({p \in Partitions : limits[p] > 0})
  BY DEF Plan
<1>3. TypeOK /\ FromResolved /\ Fresh /\ Polling /\ LogsOK /\ Windowed
  BY DEF IInv
<1>4. /\ taken = [p \in Partitions |-> <<>>] /\ finished = {}
      /\ queue = [s \in Shard |-> <<>>] /\ nextShard = 0 /\ swept = 0
  BY <1>1, <1>3 DEF Fresh
<1>5. limits \in [Partitions -> Nat]
  BY <1>3, LimitsFacts
<1>6. ASSUME NEW p \in Partitions
      PROVE  Limit(p)' = limits[p] /\ Held(p)' = {}
  <2>1. taken'[p] = <<>> /\ remaining'[p] = limits[p] /\ limits[p] \in Nat
    BY <1>1, <1>2, <1>4, <1>5
  <2> QED BY <2>1 DEF Limit, Held
<1>7. Working' = {p \in Partitions : limits[p] > 0}
  BY <1>6 DEF Working
<1>8. ASSUME NEW p \in Partitions PROVE start'[p] \in Offsets
  <2>1. CASE Pinned
    BY <2>1, <1>2, <1>3, FilterStartFacts
  <2>2. CASE ~Pinned
    <3>1. start'[p] = Max({end[p] - limits[p], low[p]})
      BY <2>2, <1>2 DEF NewestFirst
    <3>2. /\ end[p] \in Nat /\ end[p] <= MaxOffset /\ limits[p] \in Nat
          /\ low[p] \in Nat /\ low[p] <= MaxOffset
      BY <1>3, <1>5, TypeFacts, OptionFacts
    <3> DEFINE n == end[p] - limits[p]
    <3>3. n \in Int /\ n <= MaxOffset
      BY <3>2, PollLoopAssumption
    <3> HIDE DEF n
    <3>4. Max({n, low[p]}) = IF n >= low[p] THEN n ELSE low[p]
      BY <3>2, <3>3, MaxOfTwo
    <3>5. Max({n, low[p]}) \in Nat /\ Max({n, low[p]}) <= MaxOffset
      BY <3>2, <3>3, <3>4
    <3> QED BY <3>1, <3>5, OptionFacts DEF n
  <2> QED BY <2>1, <2>2
<1>9. start' \in [Partitions -> Offsets]
  <2>1. start' = [p \in Partitions |-> start'[p]]
    BY <1>2 DEF FilterStart
  <2> QED BY <2>1, <1>8
<1>10. matching' \in Nat
  BY <1>1, <1>3, WindowFacts, SumOfPartitions
<1>11. unfinished' = Cardinality(Working') /\ unfinished' \in Nat
  <2>1. IsFiniteSet({p \in Partitions : limits[p] > 0})
    BY PollLoopAssumption, FS_Subset
  <2> QED BY <1>2, <1>7, <2>1, FS_CardinalityType
<1>12. nextShard' \in Shards' /\ swept' \in 0 .. Cardinality(Shards')
  <2>1. (/\ Cardinality(Shards) \in Nat \ {0}
         /\ Shards = 0 .. Cardinality(Shards) - 1)'
    BY ShardsFacts, PTL
  <2>2. nextShard' = 0 /\ swept' = 0
    BY <1>1, <1>4 DEF turnVars
  <2>3. /\ Cardinality(Shards') \in Nat \ {0}
        /\ Shards' = 0 .. Cardinality(Shards') - 1
    BY <2>1
  <2> QED BY <2>2, <2>3
<1>13. TypeOK'
  BY <1>1, <1>2, <1>3, <1>5, <1>9, <1>10, <1>11, <1>12 DEF TypeOK, logVars
<1>14. LogsOK' /\ Windowed'
  BY <1>1, <1>3 DEF LogsOK, Windowed, logVars
<1>15. FromResolved' /\ Fresh' /\ Polling'
  BY <1>1, <1>3 DEF FromResolved, Fresh, Polling, logVars
<1>16. StartsRight'
  <2> SUFFICES ASSUME NEW p \in Partitions
               PROVE  /\ filter.offset # None =>
                            start'[p] >= Min({filter.offset, high[p]})
                      /\ filter.from # None =>
                            start'[p] >= Min({filter.from, high[p]})
    BY <1>1, <1>7 DEF StartsRight, logVars
  <2>1. CASE ~Pinned
    BY <2>1 DEF Pinned
  <2>2. CASE Pinned
    <3>1. start'[p] = FilterStart[p]
      BY <2>2, <1>2
    <3>2. filter.offset # None => start'[p] >= Min({filter.offset, high[p]})
      BY <3>1, <1>3, FilterStartFacts
    <3>3. ASSUME filter.from # None
          PROVE  start'[p] >= Min({filter.from, high[p]})
      <4>1. start'[p] >= fromOffset[p]
        BY <3>1, <3>3, <1>3, FilterStartFacts
      <4>2. fromOffset[p] >= Min({filter.from, high[p]})
        BY <3>3, <1>1, <1>3 DEF FromResolved
      <4>3. /\ filter.from \in Int /\ high[p] \in Int /\ fromOffset[p] \in Int
            /\ start'[p] \in Int
        <5>1. filter.from \in Int
          BY <3>3, <1>3, TypeFacts, FilterFacts
        <5>2. /\ high[p] \in Offsets /\ fromOffset[p] \in Offsets
              /\ start'[p] \in Offsets
          BY <1>3, <1>8, TypeFacts
        <5> QED BY <5>1, <5>2, OptionFacts
      <4> DEFINE m == Min({filter.from, high[p]})
      <4>4. m \in Int
        BY <4>3, MinOfTwo
      <4> HIDE DEF m
      <4>5. start'[p] >= m
        BY <4>1, <4>2, <4>3, <4>4 DEF m
      <4> QED BY <4>5 DEF m
    <3> QED BY <3>2, <3>3
  <2> QED BY <2>1, <2>2
<1>17. \A s \in Shard : DOMAIN queue'[s] = {}
  BY <1>1, <1>4
<1>18. Dealt'
  BY <1>17 DEF Dealt, Shard
<1>19. Reading'
  <2> SUFFICES ASSUME NEW p \in Partitions
               PROVE  /\ Ordered(p)' /\ AnsweredFor(p)'
                      /\ \A o : ~Queued([partition |-> p, offset |-> o])'
    BY <1>7 DEF Reading, Option, Offsets
  <2>1. \A x : ~Queued(x)'
    BY <1>17 DEF Queued, Shard
  <2>2. start'[p] \in Nat /\ position'[p] = start'[p]
    BY <1>1, <1>8, OptionFacts
  <2>3. taken'[p] = <<>> /\ Held(p)' = {}
    BY <1>1, <1>4, <1>6
  <2>4. Ordered(p)'
    BY <2>2, <2>3 DEF Ordered
  <2>5. AnsweredFor(p)'
    <3>1. ASSUME NEW o \in Wanted(p)', o < position'[p] PROVE FALSE
      <4>1. start'[p] <= o /\ o \in log'[p].records
        BY DEF Wanted
      <4>2. o \in Nat
        BY <4>1, <1>1, <1>3, TypeFacts, OptionFacts DEF logVars
      <4> QED BY <4>1, <4>2, <3>1, <2>2
    <3> QED BY <3>1 DEF AnsweredFor
  <2> QED BY <2>1, <2>4, <2>5
<1>20. Finished'
  <2>1. finished' = {}
    BY <1>1, <1>4
  <2>2. Working' \ finished' = Working'
    BY <2>1
  <2> QED BY <2>1, <2>2, <1>11 DEF Finished, UnfinishedCountsThem
<1>21. LoadLimits'
  <2>1. AllLimits' = limits
    <3>1. AllLimits' = [p \in Partitions |-> limits[p]]
      BY <1>6 DEF AllLimits
    <3> QED BY <3>1, <1>5
  <2> DEFINE available == Available(FilterStart, end)
  <2>2. /\ available \in [Partitions -> Nat]
        /\ \A p \in Partitions : /\ Windows[p] <= available[p]
                                 /\ Windows[p] <= EffectiveMax(filter.cap)
                                 /\ Windows[p] \in Nat
    BY <1>3, WindowFacts
  <2>3. \A p \in Partitions : limits[p] <= Windows[p] /\ limits[p] \in Nat
    BY <1>3, <1>5, LimitsFacts
  <2>4. EffectiveMax(filter.cap) \in Nat
    BY <1>3, TypeFacts, FilterFacts
  <2>5. matching' = SumFunction(available)
    BY <1>1
  <2> HIDE DEF available
  <2>6. \A p \in Partitions : /\ limits[p] <= available[p]
                              /\ limits[p] <= EffectiveMax(filter.cap)
    BY <2>2, <2>3, <2>4
  <2>7. SumFunction(limits) <= SumFunction(available)
    BY <1>5, <2>2, <2>6, SumsCompare
  <2>8. filter.total # None => SumFunction(limits) <= filter.total
    BY <1>3, LimitsFacts
  <2>9. \A p \in Partitions : Limit(p)' <= EffectiveMax(filter.cap)
    BY <2>6, <1>6
  <2>10. filter' = filter
    BY <1>1 DEF logVars
  <2> QED BY <2>1, <2>5, <2>7, <2>8, <2>9, <2>10 DEF LoadLimits
<1> QED BY <1>13, <1>14, <1>15, <1>16, <1>18, <1>19, <1>20, <1>21 DEF IInv
-----------------------------------------------------------------------------
\* An event joins the queue of its partition's shard, which had none of it.
LEMMA ArriveQueue ==
    ASSUME TypeOK, Dealt, NEW p \in Working, NEW o \in Option(Offsets),
           UNCHANGED countVars,
           \A i \in DOMAIN queue[ShardOf(p)] :
              queue[ShardOf(p)][i].partition # p,
           queue' = [queue EXCEPT ![ShardOf(p)] =
                        Append(@, [partition |-> p, offset |-> o])]
    PROVE  /\ queue' \in [Shard -> Seq(Events)] /\ Dealt'
           /\ \A x : Queued(x)' <=> \/ Queued(x)
                                    \/ x = [partition |-> p, offset |-> o]
           /\ \A r : ~Queued([partition |-> p, offset |-> r])
PROOF
<1> DEFINE t == ShardOf(p)
           ev == [partition |-> p, offset |-> o]
           n == Len(queue[t])
<1>1. p \in Partitions /\ t \in Shard /\ ev \in Events
  BY ShardsFacts DEF Working, Events
<1>2. queue \in [Shard -> Seq(Events)]
  BY DEF TypeOK, Shard
<1>3. /\ queue[t] \in Seq(Events) /\ n \in Nat
      /\ DOMAIN queue[t] = 1 .. n
  BY <1>1, <1>2
<1>4. /\ queue'[t] = Append(queue[t], ev)
      /\ \A s \in Shard \ {t} : queue'[s] = queue[s]
  BY <1>1, <1>2
<1>5. queue' \in [Shard -> Seq(Events)]
  BY <1>1, <1>2, <1>3
<1>6. /\ DOMAIN queue'[t] = 1 .. n + 1 /\ queue'[t][n + 1] = ev
      /\ \A i \in 1 .. n : queue'[t][i] = queue[t][i]
  BY <1>1, <1>3, <1>4
<1>7. /\ Working' = Working /\ \A q : ShardOf(q)' = ShardOf(q)
  BY ShardsStay DEF countVars, Limit
<1>8. ASSUME NEW r, Queued([partition |-> p, offset |-> r]) PROVE FALSE
  <2>0. PICK s \in Shard : \E i \in DOMAIN queue[s] :
           queue[s][i] = [partition |-> p, offset |-> r]
    BY <1>8 DEF Queued
  <2>1. PICK i \in DOMAIN queue[s] :
           queue[s][i] = [partition |-> p, offset |-> r]
    BY <2>0
  <2>2. queue[s][i].partition = p
    BY <2>1
  <2>3. s = t
    BY <2>2 DEF Dealt
  <2> QED BY <2>2, <2>3
<1> HIDE DEF t, ev, n
<1>9. ASSUME NEW x PROVE Queued(x)' <=> Queued(x) \/ x = ev
  <2>1. ASSUME Queued(x) PROVE Queued(x)'
    <3>0. PICK s \in Shard : \E i \in DOMAIN queue[s] : queue[s][i] = x
      BY <2>1 DEF Queued
    <3>1. PICK i \in DOMAIN queue[s] : queue[s][i] = x
      BY <3>0
    <3>2. i \in DOMAIN queue'[s] /\ queue'[s][i] = x
      BY <3>1, <1>3, <1>4, <1>6
    <3> QED BY <3>2 DEF Queued, Shard
  <2>2. Queued(ev)'
    <3>1. n + 1 \in DOMAIN queue'[t]
      BY <1>3, <1>6
    <3> QED BY <3>1, <1>1, <1>6 DEF Queued, Shard
  <2>3. ASSUME Queued(x)' PROVE Queued(x) \/ x = ev
    <3>0. PICK s \in Shard : \E i \in DOMAIN queue'[s] : queue'[s][i] = x
      BY <2>3 DEF Queued, Shard
    <3>1. PICK i \in DOMAIN queue'[s] : queue'[s][i] = x
      BY <3>0
    <3>2. CASE s # t
      BY <3>1, <3>2, <1>4 DEF Queued
    <3>3. CASE s = t /\ i # n + 1
      <4>1. i \in DOMAIN queue[t] /\ queue[t][i] = x
        BY <3>1, <3>3, <1>3, <1>6
      <4> QED BY <4>1, <1>1 DEF Queued
    <3>4. CASE s = t /\ i = n + 1
      BY <3>1, <3>4, <1>6
    <3> QED BY <3>2, <3>3, <3>4
  <2> QED BY <2>1, <2>2, <2>3
<1>10. Dealt'
  <2> SUFFICES ASSUME NEW s \in Shard, NEW i \in DOMAIN queue'[s]
               PROVE  /\ queue'[s][i].partition \in Working
                      /\ ShardOf(queue'[s][i].partition) = s
                      /\ \A j \in DOMAIN queue'[s] :
                            queue'[s][j].partition = queue'[s][i].partition
                               => i = j
    BY <1>7 DEF Dealt, Shard
  <2>1. CASE s # t
    BY <2>1, <1>4 DEF Dealt
  <2>2. CASE s = t
    <3>1. ev.partition = p /\ ShardOf(p) = t
      BY DEF ev, t
    <3>2. \A k \in 1 .. n : /\ queue[t][k].partition # p
                            /\ queue[t][k].partition \in Working
                            /\ ShardOf(queue[t][k].partition) = t
                            /\ \A j \in 1 .. n : queue[t][j].partition
                                  = queue[t][k].partition => k = j
      BY <1>1, <1>3 DEF Dealt, t
    <3>3. i \in 1 .. n + 1
      BY <2>2, <1>6
    <3>4. CASE i = n + 1
      <4>1. queue'[s][i] = ev
        BY <2>2, <3>4, <1>6
      <4>2. \A j \in 1 .. n + 1 : queue'[s][j].partition = p => j = n + 1
        BY <2>2, <3>2, <1>3, <1>6
      <4> QED BY <4>1, <4>2, <2>2, <3>1, <3>4, <1>6
    <3>5. CASE i # n + 1
      <4>1. i \in 1 .. n /\ queue'[s][i] = queue[t][i]
        BY <3>3, <3>5, <2>2, <1>3, <1>6
      <4>2. ASSUME NEW j \in DOMAIN queue'[s],
                   queue'[s][j].partition = queue'[s][i].partition
            PROVE  i = j
        <5>1. j \in 1 .. n + 1
          BY <2>2, <1>6
        <5>2. CASE j = n + 1
          <6>1. queue'[s][j].partition = p
            BY <2>2, <5>2, <1>6, <3>1
          <6> QED BY <6>1, <4>1, <4>2, <3>2
        <5>3. CASE j # n + 1
          <6>1. j \in 1 .. n /\ queue'[s][j] = queue[t][j]
            BY <5>1, <5>3, <2>2, <1>3, <1>6
          <6> QED BY <6>1, <4>1, <4>2, <3>2
        <5> QED BY <5>2, <5>3
      <4> QED BY <4>1, <4>2, <2>2, <3>2
    <3> QED BY <3>4, <3>5
  <2> QED BY <2>1, <2>2
<1> QED BY <1>5, <1>8, <1>9, <1>10 DEF ev

\* An arrival accounts for the offsets it carries the position past.
LEMMA ArriveReads ==
    ASSUME IInv, NEW p \in Working, NEW o \in Option(Offsets),
           NEW pos \in Offsets,
           UNCHANGED <<log, filter, planVars, countVars>>,
           position' = [position EXCEPT ![p] = pos],
           position[p] <= pos,
           \A w \in Wanted(p) : w < pos => w < position[p] \/ w = o,
           o # None /\ o < end[p] => /\ o \in Wanted(p) /\ o < pos
                                     /\ position[p] <= o,
           o = None \/ ~(o < end[p]) => end[p] <= pos,
           \A r : ~Queued([partition |-> p, offset |-> r]),
           \A x : Queued(x)' <=> \/ Queued(x)
                                 \/ x = [partition |-> p, offset |-> o]
    PROVE  Reading'
PROOF
<1>1. TypeOK /\ Reading /\ p \in Partitions
  BY DEF IInv, Working
<1>2. /\ Working' = Working /\ Working \subseteq Partitions
  BY ShardsStay DEF countVars, Limit, Working
<1>3. \A q : Held(q)' = Held(q) /\ Wanted(q)' = Wanted(q)
  BY DEF Held, Wanted, countVars, planVars
<1>4. /\ position'[p] = pos /\ position \in [Partitions -> Offsets]
      /\ \A q \in Partitions \ {p} : position'[q] = position[q]
  BY <1>1 DEF TypeOK
<1> SUFFICES ASSUME NEW q \in Working
             PROVE  /\ Ordered(q)' /\ AnsweredFor(q)'
                    /\ \A r \in Option(Offsets) :
                          Queued([partition |-> q, offset |-> r])'
                             => Announced(q, r)'
  BY <1>2 DEF Reading, Option, Offsets
<1>5. q \in Partitions /\ Ordered(q) /\ AnsweredFor(q)
      /\ \A r \in Option(Offsets) :
            Queued([partition |-> q, offset |-> r]) => Announced(q, r)
  BY <1>1, <1>2 DEF Reading
<1>6. CASE q # p
  <2>1. position'[q] = position[q]
    BY <1>4, <1>5, <1>6
  <2>2. \A r : Queued([partition |-> q, offset |-> r])'
                  <=> Queued([partition |-> q, offset |-> r])
    <3>1. \A r : [partition |-> q, offset |-> r]
                    # [partition |-> p, offset |-> o]
      <4> SUFFICES ASSUME NEW r,
                   [partition |-> q, offset |-> r]
                      = [partition |-> p, offset |-> o]
                   PROVE FALSE
        OBVIOUS
      <4>1. [partition |-> q, offset |-> r].partition
               = [partition |-> p, offset |-> o].partition
        OBVIOUS
      <4> QED BY <4>1, <1>6
    <3> QED BY <3>1
  <2>3. Ordered(q)'
    BY <2>1, <1>3, <1>5 DEF Ordered, countVars, planVars
  <2>4. AnsweredFor(q)'
    BY <2>1, <2>2, <1>3, <1>5 DEF AnsweredFor, Skipped, countVars
  <2>5. \A r \in Option(Offsets) :
           Queued([partition |-> q, offset |-> r])' => Announced(q, r)'
    BY <2>1, <2>2, <1>3, <1>5 DEF Announced, planVars
  <2> QED BY <2>3, <2>4, <2>5
<1>7. CASE q = p
  <2>1. \A r : Queued([partition |-> p, offset |-> r])' <=> r = o
    <3>1. ASSUME NEW r,
                 [partition |-> p, offset |-> r]
                    = [partition |-> p, offset |-> o]
          PROVE  r = o
      <4>1. [partition |-> p, offset |-> r].offset
               = [partition |-> p, offset |-> o].offset
        BY <3>1
      <4> QED BY <4>1
    <3> QED BY <3>1
  <2>2. /\ position[p] \in Nat /\ pos \in Nat
        /\ start[p] \in Nat /\ end[p] \in Nat
        /\ \A h \in Held(p) : h \in Nat /\ h < position[p]
        /\ start[p] <= position[p]
    <3>1. \A w \in Wanted(p) : w \in Nat
      BY <1>1, TypeFacts, OptionFacts DEF Wanted
    <3> QED BY <3>1, <1>1, <1>5, <1>7, TypeFacts, OptionFacts DEF Ordered
  <2>3. Ordered(p)'
    <3>1. /\ \A h \in Held(p) : h < pos
          /\ start[p] <= pos
      BY <2>2
    <3> QED BY <3>1, <1>3, <1>4, <1>5, <1>7 DEF Ordered, countVars, planVars
  <2>4. AnsweredFor(p)'
    <3> SUFFICES ASSUME NEW w \in Wanted(p), w < pos, w # o
                 PROVE  w \in Held(p) \/ Skipped(p, w)
      BY <2>1, <1>3, <1>4 DEF AnsweredFor, Skipped, countVars
    <3>1. w < position[p]
      OBVIOUS
    <3> QED BY <3>1, <1>5, <1>7 DEF AnsweredFor
  <2>5. Announced(p, o)'
    <3>1. CASE o # None /\ o < end[p]
      <4>1. o \in Nat
        BY <3>1, OptionFacts
      <4>2. \A h \in Held(p) : h < o
        BY <2>2, <3>1, <4>1
      <4> QED BY <3>1, <4>2, <1>3, <1>4 DEF Announced, planVars
    <3>2. CASE o = None \/ ~(o < end[p])
      BY <3>2, <1>4 DEF Announced, planVars
    <3> QED BY <3>1, <3>2
  <2> QED BY <2>1, <2>3, <2>4, <2>5, <1>7
<1> QED BY <1>6, <1>7

\* What arrives carries the position past itself, and past no record.
LEMMA ArrivalFacts ==
    ASSUME IInv, NEW p \in Partitions, Arrive(p)
    PROVE  \E o \in Option(Offsets), pos \in Offsets :
              /\ queue' = [queue EXCEPT ![ShardOf(p)] =
                              Append(@, [partition |-> p, offset |-> o])]
              /\ position' = [position EXCEPT ![p] = pos]
              /\ position[p] <= pos
              /\ \A w \in Wanted(p) : w < pos => w < position[p] \/ w = o
              /\ o # None /\ o < end[p] => /\ o \in Wanted(p) /\ o < pos
                                           /\ position[p] <= o
              /\ o = None \/ ~(o < end[p]) => end[p] <= pos
              /\ atEnd' \in [Partitions -> Option(Offsets)]
PROOF
<1>1. TypeOK /\ LogsOK /\ Windowed /\ p \in Working /\ Ordered(p)
  BY DEF IInv, Reading, Arrive
<1>2. /\ log[p].low \in Nat /\ log[p].end \in Nat /\ log[p].end <= MaxOffset
      /\ MaxOffset \in Nat /\ MaxOffset \in Offsets /\ log[p].end \in Offsets
      /\ log[p].records \in SUBSET Nat
      /\ log[p].records \subseteq log[p].low .. log[p].end - 1
      /\ position[p] \in Nat /\ position[p] <= MaxOffset
      /\ start[p] \in Nat /\ end[p] \in Nat /\ end[p] <= log[p].end
      /\ start[p] <= position[p]
  <2>1. /\ log[p].low \in Offsets /\ log[p].end \in Offsets
        /\ log[p].records \in SUBSET Offsets /\ position[p] \in Offsets
        /\ start[p] \in Offsets /\ end[p] \in Offsets
    BY <1>1, TypeFacts
  <2>2. /\ log[p].records \subseteq log[p].low .. log[p].end - 1
        /\ end[p] <= log[p].end /\ start[p] <= position[p]
    BY <1>1 DEF LogsOK, Windowed, Ordered
  <2>3. log[p].records \in SUBSET Nat
    BY <2>1, OptionFacts
  <2>4. MaxOffset \in Offsets
    BY OptionFacts
  <2> QED BY <2>1, <2>2, <2>3, <2>4, OptionFacts
<1>3. \A w \in Wanted(p) : /\ w \in log[p].records /\ w \in Nat
                           /\ w < position[p] \/ w \in Ahead(p)
  BY <1>2 DEF Wanted, Ahead
<1>4. atEnd \in [Partitions -> Option(Offsets)]
  BY <1>1 DEF TypeOK
<1> DEFINE Arrives(o) == queue' = [queue EXCEPT ![ShardOf(p)] =
                             Append(@, [partition |-> p, offset |-> o])]
<1>5. CASE /\ Ahead(p) # {}
           /\ Arrives(Min(Ahead(p)))
           /\ position' = [position EXCEPT ![p] = Min(Ahead(p)) + 1]
           /\ UNCHANGED atEnd
  <2> DEFINE o == Min(Ahead(p))
  <2>1. Ahead(p) \in SUBSET Nat
    BY <1>2 DEF Ahead
  <2>2. o \in Ahead(p) /\ \A w \in Ahead(p) : o <= w
    BY <1>5, <2>1, MinOfNaturals
  <2>3. Arrives(o) /\ position' = [position EXCEPT ![p] = o + 1]
    BY <1>5
  <2> HIDE DEF o, Arrives
  <2>4. o \in Nat /\ o \in log[p].records /\ o >= position[p]
    BY <2>1, <2>2 DEF Ahead
  <2>5. o \in log[p].low .. log[p].end - 1
    BY <1>2, <2>4
  <2>6. o + 1 <= MaxOffset /\ o \in Offsets /\ o + 1 \in Offsets
    BY <1>2, <2>4, <2>5, OptionFacts
  <2>7. position[p] <= o + 1
    BY <1>2, <2>4
  <2>8. ASSUME NEW w \in Wanted(p), w < o + 1
        PROVE  w < position[p] \/ w = o
    <3>1. CASE w \in Ahead(p)
      <4>1. o <= w /\ w \in Nat
        BY <1>3, <2>2, <3>1
      <4> QED BY <4>1, <2>4, <2>8
    <3> QED BY <3>1, <1>3
  <2>9. o < end[p] => o \in Wanted(p) /\ o < o + 1 /\ position[p] <= o
    BY <1>2, <2>4 DEF Wanted
  <2>10. ~(o < end[p]) => end[p] <= o + 1
    BY <1>2, <2>4
  <2>11. o # None /\ o \in Option(Offsets)
    BY <2>6, OptionFacts DEF Option
  <2> QED BY <1>4, <1>5, <2>3, <2>6, <2>7, <2>8, <2>9, <2>10, <2>11
          DEF Arrives
<1>6. CASE /\ Ahead(p) = {} /\ log[p].end = MaxOffset
           /\ Arrives(MaxOffset)
           /\ position' = [position EXCEPT ![p] = MaxOffset]
           /\ UNCHANGED atEnd
  <2>1. \A w \in Wanted(p) : w < position[p]
    BY <1>3, <1>6
  <2>2. ~(MaxOffset < end[p]) /\ end[p] <= MaxOffset
    BY <1>2
  <2>3. MaxOffset # None /\ MaxOffset \in Option(Offsets)
    BY <1>2, OptionFacts DEF Option
  <2> QED BY <1>2, <1>4, <1>6, <2>1, <2>2, <2>3
<1>7. CASE /\ Ahead(p) = {} /\ Arrives(None)
           /\ position' = [position EXCEPT ![p] = Max({@, log[p].end})]
           /\ atEnd' = [atEnd EXCEPT ![p] = log[p].end]
  <2> DEFINE pos == Max({position[p], log[p].end})
  <2>1. \A w \in Wanted(p) : w < position[p]
    BY <1>3, <1>7
  <2>2. position[p] \in Int /\ log[p].end \in Int
    BY <1>2
  <2>3. pos = IF position[p] >= log[p].end THEN position[p] ELSE log[p].end
    BY <2>2, MaxOfTwo
  <2>4. position' = [position EXCEPT ![p] = pos]
    BY <1>7
  <2> HIDE DEF pos
  <2>5. pos \in Nat /\ position[p] <= pos /\ end[p] <= pos
        /\ pos <= MaxOffset
    BY <1>2, <2>3
  <2>6. pos \in Offsets /\ None \in Option(Offsets)
    BY <2>5, OptionFacts DEF Option
  <2>7. log[p].end \in Option(Offsets)
    BY <1>2 DEF Option
  <2>8. atEnd' \in [Partitions -> Option(Offsets)]
    BY <1>4, <1>7, <2>7
  <2> QED BY <1>7, <2>1, <2>4, <2>5, <2>6, <2>8
<1> QED BY <1>5, <1>6, <1>7 DEF Arrive

\* The broker sends the next record of a partition, or its end.
LEMMA ArriveInv ==
    ASSUME IInv, NEW p \in Partitions, Arrive(p)
    PROVE  IInv'
PROOF
<1>1. /\ phase \in {"check", "poll"} /\ p \in Working
      /\ \A i \in DOMAIN queue[ShardOf(p)] :
            queue[ShardOf(p)][i].partition # p
      /\ UNCHANGED <<logVars, cancelled, phase, planVars, countVars, turnVars,
                     idle>>
  BY DEF Arrive
<1>2. TypeOK /\ Dealt
  BY DEF IInv
<1>3. PICK o \in Option(Offsets), pos \in Offsets :
        /\ queue' = [queue EXCEPT ![ShardOf(p)] =
                        Append(@, [partition |-> p, offset |-> o])]
        /\ position' = [position EXCEPT ![p] = pos]
        /\ position[p] <= pos
        /\ \A w \in Wanted(p) : w < pos => w < position[p] \/ w = o
        /\ o # None /\ o < end[p] => /\ o \in Wanted(p) /\ o < pos
                                     /\ position[p] <= o
        /\ o = None \/ ~(o < end[p]) => end[p] <= pos
        /\ atEnd' \in [Partitions -> Option(Offsets)]
  BY ArrivalFacts
<1>4. /\ queue' \in [Shard -> Seq(Events)] /\ Dealt'
      /\ \A x : Queued(x)' <=> \/ Queued(x)
                               \/ x = [partition |-> p, offset |-> o]
      /\ \A r : ~Queued([partition |-> p, offset |-> r])
  BY <1>1, <1>2, <1>3, ArriveQueue
<1>5. Shards' = Shards
  BY <1>1, CountsStay
<1>6. position' \in [Partitions -> Offsets]
  BY <1>2, <1>3 DEF TypeOK
<1>7. TypeOK'
  BY <1>1, <1>2, <1>3, <1>4, <1>5, <1>6
     DEF TypeOK, Shard, logVars, planVars, countVars, turnVars
<1>8. Reading'
  <2>1. UNCHANGED <<log, filter, planVars, countVars>>
    BY <1>1 DEF logVars
  <2> QED BY <1>1, <1>3, <1>4, <2>1, ArriveReads
<1>9. LogsOK' /\ Windowed' /\ FromResolved' /\ Polling' /\ Fresh'
  BY <1>1 DEF IInv, LogsOK, Windowed, FromResolved, Polling, Fresh, logVars,
     planVars, countVars
<1>10. /\ \A q : Limit(q)' = Limit(q)
       /\ Working' = Working
       /\ \A q : Held(q)' = Held(q) /\ Wanted(q)' = Wanted(q)
       /\ AllLimits' = AllLimits
  BY <1>1 DEF countVars, planVars, logVars, Limit, Working, Held, Wanted,
     AllLimits
<1>11. StartsRight' /\ Finished' /\ LoadLimits'
  BY <1>1, <1>10 DEF IInv, StartsRight, Finished, UnfinishedCountsThem,
     LoadLimits, logVars, planVars, countVars
<1> QED BY <1>4, <1>7, <1>8, <1>9, <1>11 DEF IInv
-----------------------------------------------------------------------------

\* Handing over the head of a queue leaves everything else where it was.
LEMMA HeadFacts ==
    ASSUME IInv, queue[nextShard] # <<>>
    PROVE  \E p \in Working, o \in Option(Offsets) :
              /\ Head(queue[nextShard]) = [partition |-> p, offset |-> o]
              /\ Ordered(p) /\ Announced(p, o)
              /\ \A w \in Wanted(p) : w < position[p] /\ w # o
                                      => w \in Held(p) \/ Skipped(p, w)
              /\ \A i \in DOMAIN queue[nextShard] :
                    queue[nextShard][i].partition = p => i = 1
PROOF
<1> DEFINE q == queue[nextShard]
           e == q[1]
<1>1. TypeOK /\ Dealt /\ Reading
  BY DEF IInv
<1>2. q \in Seq(Events) /\ nextShard \in Shard
  BY <1>1, TypeFacts
<1>3. 1 \in DOMAIN q /\ Head(q) = e /\ e \in Events
  BY <1>2
<1> DEFINE p == e.partition
           o == e.offset
<1>4. e = [partition |-> p, offset |-> o] /\ o \in Option(Offsets)
  BY <1>3 DEF Events
<1>5. p \in Working /\ ShardOf(p) = nextShard
      /\ \A i \in DOMAIN q : q[i].partition = p => i = 1
  BY <1>1, <1>2, <1>3 DEF Dealt
<1>6. Queued(e)
  BY <1>2, <1>3 DEF Queued
<1>7. Ordered(p) /\ AnsweredFor(p) /\ Announced(p, o)
  BY <1>1, <1>4, <1>5, <1>6 DEF Reading
<1>8. ASSUME NEW w, Queued([partition |-> p, offset |-> w]) PROVE w = o
  <2>1. PICK s \in Shard : \E i \in DOMAIN queue[s] :
           queue[s][i] = [partition |-> p, offset |-> w]
    BY <1>8 DEF Queued
  <2>2. PICK i \in DOMAIN queue[s] :
           queue[s][i] = [partition |-> p, offset |-> w]
    BY <2>1
  <2>3. queue[s][i].partition = p /\ queue[s][i].offset = w
    BY <2>2
  <2>4. s = nextShard
    BY <2>3, <1>1, <1>5 DEF Dealt
  <2>5. i = 1
    BY <2>3, <2>4, <1>5
  <2> QED BY <2>3, <2>4, <2>5
<1>9. \A w \in Wanted(p) : w < position[p] /\ w # o
                           => w \in Held(p) \/ Skipped(p, w)
  BY <1>7, <1>8 DEF AnsweredFor
<1> QED BY <1>3, <1>4, <1>5, <1>7, <1>9

\* Of the queued events, only the one handed over is gone.
LEMMA HandOverQueue ==
    ASSUME TypeOK, Dealt, queue[nextShard] # <<>>, NEW p \in Working,
           Working' = Working, \A r : ShardOf(r)' = ShardOf(r),
           queue[nextShard][1].partition = p,
           queue' = [queue EXCEPT ![nextShard] = Tail(@)],
           \A i \in DOMAIN queue[nextShard] :
              queue[nextShard][i].partition = p => i = 1
    PROVE  /\ queue' \in [Shard -> Seq(Events)] /\ Dealt'
           /\ \A x : Queued(x)' => Queued(x) /\ x.partition # p
           /\ \A x : Queued(x) /\ x.partition # p => Queued(x)'
PROOF
<1> DEFINE t == nextShard
           n == Len(queue[t])
<1>1. queue \in [Shard -> Seq(Events)] /\ t \in Shard
  BY TypeFacts DEF TypeOK, Shard
<1>2. /\ queue[t] \in Seq(Events) /\ n \in Nat \ {0}
      /\ DOMAIN queue[t] = 1 .. n
  BY <1>1
<1>3. /\ queue'[t] = Tail(queue[t])
      /\ \A s \in Shard \ {t} : queue'[s] = queue[s]
  BY <1>1
<1>4. Tail(queue[t]) \in Seq(Events)
  BY <1>2
<1>5. queue' \in [Shard -> Seq(Events)]
  BY <1>1, <1>4
<1>6. /\ DOMAIN queue'[t] = 1 .. n - 1
      /\ \A i \in 1 .. n - 1 : queue'[t][i] = queue[t][i + 1]
  <2>1. queue[t] # <<>>
    BY DEF t
  <2>2. /\ Len(Tail(queue[t])) = n - 1
        /\ \A i \in 1 .. Len(Tail(queue[t])) :
              Tail(queue[t])[i] = queue[t][i + 1]
    BY <2>1, <1>2, HeadTailProperties
  <2>3. DOMAIN Tail(queue[t]) = 1 .. Len(Tail(queue[t]))
    BY <1>4
  <2> QED BY <2>2, <2>3, <1>3
<1>7. /\ \A i \in 1 .. n : queue[t][i].partition = p => i = 1
      /\ queue[t][1].partition = p
  BY <1>2
<1>8. \A i \in 1 .. n - 1 : i + 1 \in 1 .. n /\ queue'[t][i].partition # p
  BY <1>2, <1>6, <1>7
<1>9. \A s \in Shard : \A i \in DOMAIN queue[s] :
         queue[s][i].partition = p => s = t
  BY <1>1, <1>2, <1>7 DEF Dealt
<1> HIDE DEF t, n
<1>10. ASSUME NEW x, Queued(x)' PROVE Queued(x) /\ x.partition # p
  <2>1. PICK s \in Shard : \E i \in DOMAIN queue'[s] : queue'[s][i] = x
    BY <1>10 DEF Queued, Shard
  <2>2. PICK i \in DOMAIN queue'[s] : queue'[s][i] = x
    BY <2>1
  <2>3. CASE s # t
    <3>1. i \in DOMAIN queue[s] /\ queue[s][i] = x
      BY <2>2, <2>3, <1>3
    <3> QED BY <3>1, <2>3, <1>9 DEF Queued
  <2>4. CASE s = t
    <3>1. i \in 1 .. n - 1
      BY <2>4, <1>6
    <3>2. i + 1 \in DOMAIN queue[t] /\ queue[t][i + 1] = x
      BY <3>1, <2>2, <2>4, <1>2, <1>6, <1>8
    <3>3. x.partition # p
      BY <3>1, <2>2, <2>4, <1>8
    <3> QED BY <3>2, <3>3, <1>1 DEF Queued
  <2> QED BY <2>3, <2>4
<1>11. ASSUME NEW x, Queued(x), x.partition # p PROVE Queued(x)'
  <2>1. PICK s \in Shard : \E i \in DOMAIN queue[s] : queue[s][i] = x
    BY <1>11 DEF Queued
  <2>2. PICK i \in DOMAIN queue[s] : queue[s][i] = x
    BY <2>1
  <2>3. CASE s # t
    BY <2>2, <2>3, <1>3 DEF Queued, Shard
  <2>4. CASE s = t
    <3>1. i \in 1 .. n /\ i # 1
      BY <2>2, <2>4, <1>2, <1>7, <1>11
    <3>2. i - 1 \in 1 .. n - 1 /\ (i - 1) + 1 = i
      BY <3>1, <1>2
    <3>3. i - 1 \in DOMAIN queue'[t] /\ queue'[t][i - 1] = x
      BY <3>2, <1>6, <2>2, <2>4
    <3> QED BY <3>3, <1>1 DEF Queued, Shard
  <2> QED BY <2>3, <2>4
<1>12. Dealt'
  <2> SUFFICES ASSUME NEW s \in Shard, NEW i \in DOMAIN queue'[s]
               PROVE  /\ queue'[s][i].partition \in Working
                      /\ ShardOf(queue'[s][i].partition) = s
                      /\ \A j \in DOMAIN queue'[s] :
                            queue'[s][j].partition = queue'[s][i].partition
                               => i = j
    BY DEF Dealt, Shard
  <2>1. CASE s # t
    BY <2>1, <1>3 DEF Dealt
  <2>2. CASE s = t
    <3>1. i \in 1 .. n - 1
      BY <2>2, <1>6
    <3>2. i + 1 \in DOMAIN queue[t] /\ queue'[t][i] = queue[t][i + 1]
      BY <3>1, <1>2, <1>6, <1>8
    <3>3. /\ queue[t][i + 1].partition \in Working
          /\ ShardOf(queue[t][i + 1].partition) = t
      BY <3>2, <1>1 DEF Dealt
    <3>4. ASSUME NEW j \in DOMAIN queue'[t],
                 queue'[t][j].partition = queue'[t][i].partition
          PROVE  i = j
      <4>1. j \in 1 .. n - 1
        BY <1>6
      <4>2. j + 1 \in DOMAIN queue[t] /\ queue'[t][j] = queue[t][j + 1]
        BY <4>1, <1>2, <1>6, <1>8
      <4>3. i + 1 = j + 1
        BY <4>2, <3>2, <3>4, <1>1 DEF Dealt
      <4> QED BY <4>1, <4>3, <3>1, <1>2
    <3> QED BY <2>2, <3>2, <3>3, <3>4
  <2> QED BY <2>1, <2>2
<1> QED BY <1>5, <1>10, <1>11, <1>12
-----------------------------------------------------------------------------

\* What handling an event of p does, whichever event it is.
Handled(p) ==
    /\ \A q \in Partitions : Limit(q)' = Limit(q)
    /\ \A q \in Partitions \ {p} : /\ taken'[q] = taken[q]
                                   /\ remaining'[q] = remaining[q]
    /\ remaining' \in [Partitions -> Nat]
    /\ taken' \in [Partitions -> Seq(Offsets)]
    /\ bytes' \in Nat /\ stoppedAtByteBudget' \in BOOLEAN
    /\ idle' \in 0 .. MaxIdle
    /\ ~stoppedAtByteBudget' /\ filter.bytes # None => bytes' < filter.bytes
    /\ finished' \in {finished, finished \union {p}}
    /\ unfinished' = IF finished' = finished THEN unfinished
                     ELSE unfinished - 1
    /\ Ordered(p)'
    /\ \A w \in Wanted(p) : w < position[p]
                            => w \in Held(p)' \/ Skipped(p, w)'
    /\ p \in finished' => remaining'[p] = 0 \/ Wanted(p) \subseteq Held(p)'

\* Nothing but the list of the finished changes.
LEMMA SkipHandled ==
    ASSUME IInv, NEW p \in Working, phase = "poll",
           UNCHANGED <<logVars, planVars, brokerVars>>,
           UNCHANGED <<remaining, taken, bytes, stoppedAtByteBudget>>,
           idle' \in 0 .. MaxIdle, Ordered(p),
           \A w \in Wanted(p) : w < position[p]
                                => w \in Held(p) \/ Skipped(p, w),
           \/ UNCHANGED <<finished, unfinished>>
           \/ FinishPartition(p) /\ end[p] <= position[p]
    PROVE  Handled(p)
PROOF
<1>1. TypeOK /\ Polling /\ Finished /\ p \in Partitions
  BY DEF IInv, Working
<1>2. /\ \A q : Limit(q)' = Limit(q)
      /\ \A q : Held(q)' = Held(q) /\ Wanted(q)' = Wanted(q)
      /\ \A q, w : Skipped(q, w)' <=> Skipped(q, w)
      /\ Ordered(p)' <=> Ordered(p)
  BY DEF Limit, Held, Wanted, Skipped, Ordered, logVars, planVars, brokerVars
<1>3. /\ remaining' \in [Partitions -> Nat]
      /\ taken' \in [Partitions -> Seq(Offsets)]
      /\ bytes' \in Nat /\ stoppedAtByteBudget' \in BOOLEAN
  BY <1>1 DEF TypeOK
<1>4. ~stoppedAtByteBudget' /\ filter.bytes # None => bytes' < filter.bytes
  BY <1>1 DEF Polling
<1>5. /\ finished' \in {finished, finished \union {p}}
      /\ unfinished' = IF finished' = finished THEN unfinished
                       ELSE unfinished - 1
  BY DEF FinishPartition
<1>6. ASSUME end[p] <= position[p]
      PROVE  remaining[p] = 0 \/ Wanted(p) \subseteq Held(p)
  <2>1. \A w \in Wanted(p) : w \in Nat /\ w < end[p]
    BY <1>1, TypeFacts, OptionFacts DEF Wanted
  <2>2. end[p] \in Nat /\ position[p] \in Nat
    BY <1>1, TypeFacts, OptionFacts
  <2>3. \A w \in Wanted(p) : w < position[p]
    BY <2>1, <2>2, <1>6
  <2> QED BY <2>3 DEF Skipped
<1>7. p \in finished' => remaining'[p] = 0 \/ Wanted(p) \subseteq Held(p)'
  <2>1. p \in finished => remaining[p] = 0 \/ Wanted(p) \subseteq Held(p)
    BY <1>1 DEF Finished
  <2> QED BY <2>1, <1>2, <1>6
<1> QED BY <1>2, <1>3, <1>4, <1>5, <1>7 DEF Handled

\* A record the fetch keeps is the oldest one wanted that it has not got.
LEMMA TakeHandled ==
    ASSUME IInv, NEW p \in Working, NEW o \in Offsets, phase = "poll",
           UNCHANGED <<logVars, planVars, brokerVars>>,
           TakeRecord(p, o), Ordered(p), Announced(p, o),
           \A w \in Wanted(p) : w < position[p] /\ w # o
                                => w \in Held(p) \/ Skipped(p, w)
    PROVE  Handled(p)
PROOF
<1>1. TypeOK /\ Polling /\ Finished /\ p \in Partitions
  BY DEF IInv, Working
<1>2. /\ remaining[p] > 0 /\ o < end[p] /\ idle' = 0
      /\ taken' = [taken EXCEPT ![p] = Append(@, o)]
      /\ remaining' = [remaining EXCEPT ![p] = @ - 1]
      /\ IF remaining[p] = 1 THEN FinishPartition(p)
         ELSE UNCHANGED <<finished, unfinished>>
      /\ \E size \in Sizes : bytes' = bytes + size
      /\ stoppedAtByteBudget' = ByteBudgetReached(bytes')
  BY DEF TakeRecord
<1>3. /\ remaining \in [Partitions -> Nat] /\ remaining[p] \in Nat
      /\ taken \in [Partitions -> Seq(Offsets)] /\ taken[p] \in Seq(Offsets)
      /\ filter \in Filters /\ bytes \in Nat
  BY <1>1 DEF TypeOK
<1>4. o # None /\ o \in Wanted(p) /\ o < position[p]
      /\ \A h \in Held(p) : h < o
  BY <1>2, OptionFacts DEF Announced
<1> DEFINE n == Len(taken[p])
<1>5. /\ taken'[p] = Append(taken[p], o) /\ n \in Nat
      /\ DOMAIN taken[p] = 1 .. n
      /\ Len(taken'[p]) = n + 1 /\ DOMAIN taken'[p] = 1 .. n + 1
      /\ \A i \in 1 .. n : taken'[p][i] = taken[p][i]
      /\ taken'[p][n + 1] = o
  BY <1>1, <1>2, <1>3
<1>6. remaining'[p] = remaining[p] - 1 /\ remaining'[p] \in Nat
  BY <1>1, <1>2, <1>3
<1>7. \A q \in Partitions \ {p} : /\ taken'[q] = taken[q]
                                  /\ remaining'[q] = remaining[q]
  BY <1>2, <1>3
<1>8. /\ remaining' \in [Partitions -> Nat]
      /\ taken' \in [Partitions -> Seq(Offsets)]
  <2>1. taken'[p] \in Seq(Offsets)
    BY <1>3, <1>5
  <2> QED BY <1>2, <1>3, <1>5, <1>6, <2>1
<1> HIDE DEF n
<1>9. ASSUME NEW q \in Partitions PROVE Limit(q)' = Limit(q)
  <2>1. CASE q = p
    <3>1. Limit(p)' = remaining[p] - 1 + (n + 1)
      BY <1>5, <1>6 DEF Limit
    <3>2. Limit(p) = remaining[p] + n
      BY DEF Limit, n
    <3> QED BY <3>1, <3>2, <2>1, <1>3, <1>5
  <2>2. CASE q # p
    BY <2>2, <1>7 DEF Limit
  <2> QED BY <2>1, <2>2
<1>10. Held(p)' = Held(p) \union {o}
  <2>1. Held(p) = {taken[p][i] : i \in 1 .. n}
    BY <1>5 DEF Held
  <2>2. Held(p)' = {taken'[p][i] : i \in 1 .. n + 1}
    BY <1>5 DEF Held
  <2>3. 1 .. n + 1 = (1 .. n) \union {n + 1}
    BY <1>5
  <2> QED BY <2>1, <2>2, <2>3, <1>5
<1>11. /\ Wanted(p)' = Wanted(p) /\ position' = position /\ start' = start
       /\ filter' = filter
  BY DEF Wanted, logVars, planVars, brokerVars
<1>12. Ordered(p)'
  <2>1. Held(p)' \subseteq Wanted(p)'
    BY <1>4, <1>10, <1>11 DEF Ordered
  <2>2. \A h \in Held(p)' : h < position'[p]
    BY <1>4, <1>10, <1>11 DEF Ordered
  <2>3. ASSUME NEW i \in DOMAIN taken'[p], NEW j \in DOMAIN taken'[p], i < j
        PROVE  taken'[p][i] < taken'[p][j]
    <3>1. i \in 1 .. n + 1 /\ j \in 1 .. n + 1 /\ i \in 1 .. n
      BY <2>3, <1>5
    <3>2. CASE j = n + 1
      <4>1. taken[p][i] \in Held(p)
        BY <3>1, <1>5 DEF Held
      <4> QED BY <4>1, <3>1, <3>2, <1>4, <1>5
    <3>3. CASE j # n + 1
      <4>1. j \in 1 .. n
        BY <3>1, <3>3, <1>5
      <4> QED BY <4>1, <3>1, <2>3, <1>5 DEF Ordered
    <3> QED BY <3>2, <3>3
  <2>4. start'[p] <= position'[p]
    BY <1>11 DEF Ordered
  <2> QED BY <2>1, <2>2, <2>3, <2>4 DEF Ordered
<1>13. \A w \in Wanted(p) : w < position[p] => w \in Held(p)'
  <2>1. \A w : ~Skipped(p, w)
    BY <1>2, <1>3 DEF Skipped
  <2> QED BY <2>1, <1>10
<1>14. /\ bytes' \in Nat /\ stoppedAtByteBudget' \in BOOLEAN
       /\ ~stoppedAtByteBudget' /\ filter.bytes # None
          => bytes' < filter.bytes
  <2>1. bytes' \in Nat
    BY <1>2, <1>3, PollLoopAssumption
  <2>2. filter.bytes # None => filter.bytes \in Nat
    BY <1>3, FilterFacts
  <2>3. stoppedAtByteBudget' = (filter.bytes # None /\ bytes' >= filter.bytes)
    BY <1>2 DEF ByteBudgetReached
  <2>4. stoppedAtByteBudget' \in BOOLEAN
    BY <2>3
  <2>5. ASSUME ~stoppedAtByteBudget', filter.bytes # None
        PROVE  bytes' < filter.bytes
    <3>1. ~(bytes' >= filter.bytes)
      BY <2>3, <2>5
    <3> QED BY <3>1, <2>1, <2>2, <2>5
  <2> QED BY <2>1, <2>4, <2>5
<1>15. idle' \in 0 .. MaxIdle
  BY <1>2, PollLoopAssumption
<1>16. /\ finished' \in {finished, finished \union {p}}
       /\ unfinished' = IF finished' = finished THEN unfinished
                        ELSE unfinished - 1
  BY <1>2 DEF FinishPartition
<1>17. p \in finished' => remaining'[p] = 0 \/ Wanted(p) \subseteq Held(p)'
  <2>1. CASE remaining[p] = 1
    BY <2>1, <1>6
  <2>2. CASE remaining[p] # 1
    <3>1. finished' = finished
      BY <2>2, <1>2
    <3>2. remaining[p] # 0
      BY <1>2, <1>3
    <3>3. p \in finished => Wanted(p) \subseteq Held(p)
      BY <3>2, <1>1 DEF Finished
    <3> QED BY <3>1, <3>3, <1>10, <1>11
  <2> QED BY <2>1, <2>2
<1> QED BY <1>7, <1>8, <1>9, <1>12, <1>13, <1>14, <1>15, <1>16, <1>17
        DEF Handled

\* Each of the four ways to handle an event.
LEMMA HandleHandled ==
    ASSUME IInv, NEW p \in Working, NEW o \in Option(Offsets), phase = "poll",
           UNCHANGED <<logVars, planVars, brokerVars>>,
           Handle([partition |-> p, offset |-> o]),
           Ordered(p), Announced(p, o),
           \A w \in Wanted(p) : w < position[p] /\ w # o
                                => w \in Held(p) \/ Skipped(p, w)
    PROVE  Handled(p)
PROOF
<1>1. TypeOK /\ p \in Partitions
  BY DEF IInv, Working
<1>2. 0 \in 0 .. MaxIdle /\ idle \in 0 .. MaxIdle
  BY <1>1, PollLoopAssumption DEF TypeOK
<1>3. \A w \in Wanted(p) : w \in Offsets /\ w \in Nat /\ w < end[p]
  BY <1>1, TypeFacts, OptionFacts DEF Wanted
<1>4. remaining[p] \in Nat /\ end[p] \in Nat
  BY <1>1, TypeFacts, OptionFacts
<1>5. CASE o = None
  <2>1. EndOfPartition(p)
    BY <1>5 DEF Handle
  <2>2. end[p] <= position[p]
    BY <1>5 DEF Announced
  <2>3. \A w \in Wanted(p) : w # o
    BY <1>3, <1>5, OptionFacts
  <2> QED BY <1>2, <2>1, <2>2, <2>3, SkipHandled DEF EndOfPartition
<1>6. CASE o # None
  <2>1. o \in Offsets /\ o \in Nat
    BY <1>6, OptionFacts
  <2>2. CASE Exhausted(p)
    <3>1. remaining[p] = 0
      BY <2>2, <1>4 DEF Exhausted
    <3>2. o \in Wanted(p) => Skipped(p, o)
      BY <3>1, <1>3, <1>6 DEF Skipped, Announced
    <3> QED BY <1>2, <2>2, <3>2, SkipHandled DEF Exhausted, countVars
  <2>3. CASE PastTheEnd(p, o)
    <3>1. o \notin Wanted(p) /\ end[p] <= position[p]
      BY <2>1, <2>3, <1>3, <1>4 DEF PastTheEnd, Announced
    <3> QED BY <1>2, <2>3, <3>1, SkipHandled DEF PastTheEnd
  <2>4. CASE TakeRecord(p, o)
    BY <2>1, <2>4, TakeHandled
  <2>5. Exhausted(p) \/ PastTheEnd(p, o) \/ TakeRecord(p, o)
    BY <1>6 DEF Handle
  <2> QED BY <2>2, <2>3, <2>4, <2>5
<1> QED BY <1>5, <1>6
-----------------------------------------------------------------------------

\* The other partitions are read as before.
LEMMA HandledReads ==
    ASSUME IInv, NEW p \in Working, Handled(p),
           UNCHANGED <<logVars, planVars, brokerVars>>,
           \A x : Queued(x)' => Queued(x) /\ x.partition # p,
           \A x : Queued(x) /\ x.partition # p => Queued(x)'
    PROVE  Reading'
PROOF
<1>1. TypeOK /\ Reading /\ Working \subseteq Partitions
  BY DEF IInv, Working
<1>2. /\ Working' = Working
      /\ \A q : Wanted(q)' = Wanted(q)
      /\ position' = position /\ start' = start /\ end' = end
  BY ShardsStay DEF Handled, Wanted, logVars, planVars, brokerVars
<1> SUFFICES ASSUME NEW q \in Working
             PROVE  /\ Ordered(q)' /\ AnsweredFor(q)'
                    /\ \A r \in Option(Offsets) :
                          Queued([partition |-> q, offset |-> r])'
                             => Announced(q, r)'
  BY <1>2 DEF Reading, Option, Offsets
<1>3. q \in Partitions /\ Ordered(q) /\ AnsweredFor(q)
      /\ \A r \in Option(Offsets) :
            Queued([partition |-> q, offset |-> r]) => Announced(q, r)
  BY <1>1 DEF Reading
<1>4. CASE q = p
  <2>1. \A r : ~Queued([partition |-> p, offset |-> r])'
    OBVIOUS
  <2>2. AnsweredFor(p)'
    BY <1>2 DEF AnsweredFor, Handled
  <2> QED BY <1>4, <2>1, <2>2 DEF Handled
<1>5. CASE q # p
  <2>1. taken'[q] = taken[q] /\ remaining'[q] = remaining[q]
    BY <1>3, <1>5 DEF Handled
  <2>2. Held(q)' = Held(q)
    BY <2>1 DEF Held
  <2>3. \A r : Queued([partition |-> q, offset |-> r])'
                  <=> Queued([partition |-> q, offset |-> r])
    BY <1>5
  <2>4. Ordered(q)'
    BY <1>2, <1>3, <2>1, <2>2 DEF Ordered
  <2>5. AnsweredFor(q)'
    BY <1>2, <1>3, <2>1, <2>2, <2>3 DEF AnsweredFor, Skipped
  <2>6. \A r \in Option(Offsets) :
           Queued([partition |-> q, offset |-> r])' => Announced(q, r)'
    BY <1>2, <1>3, <2>2, <2>3 DEF Announced
  <2> QED BY <2>4, <2>5, <2>6
<1> QED BY <1>4, <1>5

\* A partition that is finished twice is counted once.
LEMMA HandledFinished ==
    ASSUME IInv, NEW p \in Working, Handled(p),
           UNCHANGED <<logVars, planVars, brokerVars>>
    PROVE  /\ Finished'
           /\ finished' \subseteq Partitions /\ unfinished' \in Nat
PROOF
<1>1. /\ TypeOK /\ finished \subseteq Working /\ UnfinishedCountsThem
      /\ \A q \in finished : remaining[q] = 0 \/ Wanted(q) \subseteq Held(q)
      /\ Working \subseteq Partitions
  BY DEF IInv, Finished, Working
<1>2. /\ Working' = Working
      /\ \A q : Wanted(q)' = Wanted(q)
  BY ShardsStay DEF Handled, Wanted, logVars, planVars
<1>3. finished' \in {finished, finished \union {p}}
  BY DEF Handled
<1>4. unfinished \in Nat
  BY <1>1 DEF TypeOK
<1>5. unfinished' = Cardinality(Working \ finished') /\ unfinished' \in Nat
  <2> DEFINE left == Working \ finished
  <2>1. IsFiniteSet(left)
    BY ShardsFacts, FS_Difference
  <2>2. unfinished = Cardinality(left)
    BY <1>1 DEF UnfinishedCountsThem
  <2>3. CASE finished' = finished
    BY <2>2, <2>3, <1>4 DEF Handled
  <2>4. CASE finished' # finished
    <3>1. p \in left /\ Working \ finished' = left \ {p}
      BY <2>4, <1>3
    <3>2. Cardinality(left \ {p}) = Cardinality(left) - 1
      BY <2>1, <3>1, FS_RemoveElement
    <3>3. unfinished' = unfinished - 1
      BY <2>4 DEF Handled
    <3>4. Cardinality(left \ {p}) \in Nat
      BY <2>1, FS_RemoveElement, FS_CardinalityType
    <3> QED BY <2>2, <3>1, <3>2, <3>3, <3>4
  <2> QED BY <2>3, <2>4
<1>6. ASSUME NEW q \in finished'
      PROVE  remaining'[q] = 0 \/ Wanted(q)' \subseteq Held(q)'
  <2>1. CASE q = p
    BY <1>2, <1>6, <2>1 DEF Handled
  <2>2. CASE q # p
    <3>1. q \in finished /\ q \in Partitions
      BY <1>1, <1>3, <2>2
    <3>2. taken'[q] = taken[q] /\ remaining'[q] = remaining[q]
      BY <3>1, <2>2 DEF Handled
    <3> QED BY <3>1, <3>2, <1>1, <1>2 DEF Held
  <2> QED BY <2>1, <2>2
<1>7. finished' \subseteq Working'
  BY <1>1, <1>2, <1>3
<1> QED BY <1>1, <1>2, <1>5, <1>6, <1>7 DEF Finished, UnfinishedCountsThem

\* A poll that finds something.
LEMMA PollReadyInv == IInv /\ PollReady => IInv'
PROOF
<1> SUFFICES ASSUME IInv, PollReady PROVE IInv'
  OBVIOUS
<1>1. /\ phase = "poll" /\ phase' = "check" /\ queue[nextShard] # <<>>
      /\ Handle(Head(queue[nextShard]))
      /\ queue' = [queue EXCEPT ![nextShard] = Tail(@)]
      /\ Turn
      /\ UNCHANGED <<logVars, cancelled, planVars, brokerVars, swept>>
  BY DEF PollReady
<1>2. TypeOK /\ Dealt
  BY DEF IInv
<1>3. PICK p \in Working, o \in Option(Offsets) :
         /\ Head(queue[nextShard]) = [partition |-> p, offset |-> o]
         /\ Ordered(p) /\ Announced(p, o)
         /\ \A w \in Wanted(p) : w < position[p] /\ w # o
                                 => w \in Held(p) \/ Skipped(p, w)
         /\ \A i \in DOMAIN queue[nextShard] :
               queue[nextShard][i].partition = p => i = 1
  BY <1>1, HeadFacts
<1>4. Handled(p)
  <2>1. Handle([partition |-> p, offset |-> o])
    BY <1>1, <1>3
  <2> QED BY <1>1, <1>3, <2>1, HandleHandled
<1>5. /\ Working' = Working /\ Shards' = Shards
      /\ \A r : ShardOf(r)' = ShardOf(r)
      /\ AllLimits' = AllLimits
  BY <1>4, ShardsStay DEF Handled
<1>6. queue[nextShard][1].partition = p
  <2>1. queue[nextShard] \in Seq(Events)
    BY <1>2, TypeFacts
  <2>2. Head(queue[nextShard]) = queue[nextShard][1]
    BY <1>1, <2>1
  <2> QED BY <1>3, <2>2
<1>7. /\ queue' \in [Shard -> Seq(Events)] /\ Dealt'
      /\ \A x : Queued(x)' => Queued(x) /\ x.partition # p
      /\ \A x : Queued(x) /\ x.partition # p => Queued(x)'
  BY <1>1, <1>2, <1>3, <1>5, <1>6, HandOverQueue
<1>8. UNCHANGED <<logVars, planVars, brokerVars>>
  BY <1>1
<1>9. Reading'
  BY <1>4, <1>7, <1>8, HandledReads
<1>10. Finished' /\ finished' \subseteq Partitions /\ unfinished' \in Nat
  BY <1>4, <1>8, HandledFinished
<1>11. nextShard' \in Shards'
  BY <1>1, <1>2, <1>5, TurnFacts
<1>12. TypeOK'
  <2>1. /\ remaining' \in [Partitions -> Nat]
        /\ taken' \in [Partitions -> Seq(Offsets)]
        /\ bytes' \in Nat /\ stoppedAtByteBudget' \in BOOLEAN
        /\ idle' \in 0 .. MaxIdle
    BY <1>4 DEF Handled
  <2> QED BY <1>1, <1>2, <1>5, <1>7, <1>10, <1>11, <2>1
          DEF TypeOK, Shard, logVars, planVars, brokerVars
<1>13. LogsOK' /\ Windowed' /\ FromResolved' /\ Fresh'
  BY <1>1 DEF IInv, LogsOK, Windowed, FromResolved, Fresh, logVars, planVars
<1>14. Polling'
  BY <1>1, <1>4 DEF Polling, Handled, logVars
<1>15. StartsRight'
  BY <1>1, <1>5 DEF IInv, StartsRight, logVars, planVars
<1>16. LoadLimits'
  BY <1>1, <1>4, <1>5 DEF IInv, LoadLimits, Handled, logVars, planVars
<1> QED BY <1>7, <1>9, <1>10, <1>12, <1>13, <1>14, <1>15, <1>16 DEF IInv
-----------------------------------------------------------------------------
\* No step leaves the invariant.
LEMMA StepInv == IInv /\ [Next]_vars => IInv'
PROOF
<1>1. ASSUME IInv, NEW p \in Partitions, Produce(p) PROVE IInv'
  BY <1>1, ProduceInv
<1>2. ASSUME IInv, NEW p \in Partitions, Arrive(p) PROVE IInv'
  BY <1>2, ArriveInv
<1>3. ASSUME IInv, Setup PROVE IInv'
  <2>1. CASE StoppedEarly \/ Fail("watermarks") \/ Fail("from")
             \/ Fail("to") \/ Fail("plan")
    BY <1>3, <2>1, SetupEndsInv
  <2>2. CASE Watermarks \/ ResolveFrom \/ ResolveTo \/ Plan
    BY <1>3, <2>2, WatermarksInv, ResolveFromInv, ResolveToInv, PlanInv
  <2> QED BY <1>3, <2>1, <2>2 DEF Setup
<1>4. ASSUME IInv, LoopStep PROVE IInv'
  BY <1>4, CheckInv, PollReadyInv, PollOnInv, PollNothingInv DEF LoopStep
<1>5. ASSUME IInv, UNCHANGED vars PROVE IInv'
  <2> USE <1>5 DEF vars, logVars, planVars, countVars, brokerVars, turnVars
  <2>1. Shards' = Shards
    BY CountsStay
  <2>2. TypeOK'
    BY <2>1 DEF IInv, TypeOK
  <2>3. FromResolved' /\ Fresh' /\ Polling'
    BY DEF IInv, FromResolved, Fresh, Polling
  <2>4. ReadInv'
    BY ReadInvStays DEF IInv, ReadInv, readVars
  <2> QED BY <2>2, <2>3, <2>4 DEF IInv, ReadInv
<1> QED BY <1>1, <1>2, <1>3, <1>4, <1>5, StopInv DEF Next

\* The invariant holds of every fetch.
LEMMA SpecInv == Spec => []IInv
BY InitInv, StepInv, PTL DEF Spec
-----------------------------------------------------------------------------
\* What is taken in order is taken once: there are as many records as
\* takings.
LEMMA HeldCount ==
    ASSUME NEW p \in Partitions, taken[p] \in Seq(Offsets),
           \A i, j \in DOMAIN taken[p] : i < j => taken[p][i] < taken[p][j]
    PROVE  Cardinality(Held(p)) = Len(taken[p])
PROOF
<1> DEFINE n == Len(taken[p])
           f == taken[p]
<1>1. n \in Nat /\ DOMAIN f = 1 .. n /\ f \in [1 .. n -> Offsets]
  OBVIOUS
<1>2. \A i \in 1 .. n : f[i] \in Int
  BY <1>1, OptionFacts
<1> HIDE DEF n
<1>3. \A i, j \in 1 .. n : f[i] = f[j] => i = j
  BY <1>1, <1>2
<1>4. Held(p) = {f[i] : i \in 1 .. n}
  BY <1>1 DEF Held
<1>5. f \in Bijection(1 .. n, Held(p))
  <2>1. f \in [1 .. n -> Held(p)]
    BY <1>1, <1>4
  <2>2. f \in Injection(1 .. n, Held(p))
    BY <2>1, <1>3 DEF Injection, IsInjective
  <2>3. f \in Surjection(1 .. n, Held(p))
    BY <2>1, <1>4 DEF Surjection
  <2> QED BY <2>2, <2>3 DEF Bijection
<1>6. IsFiniteSet(1 .. n) /\ Cardinality(1 .. n) = n
  BY <1>1, FS_Interval
<1>7. ExistsBijection(1 .. n, Held(p))
  BY <1>5 DEF ExistsBijection
<1> QED BY <1>6, <1>7, FS_Bijection DEF n

\* The sum of what is loaded is within the sum of the limits.
LEMMA LoadedFacts == IInv => LoadedIsWithinLimits
PROOF
<1> SUFFICES ASSUME IInv PROVE LoadedIsWithinLimits
  OBVIOUS
<1>1. TypeOK /\ LoadLimits
  BY DEF IInv
<1>2. ASSUME NEW p \in Partitions
      PROVE  /\ Len(taken[p]) \in Nat /\ Limit(p) \in Nat
             /\ Len(taken[p]) <= Limit(p)
  <2>1. remaining[p] \in Nat /\ Len(taken[p]) \in Nat
    BY <1>1, TypeFacts
  <2> QED BY <2>1 DEF Limit
<1>3. Lengths \in [Partitions -> Nat] /\ AllLimits \in [Partitions -> Nat]
      /\ \A p \in Partitions : Lengths[p] <= AllLimits[p]
  BY <1>2 DEF Lengths, AllLimits
<1>4. SumFunction(Lengths) <= SumFunction(AllLimits)
  BY <1>3, SumsCompare
<1>5. SumFunction(Lengths) \in Nat /\ SumFunction(AllLimits) \in Nat
  BY <1>3, SumOfPartitions
<1>6. /\ matching \in Nat /\ EffectiveMax(filter.cap) \in Nat
      /\ filter.total # None => filter.total \in Nat
  BY <1>1, FilterFacts DEF TypeOK
<1>7. SumFunction(Lengths) <= matching
  BY <1>1, <1>4, <1>5, <1>6 DEF LoadLimits
<1>8. filter.total # None => SumFunction(Lengths) <= filter.total
  BY <1>1, <1>4, <1>5, <1>6 DEF LoadLimits
<1>9. \A p \in Partitions : Len(taken[p]) <= EffectiveMax(filter.cap)
  BY <1>1, <1>2, <1>6 DEF LoadLimits
<1> QED BY <1>7, <1>8, <1>9 DEF LoadedIsWithinLimits, Lengths

\* From the account of each partition to what was read of it.
LEMMA ReadFacts == IInv => ReadsWhatTheFilterSelects
PROOF
<1> SUFFICES ASSUME IInv, NEW p \in Partitions
             PROVE  /\ Held(p) \subseteq Wanted(p)
                    /\ \A i, j \in DOMAIN taken[p] :
                          i < j => taken[p][i] < taken[p][j]
                    /\ \A o \in Wanted(p) \ Held(p), h \in Held(p) : h < o
                    /\ phase = "over" /\ Limit(p) > 0 /\ unfinished = 0
                       => Len(taken[p])
                             = Min({Limit(p), Cardinality(Wanted(p))})
  BY DEF ReadsWhatTheFilterSelects
<1>1. TypeOK /\ Reading /\ Finished
  BY DEF IInv
<1>2. /\ taken[p] \in Seq(Offsets) /\ Len(taken[p]) \in Nat
      /\ remaining[p] \in Nat /\ position[p] \in Nat /\ end[p] \in Nat
      /\ DOMAIN taken[p] = 1 .. Len(taken[p])
  <2>1. taken[p] \in Seq(Offsets) /\ remaining[p] \in Nat
    BY <1>1, TypeFacts
  <2>2. position[p] \in Offsets /\ end[p] \in Offsets
    BY <1>1, TypeFacts
  <2>3. Len(taken[p]) \in Nat /\ DOMAIN taken[p] = 1 .. Len(taken[p])
    BY <2>1
  <2>4. position[p] \in Nat /\ end[p] \in Nat
    BY <2>2, OptionFacts
  <2> QED BY <2>1, <2>3, <2>4
<1>3. \A o \in Wanted(p) : o \in Offsets /\ o \in Nat /\ o < end[p]
  BY <1>1, TypeFacts, OptionFacts DEF Wanted
<1>4. CASE p \notin Working
  <2>1. ~(Limit(p) > 0) /\ Limit(p) = remaining[p] + Len(taken[p])
    BY <1>4 DEF Working, Limit
  <2>2. Len(taken[p]) = 0
    BY <1>2, <2>1
  <2>3. DOMAIN taken[p] = {}
    BY <1>2, <2>2
  <2> QED BY <2>1, <2>3 DEF Held
<1>5. CASE p \in Working
  <2>1. /\ Ordered(p) /\ AnsweredFor(p)
        /\ \A o \in Option(Offsets) :
              Queued([partition |-> p, offset |-> o]) => Announced(p, o)
    BY <1>1, <1>5 DEF Reading
  <2>2. ASSUME NEW o \in Wanted(p), o \notin Held(p), NEW h \in Held(p)
        PROVE  h < o
    <3>1. /\ o \in Nat /\ o < end[p] /\ o # None /\ o \in Option(Offsets)
          /\ h \in Nat /\ h < position[p]
      BY <1>3, <2>1, OptionFacts DEF Ordered, Option
    <3>2. CASE ~(o < position[p])
      BY <3>1, <3>2, <1>2
    <3>3. CASE o < position[p] /\ Queued([partition |-> p, offset |-> o])
      BY <3>1, <3>3, <2>1 DEF Announced
    <3>4. CASE o < position[p] /\ ~Queued([partition |-> p, offset |-> o])
      BY <3>4, <2>1, <2>2 DEF AnsweredFor, Skipped
    <3> QED BY <3>2, <3>3, <3>4
  <2>3. ASSUME unfinished = 0
        PROVE  Len(taken[p]) = Min({Limit(p), Cardinality(Wanted(p))})
    <3>1. Working \ finished = {}
      <4>1. Cardinality(Working \ finished) = 0
        BY <1>1, <2>3 DEF Finished, UnfinishedCountsThem
      <4>2. IsFiniteSet(Working \ finished)
        BY ShardsFacts, FS_Difference
      <4> QED BY <4>1, <4>2, FS_EmptySet
    <3>2. remaining[p] = 0 \/ Wanted(p) \subseteq Held(p)
      BY <3>1, <1>1, <1>5 DEF Finished
    <3>3. Cardinality(Held(p)) = Len(taken[p])
      BY <1>2, <2>1, HeldCount DEF Ordered
    <3>4. IsFiniteSet(Wanted(p)) /\ Cardinality(Wanted(p)) \in Nat
      <4>1. 0 \in Int /\ MaxOffset \in Int
        BY PollLoopAssumption
      <4>2. IsFiniteSet(Offsets)
        BY <4>1, FS_Interval DEF Offsets
      <4>3. Wanted(p) \subseteq Offsets
        BY <1>3
      <4> QED BY <4>2, <4>3, FS_Subset, FS_CardinalityType
    <3>5. Cardinality(Held(p)) <= Cardinality(Wanted(p))
      BY <2>1, <3>4, FS_Subset DEF Ordered
    <3> DEFINE c == Cardinality(Wanted(p))
               n == Len(taken[p])
               l == Limit(p)
    <3>6. l = remaining[p] + n
      BY DEF Limit
    <3>7. n = l \/ n = c
      <4>1. CASE remaining[p] = 0
        BY <4>1, <3>6, <1>2
      <4>2. CASE Wanted(p) \subseteq Held(p)
        <5>1. Wanted(p) = Held(p)
          BY <4>2, <2>1 DEF Ordered
        <5> QED BY <5>1, <3>3
      <4> QED BY <3>2, <4>1, <4>2
    <3>8. n <= l /\ n <= c /\ n \in Nat /\ l \in Nat /\ c \in Nat
      BY <3>3, <3>4, <3>5, <3>6, <1>2
    <3> HIDE DEF c, n, l
    <3>9. Min({l, c}) = n
      <4>1. l \in Int /\ c \in Int
        BY <3>8
      <4>2. Min({l, c}) = IF l <= c THEN l ELSE c
        BY <4>1, MinOfTwo
      <4> QED BY <4>2, <3>7, <3>8
    <3> QED BY <3>9 DEF c, n, l
  <2> QED BY <2>1, <2>2, <2>3 DEF Ordered
<1> QED BY <1>4, <1>5

\* What is held lies in its window, and the window within the filter.
LEMMA HonouredFacts == IInv => HonoursTheFilter
PROOF
<1> SUFFICES ASSUME IInv, NEW p \in Partitions, NEW o \in Held(p)
             PROVE  /\ filter.offset # None
                          => o >= Min({filter.offset, high[p]})
                    /\ filter.from # None => o >= Min({filter.from, high[p]})
                    /\ filter.to # None => o < filter.to
  BY DEF HonoursTheFilter
<1>1. TypeOK /\ Windowed /\ StartsRight
  BY DEF IInv
<1>2. o \in Wanted(p) /\ p \in Working
  <2>1. o \in Wanted(p)
    BY ReadFacts DEF ReadsWhatTheFilterSelects
  <2>2. taken[p] \in Seq(Offsets) /\ remaining[p] \in Nat
    BY <1>1, TypeFacts
  <2>3. Len(taken[p]) > 0
    BY <2>2 DEF Held
  <2> QED BY <2>1, <2>2, <2>3 DEF Working, Limit
<1>3. /\ o \in log[p].records /\ start[p] <= o /\ o < end[p]
      /\ o \in Int /\ start[p] \in Int /\ high[p] \in Int
  BY <1>1, <1>2, TypeFacts, OptionFacts DEF Wanted
<1>4. /\ filter.offset # None => filter.offset \in Int
      /\ filter.from # None => filter.from \in Int
  BY <1>1, TypeFacts, FilterFacts
<1>5. ASSUME NEW x \in Int, start[p] >= Min({x, high[p]})
      PROVE  o >= Min({x, high[p]})
  <2> DEFINE m == Min({x, high[p]})
  <2>1. m \in Int /\ start[p] >= m
    BY <1>3, <1>5, MinOfTwo
  <2> HIDE DEF m
  <2>2. o >= m
    BY <2>1, <1>3
  <2> QED BY <2>2 DEF m
<1> QED BY <1>1, <1>2, <1>3, <1>4, <1>5 DEF StartsRight, Windowed

\* What fetch_messages reports as loaded is within the matches, the total
\* and the cap, for any topic and filter, and unfinished counts each
\* partition with work once, so that the unsigned counter never passes zero.
THEOREM LoopInvariantHolds == Spec => []LoopInvariant
PROOF
<1>1. IInv => LoopInvariant
  BY LoadedFacts DEF IInv, Finished, LoopInvariant
<1> QED BY <1>1, SpecInv, PTL

\* The loop reads the oldest of what the filter selects, each record once,
\* and all of it up to the limit when its partitions end it, for any number
\* of partitions, shards and records and any order of arrival.
THEOREM ReadsTheOldestWanted == Spec => []ReadsWhatTheFilterSelects
BY ReadFacts, SpecInv, PTL

\* No record that is returned is outside of the bounds the filter sets,
\* although the partitions grow while the fetch asks about them.
THEOREM FilterIsHonoured == Spec => []HonoursTheFilter
BY HonouredFacts, SpecInv, PTL

\* byte_budget_reached is looked at after each message: once the budget is
\* reached no more bytes are added.
THEOREM ByteBudgetOvershoot == Spec => OneMessagePastTheByteBudget
PROOF
<1>1. IInv /\ [Next]_vars
      => [bytes' # bytes /\ filter.bytes # None => bytes < filter.bytes]_vars
  <2> SUFFICES ASSUME IInv, Next, bytes' # bytes, filter.bytes # None
               PROVE  bytes < filter.bytes
    OBVIOUS
  <2>1. PollReady
    <3>1. ~UNCHANGED countVars /\ ~UNCHANGED bytes
      BY DEF countVars
    <3> QED BY <3>1 DEF Next, Produce, Arrive, Stop, Setup, Fail,
            StoppedEarly, Watermarks, ResolveFrom, ResolveTo, Plan, LoopStep,
            Check, PollOn, PollNothing
  <2> QED BY <2>1 DEF PollReady, IInv, Polling
<1> QED BY <1>1, SpecInv, PTL DEF Spec, OneMessagePastTheByteBudget
=============================================================================
