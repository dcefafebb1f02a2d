------------------------------ MODULE PollLoop ------------------------------
(***************************************************************************)
(* RdKafkaClient::fetch_messages (backend/kafka/src/client.rs): which      *)
(* offsets of each partition a fetch reads, and the loop that polls them   *)
(* from several consumers (shards) in turn.                                *)
(*                                                                         *)
(* The broker is external: a partition is its offsets, some of which carry *)
(* a record and some of which do not (a commit marker, a record compacted  *)
(* away), and it grows while the fetch is set up and read.  A record's     *)
(* timestamp is its offset: the code takes the two to grow together.  A    *)
(* consumer hands over what has arrived in the order it arrived, one       *)
(* record or end-of-partition of each partition at a time.                 *)
(***************************************************************************)
EXTENDS FetchWindow, Sequences

CONSTANTS Partitions,    \* ids of the topic's partitions
          MaxOffset,     \* bounds how far a partition grows
          Logs,          \* what a partition may hold when the fetch starts
          Filters,       \* what the Data tab may ask for
          Busy,          \* partitions whose producers never stop
          Sizes,         \* of a payload that counts towards the byte budget
          MaxIdle        \* fruitless polls before the loop gives up:
                         \* IDLE_TIMEOUT over poll_slice

Offsets == 0 .. MaxOffset
Option(S) == S \union {None}

Log == [low : Offsets, end : Offsets, records : SUBSET Offsets]

\* The settings store lets no byte budget of zero through.
Filter == [offset : Option(Nat), from : Option(Nat), to : Option(Nat),
           cap : Option(Nat), total : Option(Nat), bytes : Option(Nat \ {0})]

ASSUME PollLoopAssumption ==
    /\ Partitions \subseteq Nat /\ IsFiniteSet(Partitions)
    /\ MaxOffset \in Nat
    /\ Logs \subseteq {l \in Log : /\ l.low <= l.end
                                  /\ l.records \subseteq l.low .. l.end - 1}
    /\ Filters \subseteq Filter
    /\ Busy \subseteq Partitions
    /\ Sizes \subseteq Nat
    /\ MaxIdle \in Nat \ {0}

VARIABLES
    log,         \* the partitions, as the broker has them
    filter,
    cancelled,   \* the flag a Stop raises
    phase,       \* "watermarks", "from", "to", "plan", then the loop's
                 \* "check" and "poll", then "over" or "failed"
    low, high,   \* the watermarks, queried once
    fromOffset,  \* what the From time resolved to
    start, end,  \* where reading starts, and the first offset past the filter
    matching,    \* total_matching
    remaining,   \* messages each partition may still contribute
    finished, unfinished,
    position,    \* the offset the broker sends next
    atEnd,       \* where the end of the partition was last announced
    queue,       \* what has arrived at each shard
    nextShard, swept,
    idle, taken, bytes, stoppedAtByteBudget

logVars == <<log, filter>>
planVars == <<low, high, fromOffset, start, end, matching>>
countVars == <<remaining, finished, unfinished, taken, bytes,
               stoppedAtByteBudget>>
brokerVars == <<position, atEnd>>
turnVars == <<nextShard, swept>>
vars == <<logVars, cancelled, phase, planVars, countVars, brokerVars, queue,
          turnVars, idle>>

Limit(p) == remaining[p] + Len(taken[p])
Working == {p \in Partitions : Limit(p) > 0}
Shards == 0 .. ShardCount(Cardinality(Working)) - 1

\* Partitions are dealt to the shards round robin.
ShardOf(p) ==
    Cardinality({q \in Working : q < p}) % ShardCount(Cardinality(Working))

Events == [partition : Partitions, offset : Option(Offsets)]

\* The shape of a fetch: the counters never pass zero.
TypeOK ==
    /\ log \in [Partitions -> Log] /\ filter \in Filters
    /\ cancelled \in BOOLEAN
    /\ phase \in {"watermarks", "from", "to", "plan", "check", "poll", "over",
                  "failed"}
    /\ {low, high, fromOffset, start, end} \subseteq [Partitions -> Offsets]
    /\ matching \in Nat
    /\ remaining \in [Partitions -> Nat]
    /\ finished \subseteq Partitions /\ unfinished \in Nat
    /\ position \in [Partitions -> Offsets]
    /\ atEnd \in [Partitions -> Option(Offsets)]
    /\ queue \in [0 .. MAX_FETCH_SHARDS - 1 -> Seq(Events)]
    /\ nextShard \in Shards /\ swept \in 0 .. Cardinality(Shards)
    /\ idle \in 0 .. MaxIdle
    /\ taken \in [Partitions -> Seq(Offsets)]
    /\ bytes \in Nat /\ stoppedAtByteBudget \in BOOLEAN

Nowhere == [p \in Partitions |-> 0]

Init ==
    /\ log \in [Partitions -> Logs] /\ filter \in Filters
    /\ cancelled = FALSE /\ phase = "watermarks"
    /\ low = Nowhere /\ high = Nowhere /\ fromOffset = Nowhere
    /\ start = Nowhere /\ end = Nowhere /\ matching = 0
    /\ remaining = Nowhere /\ finished = {} /\ unfinished = 0
    /\ position = Nowhere /\ atEnd = [p \in Partitions |-> None]
    /\ queue = [s \in 0 .. MAX_FETCH_SHARDS - 1 |-> <<>>]
    /\ nextShard = 0 /\ swept = 0 /\ idle = 0
    /\ taken = [p \in Partitions |-> <<>>] /\ bytes = 0
    /\ stoppedAtByteBudget = FALSE
-----------------------------------------------------------------------------
(* The broker and the user. *)

\* A record, or an offset that carries none.
Produce(p) ==
    /\ phase \notin {"over", "failed"}
    /\ log[p].end < MaxOffset
    /\ log' = [log EXCEPT ![p].end = @ + 1,
                          ![p].records = @ \union {log[p].end}]
       \/ log' = [log EXCEPT ![p].end = @ + 1]
    /\ UNCHANGED <<filter, cancelled, phase, planVars, countVars, brokerVars,
                   queue, turnVars, idle>>

Ahead(p) == {o \in log[p].records : o >= position[p]}

\* The next record of a partition, or its end, reaches the partition's shard.
\* A busy partition has one more record for ever.
Arrive(p) ==
    /\ phase \in {"check", "poll"}
    /\ p \in Working
    /\ LET s == ShardOf(p)
           Arrives(o) == queue' = [queue EXCEPT ![s] = Append(@,
                                [partition |-> p, offset |-> o])]
       IN  /\ \A i \in DOMAIN queue[s] : queue[s][i].partition # p
           /\ \/ /\ Ahead(p) # {}
                 /\ Arrives(Min(Ahead(p)))
                 /\ position' = [position EXCEPT ![p] = Min(Ahead(p)) + 1]
                 /\ UNCHANGED atEnd
              \/ /\ Ahead(p) = {} /\ p \in Busy
                 /\ log[p].end = MaxOffset
                 /\ Arrives(MaxOffset)
                 /\ position' = [position EXCEPT ![p] = MaxOffset]
                 /\ UNCHANGED atEnd
              \/ /\ Ahead(p) = {} /\ p \notin Busy
                 /\ atEnd[p] # log[p].end
                 /\ Arrives(None)
                 /\ position' = [position EXCEPT ![p] = Max({@, log[p].end})]
                 /\ atEnd' = [atEnd EXCEPT ![p] = log[p].end]
    /\ UNCHANGED <<logVars, cancelled, phase, planVars, countVars, turnVars,
                   idle>>

Stop ==
    /\ phase \notin {"over", "failed"}
    /\ ~cancelled
    /\ cancelled' = TRUE
    /\ UNCHANGED <<logVars, phase, planVars, countVars, brokerVars, queue,
                   turnVars, idle>>
-----------------------------------------------------------------------------
(* Setting the fetch up. *)

Fail(during) ==
    /\ phase = during
    /\ phase' = "failed"
    /\ UNCHANGED <<logVars, cancelled, planVars, countVars, brokerVars, queue,
                   turnVars, idle>>

\* A Stop is looked for between the phases, and returns an empty result.
StoppedEarly ==
    /\ phase \in {"watermarks", "plan"}
    /\ cancelled
    /\ phase' = "over"
    /\ UNCHANGED <<logVars, cancelled, planVars, countVars, brokerVars, queue,
                   turnVars, idle>>

Watermarks ==
    /\ phase = "watermarks"
    /\ ~cancelled
    /\ low' = [p \in Partitions |-> log[p].low]
    /\ high' = [p \in Partitions |-> log[p].end]
    /\ phase' = "from"
    /\ UNCHANGED <<logVars, cancelled, fromOffset, start, end, matching,
                   countVars, brokerVars, queue, turnVars, idle>>

\* For comparison: a time past the last record resolves to the oldest one.
OffsetAtOrLow(p, time) ==
    LET later == {o \in log[p].records : o >= time}
    IN  IF later = {} THEN low[p] ELSE Min(later)

\* resolve_offsets_by_timestamp: the first record at or after the time, or,
\* when there is none, the high watermark read earlier.
OffsetAt(p, time) ==
    LET later == {o \in log[p].records : o >= time}
    IN  IF later = {} THEN high[p] ELSE Min(later)

ResolveFrom ==
    /\ phase = "from"
    /\ fromOffset' = IF filter.from = None THEN fromOffset
                     ELSE [p \in Partitions |-> OffsetAt(p, filter.from)]
    /\ phase' = "to"
    /\ UNCHANGED <<logVars, cancelled, low, high, start, end, matching,
                   countVars, brokerVars, queue, turnVars, idle>>

ResolveTo ==
    /\ phase = "to"
    /\ end' = IF filter.to = None THEN high
              ELSE [p \in Partitions |-> OffsetAt(p, filter.to)]
    /\ phase' = "plan"
    /\ UNCHANGED <<logVars, cancelled, low, high, fromOffset, start, matching,
                   countVars, brokerVars, queue, turnVars, idle>>

Pinned == filter.offset # None \/ filter.from # None

FilterStart ==
    [p \in Partitions |->
        IF ~Pinned THEN low[p]
        ELSE CombinedStart(IF filter.offset = None THEN None
                           ELSE Clamp(filter.offset, low[p], high[p]),
                           IF filter.from = None THEN None
                           ELSE fromOffset[p])]

Windows == PartitionLimits(FilterStart, end, EffectiveMax(filter.cap))

\* distribute_total_budget, see BudgetSplit.
Limits ==
    IF filter.total = None THEN {Windows}
    ELSE {share \in [Partitions -> 0 .. MaxOffset] :
             FairShare(share, Windows, filter.total)}

\* Limits, start offsets, shards and their assignments.
Plan ==
    /\ phase = "plan"
    /\ ~cancelled
    /\ \E limits \in Limits :
          /\ remaining' = limits
          /\ start' = IF Pinned THEN FilterStart
                      ELSE [p \in Partitions |->
                               NewestFirst(low[p], end[p], limits[p])]
          /\ unfinished' = Cardinality({p \in Partitions : limits[p] > 0})
    /\ position' = start'
    /\ matching' = SumFunction(Available(FilterStart, end))
    /\ phase' = "check"
    /\ UNCHANGED <<logVars, cancelled, low, high, fromOffset, end, finished,
                   taken, bytes, stoppedAtByteBudget, atEnd, queue, turnVars,
                   idle>>

Setup ==
    \/ Fail("watermarks") \/ Fail("from") \/ Fail("to") \/ Fail("plan")
    \/ StoppedEarly \/ Watermarks \/ ResolveFrom \/ ResolveTo \/ Plan
-----------------------------------------------------------------------------
(* The poll loop. *)

\* For comparison: a while that never gives up.
MoreToReadForEver ==
    /\ unfinished > 0
    /\ ~stoppedAtByteBudget
    /\ ~cancelled

\* The condition of the while.
MoreToRead ==
    /\ unfinished > 0
    /\ SumFunction([p \in Partitions |-> Len(taken[p])])
          < SumFunction([p \in Partitions |-> Limit(p)])
    /\ idle < MaxIdle
    /\ ~stoppedAtByteBudget
    /\ ~cancelled

\* Each turn of the loop starts a sweep where the last one left off.
Check ==
    /\ phase = "check"
    /\ phase' = IF MoreToRead THEN "poll" ELSE "over"
    /\ swept' = 0
    /\ UNCHANGED <<logVars, cancelled, planVars, countVars, brokerVars, queue,
                   nextShard, idle>>

\* For comparison: every announcement of an end counts.
FinishAgain(p) ==
    /\ finished' = finished \union {p}
    /\ unfinished' = unfinished - 1

\* finished.insert, and one partition less to wait for if it was new.
FinishPartition(p) ==
    /\ finished' = finished \union {p}
    /\ unfinished' = IF p \in finished THEN unfinished ELSE unfinished - 1

\* A record of a partition that has nothing left to contribute.
Exhausted(p) ==
    /\ remaining[p] <= 0
    /\ idle' = 0
    /\ UNCHANGED countVars

\* For comparison: the partition is finished, and still waited for.
PastTheEndUncounted(p, offset) ==
    /\ remaining[p] > 0 /\ offset >= end[p]
    /\ idle' = 0
    /\ finished' = finished \union {p}
    /\ UNCHANGED <<remaining, unfinished, taken, bytes, stoppedAtByteBudget>>

\* A record past what the filter asked for.
PastTheEnd(p, offset) ==
    /\ remaining[p] > 0 /\ offset >= end[p]
    /\ idle' = 0
    /\ FinishPartition(p)
    /\ UNCHANGED <<remaining, taken, bytes, stoppedAtByteBudget>>

\* For comparison: a budget that is only reached once it is exceeded.
ByteBudgetExceeded(read) == filter.bytes # None /\ read > filter.bytes

\* byte_budget_reached.
ByteBudgetReached(read) == filter.bytes # None /\ read >= filter.bytes

\* For comparison: a record that is not counted off its partition's limit.
TakeRecordUncounted(p, offset) ==
    /\ remaining[p] > 0 /\ offset < end[p]
    /\ idle' = 0
    /\ taken' = [taken EXCEPT ![p] = Append(@, offset)]
    /\ \E size \in Sizes : bytes' = bytes + size
    /\ stoppedAtByteBudget' = ByteBudgetReached(bytes')
    /\ UNCHANGED <<remaining, finished, unfinished>>

\* A record the fetch keeps; the byte budget is looked at afterwards.
TakeRecord(p, offset) ==
    /\ remaining[p] > 0 /\ offset < end[p]
    /\ idle' = 0
    /\ taken' = [taken EXCEPT ![p] = Append(@, offset)]
    /\ remaining' = [remaining EXCEPT ![p] = @ - 1]
    /\ IF remaining[p] = 1 THEN FinishPartition(p)
       ELSE UNCHANGED <<finished, unfinished>>
    /\ \E size \in Sizes : bytes' = bytes + size
    /\ stoppedAtByteBudget' = ByteBudgetReached(bytes')

\* The end of a partition neither resets the idle clock nor advances it.
EndOfPartition(p) ==
    /\ FinishPartition(p)
    /\ UNCHANGED <<remaining, taken, bytes, stoppedAtByteBudget, idle>>

Handle(event) ==
    IF event.offset = None
    THEN EndOfPartition(event.partition)
    ELSE \/ Exhausted(event.partition)
         \/ PastTheEnd(event.partition, event.offset)
         \/ TakeRecord(event.partition, event.offset)

\* For comparison: every sweep starts at the first shard.
TurnFromTheFirst ==
    nextShard' = IF queue[nextShard] # <<>> THEN 0
                 ELSE (nextShard + 1) % Cardinality(Shards)

\* next_shard moves on with every poll of a shard.
Turn == nextShard' = (nextShard + 1) % Cardinality(Shards)

\* A poll that finds something, in the sweep or in the wait that follows it.
PollReady ==
    /\ phase = "poll"
    /\ queue[nextShard] # <<>>
    /\ Handle(Head(queue[nextShard]))
    /\ queue' = [queue EXCEPT ![nextShard] = Tail(@)]
    /\ Turn
    /\ phase' = "check"
    /\ UNCHANGED <<logVars, cancelled, planVars, brokerVars, swept>>

\* The sweep does not wait for a shard that has nothing.
PollOn ==
    /\ phase = "poll"
    /\ swept < Cardinality(Shards)
    /\ queue[nextShard] = <<>>
    /\ swept' = swept + 1
    /\ Turn
    /\ UNCHANGED <<logVars, cancelled, phase, planVars, countVars, brokerVars,
                   queue, idle>>

\* The wait after a sweep that found nothing times out, or a shard reports an
\* error, which is answered without waiting.
PollNothing ==
    /\ phase = "poll"
    /\ queue[nextShard] = <<>>
    /\ idle' = idle + 1
    /\ Turn
    /\ phase' = "check"
    /\ UNCHANGED <<logVars, cancelled, planVars, countVars, brokerVars, queue,
                   swept>>

LoopStep == Check \/ PollReady \/ PollOn \/ PollNothing

Next ==
    \/ \E p \in Partitions : Produce(p) \/ Arrive(p)
    \/ Stop \/ Setup \/ LoopStep

\* The closure has a thread of its own, and every partition's leader answers.
Spec == /\ Init /\ [][Next]_vars
        /\ WF_vars(Setup) /\ WF_vars(LoopStep)
        /\ \A p \in Partitions : WF_vars(Arrive(p))
-----------------------------------------------------------------------------
\* The offsets the filter selects of a partition.
Wanted(p) == {o \in log[p].records : start[p] <= o /\ o < end[p]}

Held(p) == {taken[p][i] : i \in DOMAIN taken[p]}

\* What has been read is the oldest of what the filter selects, each record
\* once, and it is all of it, up to the limit, if the fetch ended because its
\* partitions did: a hole in the offsets, a record of the next transaction or
\* an announcement that comes twice changes nothing (the three ways a
\* partition is finished).
ReadsWhatTheFilterSelects ==
    \A p \in Partitions :
        /\ Held(p) \subseteq Wanted(p)
        /\ \A i, j \in DOMAIN taken[p] : i < j => taken[p][i] < taken[p][j]
        /\ \A o \in Wanted(p) \ Held(p), h \in Held(p) : h < o
        /\ phase = "over" /\ Limit(p) > 0 /\ unfinished = 0
              => Len(taken[p]) = Min({Limit(p), Cardinality(Wanted(p))})

\* No record is older than the offset or the From time asked for, nor as new
\* as the To time, although the partitions grow between the questions the fetch
\* asks about them; only what arrived after the watermarks were read may be
\* older, when the offset or the time was past them.
HonoursTheFilter ==
    \A p \in Partitions : \A o \in Held(p) :
        /\ filter.offset # None => o >= Min({filter.offset, high[p]})
        /\ filter.from # None => o >= Min({filter.from, high[p]})
        /\ filter.to # None => o < filter.to

\* The Data tab shows "loaded of matching": never more than is matched, than
\* the total asked for, or than the cap allows of one partition.
LoadedIsWithinLimits ==
    LET loaded == SumFunction([p \in Partitions |-> Len(taken[p])])
    IN  /\ loaded <= matching
        /\ filter.total # None => loaded <= filter.total
        /\ \A p \in Partitions : Len(taken[p]) <= EffectiveMax(filter.cap)

\* unfinished never counts a partition twice: it reaches zero exactly when
\* every partition with work is finished, and it is unsigned.
UnfinishedCountsThem ==
    unfinished = Cardinality(Working \ finished)

\* The byte budget is overshot by one message at most (byte_budget_reached).
OneMessagePastTheByteBudget ==
    [][bytes' # bytes /\ filter.bytes # None => bytes < filter.bytes]_vars

\* A fetch ends once the brokers have answered for every partition, although
\* other partitions keep its consumers supplied with records it must skip:
\* shards take turns, so a busy one cannot starve a slow one.
AnsweringBrokersEndTheFetch == <>(phase \in {"over", "failed"})

\* What the loop keeps count of is right: the variables have their types,
\* nothing is loaded beyond a limit, and nobody is finished twice.
LoopInvariant == TypeOK /\ LoadedIsWithinLimits /\ UnfinishedCountsThem
=============================================================================
