----------------------------- MODULE OffsetReads -----------------------------
(***************************************************************************)
(* What the panels show of offsets (backend/kafka/src/client.rs): the      *)
(* partitions of a topic, the number of its messages, and how far a        *)
(* consumer group lags behind (with assignment.rs, which reads what each   *)
(* member of the group was assigned).                                      *)
(*                                                                         *)
(* No answer is a snapshot: the group, its committed offsets and the       *)
(* watermarks of each partition are read one after the other, while        *)
(* producers, retention and the group itself go on.                        *)
(***************************************************************************)
EXTENDS Integers, FiniteSetsExt, Functions, SequencesExt

CONSTANTS Null,
          TopicPartitions,   \* the partitions of the cluster: <<topic, number>>
          Groups,            \* what a listing may say of the group
          Invalid,           \* the offset of a partition nothing was committed for
          MaxEvents          \* bounds what happens in the cluster meanwhile

Topics == {tp[1] : tp \in TopicPartitions}
PartitionsOf(topic) == {tp \in TopicPartitions : tp[1] = topic}

\* Idle groups have no members; the groups of other protocols own nothing.
States == {"Empty", "Dead", "Stable", "PreparingRebalance"}

\* What the leader of a group writes for a member (ConsumerProtocolAssignment),
\* as the numbers and names the bytes stand for: version, topics and for each
\* its name and its partitions; a negative count is that of a null array.
Announced(count) == Max({count, 0})
EndOfTopic(bytes, a) == a + 2 + Announced(bytes[a + 2])
OwnedOf(bytes, a) == {<<bytes[a + 1], bytes[i]>> : i \in a + 3 .. EndOfTopic(bytes, a)}

\* The first n topics are there, each between two of these places.
AreTopics(bytes, places, n) ==
    /\ places[0] = 2
    /\ \A k \in 1 .. n :
          /\ places[k - 1] + 2 <= Len(bytes)
          /\ bytes[places[k - 1] + 1] \in Topics
          /\ bytes[places[k - 1] + 2] \in Int
          /\ places[k] = EndOfTopic(bytes, places[k - 1])

IsWhole(bytes, owns) ==
    /\ Len(bytes) >= 2 /\ bytes[2] \in Int
    /\ \E places \in [0 .. Announced(bytes[2]) -> 0 .. Len(bytes)] :
          /\ AreTopics(bytes, places, Announced(bytes[2]))
          /\ owns = UNION {OwnedOf(bytes, places[k - 1]) : k \in 1 .. Announced(bytes[2])}

\* Of the topic behind those that are there something is missing, or its name.
IsCutOff(bytes) ==
    \/ Len(bytes) < 2
    \/ /\ bytes[2] \in Int
       /\ \E n \in 0 .. Announced(bytes[2]) - 1 :
              \E places \in [0 .. n -> 0 .. Len(bytes)] :
                  /\ AreTopics(bytes, places, n)
                  /\ \/ Len(bytes) < places[n] + 2
                     \/ bytes[places[n] + 1] \notin Topics
                     \/ /\ bytes[places[n] + 2] \in Int
                        /\ Len(bytes) < EndOfTopic(bytes, places[n])

\* A member has its id, what it was assigned, the fields that say so (Null for a
\* member without an assignment) and whether they arrive whole.
Group(g) ==
    /\ g.state \in States /\ g.protocol_type \in {"consumer", "connect"}
    /\ DOMAIN g.members = 1 .. Len(g.members) /\ Len(g.members) \in Nat
    /\ \A k \in DOMAIN g.members :
          LET member == g.members[k]
          IN  /\ member.owns \subseteq TopicPartitions /\ member.whole \in BOOLEAN
              /\ g.protocol_type = "consumer" /\ member.assignment # Null =>
                    /\ Len(member.assignment) \in Nat
                    /\ DOMAIN member.assignment = 1 .. Len(member.assignment)
                    /\ IF member.whole THEN IsWhole(member.assignment, member.owns)
                       ELSE IsCutOff(member.assignment)

ASSUME OffsetReadsAssumption ==
    /\ IsFiniteSet(TopicPartitions)
    /\ Null \notin Int /\ (\A owns \in SUBSET TopicPartitions : owns # Null)
    /\ Invalid \in Int /\ Invalid < 0
    /\ \A g \in Groups : Group(g)
    /\ MaxEvents \in Nat

VARIABLES log, offsets,      \* the cluster: watermarks and committed offsets
          group,             \* the group, when it is listed
          events,            \* how much has happened there
          ask, step,         \* which panel asks, and where its request is
          owners,            \* the member that owns a partition
          committed,
          wanted, marks,     \* partitions to ask for, watermarks of those asked
          answer,
          before,            \* history: the cluster's log when reading began
          recreated          \* history: topics created anew

clusterVars == <<log, offsets, group, events>>
requestVars == <<ask, step, owners, committed, wanted, marks, answer>>
historyVars == <<before, recreated>>
readVars == <<clusterVars, requestVars, historyVars>>

Nobody == <<>>

ReadsInit ==
    /\ log = [tp \in TopicPartitions |-> [low |-> 0, high |-> 1]]
    /\ offsets \in [TopicPartitions -> {Invalid, 1}]
    /\ group \in Groups /\ events = 0
    /\ ask \in {"lag", "partitions", "count"} /\ step = "idle"
    /\ owners = Nobody /\ committed = Nobody
    /\ wanted = {} /\ marks = Nobody /\ answer = Null
    /\ before = log /\ recreated = {}

-----------------------------------------------------------------------------
(* The cluster.                                                            *)

Happens ==
    /\ step \notin {"answered", "failed"}
    /\ events < MaxEvents /\ events' = events + 1
    /\ UNCHANGED <<requestVars, group, before>>

Produce(tp) ==
    /\ Happens
    /\ log' = [log EXCEPT ![tp].high = @ + 1]
    /\ UNCHANGED <<offsets, recreated>>

\* Retention.
Expire(tp) ==
    /\ Happens
    /\ log[tp].low < log[tp].high
    /\ log' = [log EXCEPT ![tp].low = @ + 1]
    /\ UNCHANGED <<offsets, recreated>>

Commit(tp) ==
    /\ Happens
    /\ \E o \in log[tp].low .. log[tp].high : offsets' = [offsets EXCEPT ![tp] = o]
    /\ UNCHANGED <<log, recreated>>

\* A topic is deleted and created again: what was committed may stay.
Recreate(topic) ==
    /\ Happens
    /\ log' = [tp \in TopicPartitions |->
                  IF tp[1] = topic THEN [low |-> 0, high |-> 0] ELSE log[tp]]
    /\ recreated' = recreated \union {topic}
    /\ UNCHANGED offsets

-----------------------------------------------------------------------------
(* A member's assignment, read field by field; what follows the last       *)
(* partition is not read.                                                  *)

NextTopic(cursor) ==
    IF cursor.topics > 0 THEN [cursor EXCEPT !.want = "name", !.topics = @ - 1]
    ELSE [cursor EXCEPT !.want = "done"]

\* mutant: a topic ends the assignment
NextPartitionOfTheOnlyTopic(cursor) ==
    IF cursor.partitions > 0 THEN [cursor EXCEPT !.want = "partition"]
    ELSE [cursor EXCEPT !.want = "done"]

NextPartition(cursor) ==
    IF cursor.partitions > 0 THEN [cursor EXCEPT !.want = "partition"]
    ELSE NextTopic(cursor)

\* read_i16, read_i32, read_string: a name that is no name is an error, and
\* nothing is read after one.
ReadField(cursor, field) ==
    CASE cursor.want = "version" -> [cursor EXCEPT !.want = "topics"]
      [] cursor.want = "topics" -> NextTopic([cursor EXCEPT !.topics = field])
      [] cursor.want = "name" ->
            IF field \in Topics THEN [cursor EXCEPT !.want = "partitions", !.topic = field]
            ELSE [cursor EXCEPT !.want = "error"]
      [] cursor.want = "partitions" -> NextPartition([cursor EXCEPT !.partitions = field])
      [] cursor.want = "partition" ->
            NextPartition([cursor EXCEPT !.owned = @ \union {<<cursor.topic, field>>},
                                         !.partitions = @ - 1])
      [] OTHER -> cursor

\* decode_consumer_protocol_assignment: Null if the bytes end too early.
Decoded(bytes) ==
    LET start == [want |-> "version", topics |-> 0, topic |-> Null,
                  partitions |-> 0, owned |-> {}]
        cursor[k \in 0 .. Len(bytes)] ==
            IF k = 0 THEN start ELSE ReadField(cursor[k - 1], bytes[k])
        last == cursor[Len(bytes)]
    IN  IF last.want = "done" THEN last.owned ELSE Null

-----------------------------------------------------------------------------
(* The request.                                                            *)

clusterFrame == UNCHANGED <<clusterVars, recreated>>

\* group_members, and those whose assignment is read at all.
Assigned ==
    {k \in DOMAIN group.members :
        /\ group.state \notin {"Empty", "Dead"}
        /\ group.protocol_type = "consumer"
        /\ group.members[k].assignment # Null}

\* Of two members that own a partition the later one is shown.
OwnersIn(decoded) ==
    LET Claims(tp) == {k \in DOMAIN decoded : decoded[k] # Null /\ tp \in decoded[k]}
    IN  [tp \in {p \in TopicPartitions : Claims(p) # {}} |->
            group.members[Max(Claims(tp))].id]

\* fetch_consumer_group_lag: the listing.  It is an error that no assignment
\* at all can be read, and no rows that nothing is owned.
FetchGroupList ==
    /\ ask = "lag" /\ step = "idle"
    /\ LET decoded == [k \in Assigned |-> Decoded(group.members[k].assignment)]
           failed == Assigned # {} /\ \A k \in Assigned : decoded[k] = Null
       IN  /\ owners' = IF failed THEN Nobody ELSE OwnersIn(decoded)
           /\ step' = CASE failed -> "failed"
                        [] ~ failed /\ owners' = Nobody -> "answered"
                        [] OTHER -> "committed"
    /\ answer' = Nobody
    /\ UNCHANGED <<ask, committed, wanted, marks, before>> /\ clusterFrame

\* committed_offsets: one request, for every partition that is owned.
FetchCommitted ==
    /\ step = "committed"
    /\ committed' = [tp \in DOMAIN owners |-> offsets[tp]]
    /\ wanted' = DOMAIN owners
    /\ before' = log
    /\ step' = "watermarks"
    /\ UNCHANGED <<ask, owners, marks, answer>> /\ clusterFrame

\* list_partitions and count_topic_messages: the metadata of a topic.
FetchMetadata ==
    /\ ask \in {"partitions", "count"} /\ step = "idle"
    /\ \E topic \in Topics : wanted' = PartitionsOf(topic)
    /\ before' = log
    /\ step' = "watermarks"
    /\ UNCHANGED <<ask, owners, committed, marks, answer>> /\ clusterFrame

\* watermarks_for_partitions: several threads ask for the partitions of one
\* topic, then those of the next.
FetchWatermarks(tp) ==
    /\ step = "watermarks"
    /\ tp \in wanted \ DOMAIN marks
    /\ \A done \in DOMAIN marks :
           done[1] = tp[1] \/ PartitionsOf(done[1]) \intersect wanted \subseteq DOMAIN marks
    /\ marks' = [p \in DOMAIN marks \union {tp} |-> IF p = tp THEN log[tp] ELSE marks[p]]
    /\ UNCHANGED <<ask, step, owners, committed, wanted, answer, before>> /\ clusterFrame

\* mutant: a recreated topic is owed messages
LagUnbounded(current, high) == IF current = Null THEN Null ELSE high - current

Lag(current, high) == IF current = Null THEN Null ELSE Max({high - current, 0})

\* Offsets below zero are librdkafka's words for none.
CurrentOffset(tp) == IF committed[tp] >= 0 THEN committed[tp] ELSE Null

LagRows ==
    [tp \in wanted |-> [current_offset |-> CurrentOffset(tp),
                        log_end_offset |-> marks[tp].high,
                        lag |-> Lag(CurrentOffset(tp), marks[tp].high),
                        client_id |-> owners[tp]]]

\* How many messages lie between two watermarks.
Messages(low, high) ==
    SumFunction([tp \in wanted |-> Max({high[tp].high - low[tp].low, 0})])

MessageCount == Messages(marks, marks)

Answer ==
    /\ step = "watermarks" /\ DOMAIN marks = wanted
    /\ answer' = CASE ask = "lag" -> LagRows
                   [] ask = "partitions" -> marks
                   [] ask = "count" -> MessageCount
    /\ step' = "answered"
    /\ UNCHANGED <<ask, owners, committed, wanted, marks, before>> /\ clusterFrame

\* A broker does not answer, the group is not listed, the topic is not found:
\* there is no answer, however much was read.
ReadFails ==
    /\ step \in {"idle", "committed", "watermarks"}
    /\ step' = "failed"
    /\ UNCHANGED <<ask, owners, committed, wanted, marks, answer, before>> /\ clusterFrame

ReadsNext ==
    \/ \E tp \in TopicPartitions :
           Produce(tp) \/ Expire(tp) \/ Commit(tp) \/ FetchWatermarks(tp)
    \/ \E topic \in Topics : Recreate(topic)
    \/ FetchGroupList \/ FetchCommitted \/ FetchMetadata \/ Answer \/ ReadFails

ReadsSpec == ReadsInit /\ [][ReadsNext]_readVars

-----------------------------------------------------------------------------
(* Properties.                                                             *)

Answered(kind) == ask = kind /\ step = "answered"

\* The rows are the partitions of the members whose assignment arrived whole,
\* each shown with a member it was assigned to; there is an answer if there is
\* one such member or none with an assignment.
RowsAreTheAssignment ==
    Answered("lag") =>
        LET Whole == {k \in Assigned : group.members[k].whole}
        IN  /\ Assigned # {} => Whole # {}
            /\ DOMAIN answer = UNION {group.members[k].owns : k \in Whole}
            /\ \A tp \in DOMAIN answer : \E k \in Whole :
                   /\ group.members[k].id = answer[tp].client_id
                   /\ tp \in group.members[k].owns

\* The lag shown is never negative, and it is one the group had between the
\* reading of its offsets and the answer: reading the end of the log after the
\* committed offset, it does not flatter a group that lags.
LagWasReal ==
    Answered("lag") => \A tp \in DOMAIN answer :
        LET row == answer[tp]
        IN  row.current_offset # Null =>
                /\ row.lag >= 0
                /\ tp[1] \notin recreated =>
                       row.lag \in before[tp].high - row.current_offset
                                   .. log[tp].high - row.current_offset

\* So are the watermarks of a topic's partitions and the number of its messages.
CountWasReal ==
    /\ Answered("partitions") => \A tp \in wanted : tp[1] \notin recreated =>
           /\ answer[tp].low \in before[tp].low .. log[tp].low
           /\ answer[tp].high \in before[tp].high .. log[tp].high
    /\ Answered("count") =>
           /\ answer \in Nat
           /\ (\A tp \in wanted : tp[1] \notin recreated) =>
                  answer \in Messages(log, before) .. Messages(before, log)

\* What a panel shows of offsets was so while it was being read.
ReadsInvariant == RowsAreTheAssignment /\ LagWasReal /\ CountWasReal
=============================================================================
