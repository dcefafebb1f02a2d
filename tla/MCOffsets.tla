------------------------------ MODULE MCOffsets ------------------------------
(* What is computed of the offsets that brokers report: the split of a      *)
(* fetch's budget, and the panels of offsets.  The two share nothing: in a  *)
(* behaviour either every budget is split or one panel reads.               *)
EXTENDS BudgetSplit, OffsetReads

CONSTANTS t, u, m, n

FourPartitions == 0 .. 3
SmallWindows == 0 .. 4
SmallBudgets == 0 .. 18

ThreeOfTwoTopics == {<<t, 0>>, <<t, 1>>, <<u, 0>>}
OffsetInvalid == -1001

\* ConsumerProtocolAssignment, as the leader of a group writes it.
Encoded(owns) ==
    LET topics == SetToSeq({tp[1] : tp \in owns})
        numbers(topic) == SetToSeq({tp[2] : tp \in {p \in owns : p[1] = topic}})
        entry(topic) == <<topic, Len(numbers(topic))>> \o numbers(topic)
    IN  <<0, Len(topics)>> \o FlattenSeq([k \in DOMAIN topics |-> entry(topics[k])])

UserData == <<4, 7>>

Member(id, owns, bytes) ==
    [id |-> id, owns |-> owns, assignment |-> bytes,
     whole |-> bytes # Null /\ Len(bytes) >= Len(Encoded(owns))]

\* Whatever a member may own, cut off anywhere.
Cut(id, owns) ==
    {Member(id, owns, SubSeq(Encoded(owns) \o UserData, 1, k)) :
        k \in 0 .. Len(Encoded(owns)) + Len(UserData)}

OneMember == UNION {Cut(m, owns) : owns \in {{}, {<<t, 1>>, <<u, 0>>}, ThreeOfTwoTopics}}

\* A second one: whole and with a partition of the first, null arrays, a null
\* name, nothing.
SecondMembers ==
    {Member(n, {<<t, 0>>}, Encoded({<<t, 0>>})),
     [id |-> n, owns |-> {}, assignment |-> <<0, -1>>, whole |-> TRUE],
     [id |-> n, owns |-> {<<u, 0>>}, assignment |-> <<0, 2, t, -1, u, 1, 0>>, whole |-> TRUE],
     [id |-> n, owns |-> {}, assignment |-> <<0, 1, -1>>, whole |-> FALSE],
     [id |-> n, owns |-> {}, assignment |-> Null, whole |-> FALSE]}

Listing(state, protocol, members) ==
    [state |-> state, protocol_type |-> protocol, members |-> members]

Idle == Listing("Empty", "consumer", <<>>)

SmallGroups ==
    {Listing("Stable", "consumer", <<x>>) : x \in OneMember}
    \union {Listing("Stable", "consumer", <<Member(m, {<<t, 0>>, <<t, 1>>}, <<0, 1, t, 2, 0, 1>>), y>>) :
               y \in SecondMembers}
    \union {Listing("Stable", "consumer", <<Member(m, {<<u, 0>>}, <<0>>), y>>) : y \in SecondMembers}
    \union {Idle,
            Listing("Stable", "connect", <<Member(m, {}, <<0, 1>>)>>)}

NoSplit == budget = 0 /\ (\A p \in Partitions : windows[p] = 0) /\ phase = "sharing"

OffsetsInit ==
    /\ Init /\ ReadsInit
    /\ NoSplit \/ \A tp \in TopicPartitions : offsets[tp] = 1 /\ group = Idle /\ ask = "count"
OffsetsNext ==
    \/ Next /\ step = "idle" /\ events = 0 /\ UNCHANGED readVars
    \/ ReadsNext /\ NoSplit /\ pending = Partitions /\ UNCHANGED vars
OffsetsSpec == OffsetsInit /\ [][OffsetsNext]_<<vars, readVars>>
=============================================================================
