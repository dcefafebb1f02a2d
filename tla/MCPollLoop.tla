----------------------------- MODULE MCPollLoop -----------------------------
(* Model-checking instances of PollLoop. *)
EXTENDS PollLoop

TwoPartitions == {0, 1}
ThreePartitions == {0, 1, 2}

\* Empty, short, with holes in the middle and at the end, and shortened from
\* the front.
SmallLogs ==
    {[low |-> 0, end |-> 0, records |-> {}],
     [low |-> 0, end |-> 2, records |-> {0}],
     [low |-> 0, end |-> 2, records |-> {0, 1}]}

Ask(offset, from, to, cap, total, size) ==
    [offset |-> offset, from |-> from, to |-> to, cap |-> cap,
     total |-> total, bytes |-> size]

SmallFilters ==
    {Ask(None, None, None, 2, 3, None),
     Ask(1, None, None, None, None, 3),
     Ask(2, 1, None, None, None, None),
     Ask(None, 1, None, 1, None, None),
     Ask(None, None, 2, None, 2, 2)}

\* For the end of a fetch: partitions read in full, in part and not at all.
LongLogs ==
    {[low |-> 0, end |-> 2, records |-> {0, 1}],
     [low |-> 0, end |-> 2, records |-> {0}]}

FullFilters ==
    {Ask(None, None, None, None, None, None),
     Ask(None, None, None, 1, None, None)}

FirstIsBusy == {0}

SmallSizes == {2}
NoneBusy == {}
=============================================================================
