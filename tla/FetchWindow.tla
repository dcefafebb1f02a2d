----------------------------- MODULE FetchWindow -----------------------------
(***************************************************************************)
(* Which offsets a message fetch reads: the arithmetic of                  *)
(* backend/kafka/src/messages.rs.  A map from partitions is a function; an *)
(* option that is not set is None.                                         *)
(***************************************************************************)
EXTENDS Integers, FiniteSetsExt, Functions

CONSTANTS None,                  \* an option that is not set
          DEFAULT_MESSAGE_CAP,   \* messages per partition when none is asked
          MAX_FETCH_SHARDS       \* consumers a fetch may use

ASSUME FetchWindowAssumption ==
    /\ None \notin Int
    /\ DEFAULT_MESSAGE_CAP \in Nat
    /\ MAX_FETCH_SHARDS \in Nat \ {0}

\* effective_max_messages_per_partition.
EffectiveMax(cap) == IF cap = None THEN DEFAULT_MESSAGE_CAP ELSE cap

\* clamp_offset.
Clamp(offset, low, high) == Max({low, Min({offset, high})})

\* newest_first_start_offset.
NewestFirst(low, high, cap) == Max({high - cap, low})

\* combined_start_offset, when at least one of the two is set.
CombinedStart(explicit, from) == Max({explicit, from} \ {None})

\* partition_limits without and with a cap.
Available(start, end) == [p \in DOMAIN start |-> Max({end[p] - start[p], 0})]

PartitionLimits(start, end, cap) ==
    [p \in DOMAIN start |-> Min({Available(start, end)[p], cap})]

\* What distribute_total_budget is for: the whole budget is spent if the
\* windows can hold it, and a partition only reads less than another one when
\* its window is exhausted, give or take the message that cannot be divided.
FairShare(share, windows, budget) ==
    /\ share \in [DOMAIN windows -> Nat]
    /\ \A p \in DOMAIN windows : share[p] <= windows[p]
    /\ SumFunction(share) = Min({budget, SumFunction(windows)})
    /\ \A p, q \in DOMAIN windows :
          share[p] < windows[p] => share[q] <= share[p] + 1

\* fetch_shard_count, where the prefetch queues leave room for MAX_FETCH_SHARDS.
ShardCount(working) == Max({1, Min({working, MAX_FETCH_SHARDS})})
=============================================================================
