----------------------------- MODULE BudgetSplit -----------------------------
(***************************************************************************)
(* distribute_total_budget (backend/kafka/src/messages.rs): how a fetch's  *)
(* "total max messages" is split over its partitions.  The partitions are  *)
(* visited in the order of their windows, each is given an even share of   *)
(* what is left, and a second visit hands out what integer division has    *)
(* left over, one message each.                                            *)
(***************************************************************************)
EXTENDS FetchWindow

CONSTANTS Partitions,   \* the ids of the topic's partitions
          Windows,      \* the sizes a window may have
          Budgets       \* the budgets that may be asked for

ASSUME BudgetSplitAssumption ==
    /\ Partitions \subseteq Int /\ IsFiniteSet(Partitions)
    /\ Windows \subseteq Nat
    /\ Budgets \subseteq Nat

VARIABLES windows,     \* how many messages each partition could contribute
          budget,      \* max_total
          allocated,
          remaining,
          pending,     \* partitions the current visit has still to come to
          phase        \* "sharing", "handing_out", "done"

vars == <<windows, budget, allocated, remaining, pending, phase>>

\* The shape of the split.
TypeOK ==
    /\ windows \in [Partitions -> Windows]
    /\ budget \in Budgets
    /\ allocated \in [Partitions -> Nat]
    /\ remaining \in Nat
    /\ pending \subseteq Partitions
    /\ phase \in {"sharing", "handing_out", "done"}

Init ==
    /\ windows \in [Partitions -> Windows]
    /\ budget \in Budgets
    /\ allocated = [p \in Partitions |-> 0]
    /\ remaining = budget
    /\ pending = Partitions
    /\ phase = "sharing"

\* For comparison: the order of the ids.
BeforeById(p, q) == p < q

\* by_window: p comes before q.
Before(p, q) ==
    \/ windows[p] < windows[q]
    \/ windows[p] = windows[q] /\ p < q

\* p is the next partition of the visit.
IsNext(p) == p \in pending /\ \A q \in pending \ {p} : Before(p, q)

\* For comparison: an even split of the whole budget, which gives nothing back.
ShareOfTheWhole(p) == budget \div Cardinality(Partitions)

Share(p) == remaining \div Cardinality(pending)

GiveShare ==
    /\ phase = "sharing"
    /\ remaining > 0
    /\ \E p \in Partitions :
          /\ IsNext(p)
          /\ LET take == Min({windows[p], Share(p)})
             IN  /\ allocated' = [allocated EXCEPT ![p] = take]
                 /\ remaining' = remaining - take
          /\ pending' = pending \ {p}
    /\ UNCHANGED <<windows, budget, phase>>

StopSharing ==
    /\ phase = "sharing"
    /\ remaining = 0 \/ pending = {}
    /\ phase' = "handing_out"
    /\ pending' = Partitions
    /\ UNCHANGED <<windows, budget, allocated, remaining>>

\* For comparison: a visit that does not stop when the budget is spent.
HandOutToAll ==
    /\ phase = "handing_out"
    /\ \E p \in Partitions :
          /\ IsNext(p)
          /\ LET more == IF allocated[p] < windows[p] THEN 1 ELSE 0
             IN  /\ allocated' = [allocated EXCEPT ![p] = @ + more]
                 /\ remaining' = remaining - more
          /\ pending' = pending \ {p}
    /\ UNCHANGED <<windows, budget, phase>>

HandOut ==
    /\ phase = "handing_out"
    /\ remaining > 0
    /\ \E p \in Partitions :
          /\ IsNext(p)
          /\ LET more == IF allocated[p] < windows[p] THEN 1 ELSE 0
             IN  /\ allocated' = [allocated EXCEPT ![p] = @ + more]
                 /\ remaining' = remaining - more
          /\ pending' = pending \ {p}
    /\ UNCHANGED <<windows, budget, phase>>

Finish ==
    /\ phase = "handing_out"
    /\ remaining = 0 \/ pending = {}
    /\ phase' = "done"
    /\ UNCHANGED <<windows, budget, allocated, remaining, pending>>

Next == GiveShare \/ StopSharing \/ HandOut \/ Finish

Spec == Init /\ [][Next]_vars
-----------------------------------------------------------------------------
\* The result is a fair share of the budget (the documentation of
\* distribute_total_budget).
SplitsFairly == phase = "done" => FairShare(allocated, windows, budget)

\* The shares alone already spend the budget, whatever integer division
\* rounds away: if anything is left of it, every window is full, so that the
\* second visit never finds a partition to give more to.
NothingIsRoundedAway ==
    phase # "sharing" /\ remaining > 0 => \A p \in Partitions :
        allocated[p] = windows[p]

\* The budget is never overspent, which would make remaining negative, and
\* never left over while a window has room, and it is split fairly.
SplitInvariant == TypeOK /\ NothingIsRoundedAway /\ SplitsFairly
=============================================================================
