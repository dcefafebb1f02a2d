---------------------------- MODULE OffsetsProofs ----------------------------
(***************************************************************************)
(* What is computed of the offsets that brokers report.                    *)
(*                                                                         *)
(* The split of a fetch's budget rounds nothing away, whatever the windows *)
(* and the budget: the shares spend the budget or fill every window.       *)
(*                                                                         *)
(* The argument.  Windows are visited in ascending order and a partition   *)
(* is given the smaller of its window and an even share of what is left.   *)
(* As soon as one partition is given less than its window, every window    *)
(* still to come is at least as large as the even share of what is left    *)
(* (ShortfallBounded), and it stays so: so from then on each share is      *)
(* taken whole, the last one being all that remains.                       *)
(*                                                                         *)
(* What a panel shows of offsets was so while it was being read, however   *)
(* many partitions, members and events.  The argument.  The logs of a      *)
(* topic that is not created anew only grow at both ends, so a watermark   *)
(* lies between what it was when reading began and what it is now          *)
(* (MarksAreReal), and a committed offset read before the watermarks lies  *)
(* below them (CommittedFirst).  An assignment is decoded field by field:  *)
(* where a topic begins the cursor wants a name and has what the topics    *)
(* before own (TopicsAreRead), so at the end of a whole one it has what    *)
(* the member owns (WholeDecodes), and at the end of one that is cut off   *)
(* it still wants something (CutOffFails).                                 *)
(***************************************************************************)
EXTENDS BudgetSplit, OffsetReads, BasicLemmas

\* Some partition already visited was given less than its window.
Short == \E p \in Partitions \ pending : allocated[p] < windows[p]

\* After a shortfall every window still to come can hold its even share.
ShortfallBounded ==
    Short => /\ \A q \in pending :
                   remaining <= Cardinality(pending) * windows[q]
             /\ pending = {} => remaining = 0

\* The inductive invariant.
IInv ==
    /\ TypeOK
    /\ \A p \in Partitions : allocated[p] <= windows[p]
    /\ phase = "sharing" =>
          /\ \A p \in Partitions \ pending, q \in pending :
                windows[p] <= windows[q]
          /\ ShortfallBounded
    /\ NothingIsRoundedAway

\* One partition only gets less than another if its window is full, give or
\* take one message.
EvenOver(P) ==
    \A p, q \in P :
        allocated[p] < windows[p] => allocated[q] <= allocated[p] + 1

\* What makes it so: no share given is above the even share of what is left,
\* and the even share of what is left is at most one above a share that was
\* given to a partition with room for more.
EvenInv ==
    /\ SumFunction(allocated) + remaining = budget
    /\ phase = "sharing" =>
          /\ \A q \in pending : allocated[q] = 0
          /\ \A q \in Partitions \ pending :
                Cardinality(pending) * allocated[q] <= remaining
          /\ \A q \in Partitions \ pending : allocated[q] < windows[q] =>
                remaining <= Cardinality(pending) * (allocated[q] + 1)
          /\ EvenOver(Partitions \ pending)
    /\ phase # "sharing" => EvenOver(Partitions)
-----------------------------------------------------------------------------

\* An even share, rounded down.
LEMMA DivBounds ==
    ASSUME NEW r \in Nat, NEW s \in Nat \ {0}
    PROVE  /\ r \div s \in Nat
           /\ s * (r \div s) <= r
           /\ r < s * ((r \div s) + 1)
OBVIOUS

\* Once what is left fits the windows to come, it still does after a share.
LEMMA RestFits ==
    ASSUME NEW r \in Nat, NEW s \in Nat \ {0}, NEW w \in Nat,
           r <= s * w
    PROVE  /\ r \div s <= w
           /\ r - (r \div s) <= (s - 1) * w
PROOF
<1> DEFINE k == r \div s
<1>1. k \in Nat /\ s * k <= r /\ r < s * (k + 1)
  BY DivBounds
<1>2. k <= w
  <2>1. SUFFICES ASSUME k >= w + 1 PROVE FALSE
    BY <1>1
  <2>2. s * k >= s * (w + 1)
    BY <1>1, <2>1
  <2>3. s * (w + 1) = s * w + s
    OBVIOUS
  <2> QED BY <1>1, <2>2, <2>3
<1>3. CASE k = w
  <2>1. (s - 1) * w = s * w - w
    OBVIOUS
  <2> QED BY <1>1, <1>2, <1>3, <2>1
<1>4. CASE k < w
  <2>1. (s - 1) * w >= (s - 1) * (k + 1)
    BY <1>1, <1>4
  <2>2. (s - 1) * (k + 1) = s * (k + 1) - k - 1
    BY <1>1
  <2> QED BY <1>1, <1>2, <2>1, <2>2
<1> QED BY <1>1, <1>2, <1>3, <1>4
-----------------------------------------------------------------------------
\* Nothing has been visited yet.
LEMMA InitInv == Init => IInv
PROOF
<1> SUFFICES ASSUME Init PROVE IInv
  OBVIOUS
<1> USE BudgetSplitAssumption DEF Init
<1>1. TypeOK
  BY DEF TypeOK
<1>2. \A p \in Partitions : allocated[p] <= windows[p]
  <2> SUFFICES ASSUME NEW p \in Partitions PROVE allocated[p] <= windows[p]
    OBVIOUS
  <2>1. allocated[p] = 0
    OBVIOUS
  <2>2. windows[p] \in Nat
    OBVIOUS
  <2> QED BY <2>1, <2>2
<1>3. Partitions \ pending = {} /\ phase = "sharing"
  OBVIOUS
<1>4. ShortfallBounded
  BY <1>3 DEF Short, ShortfallBounded
<1>5. NothingIsRoundedAway
  BY <1>3 DEF NothingIsRoundedAway
<1>6. \A p \in Partitions \ pending, q \in pending : windows[p] <= windows[q]
  BY <1>3
<1> HIDE DEF Init
<1> QED BY <1>1, <1>2, <1>4, <1>5, <1>6 DEF IInv

\* What a step of the first visit does: p is given take, the smaller of its
\* window and the even share k, and all of k once some partition is short.
LEMMA ShareGiven ==
    ASSUME IInv, GiveShare
    PROVE  LET s == Cardinality(pending)
               k == remaining \div s
           IN  /\ s \in Nat \ {0} /\ Cardinality(pending') = s - 1
               /\ pending' = {} => s = 1
               /\ k \in Nat /\ s * k <= remaining /\ remaining < s * (k + 1)
               /\ \E p \in pending :
                     LET take == IF windows[p] <= k THEN windows[p] ELSE k
                     IN  /\ pending' = pending \ {p}
                         /\ \A q \in pending' : windows[p] <= windows[q]
                         /\ allocated' = [allocated EXCEPT ![p] = take]
                         /\ remaining' = remaining - take
                         /\ remaining' \in Nat
                         /\ take \in Nat /\ take <= windows[p] /\ take <= k
                         /\ Short' =>
                               /\ take = k
                               /\ \A q \in pending : remaining <= s * windows[q]
PROOF
<1> USE BudgetSplitAssumption
<1> DEFINE s == Cardinality(pending)
<1>1. PICK p \in Partitions :
         /\ IsNext(p)
         /\ allocated' = [allocated EXCEPT
                             ![p] = Min({windows[p], Share(p)})]
         /\ remaining' = remaining - Min({windows[p], Share(p)})
         /\ pending' = pending \ {p}
  BY DEF GiveShare
<1> DEFINE k == remaining \div s
           take == IF windows[p] <= k THEN windows[p] ELSE k
<1>2. /\ TypeOK /\ phase = "sharing" /\ phase' = "sharing" /\ p \in pending
      /\ UNCHANGED <<windows, budget>>
  BY <1>1 DEF IInv, GiveShare, IsNext
<1>3. /\ windows \in [Partitions -> Nat] /\ remaining \in Nat
      /\ allocated \in [Partitions -> Nat] /\ pending \subseteq Partitions
  BY <1>2 DEF TypeOK
<1>4. /\ s \in Nat \ {0}
      /\ Cardinality(pending') = s - 1
      /\ pending' = {} => s = 1
  <2>1. IsFiniteSet(pending)
    BY <1>3, FS_Subset
  <2>2. s \in Nat /\ Cardinality(pending \ {p}) = s - 1
    BY <2>1, <1>2, FS_CardinalityType, FS_RemoveElement
  <2>3. s # 0
    BY <2>1, <1>2, FS_EmptySet
  <2>4. pending' = {} => Cardinality(pending') = 0
    BY FS_EmptySet
  <2> QED BY <2>2, <2>3, <2>4, <1>1
<1>5. /\ k \in Nat /\ s * k <= remaining /\ remaining < s * (k + 1)
  BY <1>3, <1>4, DivBounds
<1>6. k <= remaining
  <2>1. s * k = k + (s - 1) * k /\ (s - 1) * k >= 0
    BY <1>5, <1>4
  <2> QED BY <2>1, <1>3, <1>4, <1>5
<1>7. Min({windows[p], Share(p)}) = take
  BY <1>3, <1>5, MinOfTwo DEF Share
<1>8. take \in Nat /\ take <= windows[p] /\ take <= k
  BY <1>3, <1>5
<1> HIDE DEF take
<1>9. /\ allocated' = [allocated EXCEPT ![p] = take]
      /\ remaining' = remaining - take /\ remaining' \in Nat
  <2>1. allocated' = [allocated EXCEPT ![p] = take]
    BY <1>1, <1>7
  <2>2. remaining' = remaining - take
    BY <1>1, <1>7
  <2> QED BY <2>1, <2>2, <1>3, <1>5, <1>6, <1>8
<1> USE DEF take
<1>10. \A q \in pending' : windows[p] <= windows[q]
  BY <1>1, <1>3 DEF IsNext, Before
<1>11. ASSUME Short'
       PROVE  /\ take = k
              /\ \A q \in pending : remaining <= s * windows[q]
  <2>1. \A q \in pending : windows[q] >= windows[p]
    BY <1>1, <1>3, <1>10
  <2>2. PICK o \in Partitions \ pending' : allocated'[o] < windows'[o]
    BY <1>11 DEF Short
  <2>3. CASE o = p
    <3>1. take < windows[p]
      BY <2>2, <2>3, <1>2, <1>3, <1>9
    <3>2. take = k /\ k + 1 <= windows[p]
      BY <3>1, <1>3, <1>5
    <3>3. ASSUME NEW q \in pending PROVE remaining <= s * windows[q]
      <4>1. windows[q] \in Nat /\ k + 1 <= windows[q]
        BY <2>1, <3>2, <1>3, <1>5
      <4>2. s * (k + 1) <= s * windows[q]
        BY <4>1, <1>4, <1>5
      <4> QED BY <4>1, <4>2, <1>3, <1>4, <1>5
    <3> QED BY <3>2, <3>3
  <2>4. CASE o # p
    <3>1. Short
      BY <2>2, <2>4, <1>1, <1>2, <1>3, <1>9 DEF Short
    <3>2. \A q \in pending : remaining <= s * windows[q]
      BY <3>1, <1>2 DEF IInv, ShortfallBounded
    <3>3. k <= windows[p]
      BY <3>2, <1>2, <1>3, <1>4, RestFits
    <3> QED BY <3>2, <3>3, <1>3, <1>5
  <2> QED BY <2>3, <2>4
<1> QED BY <1>1, <1>2, <1>4, <1>5, <1>8, <1>9, <1>10, <1>11

\* An even share goes to the partition with the smallest window left.
LEMMA GiveShareInv == IInv /\ GiveShare => IInv'
PROOF
<1> SUFFICES ASSUME IInv, GiveShare PROVE IInv'
  OBVIOUS
<1> USE BudgetSplitAssumption
<1> DEFINE s == Cardinality(pending)
           k == remaining \div s
           take(p) == IF windows[p] <= k THEN windows[p] ELSE k
<1>1. /\ TypeOK /\ phase = "sharing" /\ phase' = "sharing"
      /\ UNCHANGED <<windows, budget>>
  BY DEF IInv, GiveShare
<1>2. /\ windows \in [Partitions -> Nat] /\ remaining \in Nat
      /\ allocated \in [Partitions -> Nat] /\ pending \subseteq Partitions
  BY <1>1 DEF TypeOK
<1>3. /\ s \in Nat \ {0} /\ Cardinality(pending') = s - 1
      /\ pending' = {} => s = 1
      /\ k \in Nat /\ s * k <= remaining /\ remaining < s * (k + 1)
  BY ShareGiven
<1>4. PICK p \in pending :
         /\ pending' = pending \ {p}
         /\ \A q \in pending' : windows[p] <= windows[q]
         /\ allocated' = [allocated EXCEPT ![p] = take(p)]
         /\ remaining' = remaining - take(p) /\ remaining' \in Nat
         /\ take(p) \in Nat /\ take(p) <= windows[p] /\ take(p) <= k
         /\ Short' => /\ take(p) = k
                      /\ \A q \in pending : remaining <= s * windows[q]
  BY ShareGiven
<1> HIDE DEF take
<1>5. TypeOK'
  BY <1>1, <1>2, <1>4 DEF TypeOK
<1>6. \A q \in Partitions : allocated'[q] <= windows'[q]
  BY <1>1, <1>2, <1>4 DEF IInv
<1>7. \A o \in Partitions \ pending', q \in pending' :
          windows'[o] <= windows'[q]
  BY <1>1, <1>4 DEF IInv
<1>8. ShortfallBounded'
  <2> SUFFICES ASSUME Short'
               PROVE  /\ \A q \in pending' : remaining'
                                <= Cardinality(pending') * windows'[q]
                      /\ pending' = {} => remaining' = 0
    BY DEF ShortfallBounded
  <2>1. remaining' = remaining - k
    BY <1>4
  <2>2. ASSUME NEW q \in pending'
        PROVE  remaining' <= Cardinality(pending') * windows'[q]
    <3>1. q \in pending /\ windows[q] \in Nat
      BY <1>4, <1>2
    <3>2. remaining - k <= (s - 1) * windows[q]
      BY <3>1, <1>2, <1>3, <1>4, RestFits
    <3> QED BY <2>1, <3>2, <1>1, <1>3
  <2>3. ASSUME pending' = {} PROVE remaining' = 0
    <3>1. s = 1
      BY <2>3, <1>3
    <3>2. k = remaining
      BY <3>1, <1>2, <1>3
    <3> QED BY <3>2, <2>1, <1>2
  <2> QED BY <2>2, <2>3
<1>9. NothingIsRoundedAway'
  BY <1>1 DEF NothingIsRoundedAway
<1> QED BY <1>5, <1>6, <1>7, <1>8, <1>9 DEF IInv

\* The shares have been given: a remainder means that every window is full.
LEMMA StopSharingInv == IInv /\ StopSharing => IInv'
PROOF
<1> SUFFICES ASSUME IInv, StopSharing PROVE IInv'
  OBVIOUS
<1> USE DEF StopSharing
<1>1. TypeOK'
  BY DEF IInv, TypeOK
<1>2. \A p \in Partitions : allocated'[p] <= windows'[p]
  BY DEF IInv
<1>3. NothingIsRoundedAway'
  <2> SUFFICES ASSUME remaining > 0, NEW p \in Partitions
               PROVE  allocated[p] = windows[p]
    BY DEF NothingIsRoundedAway
  <2>1. remaining \in Nat /\ allocated[p] \in Nat /\ windows[p] \in Nat
    BY BudgetSplitAssumption DEF IInv, TypeOK
  <2>2. pending = {}
    BY <2>1
  <2>3. ~Short
    BY <2>1, <2>2 DEF IInv, ShortfallBounded
  <2>4. allocated[p] <= windows[p]
    BY DEF IInv
  <2> QED BY <2>1, <2>2, <2>3, <2>4 DEF Short
<1> QED BY <1>1, <1>2, <1>3 DEF IInv

\* The second visit finds every window full.
LEMMA HandOutGivesNothing ==
    ASSUME IInv, HandOut
    PROVE  UNCHANGED <<allocated, remaining>> /\ pending' \subseteq pending
PROOF
<1>1. TypeOK /\ phase = "handing_out" /\ remaining > 0
  BY DEF IInv, HandOut
<1>2. PICK p \in Partitions :
         LET more == IF allocated[p] < windows[p] THEN 1 ELSE 0
         IN  /\ allocated' = [allocated EXCEPT ![p] = @ + more]
             /\ remaining' = remaining - more
             /\ pending' = pending \ {p}
  BY DEF HandOut
<1>3. \A q \in Partitions : allocated[q] = windows[q]
  BY <1>1 DEF IInv, NothingIsRoundedAway
<1>4. /\ windows \in [Partitions -> Nat] /\ remaining \in Nat
      /\ allocated \in [Partitions -> Nat]
  BY <1>1, BudgetSplitAssumption DEF TypeOK
<1>5. ~(allocated[p] < windows[p])
  BY <1>3, <1>4
<1> QED BY <1>2, <1>4, <1>5

\* So it keeps the invariant.
LEMMA HandOutInv == IInv /\ HandOut => IInv'
PROOF
<1> SUFFICES ASSUME IInv, HandOut PROVE IInv'
  OBVIOUS
<1>1. /\ TypeOK /\ phase = "handing_out" /\ phase' = phase
      /\ UNCHANGED <<windows, budget>>
  BY DEF IInv, HandOut
<1>2. UNCHANGED <<allocated, remaining>> /\ pending' \subseteq pending
  BY HandOutGivesNothing
<1>3. TypeOK'
  BY <1>1, <1>2 DEF TypeOK
<1> QED BY <1>1, <1>2, <1>3 DEF IInv, NothingIsRoundedAway

\* Every step keeps the invariant.
LEMMA StepInv == IInv /\ [Next]_vars => IInv'
PROOF
<1> SUFFICES ASSUME IInv, [Next]_vars PROVE IInv'
  OBVIOUS
<1>1. CASE GiveShare
  BY <1>1, GiveShareInv
<1>2. CASE StopSharing
  BY <1>2, StopSharingInv
<1>3. CASE HandOut
  BY <1>3, HandOutInv
<1>4. CASE Finish
  BY <1>4 DEF Finish, IInv, TypeOK, NothingIsRoundedAway
<1>5. CASE UNCHANGED vars
  BY <1>5 DEF vars, IInv, TypeOK, NothingIsRoundedAway, ShortfallBounded,
              Short
<1> QED BY <1>1, <1>2, <1>3, <1>4, <1>5 DEF Next

\* The invariant holds throughout every split.
LEMMA SpecInv == Spec => []IInv
BY InitInv, StepInv, PTL DEF Spec
-----------------------------------------------------------------------------
\* What is at most the even share of what is left stays so after a share.
LEMMA ShareStaysAhead ==
    ASSUME NEW r \in Nat, NEW s \in Nat \ {0}, NEW k \in Nat, NEW a \in Nat,
           s * k <= r, r < s * (k + 1), s * a <= r, NEW t \in Nat, t <= k
    PROVE  a <= k /\ (s - 1) * a <= r - t
PROOF
<1>1. a <= k
  <2>1. SUFFICES ASSUME a >= k + 1 PROVE FALSE
    OBVIOUS
  <2>2. s * a >= s * (k + 1)
    BY <2>1
  <2> QED BY <2>2
<1>2. (s - 1) * a <= (s - 1) * k
  BY <1>1
<1>3. (s - 1) * k = s * k - k
  OBVIOUS
<1> QED BY <1>1, <1>2, <1>3

\* The sum of what has been given, while the budget is being split.
LEMMA SumOfShares ==
    ASSUME NEW share \in [Partitions -> Nat]
    PROVE  /\ SumFunction(share) \in Nat
           /\ SumFunction(share) = SumFunctionOnSet(share, Partitions)
PROOF
<1>1. IsFiniteSet(Partitions) /\ \A x \in Partitions : share[x] \in Nat
  BY BudgetSplitAssumption
<1>2. SumFunctionOnSet(share, Partitions) \in Nat
  BY <1>1, SumIsNat
<1> QED BY <1>2 DEF SumFunction

\* One partition is given more, and as much less is left.
LEMMA SumKept ==
    ASSUME NEW share \in [Partitions -> Nat], NEW p \in Partitions,
           NEW more \in Nat
    PROVE  SumFunction([share EXCEPT ![p] = more])
               = SumFunction(share) - share[p] + more
PROOF
<1> DEFINE after == [share EXCEPT ![p] = more]
<1>1. /\ IsFiniteSet(Partitions)
      /\ \A q \in Partitions : share[q] \in Int /\ after[q] \in Int
      /\ \A q \in Partitions \ {p} : after[q] = share[q]
      /\ after \in [Partitions -> Nat] /\ after[p] = more
  BY BudgetSplitAssumption
<1> HIDE DEF after
<1>2. SumFunctionOnSet(after, Partitions)
          = SumFunctionOnSet(share, Partitions) - share[p] + after[p]
  BY <1>1, SumOfOneChanged
<1>3. /\ SumFunction(after) = SumFunctionOnSet(after, Partitions)
      /\ SumFunction(share) = SumFunctionOnSet(share, Partitions)
  BY <1>1, SumOfShares
<1> QED BY <1>1, <1>2, <1>3 DEF after

\* Nothing has been given.
LEMMA InitEven == Init => EvenInv
PROOF
<1> SUFFICES ASSUME Init PROVE EvenInv
  OBVIOUS
<1> USE DEF Init
<1>1. IsFiniteSet(Partitions) /\ \A p \in Partitions : allocated[p] = 0
  BY BudgetSplitAssumption
<1>2. SumFunction(allocated) = 0
  <2>1. SumFunctionOnSet(allocated, Partitions) = 0
    BY <1>1, SumOfZeros
  <2> QED BY <2>1 DEF SumFunction
<1>3. budget \in Nat
  BY BudgetSplitAssumption
<1> QED BY <1>1, <1>2, <1>3 DEF EvenInv, EvenOver

\* The even share that is given is neither below one given earlier nor more
\* than one above one that left room.
LEMMA GiveShareEven == IInv /\ EvenInv /\ GiveShare => EvenInv'
PROOF
<1> SUFFICES ASSUME IInv, EvenInv, GiveShare PROVE EvenInv'
  OBVIOUS
<1> DEFINE s == Cardinality(pending)
           k == remaining \div s
           take(p) == IF windows[p] <= k THEN windows[p] ELSE k
           visited == Partitions \ pending
<1>1. /\ TypeOK /\ phase = "sharing" /\ phase' = "sharing"
      /\ UNCHANGED <<windows, budget>>
  BY DEF IInv, GiveShare
<1>2. /\ windows \in [Partitions -> Nat] /\ remaining \in Nat
      /\ allocated \in [Partitions -> Nat] /\ pending \subseteq Partitions
  BY <1>1, BudgetSplitAssumption DEF TypeOK
<1>3. /\ s \in Nat \ {0} /\ Cardinality(pending') = s - 1
      /\ k \in Nat /\ s * k <= remaining /\ remaining < s * (k + 1)
  BY ShareGiven
<1>4. PICK p \in pending :
         /\ pending' = pending \ {p}
         /\ allocated' = [allocated EXCEPT ![p] = take(p)]
         /\ remaining' = remaining - take(p)
         /\ take(p) \in Nat /\ take(p) <= windows[p] /\ take(p) <= k
         /\ Short' => take(p) = k
  BY ShareGiven
<1> DEFINE t == take(p)
<1>5. t < windows[p] => t = k
  BY <1>2, <1>3
<1>6. /\ t \in Nat /\ t <= k /\ remaining' = remaining - t
      /\ allocated' = [allocated EXCEPT ![p] = t]
      /\ Partitions \ pending' = visited \union {p} /\ p \notin visited
  BY <1>2, <1>4
<1> HIDE DEF take, t
<1>7. /\ allocated'[p] = t
      /\ \A q \in Partitions \ {p} : allocated'[q] = allocated[q]
  BY <1>2, <1>4, <1>6
<1>8. SumFunction(allocated') + remaining' = budget'
  <2>1. SumFunction(allocated')
            = SumFunction(allocated) - allocated[p] + t
    <3>1. /\ p \in Partitions /\ t \in Nat /\ allocated \in [Partitions -> Nat]
          /\ allocated' = [allocated EXCEPT ![p] = t]
      BY <1>2, <1>6
    <3> QED BY <3>1, SumKept
  <2>2. allocated[p] = 0 /\ SumFunction(allocated) + remaining = budget
    BY <1>1, <1>4 DEF EvenInv
  <2>3. SumFunction(allocated) \in Nat
    BY <1>2, SumOfShares
  <2> QED BY <2>1, <2>2, <2>3, <1>1, <1>2, <1>6
<1>9. \A q \in pending' : allocated'[q] = 0
  BY <1>1, <1>2, <1>4, <1>7 DEF EvenInv
<1>10. ASSUME NEW q \in visited
       PROVE  /\ allocated[q] \in Nat /\ allocated[q] <= k
              /\ (s - 1) * allocated[q] <= remaining'
  <2>1. s * allocated[q] <= remaining /\ allocated[q] \in Nat
    BY <1>1, <1>2 DEF EvenInv
  <2> QED BY <2>1, <1>2, <1>3, <1>6, ShareStaysAhead
<1>11. \A q \in Partitions \ pending' :
          Cardinality(pending') * allocated'[q] <= remaining'
  <2>1. (s - 1) * t <= remaining'
    <3>1. (s - 1) * t <= (s - 1) * k /\ (s - 1) * k = s * k - k
      BY <1>3, <1>6
    <3> QED BY <3>1, <1>2, <1>3, <1>6
  <2> QED BY <2>1, <1>3, <1>6, <1>7, <1>10
<1>12. ASSUME NEW q \in visited, allocated[q] < windows[q]
       PROVE  /\ t = k /\ k <= allocated[q] + 1
              /\ remaining - k <= (s - 1) * (allocated[q] + 1)
  <2>1. Short'
    BY <1>1, <1>6, <1>7, <1>12 DEF Short
  <2>2. remaining <= s * (allocated[q] + 1) /\ allocated[q] + 1 \in Nat
    BY <1>1, <1>2, <1>12 DEF EvenInv
  <2>3. k <= allocated[q] + 1 /\ remaining - k <= (s - 1) * (allocated[q] + 1)
    BY <2>2, <1>2, <1>3, RestFits
  <2> QED BY <2>1, <2>3, <1>4 DEF t
<1>13. ASSUME NEW q \in Partitions \ pending', allocated'[q] < windows'[q]
       PROVE  remaining' <= Cardinality(pending') * (allocated'[q] + 1)
  <2>1. CASE q = p
    <3>1. t = k
      BY <2>1, <1>1, <1>5, <1>7, <1>13
    <3>2. remaining - k <= (s - 1) * (k + 1)
      BY <1>2, <1>3, RestFits
    <3> QED BY <2>1, <3>1, <3>2, <1>3, <1>6, <1>7
  <2>2. CASE q # p
    <3>1. q \in visited /\ allocated[q] < windows[q]
      BY <2>2, <1>1, <1>6, <1>7, <1>13
    <3> QED BY <3>1, <2>2, <1>3, <1>6, <1>7, <1>12
  <2> QED BY <2>1, <2>2
<1>14. EvenOver(Partitions \ pending)'
  <2> SUFFICES ASSUME NEW o \in visited \union {p}, NEW q \in visited \union {p},
                      allocated'[o] < windows'[o]
               PROVE  allocated'[q] <= allocated'[o] + 1
    BY <1>6 DEF EvenOver
  <2>1. CASE o = p
    <3>1. t = k
      BY <2>1, <1>1, <1>5, <1>7
    <3> QED BY <2>1, <3>1, <1>3, <1>6, <1>7, <1>10
  <2>2. CASE o # p
    <3>1. o \in visited /\ allocated[o] < windows[o] /\ allocated'[o] = allocated[o]
      BY <2>2, <1>1, <1>7
    <3>2. CASE q = p
      BY <3>1, <3>2, <1>7, <1>12
    <3>3. CASE q # p
      BY <3>1, <3>3, <1>1, <1>7 DEF EvenInv, EvenOver
    <3> QED BY <3>2, <3>3
  <2> QED BY <2>1, <2>2
<1> QED BY <1>1, <1>8, <1>9, <1>11, <1>13, <1>14 DEF EvenInv

\* If the budget is spent before every partition was visited, nobody was given
\* anything.
LEMMA StopSharingEven == IInv /\ EvenInv /\ StopSharing => EvenInv'
PROOF
<1> SUFFICES ASSUME IInv, EvenInv, StopSharing PROVE EvenInv'
  OBVIOUS
<1>1. /\ phase = "sharing" /\ phase' = "handing_out"
      /\ UNCHANGED <<windows, budget, allocated, remaining>>
      /\ remaining = 0 \/ pending = {}
  BY DEF StopSharing
<1>2. /\ remaining \in Nat /\ pending \subseteq Partitions
      /\ allocated \in [Partitions -> Nat] /\ windows \in [Partitions -> Nat]
  BY BudgetSplitAssumption DEF IInv, TypeOK
<1>3. EvenOver(Partitions)
  <2>1. CASE pending = {}
    BY <2>1, <1>1 DEF EvenInv
  <2>2. CASE remaining = 0 /\ pending # {}
    <3>1. Cardinality(pending) \in Nat \ {0}
      <4>1. IsFiniteSet(pending)
        BY <1>2, BudgetSplitAssumption, FS_Subset
      <4> QED BY <4>1, <2>2, FS_CardinalityType, FS_EmptySet
    <3>2. ASSUME NEW q \in Partitions PROVE allocated[q] = 0
      <4>1. CASE q \in pending
        BY <4>1, <1>1 DEF EvenInv
      <4>2. CASE q \notin pending
        <5>1. Cardinality(pending) * allocated[q] <= 0 /\ allocated[q] \in Nat
          BY <4>2, <2>2, <1>1, <1>2 DEF EvenInv
        <5>2. allocated[q] >= 1 => Cardinality(pending) * allocated[q] >= 1
          BY <5>1, <3>1
        <5> QED BY <5>1, <5>2, <3>1
      <4> QED BY <4>1, <4>2
    <3> QED BY <3>2 DEF EvenOver
  <2> QED BY <2>1, <2>2, <1>1
<1> QED BY <1>1, <1>3 DEF EvenInv, EvenOver

\* Every step keeps the split even.
LEMMA StepEven == IInv /\ EvenInv /\ [Next]_vars => EvenInv'
PROOF
<1> SUFFICES ASSUME IInv, EvenInv, [Next]_vars PROVE EvenInv'
  OBVIOUS
<1>1. CASE GiveShare
  BY <1>1, GiveShareEven
<1>2. CASE StopSharing
  BY <1>2, StopSharingEven
<1>3. CASE HandOut
  <2>1. /\ phase = "handing_out" /\ phase' = phase /\ UNCHANGED <<windows, budget>>
    BY <1>3 DEF HandOut
  <2>2. UNCHANGED <<allocated, remaining>>
    BY <1>3, HandOutGivesNothing
  <2> QED BY <2>1, <2>2 DEF EvenInv, EvenOver
<1>4. CASE Finish
  BY <1>4 DEF Finish, EvenInv, EvenOver
<1>5. CASE UNCHANGED vars
  BY <1>5 DEF vars, EvenInv, EvenOver
<1> QED BY <1>1, <1>2, <1>3, <1>4, <1>5 DEF Next

\* What the two invariants say of a finished split.
LEMMA EvenIsFair == IInv /\ EvenInv => SplitsFairly
PROOF
<1> SUFFICES ASSUME IInv, EvenInv, phase = "done"
             PROVE  FairShare(allocated, windows, budget)
  BY DEF SplitsFairly
<1>1. /\ allocated \in [Partitions -> Nat] /\ windows \in [Partitions -> Nat]
      /\ budget \in Nat /\ remaining \in Nat /\ IsFiniteSet(Partitions)
      /\ \A p \in Partitions : allocated[p] <= windows[p]
  BY BudgetSplitAssumption DEF IInv, TypeOK
<1>2. /\ SumFunction(allocated) \in Nat /\ SumFunction(windows) \in Nat
      /\ SumFunction(allocated) <= SumFunction(windows)
  <2>1. \A p \in Partitions : /\ allocated[p] \in Int /\ windows[p] \in Int
                              /\ allocated[p] <= windows[p]
    BY <1>1
  <2>2. SumFunctionOnSet(allocated, Partitions)
            <= SumFunctionOnSet(windows, Partitions)
    BY <1>1, <2>1, SumMonotone
  <2> QED BY <1>1, <2>2, SumOfShares
<1>3. SumFunction(allocated) + remaining = budget /\ EvenOver(Partitions)
  BY DEF EvenInv
<1>4. remaining > 0 => SumFunction(allocated) = SumFunction(windows)
  <2>1. remaining > 0 => allocated = windows
    BY <1>1 DEF IInv, NothingIsRoundedAway
  <2> QED BY <2>1
<1>5. SumFunction(allocated) = Min({budget, SumFunction(windows)})
  BY <1>1, <1>2, <1>3, <1>4, MinOfTwo
<1> QED BY <1>1, <1>3, <1>5 DEF FairShare, EvenOver

\* distribute_total_budget never overspends and spends the whole budget or
\* fills every window, for any partitions, windows and budget: what its
\* integer divisions round down is passed on, never lost.  The result is a fair
\* share: no partition with room left is more than one message behind another.
THEOREM BudgetIsSpent == Spec => []SplitInvariant
<1>1. Spec => []EvenInv
  BY InitEven, StepEven, SpecInv, PTL DEF Spec
<1>2. IInv /\ EvenInv => SplitInvariant
  BY EvenIsFair DEF IInv, SplitInvariant
<1> QED BY <1>1, <1>2, SpecInv, PTL
-----------------------------------------------------------------------------
(* The panels of offsets.                                                  *)

Watermarks == [low : Nat, high : Nat]
Kept(tp) == tp[1] \notin recreated
Grown(from, to) == from.low <= to.low /\ from.high <= to.high

\* The shape of a reading.
ReadsTypeOK ==
    /\ log \in [TopicPartitions -> Watermarks]
    /\ before \in [TopicPartitions -> Watermarks]
    /\ offsets \in [TopicPartitions -> Int]
    /\ group \in Groups
    /\ ask \in {"lag", "partitions", "count"}
    /\ step \in {"idle", "committed", "watermarks", "answered", "failed"}
    /\ DOMAIN owners \subseteq TopicPartitions /\ wanted \subseteq TopicPartitions
    /\ DOMAIN marks \subseteq wanted

Reading == step = "watermarks"

\* A log only loses its head and gains at its end, unless its topic is created
\* anew; nothing is committed beyond its end.
LogsGrow ==
    \A tp \in TopicPartitions : Kept(tp) =>
        /\ offsets[tp] <= log[tp].high
        /\ Reading => Grown(before[tp], log[tp])

\* So do the watermarks that were read.
MarksAreReal ==
    /\ step \in {"idle", "committed"} => DOMAIN marks = {}
    /\ \A tp \in DOMAIN marks :
           /\ marks[tp] \in Watermarks
           /\ Reading /\ Kept(tp) =>
                  Grown(before[tp], marks[tp]) /\ Grown(marks[tp], log[tp])

\* The committed offsets were read before the first watermark.
CommittedFirst ==
    ask = "lag" /\ Reading =>
        /\ wanted = DOMAIN owners
        /\ committed \in [wanted -> Int]
        /\ \A tp \in wanted : Kept(tp) => committed[tp] <= before[tp].high

Whole == {k \in Assigned : group.members[k].whole}

\* The owners are those of the assignments that arrived whole.
OwnersAreRight(owner) ==
    /\ Assigned # {} => Whole # {}
    /\ DOMAIN owner = UNION {group.members[k].owns : k \in Whole}
    /\ \A tp \in DOMAIN owner : \E k \in Whole :
           group.members[k].id = owner[tp] /\ tp \in group.members[k].owns

\* The inductive invariant of the numbers.
ReadsInv ==
    /\ ReadsTypeOK /\ LogsGrow /\ MarksAreReal /\ CommittedFirst
    /\ LagWasReal /\ CountWasReal

\* And that of the rows.
RowsInv ==
    /\ ask = "lag" /\ step \in {"committed", "watermarks"} => OwnersAreRight(owners)
    /\ RowsAreTheAssignment

-----------------------------------------------------------------------------
(* The assignments.                                                        *)

Fields(bytes) == Len(bytes) \in Nat /\ DOMAIN bytes = 1 .. Len(bytes)

Cur(want, topics, topic, partitions, owned) ==
    [want |-> want, topics |-> topics, topic |-> topic,
     partitions |-> partitions, owned |-> owned]

Start == Cur("version", 0, Null, 0, {})

\* f is the cursor behind each field.
IsReading(f, bytes) ==
    f = [k \in 0 .. Len(bytes) |-> IF k = 0 THEN Start ELSE ReadField(f[k - 1], bytes[k])]

\* Where the cursor is between two partitions, or behind the last one.
After(t, topic, p, owned) ==
    IF p > 0 THEN Cur("partition", t, topic, p, owned)
    ELSE IF t > 0 THEN Cur("name", t - 1, topic, p, owned)
    ELSE Cur("done", t, topic, p, owned)

\* A cursor of which one thing changes.
LEMMA CursorChanged ==
    ASSUME NEW want, NEW t, NEW topic, NEW p, NEW owned, NEW x
    PROVE  LET c == Cur(want, t, topic, p, owned)
           IN  /\ c.want = want /\ c.topics = t /\ c.topic = topic
               /\ c.partitions = p /\ c.owned = owned
               /\ [c EXCEPT !.want = x] = Cur(x, t, topic, p, owned)
               /\ [c EXCEPT !.topics = x] = Cur(want, x, topic, p, owned)
               /\ [c EXCEPT !.topic = x] = Cur(want, t, x, p, owned)
               /\ [c EXCEPT !.partitions = x] = Cur(want, t, topic, x, owned)
               /\ [c EXCEPT !.owned = x] = Cur(want, t, topic, p, x)
PROOF
<1> DEFINE c == Cur(want, t, topic, p, owned)
<1>1. c.want = want /\ c.topics = t /\ c.topic = topic /\ c.partitions = p /\ c.owned = owned
  BY DEF Cur
<1>2. [c EXCEPT !.want = x] = Cur(x, t, topic, p, owned)
  BY DEF Cur
<1>3. [c EXCEPT !.topics = x] = Cur(want, x, topic, p, owned)
  BY DEF Cur
<1>4. [c EXCEPT !.topic = x] = Cur(want, t, x, p, owned)
  BY DEF Cur
<1>5. [c EXCEPT !.partitions = x] = Cur(want, t, topic, x, owned)
  BY DEF Cur
<1>6. [c EXCEPT !.owned = x] = Cur(want, t, topic, p, x)
  BY DEF Cur
<1> HIDE DEF c
<1>7. /\ c.want = want /\ c.topics = t /\ c.topic = topic
      /\ c.partitions = p /\ c.owned = owned
      /\ [c EXCEPT !.want = x] = Cur(x, t, topic, p, owned)
      /\ [c EXCEPT !.topics = x] = Cur(want, x, topic, p, owned)
      /\ [c EXCEPT !.topic = x] = Cur(want, t, x, p, owned)
      /\ [c EXCEPT !.partitions = x] = Cur(want, t, topic, x, owned)
      /\ [c EXCEPT !.owned = x] = Cur(want, t, topic, p, x)
  BY <1>1, <1>2, <1>3, <1>4, <1>5, <1>6, Zenon
<1> QED BY <1>7, Zenon DEF c

\* What the fields do to the cursor.
LEMMA FieldOfCursor ==
    ASSUME NEW c, NEW x
    PROVE  /\ c.want = "version" => ReadField(c, x) = [c EXCEPT !.want = "topics"]
           /\ c.want = "topics" => ReadField(c, x) = NextTopic([c EXCEPT !.topics = x])
           /\ c.want = "name" =>
                 ReadField(c, x) = IF x \in Topics
                                   THEN [c EXCEPT !.want = "partitions", !.topic = x]
                                   ELSE [c EXCEPT !.want = "error"]
           /\ c.want = "partitions" => ReadField(c, x) = NextPartition([c EXCEPT !.partitions = x])
           /\ c.want = "partition" =>
                 ReadField(c, x) =
                     NextPartition([c EXCEPT !.owned = @ \union {<<c.topic, x>>},
                                             !.partitions = @ - 1])
BY Zenon DEF ReadField

LEMMA VersionIsRead ==
    ASSUME NEW t, NEW topic, NEW p, NEW owned, NEW x
    PROVE  ReadField(Cur("version", t, topic, p, owned), x) = Cur("topics", t, topic, p, owned)
PROOF
<1> DEFINE c == Cur("version", t, topic, p, owned)
<1>1. c.want = "version" /\ [c EXCEPT !.want = "topics"] = Cur("topics", t, topic, p, owned)
  BY DEF Cur
<1> HIDE DEF c
<1> QED BY <1>1, FieldOfCursor DEF c

LEMMA NextTopicOf ==
    ASSUME NEW want, NEW t, NEW topic, NEW p, NEW owned
    PROVE  NextTopic(Cur(want, t, topic, p, owned)) =
               IF t > 0 THEN Cur("name", t - 1, topic, p, owned)
               ELSE Cur("done", t, topic, p, owned)
PROOF
<1> DEFINE c == Cur(want, t, topic, p, owned)
<1>1. c.topics = t /\ [c EXCEPT !.want = "done"] = Cur("done", t, topic, p, owned)
  BY CursorChanged
<1>2. [c EXCEPT !.want = "name"] = Cur("name", t, topic, p, owned)
  BY CursorChanged
<1>3. [Cur("name", t, topic, p, owned) EXCEPT !.topics = @ - 1] = Cur("name", t - 1, topic, p, owned)
  <2>1. Cur("name", t, topic, p, owned).topics = t
    BY CursorChanged
  <2>2. [Cur("name", t, topic, p, owned) EXCEPT !.topics = t - 1] = Cur("name", t - 1, topic, p, owned)
    BY CursorChanged
  <2> QED BY <2>1, <2>2
<1> HIDE DEF c
<1>4. [c EXCEPT !.want = "name", !.topics = @ - 1] = Cur("name", t - 1, topic, p, owned)
  <2>1. [c EXCEPT !.want = "name", !.topics = @ - 1] =
            [[c EXCEPT !.want = "name"] EXCEPT !.topics = @ - 1]
    OBVIOUS
  <2> QED BY <2>1, <1>2, <1>3
<1>5. NextTopic(c) = IF c.topics > 0 THEN [c EXCEPT !.want = "name", !.topics = @ - 1]
                     ELSE [c EXCEPT !.want = "done"]
  BY Zenon DEF NextTopic
<1>6. NextTopic(c) = IF t > 0 THEN Cur("name", t - 1, topic, p, owned)
                     ELSE Cur("done", t, topic, p, owned)
  BY <1>1, <1>4, <1>5, Zenon
<1> QED BY <1>6, Zenon DEF c

LEMMA CountIsRead ==
    ASSUME NEW t, NEW topic, NEW p, NEW owned, NEW x
    PROVE  ReadField(Cur("topics", t, topic, p, owned), x) =
               IF x > 0 THEN Cur("name", x - 1, topic, p, owned)
               ELSE Cur("done", x, topic, p, owned)
PROOF
<1> DEFINE c == Cur("topics", t, topic, p, owned)
<1>1. c.want = "topics" /\ [c EXCEPT !.topics = x] = Cur("topics", x, topic, p, owned)
  BY DEF Cur
<1> HIDE DEF c
<1>2. ReadField(c, x) = NextTopic([c EXCEPT !.topics = x])
  BY <1>1, FieldOfCursor
<1>3. ReadField(c, x) = IF x > 0 THEN Cur("name", x - 1, topic, p, owned)
                        ELSE Cur("done", x, topic, p, owned)
  <2>1. NextTopic(Cur("topics", x, topic, p, owned)) =
            IF x > 0 THEN Cur("name", x - 1, topic, p, owned)
            ELSE Cur("done", x, topic, p, owned)
    BY NextTopicOf
  <2> QED BY <1>1, <1>2, <2>1, Zenon
<1> QED BY <1>3, Zenon DEF c

LEMMA NameIsRead ==
    ASSUME NEW t, NEW topic, NEW p, NEW owned, NEW x
    PROVE  ReadField(Cur("name", t, topic, p, owned), x) =
               IF x \in Topics THEN Cur("partitions", t, x, p, owned)
               ELSE Cur("error", t, topic, p, owned)
PROOF
<1> DEFINE c == Cur("name", t, topic, p, owned)
<1>1. c.want = "name" /\ [c EXCEPT !.want = "error"] = Cur("error", t, topic, p, owned)
  BY CursorChanged
<1>2. /\ [c EXCEPT !.want = "partitions"] = Cur("partitions", t, topic, p, owned)
      /\ [Cur("partitions", t, topic, p, owned) EXCEPT !.topic = x] = Cur("partitions", t, x, p, owned)
  BY CursorChanged
<1> HIDE DEF c
<1>3. [c EXCEPT !.want = "partitions", !.topic = x] = Cur("partitions", t, x, p, owned)
  <2>1. [c EXCEPT !.want = "partitions", !.topic = x] =
            [[c EXCEPT !.want = "partitions"] EXCEPT !.topic = x]
    OBVIOUS
  <2> QED BY <2>1, <1>2
<1>4. ReadField(c, x) = IF x \in Topics THEN Cur("partitions", t, x, p, owned)
                        ELSE Cur("error", t, topic, p, owned)
  BY <1>1, <1>3, FieldOfCursor, Zenon
<1> QED BY <1>4, Zenon DEF c

LEMMA NextIsAfter ==
    ASSUME NEW want, NEW t, NEW topic, NEW p, NEW owned
    PROVE  NextPartition(Cur(want, t, topic, p, owned)) = After(t, topic, p, owned)
PROOF
<1> DEFINE c == Cur(want, t, topic, p, owned)
<1>1. c.partitions = p /\ [c EXCEPT !.want = "partition"] = Cur("partition", t, topic, p, owned)
  BY CursorChanged
<1> HIDE DEF c
<1>2. NextPartition(c) = IF c.partitions > 0 THEN [c EXCEPT !.want = "partition"]
                         ELSE NextTopic(c)
  BY Zenon DEF NextPartition
<1>3. NextTopic(c) = IF t > 0 THEN Cur("name", t - 1, topic, p, owned)
                     ELSE Cur("done", t, topic, p, owned)
  BY NextTopicOf DEF c
<1>4. NextPartition(c) = After(t, topic, p, owned)
  BY <1>1, <1>2, <1>3, Zenon DEF After
<1> QED BY <1>4, Zenon DEF c

LEMMA PartitionsAreRead ==
    ASSUME NEW t, NEW topic, NEW p, NEW owned, NEW x
    PROVE  ReadField(Cur("partitions", t, topic, p, owned), x) = After(t, topic, x, owned)
PROOF
<1> DEFINE c == Cur("partitions", t, topic, p, owned)
<1>1. c.want = "partitions" /\ [c EXCEPT !.partitions = x] = Cur("partitions", t, topic, x, owned)
  BY DEF Cur
<1> HIDE DEF c
<1>2. ReadField(c, x) = NextPartition([c EXCEPT !.partitions = x])
  BY <1>1, FieldOfCursor
<1> QED BY <1>1, <1>2, NextIsAfter DEF c

LEMMA PartitionIsRead ==
    ASSUME NEW t, NEW topic, NEW p, NEW owned, NEW x
    PROVE  ReadField(Cur("partition", t, topic, p, owned), x) =
               After(t, topic, p - 1, owned \union {<<topic, x>>})
PROOF
<1> DEFINE c == Cur("partition", t, topic, p, owned)
           more == owned \union {<<topic, x>>}
           less == p - 1
           d == Cur("partition", t, topic, p, more)
<1>1. /\ c.want = "partition" /\ c.topic = topic /\ c.owned = owned
      /\ more = c.owned \union {<<c.topic, x>>}
  BY CursorChanged
<1>2. d.partitions = p
  BY CursorChanged
<1>3. less = d.partitions - 1
  BY <1>2
<1> HIDE DEF more, less
<1>4. [c EXCEPT !.owned = more] = d /\ [d EXCEPT !.partitions = less] = Cur("partition", t, topic, less, more)
  BY CursorChanged
<1> HIDE DEF c, d
<1>5. [c EXCEPT !.owned = @ \union {<<c.topic, x>>}, !.partitions = @ - 1] =
          [[c EXCEPT !.owned = @ \union {<<c.topic, x>>}] EXCEPT !.partitions = @ - 1]
  OBVIOUS
<1>6. [c EXCEPT !.owned = @ \union {<<c.topic, x>>}] = d
  BY <1>1, <1>4
<1>7. [d EXCEPT !.partitions = @ - 1] = Cur("partition", t, topic, less, more)
  BY <1>3, <1>4
<1>8. ReadField(c, x) = NextPartition([c EXCEPT !.owned = @ \union {<<c.topic, x>>}, !.partitions = @ - 1])
  BY <1>1, FieldOfCursor
<1>9. ReadField(c, x) = NextPartition(Cur("partition", t, topic, less, more))
  BY <1>5, <1>6, <1>7, <1>8
<1>10. ReadField(c, x) = After(t, topic, less, more)
  BY <1>9, NextIsAfter
<1> QED BY <1>10 DEF c, less, more

\* Nothing is read after the last partition or an error.
LEMMA NothingIsRead ==
    ASSUME NEW c, c.want \in {"done", "error"}, NEW x
    PROVE  ReadField(c, x) = c
BY DEF ReadField

\* There is a cursor behind each field.
LEMMA ReadingExists ==
    ASSUME NEW bytes, Fields(bytes)
    PROVE  \E f : IsReading(f, bytes)
PROOF
<1> DEFINE Upto(f, n) == f = [k \in 0 .. n |-> IF k = 0 THEN Start ELSE ReadField(f[k - 1], bytes[k])]
           Good == {n \in Nat : \E f : Upto(f, n)}
<1>1. 0 \in Good
  <2> DEFINE f == [k \in 0 .. 0 |-> Start]
  <2>1. Upto(f, 0)
    <3>1. \A k \in 0 .. 0 : k = 0
      OBVIOUS
    <3> HIDE DEF Start
    <3> QED BY <3>1
  <2> QED BY <2>1
<1>2. ASSUME NEW n \in Nat, n \in Good
      PROVE  n + 1 \in Good
  <2>1. PICK f : Upto(f, n)
    BY <1>2
  <2> DEFINE g == [k \in 0 .. n + 1 |-> IF k \in 0 .. n THEN f[k] ELSE ReadField(f[n], bytes[n + 1])]
             h == [k \in 0 .. n + 1 |-> IF k = 0 THEN Start ELSE ReadField(g[k - 1], bytes[k])]
  <2>2. ASSUME NEW k \in 0 .. n + 1
        PROVE  g[k] = IF k = 0 THEN Start ELSE ReadField(g[k - 1], bytes[k])
    <3> HIDE DEF Start
    <3>1. CASE k \in 0 .. n
      <4>1. g[k] = f[k] /\ f[k] = IF k = 0 THEN Start ELSE ReadField(f[k - 1], bytes[k])
        BY <2>1, <3>1
      <4>2. k # 0 => k - 1 \in 0 .. n /\ g[k - 1] = f[k - 1]
        BY <3>1
      <4> HIDE DEF g
      <4> QED BY <4>1, <4>2
    <3>2. CASE k = n + 1
      <4>1. g[k] = ReadField(f[n], bytes[n + 1]) /\ g[n] = f[n] /\ k - 1 = n /\ k # 0
        BY <3>2
      <4> HIDE DEF g
      <4> QED BY <4>1, <3>2
    <3> QED BY <3>1, <3>2
  <2>3. g = h
    <3>1. \A k \in 0 .. n + 1 : g[k] = h[k]
      <4> HIDE DEF g, Start
      <4> QED BY <2>2
    <3>2. g = [k \in 0 .. n + 1 |-> g[k]] /\ h = [k \in 0 .. n + 1 |-> h[k]]
      OBVIOUS
    <3> HIDE DEF g, h
    <3> QED BY <3>1, <3>2
  <2>4. Upto(g, n + 1)
    <3> HIDE DEF g, Start
    <3> QED BY <2>3
  <2> HIDE DEF Upto, g
  <2> QED BY <2>4
<1>3. \A n \in Nat : n \in Good
  <2> HIDE DEF Good
  <2> QED BY <1>1, <1>2, CountUp
<1>4. Len(bytes) \in Good
  <2> HIDE DEF Good
  <2> QED BY <1>3 DEF Fields
<1>5. PICK f : Upto(f, Len(bytes))
  BY <1>4
<1> QED BY <1>5 DEF IsReading

\* So what Decoded computes is what the last cursor says.
LEMMA DecodedIsLast ==
    ASSUME NEW bytes, Fields(bytes)
    PROVE  \E f : /\ IsReading(f, bytes)
                  /\ Decoded(bytes) = IF f[Len(bytes)].want = "done"
                                      THEN f[Len(bytes)].owned ELSE Null
PROOF
<1> DEFINE f == CHOOSE g : IsReading(g, bytes)
<1>1. IsReading(f, bytes)
  BY ReadingExists
<1>2. Decoded(bytes) = IF f[Len(bytes)].want = "done" THEN f[Len(bytes)].owned ELSE Null
  BY DEF Decoded, IsReading, Start, Cur
<1> HIDE DEF f
<1> QED BY <1>1, <1>2

\* One field after the other.
LEMMA NextCursor ==
    ASSUME NEW bytes, Fields(bytes), NEW f, IsReading(f, bytes)
    PROVE  /\ f[0] = Start
           /\ \A k \in 0 .. Len(bytes) - 1 : f[k + 1] = ReadField(f[k], bytes[k + 1])
PROOF
<1> HIDE DEF Start
<1>1. \A k \in 0 .. Len(bytes) : f[k] = IF k = 0 THEN Start ELSE ReadField(f[k - 1], bytes[k])
  BY DEF IsReading, Fields
<1>2. f[0] = Start
  BY <1>1 DEF Fields
<1>3. ASSUME NEW k \in 0 .. Len(bytes) - 1
      PROVE  f[k + 1] = ReadField(f[k], bytes[k + 1])
  <2>1. k + 1 \in 0 .. Len(bytes) /\ k + 1 # 0 /\ k + 1 - 1 = k
    BY DEF Fields
  <2> QED BY <1>1, <2>1
<1> QED BY <1>2, <1>3

\* What is done stays done, and an error stays one.
LEMMA RestIsNotRead ==
    ASSUME NEW bytes, Fields(bytes), NEW f, IsReading(f, bytes),
           NEW a \in 0 .. Len(bytes), f[a].want \in {"done", "error"}
    PROVE  f[Len(bytes)] = f[a]
PROOF
<1> DEFINE Good == {n \in Nat : a + n <= Len(bytes) => f[a + n] = f[a]}
<1>1. 0 \in Good
  BY DEF Fields
<1>2. ASSUME NEW n \in Nat, n \in Good
      PROVE  n + 1 \in Good
  <2>1. SUFFICES ASSUME a + (n + 1) <= Len(bytes) PROVE f[a + (n + 1)] = f[a]
    OBVIOUS
  <2>2. a + n \in 0 .. Len(bytes) - 1 /\ a + n <= Len(bytes) /\ a + n + 1 = a + (n + 1)
    BY <2>1 DEF Fields
  <2>3. f[a + n] = f[a] /\ f[a + n + 1] = ReadField(f[a + n], bytes[a + n + 1])
    BY <1>2, <2>2, NextCursor
  <2> QED BY <2>2, <2>3, NothingIsRead
<1>3. \A n \in Nat : n \in Good
  <2> HIDE DEF Good
  <2> QED BY <1>1, <1>2, CountUp
<1>4. Len(bytes) - a \in Nat /\ a + (Len(bytes) - a) = Len(bytes)
  BY DEF Fields
<1>5. Len(bytes) - a \in Good
  BY <1>3, <1>4
<1> QED BY <1>4, <1>5

\* The end of a topic is not before its partitions.
LEMMA AnnouncedIsNat ==
    ASSUME NEW count \in Int
    PROVE  /\ Announced(count) \in Nat
           /\ Announced(count) = IF count > 0 THEN count ELSE 0
BY MaxOfTwo DEF Announced

\* What is owned when n partitions of the topic at a have been read as well.
Got(bytes, a, n, owned) ==
    owned \union {<<bytes[a + 1], bytes[j]>> : j \in a + 3 .. a + 2 + n}

\* What is read of a topic: its name, its number of partitions, and these.
LEMMA TopicIsRead ==
    ASSUME NEW bytes, Fields(bytes), NEW f, IsReading(f, bytes),
           NEW a \in Nat, a + 2 <= Len(bytes),
           bytes[a + 1] \in Topics, bytes[a + 2] \in Int,
           NEW t, NEW topic, NEW p, NEW owned,
           f[a] = Cur("name", t, topic, p, owned),
           NEW i \in 0 .. Announced(bytes[a + 2]), a + 2 + i <= Len(bytes)
    PROVE  f[a + 2 + i] = After(t, bytes[a + 1], bytes[a + 2] - i,
                                Got(bytes, a, i, owned))
PROOF
<1> DEFINE name == bytes[a + 1]
           count == bytes[a + 2]
           got(n) == Got(bytes, a, n, owned)
           Good == {n \in Nat : n <= Announced(count) /\ a + 2 + n <= Len(bytes) =>
                                    f[a + 2 + n] = After(t, name, count - n, got(n))}
<1>1. f[a + 2] = After(t, name, count, owned)
  <2>1. /\ a \in 0 .. Len(bytes) - 1 /\ a + 1 \in 0 .. Len(bytes) - 1 /\ a + 1 + 1 = a + 2
    BY DEF Fields
  <2>2. f[a + 1] = ReadField(f[a], name) /\ f[a + 2] = ReadField(f[a + 1], count)
    BY <2>1, NextCursor
  <2>3. f[a + 1] = Cur("partitions", t, name, p, owned)
    BY <2>2, NameIsRead
  <2> QED BY <2>2, <2>3, PartitionsAreRead
<1>2. 0 \in Good
  <2>1. a + 3 .. a + 2 + 0 = {} /\ a + 2 + 0 = a + 2 /\ count - 0 = count
    OBVIOUS
  <2>2. got(0) = owned
    BY <2>1 DEF Got
  <2> HIDE DEF got, name, count
  <2> QED BY <1>1, <2>1, <2>2
<1>3. ASSUME NEW n \in Nat, n \in Good
      PROVE  n + 1 \in Good
  <2>1. SUFFICES ASSUME n + 1 <= Announced(count), a + 2 + (n + 1) <= Len(bytes)
                 PROVE  f[a + 2 + (n + 1)] = After(t, name, count - (n + 1), got(n + 1))
    OBVIOUS
  <2>2. count - n > 0
    <3>1. count \in Int
      OBVIOUS
    <3>2. Announced(count) \in Nat /\ Announced(count) = IF count > 0 THEN count ELSE 0
      BY <3>1, AnnouncedIsNat
    <3>3. n + 1 <= Announced(count) /\ a + 2 + (n + 1) <= Len(bytes) /\ Len(bytes) \in Nat
      BY <2>1 DEF Fields
    <3> HIDE DEF count, name, got
    <3> QED BY <3>1, <3>2, <3>3
  <2>3. n <= Announced(count) /\ a + 2 + n <= Len(bytes)
    <3>1. count \in Int
      OBVIOUS
    <3>2. Announced(count) \in Nat /\ Announced(count) = IF count > 0 THEN count ELSE 0
      BY <3>1, AnnouncedIsNat
    <3>3. n + 1 <= Announced(count) /\ a + 2 + (n + 1) <= Len(bytes) /\ Len(bytes) \in Nat
      BY <2>1 DEF Fields
    <3> HIDE DEF count, name, got
    <3> QED BY <3>1, <3>2, <3>3
  <2>4. f[a + 2 + n] = After(t, name, count - n, got(n))
    BY <1>3, <2>3
  <2>5. f[a + 2 + n] = Cur("partition", t, name, count - n, got(n))
    BY <2>2, <2>4 DEF After
  <2>6. a + 2 + n \in 0 .. Len(bytes) - 1 /\ a + 2 + n + 1 = a + 2 + (n + 1)
    BY <2>1 DEF Fields
  <2>7. f[a + 2 + (n + 1)] = ReadField(f[a + 2 + n], bytes[a + 2 + (n + 1)])
    BY <2>6, NextCursor
  <2>8. f[a + 2 + (n + 1)] =
            After(t, name, count - n - 1, got(n) \union {<<name, bytes[a + 2 + (n + 1)]>>})
    <3> HIDE DEF got, name, count
    <3> QED BY <2>5, <2>7, PartitionIsRead
  <2>9. got(n) \union {<<name, bytes[a + 2 + (n + 1)]>>} = got(n + 1)
    <3>1. a + 3 .. a + 2 + (n + 1) = (a + 3 .. a + 2 + n) \union {a + 2 + (n + 1)}
      OBVIOUS
    <3> QED BY <3>1 DEF Got
  <2>10. count - n - 1 = count - (n + 1)
    OBVIOUS
  <2> HIDE DEF got, name, count
  <2> QED BY <2>8, <2>9, <2>10
<1>4. \A n \in Nat : n \in Good
  <2> HIDE DEF Good
  <2> QED BY <1>2, <1>3, CountUp
<1>5. i \in Nat /\ i <= Announced(count)
  BY AnnouncedIsNat
<1>6. i \in Good
  BY <1>4, <1>5
<1> QED BY <1>5, <1>6

\* What is owned of the first k topics.
OwnedUpTo(bytes, places, k) == UNION {OwnedOf(bytes, places[j - 1]) : j \in 1 .. k}

\* Between two topics a name comes next, and behind the last one nothing.
Between(c, bytes, places, k) ==
    LET left == Announced(bytes[2]) - k
    IN  \E t, topic, p :
            c = IF left > 0 THEN Cur("name", left - 1, topic, p, OwnedUpTo(bytes, places, k))
                ELSE Cur("done", t, topic, p, OwnedUpTo(bytes, places, k))

\* The topics that are there are read.
LEMMA TopicsAreRead ==
    ASSUME NEW bytes, Fields(bytes), NEW f, IsReading(f, bytes),
           Len(bytes) >= 2, bytes[2] \in Int,
           NEW n \in Nat, n <= Announced(bytes[2]),
           NEW places \in [0 .. n -> 0 .. Len(bytes)], AreTopics(bytes, places, n)
    PROVE  Between(f[places[n]], bytes, places, n)
PROOF
<1> DEFINE total == Announced(bytes[2])
           Good == {k \in Nat : k <= n => Between(f[places[k]], bytes, places, k)}
<1>1. total \in Nat /\ total = IF bytes[2] > 0 THEN bytes[2] ELSE 0
  BY AnnouncedIsNat
<1>2. 0 \in Good
  <2>1. f[0] = Start /\ f[1] = ReadField(f[0], bytes[1]) /\ f[2] = ReadField(f[1], bytes[2])
    <3>1. 0 \in 0 .. Len(bytes) - 1 /\ 1 \in 0 .. Len(bytes) - 1 /\ 0 + 1 = 1 /\ 1 + 1 = 2
      BY DEF Fields
    <3> QED BY <3>1, NextCursor
  <2>2. f[1] = Cur("topics", 0, Null, 0, {})
    BY <2>1, VersionIsRead DEF Start
  <2>3. f[2] = IF bytes[2] > 0 THEN Cur("name", bytes[2] - 1, Null, 0, {})
               ELSE Cur("done", bytes[2], Null, 0, {})
    BY <2>1, <2>2, CountIsRead
  <2>4. OwnedUpTo(bytes, places, 0) = {}
    BY DEF OwnedUpTo
  <2>5. places[0] = 2
    BY DEF AreTopics
  <2>6. Between(f[places[0]], bytes, places, 0)
    <3> DEFINE none == OwnedUpTo(bytes, places, 0)
    <3>1. total - 0 = total /\ total - 0 - 1 = total - 1
      BY <1>1
    <3>2. CASE total > 0
      <4>1. f[places[0]] = Cur("name", total - 0 - 1, Null, 0, none)
        <5>1. bytes[2] > 0 /\ total - 0 - 1 = bytes[2] - 1
          BY <1>1, <3>1, <3>2
        <5> HIDE DEF total
        <5> QED BY <2>3, <2>4, <2>5, <5>1
      <4> HIDE DEF none, total
      <4> QED BY <3>1, <3>2, <4>1 DEF Between, total, none
    <3>3. CASE ~ total > 0
      <4>1. f[places[0]] = Cur("done", bytes[2], Null, 0, none)
        BY <1>1, <2>3, <2>4, <2>5, <3>1, <3>3
      <4> HIDE DEF none, total
      <4> QED BY <3>1, <3>3, <4>1 DEF Between, total, none
    <3> QED BY <3>2, <3>3
  <2> QED BY <2>6
<1>3. ASSUME NEW k \in Nat, k \in Good
      PROVE  k + 1 \in Good
  <2>1. SUFFICES ASSUME k + 1 <= n PROVE Between(f[places[k + 1]], bytes, places, k + 1)
    OBVIOUS
  <2> DEFINE a == places[k]
             owned == OwnedUpTo(bytes, places, k)
             left == total - (k + 1)
  <2>2. k \in 0 .. n /\ k + 1 \in 1 .. n /\ k + 1 - 1 = k /\ k + 1 \in 0 .. n
    BY <2>1
  <2>3. /\ a + 2 <= Len(bytes) /\ bytes[a + 1] \in Topics /\ bytes[a + 2] \in Int
        /\ places[k + 1] = EndOfTopic(bytes, a)
    BY <2>2 DEF AreTopics
  <2>4. a \in Nat /\ places[k + 1] \in 0 .. Len(bytes)
    BY <2>2
  <2>5. left \in Nat /\ total - k > 0 /\ total - k - 1 = left
    BY <1>1, <2>1
  <2>6. PICK topic, p : f[a] = Cur("name", left, topic, p, owned)
    <3>1. Between(f[a], bytes, places, k)
      BY <1>3, <2>1
    <3> HIDE DEF a, owned, left
    <3> QED BY <3>1, <2>5 DEF Between, owned
  <2> DEFINE count == bytes[a + 2]
             i == Announced(count)
  <2>7. /\ i \in Nat /\ i \in 0 .. i /\ ~ count - i > 0 /\ count - i \in Int
        /\ EndOfTopic(bytes, a) = a + 2 + i
    <3>1. count \in Int
      BY <2>3
    <3>2. EndOfTopic(bytes, a) = a + 2 + i
      BY DEF EndOfTopic
    <3>3. i \in Nat /\ i = IF count > 0 THEN count ELSE 0
      BY <3>1, AnnouncedIsNat
    <3> HIDE DEF a, count, i
    <3> QED BY <3>1, <3>2, <3>3
  <2>8. a + 2 + i <= Len(bytes)
    BY <2>3, <2>4, <2>7 DEF Fields
  <2>9. owned \union OwnedOf(bytes, a) = OwnedUpTo(bytes, places, k + 1)
    <3>1. 1 .. k + 1 = (1 .. k) \union {k + 1}
      OBVIOUS
    <3> QED BY <3>1, <2>2 DEF OwnedUpTo
  <2>10. owned \union OwnedOf(bytes, a) = Got(bytes, a, i, owned)
    BY <2>7 DEF OwnedOf, Got
  <2>11. f[a + 2 + i] = After(left, bytes[a + 1], count - i, owned \union OwnedOf(bytes, a))
    <3>1. i \in 0 .. Announced(bytes[a + 2])
      BY <2>7
    <3>2. f[a + 2 + i] = After(left, bytes[a + 1], bytes[a + 2] - i, Got(bytes, a, i, owned))
      <4> HIDE DEF a, left, owned, i, count
      <4> QED BY <2>3, <2>4, <2>6, <2>8, <3>1, TopicIsRead
    <3> HIDE DEF a, left, owned, i
    <3> QED BY <2>10, <3>2
  <2>12. f[places[k + 1]] = IF left > 0
             THEN Cur("name", left - 1, bytes[a + 1], count - i, OwnedUpTo(bytes, places, k + 1))
             ELSE Cur("done", left, bytes[a + 1], count - i, OwnedUpTo(bytes, places, k + 1))
    <3> HIDE DEF a, left, owned, i, count
    <3> QED BY <2>3, <2>7, <2>9, <2>11 DEF After
  <2>13. left \in Int
    BY <2>5
  <2> HIDE DEF a, owned, i, count
  <2> QED BY <2>7, <2>12, <2>13 DEF Between
<1>4. \A k \in Nat : k \in Good
  <2> HIDE DEF Good
  <2> QED BY <1>2, <1>3, CountUp
<1> QED BY <1>4

\* An assignment that arrives whole is what it says,
LEMMA WholeDecodes ==
    ASSUME NEW bytes, Fields(bytes), NEW owns, IsWhole(bytes, owns)
    PROVE  Decoded(bytes) = owns
PROOF
<1> DEFINE n == Announced(bytes[2])
<1>1. /\ Len(bytes) >= 2 /\ bytes[2] \in Int
  BY DEF IsWhole
<1>2. PICK places \in [0 .. n -> 0 .. Len(bytes)] :
          AreTopics(bytes, places, n) /\ owns = OwnedUpTo(bytes, places, n)
  BY DEF IsWhole, OwnedUpTo
<1>3. n \in Nat /\ n <= n /\ ~ n - n > 0 /\ places[n] \in 0 .. Len(bytes)
  BY <1>1, <1>2, AnnouncedIsNat
<1>4. PICK f : /\ IsReading(f, bytes)
               /\ Decoded(bytes) = IF f[Len(bytes)].want = "done"
                                   THEN f[Len(bytes)].owned ELSE Null
  BY DecodedIsLast
<1>5. Between(f[places[n]], bytes, places, n)
  <2> HIDE DEF n
  <2> QED BY <1>1, <1>2, <1>3, <1>4, TopicsAreRead DEF n
<1>6. f[places[n]].want = "done" /\ f[places[n]].owned = owns
  BY <1>2, <1>3, <1>5 DEF Between, Cur
<1>7. f[Len(bytes)] = f[places[n]]
  <2> HIDE DEF n
  <2> QED BY <1>3, <1>4, <1>6, RestIsNotRead
<1> QED BY <1>4, <1>6, <1>7

\* and one that is cut off is an error.
LEMMA CutOffFails ==
    ASSUME NEW bytes, Fields(bytes), IsCutOff(bytes)
    PROVE  Decoded(bytes) = Null
PROOF
<1>1. PICK f : /\ IsReading(f, bytes)
               /\ Decoded(bytes) = IF f[Len(bytes)].want = "done"
                                   THEN f[Len(bytes)].owned ELSE Null
  BY DecodedIsLast
<1> DEFINE l == Len(bytes)
<1>2. l \in Nat
  BY DEF Fields
<1> SUFFICES f[l].want # "done"
  BY <1>1
<1> HIDE DEF l
<1>3. CASE l < 2
  <2>1. f[0] = Start
    BY <1>1, NextCursor
  <2>2. l = 1 => f[1] = Cur("topics", 0, Null, 0, {})
    <3>1. SUFFICES ASSUME l = 1 PROVE f[1] = Cur("topics", 0, Null, 0, {})
      OBVIOUS
    <3>2. 0 \in 0 .. l - 1 /\ 0 + 1 = 1
      BY <3>1
    <3>3. f[1] = ReadField(f[0], bytes[1])
      BY <1>1, <3>2, NextCursor DEF l
    <3> QED BY <2>1, <3>3, VersionIsRead DEF Start
  <2>3. l = 0 \/ l = 1
    BY <1>2, <1>3
  <2> QED BY <2>1, <2>2, <2>3 DEF Start, Cur
<1>4. CASE ~ l < 2
  <2> DEFINE total == Announced(bytes[2])
  <2>1. bytes[2] \in Int /\ l >= 2
    BY <1>2, <1>4 DEF IsCutOff, l
  <2>2. total \in Nat
    BY <2>1, AnnouncedIsNat
  <2>3. PICK n \in 0 .. total - 1 : \E places \in [0 .. n -> 0 .. l] :
            /\ AreTopics(bytes, places, n)
            /\ \/ l < places[n] + 2
               \/ bytes[places[n] + 1] \notin Topics
               \/ bytes[places[n] + 2] \in Int /\ l < EndOfTopic(bytes, places[n])
    BY <1>4 DEF IsCutOff, l
  <2>4. PICK places \in [0 .. n -> 0 .. l] :
            /\ AreTopics(bytes, places, n)
            /\ \/ l < places[n] + 2
               \/ bytes[places[n] + 1] \notin Topics
               \/ bytes[places[n] + 2] \in Int /\ l < EndOfTopic(bytes, places[n])
    BY <2>3
  <2> DEFINE a == places[n]
             left == total - n
             owned == OwnedUpTo(bytes, places, n)
  <2>5. n \in Nat /\ n <= total /\ left > 0 /\ left - 1 \in Int /\ a \in 0 .. l
    BY <2>2, <2>4
  <2>6. Between(f[a], bytes, places, n)
    <3> HIDE DEF total
    <3> QED BY <1>1, <2>1, <2>4, <2>5, TopicsAreRead DEF total, l
  <2>7. PICK topic, p : f[a] = Cur("name", left - 1, topic, p, owned)
    <3> HIDE DEF a
    <3> QED BY <2>5, <2>6 DEF Between
  <2> HIDE DEF a, left, owned
  <2>8. CASE l = a
    BY <2>7, <2>8 DEF Cur
  <2>9. CASE l # a
    <3>1. a \in 0 .. l - 1 /\ a + 1 \in 0 .. l
      BY <1>2, <2>5, <2>9
    <3>2. f[a + 1] = IF bytes[a + 1] \in Topics
                     THEN Cur("partitions", left - 1, bytes[a + 1], p, owned)
                     ELSE Cur("error", left - 1, topic, p, owned)
      <4>1. f[a + 1] = ReadField(f[a], bytes[a + 1])
        BY <1>1, <3>1, NextCursor DEF l
      <4> QED BY <4>1, <2>7, NameIsRead
    <3>3. CASE bytes[a + 1] \notin Topics
      <4>1. f[a + 1].want = "error"
        BY <3>2, <3>3 DEF Cur
      <4>2. f[l] = f[a + 1]
        BY <1>1, <3>1, <4>1, RestIsNotRead DEF l
      <4> QED BY <4>1, <4>2
    <3>4. CASE bytes[a + 1] \in Topics /\ l = a + 1
      BY <3>2, <3>4 DEF Cur
    <3>5. CASE bytes[a + 1] \in Topics /\ l # a + 1
      <4> DEFINE count == bytes[a + 2]
                 i == l - (a + 2)
      <4>1. a + 2 <= l /\ a \in Nat
        BY <1>2, <2>5, <3>1, <3>5
      <4>2. count \in Int /\ l < EndOfTopic(bytes, a)
        BY <1>2, <2>4, <3>5, <4>1 DEF a
      <4>3. l < a + 2 + Announced(count)
        BY <4>2 DEF EndOfTopic
      <4>4. i \in 0 .. Announced(count) /\ a + 2 + i = l /\ a + 2 + i <= l /\ count - i > 0
        <5>1. Announced(count) = IF count > 0 THEN count ELSE 0
          BY <4>2, AnnouncedIsNat
        <5> HIDE DEF count
        <5> QED BY <1>2, <4>1, <4>2, <4>3, <5>1
      <4>5. f[a + 2 + i] = After(left - 1, bytes[a + 1], count - i,
                 Got(bytes, a, i, owned))
        <5>1. a + 2 <= Len(bytes) /\ a + 2 + i <= Len(bytes)
          BY <4>1, <4>4 DEF l
        <5>2. i \in 0 .. Announced(bytes[a + 2]) /\ bytes[a + 2] \in Int
          BY <4>2, <4>4
        <5> HIDE DEF i, count
        <5>3. f[a + 2 + i] = After(left - 1, bytes[a + 1], bytes[a + 2] - i, Got(bytes, a, i, owned))
          BY <1>1, <2>7, <3>5, <4>1, <5>1, <5>2, TopicIsRead
        <5> QED BY <5>3 DEF count
      <4>6. f[l] = After(left - 1, bytes[a + 1], count - i,
                 Got(bytes, a, i, owned))
        <5> HIDE DEF i
        <5> QED BY <4>4, <4>5
      <4> HIDE DEF i, count
      <4> QED BY <4>4, <4>6 DEF After, Cur
    <3> QED BY <3>3, <3>4, <3>5
  <2> QED BY <2>8, <2>9
<1> QED BY <1>3, <1>4

\* What the listing reads of the members it reads is what they own, and nothing
\* of an assignment that is cut off.
LEMMA AssignmentsDecode ==
    ASSUME group \in Groups, NEW k \in Assigned
    PROVE  Decoded(group.members[k].assignment) =
               IF group.members[k].whole THEN group.members[k].owns ELSE Null
PROOF
<1> DEFINE member == group.members[k]
           bytes == member.assignment
<1>1. Group(group)
  BY OffsetReadsAssumption
<1>2. k \in DOMAIN group.members /\ group.protocol_type = "consumer" /\ bytes # Null
  BY DEF Assigned
<1>3. /\ member.whole \in BOOLEAN
      /\ Len(bytes) \in Nat /\ DOMAIN bytes = 1 .. Len(bytes)
      /\ IF member.whole THEN IsWhole(bytes, member.owns) ELSE IsCutOff(bytes)
  BY <1>1, <1>2 DEF Group
<1>4. Fields(bytes)
  BY <1>3 DEF Fields
<1> HIDE DEF bytes
<1> SUFFICES Decoded(bytes) = IF member.whole THEN member.owns ELSE Null
  BY DEF bytes
<1>5. CASE member.whole
  BY <1>3, <1>4, <1>5, WholeDecodes
<1>6. CASE ~ member.whole
  BY <1>3, <1>4, <1>6, CutOffFails
<1> QED BY <1>5, <1>6
-----------------------------------------------------------------------------
(* The listing and what its steps keep.                                    *)

\* Nothing was read yet.
LEMMA ReadsInitInv == ReadsInit => ReadsInv /\ RowsInv
PROOF
<1> SUFFICES ASSUME ReadsInit PROVE ReadsInv /\ RowsInv
  OBVIOUS
<1> USE OffsetReadsAssumption DEF ReadsInit
<1>1. log \in [TopicPartitions -> Watermarks] /\ offsets \in [TopicPartitions -> Int]
  BY DEF Watermarks
<1>2. DOMAIN marks = {}
  BY DEF Nobody
<1>3. ReadsTypeOK
  BY <1>1, <1>2 DEF ReadsTypeOK
<1>4. LogsGrow
  BY <1>1 DEF LogsGrow, Reading
<1> QED BY <1>2, <1>3, <1>4 DEF ReadsInv, RowsInv, MarksAreReal, CommittedFirst,
                               LagWasReal, CountWasReal, RowsAreTheAssignment,
                               Answered, Reading

\* While a panel reads, the cluster only lets its logs grow, or creates a topic
\* anew.
LEMMA ClusterSteps ==
    ASSUME ReadsInv,
           \/ \E tp \in TopicPartitions : Produce(tp) \/ Expire(tp) \/ Commit(tp)
           \/ \E topic \in Topics : Recreate(topic)
    PROVE  /\ UNCHANGED <<requestVars, group, before>>
           /\ step \notin {"answered", "failed"}
           /\ log' \in [TopicPartitions -> Watermarks]
           /\ offsets' \in [TopicPartitions -> Int]
           /\ recreated \subseteq recreated'
           /\ \A tp \in TopicPartitions : Kept(tp)' =>
                 Grown(log[tp], log'[tp]) /\ offsets'[tp] <= log'[tp].high
PROOF
<1>1. /\ ReadsTypeOK /\ LogsGrow
      /\ log \in [TopicPartitions -> Watermarks] /\ offsets \in [TopicPartitions -> Int]
  BY DEF ReadsInv, ReadsTypeOK
<1>2. \A q \in TopicPartitions : /\ log[q] \in Watermarks
                                 /\ log[q].low \in Nat /\ log[q].high \in Nat
                                 /\ offsets[q] \in Int
                                 /\ Kept(q) => offsets[q] <= log[q].high
  BY <1>1 DEF Watermarks, LogsGrow
<1>3. CASE \E tp \in TopicPartitions : Produce(tp)
  <2>1. PICK tp \in TopicPartitions : Produce(tp)
    BY <1>3
  <2>2. /\ log' = [log EXCEPT ![tp].high = @ + 1]
        /\ UNCHANGED <<offsets, recreated, requestVars, group, before>>
        /\ step \notin {"answered", "failed"}
    BY <2>1 DEF Produce, Happens
  <2> DEFINE after == [log[tp] EXCEPT !.high = @ + 1]
  <2>3. log' = [log EXCEPT ![tp] = after]
    BY <2>2
  <2>4. after \in Watermarks /\ Grown(log[tp], after)
    BY <1>2 DEF Watermarks, Grown
  <2> HIDE DEF after
  <2>5. log' \in [TopicPartitions -> Watermarks]
    BY <2>3, <2>4, <1>1
  <2>6. \A q \in TopicPartitions : Grown(log[q], log'[q])
    BY <2>3, <2>4, <1>1, <1>2 DEF Grown
  <2>7. \A q \in TopicPartitions : log'[q].high \in Nat
    BY <2>5 DEF Watermarks
  <2>8. \A q \in TopicPartitions : Kept(q)' => offsets'[q] <= log'[q].high
    BY <2>2, <2>6, <2>7, <1>2 DEF Kept, Grown
  <2>9. offsets' \in [TopicPartitions -> Int] /\ recreated \subseteq recreated'
    BY <2>2, <1>1
  <2> QED BY <2>2, <2>5, <2>6, <2>8, <2>9
<1>4. CASE \E tp \in TopicPartitions : Expire(tp)
  <2>1. PICK tp \in TopicPartitions : Expire(tp)
    BY <1>4
  <2>2. /\ log' = [log EXCEPT ![tp].low = @ + 1]
        /\ UNCHANGED <<offsets, recreated, requestVars, group, before>>
        /\ step \notin {"answered", "failed"}
    BY <2>1 DEF Expire, Happens
  <2> DEFINE after == [log[tp] EXCEPT !.low = @ + 1]
  <2>3. log' = [log EXCEPT ![tp] = after]
    BY <2>2
  <2>4. after \in Watermarks /\ Grown(log[tp], after)
    BY <1>2 DEF Watermarks, Grown
  <2> HIDE DEF after
  <2>5. log' \in [TopicPartitions -> Watermarks]
    BY <2>3, <2>4, <1>1
  <2>6. \A q \in TopicPartitions : Grown(log[q], log'[q])
    BY <2>3, <2>4, <1>1, <1>2 DEF Grown
  <2>7. \A q \in TopicPartitions : log'[q].high \in Nat
    BY <2>5 DEF Watermarks
  <2>8. \A q \in TopicPartitions : Kept(q)' => offsets'[q] <= log'[q].high
    BY <2>2, <2>6, <2>7, <1>2 DEF Kept, Grown
  <2>9. offsets' \in [TopicPartitions -> Int] /\ recreated \subseteq recreated'
    BY <2>2, <1>1
  <2> QED BY <2>2, <2>5, <2>6, <2>8, <2>9
<1>5. CASE \E tp \in TopicPartitions : Commit(tp)
  <2>1. PICK tp \in TopicPartitions : Commit(tp)
    BY <1>5
  <2>2. /\ \E o \in log[tp].low .. log[tp].high : offsets' = [offsets EXCEPT ![tp] = o]
        /\ UNCHANGED <<log, recreated, requestVars, group, before>>
        /\ step \notin {"answered", "failed"}
    BY <2>1 DEF Commit, Happens
  <2>3. offsets' \in [TopicPartitions -> Int]
    BY <2>2, <1>1, <1>2
  <2>4. \A q \in TopicPartitions : Kept(q) => offsets'[q] <= log[q].high
    BY <2>2, <1>1, <1>2
  <2> QED BY <2>2, <2>3, <2>4, <1>1, <1>2 DEF Kept, Grown
<1>6. CASE \E topic \in Topics : Recreate(topic)
  <2>1. PICK topic \in Topics : Recreate(topic)
    BY <1>6
  <2>2. /\ log' = [tp \in TopicPartitions |->
                      IF tp[1] = topic THEN [low |-> 0, high |-> 0] ELSE log[tp]]
        /\ recreated' = recreated \union {topic}
        /\ UNCHANGED <<offsets, requestVars, group, before>>
        /\ step \notin {"answered", "failed"}
    BY <2>1 DEF Recreate, Happens
  <2>3. log' \in [TopicPartitions -> Watermarks]
    BY <2>2, <1>2 DEF Watermarks
  <2>4. \A q \in TopicPartitions : Kept(q)' => Kept(q) /\ log'[q] = log[q]
    BY <2>2 DEF Kept
  <2> QED BY <2>2, <2>3, <2>4, <1>1, <1>2 DEF Grown
<1> QED BY <1>3, <1>4, <1>5, <1>6

\* Nothing that happens in the cluster makes what was read untrue.
LEMMA ClusterKeeps ==
    ASSUME ReadsInv, RowsInv,
           \/ \E tp \in TopicPartitions : Produce(tp) \/ Expire(tp) \/ Commit(tp)
           \/ \E topic \in Topics : Recreate(topic)
    PROVE  ReadsInv' /\ RowsInv'
PROOF
<1>1. /\ UNCHANGED <<requestVars, group, before>>
      /\ step \notin {"answered", "failed"}
      /\ log' \in [TopicPartitions -> Watermarks]
      /\ offsets' \in [TopicPartitions -> Int]
      /\ recreated \subseteq recreated'
      /\ \A tp \in TopicPartitions : Kept(tp)' =>
            Grown(log[tp], log'[tp]) /\ offsets'[tp] <= log'[tp].high
  BY ClusterSteps
<1>2. /\ UNCHANGED <<ask, step, owners, committed, wanted, marks, answer, group, before>>
      /\ step' \notin {"answered", "failed"}
  BY <1>1 DEF requestVars
<1>3. ReadsTypeOK'
  BY <1>1, <1>2 DEF ReadsInv, ReadsTypeOK
<1>4. \A tp \in TopicPartitions : Kept(tp)' => Kept(tp) /\ Grown(log[tp], log'[tp])
  BY <1>1 DEF Kept
<1>5. \A tp \in TopicPartitions :
          /\ log[tp].low \in Nat /\ log[tp].high \in Nat
          /\ log'[tp].low \in Nat /\ log'[tp].high \in Nat
          /\ before[tp].low \in Nat /\ before[tp].high \in Nat
  BY <1>1 DEF ReadsInv, ReadsTypeOK, Watermarks
<1>6. LogsGrow'
  <2> SUFFICES ASSUME NEW tp \in TopicPartitions, Kept(tp)', Reading'
               PROVE  Grown(before'[tp], log'[tp])
    BY <1>1 DEF LogsGrow
  <2>1. Grown(before[tp], log[tp]) /\ Grown(log[tp], log'[tp])
    BY <1>2, <1>4 DEF ReadsInv, LogsGrow, Reading
  <2> QED BY <2>1, <1>2, <1>5 DEF Grown
<1>7. MarksAreReal'
  <2>1. step' \in {"idle", "committed"} => DOMAIN marks' = {}
    BY <1>2 DEF ReadsInv, MarksAreReal
  <2> SUFFICES ASSUME NEW tp \in DOMAIN marks
               PROVE  /\ marks[tp] \in Watermarks
                      /\ Reading' /\ Kept(tp)' =>
                             Grown(before'[tp], marks[tp]) /\ Grown(marks[tp], log'[tp])
    BY <2>1, <1>2 DEF MarksAreReal
  <2>2. tp \in TopicPartitions /\ marks[tp] \in Watermarks
    BY DEF ReadsInv, ReadsTypeOK, MarksAreReal
  <2>3. Reading' /\ Kept(tp)' => /\ Grown(before[tp], marks[tp]) /\ Grown(marks[tp], log[tp])
                                 /\ Grown(log[tp], log'[tp])
    BY <2>2, <1>2, <1>4 DEF ReadsInv, MarksAreReal, Reading
  <2>4. marks[tp].low \in Nat /\ marks[tp].high \in Nat
    BY <2>2 DEF Watermarks
  <2> QED BY <2>2, <2>3, <2>4, <1>2, <1>5 DEF Grown
<1>8. CommittedFirst'
  <2> SUFFICES ASSUME ask' = "lag", Reading'
               PROVE  /\ wanted = DOMAIN owners /\ committed \in [wanted -> Int]
                      /\ \A tp \in wanted : Kept(tp)' => committed[tp] <= before[tp].high
    BY <1>2 DEF CommittedFirst
  <2>1. /\ wanted = DOMAIN owners /\ committed \in [wanted -> Int]
        /\ \A tp \in wanted : Kept(tp) => committed[tp] <= before[tp].high
    BY <1>2 DEF ReadsInv, CommittedFirst, Reading
  <2>2. wanted \subseteq TopicPartitions
    BY DEF ReadsInv, ReadsTypeOK
  <2> QED BY <2>1, <2>2, <1>4
<1>9. LagWasReal' /\ CountWasReal' /\ RowsAreTheAssignment'
  BY <1>2 DEF LagWasReal, CountWasReal, RowsAreTheAssignment, Answered
<1>10. ask' = "lag" /\ step' \in {"committed", "watermarks"} => OwnersAreRight(owners)'
  BY <1>2 DEF RowsInv, OwnersAreRight, Whole, Assigned
<1> QED BY <1>3, <1>6, <1>7, <1>8, <1>9, <1>10 DEF ReadsInv, RowsInv
-----------------------------------------------------------------------------

\* A set of numbers of members has a largest one.
LEMMA MaxOfMembers ==
    ASSUME NEW n \in Nat, NEW S \in SUBSET (1 .. n), S # {}
    PROVE  Max(S) \in S
PROOF
<1> DEFINE T == {n - x : x \in S}
<1>1. T \in SUBSET Nat /\ T # {}
  <2>1. \A x \in S : n - x \in Nat
    OBVIOUS
  <2>2. PICK x \in S : TRUE
    OBVIOUS
  <2>3. n - x \in T
    OBVIOUS
  <2> QED BY <2>1, <2>3
<1>2. Min(T) \in T /\ \A y \in T : Min(T) <= y
  <2> HIDE DEF T
  <2> QED BY <1>1, MinOfNaturals
<1>3. PICK x \in S : Min(T) = n - x
  BY <1>2
<1>4. ASSUME NEW y \in S PROVE x >= y
  <2>1. n - y \in T /\ x \in Int /\ y \in Int
    OBVIOUS
  <2> HIDE DEF T
  <2>2. n - x <= n - y
    BY <2>1, <1>2, <1>3
  <2> QED BY <2>1, <2>2
<1> QED BY <1>4 DEF Max

\* What the listing makes of the assignments.
LEMMA OwnersOfTheWhole ==
    ASSUME group \in Groups,
           NEW decoded, decoded = [k \in Assigned |-> Decoded(group.members[k].assignment)],
           ~ (Assigned # {} /\ \A k \in Assigned : decoded[k] = Null)
    PROVE  OwnersAreRight(OwnersIn(decoded))
PROOF
<1> DEFINE Claims(tp) == {k \in DOMAIN decoded : decoded[k] # Null /\ tp \in decoded[k]}
<1>1. /\ Group(group) /\ \A owns \in SUBSET TopicPartitions : owns # Null
  BY OffsetReadsAssumption
<1>2. /\ DOMAIN group.members = 1 .. Len(group.members) /\ Len(group.members) \in Nat
      /\ \A k \in DOMAIN group.members : group.members[k].owns \subseteq TopicPartitions
      /\ Assigned \subseteq DOMAIN group.members /\ DOMAIN decoded = Assigned
  BY <1>1 DEF Group, Assigned
<1>3. \A k \in Assigned :
          decoded[k] = IF group.members[k].whole THEN group.members[k].owns ELSE Null
  BY AssignmentsDecode
<1>4. \A k \in Assigned : decoded[k] # Null <=> group.members[k].whole
  BY <1>1, <1>2, <1>3
<1>5. \A k \in Whole : decoded[k] = group.members[k].owns
  BY <1>3 DEF Whole
<1>6. \A k \in DOMAIN decoded : decoded[k] # Null <=> k \in Whole
  BY <1>2, <1>4 DEF Whole
<1>7. Whole \subseteq Assigned
  BY DEF Whole
<1>8. \A tp : Claims(tp) = {k \in Whole : tp \in group.members[k].owns}
  BY <1>2, <1>5, <1>6, <1>7
<1>9. Assigned # {} => Whole # {}
  BY <1>2, <1>6
<1>10. \A k \in Whole : group.members[k].owns \subseteq TopicPartitions
  BY <1>2, <1>7
<1>11. OwnersIn(decoded) = [tp \in {p \in TopicPartitions : Claims(p) # {}} |->
                               group.members[Max(Claims(tp))].id]
  BY DEF OwnersIn
<1>12. \A tp : Claims(tp) \in SUBSET (1 .. Len(group.members))
  BY <1>2, <1>7, <1>8
<1> HIDE DEF Claims
<1>13. \A tp : Claims(tp) # {} => Max(Claims(tp)) \in Claims(tp)
  BY <1>2, <1>12, MaxOfMembers
<1>14. DOMAIN OwnersIn(decoded) = UNION {group.members[k].owns : k \in Whole}
  <2>1. DOMAIN OwnersIn(decoded) = {p \in TopicPartitions : Claims(p) # {}}
    BY <1>11
  <2> QED BY <2>1, <1>8, <1>10
<1>15. ASSUME NEW tp \in DOMAIN OwnersIn(decoded)
       PROVE  \E k \in Whole : /\ group.members[k].id = OwnersIn(decoded)[tp]
                               /\ tp \in group.members[k].owns
  <2>1. /\ tp \in TopicPartitions /\ Claims(tp) # {}
        /\ OwnersIn(decoded)[tp] = group.members[Max(Claims(tp))].id
    BY <1>11, <1>15
  <2> QED BY <2>1, <1>8, <1>13
<1> QED BY <1>9, <1>14, <1>15 DEF OwnersAreRight
-----------------------------------------------------------------------------
(* The steps of a reading.                                                 *)

\* They leave the cluster alone.
LEMMA ReadingLeavesTheCluster ==
    ASSUME clusterFrame
    PROVE  UNCHANGED <<log, offsets, group, events, recreated>>
BY DEF clusterFrame, clusterVars

\* The listing.
LEMMA ListingKeeps ==
    ASSUME ReadsInv, RowsInv, FetchGroupList
    PROVE  ReadsInv' /\ RowsInv'
PROOF
<1> DEFINE decoded == [k \in Assigned |-> Decoded(group.members[k].assignment)]
           failed == Assigned # {} /\ \A k \in Assigned : decoded[k] = Null
<1>1. /\ ask = "lag" /\ step = "idle"
      /\ owners' = IF failed THEN Nobody ELSE OwnersIn(decoded)
      /\ step' = CASE failed -> "failed"
                   [] ~ failed /\ owners' = Nobody -> "answered"
                   [] OTHER -> "committed"
      /\ answer' = Nobody
      /\ UNCHANGED <<ask, committed, wanted, marks, before>> /\ clusterFrame
  BY DEF FetchGroupList
<1> HIDE DEF decoded, failed
<1>2. UNCHANGED <<log, offsets, group, events, recreated>>
  BY <1>1, ReadingLeavesTheCluster
<1>3. /\ step' \in {"failed", "answered", "committed"}
      /\ step' = "failed" <=> failed
      /\ step' = "answered" => owners' = Nobody
  BY <1>1
<1>4. DOMAIN Nobody = {} /\ DOMAIN owners' \subseteq TopicPartitions
  <2>1. DOMAIN OwnersIn(decoded) \subseteq TopicPartitions
    BY DEF OwnersIn
  <2> QED BY <2>1, <1>1 DEF Nobody
<1>5. ReadsTypeOK' /\ LogsGrow' /\ CommittedFirst'
  BY <1>1, <1>2, <1>3, <1>4 DEF ReadsInv, ReadsTypeOK, LogsGrow, CommittedFirst, Reading, Kept
<1>6. MarksAreReal'
  BY <1>1, <1>2, <1>3 DEF ReadsInv, MarksAreReal, Reading
<1>7. LagWasReal' /\ CountWasReal'
  BY <1>1, <1>2, <1>4 DEF LagWasReal, CountWasReal, Answered
<1>8. RowsInv'
  <2>1. UNCHANGED <<Assigned, Whole>>
    BY <1>2 DEF Assigned, Whole
  <2>2. step' # "failed" => OwnersAreRight(owners')
    <3>1. group \in Groups
      BY DEF ReadsInv, ReadsTypeOK
    <3> QED BY <1>1, <1>3, <3>1, OwnersOfTheWhole DEF decoded, failed
  <2>3. step' # "failed" => OwnersAreRight(owners)'
    BY <2>1, <2>2, <1>2 DEF OwnersAreRight
  <2>4. RowsAreTheAssignment'
    BY <2>1, <2>2, <1>1, <1>2, <1>3, <1>4
       DEF RowsAreTheAssignment, Answered, OwnersAreRight, Whole
  <2> QED BY <2>3, <2>4 DEF RowsInv
<1> QED BY <1>5, <1>6, <1>7, <1>8 DEF ReadsInv

\* A request that goes on leaves the owners as they were listed.
LEMMA OwnersStay ==
    ASSUME RowsInv, clusterFrame, UNCHANGED <<ask, owners>>,
           step \in {"committed", "watermarks"} \/ ask # "lag",
           step' \in {"watermarks", "failed"}
    PROVE  RowsInv'
PROOF
<1>1. UNCHANGED <<log, offsets, group, events, recreated>>
  BY ReadingLeavesTheCluster
<1>2. ask' = "lag" /\ step' \in {"committed", "watermarks"} => OwnersAreRight(owners)'
  BY <1>1 DEF RowsInv, OwnersAreRight, Whole, Assigned
<1> QED BY <1>2 DEF RowsInv, RowsAreTheAssignment, Answered

\* The committed offsets are at most the ends of the logs, of which none is
\* read yet.
LEMMA CommittedKeeps ==
    ASSUME ReadsInv, RowsInv, FetchCommitted
    PROVE  ReadsInv' /\ RowsInv'
PROOF
<1>1. /\ step = "committed" /\ step' = "watermarks"
      /\ committed' = [tp \in DOMAIN owners |-> offsets[tp]]
      /\ wanted' = DOMAIN owners /\ before' = log
      /\ UNCHANGED <<ask, owners, marks, answer>> /\ clusterFrame
  BY DEF FetchCommitted
<1>2. UNCHANGED <<log, offsets, group, events, recreated>>
  BY <1>1, ReadingLeavesTheCluster
<1>3. /\ ReadsTypeOK /\ LogsGrow /\ DOMAIN marks = {}
      /\ log \in [TopicPartitions -> Watermarks] /\ offsets \in [TopicPartitions -> Int]
      /\ DOMAIN owners \subseteq TopicPartitions
  BY <1>1 DEF ReadsInv, ReadsTypeOK, MarksAreReal
<1>4. ReadsTypeOK'
  BY <1>1, <1>2, <1>3 DEF ReadsTypeOK
<1>5. LogsGrow'
  <2>1. \A tp \in TopicPartitions : Grown(log[tp], log[tp])
    BY <1>3 DEF Grown, Watermarks
  <2> QED BY <2>1, <1>1, <1>2, <1>3 DEF LogsGrow, Kept
<1>6. MarksAreReal' /\ CommittedFirst'
  BY <1>1, <1>2, <1>3 DEF MarksAreReal, CommittedFirst, LogsGrow, Kept
<1>7. LagWasReal' /\ CountWasReal'
  BY <1>1 DEF LagWasReal, CountWasReal, Answered
<1>8. RowsInv'
  BY <1>1, OwnersStay
<1> QED BY <1>4, <1>5, <1>6, <1>7, <1>8 DEF ReadsInv

\* No watermark of the topic's partitions is read yet.
LEMMA MetadataKeeps ==
    ASSUME ReadsInv, RowsInv, FetchMetadata
    PROVE  ReadsInv' /\ RowsInv'
PROOF
<1>1. /\ ask # "lag" /\ step = "idle" /\ step' = "watermarks"
      /\ wanted' \subseteq TopicPartitions /\ before' = log
      /\ UNCHANGED <<ask, owners, committed, marks, answer>> /\ clusterFrame
  BY DEF FetchMetadata, PartitionsOf
<1>2. UNCHANGED <<log, offsets, group, events, recreated>>
  BY <1>1, ReadingLeavesTheCluster
<1>3. /\ ReadsTypeOK /\ LogsGrow /\ DOMAIN marks = {}
      /\ log \in [TopicPartitions -> Watermarks]
  BY <1>1 DEF ReadsInv, ReadsTypeOK, MarksAreReal
<1>4. ReadsTypeOK'
  BY <1>1, <1>2, <1>3 DEF ReadsTypeOK
<1>5. LogsGrow'
  <2>1. \A tp \in TopicPartitions : Grown(log[tp], log[tp])
    BY <1>3 DEF Grown, Watermarks
  <2> QED BY <2>1, <1>1, <1>2, <1>3 DEF LogsGrow, Kept
<1>6. MarksAreReal' /\ CommittedFirst'
  BY <1>1, <1>2, <1>3 DEF MarksAreReal, CommittedFirst
<1>7. LagWasReal' /\ CountWasReal'
  BY <1>1 DEF LagWasReal, CountWasReal, Answered
<1>8. RowsInv'
  BY <1>1, OwnersStay
<1> QED BY <1>4, <1>5, <1>6, <1>7, <1>8 DEF ReadsInv

\* The watermarks of one more partition are read as they are now.
LEMMA WatermarksKeep ==
    ASSUME ReadsInv, RowsInv, NEW tp \in TopicPartitions, FetchWatermarks(tp)
    PROVE  ReadsInv' /\ RowsInv'
PROOF
<1>1. /\ step = "watermarks" /\ step' = step /\ tp \in wanted \ DOMAIN marks
      /\ marks' = [p \in DOMAIN marks \union {tp} |-> IF p = tp THEN log[tp] ELSE marks[p]]
      /\ UNCHANGED <<ask, owners, committed, wanted, answer, before>> /\ clusterFrame
  BY DEF FetchWatermarks
<1>2. UNCHANGED <<log, offsets, group, events, recreated>>
  BY <1>1, ReadingLeavesTheCluster
<1>3. /\ ReadsTypeOK /\ LogsGrow /\ MarksAreReal /\ CommittedFirst
      /\ log \in [TopicPartitions -> Watermarks] /\ DOMAIN marks \subseteq wanted
  BY DEF ReadsInv, ReadsTypeOK
<1>4. ReadsTypeOK'
  BY <1>1, <1>2, <1>3 DEF ReadsTypeOK
<1>5. LogsGrow' /\ CommittedFirst'
  BY <1>1, <1>2, <1>3 DEF LogsGrow, CommittedFirst, Kept, Reading
<1>6. MarksAreReal'
  <2> SUFFICES ASSUME NEW q \in DOMAIN marks'
               PROVE  /\ marks'[q] \in Watermarks
                      /\ Kept(q) => Grown(before[q], marks'[q]) /\ Grown(marks'[q], log[q])
    BY <1>1, <1>2 DEF MarksAreReal, Reading, Kept
  <2>1. CASE q = tp
    <3>1. /\ marks'[q] = log[q] /\ log[q] \in Watermarks
          /\ Kept(q) => Grown(before[q], log[q])
      BY <2>1, <1>1, <1>3 DEF LogsGrow, Reading
    <3> QED BY <3>1 DEF Grown, Watermarks
  <2>2. CASE q # tp
    <3>1. q \in DOMAIN marks /\ marks'[q] = marks[q]
      BY <2>2, <1>1
    <3> QED BY <3>1, <1>1, <1>3 DEF MarksAreReal, Reading
  <2> QED BY <2>1, <2>2
<1>7. LagWasReal' /\ CountWasReal'
  BY <1>1 DEF LagWasReal, CountWasReal, Answered
<1>8. RowsInv'
  BY <1>1, OwnersStay
<1> QED BY <1>4, <1>5, <1>6, <1>7, <1>8 DEF ReadsInv

\* There is no answer.
LEMMA FailureKeeps ==
    ASSUME ReadsInv, RowsInv, ReadFails
    PROVE  ReadsInv' /\ RowsInv'
PROOF
<1>1. /\ step' = "failed"
      /\ UNCHANGED <<ask, owners, committed, wanted, marks, answer, before>> /\ clusterFrame
  BY DEF ReadFails
<1>2. UNCHANGED <<log, offsets, group, events, recreated>>
  BY <1>1, ReadingLeavesTheCluster
<1>3. ReadsTypeOK' /\ LogsGrow' /\ MarksAreReal' /\ CommittedFirst'
  BY <1>1, <1>2 DEF ReadsInv, ReadsTypeOK, LogsGrow, MarksAreReal, CommittedFirst,
                    Reading, Kept
<1>4. LagWasReal' /\ CountWasReal' /\ RowsInv'
  BY <1>1 DEF LagWasReal, CountWasReal, RowsInv, RowsAreTheAssignment, Answered
<1> QED BY <1>3, <1>4 DEF ReadsInv
-----------------------------------------------------------------------------
(* The answer.                                                             *)

\* The lag shown is the distance between a committed offset and an end of the
\* log that was read after it.
LEMMA LagIsReal ==
    ASSUME ReadsInv, Reading, ask = "lag", DOMAIN marks = wanted,
           NEW tp \in wanted, CurrentOffset(tp) # Null
    PROVE  LET lag == Lag(CurrentOffset(tp), marks[tp].high)
           IN  /\ lag >= 0
               /\ Kept(tp) => lag \in before[tp].high - CurrentOffset(tp)
                                      .. log[tp].high - CurrentOffset(tp)
PROOF
<1> DEFINE current == CurrentOffset(tp)
           high == marks[tp].high
<1>1. tp \in TopicPartitions /\ tp \in DOMAIN marks
  BY DEF ReadsInv, ReadsTypeOK
<1>2. committed[tp] \in Int /\ (Kept(tp) => committed[tp] <= before[tp].high)
  BY DEF ReadsInv, CommittedFirst
<1>3. current = committed[tp]
  BY DEF CurrentOffset
<1>4. /\ high \in Nat /\ before[tp].high \in Nat /\ log[tp].high \in Nat
      /\ Kept(tp) => before[tp].high <= high /\ high <= log[tp].high
  BY <1>1 DEF ReadsInv, ReadsTypeOK, MarksAreReal, Watermarks, Grown
<1> HIDE DEF high, current
<1>5. Lag(current, high) = IF high - current >= 0 THEN high - current ELSE 0
  <2>1. Lag(current, high) = Max({high - current, 0})
    BY DEF Lag, current
  <2>2. high - current \in Int
    BY <1>2, <1>3, <1>4
  <2> QED BY <2>1, <2>2, MaxOfTwo
<1>6. /\ Lag(current, high) >= 0
      /\ Kept(tp) => Lag(current, high) \in before[tp].high - current .. log[tp].high - current
  BY <1>2, <1>3, <1>4, <1>5
<1> QED BY <1>6 DEF current, high

\* How many messages lie between two watermarks.
LEMMA MessagesBetween ==
    ASSUME NEW low \in Nat, NEW high \in Nat
    PROVE  Max({high - low, 0}) = IF high >= low THEN high - low ELSE 0
PROOF
<1>1. high - low \in Int
  OBVIOUS
<1> QED BY <1>1, MaxOfTwo

\* A sum of distances grows with the distances.
LEMMA CountsGrow ==
    ASSUME IsFiniteSet(wanted), NEW from, NEW to, NEW low, NEW high,
           \A tp \in wanted : /\ from[tp].low \in Nat /\ to[tp].high \in Nat
                              /\ low[tp].low \in Nat /\ high[tp].high \in Nat
                              /\ low[tp].low <= from[tp].low /\ to[tp].high <= high[tp].high
    PROVE  Messages(from, to) <= Messages(low, high)
PROOF
<1> DEFINE f == [tp \in wanted |-> Max({to[tp].high - from[tp].low, 0})]
           g == [tp \in wanted |-> Max({high[tp].high - low[tp].low, 0})]
<1>1. ASSUME NEW tp \in wanted PROVE f[tp] \in Int /\ g[tp] \in Int /\ f[tp] <= g[tp]
  <2>1. /\ f[tp] = IF to[tp].high >= from[tp].low THEN to[tp].high - from[tp].low ELSE 0
        /\ g[tp] = IF high[tp].high >= low[tp].low THEN high[tp].high - low[tp].low ELSE 0
    BY MessagesBetween
  <2> HIDE DEF f, g
  <2> QED BY <2>1
<1>2. DOMAIN f = wanted /\ DOMAIN g = wanted
  OBVIOUS
<1> HIDE DEF f, g
<1>3. SumFunctionOnSet(f, wanted) <= SumFunctionOnSet(g, wanted)
  BY <1>1, SumMonotone
<1>4. SumFunction(f) <= SumFunction(g)
  BY <1>2, <1>3 DEF SumFunction
<1> QED BY <1>4 DEF f, g, Messages

\* The number of messages is one the topic had.
LEMMA CountIsReal ==
    ASSUME ReadsInv, Reading, DOMAIN marks = wanted
    PROVE  /\ MessageCount \in Nat
           /\ (\A tp \in wanted : Kept(tp)) =>
                  MessageCount \in Messages(log, before) .. Messages(before, log)
PROOF
<1> DEFINE Marked(at) == \A tp \in wanted : at[tp].low \in Nat /\ at[tp].high \in Nat
<1>1. wanted \subseteq TopicPartitions /\ IsFiniteSet(wanted)
  BY OffsetReadsAssumption, FS_Subset DEF ReadsInv, ReadsTypeOK
<1>2. Marked(marks) /\ Marked(log) /\ Marked(before)
  BY <1>1 DEF ReadsInv, ReadsTypeOK, MarksAreReal, Watermarks
<1>3. ASSUME NEW low, NEW high, Marked(low), Marked(high)
      PROVE  Messages(low, high) \in Nat
  <2> DEFINE f == [tp \in wanted |-> Max({high[tp].high - low[tp].low, 0})]
  <2>1. ASSUME NEW tp \in wanted PROVE f[tp] \in Nat
    <3>1. f[tp] = IF high[tp].high >= low[tp].low THEN high[tp].high - low[tp].low ELSE 0
      BY <1>3, MessagesBetween
    <3> HIDE DEF f
    <3> QED BY <3>1, <1>3
  <2>2. DOMAIN f = wanted
    OBVIOUS
  <2> HIDE DEF f
  <2>3. SumFunctionOnSet(f, wanted) \in Nat
    BY <1>1, <2>1, SumIsNat
  <2>4. SumFunction(f) \in Nat
    BY <2>2, <2>3 DEF SumFunction
  <2> QED BY <2>4 DEF f, Messages
<1>4. MessageCount = Messages(marks, marks)
  BY DEF MessageCount
<1>5. ASSUME \A tp \in wanted : Kept(tp)
      PROVE  /\ Messages(log, before) <= Messages(marks, marks)
             /\ Messages(marks, marks) <= Messages(before, log)
  <2>1. \A tp \in wanted : Grown(before[tp], marks[tp]) /\ Grown(marks[tp], log[tp])
    BY <1>5 DEF ReadsInv, MarksAreReal
  <2>2. \A tp \in wanted : /\ marks[tp].low <= log[tp].low
                           /\ before[tp].high <= marks[tp].high
                           /\ before[tp].low <= marks[tp].low
                           /\ marks[tp].high <= log[tp].high
    BY <2>1 DEF Grown
  <2>3. Messages(log, before) <= Messages(marks, marks)
    BY <1>1, <1>2, <2>2, CountsGrow
  <2>4. Messages(marks, marks) <= Messages(before, log)
    BY <1>1, <1>2, <2>2, CountsGrow
  <2> QED BY <2>3, <2>4
<1> QED BY <1>2, <1>3, <1>4, <1>5

\* The answer is made of what was read.
LEMMA AnswerKeeps ==
    ASSUME ReadsInv, RowsInv, Answer
    PROVE  ReadsInv' /\ RowsInv'
PROOF
<1>1. /\ step = "watermarks" /\ DOMAIN marks = wanted /\ step' = "answered"
      /\ ask = "lag" => answer' = LagRows
      /\ ask = "partitions" => answer' = marks
      /\ ask = "count" => answer' = MessageCount
      /\ UNCHANGED <<ask, owners, committed, wanted, marks, before>> /\ clusterFrame
  BY DEF Answer
<1>2. UNCHANGED <<log, offsets, group, events, recreated>>
  BY <1>1, ReadingLeavesTheCluster
<1>3. ReadsTypeOK' /\ LogsGrow' /\ MarksAreReal' /\ CommittedFirst'
  BY <1>1, <1>2 DEF ReadsInv, ReadsTypeOK, LogsGrow, MarksAreReal, CommittedFirst,
                    Reading, Kept
<1>4. LagWasReal'
  <2> SUFFICES ASSUME ask = "lag", NEW tp \in DOMAIN answer',
                      answer'[tp].current_offset # Null
               PROVE  /\ answer'[tp].lag >= 0
                      /\ Kept(tp) => answer'[tp].lag \in
                             before[tp].high - answer'[tp].current_offset
                                 .. log[tp].high - answer'[tp].current_offset
    BY <1>1, <1>2 DEF LagWasReal, Answered, Kept
  <2>1. /\ tp \in wanted
        /\ answer'[tp].current_offset = CurrentOffset(tp)
        /\ answer'[tp].lag = Lag(CurrentOffset(tp), marks[tp].high)
    BY <1>1 DEF LagRows
  <2> QED BY <2>1, <1>1, LagIsReal DEF Reading
<1>5. CountWasReal'
  <2>1. ask = "partitions" => \A tp \in wanted : Kept(tp) =>
            /\ marks[tp].low \in before[tp].low .. log[tp].low
            /\ marks[tp].high \in before[tp].high .. log[tp].high
    <3>1. \A tp \in wanted : /\ marks[tp] \in Watermarks /\ tp \in TopicPartitions
                             /\ Kept(tp) => /\ Grown(before[tp], marks[tp])
                                            /\ Grown(marks[tp], log[tp])
      BY <1>1 DEF ReadsInv, ReadsTypeOK, MarksAreReal, Reading
    <3>2. \A tp \in TopicPartitions : before[tp] \in Watermarks /\ log[tp] \in Watermarks
      BY DEF ReadsInv, ReadsTypeOK
    <3> QED BY <3>1, <3>2 DEF Grown, Watermarks
  <2>2. ask = "count" =>
            /\ MessageCount \in Nat
            /\ (\A tp \in wanted : Kept(tp)) =>
                   MessageCount \in Messages(log, before) .. Messages(before, log)
    BY <1>1, CountIsReal DEF Reading
  <2>3. UNCHANGED <<Messages(log, before), Messages(before, log)>>
    BY <1>1, <1>2 DEF Messages
  <2> QED BY <2>1, <2>2, <2>3, <1>1, <1>2 DEF CountWasReal, Answered, Kept
<1>6. RowsInv'
  <2>1. ask = "lag" => OwnersAreRight(owners) /\ DOMAIN owners = wanted
    BY <1>1 DEF ReadsInv, RowsInv, CommittedFirst, Reading
  <2>2. ask = "lag" => /\ DOMAIN answer' = DOMAIN owners
                       /\ \A tp \in DOMAIN owners : answer'[tp].client_id = owners[tp]
    BY <2>1, <1>1 DEF LagRows
  <2>3. UNCHANGED <<Assigned, Whole>>
    BY <1>2 DEF Assigned, Whole
  <2>4. RowsAreTheAssignment'
    BY <2>1, <2>2, <2>3, <1>1, <1>2
       DEF RowsAreTheAssignment, Answered, OwnersAreRight, Whole
  <2> QED BY <2>4, <1>1 DEF RowsInv
<1> QED BY <1>3, <1>4, <1>5, <1>6 DEF ReadsInv
-----------------------------------------------------------------------------
\* Every step keeps the numbers and the rows.
LEMMA ReadsStep ==
    ReadsInv /\ RowsInv /\ [ReadsNext]_readVars => ReadsInv' /\ RowsInv'
PROOF
<1> SUFFICES ASSUME ReadsInv, RowsInv, [ReadsNext]_readVars PROVE ReadsInv' /\ RowsInv'
  OBVIOUS
<1>1. CASE \/ \E tp \in TopicPartitions : Produce(tp) \/ Expire(tp) \/ Commit(tp)
           \/ \E topic \in Topics : Recreate(topic)
  BY <1>1, ClusterKeeps
<1>2. CASE \E tp \in TopicPartitions : FetchWatermarks(tp)
  BY <1>2, WatermarksKeep
<1>3. CASE FetchGroupList
  BY <1>3, ListingKeeps
<1>4. CASE FetchCommitted
  BY <1>4, CommittedKeeps
<1>5. CASE FetchMetadata
  BY <1>5, MetadataKeeps
<1>6. CASE Answer
  BY <1>6, AnswerKeeps
<1>7. CASE ReadFails
  BY <1>7, FailureKeeps
<1>8. CASE UNCHANGED readVars
  <2>1. UNCHANGED <<log, offsets, group, ask, step, owners, committed, wanted, marks,
                    answer, before, recreated>>
    BY <1>8 DEF readVars, clusterVars, requestVars, historyVars
  <2>2. ReadsTypeOK' /\ LogsGrow' /\ MarksAreReal' /\ CommittedFirst'
    BY <2>1 DEF ReadsInv, ReadsTypeOK, LogsGrow, MarksAreReal, CommittedFirst, Reading, Kept
  <2>3. UNCHANGED <<Assigned, Whole, Messages(log, before), Messages(before, log)>>
    BY <2>1 DEF Assigned, Whole, Messages
  <2>4. LagWasReal' /\ CountWasReal'
    BY <2>1, <2>3 DEF ReadsInv, LagWasReal, CountWasReal, Answered
  <2>5. RowsInv'
    BY <2>1, <2>3 DEF RowsInv, RowsAreTheAssignment, OwnersAreRight, Answered, Whole
  <2> QED BY <2>2, <2>4, <2>5 DEF ReadsInv
<1> QED BY <1>1, <1>2, <1>3, <1>4, <1>5, <1>6, <1>7, <1>8 DEF ReadsNext

\* What the panels show of offsets was so while it was being read, for any
\* partitions, members and events: the rows of a consumer group are those of
\* the assignments that arrived whole, its lag is one it had and never
\* negative, and so with the number of a topic's messages.
THEOREM ReadsAreReal == ReadsSpec => []ReadsInvariant
PROOF
<1>1. ReadsInv /\ RowsInv => ReadsInvariant
  BY DEF ReadsInv, RowsInv, ReadsInvariant
<1> QED BY <1>1, ReadsInitInv, ReadsStep, PTL DEF ReadsSpec
=============================================================================
