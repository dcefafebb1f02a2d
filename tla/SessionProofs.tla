---------------------------- MODULE SessionProofs ----------------------------
(***************************************************************************)
(* What Session promises for every number of connections, topics, request  *)
(* slots, fetches and edits, and every MAX_AUTH_ATTEMPTS.                  *)
(*                                                                         *)
(* The handlers differ, but what matters of the steps a command still has  *)
(* ahead of it is little: that it has asked the breaker before it can be   *)
(* charged (Before), that it never takes a client before it has loaded its *)
(* settings, and that a fetch has not forgotten to unregister (Good).      *)
(* Each action is then shown to be an Effect: it leaves one record Good,   *)
(* balances the breaker's books and keeps each fetch's owner.  IInv then   *)
(* follows by induction, and the theorems at the end from IInv, two of     *)
(* them by an induction of their own on top of it (AllFresh, Books).       *)
(***************************************************************************)
EXTENDS Session, TLAPS, SequenceTheorems, FiniteSetTheorems

(* Lists of steps. *)

\* x may come before y in the list of a command: nothing that a command does
\* with a row or a client comes before the breaker and the row, there is one
\* broker call or charge ahead of it at most, and a fetch is owned first.
Before(x, y) ==
    /\ y \in {"gate", "load"} =>
          x \in {"own", "begin", "gate", "forget_failures", "clear_denials"}
    /\ y \in {"call", "bump"} => x \notin {"call", "bump"}
    /\ y # "own"
    /\ x \in {"finish_flag", "bump"} => y \notin {"finish_flag", "call"}

\* Any two steps of the list are in the order Before allows.
InOrder(list) ==
    \A i, j \in DOMAIN list : i < j => Before(list[i], list[j])

\* A command that takes its next step keeps a well-formed list: nothing is
\* added, only the head is gone, and everything left could follow it.
LEMMA TailLemma ==
    ASSUME NEW s \in Seq(Steps), s # <<>>
    PROVE  /\ Tail(s) \in Seq(Steps)
           /\ \A x : Has(Tail(s), x) => Has(s, x)
           /\ \A x : Has(s, x) => x = Head(s) \/ Has(Tail(s), x)
           /\ InOrder(s) => InOrder(Tail(s))
           /\ InOrder(s) => \A y : Has(Tail(s), y) => Before(Head(s), y)
<1>1. /\ Tail(s) \in Seq(Steps)
      /\ Len(Tail(s)) = Len(s) - 1
      /\ \A i \in 1 .. Len(Tail(s)) : Tail(s)[i] = s[i + 1]
      /\ Len(s) \in Nat \ {0}
      /\ Head(s) = s[1]
  OBVIOUS
<1>2. DOMAIN s = 1 .. Len(s) /\ DOMAIN Tail(s) = 1 .. Len(Tail(s))
  BY <1>1
<1>3. ASSUME NEW x, Has(Tail(s), x) PROVE Has(s, x)
  BY <1>1, <1>2, <1>3 DEF Has
<1>4. ASSUME NEW x, Has(s, x) PROVE x = Head(s) \/ Has(Tail(s), x)
  <2>1. PICK i \in 1 .. Len(s) : s[i] = x
    BY <1>2, <1>4 DEF Has
  <2>2. CASE i = 1
    BY <1>1, <2>1, <2>2
  <2>3. CASE i # 1
    <3>1. i - 1 \in 1 .. Len(Tail(s)) /\ Tail(s)[i - 1] = x
      BY <1>1, <2>1, <2>3
    <3>2. QED
      BY <3>1, <1>2 DEF Has
  <2>4. QED
    BY <2>2, <2>3
<1>5. ASSUME InOrder(s) PROVE InOrder(Tail(s))
  <2>1. SUFFICES ASSUME NEW i \in 1 .. Len(Tail(s)), NEW j \in 1 .. Len(Tail(s)),
                        i < j
                 PROVE  Before(Tail(s)[i], Tail(s)[j])
    BY <1>2 DEF InOrder
  <2>2. i + 1 \in 1 .. Len(s) /\ j + 1 \in 1 .. Len(s) /\ i + 1 < j + 1
    BY <1>1, <2>1
  <2>3. Before(s[i + 1], s[j + 1])
    BY <1>2, <1>5, <2>2 DEF InOrder
  <2>4. QED
    BY <1>1, <2>1, <2>3
<1>6. ASSUME InOrder(s), NEW y, Has(Tail(s), y) PROVE Before(Head(s), y)
  <2>1. PICK j \in 1 .. Len(Tail(s)) : Tail(s)[j] = y
    BY <1>2, <1>6 DEF Has
  <2>2. 1 \in 1 .. Len(s) /\ j + 1 \in 1 .. Len(s) /\ 1 < j + 1 /\ s[j + 1] = y
    BY <1>1, <2>1
  <2>3. QED
    BY <1>1, <1>2, <1>6, <2>2 DEF InOrder
<1>7. QED
  BY <1>1, <1>3, <1>4, <1>5, <1>6

\* The steps of two lists put together are those of either, in order when
\* everything in the second may follow everything in the first.
LEMMA ConcatLemma ==
    ASSUME NEW s \in Seq(Steps), NEW t \in Seq(Steps)
    PROVE  /\ s \o t \in Seq(Steps)
           /\ \A x : Has(s \o t, x) <=> Has(s, x) \/ Has(t, x)
           /\ /\ InOrder(s) /\ InOrder(t)
              /\ \A x, y : Has(s, x) /\ Has(t, y) => Before(x, y)
              => InOrder(s \o t)
<1>1. /\ s \o t \in Seq(Steps)
      /\ Len(s) \in Nat /\ Len(t) \in Nat
      /\ Len(s \o t) = Len(s) + Len(t)
      /\ \A i \in 1 .. Len(s) + Len(t) :
            (s \o t)[i] = IF i <= Len(s) THEN s[i] ELSE t[i - Len(s)]
  BY ConcatProperties
<1>2. /\ DOMAIN s = 1 .. Len(s) /\ DOMAIN t = 1 .. Len(t)
      /\ DOMAIN (s \o t) = 1 .. Len(s) + Len(t)
  BY <1>1
<1>3. ASSUME NEW x, Has(s \o t, x) PROVE Has(s, x) \/ Has(t, x)
  <2>1. PICK i \in 1 .. Len(s) + Len(t) : (s \o t)[i] = x
    BY <1>2, <1>3 DEF Has
  <2>2. CASE i <= Len(s)
    BY <1>1, <1>2, <2>1, <2>2 DEF Has
  <2>3. CASE i > Len(s)
    <3>1. i - Len(s) \in 1 .. Len(t) /\ t[i - Len(s)] = x
      BY <1>1, <2>1, <2>3
    <3>2. QED
      BY <3>1, <1>2 DEF Has
  <2>4. QED
    BY <1>1, <2>2, <2>3
<1>4. ASSUME NEW x, Has(s, x) PROVE Has(s \o t, x)
  BY <1>1, <1>2, <1>4 DEF Has
<1>5. ASSUME NEW x, Has(t, x) PROVE Has(s \o t, x)
  <2>1. PICK i \in 1 .. Len(t) : t[i] = x
    BY <1>2, <1>5 DEF Has
  <2>2. i + Len(s) \in 1 .. Len(s) + Len(t) /\ (s \o t)[i + Len(s)] = x
    BY <1>1, <2>1
  <2>3. QED
    BY <1>2, <2>2 DEF Has
<1>6. ASSUME InOrder(s), InOrder(t),
             \A x, y : Has(s, x) /\ Has(t, y) => Before(x, y),
             NEW i \in 1 .. Len(s) + Len(t), NEW j \in 1 .. Len(s) + Len(t),
             i < j
      PROVE  Before((s \o t)[i], (s \o t)[j])
  <2>1. CASE j <= Len(s)
    <3>1. i \in DOMAIN s /\ j \in DOMAIN s
      BY <1>1, <1>2, <1>6, <2>1
    <3>2. Before(s[i], s[j])
      BY <3>1, <1>6 DEF InOrder
    <3>3. QED
      BY <3>2, <1>1, <1>6, <2>1
  <2>2. CASE i > Len(s)
    <3>1. /\ i - Len(s) \in DOMAIN t /\ j - Len(s) \in DOMAIN t
          /\ i - Len(s) < j - Len(s)
      BY <1>1, <1>2, <1>6, <2>2
    <3>2. Before(t[i - Len(s)], t[j - Len(s)])
      BY <3>1, <1>6 DEF InOrder
    <3>3. QED
      BY <3>2, <1>1, <1>6, <2>2
  <2>3. CASE i <= Len(s) /\ j > Len(s)
    <3>1. i \in DOMAIN s /\ j - Len(s) \in DOMAIN t
      BY <1>1, <1>2, <1>6, <2>3
    <3>2. Has(s, s[i]) /\ Has(t, t[j - Len(s)])
      BY <3>1 DEF Has
    <3>3. QED
      BY <3>2, <1>1, <1>6, <2>3
  <2>4. QED
    BY <1>1, <1>6, <2>1, <2>2, <2>3
<1>7. QED
  BY <1>1, <1>2, <1>3, <1>4, <1>5, <1>6 DEF InOrder

\* A list of one step holds that step and is in order.
LEMMA OneStep ==
    ASSUME NEW a \in Steps
    PROVE  /\ <<a>> \in Seq(Steps)
           /\ \A x : Has(<<a>>, x) <=> x = a
           /\ InOrder(<<a>>)
<1>1. <<a>> \in Seq(Steps) /\ DOMAIN <<a>> = {1} /\ <<a>>[1] = a
  OBVIOUS
<1>2. InOrder(<<a>>)
  BY <1>1 DEF InOrder
<1>3. \A x : Has(<<a>>, x) <=> x = a
  BY <1>1 DEF Has
<1>4. QED
  BY <1>1, <1>2, <1>3

\* A list of two steps holds those steps and is in order.
LEMMA TwoSteps ==
    ASSUME NEW a \in Steps, NEW b \in Steps, Before(a, b)
    PROVE  /\ <<a, b>> \in Seq(Steps)
           /\ \A x : Has(<<a, b>>, x) <=> x = a \/ x = b
           /\ InOrder(<<a, b>>)
<1>1. /\ <<a, b>> \in Seq(Steps)
      /\ DOMAIN <<a, b>> = {1, 2}
      /\ <<a, b>>[1] = a /\ <<a, b>>[2] = b
  OBVIOUS
<1>2. ASSUME NEW i \in {1, 2}, NEW j \in {1, 2}, i < j
      PROVE  Before(<<a, b>>[i], <<a, b>>[j])
  <2>1. i = 1 /\ j = 2
    BY <1>2
  <2>2. QED
    BY <1>1, <2>1
<1>3. InOrder(<<a, b>>)
  BY <1>1, <1>2 DEF InOrder
<1>4. \A x : Has(<<a, b>>, x) <=> x = a \/ x = b
  BY <1>1 DEF Has
<1>5. QED
  BY <1>1, <1>3, <1>4

\* A handler with nothing left to do has no step ahead of it.
LEMMA NoSteps ==
    /\ <<>> \in Seq(Steps)
    /\ \A x : ~Has(<<>>, x)
    /\ InOrder(<<>>)
  BY DEF Has, InOrder

\* What each of the sequences the handlers are built from consists of: the
\* gate and the row, the two releases, the two locks of clear_auth_failures,
\* those of mark_disconnected and those of finish.
LEMMA Blocks ==
    /\ ForRequest \in Seq(Steps) /\ InOrder(ForRequest)
    /\ \A x : Has(ForRequest, x) <=> x \in {"gate", "load"}
    /\ ReleaseKafka \in Seq(Steps) /\ InOrder(ReleaseKafka)
    /\ \A x : Has(ReleaseKafka, x)
                 <=> x \in {"release_metadata", "release_admin"}
    /\ ClearFailures \in Seq(Steps) /\ InOrder(ClearFailures)
    /\ \A x : Has(ClearFailures, x)
                 <=> x \in {"forget_failures", "clear_denials"}
    /\ MarkDisconnected \in Seq(Steps) /\ InOrder(MarkDisconnected)
    /\ \A x : Has(MarkDisconnected, x)
                 <=> x \in {"remove_connected", "clear_denials"}
    /\ FinishFetch \in Seq(Steps) /\ InOrder(FinishFetch)
    /\ \A x : Has(FinishFetch, x) <=> x \in {"finish_flag", "finish_owner"}
<1>1. /\ Before("gate", "load")
      /\ Before("release_metadata", "release_admin")
      /\ Before("forget_failures", "clear_denials")
      /\ Before("remove_connected", "clear_denials")
      /\ Before("finish_flag", "finish_owner")
  BY DEF Before
<1>2. {"gate", "load", "release_metadata", "release_admin", "forget_failures",
       "clear_denials", "remove_connected", "finish_flag", "finish_owner"}
         \subseteq Steps
  BY DEF Steps
<1>3. ForRequest \in Seq(Steps) /\ InOrder(ForRequest)
      /\ \A x : Has(ForRequest, x) <=> x \in {"gate", "load"}
  BY <1>1, <1>2, TwoSteps DEF ForRequest
<1>4. ReleaseKafka \in Seq(Steps) /\ InOrder(ReleaseKafka)
      /\ \A x : Has(ReleaseKafka, x)
                   <=> x \in {"release_metadata", "release_admin"}
  BY <1>1, <1>2, TwoSteps DEF ReleaseKafka
<1>5. ClearFailures \in Seq(Steps) /\ InOrder(ClearFailures)
      /\ \A x : Has(ClearFailures, x)
                   <=> x \in {"forget_failures", "clear_denials"}
  BY <1>1, <1>2, TwoSteps DEF ClearFailures
<1>6. MarkDisconnected \in Seq(Steps) /\ InOrder(MarkDisconnected)
      /\ \A x : Has(MarkDisconnected, x)
                   <=> x \in {"remove_connected", "clear_denials"}
  BY <1>1, <1>2, TwoSteps DEF MarkDisconnected
<1>7. FinishFetch \in Seq(Steps) /\ InOrder(FinishFetch)
      /\ \A x : Has(FinishFetch, x) <=> x \in {"finish_flag", "finish_owner"}
  BY <1>1, <1>2, TwoSteps DEF FinishFetch
<1>8. QED
  BY <1>3, <1>4, <1>5, <1>6, <1>7

\* What a command may still do once it knows how its call has ended.
ClosingSteps ==
    {"forget_failures", "clear_denials", "bump", "release_metadata",
     "release_admin", "insert_connected", "finish_flag", "finish_owner",
     "insert_denial"}

\* A list the command cmd can end with.
Closing(list, cmd) ==
    /\ list \in Seq(Steps) /\ InOrder(list)
    /\ \A x : Has(list, x) => x \in ClosingSteps
    /\ \A x \in {"finish_flag", "finish_owner"} : Has(list, x) => cmd = "fetch"
    /\ cmd = "fetch" => Has(list, "finish_owner")
    /\ Has(list, "insert_denial") => cmd = "publish"

\* What record_auth_outcome does about a rejection: it charges the
\* connection once and releases its Kafka clients.
LEMMA Rejection ==
    LET list == <<"bump">> \o ReleaseKafka
    IN  /\ list \in Seq(Steps) /\ InOrder(list)
        /\ \A x : Has(list, x)
                     <=> x \in {"bump", "release_metadata", "release_admin"}
<1> DEFINE one == <<"bump">>
           list == one \o ReleaseKafka
<1>1. /\ one \in Seq(Steps) /\ InOrder(one)
      /\ \A x : Has(one, x) <=> x = "bump"
  <2>1. "bump" \in Steps
    BY DEF Steps
  <2>2. QED
    BY <2>1, OneStep
<1> HIDE DEF one
<1>2. \A x, y : Has(one, x) /\ Has(ReleaseKafka, y) => Before(x, y)
  BY <1>1, Blocks DEF Before
<1>3. /\ list \in Seq(Steps) /\ InOrder(list)
      /\ \A x : Has(list, x) <=> Has(one, x) \/ Has(ReleaseKafka, x)
  BY <1>1, <1>2, Blocks, ConcatLemma
<1>4. \A x : Has(list, x)
                <=> x \in {"bump", "release_metadata", "release_admin"}
  BY <1>1, <1>3, Blocks
<1>5. QED
  BY <1>3, <1>4 DEF one

\* record_auth_outcome and record_auth_success_only only ever do what a
\* command may do at its end, and charge nothing for a failed call.
LEMMA Outcomes ==
    ASSUME NEW outcome \in {"accepted", "rejected", "failed"}
    PROVE  LET a == RecordAuthOutcome(outcome)
               b == RecordAuthSuccessOnly(outcome)
           IN  /\ a \in Seq(Steps) /\ InOrder(a)
               /\ \A x : Has(a, x) => x \in {"forget_failures", "clear_denials",
                            "bump", "release_metadata", "release_admin"}
               /\ outcome = "failed" => ~Has(a, "bump")
               /\ b \in Seq(Steps) /\ InOrder(b)
               /\ \A x : Has(b, x) => x \in {"forget_failures", "clear_denials",
                            "release_metadata", "release_admin"}
<1>1. CASE outcome = "accepted"
  <2>1. /\ RecordAuthOutcome(outcome) = ClearFailures
        /\ RecordAuthSuccessOnly(outcome) = ClearFailures
    BY <1>1 DEF RecordAuthOutcome, RecordAuthSuccessOnly
  <2>2. QED
    BY <1>1, <2>1, Blocks
<1>2. CASE outcome = "rejected"
  <2>1. /\ RecordAuthOutcome(outcome) = <<"bump">> \o ReleaseKafka
        /\ RecordAuthSuccessOnly(outcome) = ReleaseKafka
    BY <1>2 DEF RecordAuthOutcome, RecordAuthSuccessOnly
  <2>2. QED
    BY <1>2, <2>1, Blocks, Rejection
<1>3. CASE outcome = "failed"
  <2>1. RecordAuthOutcome(outcome) = <<>> /\ RecordAuthSuccessOnly(outcome) = <<>>
    BY <1>3 DEF RecordAuthOutcome, RecordAuthSuccessOnly
  <2>2. QED
    BY <2>1, NoSteps
<1>4. QED
  BY <1>1, <1>2, <1>3

\* After its broker call a command only does what belongs at its end, and
\* a fetch always unregisters itself.
LEMMA CallCloses ==
    ASSUME NEW cmd \in CommandNames,
           NEW outcome \in {"accepted", "rejected", "failed"}
    PROVE  /\ Closing(AfterCall(cmd, outcome), cmd)
           /\ outcome = "failed" => ~Has(AfterCall(cmd, outcome), "bump")
<1> DEFINE a == RecordAuthOutcome(outcome)
           list == AfterCall(cmd, outcome)
           Usual == {"forget_failures", "clear_denials", "bump",
                     "release_metadata", "release_admin", "insert_connected"}
<1>1. /\ a \in Seq(Steps) /\ InOrder(a)
      /\ \A x : Has(a, x) => x \in Usual
      /\ outcome = "failed" => ~Has(a, "bump")
  BY Outcomes
<1>2. CASE cmd = "connect" /\ outcome = "accepted"
  <2> DEFINE one == <<"insert_connected">>
  <2>1. list = ClearFailures \o one
    BY <1>2 DEF AfterCall
  <2>2. /\ one \in Seq(Steps) /\ InOrder(one)
        /\ \A x : Has(one, x) <=> x = "insert_connected"
    <3>1. "insert_connected" \in Steps
      BY DEF Steps
    <3>2. QED
      BY <3>1, OneStep
  <2> HIDE DEF one, list
  <2>3. \A x, y : Has(ClearFailures, x) /\ Has(one, y) => Before(x, y)
    BY <2>2 DEF Before
  <2>4. /\ list \in Seq(Steps) /\ InOrder(list)
        /\ \A x : Has(list, x) <=> Has(ClearFailures, x) \/ Has(one, x)
    BY <2>1, <2>2, <2>3, Blocks, ConcatLemma
  <2>5. \A x : Has(list, x) => x \in Usual \ {"bump"}
    BY <2>2, <2>4, Blocks
  <2>6. QED
    BY <1>2, <2>4, <2>5 DEF Closing, ClosingSteps, list
<1>3. CASE cmd = "connect" /\ outcome # "accepted"
  <2>1. list = ReleaseKafka \o a
    BY <1>3 DEF AfterCall
  <2> HIDE DEF a
  <2>2. \A x, y : Has(ReleaseKafka, x) /\ Has(a, y) => Before(x, y)
    BY <1>1, Blocks DEF Before
  <2>3. /\ list \in Seq(Steps) /\ InOrder(list)
        /\ \A x : Has(list, x) <=> Has(ReleaseKafka, x) \/ Has(a, x)
    BY <1>1, <2>1, <2>2, Blocks, ConcatLemma
  <2>4. /\ \A x : Has(list, x) => x \in Usual
        /\ outcome = "failed" => ~Has(list, "bump")
    BY <1>1, <2>3, Blocks
  <2>5. QED
    BY <1>3, <2>3, <2>4 DEF Closing, ClosingSteps
<1>4. CASE cmd = "groups"
  <2>1. list = RecordAuthSuccessOnly(outcome)
    BY <1>4 DEF AfterCall
  <2>2. /\ list \in Seq(Steps) /\ InOrder(list)
        /\ \A x : Has(list, x) => x \in Usual \ {"bump"}
    BY <2>1, Outcomes
  <2>3. QED
    BY <1>4, <2>2 DEF Closing, ClosingSteps
<1>5. CASE cmd = "fetch"
  <2>1. list = FinishFetch \o a
    BY <1>5 DEF AfterCall
  <2> HIDE DEF a
  <2>2. \A x, y : Has(FinishFetch, x) /\ Has(a, y) => Before(x, y)
    BY <1>1, Blocks DEF Before
  <2>3. /\ list \in Seq(Steps) /\ InOrder(list)
        /\ \A x : Has(list, x) <=> Has(FinishFetch, x) \/ Has(a, x)
    BY <1>1, <2>1, <2>2, Blocks, ConcatLemma
  <2>4. /\ \A x : Has(list, x)
                     => x \in Usual \union {"finish_flag", "finish_owner"}
        /\ Has(list, "finish_owner")
        /\ outcome = "failed" => ~Has(list, "bump")
    BY <1>1, <2>3, Blocks
  <2>5. QED
    BY <1>5, <2>3, <2>4 DEF Closing, ClosingSteps
<1>6. CASE cmd \notin {"connect", "groups", "fetch"}
  <2>1. list = a
    BY <1>6 DEF AfterCall
  <2> HIDE DEF a, list
  <2>2. QED
    BY <1>1, <1>6, <2>1 DEF Closing, ClosingSteps, list
<1>7. QED
  BY <1>2, <1>3, <1>4, <1>5, <1>6

\* An early return only does what belongs at a command's end, and charges
\* nothing.
LEMMA ErrorCloses ==
    ASSUME NEW cmd \in CommandNames
    PROVE  Closing(AfterError(cmd), cmd) /\ ~Has(AfterError(cmd), "bump")
<1>1. CASE cmd = "fetch"
  <2>1. AfterError(cmd) = FinishFetch
    BY <1>1 DEF AfterError
  <2>2. \A x : Has(FinishFetch, x) => x \in ClosingSteps \ {"bump", "insert_denial"}
    BY Blocks DEF ClosingSteps
  <2>3. QED
    BY <1>1, <2>1, <2>2, Blocks DEF Closing
<1>2. CASE cmd # "fetch"
  <2>1. AfterError(cmd) = <<>>
    BY <1>2 DEF AfterError
  <2>2. QED
    BY <1>2, <2>1, NoSteps DEF Closing, ClosingSteps
<1>3. QED
  BY <1>1, <1>2

\* After the producer has run a publish only does what belongs at its end.
LEMMA PublishCloses ==
    ASSUME NEW delivered \in BOOLEAN,
           NEW failure \in {"none", "authorization", "authentication", "other",
                            "not_sent"}
    PROVE  Closing(AfterPublish(delivered, failure), "publish")
<1> DEFINE a == IF delivered THEN ClearFailures ELSE <<>>
           b == CASE failure = "authorization"  -> <<"insert_denial">>
                  [] failure = "authentication" -> <<"bump">> \o ReleaseKafka
                  [] OTHER -> <<>>
<1>1. /\ a \in Seq(Steps) /\ InOrder(a)
      /\ \A x : Has(a, x) => x \in {"forget_failures", "clear_denials"}
  BY Blocks, NoSteps
<1>2. "insert_denial" \in Steps
  BY DEF Steps
<1>3. /\ b \in Seq(Steps) /\ InOrder(b)
      /\ \A x : Has(b, x) => x \in {"insert_denial", "bump",
                                    "release_metadata", "release_admin"}
  <2>1. CASE failure = "authorization"
    BY <1>2, <2>1, OneStep
  <2>2. CASE failure = "authentication"
    BY <2>2, Rejection
  <2>3. CASE failure \notin {"authorization", "authentication"}
    BY <2>3, NoSteps
  <2>4. QED
    BY <2>1, <2>2, <2>3
<1>4. \A x, y : Has(a, x) /\ Has(b, y) => Before(x, y)
  BY <1>1, <1>3 DEF Before
<1>5. AfterPublish(delivered, failure) = a \o b
  BY DEF AfterPublish
<1>6. /\ a \o b \in Seq(Steps) /\ InOrder(a \o b)
      /\ \A x : Has(a \o b, x) <=> Has(a, x) \/ Has(b, x)
  <2> HIDE DEF a, b
  <2>1. QED
    BY <1>1, <1>3, <1>4, ConcatLemma
<1>7. \A x : Has(a \o b, x) => x \in ClosingSteps \ {"finish_flag", "finish_owner"}
  <2> HIDE DEF a, b
  <2>1. QED
    BY <1>1, <1>3, <1>6 DEF ClosingSteps
<1>8. QED
  <2> HIDE DEF a, b
  <2>1. QED
    BY <1>5, <1>6, <1>7 DEF Closing

\* A list of three steps holds those steps and is in order.
LEMMA ThreeSteps ==
    ASSUME NEW a \in Steps, NEW b \in Steps, NEW c \in Steps,
           Before(a, b), Before(a, c), Before(b, c)
    PROVE  /\ <<a, b, c>> \in Seq(Steps)
           /\ \A x : Has(<<a, b, c>>, x) <=> x = a \/ x = b \/ x = c
           /\ InOrder(<<a, b, c>>)
<1>1. /\ <<a, b, c>> \in Seq(Steps)
      /\ DOMAIN <<a, b, c>> = {1, 2, 3}
      /\ <<a, b, c>>[1] = a /\ <<a, b, c>>[2] = b /\ <<a, b, c>>[3] = c
  OBVIOUS
<1>2. ASSUME NEW i \in {1, 2, 3}, NEW j \in {1, 2, 3}, i < j
      PROVE  Before(<<a, b, c>>[i], <<a, b, c>>[j])
  <2>1. \/ i = 1 /\ j = 2
        \/ i = 1 /\ j = 3
        \/ i = 2 /\ j = 3
    BY <1>2
  <2>2. QED
    BY <1>1, <2>1
<1>3. InOrder(<<a, b, c>>)
  BY <1>1, <1>2 DEF InOrder
<1>4. \A x : Has(<<a, b, c>>, x) <=> x = a \/ x = b \/ x = c
  BY <1>1 DEF Has
<1>5. QED
  BY <1>1, <1>3, <1>4

\* A list whose steps may follow any other.
Plain(list) ==
    /\ list \in Seq(Steps) /\ InOrder(list)
    /\ \A x : Has(list, x) => x \notin {"gate", "load", "call", "bump", "own",
                                       "finish_flag"}

\* A list of plain steps may follow any list.
LEMMA PlainFollows ==
    ASSUME NEW s \in Seq(Steps), InOrder(s), NEW t, Plain(t)
    PROVE  /\ s \o t \in Seq(Steps) /\ InOrder(s \o t)
           /\ \A x : Has(s \o t, x) <=> Has(s, x) \/ Has(t, x)
<1>1. \A x, y : Has(s, x) /\ Has(t, y) => Before(x, y)
  BY DEF Plain, Before
<1>2. QED
  BY <1>1, ConcatLemma DEF Plain

\* A list the command cmd can start with.
Opening(list, cmd) ==
    /\ list \in Seq(Steps) /\ InOrder(list) /\ list # <<>>
    /\ ~Has(list, "bump") /\ ~Has(list, "insert_denial")
    /\ Has(list, "call") => Has(list, "gate")
    /\ \A x \in {"own", "begin", "finish_flag", "finish_owner"} :
          Has(list, x) => cmd = "fetch"
    /\ cmd = "fetch" => Has(list, "call")

\* connection_for_request and the question asked of the metadata client:
\* what they consist of.
LEMMA MetadataRequests ==
    /\ MetadataRequest \in Seq(Steps) /\ InOrder(MetadataRequest)
    /\ \A x : Has(MetadataRequest, x)
                 <=> x \in {"gate", "load", "take_metadata", "call"}
<1> DEFINE two == <<"take_metadata", "call">>
<1>1. /\ two \in Seq(Steps) /\ InOrder(two)
      /\ \A x : Has(two, x) <=> x = "take_metadata" \/ x = "call"
  <2>1. {"take_metadata", "call"} \subseteq Steps /\ Before("take_metadata", "call")
    BY DEF Steps, Before
  <2>2. QED
    BY <2>1, TwoSteps
<1>2. MetadataRequest = ForRequest \o two
  BY DEF MetadataRequest
<1> HIDE DEF two
<1>3. \A x, y : Has(ForRequest, x) /\ Has(two, y) => Before(x, y)
  BY <1>1, Blocks DEF Before
<1>4. /\ MetadataRequest \in Seq(Steps) /\ InOrder(MetadataRequest)
      /\ \A x : Has(MetadataRequest, x) <=> Has(ForRequest, x) \/ Has(two, x)
  BY <1>1, <1>2, <1>3, Blocks, ConcatLemma
<1>5. QED
  BY <1>1, <1>4, Blocks

\* Every handler that changes or deletes a connection may end by
\* releasing its three clients.
LEMMA ReleasesEnd ==
    ASSUME NEW s \in Seq(Steps), InOrder(s)
    PROVE  LET list == s \o ReleaseKafka \o <<"release_schema">>
           IN  /\ list \in Seq(Steps) /\ InOrder(list)
               /\ \A x : Has(list, x) <=>
                     Has(s, x) \/ x \in {"release_metadata", "release_admin",
                                         "release_schema"}
<1> DEFINE one == <<"release_schema">>
           most == s \o ReleaseKafka
<1>1. /\ one \in Seq(Steps) /\ InOrder(one)
      /\ \A x : Has(one, x) <=> x = "release_schema"
  <2>1. "release_schema" \in Steps
    BY DEF Steps
  <2>2. QED
    BY <2>1, OneStep
<1> HIDE DEF one
<1>2. /\ most \in Seq(Steps) /\ InOrder(most)
      /\ \A x : Has(most, x) <=> Has(s, x) \/ Has(ReleaseKafka, x)
  <2>1. Plain(ReleaseKafka)
    BY Blocks DEF Plain
  <2>2. QED
    BY <2>1, PlainFollows
<1> HIDE DEF most
<1>3. /\ most \o one \in Seq(Steps) /\ InOrder(most \o one)
      /\ \A x : Has(most \o one, x) <=> Has(most, x) \/ Has(one, x)
  <2>1. Plain(one)
    BY <1>1 DEF Plain
  <2>2. QED
    BY <1>2, <2>1, PlainFollows
<1>4. \A x : Has(most \o one, x) <=>
         Has(s, x) \/ x \in {"release_metadata", "release_admin",
                             "release_schema"}
  BY <1>1, <1>2, <1>3, Blocks
<1>5. QED
  BY <1>3, <1>4 DEF most, one

\* Every handler starts with a list its command may start with: nothing
\* is charged before the breaker has been asked.
LEMMA HandlersOpen ==
    ASSUME NEW cmd \in CommandNames
    PROVE  Opening(Handler[cmd], cmd)
<1> DEFINE list == Handler[cmd]
<1> USE DEF Before
<1>1. CASE cmd = "connect"
  <2>1. list = ClearFailures \o MetadataRequest
    BY <1>1 DEF Handler, connection_connect
  <2> HIDE DEF list
  <2>2. \A x, y : Has(ClearFailures, x) /\ Has(MetadataRequest, y) => Before(x, y)
    BY Blocks, MetadataRequests
  <2>3. /\ list \in Seq(Steps) /\ InOrder(list)
        /\ \A x : Has(list, x) <=> Has(ClearFailures, x) \/ Has(MetadataRequest, x)
    BY <2>1, <2>2, Blocks, MetadataRequests, ConcatLemma
  <2>4. \A x : Has(list, x) <=> x \in {"forget_failures", "clear_denials",
                                       "gate", "load", "take_metadata", "call"}
    BY <2>3, Blocks, MetadataRequests
  <2>5. list # <<>>
    BY <2>4, NoSteps
  <2>6. QED
    BY <1>1, <2>3, <2>4, <2>5 DEF Opening, list
<1>2. CASE cmd = "fetch"
  <2> DEFINE two == <<"own", "begin">>
  <2>1. list = two \o MetadataRequest
    BY <1>2 DEF Handler, connection_fetch_messages
  <2>2. /\ two \in Seq(Steps) /\ InOrder(two)
        /\ \A x : Has(two, x) <=> x = "own" \/ x = "begin"
    <3>1. {"own", "begin"} \subseteq Steps /\ Before("own", "begin")
      BY DEF Steps
    <3>2. QED
      BY <3>1, TwoSteps
  <2> HIDE DEF list, two
  <2>3. \A x, y : Has(two, x) /\ Has(MetadataRequest, y) => Before(x, y)
    BY <2>2, MetadataRequests
  <2>4. /\ list \in Seq(Steps) /\ InOrder(list)
        /\ \A x : Has(list, x) <=> Has(two, x) \/ Has(MetadataRequest, x)
    BY <2>1, <2>2, <2>3, MetadataRequests, ConcatLemma
  <2>5. \A x : Has(list, x) <=> x \in {"own", "begin", "gate", "load",
                                       "take_metadata", "call"}
    BY <2>2, <2>4, MetadataRequests
  <2>6. list # <<>>
    BY <2>5, NoSteps
  <2>7. QED
    BY <1>2, <2>4, <2>5, <2>6 DEF Opening, list
<1>3. CASE cmd \in {"list", "groups"}
  <2>1. list = MetadataRequest
    <3>1. Handler["list"] = MetadataRequest /\ Handler["groups"] = MetadataRequest
      BY DEF Handler, connection_list, connection_list_consumer_groups
    <3>2. QED
      BY <1>3, <3>1
  <2> HIDE DEF list
  <2>2. /\ list \in Seq(Steps) /\ InOrder(list)
        /\ \A x : Has(list, x)
                     <=> x \in {"gate", "load", "take_metadata", "call"}
    BY <2>1, MetadataRequests
  <2>3. list # <<>>
    BY <2>2, NoSteps
  <2>4. QED
    BY <1>3, <2>2, <2>3 DEF Opening, list
<1>4. CASE cmd = "config"
  <2> DEFINE two == <<"take_admin", "call">>
  <2>1. list = ForRequest \o two
    BY <1>4 DEF Handler, connection_describe_topic_config
  <2>2. /\ two \in Seq(Steps) /\ InOrder(two)
        /\ \A x : Has(two, x) <=> x = "take_admin" \/ x = "call"
    <3>1. {"take_admin", "call"} \subseteq Steps /\ Before("take_admin", "call")
      BY DEF Steps
    <3>2. QED
      BY <3>1, TwoSteps
  <2> HIDE DEF list, two
  <2>3. \A x, y : Has(ForRequest, x) /\ Has(two, y) => Before(x, y)
    BY <2>2, Blocks
  <2>4. /\ list \in Seq(Steps) /\ InOrder(list)
        /\ \A x : Has(list, x) <=> Has(ForRequest, x) \/ Has(two, x)
    BY <2>1, <2>2, <2>3, Blocks, ConcatLemma
  <2>5. \A x : Has(list, x) <=> x \in {"gate", "load", "take_admin", "call"}
    BY <2>2, <2>4, Blocks
  <2>6. list # <<>>
    BY <2>5, NoSteps
  <2>7. QED
    BY <1>4, <2>4, <2>5, <2>6 DEF Opening, list
<1>5. CASE cmd = "publish"
  <2> DEFINE three == <<"check_connected", "check_denied", "call">>
  <2>1. list = ForRequest \o three
    BY <1>5 DEF Handler, connection_publish_messages
  <2>2. /\ three \in Seq(Steps) /\ InOrder(three)
        /\ \A x : Has(three, x)
                     <=> x = "check_connected" \/ x = "check_denied" \/ x = "call"
    <3>1. /\ {"check_connected", "check_denied", "call"} \subseteq Steps
          /\ Before("check_connected", "check_denied")
          /\ Before("check_connected", "call") /\ Before("check_denied", "call")
      BY DEF Steps
    <3>2. QED
      BY <3>1, ThreeSteps
  <2> HIDE DEF list, three
  <2>3. \A x, y : Has(ForRequest, x) /\ Has(three, y) => Before(x, y)
    BY <2>2, Blocks
  <2>4. /\ list \in Seq(Steps) /\ InOrder(list)
        /\ \A x : Has(list, x) <=> Has(ForRequest, x) \/ Has(three, x)
    BY <2>1, <2>2, <2>3, Blocks, ConcatLemma
  <2>5. \A x : Has(list, x) <=> x \in {"gate", "load", "check_connected",
                                       "check_denied", "call"}
    BY <2>2, <2>4, Blocks
  <2>6. list # <<>>
    BY <2>5, NoSteps
  <2>7. QED
    BY <1>5, <2>4, <2>5, <2>6 DEF Opening, list
<1>6. CASE cmd = "decode"
  <2>1. list = <<"load", "take_schema", "fetch_schema">>
    BY <1>6 DEF Handler, connection_decode
  <2>2. /\ {"load", "take_schema", "fetch_schema"} \subseteq Steps
        /\ Before("load", "take_schema")
        /\ Before("load", "fetch_schema") /\ Before("take_schema", "fetch_schema")
    BY DEF Steps
  <2>3. /\ list \in Seq(Steps) /\ InOrder(list)
        /\ \A x : Has(list, x)
                     <=> x = "load" \/ x = "take_schema" \/ x = "fetch_schema"
    BY <2>1, <2>2, ThreeSteps
  <2> HIDE DEF list
  <2>4. list # <<>>
    BY <2>3, NoSteps
  <2>5. QED
    BY <1>6, <2>3, <2>4 DEF Opening, list
<1>7. CASE cmd = "disconnect"
  <2> DEFINE two == <<"snapshot", "cancel_each">>
             front == MarkDisconnected \o two
  <2>1. list = front \o ReleaseKafka \o <<"release_schema">>
    BY <1>7 DEF Handler, connection_disconnect
  <2>2. Plain(two) /\ \A x : Has(two, x) <=> x = "snapshot" \/ x = "cancel_each"
    <3>1. {"snapshot", "cancel_each"} \subseteq Steps
          /\ Before("snapshot", "cancel_each")
      BY DEF Steps
    <3>2. QED
      BY <3>1, TwoSteps DEF Plain
  <2> HIDE DEF two
  <2>3. /\ front \in Seq(Steps) /\ InOrder(front)
        /\ \A x : Has(front, x) <=> Has(MarkDisconnected, x) \/ Has(two, x)
    BY <2>2, Blocks, PlainFollows
  <2> HIDE DEF list, front
  <2>4. /\ list \in Seq(Steps) /\ InOrder(list)
        /\ \A x : Has(list, x) <=>
              Has(front, x) \/ x \in {"release_metadata", "release_admin",
                                      "release_schema"}
    BY <2>1, <2>3, ReleasesEnd
  <2>5. \A x : Has(list, x) <=>
           x \in {"remove_connected", "clear_denials", "snapshot",
                  "cancel_each", "release_metadata", "release_admin",
                  "release_schema"}
    BY <2>2, <2>3, <2>4, Blocks
  <2>6. list # <<>>
    BY <2>5, NoSteps
  <2>7. QED
    BY <1>7, <2>4, <2>5, <2>6 DEF Opening, list
<1>8. CASE cmd = "update"
  <2> DEFINE two == <<"db_update", "db_reload">>
             front == two \o ClearFailures
  <2>1. list = front \o ReleaseKafka \o <<"release_schema">>
    BY <1>8 DEF Handler, connection_update
  <2>2. /\ two \in Seq(Steps) /\ InOrder(two)
        /\ \A x : Has(two, x) <=> x = "db_update" \/ x = "db_reload"
    <3>1. {"db_update", "db_reload"} \subseteq Steps
          /\ Before("db_update", "db_reload")
      BY DEF Steps
    <3>2. QED
      BY <3>1, TwoSteps
  <2> HIDE DEF two
  <2>3. /\ front \in Seq(Steps) /\ InOrder(front)
        /\ \A x : Has(front, x) <=> Has(two, x) \/ Has(ClearFailures, x)
    <3>1. Plain(ClearFailures)
      BY Blocks DEF Plain
    <3>2. QED
      BY <2>2, <3>1, PlainFollows
  <2> HIDE DEF list, front
  <2>4. /\ list \in Seq(Steps) /\ InOrder(list)
        /\ \A x : Has(list, x) <=>
              Has(front, x) \/ x \in {"release_metadata", "release_admin",
                                      "release_schema"}
    BY <2>1, <2>3, ReleasesEnd
  <2>5. \A x : Has(list, x) <=>
           x \in {"db_update", "db_reload", "forget_failures",
                  "clear_denials", "release_metadata", "release_admin",
                  "release_schema"}
    BY <2>2, <2>3, <2>4, Blocks
  <2>6. list # <<>>
    BY <2>5, NoSteps
  <2>7. QED
    BY <1>8, <2>4, <2>5, <2>6 DEF Opening, list
<1>9. CASE cmd = "delete"
  <2> DEFINE two == <<"db_delete", "db_delete_schemas">>
             start == two \o MarkDisconnected
             front == start \o ClearFailures
  <2>1. list = front \o ReleaseKafka \o <<"release_schema">>
    BY <1>9 DEF Handler, connection_delete
  <2>2. /\ two \in Seq(Steps) /\ InOrder(two)
        /\ \A x : Has(two, x) <=> x = "db_delete" \/ x = "db_delete_schemas"
    <3>1. {"db_delete", "db_delete_schemas"} \subseteq Steps
          /\ Before("db_delete", "db_delete_schemas")
      BY DEF Steps
    <3>2. QED
      BY <3>1, TwoSteps
  <2> HIDE DEF two
  <2>3. /\ start \in Seq(Steps) /\ InOrder(start)
        /\ \A x : Has(start, x) <=> Has(two, x) \/ Has(MarkDisconnected, x)
    <3>1. Plain(MarkDisconnected)
      BY Blocks DEF Plain
    <3>2. QED
      BY <2>2, <3>1, PlainFollows
  <2> HIDE DEF start
  <2>4. /\ front \in Seq(Steps) /\ InOrder(front)
        /\ \A x : Has(front, x) <=> Has(start, x) \/ Has(ClearFailures, x)
    <3>1. Plain(ClearFailures)
      BY Blocks DEF Plain
    <3>2. QED
      BY <2>3, <3>1, PlainFollows
  <2> HIDE DEF list, front
  <2>5. /\ list \in Seq(Steps) /\ InOrder(list)
        /\ \A x : Has(list, x) <=>
              Has(front, x) \/ x \in {"release_metadata", "release_admin",
                                      "release_schema"}
    BY <2>1, <2>4, ReleasesEnd
  <2>6. \A x : Has(list, x) <=>
           x \in {"db_delete", "db_delete_schemas", "remove_connected",
                  "forget_failures", "clear_denials", "release_metadata",
                  "release_admin", "release_schema"}
    BY <2>2, <2>3, <2>4, <2>5, Blocks
  <2>7. list # <<>>
    BY <2>6, NoSteps
  <2>8. QED
    BY <1>9, <2>5, <2>6, <2>7 DEF Opening, list
<1>10. QED
  BY <1>1, <1>2, <1>3, <1>4, <1>5, <1>6, <1>7, <1>8, <1>9 DEF CommandNames

(* One command. *)

\* The steps only a fetch takes.
FetchSteps == {"own", "begin", "finish_flag", "finish_owner"}

\* Steps a fetch takes before its call.
OpeningSteps ==
    {"own", "begin", "gate", "load", "check_connected", "check_denied",
     "db_update", "db_reload", "db_delete", "db_delete_schemas",
     "take_metadata", "take_admin", "take_schema"}

\* r is a record p can have: its steps are in order and fit its command, and
\* the client it holds was built from the settings it has loaded.
Good(p, r) ==
    /\ r \in Command
    /\ InOrder(r.todo)
    /\ r.cmd = "none" => r = Idle
    /\ r.cmd # "none" => r.conn \in Conns /\ (r.cmd = "fetch" <=> p \in Fetches)
    /\ r.cmd = "publish" => r.topic \in Topics
    /\ Has(r.todo, "insert_denial") => r.cmd = "publish"
    /\ \A x \in FetchSteps : Has(r.todo, x) => r.cmd = "fetch"
    /\ r.client # NoVersion => r.client = r.ver
    /\ Has(r.todo, "load") => r.client = NoVersion
    /\ r.cmd = "fetch" => \A x \in OpeningSteps : Has(r.todo, x) => Has(r.todo, "call")

\* r can still be charged with a rejection on c, as in MayBeCharged.
Charged(r, c) ==
    /\ r.conn = c
    /\ ~Has(r.todo, "gate")
    /\ Has(r.todo, "call") \/ Has(r.todo, "bump")

\* r is a fetch on c that still has to unregister.
Owns(r, c) ==
    /\ r.cmd = "fetch" /\ r.conn = c
    /\ Has(r.todo, "call") \/ Has(r.todo, "finish_owner")

\* A slot with no command is well formed, cannot be charged and owns no
\* fetch.
LEMMA IdleIsGood ==
    ASSUME NEW p \in Procs
    PROVE  Good(p, Idle) /\ \A c \in Conns : ~Charged(Idle, c) /\ ~Owns(Idle, c)
<1>1. Idle \in Command
  BY NoSteps DEF Idle, Command
<1>2. /\ Idle.todo = <<>> /\ Idle.cmd = "none" /\ Idle.client = NoVersion
      /\ Idle.conn = None
  BY DEF Idle
<1>3. Good(p, Idle)
  BY <1>1, <1>2, NoSteps DEF Good
<1>4. QED
  BY <1>2, <1>3, NoSteps DEF Charged, Owns

\* p goes on with a list of steps that fits its command.
LEMMA GoesOn ==
    ASSUME NEW p \in Procs, NEW state, Good(p, state), state.cmd # "none",
           NEW s \in Seq(Steps), InOrder(s),
           Has(s, "insert_denial") => state.cmd = "publish",
           \A x \in FetchSteps : Has(s, x) => state.cmd = "fetch",
           Has(s, "load") => state.client = NoVersion,
           state.cmd = "fetch" => \A x \in OpeningSteps : Has(s, x) => Has(s, "call")
    PROVE  LET r == IF s = <<>> THEN Idle ELSE [state EXCEPT !.todo = s]
           IN  /\ Good(p, r)
               /\ \A c \in Conns : Charged(r, c) <=>
                     /\ state.conn = c /\ ~Has(s, "gate")
                     /\ Has(s, "call") \/ Has(s, "bump")
               /\ \A c \in Conns : Owns(r, c) <=>
                     /\ state.cmd = "fetch" /\ state.conn = c
                     /\ Has(s, "call") \/ Has(s, "finish_owner")
<1>1. CASE s = <<>>
  BY <1>1, IdleIsGood, NoSteps
<1>2. CASE s # <<>>
  <2> DEFINE r == [state EXCEPT !.todo = s]
  <2>1. /\ r \in Command /\ r.todo = s /\ r.cmd = state.cmd
        /\ r.conn = state.conn /\ r.topic = state.topic
        /\ r.ver = state.ver /\ r.client = state.client
    BY DEF Good, Command
  <2> HIDE DEF r
  <2>2. Good(p, r)
    BY <2>1 DEF Good
  <2>3. QED
    BY <1>2, <2>1, <2>2 DEF Charged, Owns, r
<1>3. QED
  BY <1>1, <1>2

\* p has taken the step at the head of its list.
LEMMA Advances ==
    ASSUME NEW p \in Procs, NEW state, Good(p, state), state.todo # <<>>,
           Head(state.todo) # "call"
    PROVE  LET s == Tail(state.todo)
               h == Head(state.todo)
               r == IF s = <<>> THEN Idle ELSE [state EXCEPT !.todo = s]
           IN  /\ Good(p, r)
               /\ \A c \in Conns :
                     /\ Charged(r, c) => h = "gate" \/ Charged(state, c)
                     /\ h = "bump" => ~Charged(r, c)
                     /\ Owns(state, c) /\ h # "finish_owner"
                           => Owns(r, c)
<1> DEFINE s == Tail(state.todo)
           h == Head(state.todo)
           r == IF s = <<>> THEN Idle ELSE [state EXCEPT !.todo = s]
<1>1. state.todo \in Seq(Steps) /\ InOrder(state.todo)
  BY DEF Good, Command
<1>2. state.cmd # "none"
  BY DEF Good, Idle
<1>3. /\ s \in Seq(Steps) /\ InOrder(s)
      /\ \A x : Has(s, x) => Has(state.todo, x) /\ Before(h, x)
      /\ \A x : Has(state.todo, x) => x = h \/ Has(s, x)
  BY <1>1, TailLemma
<1>10. h # "call"
  OBVIOUS
<1> HIDE DEF s, h
<1>4. /\ Has(s, "insert_denial") => state.cmd = "publish"
      /\ \A x \in FetchSteps : Has(s, x) => state.cmd = "fetch"
      /\ Has(s, "load") => state.client = NoVersion
      /\ state.cmd = "fetch" => \A x \in OpeningSteps : Has(s, x) => Has(s, "call")
  BY <1>3, <1>10 DEF Good
<1>5. /\ Good(p, r)
      /\ \A c \in Conns : Charged(r, c) <=>
            /\ state.conn = c /\ ~Has(s, "gate")
            /\ Has(s, "call") \/ Has(s, "bump")
      /\ \A c \in Conns : Owns(r, c) <=>
            /\ state.cmd = "fetch" /\ state.conn = c
            /\ Has(s, "call") \/ Has(s, "finish_owner")
  BY <1>2, <1>3, <1>4, GoesOn
<1> HIDE DEF r
<1>6. ASSUME NEW c \in Conns, Charged(r, c), h # "gate" PROVE Charged(state, c)
  BY <1>3, <1>5, <1>6 DEF Charged
<1>7. ASSUME NEW c \in Conns, h = "bump" PROVE ~Charged(r, c)
  BY <1>3, <1>5, <1>7 DEF Before
<1>8. ASSUME NEW c \in Conns, Owns(state, c), h # "finish_owner"
      PROVE  Owns(r, c)
  BY <1>3, <1>5, <1>8, <1>10 DEF Owns
<1>9. QED
  BY <1>5, <1>6, <1>7, <1>8 DEF r, s, h

\* p only has to do what its command does at the end.
LEMMA Closes ==
    ASSUME NEW p \in Procs, NEW state, Good(p, state), state.cmd # "none",
           NEW s, Closing(s, state.cmd)
    PROVE  LET r == IF s = <<>> THEN Idle ELSE [state EXCEPT !.todo = s]
           IN  /\ Good(p, r)
               /\ \A c \in Conns :
                     /\ Charged(r, c) => state.conn = c /\ Has(s, "bump")
                     /\ Owns(state, c) => Owns(r, c)
<1>1. /\ s \in Seq(Steps) /\ InOrder(s)
      /\ ~Has(s, "load") /\ ~Has(s, "call") /\ ~Has(s, "own")
      /\ Has(s, "insert_denial") => state.cmd = "publish"
      /\ state.cmd = "fetch" => Has(s, "finish_owner")
  BY DEF Closing, ClosingSteps
<1>2. \A x \in FetchSteps : Has(s, x) => state.cmd = "fetch"
  BY DEF Closing, ClosingSteps, FetchSteps
<1>5. \A x \in OpeningSteps : ~Has(s, x)
  BY DEF Closing, ClosingSteps, OpeningSteps
<1> DEFINE r == IF s = <<>> THEN Idle ELSE [state EXCEPT !.todo = s]
<1>3. /\ Good(p, r)
      /\ \A c \in Conns : Charged(r, c) <=>
            /\ state.conn = c /\ ~Has(s, "gate")
            /\ Has(s, "call") \/ Has(s, "bump")
      /\ \A c \in Conns : Owns(r, c) <=>
            /\ state.cmd = "fetch" /\ state.conn = c
            /\ Has(s, "call") \/ Has(s, "finish_owner")
  BY <1>1, <1>2, <1>5, GoesOn
<1> HIDE DEF r
<1>4. QED
  BY <1>1, <1>3 DEF Owns, r

(* The inductive invariant. *)

\* Inductive: TypeOK alone is not, since whether a step is well typed depends
\* on the command that takes it, and who owns a fetch on what it still does.
IInv ==
    /\ TypeOK
    /\ \A p \in Procs : Good(p, proc[p])
    /\ \A o \in owners : Owns(proc[o[1]], o[2])
    /\ \A f \in unstarted : proc[f].cmd = "none"

\* TypeOK without the commands.
SharedTypeOK == DbTypeOK /\ RegistryTypeOK /\ CancellationTypeOK /\ PoolTypeOK

\* What a step of p does to the breaker's books when it leaves p as r.
Books(p, r) ==
    \A c \in Conns :
        \/ /\ attempts'[c] <= attempts[c]
           /\ Charged(r, c) =>
                 Charged(proc[p], c) \/ attempts[c] < MAX_AUTH_ATTEMPTS
        \/ /\ attempts'[c] = attempts[c] + 1
           /\ Charged(proc[p], c) /\ ~Charged(r, c)

\* Who owns a fetch after a step of p that leaves it as r.
Ownership(p, r) ==
    \A o \in owners' : \/ o \in owners /\ o[1] # p
                       \/ o[1] = p /\ Owns(r, o[2])

\* What every step of p amounts to.
Effect(p) ==
    /\ SharedTypeOK'
    /\ unstarted' = unstarted
    /\ proc[p].cmd # "none"
    /\ \E r : /\ proc' = [proc EXCEPT ![p] = r]
              /\ Good(p, r) /\ Books(p, r) /\ Ownership(p, r)

\* What the invariant says of a command that is about to take step x.
LEMMA AtLemma ==
    ASSUME IInv, NEW p \in Procs, NEW x, At(p, x)
    PROVE  /\ Good(p, proc[p])
           /\ proc[p].todo # <<>> /\ Head(proc[p].todo) = x
           /\ proc[p].todo \in Seq(Steps) /\ InOrder(proc[p].todo)
           /\ Has(proc[p].todo, x)
           /\ \A y : Has(proc[p].todo, y) => y = x \/ Before(x, y)
           /\ proc[p].cmd \in CommandNames /\ proc[p].cmd # "none"
           /\ proc[p].conn \in Conns
<1>1. Good(p, proc[p])
  BY DEF IInv
<1>2. proc[p].todo # <<>> /\ Head(proc[p].todo) = x
  BY DEF At
<1>3. proc[p].todo \in Seq(Steps) /\ InOrder(proc[p].todo)
  BY <1>1 DEF Good, Command
<1>4. Has(proc[p].todo, x)
  <2>1. 1 \in DOMAIN proc[p].todo /\ proc[p].todo[1] = x
    BY <1>2, <1>3
  <2>2. QED
    BY <2>1 DEF Has
<1>5. \A y : Has(proc[p].todo, y) => y = x \/ Before(x, y)
  BY <1>2, <1>3, TailLemma
<1>6. proc[p].cmd # "none"
  BY <1>1, <1>2 DEF Good, Idle
<1>7. proc[p].cmd \in CommandNames /\ proc[p].conn \in Conns
  BY <1>1, <1>6 DEF Good, Command
<1>8. QED
  BY <1>1, <1>2, <1>3, <1>4, <1>5, <1>6, <1>7

\* state is p's record but for what p has just learnt.
Same(p, state) ==
    /\ Good(p, state)
    /\ state.todo = proc[p].todo
    /\ state.cmd = proc[p].cmd
    /\ state.conn = proc[p].conn

\* A command that has only learnt something is charged for, and owns, what
\* it was charged for and owned before.
LEMMA SameLemma ==
    ASSUME IInv, NEW p \in Procs
    PROVE  /\ Same(p, proc[p])
           /\ \A state : Same(p, state) =>
                 \A c \in Conns : /\ Charged(state, c) <=> Charged(proc[p], c)
                                  /\ Owns(state, c) <=> Owns(proc[p], c)
  BY DEF IInv, Same, Charged, Owns

\* A step that takes the head off p's list.
LEMMA AdvanceEffect ==
    ASSUME IInv, NEW p \in Procs, NEW x, At(p, x), NEW state, Same(p, state),
           Continue(p, Tail(proc[p].todo), state),
           x \notin {"call", "bump"},
           x = "gate" => ~Blocked(proc[p].conn),
           \A c \in Conns : attempts'[c] <= attempts[c],
           x # "finish_owner" =>
              \A o \in owners' : o \in owners
                                    \/ (x = "own" /\ o = <<p, proc[p].conn>>),
           x = "finish_owner" => \A o \in owners' : o \in owners /\ o[1] # p
    PROVE  \E r : /\ proc' = [proc EXCEPT ![p] = r]
                  /\ Good(p, r) /\ Books(p, r) /\ Ownership(p, r)
<1> DEFINE s == Tail(state.todo)
           r == IF s = <<>> THEN Idle ELSE [state EXCEPT !.todo = s]
<1>1. proc' = [proc EXCEPT ![p] = r]
  BY DEF Continue, Same
<1>2. /\ Good(p, r)
      /\ \A c \in Conns :
            /\ Charged(r, c) => x = "gate" \/ Charged(proc[p], c)
            /\ Owns(proc[p], c) /\ x # "finish_owner" => Owns(r, c)
  BY AtLemma, Advances, SameLemma DEF Same
<1>3. \A c \in Conns : Charged(r, c) => c = proc[p].conn
  BY IdleIsGood DEF Charged, Same, Good, Command
<1> HIDE DEF r
<1>4. Books(p, r)
  <2>1. \A c \in Conns : attempts[c] \in Nat
    BY DEF IInv, TypeOK, RegistryTypeOK
  <2>2. MAX_AUTH_ATTEMPTS \in Nat
    BY RegistryAssumption
  <2>3. QED
    BY <1>2, <1>3, <2>1, <2>2, AtLemma DEF Books, Blocked
<1>5. Ownership(p, r)
  <2>1. SUFFICES ASSUME NEW o \in owners', o[1] = p, x # "finish_owner"
                 PROVE  Owns(r, o[2])
    BY DEF Ownership
  <2>2. CASE o \in owners
    <3>1. o[2] \in Conns /\ Owns(proc[p], o[2])
      BY <2>1, <2>2 DEF IInv, TypeOK, CancellationTypeOK
    <3>2. QED
      BY <1>2, <2>1, <3>1
  <2>3. CASE x = "own" /\ o = <<p, proc[p].conn>>
    <3>1. Owns(proc[p], proc[p].conn)
      BY <2>3, AtLemma DEF Good, FetchSteps, OpeningSteps, Owns
    <3>2. QED
      BY <1>2, <2>3, <3>1, AtLemma
  <2>4. QED
    BY <2>1, <2>2, <2>3
<1>6. QED
  BY <1>1, <1>2, <1>4, <1>5

\* A step after which p only has to do what its command does at the end.
LEMMA CloseEffect ==
    ASSUME IInv, NEW p \in Procs, NEW x, At(p, x), NEW state, Same(p, state),
           NEW s, Closing(s, proc[p].cmd), Continue(p, s, state),
           Has(s, "bump") => x = "call",
           attempts' = attempts, owners' = owners
    PROVE  \E r : /\ proc' = [proc EXCEPT ![p] = r]
                  /\ Good(p, r) /\ Books(p, r) /\ Ownership(p, r)
<1> DEFINE r == IF s = <<>> THEN Idle ELSE [state EXCEPT !.todo = s]
<1>1. proc' = [proc EXCEPT ![p] = r]
  BY DEF Continue
<1>2. /\ Good(p, r)
      /\ \A c \in Conns :
            /\ Charged(r, c) => proc[p].conn = c /\ Has(s, "bump")
            /\ Owns(proc[p], c) => Owns(r, c)
  BY AtLemma, Closes, SameLemma DEF Same
<1> HIDE DEF r
<1>3. x = "call" => Charged(proc[p], proc[p].conn)
  BY AtLemma DEF Charged, Before
<1>4. Books(p, r)
  <2>1. \A c \in Conns : attempts'[c] <= attempts[c]
    BY DEF IInv, TypeOK, RegistryTypeOK
  <2>2. QED
    BY <1>2, <1>3, <2>1 DEF Books
<1>5. Ownership(p, r)
  <2>1. \A o \in owners : o[2] \in Conns /\ Owns(proc[o[1]], o[2])
    BY DEF IInv, TypeOK, CancellationTypeOK
  <2>2. QED
    BY <1>2, <2>1 DEF Ownership
<1>6. QED
  BY <1>1, <1>2, <1>4, <1>5

(* One lemma per action. *)

\* A step that touches nothing shared keeps the shared state's types and
\* charges nobody.
LEMMA SharedUnchangedLemma ==
    ASSUME IInv, SharedUnchanged
    PROVE  /\ SharedTypeOK'
           /\ attempts' = attempts /\ owners' = owners
           /\ \A c \in Conns : attempts'[c] <= attempts[c]
<1>1. \A c \in Conns : attempts[c] \in Nat
  BY DEF IInv, TypeOK, RegistryTypeOK
<1>2. QED
  BY <1>1 DEF IInv, TypeOK, SharedTypeOK, SharedUnchanged, DbTypeOK,
     RegistryTypeOK, CancellationTypeOK, PoolTypeOK, registryVars,
     cancellationVars, poolVars, Pool

\* A step that leaves everything shared alone and goes one step on.
LEMMA QuietAdvance ==
    ASSUME IInv, NEW p \in Procs, NEW x, At(p, x), NEW state, Same(p, state),
           Continue(p, Tail(proc[p].todo), state),
           x \notin {"call", "bump", "finish_owner"},
           x = "gate" => ~Blocked(proc[p].conn),
           unstarted' = unstarted, SharedUnchanged
    PROVE  Effect(p)
<1>1. /\ \A c \in Conns : attempts'[c] <= attempts[c]
      /\ \A o \in owners' : o \in owners
  BY SharedUnchangedLemma
<1>2. \E r : /\ proc' = [proc EXCEPT ![p] = r]
             /\ Good(p, r) /\ Books(p, r) /\ Ownership(p, r)
  BY <1>1, AdvanceEffect
<1>3. QED
  BY <1>2, SharedUnchangedLemma, AtLemma DEF Effect

\* A step that leaves everything shared alone and ends the command.
LEMMA QuietClose ==
    ASSUME IInv, NEW p \in Procs, NEW x, At(p, x), NEW state, Same(p, state),
           NEW s, Closing(s, proc[p].cmd), Continue(p, s, state),
           Has(s, "bump") => x = "call",
           unstarted' = unstarted, SharedUnchanged
    PROVE  Effect(p)
<1>1. \E r : /\ proc' = [proc EXCEPT ![p] = r]
             /\ Good(p, r) /\ Books(p, r) /\ Ownership(p, r)
  BY SharedUnchangedLemma, CloseEffect
<1>2. QED
  BY <1>1, SharedUnchangedLemma, AtLemma DEF Effect

\* A step that leaves everything shared alone and returns early.
LEMMA QuietReturn ==
    ASSUME IInv, NEW p \in Procs, NEW x, At(p, x), Return(p),
           unstarted' = unstarted, SharedUnchanged
    PROVE  Effect(p)
<1>1. Closing(AfterError(proc[p].cmd), proc[p].cmd)
      /\ ~Has(AfterError(proc[p].cmd), "bump")
  BY AtLemma, ErrorCloses
<1>2. QED
  BY <1>1, SameLemma, QuietClose DEF Return

\* auth_block_reason: a command that passes the gate has seen a count below
\* the limit.
LEMMA GateEffect ==
    ASSUME IInv, NEW p \in Procs, Gate(p)
    PROVE  Effect(p)
<1>1. CASE Blocked(proc[p].conn)
  BY <1>1, QuietReturn DEF Gate
<1>2. CASE ~Blocked(proc[p].conn)
  BY <1>2, QuietAdvance, SameLemma DEF Gate, Advance
<1>3. QED
  BY <1>1, <1>2

\* The steps that either go on or return early.
LEMMA ChecksEffect ==
    ASSUME IInv, NEW p \in Procs,
           \/ CheckConnected(p) \/ CheckDenied(p) \/ DbReload(p)
           \/ DbDeleteSchemas(p) \/ FetchSchema(p)
    PROVE  Effect(p)
<1>1. PICK x \in {"check_connected", "check_denied", "db_reload",
                  "db_delete_schemas", "fetch_schema"} :
         /\ At(p, x)
         /\ Advance(p) \/ Return(p)
         /\ unstarted' = unstarted /\ SharedUnchanged
  <2>1. CASE CheckConnected(p)
    BY <2>1 DEF CheckConnected
  <2>2. CASE CheckDenied(p)
    BY <2>2 DEF CheckDenied
  <2>3. CASE DbReload(p)
    BY <2>3 DEF DbReload
  <2>4. CASE DbDeleteSchemas(p)
    BY <2>4 DEF DbDeleteSchemas
  <2>5. CASE FetchSchema(p)
    BY <2>5 DEF FetchSchema
  <2>6. QED
    BY <2>1, <2>2, <2>3, <2>4, <2>5
<1>2. CASE Advance(p)
  BY <1>1, <1>2, QuietAdvance, SameLemma DEF Advance
<1>3. CASE Return(p)
  BY <1>1, <1>3, QuietReturn
<1>4. QED
  BY <1>1, <1>2, <1>3

\* connections::get: the row is read or the command returns.
LEMMA LoadEffect ==
    ASSUME IInv, NEW p \in Procs, Load(p)
    PROVE  Effect(p)
<1> DEFINE state == [proc[p] EXCEPT !.ver = db[proc[p].conn]]
<1>1. At(p, "load") /\ unstarted' = unstarted /\ SharedUnchanged
  BY DEF Load
<1>2. CASE Continue(p, Tail(proc[p].todo), state)
  <2>1. Good(p, proc[p]) /\ proc[p].client = NoVersion
        /\ proc[p].conn \in Conns /\ proc[p].cmd # "none"
    BY <1>1, AtLemma DEF Good
  <2>2. db[proc[p].conn] \in Versions \union {NoVersion}
    BY <2>1 DEF IInv, TypeOK, DbTypeOK
  <2>3. /\ state \in Command
        /\ state.todo = proc[p].todo /\ state.cmd = proc[p].cmd
        /\ state.conn = proc[p].conn /\ state.topic = proc[p].topic
        /\ state.client = NoVersion
    BY <2>1, <2>2 DEF Good, Command
  <2> HIDE DEF state
  <2>4. Same(p, state)
    BY <2>1, <2>3 DEF Same, Good
  <2>5. QED
    BY <1>1, <1>2, <2>4, QuietAdvance
<1>3. CASE Return(p)
  BY <1>1, <1>3, QuietReturn
<1>4. QED
  BY <1>2, <1>3 DEF Load

\* cancel_all_for_connection copies the ids it is going to cancel.
LEMMA SnapshotEffect ==
    ASSUME IInv, NEW p \in Procs, Snapshot(p)
    PROVE  Effect(p)
<1> DEFINE owned == OwnedBy(proc[p].conn)
           state == [proc[p] EXCEPT !.ids = owned, !.left = owned]
<1>1. At(p, "snapshot") /\ unstarted' = unstarted /\ SharedUnchanged
      /\ Continue(p, Tail(proc[p].todo), state)
  BY DEF Snapshot
<1>2. Good(p, proc[p]) /\ proc[p].cmd # "none"
  BY <1>1, AtLemma
<1>3. owned \in SUBSET Fetches
  BY DEF OwnedBy
<1>4. /\ state \in Command
      /\ state.todo = proc[p].todo /\ state.cmd = proc[p].cmd
      /\ state.conn = proc[p].conn /\ state.topic = proc[p].topic
      /\ state.client = proc[p].client /\ state.ver = proc[p].ver
  BY <1>2, <1>3 DEF Good, Command
<1> HIDE DEF state
<1>5. Same(p, state)
  BY <1>2, <1>4 DEF Same, Good
<1>6. QED
  BY <1>1, <1>5, QuietAdvance

\* A client that cannot be built ends the command and charges nothing.
LEMMA BuildFailsEffect ==
    ASSUME IInv, NEW p \in Procs, BuildFails(p)
    PROVE  Effect(p)
<1>1. PICK x \in {"take_metadata", "take_admin", "take_schema"} : At(p, x)
  BY DEF BuildFails
<1>2. /\ Closing(AfterCall(proc[p].cmd, "failed"), proc[p].cmd)
      /\ ~Has(AfterCall(proc[p].cmd, "failed"), "bump")
  BY <1>1, AtLemma, CallCloses
<1>3. QED
  BY <1>1, <1>2, SameLemma, QuietClose DEF BuildFails

\* What a broker call has proved is all p learns from it.
LEMMA ProvenIsSame ==
    ASSUME IInv, NEW p \in Procs, NEW x, At(p, x), NEW b \in BOOLEAN
    PROVE  Same(p, [proc[p] EXCEPT !.proven = b])
<1> DEFINE state == [proc[p] EXCEPT !.proven = b]
<1>1. Good(p, proc[p]) /\ proc[p].cmd # "none"
  BY AtLemma
<1>2. /\ state \in Command
      /\ state.todo = proc[p].todo /\ state.cmd = proc[p].cmd
      /\ state.conn = proc[p].conn /\ state.topic = proc[p].topic
      /\ state.client = proc[p].client /\ state.ver = proc[p].ver
  BY <1>1 DEF Good, Command
<1> HIDE DEF state
<1>3. Same(p, state)
  BY <1>1, <1>2 DEF Same, Good
<1>4. QED
  BY <1>3 DEF state

\* A broker call ends the command as its outcome says; only a rejection
\* leaves a charge ahead of it.
LEMMA CallEffect ==
    ASSUME IInv, NEW p \in Procs, Call(p)
    PROVE  Effect(p)
<1>1. At(p, "call") /\ unstarted' = unstarted /\ SharedUnchanged
  BY DEF Call
<1>2. PICK outcome \in {"accepted", "rejected", "failed"} :
         Continue(p, AfterCall(proc[p].cmd, outcome),
                  [proc[p] EXCEPT !.proven = outcome = "accepted"])
  BY DEF Call
<1>3. Closing(AfterCall(proc[p].cmd, outcome), proc[p].cmd)
  BY <1>1, AtLemma, CallCloses
<1>4. Same(p, [proc[p] EXCEPT !.proven = outcome = "accepted"])
  BY <1>1, ProvenIsSame
<1>5. QED
  BY <1>1, <1>2, <1>3, <1>4, QuietClose

\* A fetch stopped before it dialled ends like one that succeeded.
LEMMA FetchStoppedEarlyEffect ==
    ASSUME IInv, NEW p \in Procs, FetchStoppedEarly(p)
    PROVE  Effect(p)
<1>1. /\ At(p, "call") /\ unstarted' = unstarted /\ SharedUnchanged
      /\ Continue(p, AfterCall("fetch", "accepted"), proc[p])
      /\ p \in Fetches
  BY DEF FetchStoppedEarly
<1>2. proc[p].cmd = "fetch"
  BY <1>1, AtLemma DEF Good
<1>3. Closing(AfterCall("fetch", "accepted"), "fetch")
  BY CallCloses DEF CommandNames
<1>4. QED
  BY <1>1, <1>2, <1>3, SameLemma, QuietClose

\* A publish ends as its deliveries say.
LEMMA PublishEffect ==
    ASSUME IInv, NEW p \in Procs, Publish(p)
    PROVE  Effect(p)
<1>1. /\ At(p, "call") /\ unstarted' = unstarted /\ SharedUnchanged
      /\ proc[p].cmd = "publish"
  BY DEF Publish
<1>2. PICK delivered \in BOOLEAN,
           failure \in {"none", "authorization", "authentication", "other",
                        "not_sent"} :
         Continue(p, AfterPublish(delivered, failure),
                  [proc[p] EXCEPT !.proven = delivered])
  BY DEF Publish
<1>3. Closing(AfterPublish(delivered, failure), proc[p].cmd)
  BY <1>1, PublishCloses
<1>4. Same(p, [proc[p] EXCEPT !.proven = delivered])
  BY <1>1, ProvenIsSame
<1>5. QED
  BY <1>1, <1>2, <1>3, <1>4, QuietClose

\* A step on something shared that then goes one step on.
LEMMA SharedAdvance ==
    ASSUME IInv, NEW p \in Procs, NEW x, At(p, x), Advance(p),
           x \notin {"gate", "call", "bump", "finish_owner", "own"},
           SharedTypeOK', owners' = owners, unstarted' = unstarted,
           \A c \in Conns : attempts'[c] <= attempts[c]
    PROVE  Effect(p)
<1>1. \A o \in owners' : o \in owners
  OBVIOUS
<1>2. \E r : /\ proc' = [proc EXCEPT ![p] = r]
             /\ Good(p, r) /\ Books(p, r) /\ Ownership(p, r)
  BY <1>1, SameLemma, AdvanceEffect DEF Advance
<1>3. QED
  BY <1>2, AtLemma DEF Effect

\* The count of rejections is a number.
LEMMA AttemptsAreNaturals ==
    ASSUME IInv
    PROVE  \A c \in Conns : attempts[c] \in Nat
  BY DEF IInv, TypeOK, RegistryTypeOK

\* The registry's critical sections never raise a count.
LEMMA RegistryStepEffect ==
    ASSUME IInv, NEW p \in Procs, RegistryStep(p)
    PROVE  Effect(p)
<1> DEFINE c == proc[p].conn
<1>1. /\ Advance(p) /\ unstarted' = unstarted /\ owners' = owners
      /\ UNCHANGED <<db, cancellationVars, poolVars>>
  BY DEF RegistryStep, cancellationVars
<1>2. TypeOK
  BY DEF IInv
<1>3. DbTypeOK' /\ CancellationTypeOK' /\ PoolTypeOK'
  BY <1>1, <1>2 DEF TypeOK, DbTypeOK, CancellationTypeOK, PoolTypeOK, Pool,
     cancellationVars, poolVars
<1>4. CASE At(p, "forget_failures") /\ ForgetFailures(c)
  <2>1. c \in Conns
    BY <1>4, AtLemma
  <2>2. RegistryTypeOK' /\ \A d \in Conns : attempts'[d] <= attempts[d]
    BY <1>2, <1>4, <2>1 DEF TypeOK, RegistryTypeOK, ForgetFailures
  <2>3. QED
    BY <1>1, <1>3, <1>4, <2>2, SharedAdvance DEF SharedTypeOK
<1>5. CASE At(p, "clear_denials") /\ ClearDenials(c)
  <2>1. RegistryTypeOK' /\ \A d \in Conns : attempts'[d] <= attempts[d]
    BY <1>2, <1>5, AttemptsAreNaturals
       DEF TypeOK, RegistryTypeOK, ClearDenials
  <2>2. QED
    BY <1>1, <1>3, <1>5, <2>1, SharedAdvance DEF SharedTypeOK
<1>6. CASE At(p, "insert_connected") /\ InsertConnected(c)
  <2>1. c \in Conns
    BY <1>6, AtLemma
  <2>2. RegistryTypeOK' /\ \A d \in Conns : attempts'[d] <= attempts[d]
    BY <1>2, <1>6, <2>1, AttemptsAreNaturals
       DEF TypeOK, RegistryTypeOK, InsertConnected
  <2>3. QED
    BY <1>1, <1>3, <1>6, <2>2, SharedAdvance DEF SharedTypeOK
<1>7. CASE At(p, "remove_connected") /\ RemoveConnected(c)
  <2>1. RegistryTypeOK' /\ \A d \in Conns : attempts'[d] <= attempts[d]
    BY <1>2, <1>7, AttemptsAreNaturals
       DEF TypeOK, RegistryTypeOK, RemoveConnected
  <2>2. QED
    BY <1>1, <1>3, <1>7, <2>1, SharedAdvance DEF SharedTypeOK
<1>8. CASE At(p, "insert_denial") /\ InsertDenial(c, proc[p].topic)
  <2>1. c \in Conns /\ proc[p].topic \in Topics
    BY <1>8, AtLemma DEF Good
  <2>2. RegistryTypeOK' /\ \A d \in Conns : attempts'[d] <= attempts[d]
    BY <1>2, <1>8, <2>1, AttemptsAreNaturals
       DEF TypeOK, RegistryTypeOK, InsertDenial
  <2>3. QED
    BY <1>1, <1>3, <1>8, <2>2, SharedAdvance DEF SharedTypeOK
<1>9. QED
  BY <1>4, <1>5, <1>6, <1>7, <1>8 DEF RegistryStep

\* record_auth_failure raises the count by one and is then no longer owed,
\* whether or not it trips the breaker.
LEMMA BumpEffect ==
    ASSUME IInv, NEW p \in Procs, Bump(p)
    PROVE  Effect(p)
<1> DEFINE c == proc[p].conn
           rest == Tail(proc[p].todo)
           s == IF attempts[c] + 1 >= MAX_AUTH_ATTEMPTS
                THEN MarkDisconnected \o rest ELSE rest
           r == IF s = <<>> THEN Idle ELSE [proc[p] EXCEPT !.todo = s]
<1>1. /\ At(p, "bump") /\ BumpFailures(c) /\ unstarted' = unstarted
      /\ UNCHANGED <<db, cancellationVars, poolVars>>
      /\ proc' = [proc EXCEPT ![p] = r]
  BY DEF Bump, Continue
<1>2. /\ Good(p, proc[p]) /\ proc[p].cmd # "none" /\ c \in Conns
      /\ ~Has(proc[p].todo, "gate") /\ Has(proc[p].todo, "bump")
  BY <1>1, AtLemma DEF Before
<1>3. /\ rest \in Seq(Steps) /\ InOrder(rest)
      /\ \A x : Has(rest, x) => Has(proc[p].todo, x)
      /\ \A x : Has(rest, x) => Before("bump", x)
      /\ \A x : Has(proc[p].todo, x) => x = "bump" \/ Has(rest, x)
  BY <1>1, AtLemma, TailLemma
<1> HIDE DEF rest, c
<1>4. \A x : Has(rest, x) => x \notin {"gate", "load", "call", "bump", "own",
                                      "finish_flag"}
  BY <1>3 DEF Before
<1>5. /\ s \in Seq(Steps) /\ InOrder(s)
      /\ \A x : Has(s, x) => Has(rest, x)
                                \/ x \in {"remove_connected", "clear_denials"}
      /\ \A x : Has(rest, x) => Has(s, x)
  <2>1. Plain(rest)
    BY <1>3, <1>4 DEF Plain
  <2>2. /\ MarkDisconnected \o rest \in Seq(Steps)
        /\ InOrder(MarkDisconnected \o rest)
        /\ \A x : Has(MarkDisconnected \o rest, x)
                     <=> Has(MarkDisconnected, x) \/ Has(rest, x)
    BY <2>1, Blocks, PlainFollows
  <2>3. QED
    BY <1>3, <2>2, Blocks
<1> HIDE DEF s
<1>6. /\ Has(s, "insert_denial") => proc[p].cmd = "publish"
      /\ ~Has(s, "load") /\ ~Has(s, "own") /\ ~Has(s, "call") /\ ~Has(s, "bump")
  BY <1>2, <1>3, <1>4, <1>5 DEF Good
<1>7. \A x \in FetchSteps : Has(s, x) => proc[p].cmd = "fetch"
  BY <1>2, <1>3, <1>5 DEF Good, FetchSteps
<1>13. proc[p].cmd = "fetch" => \A x \in OpeningSteps : ~Has(s, x)
  BY <1>2, <1>3, <1>4, <1>5 DEF Good, OpeningSteps
<1>8. /\ Good(p, r)
      /\ \A d \in Conns : ~Charged(r, d)
      /\ \A d \in Conns : Owns(r, d) <=>
            /\ proc[p].cmd = "fetch" /\ proc[p].conn = d
            /\ Has(s, "call") \/ Has(s, "finish_owner")
  BY <1>2, <1>5, <1>6, <1>7, <1>13, GoesOn
<1> HIDE DEF r
<1>9. Books(p, r)
  <2>1. Charged(proc[p], c)
    BY <1>2 DEF Charged, c
  <2>2. \A d \in Conns : attempts'[d] = IF d = c THEN attempts[d] + 1
                                        ELSE attempts[d]
    BY <1>1 DEF BumpFailures, IInv, TypeOK, RegistryTypeOK
  <2>3. QED
    BY <1>8, <2>1, <2>2, AttemptsAreNaturals DEF Books
<1>10. Ownership(p, r)
  <2>1. owners' = owners
    BY <1>1 DEF cancellationVars
  <2>2. ASSUME NEW o \in owners, o[1] = p PROVE Owns(r, o[2])
    <3>1. o[2] \in Conns /\ Owns(proc[p], o[2])
      BY <2>2 DEF IInv, TypeOK, CancellationTypeOK
    <3>2. Has(s, "finish_owner")
      BY <1>3, <1>4, <1>5, <3>1 DEF Owns
    <3>3. QED
      BY <1>8, <3>1, <3>2 DEF Owns
  <2>3. QED
    BY <2>1, <2>2 DEF Ownership
<1>11. SharedTypeOK'
  <2>1. TypeOK
    BY DEF IInv
  <2>2. DbTypeOK' /\ CancellationTypeOK' /\ PoolTypeOK'
    BY <1>1, <2>1 DEF TypeOK, DbTypeOK, CancellationTypeOK, PoolTypeOK, Pool,
       cancellationVars, poolVars
  <2>3. RegistryTypeOK'
    BY <1>1, <1>2, <2>1 DEF TypeOK, RegistryTypeOK, BumpFailures
  <2>4. QED
    BY <2>2, <2>3 DEF SharedTypeOK
<1>12. QED
  BY <1>1, <1>2, <1>8, <1>9, <1>10, <1>11 DEF Effect

\* Editing or deleting the row, or failing to, keeps the rows' types.
LEMMA DatabaseEffect ==
    ASSUME IInv, NEW p \in Procs, DbUpdate(p) \/ DbDelete(p)
    PROVE  Effect(p)
<1>1. PICK x \in {"db_update", "db_delete"} :
         /\ At(p, x) /\ unstarted' = unstarted
         /\ UNCHANGED <<registryVars, cancellationVars, poolVars>>
         /\ \/ UpdateRow(proc[p].conn) /\ Advance(p)
            \/ DeleteRow(proc[p].conn) /\ Advance(p)
            \/ UNCHANGED db /\ Return(p)
  BY DEF DbUpdate, DbDelete
<1>2. TypeOK /\ proc[p].conn \in Conns
  BY <1>1, AtLemma DEF IInv
<1>3. CASE UNCHANGED db /\ Return(p)
  BY <1>1, <1>3, QuietReturn DEF SharedUnchanged
<1>4. CASE ~(UNCHANGED db /\ Return(p))
  <2>1. Advance(p)
    BY <1>1, <1>4
  <2>2. DbTypeOK'
    BY <1>1, <1>2, <1>4, SavedConnectionsAssumption
       DEF TypeOK, DbTypeOK, UpdateRow, DeleteRow, Saved, Versions, NoVersion
  <2>3. RegistryTypeOK' /\ CancellationTypeOK' /\ PoolTypeOK'
    BY <1>1, <1>2 DEF TypeOK, RegistryTypeOK, CancellationTypeOK, PoolTypeOK,
       Pool, registryVars, cancellationVars, poolVars
  <2>4. /\ owners' = owners
        /\ \A c \in Conns : attempts'[c] <= attempts[c]
    BY <1>1, AttemptsAreNaturals DEF registryVars, cancellationVars
  <2>5. QED
    BY <1>1, <2>1, <2>2, <2>3, <2>4, SharedAdvance DEF SharedTypeOK
<1>5. QED
  BY <1>3, <1>4

\* begin_for_connection and finish: who owns a fetch changes with the fetch.
LEMMA CancellationStepEffect ==
    ASSUME IInv, NEW p \in Procs, CancellationStep(p)
    PROVE  Effect(p)
<1> DEFINE Outcome == \E r : /\ proc' = [proc EXCEPT ![p] = r]
                             /\ Good(p, r) /\ Books(p, r) /\ Ownership(p, r)
<1>1. /\ Advance(p) /\ Continue(p, Tail(proc[p].todo), proc[p])
      /\ unstarted' = unstarted
      /\ UNCHANGED <<db, registryVars, poolVars>>
  BY DEF CancellationStep, Advance
<1>2. TypeOK
  BY DEF IInv
<1>3. /\ DbTypeOK' /\ RegistryTypeOK' /\ PoolTypeOK'
      /\ \A c \in Conns : attempts'[c] <= attempts[c]
  BY <1>1, <1>2, AttemptsAreNaturals
     DEF TypeOK, DbTypeOK, RegistryTypeOK, PoolTypeOK, Pool, registryVars,
     poolVars
<1>4. ASSUME NEW x \in {"own", "begin", "finish_flag", "finish_owner"}, At(p, x)
      PROVE  p \in Fetches /\ proc[p].conn \in Conns /\ proc[p].cmd # "none"
  BY <1>4, AtLemma DEF Good, FetchSteps
<1>5. CASE At(p, "own") /\ InsertOwner(p, proc[p].conn)
  <2>1. CancellationTypeOK'
    BY <1>2, <1>4, <1>5 DEF TypeOK, CancellationTypeOK, InsertOwner
  <2>2. \A o \in owners' : o \in owners \/ o = <<p, proc[p].conn>>
    BY <1>5 DEF InsertOwner
  <2>3. Outcome
    BY <1>1, <1>3, <1>5, <2>2, SameLemma, AdvanceEffect
  <2>4. QED
    BY <1>1, <1>3, <1>4, <1>5, <2>1, <2>3 DEF Effect, SharedTypeOK
<1>6. CASE \/ At(p, "begin") /\ InsertFlag(p)
           \/ At(p, "finish_flag") /\ RemoveFlag(p)
  <2>1. PICK x \in {"begin", "finish_flag"} :
           At(p, x) /\ (InsertFlag(p) \/ RemoveFlag(p))
    BY <1>6
  <2>2. CancellationTypeOK' /\ owners' = owners
    BY <1>2, <1>4, <2>1
       DEF TypeOK, CancellationTypeOK, InsertFlag, RemoveFlag
  <2>3. QED
    BY <1>1, <1>3, <2>1, <2>2, SharedAdvance DEF SharedTypeOK
<1>7. CASE At(p, "finish_owner") /\ RemoveOwner(p)
  <2>1. CancellationTypeOK'
    BY <1>2, <1>7 DEF TypeOK, CancellationTypeOK, RemoveOwner
  <2>2. \A o \in owners' : o \in owners /\ o[1] # p
    BY <1>7 DEF RemoveOwner
  <2>3. Outcome
    BY <1>1, <1>3, <1>7, <2>2, SameLemma, AdvanceEffect
  <2>4. QED
    BY <1>1, <1>3, <1>4, <1>7, <2>1, <2>3 DEF Effect, SharedTypeOK
<1>8. QED
  BY <1>5, <1>6, <1>7 DEF CancellationStep

\* cancel_all_for_connection cancels one of the ids it copied, or is done.
LEMMA CancelEachEffect ==
    ASSUME IInv, NEW p \in Procs, CancelEach(p)
    PROVE  Effect(p)
<1>1. /\ At(p, "cancel_each") /\ unstarted' = unstarted
      /\ UNCHANGED <<db, registryVars, poolVars>>
  BY DEF CancelEach
<1>2. Good(p, proc[p]) /\ proc[p].cmd # "none" /\ TypeOK
  BY <1>1, AtLemma DEF IInv
<1>3. /\ DbTypeOK' /\ RegistryTypeOK' /\ PoolTypeOK'
      /\ \A c \in Conns : attempts'[c] <= attempts[c]
  BY <1>1, <1>2, AttemptsAreNaturals
     DEF TypeOK, DbTypeOK, RegistryTypeOK, PoolTypeOK, Pool, registryVars,
     poolVars
<1>4. CASE Advance(p) /\ UNCHANGED cancellationVars
  <2>1. CancellationTypeOK' /\ owners' = owners
    BY <1>2, <1>4 DEF TypeOK, CancellationTypeOK, cancellationVars
  <2>2. QED
    BY <1>1, <1>3, <1>4, <2>1, SharedAdvance DEF SharedTypeOK
<1>5. CASE \E f \in proc[p].left :
              StoreStop(f) /\ proc' = [proc EXCEPT ![p].left = @ \ {f}]
  <2>1. PICK f \in proc[p].left :
           StoreStop(f) /\ proc' = [proc EXCEPT ![p].left = @ \ {f}]
    BY <1>5
  <2> DEFINE r == [proc[p] EXCEPT !.left = @ \ {f}]
  <2>2. proc' = [proc EXCEPT ![p] = r]
    BY <2>1
  <2>3. /\ r \in Command /\ f \in Fetches
        /\ r.todo = proc[p].todo /\ r.cmd = proc[p].cmd
        /\ r.conn = proc[p].conn /\ r.topic = proc[p].topic
        /\ r.client = proc[p].client /\ r.ver = proc[p].ver
    BY <1>2, <2>1 DEF Good, Command
  <2> HIDE DEF r
  <2>4. Good(p, r)
    BY <1>2, <2>3 DEF Good
  <2>5. \A c \in Conns : /\ Charged(r, c) <=> Charged(proc[p], c)
                         /\ Owns(r, c) <=> Owns(proc[p], c)
    BY <2>3 DEF Charged, Owns
  <2>6. Books(p, r)
    BY <1>3, <2>5 DEF Books
  <2>7. Ownership(p, r)
    <3>1. \A o \in owners : o[2] \in Conns /\ Owns(proc[o[1]], o[2])
      BY DEF IInv, TypeOK, CancellationTypeOK
    <3>2. QED
      BY <2>1, <2>5, <3>1 DEF Ownership, StoreStop
  <2>8. CancellationTypeOK'
    BY <1>2, <2>1, <2>3 DEF TypeOK, CancellationTypeOK, StoreStop
  <2>9. QED
    BY <1>1, <1>2, <1>3, <2>2, <2>4, <2>6, <2>7, <2>8 DEF Effect, SharedTypeOK
<1>6. QED
  BY <1>4, <1>5 DEF CancelEach

\* A client is built from the settings it is asked for, or already was.
LEMMA ClientForLemma ==
    ASSUME NEW pool \in Pool, NEW c \in Conns,
           NEW v \in Versions \union {NoVersion}
    PROVE  ClientFor(pool, c, v) = v /\ Pooled(pool, c, v) \in Pool
  BY DEF ClientFor, Reusable, Pooled, Pool

\* A client is taken from a pool, or built and pooled.
LEMMA TakeClientEffect ==
    ASSUME IInv, NEW p \in Procs, TakeClient(p)
    PROVE  Effect(p)
<1> DEFINE c == proc[p].conn
           v == proc[p].ver
           state == [proc[p] EXCEPT !.client = v]
<1>1. PICK x \in {"take_metadata", "take_admin", "take_schema"} : At(p, x)
  BY DEF TakeClient
<1>2. /\ Good(p, proc[p]) /\ proc[p].cmd # "none" /\ c \in Conns
      /\ TypeOK /\ v \in Versions \union {NoVersion}
      /\ ~Has(proc[p].todo, "load")
  <2>1. ~Has(proc[p].todo, "load")
    BY <1>1, AtLemma DEF Before
  <2>2. QED
    BY <1>1, <2>1, AtLemma DEF IInv, Good, Command
<1>3. metadataClients \in Pool /\ adminClients \in Pool /\ schemaClients \in Pool
  BY <1>2 DEF TypeOK, PoolTypeOK
<1>4. /\ Continue(p, Tail(proc[p].todo), state)
      /\ metadataClients' \in Pool /\ adminClients' \in Pool
      /\ schemaClients' \in Pool
  BY <1>2, <1>3, ClientForLemma DEF TakeClient, Taken
<1>5. Same(p, state)
  <2>1. /\ state \in Command
        /\ state.todo = proc[p].todo /\ state.cmd = proc[p].cmd
        /\ state.conn = proc[p].conn /\ state.topic = proc[p].topic
        /\ state.client = state.ver
    BY <1>2 DEF Good, Command
  <2> HIDE DEF state
  <2>2. QED
    BY <1>2, <2>1 DEF Same, Good
<1> HIDE DEF state
<1>6. /\ unstarted' = unstarted
      /\ UNCHANGED <<db, registryVars, cancellationVars>>
  BY DEF TakeClient
<1>7. SharedTypeOK'
  BY <1>2, <1>4, <1>6 DEF TypeOK, SharedTypeOK, DbTypeOK, RegistryTypeOK,
     CancellationTypeOK, PoolTypeOK, registryVars, cancellationVars, Pool
<1>8. /\ \A d \in Conns : attempts'[d] <= attempts[d]
      /\ \A o \in owners' : o \in owners
  BY <1>6, AttemptsAreNaturals DEF registryVars, cancellationVars
<1>9. \E r : /\ proc' = [proc EXCEPT ![p] = r]
             /\ Good(p, r) /\ Books(p, r) /\ Ownership(p, r)
  BY <1>1, <1>4, <1>5, <1>8, AdvanceEffect
<1>10. QED
  BY <1>2, <1>6, <1>7, <1>9 DEF Effect

\* A client is dropped from a pool.
LEMMA ReleaseEffect ==
    ASSUME IInv, NEW p \in Procs, Release(p)
    PROVE  Effect(p)
<1>1. PICK x \in {"release_metadata", "release_admin", "release_schema"} :
         At(p, x)
  BY DEF Release
<1>2. TypeOK /\ proc[p].conn \in Conns
  BY <1>1, AtLemma DEF IInv
<1>3. PoolTypeOK'
  BY <1>2 DEF TypeOK, PoolTypeOK, Release, Dropped, Pool
<1>4. /\ Advance(p) /\ unstarted' = unstarted
      /\ UNCHANGED <<db, registryVars, cancellationVars>>
  BY DEF Release
<1>5. DbTypeOK' /\ RegistryTypeOK' /\ CancellationTypeOK'
  BY <1>2, <1>4 DEF TypeOK, DbTypeOK, RegistryTypeOK, CancellationTypeOK,
     registryVars, cancellationVars
<1>6. /\ owners' = owners
      /\ \A c \in Conns : attempts'[c] <= attempts[c]
  BY <1>4, AttemptsAreNaturals DEF registryVars, cancellationVars
<1>7. QED
  BY <1>1, <1>3, <1>4, <1>5, <1>6, SharedAdvance DEF SharedTypeOK

\* Every step of a command amounts to an Effect.
LEMMA StepEffect ==
    ASSUME IInv, NEW p \in Procs, Step(p)
    PROVE  Effect(p)
  BY RegistryStepEffect, BumpEffect, GateEffect, ChecksEffect, LoadEffect,
     DatabaseEffect, CancellationStepEffect, SnapshotEffect, CancelEachEffect,
     TakeClientEffect, BuildFailsEffect, ReleaseEffect, CallEffect,
     FetchStoppedEarlyEffect, PublishEffect
     DEF Step

\* The command p starts with.
LEMMA RunningIsGood ==
    ASSUME NEW p \in Procs, NEW cmd \in CommandNames, NEW c \in Conns,
           NEW t \in Topics \union {None},
           cmd = "fetch" <=> p \in Fetches, cmd = "publish" => t \in Topics,
           DbTypeOK
    PROVE  /\ Good(p, Running(cmd, c, t))
           /\ \A d \in Conns : ~Charged(Running(cmd, c, t), d)
<1> DEFINE r == Running(cmd, c, t)
           s == Handler[cmd]
<1>1. Opening(s, cmd)
  BY HandlersOpen
<1> HIDE DEF s
<1>2. r = [Idle EXCEPT !.cmd = cmd, !.conn = c, !.topic = t, !.todo = s,
                      !.since = db[c]]
  BY DEF Running, s
<1>3. /\ r \in Command
      /\ r.cmd = cmd /\ r.conn = c /\ r.topic = t /\ r.todo = s
      /\ r.client = NoVersion
  BY <1>1, <1>2, NoSteps DEF Opening, Command, Idle, DbTypeOK
<1> HIDE DEF r
<1>4. cmd # "none"
  BY DEF CommandNames
<1>5. Good(p, r)
  BY <1>1, <1>3, <1>4 DEF Good, Opening, FetchSteps
<1>6. \A d \in Conns : ~Charged(r, d)
  BY <1>1, <1>3 DEF Charged, Opening
<1>7. QED
  BY <1>5, <1>6 DEF r

(* The invariant holds. *)

\* A backend that has just started satisfies the invariant.
LEMMA InitEstablishes == Init => IInv
<1> SUFFICES ASSUME Init PROVE IInv
  OBVIOUS
<1>1. \A p \in Procs : proc[p] = Idle /\ Good(p, proc[p]) /\ Idle.cmd = "none"
  BY IdleIsGood DEF Init, Idle
<1>2. owners = {} /\ unstarted = Fetches
  BY DEF Init, CancellationInit
<1>3. proc \in [Procs -> Command]
  BY <1>1 DEF Init, Good
<1>4. DbTypeOK
  BY SavedConnectionsAssumption DEF Init, DbInit, DbTypeOK, Versions
<1>5. RegistryTypeOK /\ CancellationTypeOK /\ PoolTypeOK
  BY DEF Init, RegistryInit, RegistryTypeOK, CancellationInit,
     CancellationTypeOK, PoolInit, PoolTypeOK, Pool
<1>6. QED
  BY <1>1, <1>2, <1>3, <1>4, <1>5 DEF IInv, TypeOK, Procs

\* A new command of p.
LEMMA StartsPreserve ==
    ASSUME IInv, NEW p \in Procs, NEW r, Good(p, r),
           proc[p].cmd = "none", proc' = [proc EXCEPT ![p] = r],
           SharedUnchanged, unstarted' \subseteq unstarted, p \notin unstarted'
    PROVE  IInv'
<1>1. SharedTypeOK' /\ owners' = owners
  BY SharedUnchangedLemma
<1>2. proc' \in [Procs -> Command] /\ unstarted' \subseteq Fetches
  BY DEF IInv, TypeOK, Good
<1>3. proc'[p] = r /\ \A q \in Procs \ {p} : proc'[q] = proc[q]
  BY DEF IInv, TypeOK
<1>4. \A q \in Procs : Good(q, proc[q])'
  BY <1>3 DEF IInv, Good
<1>5. ASSUME NEW o \in owners' PROVE Owns(proc'[o[1]], o[2])
  <2>1. Owns(proc[o[1]], o[2]) /\ o[1] \in Procs
    BY <1>1 DEF IInv, TypeOK, CancellationTypeOK, Procs
  <2>2. o[1] # p
    BY <2>1 DEF Owns
  <2>3. QED
    BY <1>3, <2>1, <2>2
<1>6. \A f \in unstarted' : proc'[f].cmd = "none"
  BY <1>2, <1>3 DEF IInv, Procs
<1>7. TypeOK'
  BY <1>1, <1>2 DEF TypeOK, SharedTypeOK
<1>8. QED
  BY <1>4, <1>5, <1>6, <1>7 DEF IInv, Owns

\* A step of a command keeps the invariant.
LEMMA StepPreserves ==
    ASSUME IInv, NEW p \in Procs, Step(p)
    PROVE  IInv'
<1>1. PICK r : /\ proc' = [proc EXCEPT ![p] = r]
               /\ Good(p, r) /\ Ownership(p, r)
  BY StepEffect DEF Effect
<1>2. SharedTypeOK' /\ unstarted' = unstarted /\ proc[p].cmd # "none"
  BY StepEffect DEF Effect
<1>3. proc' \in [Procs -> Command]
  BY <1>1 DEF IInv, TypeOK, Good
<1>4. proc'[p] = r /\ \A q \in Procs \ {p} : proc'[q] = proc[q]
  BY <1>1 DEF IInv, TypeOK
<1>5. TypeOK'
  BY <1>2, <1>3 DEF IInv, TypeOK, SharedTypeOK
<1>6. \A q \in Procs : Good(q, proc[q])'
  BY <1>1, <1>4 DEF IInv, Good
<1>7. ASSUME NEW o \in owners' PROVE Owns(proc'[o[1]], o[2])
  <2>1. CASE o[1] = p /\ Owns(r, o[2])
    BY <1>4, <2>1
  <2>2. CASE o \in owners /\ o[1] # p
    <3>1. Owns(proc[o[1]], o[2]) /\ o[1] \in Procs
      BY <2>2 DEF IInv, TypeOK, CancellationTypeOK, Procs
    <3>2. QED
      BY <1>4, <2>2, <3>1
  <2>3. QED
    BY <1>1, <2>1, <2>2 DEF Ownership
<1>8. \A f \in unstarted' : proc'[f].cmd = "none"
  <2>1. \A f \in unstarted : f \in Procs /\ f # p /\ proc[f].cmd = "none"
    BY <1>2 DEF IInv, TypeOK, Procs
  <2>2. QED
    BY <1>2, <1>4, <2>1
<1>9. QED
  BY <1>5, <1>6, <1>7, <1>8 DEF IInv, Owns

\* Issuing a command gives a free slot a record that cannot be charged.
LEMMA StartLemma ==
    ASSUME IInv, NEW r \in Reqs, NEW cmd \in CommandNames \ {"fetch"},
           NEW c \in Conns, NEW t \in Topics \union {None}, Start(r, cmd, c, t)
    PROVE  /\ IInv'
           /\ attempts' = attempts
           /\ \E new : /\ proc' = [proc EXCEPT ![r] = new]
                       /\ \A d \in Conns : ~Charged(new, d)
<1> DEFINE new == Running(cmd, c, t)
<1>1. /\ proc[r].cmd = "none" /\ proc' = [proc EXCEPT ![r] = new]
      /\ SharedUnchanged /\ unstarted' = unstarted
      /\ cmd = "publish" => t \in Topics
  BY DEF Start
<1>2. r \in Procs /\ r \notin Fetches
  BY SessionAssumption DEF Procs
<1>3. Good(r, new) /\ \A d \in Conns : ~Charged(new, d)
  BY <1>1, <1>2, RunningIsGood DEF IInv, TypeOK
<1> HIDE DEF new
<1>4. r \notin unstarted'
  BY <1>1, <1>2 DEF IInv, TypeOK
<1>5. QED
  BY <1>1, <1>2, <1>3, <1>4, StartsPreserve, SharedUnchangedLemma

\* Issuing a fetch under a new request id keeps the invariant and charges
\* nobody.
LEMMA StartFetchLemma ==
    ASSUME IInv, NEW f \in Fetches, NEW c \in Conns, StartFetch(f, c)
    PROVE  /\ IInv'
           /\ attempts' = attempts
           /\ \E new : /\ proc' = [proc EXCEPT ![f] = new]
                       /\ \A d \in Conns : ~Charged(new, d)
<1> DEFINE new == Running("fetch", c, None)
<1>1. /\ f \in unstarted /\ unstarted' = unstarted \ {f}
      /\ proc' = [proc EXCEPT ![f] = new] /\ SharedUnchanged
  BY DEF StartFetch
<1>2. f \in Procs /\ proc[f].cmd = "none" /\ "fetch" \in CommandNames
  BY <1>1 DEF Procs, IInv, CommandNames
<1>3. Good(f, new) /\ \A d \in Conns : ~Charged(new, d)
  BY <1>2, RunningIsGood DEF IInv, TypeOK
<1> HIDE DEF new
<1>4. QED
  BY <1>1, <1>2, <1>3, StartsPreserve, SharedUnchangedLemma

\* A Stop touches a flag and nothing else.
LEMMA StopLemma ==
    ASSUME IInv, NEW f \in Fetches, Stop(f)
    PROVE  IInv' /\ attempts' = attempts /\ proc' = proc
<1>1. /\ StoreStop(f)
      /\ UNCHANGED <<db, registryVars, poolVars, proc, unstarted>>
  BY DEF Stop
<1>2. TypeOK'
  BY <1>1 DEF IInv, TypeOK, DbTypeOK, RegistryTypeOK, CancellationTypeOK,
     PoolTypeOK, Pool, registryVars, poolVars, StoreStop
<1>3. proc' = proc /\ owners' = owners /\ unstarted' = unstarted
      /\ attempts' = attempts
  BY <1>1 DEF StoreStop, registryVars
<1>4. QED
  BY <1>2, <1>3 DEF IInv, Good, Owns

\* Nothing happens, and nothing changes.
LEMMA StutterLemma ==
    ASSUME IInv, UNCHANGED vars
    PROVE  IInv' /\ attempts' = attempts /\ proc' = proc
<1>1. SharedTypeOK' /\ attempts' = attempts /\ owners' = owners
      /\ proc' = proc /\ unstarted' = unstarted
  BY SharedUnchangedLemma DEF vars, SharedUnchanged
<1>2. QED
  BY <1>1 DEF IInv, TypeOK, SharedTypeOK, Good, Owns

\* The invariant is inductive.
LEMMA NextPreserves == IInv /\ [Next]_vars => IInv'
  BY StartLemma, StartFetchLemma, StopLemma, StepPreserves, StutterLemma
     DEF Next

(* The theorems. *)

\* The inductive invariant: every command that is running is well formed
\* (Good), whoever owns a fetch still has to unregister it, and an id that has
\* not been used names no command.
THEOREM SpecInvariant == Spec => []IInv
<1>1. Init => IInv
  BY InitEstablishes
<1>2. IInv /\ [Next]_vars => IInv'
  BY NextPreserves
<1>3. QED
  BY <1>1, <1>2, PTL DEF Spec

\* Every map of the backend and every command keeps its shape, for any
\* number of connections, concurrent commands and edits.
THEOREM TypeCorrectness == Spec => []TypeOK
<1>1. IInv => TypeOK
  BY DEF IInv
<1>2. QED
  BY <1>1, SpecInvariant, PTL

(* Clients and edits. *)

\* r goes by settings no older than those saved when it was issued, and
\* neither does the row of its connection in rows.
Fresh(r, rows) ==
    r.conn \in Conns =>
        /\ rows[r.conn] = NoVersion \/ r.since <= rows[r.conn]
        /\ r.ver = NoVersion \/ r.since <= r.ver

\* Inductive on top of IInv.
AllFresh == \A p \in Procs : Fresh(proc[p], db)

\* r knows what p knew, and perhaps the row p has just read.
Kept(p, r) ==
    /\ r \in Command
    /\ r.since = proc[p].since /\ r.conn = proc[p].conn
    /\ r.ver \in {proc[p].ver, db[proc[p].conn]}

\* A step of p ends its command or forgets nothing.
Learns(p) ==
    \E r : /\ proc' = [proc EXCEPT ![p] = r]
           /\ r = Idle \/ Kept(p, r)

\* Going on with another list of steps forgets nothing.
LEMMA ContinueLearns ==
    ASSUME NEW p \in Procs, NEW s \in Seq(Steps), NEW state, Kept(p, state),
           Continue(p, s, state)
    PROVE  Learns(p)
<1> DEFINE next == [state EXCEPT !.todo = s]
<1>1. proc' = [proc EXCEPT ![p] = IF s = <<>> THEN Idle ELSE next]
  BY DEF Continue
<1>2. Kept(p, next)
  BY DEF Kept, Command
<1>3. QED
  BY <1>1, <1>2 DEF Learns

\* Every step goes on with what p knew, or with that and the row read.
LEMMA StepLearns ==
    ASSUME IInv, NEW p \in Procs, Step(p)
    PROVE  Learns(p)
<1>1. /\ proc[p] \in Command /\ Kept(p, proc[p])
      /\ \A s : proc[p].todo # <<>> => Tail(proc[p].todo) \in Seq(Steps)
  <2>1. proc[p] \in Command
    BY DEF IInv, TypeOK
  <2>2. QED
    BY <2>1, TailLemma DEF Kept, Command
<1>2. ASSUME Advance(p), proc[p].todo # <<>> PROVE Learns(p)
  BY <1>1, <1>2, ContinueLearns DEF Advance
<1>3. ASSUME Return(p), proc[p].cmd \in CommandNames PROVE Learns(p)
  <2>1. AfterError(proc[p].cmd) \in Seq(Steps)
    BY <1>3, ErrorCloses DEF Closing
  <2>2. QED
    BY <1>1, <1>3, <2>1, ContinueLearns DEF Return
<1>4. ASSUME NEW x, At(p, x)
      PROVE  proc[p].todo # <<>> /\ proc[p].cmd \in CommandNames
             /\ proc[p].conn \in Conns
  BY <1>4, AtLemma
<1>5. CASE \/ RegistryStep(p) \/ Gate(p) \/ CheckConnected(p) \/ CheckDenied(p)
           \/ DbUpdate(p) \/ DbReload(p) \/ DbDelete(p) \/ DbDeleteSchemas(p)
           \/ CancellationStep(p) \/ Release(p) \/ FetchSchema(p)
  <2>1. PICK x : At(p, x) /\ (Advance(p) \/ Return(p))
    BY <1>5 DEF RegistryStep, Gate, CheckConnected, CheckDenied, DbUpdate,
       DbReload, DbDelete, DbDeleteSchemas, CancellationStep, Release,
       FetchSchema
  <2>2. QED
    BY <1>2, <1>3, <1>4, <2>1
<1>6. CASE Bump(p)
  <2>1. At(p, "bump")
    BY <1>6 DEF Bump
  <2> DEFINE rest == Tail(proc[p].todo)
             s == IF attempts[proc[p].conn] + 1 >= MAX_AUTH_ATTEMPTS
                  THEN MarkDisconnected \o rest ELSE rest
  <2>2. rest \in Seq(Steps) /\ MarkDisconnected \o rest \in Seq(Steps)
    BY <1>1, <1>4, <2>1, Blocks, ConcatLemma
  <2>3. s \in Seq(Steps) /\ Continue(p, s, proc[p])
    BY <1>6, <2>2 DEF Bump
  <2>4. QED
    BY <1>1, <2>3, ContinueLearns
<1>7. CASE Load(p)
  <2>1. At(p, "load")
    BY <1>7 DEF Load
  <2> DEFINE state == [proc[p] EXCEPT !.ver = db[proc[p].conn]]
  <2>2. \/ Return(p)
        \/ Continue(p, Tail(proc[p].todo), state)
    BY <1>7 DEF Load
  <2>3. Kept(p, state)
    BY <1>1, <1>4, <2>1 DEF Kept, Command, IInv, TypeOK, DbTypeOK
  <2>4. Tail(proc[p].todo) \in Seq(Steps)
    BY <1>1, <1>4, <2>1
  <2> HIDE DEF state
  <2>5. QED
    BY <1>3, <1>4, <2>1, <2>2, <2>3, <2>4, ContinueLearns
<1>8. CASE Snapshot(p)
  <2> DEFINE owned == OwnedBy(proc[p].conn)
             state == [proc[p] EXCEPT !.ids = owned, !.left = owned]
  <2>1. At(p, "snapshot") /\ Continue(p, Tail(proc[p].todo), state)
    BY <1>8 DEF Snapshot
  <2>2. Kept(p, state)
    BY <1>1 DEF Kept, Command, OwnedBy
  <2>3. Tail(proc[p].todo) \in Seq(Steps)
    BY <1>1, <1>4, <2>1
  <2> HIDE DEF state
  <2>4. QED
    BY <2>1, <2>2, <2>3, ContinueLearns
<1>9. CASE CancelEach(p)
  <2>1. CASE At(p, "cancel_each") /\ Advance(p)
    BY <1>2, <1>4, <2>1
  <2>2. CASE \E f \in proc[p].left :
               proc' = [proc EXCEPT ![p].left = @ \ {f}]
    <3>1. PICK f : proc' = [proc EXCEPT ![p].left = @ \ {f}]
      BY <2>2
    <3> DEFINE state == [proc[p] EXCEPT !.left = @ \ {f}]
    <3>2. proc' = [proc EXCEPT ![p] = state]
      BY <3>1
    <3>3. Kept(p, state)
      BY <1>1 DEF Kept, Command
    <3>4. QED
      BY <3>2, <3>3 DEF Learns
  <2>3. QED
    BY <1>9, <2>1, <2>2 DEF CancelEach
<1>10. CASE TakeClient(p)
  <2> DEFINE v == proc[p].ver
             state == [proc[p] EXCEPT !.client = v]
  <2>1. \/ At(p, "take_metadata") /\ Taken(p, metadataClients)
        \/ At(p, "take_admin") /\ Taken(p, adminClients)
        \/ At(p, "take_schema") /\ Taken(p, schemaClients)
    BY <1>10 DEF TakeClient
  <2>2. \E x : At(p, x)
    BY <2>1
  <2>3. \A pool \in Pool : ClientFor(pool, proc[p].conn, v) = v
    BY <1>1, <1>4, <2>2, ClientForLemma DEF Command
  <2>4. metadataClients \in Pool /\ adminClients \in Pool
        /\ schemaClients \in Pool
    BY DEF IInv, TypeOK, PoolTypeOK
  <2>5. Continue(p, Tail(proc[p].todo), state)
    BY <2>1, <2>3, <2>4 DEF Taken
  <2>6. Kept(p, state)
    BY <1>1 DEF Kept, Command
  <2>7. Tail(proc[p].todo) \in Seq(Steps)
    BY <1>1, <1>4, <2>2
  <2> HIDE DEF state
  <2>8. QED
    BY <2>5, <2>6, <2>7, ContinueLearns
<1>11. CASE BuildFails(p) \/ FetchStoppedEarly(p)
  <2>1. CASE BuildFails(p)
    <3>1. \E x : At(p, x)
      BY <2>1 DEF BuildFails
    <3>2. AfterCall(proc[p].cmd, "failed") \in Seq(Steps)
      BY <1>4, <3>1, CallCloses DEF Closing
    <3>3. QED
      BY <1>1, <2>1, <3>2, ContinueLearns DEF BuildFails
  <2>2. CASE FetchStoppedEarly(p)
    <3>1. AfterCall("fetch", "accepted") \in Seq(Steps)
      BY CallCloses DEF Closing, CommandNames
    <3>2. QED
      BY <1>1, <2>2, <3>1, ContinueLearns DEF FetchStoppedEarly
  <2>3. QED
    BY <1>11, <2>1, <2>2
<1>12. CASE Call(p)
  <2>1. PICK outcome \in {"accepted", "rejected", "failed"} :
           /\ At(p, "call")
           /\ Continue(p, AfterCall(proc[p].cmd, outcome),
                       [proc[p] EXCEPT !.proven = outcome = "accepted"])
    BY <1>12 DEF Call
  <2> DEFINE state == [proc[p] EXCEPT !.proven = outcome = "accepted"]
  <2>2. AfterCall(proc[p].cmd, outcome) \in Seq(Steps)
    BY <1>4, <2>1, CallCloses DEF Closing
  <2>3. Kept(p, state)
    BY <1>1 DEF Kept, Command
  <2> HIDE DEF state
  <2>4. QED
    BY <2>1, <2>2, <2>3, ContinueLearns DEF state
<1>13. CASE Publish(p)
  <2>1. PICK delivered \in BOOLEAN,
           failure \in {"none", "authorization", "authentication", "other",
                        "not_sent"} :
           Continue(p, AfterPublish(delivered, failure),
                    [proc[p] EXCEPT !.proven = delivered])
    BY <1>13 DEF Publish
  <2> DEFINE state == [proc[p] EXCEPT !.proven = delivered]
  <2>2. AfterPublish(delivered, failure) \in Seq(Steps)
    BY <2>1, PublishCloses DEF Closing
  <2>3. Kept(p, state)
    BY <1>1 DEF Kept, Command
  <2> HIDE DEF state
  <2>4. QED
    BY <2>1, <2>2, <2>3, ContinueLearns DEF state
<1>14. QED
  BY <1>5, <1>6, <1>7, <1>8, <1>9, <1>10, <1>11, <1>12, <1>13 DEF Step

\* Edits only move a row forward, and a deleted row stays deleted.
LEMMA RowsMoveForward ==
    ASSUME IInv, Next, NEW c \in Conns
    PROVE  /\ db[c] \in Nat /\ db'[c] \in Nat
           /\ db'[c] = NoVersion \/ (db[c] # NoVersion /\ db[c] <= db'[c])
<1>1. db \in [Conns -> Versions \union {NoVersion}] /\ db[c] \in Nat
  BY DEF IInv, TypeOK, DbTypeOK, Versions, NoVersion
<1>2. \/ UNCHANGED db
      \/ \E d \in Conns : UpdateRow(d)
      \/ \E d \in Conns : DeleteRow(d)
  <2>1. CASE \E p \in Procs : Step(p)
    <3>1. PICK p \in Procs : Step(p)
      BY <2>1
    <3>2. \A x : At(p, x) => proc[p].conn \in Conns
      BY AtLemma
    <3>3. CASE \/ RegistryStep(p) \/ Bump(p) \/ Gate(p) \/ CheckConnected(p)
               \/ CheckDenied(p) \/ Load(p) \/ DbReload(p)
               \/ DbDeleteSchemas(p) \/ CancellationStep(p) \/ Snapshot(p)
               \/ CancelEach(p) \/ TakeClient(p) \/ BuildFails(p)
               \/ Release(p) \/ Call(p) \/ FetchStoppedEarly(p)
               \/ Publish(p) \/ FetchSchema(p)
      BY <3>3 DEF RegistryStep, Bump, Gate, CheckConnected, CheckDenied, Load,
         DbReload, DbDeleteSchemas, CancellationStep, Snapshot, CancelEach,
         TakeClient, BuildFails, Release, Call, FetchStoppedEarly, Publish,
         FetchSchema, SharedUnchanged
    <3>4. CASE DbUpdate(p) \/ DbDelete(p)
      BY <3>2, <3>4 DEF DbUpdate, DbDelete
    <3>5. QED
      BY <3>1, <3>3, <3>4 DEF Step
  <2>2. QED
    BY <2>1 DEF Next, Start, StartFetch, Stop, SharedUnchanged
<1>3. QED
  <2>1. CASE \E d \in Conns : UpdateRow(d)
    BY <1>1, <2>1 DEF UpdateRow, Saved
  <2>2. CASE \E d \in Conns : DeleteRow(d)
    BY <1>1, <2>2 DEF DeleteRow, NoVersion
  <2>3. CASE UNCHANGED db
    BY <1>1, <2>3 DEF NoVersion
  <2>4. QED
    BY <1>2, <2>1, <2>2, <2>3

\* What is fresh stays fresh as the rows move forward.
LEMMA FreshStays ==
    ASSUME IInv, Next, NEW r \in Command, Fresh(r, db)
    PROVE  Fresh(r, db')
<1>1. r.since \in Nat
  BY DEF Command, Versions, NoVersion
<1>2. QED
  BY <1>1, RowsMoveForward DEF Fresh

\* A command is issued fresh, and what a step learns from its row is fresh.
LEMMA FreshPreserved == IInv /\ AllFresh /\ [Next]_vars => AllFresh'
<1> SUFFICES ASSUME IInv, AllFresh, [Next]_vars PROVE AllFresh'
  OBVIOUS
<1>1. proc \in [Procs -> Command]
  BY DEF IInv, TypeOK
<1>2. CASE UNCHANGED vars
  BY <1>2 DEF AllFresh, vars
<1>3. ASSUME Next, NEW p \in Procs, NEW r,
             proc' = [proc EXCEPT ![p] = r], Fresh(r, db')
      PROVE  AllFresh'
  <2>1. \A q \in Procs \ {p} : Fresh(proc[q], db')
    BY <1>1, <1>3, FreshStays DEF AllFresh
  <2>2. QED
    BY <1>1, <1>3, <2>1 DEF AllFresh
<1>4. CASE \E p \in Procs : Step(p)
  <2>1. PICK p \in Procs : Step(p)
    BY <1>4
  <2>2. PICK r : proc' = [proc EXCEPT ![p] = r] /\ (r = Idle \/ Kept(p, r))
    BY <2>1, StepLearns DEF Learns
  <2>3. Next
    BY <2>1 DEF Next
  <2>4. CASE r = Idle
    BY <1>3, <2>2, <2>3, <2>4, SessionAssumption DEF Fresh, Idle
  <2>5. CASE Kept(p, r)
    <3>1. Fresh(r, db)
      BY <1>1, <2>5 DEF Kept, AllFresh, Fresh
    <3>2. Fresh(r, db')
      BY <2>3, <2>5, <3>1, FreshStays DEF Kept
    <3>3. QED
      BY <1>3, <2>2, <2>3, <3>2
  <2>6. QED
    BY <2>2, <2>4, <2>5
<1>5. ASSUME Next, NEW p \in Procs, NEW cmd, NEW c \in Conns, NEW t,
             proc' = [proc EXCEPT ![p] = Running(cmd, c, t)], db' = db
      PROVE  AllFresh'
  <2>1. Running(cmd, c, t).since = db[c] /\ Running(cmd, c, t).conn = c
        /\ Running(cmd, c, t).ver = NoVersion
    BY DEF Running, Idle
  <2>2. db[c] <= db[c]
    BY DEF IInv, TypeOK, DbTypeOK, Versions, NoVersion
  <2>3. Fresh(Running(cmd, c, t), db')
    BY <1>5, <2>1, <2>2 DEF Fresh
  <2>4. QED
    BY <1>3, <1>5, <2>3
<1>6. CASE \E r \in Reqs, cmd \in CommandNames \ {"fetch"}, c \in Conns,
          t \in Topics \union {None} : Start(r, cmd, c, t)
  BY <1>5, <1>6 DEF Start, SharedUnchanged, Procs, Next
<1>7. CASE \E f \in Fetches, c \in Conns : StartFetch(f, c)
  BY <1>5, <1>7 DEF StartFetch, SharedUnchanged, Procs, Next
<1>8. CASE \E f \in Fetches : Stop(f)
  BY <1>8 DEF Stop, AllFresh
<1>9. QED
  BY <1>2, <1>4, <1>6, <1>7, <1>8 DEF Next

\* metadata_client, admin_client and get_or_create: whatever requests in
\* flight have left in the pools, a request issued after an edit was saved is
\* handed a client built from the edited settings, or from newer ones.
THEOREM EditsAreHonoured == Spec => []EditsTakeEffect
<1>1. Init => AllFresh
  BY SessionAssumption DEF Init, AllFresh, Fresh, Idle
<1>2. IInv /\ AllFresh => EditsTakeEffect
  <2> SUFFICES ASSUME IInv, AllFresh, NEW p \in Procs,
                      proc[p].client # NoVersion
               PROVE  proc[p].client >= proc[p].since
    BY DEF EditsTakeEffect
  <2>1. /\ proc[p].client = proc[p].ver /\ proc[p].ver \in Nat
        /\ proc[p].since \in Nat
    BY DEF IInv, Good, Command, Versions, NoVersion
  <2>2. proc[p].conn \in Conns
    BY DEF IInv, Good, Idle
  <2>3. QED
    BY <2>1, <2>2 DEF AllFresh, Fresh
<1>3. QED
  BY <1>1, <1>2, FreshPreserved, SpecInvariant, PTL DEF Spec

\* Every way out of connection_fetch_messages unregisters the fetch.
THEOREM FinishedFetchesAreForgotten == Spec => []FinishedFetchHasNoOwner
<1>1. IInv => FinishedFetchHasNoOwner
  BY DEF IInv, Owns, FinishedFetchHasNoOwner
<1>2. QED
  BY <1>1, SpecInvariant, PTL

\* The commands that can still be charged with a rejection on c.
Chargeable(c) == {p \in Procs : MayBeCharged(p, c)}

\* There are at most as many commands to charge as there are commands.
LEMMA ChargeableIsFinite ==
    ASSUME NEW c \in Conns
    PROVE  /\ IsFiniteSet(Procs) /\ Cardinality(Procs) \in Nat
           /\ IsFiniteSet(Chargeable(c)) /\ Cardinality(Chargeable(c)) \in Nat
           /\ Cardinality(Chargeable(c)) <= Cardinality(Procs)
<1>1. IsFiniteSet(Procs)
  BY SessionAssumption, FS_Union DEF Procs
<1>2. Chargeable(c) \in SUBSET Procs
  BY DEF Chargeable
<1>3. QED
  BY <1>1, <1>2, FS_Subset, FS_CardinalityType

\* The books balance when one command p goes from proc[p] to r.
LEMMA BooksBalance ==
    ASSUME IInv, IInv', AttemptsOvershootIsBounded, NEW p \in Procs, NEW r,
           proc' = [proc EXCEPT ![p] = r], Books(p, r)
    PROVE  AttemptsOvershootIsBounded'
<1> SUFFICES ASSUME NEW c \in Conns
             PROVE  attempts'[c] + Cardinality(Chargeable(c)')
                       <= MAX_AUTH_ATTEMPTS - 1 + Cardinality(Procs)
  BY DEF AttemptsOvershootIsBounded, Chargeable
<1> DEFINE old == Chargeable(c)
           new == Chargeable(c)'
<1>1. /\ attempts[c] \in Nat /\ attempts'[c] \in Nat
      /\ MAX_AUTH_ATTEMPTS \in Nat \ {0}
  BY RegistryAssumption DEF IInv, TypeOK, RegistryTypeOK
<1>2. attempts[c] + Cardinality(old)
         <= MAX_AUTH_ATTEMPTS - 1 + Cardinality(Procs)
  BY DEF AttemptsOvershootIsBounded, Chargeable
<1>3. proc'[p] = r /\ \A q \in Procs \ {p} : proc'[q] = proc[q]
  BY DEF IInv, TypeOK
<1>4. /\ \A q \in Procs : q \in old <=> Charged(proc[q], c)
      /\ \A q \in Procs : q \in new <=> Charged(proc'[q], c)
      /\ old \subseteq Procs /\ new \subseteq Procs
  BY DEF Chargeable, MayBeCharged, Charged, Ahead
<1>5. /\ \A q \in Procs \ {p} : q \in new <=> q \in old
      /\ p \in new <=> Charged(r, c)
      /\ p \in old <=> Charged(proc[p], c)
  BY <1>3, <1>4
<1>6. /\ IsFiniteSet(Procs) /\ Cardinality(Procs) \in Nat
      /\ IsFiniteSet(old) /\ Cardinality(old) \in Nat
  BY ChargeableIsFinite
<1>7. /\ IsFiniteSet(new) /\ Cardinality(new) \in Nat
      /\ Cardinality(new) <= Cardinality(Procs)
  BY <1>4, <1>6, FS_Subset, FS_CardinalityType
<1> HIDE DEF old, new
<1>8. CASE attempts'[c] <= attempts[c] /\ (Charged(r, c) => Charged(proc[p], c))
  <2>1. new \in SUBSET old
    BY <1>4, <1>5, <1>8
  <2>2. Cardinality(new) <= Cardinality(old)
    BY <1>6, <2>1, FS_Subset
  <2>3. QED
    BY <1>1, <1>2, <1>6, <1>7, <1>8, <2>2 DEF new
<1>9. CASE attempts'[c] <= attempts[c] /\ attempts[c] < MAX_AUTH_ATTEMPTS
  BY <1>1, <1>6, <1>7, <1>9 DEF new
<1>10. CASE /\ attempts'[c] = attempts[c] + 1
            /\ Charged(proc[p], c) /\ ~Charged(r, c)
  <2>1. p \in old /\ new = old \ {p}
    BY <1>4, <1>5, <1>10
  <2>2. Cardinality(new) = Cardinality(old) - 1
    BY <1>6, <2>1, FS_RemoveElement
  <2>3. QED
    BY <1>1, <1>2, <1>6, <1>10, <2>2 DEF new
<1>11. QED
  BY <1>8, <1>9, <1>10 DEF Books

\* A step that charges nobody and leaves p as r keeps the books balanced.
LEMMA UnchargedBalance ==
    ASSUME NEW p \in Procs, NEW r, attempts' = attempts,
           \A c \in Conns : ~Charged(r, c), IInv
    PROVE  Books(p, r)
<1>1. \A c \in Conns : attempts'[c] <= attempts[c]
  BY AttemptsAreNaturals
<1>2. QED
  BY <1>1 DEF Books

\* The bound on the breaker's count is kept by every step: what a rejection
\* adds to the count it takes from the commands that can still be charged.
LEMMA OvershootStays ==
    ASSUME IInv, [Next]_vars, AttemptsOvershootIsBounded
    PROVE  AttemptsOvershootIsBounded'
<1>1. IInv'
  BY NextPreserves
<1>2. ASSUME NEW p \in Procs, NEW r, attempts' = attempts,
             \A c \in Conns : ~Charged(r, c), proc' = [proc EXCEPT ![p] = r]
      PROVE  AttemptsOvershootIsBounded'
  BY <1>1, <1>2, UnchargedBalance, BooksBalance
<1>3. CASE \E r \in Reqs, cmd \in CommandNames \ {"fetch"}, c \in Conns,
              t \in Topics \union {None} : Start(r, cmd, c, t)
  BY <1>2, <1>3, StartLemma DEF Procs
<1>4. CASE \E f \in Fetches, c \in Conns : StartFetch(f, c)
  BY <1>2, <1>4, StartFetchLemma DEF Procs
<1>5. ASSUME attempts' = attempts, proc' = proc
      PROVE  AttemptsOvershootIsBounded'
  BY <1>5 DEF AttemptsOvershootIsBounded, MayBeCharged, Ahead
<1>6. CASE \E f \in Fetches : Stop(f)
  BY <1>5, <1>6, StopLemma
<1>7. CASE \E p \in Procs : Step(p)
  <2>1. PICK p \in Procs : Step(p)
    BY <1>7
  <2>2. PICK r : proc' = [proc EXCEPT ![p] = r] /\ Books(p, r)
    BY <2>1, StepEffect DEF Effect
  <2>3. QED
    BY <1>1, <2>2, BooksBalance
<1>8. CASE UNCHANGED vars
  BY <1>5, <1>8, StutterLemma
<1>9. QED
  BY <1>3, <1>4, <1>6, <1>7, <1>8 DEF Next

\* The breaker never counts more rejections than its limit and the requests
\* that were past it when it tripped: with N commands in flight, at most
\* MAX_AUTH_ATTEMPTS - 1 + N (auth_block_reason, record_auth_failure).
THEOREM OvershootIsBounded == Spec => []AttemptsOvershootIsBounded
<1>1. Init => AttemptsOvershootIsBounded
  <2> SUFFICES ASSUME Init, NEW c \in Conns
               PROVE  attempts[c] + Cardinality(Chargeable(c))
                         <= MAX_AUTH_ATTEMPTS - 1 + Cardinality(Procs)
    BY DEF AttemptsOvershootIsBounded, Chargeable
  <2>1. attempts[c] = 0
    BY DEF Init, RegistryInit
  <2>2. QED
    BY <2>1, ChargeableIsFinite, RegistryAssumption
<1>2. IInv /\ [Next]_vars /\ AttemptsOvershootIsBounded
         => AttemptsOvershootIsBounded'
  BY OvershootStays
<1>3. QED
  BY <1>1, <1>2, SpecInvariant, PTL DEF Spec
-----------------------------------------------------------------------------
(* Stops.  A recorded Stop is only forgotten by its own fetch when that    *)
(* fetch is over, and a disconnect stops every fetch it has claimed.  A    *)
(* fetch that is past its call and its finish_flag never comes to one      *)
(* again (StaysOver): its list of steps only gets shorter, or longer by    *)
(* what marks a connection disconnected.  So once a disconnect has         *)
(* cancelled a fetch, the flag stands for as long as the fetch is          *)
(* Registered, and afterwards nothing is owed (Honoured).                  *)

\* What a disconnect has copied are fetches that have begun, and those it has
\* done with are told to stop.
Honoured ==
    \A p \in Reqs : \A f \in proc[p].ids :
        /\ f \notin unstarted
        /\ f \notin proc[p].left /\ Registered(f) => flags[f] = "stop"

\* p goes on with its copy of the ids, or without one.
KeepsClaims(p) ==
    \/ proc'[p].ids = {}
    \/ proc'[p].ids = proc[p].ids /\ proc'[p].left = proc[p].left
-----------------------------------------------------------------------------
(* Flags. *)

\* Only the fetch itself, finishing, lowers its flag.
LEMMA FlagsStand ==
    ASSUME IInv, Next, NEW f \in Fetches, flags[f] = "stop", flags'[f] # "stop"
    PROVE  At(f, "finish_flag") /\ CancellationStep(f)
<1>1. flags \in [Fetches -> {"absent", "clear", "stop"}]
  BY DEF IInv, TypeOK, CancellationTypeOK
<1>2. ASSUME NEW g \in Fetches, StoreStop(g) PROVE flags'[f] = "stop"
  BY <1>1, <1>2 DEF StoreStop
<1>3. flags' # flags
  OBVIOUS
<1>4. PICK p \in Procs : CancellationStep(p) \/ CancelEach(p)
  <2>1. ASSUME NEW r, NEW cmd, NEW c, NEW t, Start(r, cmd, c, t) PROVE FALSE
    BY <1>3, <2>1 DEF Start, SharedUnchanged, cancellationVars
  <2>2. ASSUME NEW g, NEW c, StartFetch(g, c) PROVE FALSE
    BY <1>3, <2>2 DEF StartFetch, SharedUnchanged, cancellationVars
  <2>3. ASSUME NEW g \in Fetches, Stop(g) PROVE FALSE
    BY <1>2, <2>3 DEF Stop
  <2>4. PICK p \in Procs : Step(p)
    BY <2>1, <2>2, <2>3 DEF Next
  <2>5. CancellationStep(p) \/ CancelEach(p)
    BY <1>3, <2>4 DEF Step, RegistryStep, Bump, Gate, CheckConnected, CheckDenied,
       Load, DbUpdate, DbReload, DbDelete, DbDeleteSchemas, Snapshot, TakeClient,
       BuildFails, Release, Call, FetchStoppedEarly, Publish, FetchSchema,
       SharedUnchanged, cancellationVars
  <2> QED BY <2>5
<1>5. ~CancelEach(p)
  <2>1. proc[p].left \subseteq Fetches
    BY DEF IInv, TypeOK, Command
  <2> QED BY <1>2, <1>3, <2>1 DEF CancelEach, cancellationVars
<1>6. \/ At(p, "begin") /\ InsertFlag(p)
      \/ At(p, "finish_flag") /\ RemoveFlag(p)
  BY <1>3, <1>4, <1>5 DEF CancellationStep, InsertOwner, RemoveOwner
<1>7. At(p, "finish_flag") /\ RemoveFlag(p)
  BY <1>1, <1>6 DEF InsertFlag
<1>8. p = f
  BY <1>1, <1>7 DEF RemoveFlag
<1> QED BY <1>4, <1>5, <1>7, <1>8

\* A Stop that was recorded, before the fetch registered or after, is
\* forgotten by nobody but the fetch, when it is over (begin keeps the entry
\* a cancel has made; finish removes it).
THEOREM StopsStand == Spec => RecordedStopStands
<1>1. IInv /\ [Next]_vars =>
        [\A f \in Fetches : flags[f] = "stop" /\ flags'[f] # "stop"
                              => At(f, "finish_flag")]_vars
  BY FlagsStand
<1> QED BY <1>1, SpecInvariant, PTL DEF Spec, RecordedStopStands
-----------------------------------------------------------------------------
(* Claims. *)

\* What is left of a list is what the command goes on with.
LEMMA ContinueLemma ==
    ASSUME IInv, NEW p \in Procs, NEW s, NEW state \in Command,
           state.ids = proc[p].ids, state.left = proc[p].left,
           Continue(p, s, state)
    PROVE  KeepsClaims(p) /\ proc'[p].todo = s
<1>1. proc'[p] = IF s = <<>> THEN Idle ELSE [state EXCEPT !.todo = s]
  BY DEF Continue, IInv, TypeOK
<1>2. CASE s = <<>>
  BY <1>1, <1>2 DEF KeepsClaims, Idle
<1>3. CASE s # <<>>
  <2>1. /\ [state EXCEPT !.todo = s].todo = s
        /\ [state EXCEPT !.todo = s].ids = state.ids
        /\ [state EXCEPT !.todo = s].left = state.left
    BY DEF Command
  <2> QED BY <1>1, <1>3, <2>1 DEF KeepsClaims
<1> QED BY <1>2, <1>3

\* Only cancel_all_for_connection touches the copy.
LEMMA StepKeepsClaims ==
    ASSUME IInv, NEW p \in Procs, Step(p), ~Snapshot(p),
           ~(\E f \in proc[p].left :
                StoreStop(f) /\ proc' = [proc EXCEPT ![p].left = @ \ {f}])
    PROVE  KeepsClaims(p)
<1>1. proc[p] \in Command
  BY DEF IInv, TypeOK
<1>2. ASSUME Advance(p) \/ Return(p) PROVE KeepsClaims(p)
  BY <1>1, <1>2, ContinueLemma DEF Advance, Return
<1>3. ASSUME NEW s, Continue(p, s, proc[p]) PROVE KeepsClaims(p)
  BY <1>1, <1>3, ContinueLemma
<1>4. CASE \/ RegistryStep(p) \/ Gate(p) \/ CheckConnected(p) \/ CheckDenied(p)
           \/ DbUpdate(p) \/ DbReload(p) \/ DbDelete(p) \/ DbDeleteSchemas(p)
           \/ CancellationStep(p) \/ CancelEach(p) \/ Release(p) \/ FetchSchema(p)
  BY <1>2, <1>4 DEF RegistryStep, Gate, CheckConnected, CheckDenied, DbUpdate,
     DbReload, DbDelete, DbDeleteSchemas, CancellationStep, CancelEach, Release,
     FetchSchema
<1>5. CASE Bump(p) \/ BuildFails(p) \/ FetchStoppedEarly(p)
  <2>1. \E s : Continue(p, s, proc[p])
    BY <1>5 DEF Bump, BuildFails, FetchStoppedEarly
  <2> QED BY <1>3, <2>1
<1>6. CASE Load(p)
  <2> DEFINE state == [proc[p] EXCEPT !.ver = db[proc[p].conn]]
  <2>1. At(p, "load") /\ (Return(p) \/ Continue(p, Tail(proc[p].todo), state))
    BY <1>6 DEF Load
  <2>2. proc[p].conn \in Conns
    BY <2>1, AtLemma
  <2>3. db[proc[p].conn] \in Versions \union {NoVersion}
    BY <2>2 DEF IInv, TypeOK, DbTypeOK
  <2>4. state \in Command /\ state.ids = proc[p].ids /\ state.left = proc[p].left
    BY <1>1, <2>3 DEF Command
  <2> HIDE DEF state
  <2> QED BY <1>2, <2>1, <2>4, ContinueLemma
<1>7. CASE TakeClient(p)
  <2>1. PICK pool \in {metadataClients, adminClients, schemaClients} : Taken(p, pool)
    BY <1>7 DEF TakeClient
  <2> DEFINE state == [proc[p] EXCEPT !.client = ClientFor(pool, proc[p].conn, proc[p].ver)]
  <2>2. pool \in Pool /\ proc[p].conn \in Conns
    <3>1. \E x : At(p, x)
      BY <1>7 DEF TakeClient
    <3> QED BY <2>1, <3>1, AtLemma DEF IInv, TypeOK, PoolTypeOK
  <2>3. ClientFor(pool, proc[p].conn, proc[p].ver) \in Versions \union {NoVersion}
    BY <1>1, <2>2, ClientForLemma DEF Command
  <2>4. state \in Command /\ state.ids = proc[p].ids /\ state.left = proc[p].left
    BY <1>1, <2>3 DEF Command
  <2>5. Continue(p, Tail(proc[p].todo), state)
    BY <2>1 DEF Taken
  <2> HIDE DEF state
  <2> QED BY <2>4, <2>5, ContinueLemma
<1>8. ASSUME NEW s, NEW proven \in BOOLEAN,
             Continue(p, s, [proc[p] EXCEPT !.proven = proven])
      PROVE  KeepsClaims(p)
  <2> DEFINE state == [proc[p] EXCEPT !.proven = proven]
  <2>1. state \in Command /\ state.ids = proc[p].ids /\ state.left = proc[p].left
    BY <1>1 DEF Command
  <2>2. Continue(p, s, state)
    BY <1>8
  <2> HIDE DEF state
  <2> QED BY <2>1, <2>2, ContinueLemma
<1>9. CASE Call(p)
  <2>1. PICK outcome \in {"accepted", "rejected", "failed"} :
          Continue(p, AfterCall(proc[p].cmd, outcome),
                   [proc[p] EXCEPT !.proven = outcome = "accepted"])
    BY <1>9 DEF Call
  <2> QED BY <1>8, <2>1
<1>10. CASE Publish(p)
  <2>1. PICK delivered \in BOOLEAN,
             failure \in {"none", "authorization", "authentication", "other",
                          "not_sent"} :
          Continue(p, AfterPublish(delivered, failure),
                   [proc[p] EXCEPT !.proven = delivered])
    BY <1>10 DEF Publish
  <2> QED BY <1>8, <2>1
<1> QED BY <1>4, <1>5, <1>6, <1>7, <1>9, <1>10 DEF Step

\* f goes on with a list that has neither its call nor its finish_flag.
LEMMA GoesPast ==
    ASSUME IInv, NEW f \in Procs, NEW s, NEW state \in Command,
           Continue(f, s, state), ~Has(s, "call"), ~Has(s, "finish_flag")
    PROVE  ~Registered(f)'
<1>1. proc'[f] = IF s = <<>> THEN Idle ELSE [state EXCEPT !.todo = s]
  BY DEF Continue, IInv, TypeOK
<1>2. CASE s = <<>>
  BY <1>1, <1>2 DEF Registered, Idle
<1>3. CASE s # <<>>
  <2>1. [state EXCEPT !.todo = s].todo = s
    BY DEF Command
  <2>2. proc'[f].todo = s
    BY <1>1, <1>3, <2>1
  <2> QED BY <2>2 DEF Registered, Ahead
<1> QED BY <1>2, <1>3

\* A fetch past its call and its finish_flag does not step back to them.
LEMMA StepStaysOver ==
    ASSUME IInv, NEW f \in Procs, Step(f), proc[f].cmd = "fetch", ~Registered(f)
    PROVE  ~Registered(f)'
<1>1. proc[f] \in Command /\ f \in Procs /\ proc \in [Procs -> Command]
  BY DEF IInv, TypeOK
<1>2. ~Ahead(f, "call") /\ ~Ahead(f, "finish_flag")
  BY DEF Registered
<1>3. ASSUME NEW x, At(f, x) PROVE x \notin OpeningSteps \union {"call", "finish_flag"}
  BY <1>2, <1>3, AtLemma DEF Good, Ahead
<1>4. ASSUME NEW x, At(f, x)
      PROVE  LET rest == Tail(proc[f].todo)
             IN  ~Has(rest, "call") /\ ~Has(rest, "finish_flag")
  BY <1>2, <1>4, AtLemma, TailLemma DEF Ahead
<1>5. ASSUME NEW x, At(f, x), NEW state \in Command,
             Continue(f, Tail(proc[f].todo), state)
      PROVE  ~Registered(f)'
  BY <1>4, <1>5, GoesPast
<1>6. CASE RegistryStep(f) \/ CancellationStep(f) \/ Release(f) \/ FetchSchema(f)
  <2>1. (\E x : At(f, x)) /\ Advance(f)
    BY <1>6 DEF RegistryStep, CancellationStep, Release, FetchSchema
  <2> QED BY <1>1, <1>5, <2>1 DEF Advance
<1>7. CASE Bump(f)
  <2>1. At(f, "bump")
    BY <1>7 DEF Bump
  <2> DEFINE rest == Tail(proc[f].todo)
  <2>2. /\ rest \in Seq(Steps) /\ ~Has(rest, "call") /\ ~Has(rest, "finish_flag")
        /\ InOrder(rest)
    BY <1>4, <2>1, AtLemma, TailLemma
  <2> HIDE DEF rest
  <2>3. /\ MarkDisconnected \in Seq(Steps)
        /\ \A x : Has(MarkDisconnected, x) => x \in {"remove_connected", "clear_denials"}
    BY Blocks
  <2>4. \A x : Has(MarkDisconnected \o rest, x)
                 => Has(MarkDisconnected, x) \/ Has(rest, x)
    BY <2>2, <2>3, ConcatLemma
  <2>5. /\ ~Has(MarkDisconnected \o rest, "call")
        /\ ~Has(MarkDisconnected \o rest, "finish_flag")
    BY <2>2, <2>3, <2>4
  <2>6. \/ Continue(f, MarkDisconnected \o rest, proc[f])
        \/ Continue(f, rest, proc[f])
    BY <1>7 DEF Bump, rest
  <2> QED BY <1>1, <2>2, <2>5, <2>6, GoesPast
<1>8. CASE Snapshot(f)
  <2> DEFINE owned == OwnedBy(proc[f].conn)
             state == [proc[f] EXCEPT !.ids = owned, !.left = owned]
  <2>1. At(f, "snapshot") /\ Continue(f, Tail(proc[f].todo), state)
    BY <1>8 DEF Snapshot
  <2>2. owned \in SUBSET Fetches
    BY DEF OwnedBy
  <2> HIDE DEF owned
  <2>3. state \in Command
    BY <1>1, <2>2 DEF Command
  <2> HIDE DEF state
  <2> QED BY <1>5, <2>1, <2>3
<1>9. CASE CancelEach(f)
  <2>1. CASE Advance(f)
    BY <1>1, <1>5, <1>9, <2>1 DEF CancelEach, Advance
  <2>2. CASE \E g \in proc[f].left : proc' = [proc EXCEPT ![f].left = @ \ {g}]
    <3>1. proc'[f].todo = proc[f].todo
      BY <1>1, <2>2 DEF Command
    <3> QED BY <1>2, <3>1 DEF Registered, Ahead
  <2> QED BY <1>9, <2>1, <2>2 DEF CancelEach
<1>10. CASE \/ Gate(f) \/ CheckConnected(f) \/ CheckDenied(f) \/ Load(f)
            \/ DbUpdate(f) \/ DbReload(f) \/ DbDelete(f) \/ DbDeleteSchemas(f)
            \/ TakeClient(f) \/ Call(f) \/ FetchStoppedEarly(f) \/ Publish(f)
  <2>1. \E x \in {"gate", "check_connected", "check_denied", "load", "db_update",
                  "db_reload", "db_delete", "db_delete_schemas", "take_metadata",
                  "take_admin", "take_schema", "call"} : At(f, x)
    BY <1>10 DEF Gate, CheckConnected, CheckDenied, Load, DbUpdate, DbReload,
       DbDelete, DbDeleteSchemas, TakeClient, Call, FetchStoppedEarly, Publish
  <2> QED BY <1>3, <2>1 DEF OpeningSteps
<1>11. CASE BuildFails(f)
  <2>1. \E x \in {"take_metadata", "take_admin", "take_schema"} : At(f, x)
    BY <1>11 DEF BuildFails
  <2> QED BY <1>3, <2>1 DEF OpeningSteps
<1> QED BY <1>6, <1>7, <1>8, <1>9, <1>10, <1>11 DEF Step

\* The steps of the others do not touch its record.
LEMMA StepsTouchOne ==
    ASSUME IInv, NEW p \in Procs, Step(p), NEW q \in Procs, q # p
    PROVE  proc'[q] = proc[q]
<1>1. proc \in [Procs -> Command]
  BY DEF IInv, TypeOK
<1>2. \E r : proc' = [proc EXCEPT ![p] = r]
  BY DEF Step, RegistryStep, Bump, Gate, CheckConnected, CheckDenied, Load,
     DbUpdate, DbReload, DbDelete, DbDeleteSchemas, CancellationStep, Snapshot,
     CancelEach, TakeClient, Taken, BuildFails, Release, Call, FetchStoppedEarly,
     Publish, FetchSchema, Advance, Return, Continue
<1> QED BY <1>1, <1>2

\* A step of a command takes it somewhere.
LEMMA SomeStepIsNext ==
    ASSUME NEW p, Step(p)
    PROVE  \E x : At(p, x)
BY DEF Step, RegistryStep, Bump, Gate, CheckConnected, CheckDenied, Load, DbUpdate,
   DbReload, DbDelete, DbDeleteSchemas, CancellationStep, Snapshot, CancelEach,
   TakeClient, BuildFails, Release, Call, FetchStoppedEarly, Publish, FetchSchema

\* A fetch that has begun and is past its call and its finish_flag stays so.
LEMMA StaysOver ==
    ASSUME IInv, NEW f \in Fetches, f \notin unstarted, Next, ~Registered(f)
    PROVE  ~Registered(f)'
<1>1. f \in Procs /\ proc \in [Procs -> Command] /\ f \notin Reqs
  BY SessionAssumption DEF IInv, TypeOK, Procs
<1>2. CASE proc'[f] = proc[f]
  BY <1>2 DEF Registered, Ahead
<1>3. CASE Step(f)
  <2>1. proc[f].cmd = "fetch"
    <3>1. \E x : At(f, x)
      BY <1>3, SomeStepIsNext
    <3> QED BY <1>1, <3>1, AtLemma DEF Good
  <2> QED BY <1>1, <1>3, <2>1, StepStaysOver
<1>4. proc'[f] = proc[f] \/ Step(f)
  <2>1. ASSUME NEW r \in Reqs, NEW cmd, NEW c, NEW t, Start(r, cmd, c, t)
        PROVE  proc'[f] = proc[f]
    BY <1>1, <2>1 DEF Start
  <2>2. ASSUME NEW g \in Fetches, NEW c, StartFetch(g, c) PROVE proc'[f] = proc[f]
    BY <1>1, <2>2 DEF StartFetch
  <2>3. ASSUME NEW g \in Fetches, Stop(g) PROVE proc'[f] = proc[f]
    BY <2>3 DEF Stop
  <2>4. ASSUME NEW p \in Procs, Step(p), p # f PROVE proc'[f] = proc[f]
    BY <1>1, <2>4, StepsTouchOne
  <2> QED BY <2>1, <2>2, <2>3, <2>4 DEF Next
<1> QED BY <1>2, <1>3, <1>4
-----------------------------------------------------------------------------
(* Honoured is inductive. *)

\* What a step does to the copy of a request: nothing, or what
\* cancel_all_for_connection does.
LEMMA ClaimsMove ==
    ASSUME IInv, Next, NEW p \in Reqs
    PROVE  \/ KeepsClaims(p)
           \/ Snapshot(p)
           \/ \E g \in proc[p].left :
                 StoreStop(g) /\ proc' = [proc EXCEPT ![p].left = @ \ {g}]
<1>1. p \in Procs /\ p \notin Fetches /\ proc \in [Procs -> Command]
  BY SessionAssumption DEF IInv, TypeOK, Procs
<1>2. ASSUME proc'[p] = proc[p] PROVE KeepsClaims(p)
  BY <1>2 DEF KeepsClaims
<1>3. ASSUME NEW r \in Reqs, NEW cmd, NEW c, NEW t, Start(r, cmd, c, t)
      PROVE  KeepsClaims(p)
  <2>1. CASE r = p
    <3>1. proc'[p] = Running(cmd, c, t)
      BY <1>1, <1>3, <2>1 DEF Start
    <3> QED BY <3>1 DEF KeepsClaims, Running, Idle
  <2>2. CASE r # p
    <3>1. proc'[p] = proc[p]
      BY <1>1, <1>3, <2>2 DEF Start
    <3> QED BY <1>2, <3>1
  <2> QED BY <2>1, <2>2
<1>4. ASSUME NEW f \in Fetches, NEW c, StartFetch(f, c) PROVE KeepsClaims(p)
  <2>1. proc'[p] = proc[p]
    BY <1>1, <1>4 DEF StartFetch
  <2> QED BY <1>2, <2>1
<1>5. ASSUME NEW f \in Fetches, Stop(f) PROVE KeepsClaims(p)
  <2>1. proc'[p] = proc[p]
    BY <1>5 DEF Stop
  <2> QED BY <1>2, <2>1
<1>6. ASSUME NEW q \in Procs, Step(q), q # p PROVE KeepsClaims(p)
  <2>1. proc'[p] = proc[p]
    BY <1>1, <1>6, StepsTouchOne
  <2> QED BY <1>2, <2>1
<1>7. CASE Step(p)
  BY <1>1, <1>7, StepKeepsClaims
<1> QED BY <1>3, <1>4, <1>5, <1>6, <1>7 DEF Next

\* A fetch that has begun is never unused again.
LEMMA UnstartedShrinks ==
    ASSUME Next
    PROVE  unstarted' \subseteq unstarted
BY DEF Next, Start, StartFetch, Stop, Step, RegistryStep, Bump, Gate,
   CheckConnected, CheckDenied, Load, DbUpdate, DbReload, DbDelete,
   DbDeleteSchemas, CancellationStep, Snapshot, CancelEach, TakeClient, BuildFails,
   Release, Call, FetchStoppedEarly, Publish, FetchSchema

\* The fetch a disconnect has stopped keeps its flag while it is Registered.
LEMMA StoppedStays ==
    ASSUME IInv, Next, NEW f \in Fetches, f \notin unstarted,
           Registered(f) => flags[f] = "stop", Registered(f)'
    PROVE  flags'[f] = "stop"
<1>1. flags[f] = "stop"
  BY StaysOver
<1>2. ASSUME flags'[f] # "stop" PROVE FALSE
  <2>1. At(f, "finish_flag") /\ CancellationStep(f)
    BY <1>1, <1>2, FlagsStand
  <2>2. f \in Procs /\ proc[f] \in Command
    BY DEF IInv, TypeOK, Procs
  <2> DEFINE rest == Tail(proc[f].todo)
  <2>3. /\ rest \in Seq(Steps)
        /\ \A y : Has(rest, y) => Before("finish_flag", y)
    BY <2>1, <2>2, AtLemma, TailLemma
  <2>4. ~Has(rest, "call") /\ ~Has(rest, "finish_flag")
    BY <2>3 DEF Before
  <2>5. Continue(f, rest, proc[f])
    BY <2>1 DEF CancellationStep, Advance
  <2> HIDE DEF rest
  <2> QED BY <2>2, <2>4, <2>5, GoesPast
<1> QED BY <1>2

\* What has been honoured stays so, whatever step is taken.
LEMMA HonouredStays == IInv /\ Honoured /\ [Next]_vars => Honoured'
<1> SUFFICES ASSUME IInv, Honoured, [Next]_vars PROVE Honoured'
  OBVIOUS
<1>1. CASE UNCHANGED vars
  BY <1>1 DEF Honoured, Registered, Ahead, vars, cancellationVars
<1>2. CASE Next
  <2> SUFFICES ASSUME NEW p \in Reqs, NEW f \in proc'[p].ids
               PROVE  /\ f \notin unstarted'
                      /\ f \notin proc'[p].left /\ Registered(f)'
                            => flags'[f] = "stop"
    BY DEF Honoured
  <2>1. p \in Procs /\ proc \in [Procs -> Command] /\ proc[p] \in Command
    BY DEF IInv, TypeOK, Procs
  <2>2. unstarted' \subseteq unstarted
    BY <1>2, UnstartedShrinks
  <2>3. proc[p].ids \subseteq Fetches /\ proc[p].left \subseteq Fetches
    BY <2>1 DEF Command
  <2>4. CASE KeepsClaims(p)
    BY <1>2, <2>2, <2>3, <2>4, StoppedStays DEF Honoured, KeepsClaims
  <2>5. CASE Snapshot(p)
    <3> DEFINE owned == OwnedBy(proc[p].conn)
               rest == Tail(proc[p].todo)
    <3>1. proc'[p] = IF rest = <<>> THEN Idle
                     ELSE [[proc[p] EXCEPT !.ids = owned, !.left = owned]
                             EXCEPT !.todo = rest]
      BY <2>1, <2>5 DEF Snapshot, Continue
    <3>2. rest # <<>>
      BY <3>1 DEF Idle
    <3>3. proc'[p].ids = owned /\ proc'[p].left = owned
      BY <2>1, <3>1, <3>2 DEF Command
    <3>4. f \in Fetches /\ <<f, proc[p].conn>> \in owners
      BY <3>3 DEF OwnedBy
    <3>5. proc[f].cmd = "fetch"
      BY <3>4 DEF IInv, Owns
    <3>6. f \notin unstarted
      BY <3>5 DEF IInv
    <3> QED BY <2>2, <3>3, <3>6
  <2>6. CASE \E g \in proc[p].left :
                StoreStop(g) /\ proc' = [proc EXCEPT ![p].left = @ \ {g}]
    <3>1. PICK g \in proc[p].left :
            StoreStop(g) /\ proc' = [proc EXCEPT ![p].left = @ \ {g}]
      BY <2>6
    <3>2. proc'[p].ids = proc[p].ids /\ proc'[p].left = proc[p].left \ {g}
      BY <2>1, <3>1 DEF Command
    <3>3. flags'[g] = "stop"
      BY <2>3, <3>1 DEF StoreStop, IInv, TypeOK, CancellationTypeOK
    <3> QED BY <1>2, <2>2, <2>3, <3>2, <3>3, StoppedStays DEF Honoured
  <2> QED BY <1>2, <2>4, <2>5, <2>6, ClaimsMove
<1> QED BY <1>1, <1>2

\* Every fetch a disconnect has claimed and gone past is told to stop, even
\* one that had recorded its owner but not its flag when it was claimed
\* (cancel_all_for_connection, begin).
THEOREM ClaimedFetchesStop == Spec => []DisconnectStopsClaimedFetches
<1>1. Init => Honoured
  BY DEF Init, Honoured, Idle, Procs
<1>2. Honoured => DisconnectStopsClaimedFetches
  BY DEF Honoured, DisconnectStopsClaimedFetches
<1> QED BY <1>1, <1>2, HonouredStays, SpecInvariant, PTL DEF Spec
=============================================================================
