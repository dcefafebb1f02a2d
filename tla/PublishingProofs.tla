--------------------------- MODULE PublishingProofs ---------------------------
(***************************************************************************)
(* What a publish blames and what it answers: for every batch, every code  *)
(* a record may come back with and every order of the error callback's     *)
(* calls.                                                                  *)
(*                                                                         *)
(* The blame.  A producer starts with an empty context, and from then on   *)
(* the context remembers a rejection exactly if the callback told it of    *)
(* one (Context); so the reason a failure is classified by, together with  *)
(* its code, says whether the credentials were rejected (Classified).      *)
(*                                                                         *)
(* The answer.  Every record is delivered, the failed one or never tried   *)
(* (Counted), and all that the partition has of the publish lies before    *)
(* the record in flight (Logged); so a report finds its record at the end  *)
(* of the log, after all those delivered before it (Placed).               *)
(***************************************************************************)
EXTENDS Publishing, BasicLemmas, SequenceTheorems

Shape ==
    /\ attempts \in Nat
    /\ rejected \in BOOLEAN
    /\ DOMAIN outcome = {"delivered", "failure", "not_attempted"}

\* A failure ends the publish.
NotFailedYet ==
    phase \in {"gates", "encode", "send", "in_flight"} =>
        outcome.failure = None

\* The context knows of a rejection what there is to know.
Context ==
    /\ phase \in {"gates", "encode"} => ~rejected
    /\ phase \in {"send", "in_flight"} =>
          /\ authError \in {None, "rejected"}
          /\ lastError \in {None, "rejected", "brokers_down"}
          /\ rejected <=> authError # None
          /\ authError = None => lastError # "rejected"

\* The inductive invariant.
IInv == Shape /\ NotFailedYet /\ Context /\ OnlyRejectionsBlameTheCredentials
-----------------------------------------------------------------------------
\* No reason is none of the two that matter.
LEMMA NoneIsNoReason == None # "rejected" /\ None # "brokers_down"
BY PublishingAssumption DEF Reasons

\* A failure is put down to the credentials exactly if its code says so, or
\* the reason it is classified by.
LEMMA Classified ==
    ASSUME NEW code, NEW reason
    PROVE  classify_produce_error(code, reason) = "Authentication"
             <=> SaysAuthentication(code, None) \/ reason = "rejected"
<1>1. SaysAuthentication(code, reason)
        <=> SaysAuthentication(code, None) \/ reason = "rejected"
  BY NoneIsNoReason DEF SaysAuthentication, is_auth_failure,
                        is_auth_failure_reason
<1>2. CASE SaysAuthentication(code, reason)
  BY <1>1, <1>2 DEF classify_produce_error
<1>3. CASE ~SaysAuthentication(code, reason)
  BY <1>1, <1>3 DEF classify_produce_error
<1> QED BY <1>2, <1>3

\* Nothing has been published.
LEMMA InitInv == Init => IInv
<1> SUFFICES ASSUME Init PROVE IInv
  OBVIOUS
<1>1. phase = "idle" /\ attempts = 0 /\ rejected = FALSE /\ outcome = NoOutcome
  BY DEF Init
<1>2. DOMAIN NoOutcome = {"delivered", "failure", "not_attempted"}
  BY DEF NoOutcome
<1> QED BY <1>1, <1>2 DEF IInv, Shape, NotFailedYet, Context,
           OnlyRejectionsBlameTheCredentials

\* The steps of the command up to the producer.
LEMMA CommandInv ==
    ASSUME IInv,
           \/ Submit \/ PassGates \/ Encode \/ CreationFails \/ Send
           \/ Reconnect
    PROVE  IInv'
<1> USE DEF IInv, gateVars, contextVars, clusterVars
<1>1. CASE Submit
  BY <1>1 DEF Submit, Shape, NoOutcome, NotFailedYet, Context,
     OnlyRejectionsBlameTheCredentials
<1>2. CASE PassGates
  BY <1>2 DEF PassGates, Shape, NotFailedYet, Context,
     OnlyRejectionsBlameTheCredentials
<1>3. CASE Encode
  <2>1. /\ phase = "encode" /\ phase' \in {"idle", "send"}
        /\ lastError' = None /\ authError' = None
        /\ UNCHANGED <<gateVars, outcome, rejected>>
    BY <1>3 DEF Encode
  <2> QED BY <2>1, NoneIsNoReason DEF Shape, NotFailedYet, Context,
             OnlyRejectionsBlameTheCredentials
<1>4. CASE CreationFails
  BY <1>4 DEF CreationFails, Shape, NotFailedYet, Context,
     OnlyRejectionsBlameTheCredentials
<1>5. CASE Send
  BY <1>5 DEF Send, Shape, NotFailedYet, Context,
     OnlyRejectionsBlameTheCredentials
<1>6. CASE Reconnect
  BY <1>6 DEF Reconnect, Shape, NotFailedYet, Context,
     OnlyRejectionsBlameTheCredentials
<1> QED BY <1>1, <1>2, <1>3, <1>4, <1>5, <1>6

\* A record in flight is written, delivered, or heard of.
LEMMA InFlightInv ==
    ASSUME IInv, Write \/ Delivered \/ \E reason \in Reasons : Callback(reason)
    PROVE  IInv'
<1> USE DEF IInv, gateVars, contextVars, clusterVars
<1>1. CASE Write
  BY <1>1 DEF Write, Shape, NotFailedYet, Context,
     OnlyRejectionsBlameTheCredentials
<1>2. CASE Delivered
  <2>1. /\ phase = "in_flight" /\ phase' = "send"
        /\ UNCHANGED <<attempts, rejected, authError, lastError>>
        /\ \E done : outcome' = [outcome EXCEPT !.delivered = done]
    BY <1>2 DEF Delivered
  <2>2. Shape' /\ outcome'.failure = outcome.failure
    BY <2>1 DEF Shape
  <2> QED BY <2>1, <2>2 DEF NotFailedYet, Context,
             OnlyRejectionsBlameTheCredentials
<1>3. ASSUME NEW reason \in Reasons, Callback(reason) PROVE IInv'
  <2>1. /\ phase = "in_flight" /\ phase' = phase
        /\ UNCHANGED <<attempts, outcome>>
        /\ lastError' = reason /\ reason \in {"rejected", "brokers_down"}
        /\ authError' = IF reason = "rejected" /\ authError = None THEN reason
                        ELSE authError
        /\ rejected' = (rejected \/ reason = "rejected")
    BY <1>3 DEF Callback, is_auth_failure_reason, Reasons
  <2> QED BY <2>1, NoneIsNoReason DEF Shape, NotFailedYet, Context,
             OnlyRejectionsBlameTheCredentials
<1> QED BY <1>1, <1>2, <1>3

\* The failure of a record is classified by its code and the context.
LEMMA NotDeliveredInv ==
    ASSUME IInv, NEW code, NotDelivered(code)
    PROVE  IInv'
<1> USE DEF IInv, gateVars, contextVars, clusterVars
<1> DEFINE kind == classify_produce_error(code, failure_reason)
           saysSo == SaysAuthentication(code, None)
<1>1. /\ phase = "in_flight" /\ phase' = "settle" /\ UNCHANGED attempts
      /\ rejected' = (rejected \/ saysSo)
      /\ \E n : outcome' = [outcome EXCEPT
                               !.failure = [index |-> Index, kind |-> kind],
                               !.not_attempted = n]
  BY DEF NotDelivered
<1>2. saysSo \in BOOLEAN
  BY DEF SaysAuthentication, is_auth_failure, is_auth_failure_reason
<1>3. Shape' /\ outcome'.failure = [index |-> Index, kind |-> kind]
  BY <1>1, <1>2 DEF Shape
<1>4. failure_reason = "rejected" <=> rejected
  BY <1>1, NoneIsNoReason DEF failure_reason, Context
<1>5. kind = "Authentication" <=> rejected'
  <2>1. kind = "Authentication" <=> saysSo \/ failure_reason = "rejected"
    BY Classified
  <2> HIDE DEF kind, saysSo
  <2> QED BY <1>1, <1>2, <1>4, <2>1 DEF Shape
<1> QED BY <1>1, <1>3, <1>5 DEF NotFailedYet, Context,
           OnlyRejectionsBlameTheCredentials

\* Settling the outcome changes what the gates look at.
LEMMA SettleInv == IInv /\ Settle => IInv'
<1> SUFFICES ASSUME IInv, Settle PROVE IInv'
  OBVIOUS
<1> USE DEF IInv, gateVars, contextVars, clusterVars
<1>1. /\ phase' = "idle" /\ UNCHANGED <<outcome, rejected>>
  BY DEF Settle
<1>2. attempts' \in {0, 1, attempts, attempts + 1}
  BY DEF Settle
<1> QED BY <1>1, <1>2 DEF Shape, NotFailedYet, Context,
           OnlyRejectionsBlameTheCredentials

\* Every step keeps the invariant.
LEMMA NextInv == IInv /\ [Next]_vars => IInv'
<1> SUFFICES ASSUME IInv, [Next]_vars PROVE IInv'
  OBVIOUS
<1>1. CASE UNCHANGED vars
  BY <1>1 DEF vars, gateVars, contextVars, clusterVars, IInv, Shape,
     NotFailedYet,
     Context, OnlyRejectionsBlameTheCredentials
<1>2. CASE Next
  BY <1>2, CommandInv, InFlightInv, NotDeliveredInv, SettleInv
  DEF Next, Producer
<1> QED BY <1>1, <1>2

\* The invariant holds of every publish.
LEMMA InvHolds == Spec => []IInv
BY InitInv, NextInv, PTL DEF Spec
-----------------------------------------------------------------------------
\* A failed publish is put down to the credentials exactly when the broker
\* rejected them while it ran, whatever else was reported, before or after
\* (ProducerErrorContext, classify_produce_error).
THEOREM Blame == Spec => []OnlyRejectionsBlameTheCredentials
<1>1. IInv => OnlyRejectionsBlameTheCredentials
  BY DEF IInv
<1> QED BY <1>1, InvHolds, PTL

\* The breaker's count grows only with a publish whose credentials were
\* rejected: never with one the broker's access rules refused
\* (record_auth_failure in connection_publish_messages).
THEOREM BreakerIsFed == Spec => DenialsNeverFeedTheBreaker
<1>1. IInv /\ [Next]_vars => [attempts' > attempts => rejected]_vars
  <2> SUFFICES ASSUME IInv, Next, attempts' > attempts PROVE rejected
    OBVIOUS
  <2> USE DEF gateVars, contextVars, clusterVars
  <2>1. attempts \in Nat
    BY DEF IInv, Shape
  <2>2. attempts' # attempts /\ attempts' # 0
    BY <2>1
  <2>3. Settle
    BY <2>2 DEF Next, Submit, PassGates, Encode, CreationFails, Send, Producer,
       Write, Delivered, Callback, NotDelivered, Reconnect
  <2>4. Chargeable
    BY <2>1, <2>2, <2>3 DEF Settle
  <2> QED BY <2>3, <2>4 DEF IInv, OnlyRejectionsBlameTheCredentials,
                             Chargeable,
             FailedWith, Settle
<1> QED BY <1>1, InvHolds, PTL DEF Spec, DenialsNeverFeedTheBreaker
-----------------------------------------------------------------------------
\* A field that can be encoded is null or so many bytes.
LEMMA FieldFacts ==
    ASSUME NEW field \in PublishField, encode_field(field) # Refused
    PROVE  /\ encode_field(field) \in Option(Nat)
           /\ Bytes(encode_field(field)) \in Nat
PROOF
<1>1. field.encoding \in PayloadEncoding /\ field.text \in Text
  BY DEF PublishField
<1>2. encode_field(field) \in Option(Nat)
  BY <1>1 DEF encode_field, PayloadEncoding, Text, Option
<1>3. Bytes(encode_field(field)) \in Nat
  BY <1>2 DEF Bytes, Option
<1> QED BY <1>2, <1>3

\* A message that can be encoded makes a record, of so many bytes.
LEMMA RecordFacts ==
    ASSUME NEW m \in NewPublishMessage, ~Malformed(m)
    PROVE  Record(m) \in EncodedRecord /\ size_bytes(Record(m)) \in Nat
PROOF
<1>1. /\ m.key \in PublishField /\ m.value \in PublishField
      /\ m.headers \in Seq(PublishHeaderInput)
  BY DEF NewPublishMessage
<1> DEFINE n == Len(m.headers)
<1>2. n \in Nat /\ DOMAIN m.headers = 1 .. n
      /\ \A i \in 1 .. n : m.headers[i] \in PublishHeaderInput
  BY <1>1
<1> HIDE DEF n
<1>3. /\ encode_field(m.key) # Refused /\ encode_field(m.value) # Refused
      /\ \A i \in 1 .. n : encode_field(m.headers[i].value) # Refused
  BY <1>2 DEF Malformed
<1>4. /\ encode_field(m.key) \in Option(Nat)
      /\ Bytes(encode_field(m.key)) \in Nat
      /\ encode_field(m.value) \in Option(Nat)
      /\ Bytes(encode_field(m.value)) \in Nat
  BY <1>1, <1>3, FieldFacts
<1>5. ASSUME NEW i \in 1 .. n
      PROVE  /\ m.headers[i].name \in Nat
             /\ encode_field(m.headers[i].value) \in Option(Nat)
             /\ Bytes(encode_field(m.headers[i].value)) \in Nat
  <2>1. m.headers[i].name \in Nat /\ m.headers[i].value \in PublishField
    BY <1>2 DEF PublishHeaderInput
  <2> QED BY <2>1, <1>3, FieldFacts
<1> DEFINE header(i) == [name |-> m.headers[i].name,
                         value |-> encode_field(m.headers[i].value)]
           headers == [i \in 1 .. n |-> header(i)]
<1>6. headers \in Seq([name : Nat, value : Option(Nat)])
  <2>1. \A i \in 1 .. n : header(i) \in [name : Nat, value : Option(Nat)]
    BY <1>5
  <2> HIDE DEF header
  <2> QED BY <1>2, <2>1
<1>7. Record(m) = [key |-> encode_field(m.key),
                   value |-> encode_field(m.value), headers |-> headers]
  BY <1>2 DEF Record
<1>8. Record(m) \in EncodedRecord
  BY <1>4, <1>6, <1>7 DEF EncodedRecord
<1> DEFINE sizes == [i \in 1 .. n |->
                        headers[i].name + Bytes(headers[i].value)]
<1>9. SumFunction(sizes) \in Nat
  <2>1. \A i \in 1 .. n : sizes[i] \in Nat
    BY <1>5
  <2>2. DOMAIN sizes = 1 .. n
    OBVIOUS
  <2>3. IsFiniteSet(1 .. n)
    BY <1>2, FS_Interval
  <2> HIDE DEF sizes
  <2> QED BY <2>1, <2>2, <2>3, SumIsNat DEF SumFunction
<1>10. size_bytes(Record(m))
          = Bytes(encode_field(m.key)) + Bytes(encode_field(m.value))
               + SumFunction(sizes)
  <2>1. /\ Record(m).key = encode_field(m.key)
        /\ Record(m).value = encode_field(m.value)
        /\ Record(m).headers = headers /\ DOMAIN headers = 1 .. n
    BY <1>7
  <2> HIDE DEF headers
  <2> QED BY <2>1 DEF size_bytes
<1> HIDE DEF sizes
<1>11. size_bytes(Record(m)) \in Nat
  BY <1>4, <1>9, <1>10
<1> QED BY <1>8, <1>11

\* A batch that is accepted has as many records as messages.
LEMMA EncodedFacts ==
    ASSUME NEW b \in Seq(NewPublishMessage),
           encode_messages(b, Limits) # Refused
    PROVE  /\ Accepted(b, Limits, Len(b)) /\ Len(b) \in Nat \ {0}
           /\ Len(b) <= Limits.max_batch_messages
           /\ encode_messages(b, Limits) \in Seq(EncodedRecord)
           /\ Len(encode_messages(b, Limits)) = Len(b)
PROOF
<1>1. /\ b # <<>> /\ ~(Len(b) > Limits.max_batch_messages)
      /\ Accepted(b, Limits, Len(b))
      /\ encode_messages(b, Limits) = [i \in DOMAIN b |-> Record(b[i])]
  BY DEF encode_messages
<1> DEFINE n == Len(b)
<1>2. n \in Nat /\ n # 0 /\ DOMAIN b = 1 .. n
      /\ \A i \in 1 .. n : b[i] \in NewPublishMessage
  BY <1>1
<1>3. Limits.max_batch_messages \in Nat
  BY PublishingAssumption DEF PublishLimits
<1>4. \A i \in 1 .. n : Record(b[i]) \in EncodedRecord
  BY <1>1, <1>2, RecordFacts DEF Accepted
<1> HIDE DEF n
<1>5. n <= Limits.max_batch_messages
  BY <1>1, <1>2, <1>3 DEF n
<1>6. encode_messages(b, Limits) = [i \in 1 .. n |-> Record(b[i])]
  BY <1>1, <1>2
<1>7. /\ encode_messages(b, Limits) \in Seq(EncodedRecord)
      /\ Len(encode_messages(b, Limits)) = n
  BY <1>2, <1>4, <1>6
<1> QED BY <1>1, <1>2, <1>5, <1>7 DEF n

\* Every message of an accepted batch could have been published alone.
LEMMA AcceptedAlone ==
    ASSUME NEW b \in Seq(NewPublishMessage), NEW j \in DOMAIN b,
           encode_messages(b, Limits) # Refused
    PROVE  encode_messages(<<b[j]>>, Limits) # Refused
PROOF
<1> DEFINE n == Len(b)
           m == b[j]
           size(k) == size_bytes(Record(b[k]))
           sizes == [k \in 1 .. n |-> size(k)]
<1>1. /\ Accepted(b, Limits, n) /\ n \in Nat \ {0}
      /\ n <= Limits.max_batch_messages
  BY EncodedFacts
<1>2. j \in 1 .. n /\ m \in NewPublishMessage
      /\ \A k \in 1 .. n : b[k] \in NewPublishMessage
  OBVIOUS
<1>3. /\ ~Malformed(m)
      /\ size(j) <= Limits.max_message_size_bytes
      /\ SumFunction(sizes) <= Limits.max_batch_bytes
      /\ \A k \in 1 .. n : ~Malformed(b[k])
  <2>1. n \in 1 .. n
    BY <1>1
  <2>2. SumFunction(sizes) <= Limits.max_batch_bytes
    BY <1>1, <2>1 DEF Accepted
  <2>3. size(j) <= Limits.max_message_size_bytes
    BY <1>1, <1>2 DEF Accepted
  <2>4. \A k \in 1 .. n : ~Malformed(b[k])
    BY <1>1 DEF Accepted
  <2> QED BY <1>2, <2>2, <2>3, <2>4
<1>4. \A k \in 1 .. n : size(k) \in Nat
  BY <1>2, <1>3, RecordFacts
<1>5. /\ Limits.max_message_size_bytes \in Nat
      /\ Limits.max_batch_bytes \in Nat /\ Limits.max_batch_messages \in Nat
  BY PublishingAssumption DEF PublishLimits
<1>6. size(j) <= SumFunction(sizes)
  <2>1. IsFiniteSet(1 .. n) /\ IsFiniteSet((1 .. n) \ {j})
    <3>1. IsFiniteSet(1 .. n)
      BY <1>1, FS_Interval
    <3> QED BY <3>1, FS_RemoveElement
  <2>2. /\ DOMAIN sizes = 1 .. n /\ sizes[j] = size(j)
        /\ \A k \in 1 .. n : sizes[k] \in Nat /\ sizes[k] \in Int
    BY <1>2, <1>4
  <2> HIDE DEF sizes
  <2>3. SumFunctionOnSet(sizes, 1 .. n)
           = sizes[j] + SumFunctionOnSet(sizes, (1 .. n) \ {j})
    BY <1>2, <2>1, <2>2, SumOfOneMore
  <2>4. SumFunctionOnSet(sizes, (1 .. n) \ {j}) \in Nat
    BY <2>1, <2>2, SumIsNat
  <2> DEFINE rest == SumFunctionOnSet(sizes, (1 .. n) \ {j})
             all == SumFunctionOnSet(sizes, 1 .. n)
  <2>5. size(j) \in Nat /\ all = size(j) + rest /\ rest \in Nat
    BY <1>2, <1>4, <2>2, <2>3, <2>4
  <2> HIDE DEF rest, all, size
  <2>6. size(j) <= all
    BY <2>5
  <2> QED BY <2>2, <2>6 DEF SumFunction, all
<1> DEFINE alone == [k \in 1 .. 1 |-> size_bytes(Record(<<m>>[k]))]
<1>7. SumFunction(alone) = size(j)
  <2>1. DOMAIN alone = {1} /\ alone[1] = size(j)
    OBVIOUS
  <2>2. alone[1] \in Int
    BY <1>2, <1>4, <2>1
  <2> HIDE DEF alone
  <2>3. SumFunction(alone) = alone[1]
    BY <2>1, <2>2, SumOfOne
  <2> QED BY <2>1, <2>3
<1>8. SumFunction(sizes) \in Nat
  <2>1. /\ DOMAIN sizes = 1 .. n
        /\ \A k \in 1 .. n : sizes[k] \in Nat
    BY <1>4
  <2>2. IsFiniteSet(1 .. n)
    BY <1>1, FS_Interval
  <2> HIDE DEF sizes
  <2> QED BY <2>1, <2>2, SumIsNat DEF SumFunction
<1>9. SumFunction(alone) <= Limits.max_batch_bytes
  <2>1. size(j) \in Nat
    BY <1>2, <1>4
  <2> DEFINE total == SumFunction(sizes)
             limit == Limits.max_batch_bytes
  <2>2. size(j) <= total /\ total <= limit /\ total \in Nat /\ limit \in Nat
    BY <1>3, <1>5, <1>6, <1>8
  <2> HIDE DEF size, total, limit
  <2>3. size(j) <= limit
    BY <2>1, <2>2
  <2> QED BY <2>3, <1>7 DEF limit
<1>10. Accepted(<<m>>, Limits, 1)
  <2> SUFFICES ASSUME NEW i \in 1 .. 1
               PROVE  /\ ~Malformed(<<m>>[i])
                      /\ size_bytes(Record(<<m>>[i]))
                            <= Limits.max_message_size_bytes
                      /\ SumFunction([k \in 1 .. i |->
                                        size_bytes(Record(<<m>>[k]))])
                            <= Limits.max_batch_bytes
    BY DEF Accepted
  <2>1. i = 1 /\ <<m>>[1] = m
    OBVIOUS
  <2> QED BY <2>1, <1>3, <1>9
<1>11. encode_messages(<<m>>, Limits)
         = [i \in DOMAIN <<m>> |-> Record(<<m>>[i])]
  <2>1. Len(<<m>>) = 1 /\ <<m>> # <<>> /\ ~(1 > Limits.max_batch_messages)
    BY <1>1, <1>5
  <2> QED BY <2>1, <1>10 DEF encode_messages
<1>12. Record(m) \in EncodedRecord
  BY <1>2, <1>3, RecordFacts
<1>13. encode_messages(<<m>>, Limits) = <<Record(m)>>
  BY <1>11
<1>14. <<Record(m)>> \in Seq(EncodedRecord)
  BY <1>12
<1> QED BY <1>13, <1>14, PublishingAssumption
-----------------------------------------------------------------------------
\* The shape of what is counted, whatever the phase.
Counts ==
    /\ TypeOK
    /\ outcome \in [delivered : Seq([index : Nat, offset : Nat]),
                    failure : Option(PublishFailure),
                    not_attempted : Nat]
    /\ log \in Seq(Nat \X Nat)

\* Records are only sent that their whole batch was accepted for.
Encoded ==
    /\ phase \in {"gates", "encode"} => records = <<>> /\ outcome = NoOutcome
    /\ phase \in {"send", "in_flight", "settle"} => records # <<>>
    /\ records # <<>> => /\ encode_messages(batch, Limits) # Refused
                         /\ records = encode_messages(batch, Limits)
    /\ phase \in {"encode", "send", "in_flight", "settle"}
          => attempts < MAX_AUTH_ATTEMPTS

\* Every record is delivered, the failed one, or never attempted.
Counted ==
    /\ Index <= Len(records)
    /\ phase = "in_flight" => Index < Len(records)
    /\ outcome.failure = None => outcome.not_attempted = 0
    /\ outcome.failure # None =>
          /\ outcome.failure.index = Index
          /\ Index + 1 + outcome.not_attempted = Len(records)
    /\ phase = "settle" /\ outcome.failure = None => Index = Len(records)

\* What the log has of this publish: nothing before its records are made, and
\* no record after the one in flight, or the one that failed.
Logged ==
    /\ \A k \in DOMAIN log :
          /\ log[k][1] <= publishes
          /\ records = <<>> => log[k][1] < publishes
          /\ log[k][1] = publishes =>
                \/ log[k][2] < Index
                \/ log[k][2] = Index /\ (\/ phase = "in_flight"
                                         \/ outcome.failure # None)
    /\ phase = "in_flight" /\ writes > 0
          => log # <<>> /\ log[Len(log)] = <<publishes, Index>>

\* The i-th message delivered is where its report says, after those before it.
Placed(i) ==
    LET d == outcome.delivered[i]
    IN  /\ d.index = i - 1
        /\ d.offset + 1 \in DOMAIN log
        /\ log[d.offset + 1] = <<publishes, i - 1>>
        /\ \A j \in 1 .. i - 1 : outcome.delivered[j].offset < d.offset

\* The second inductive invariant, on top of IInv.
Account ==
    /\ Counts /\ Encoded /\ Counted /\ Logged
    /\ \A i \in DOMAIN outcome.delivered : Placed(i)
-----------------------------------------------------------------------------
\* Nothing is counted before the first publish.
LEMMA InitAccount == Init => Account
PROOF
<1> SUFFICES ASSUME Init PROVE Account
  OBVIOUS
<1>1. /\ phase = "idle" /\ batch = <<>> /\ records = <<>> /\ log = <<>>
      /\ outcome = NoOutcome /\ publishes = 0 /\ writes = 0 /\ attempts = 0
  BY DEF Init
<1>2. Index = 0 /\ outcome.failure = None /\ outcome.not_attempted = 0
      /\ DOMAIN outcome.delivered = {}
  BY <1>1 DEF Index, NoOutcome
<1>3. TypeOK
  <2>1. /\ attempts \in 0 .. MAX_AUTH_ATTEMPTS
        /\ publishes \in 0 .. MaxPublishes /\ writes \in 0 .. MaxWrites
    BY <1>1, PublishingAssumption
  <2>2. /\ Len(records) \in 0 .. Len(batch)
        /\ outcome.not_attempted \in 0 .. Len(records)
    <3>1. Len(records) = 0 /\ Len(batch) = 0
      BY <1>1
    <3> QED BY <3>1, <1>2
  <2> QED BY <1>1, <1>2, <2>1, <2>2 DEF TypeOK, Init, Option
<1>4. Counts
  BY <1>1, <1>3 DEF Counts, NoOutcome, Option
<1>5. Encoded /\ Counted /\ Logged
  BY <1>1, <1>2 DEF Encoded, Counted, Logged
<1> QED BY <1>2, <1>4, <1>5 DEF Account

\* The types a step that counts nothing starts from, one by one.
LEMMA CountsFacts ==
    ASSUME Counts
    PROVE  /\ records = <<>> \/ records # <<>>
           /\ Index \in Nat /\ DOMAIN outcome.delivered = 1 .. Index
           /\ outcome.delivered \in Seq([index : Nat, offset : Nat])
           /\ outcome.not_attempted \in Nat
           /\ outcome.failure # None =>
                 outcome.failure \in PublishFailure
           /\ log \in Seq(Nat \X Nat) /\ Len(log) \in Nat
           /\ DOMAIN log = 1 .. Len(log)
           /\ attempts \in Nat /\ attempts <= MAX_AUTH_ATTEMPTS
           /\ publishes \in Nat /\ writes \in Nat
           /\ Len(records) \in Nat
           /\ batch \in Seq(NewPublishMessage) /\ Len(batch) \in Nat
PROOF
<1>1. /\ outcome.delivered \in Seq([index : Nat, offset : Nat])
      /\ outcome.not_attempted \in Nat
      /\ outcome.failure \in Option(PublishFailure)
      /\ log \in Seq(Nat \X Nat)
  BY DEF Counts
<1>2. batch \in Seq(NewPublishMessage) /\ Len(batch) \in Nat
  <2>1. batch \in Batches \/ batch = <<>>
    BY DEF Counts, TypeOK
  <2>2. batch \in Seq(NewPublishMessage)
    <3>1. <<>> \in Seq(NewPublishMessage)
      OBVIOUS
    <3> QED BY <2>1, <3>1, PublishingAssumption
  <2> QED BY <2>2
<1>3. /\ attempts \in Nat /\ attempts <= MAX_AUTH_ATTEMPTS
      /\ publishes \in Nat /\ writes \in Nat
  BY PublishingAssumption DEF Counts, TypeOK
<1>4. Len(records) \in Nat
  BY <1>2 DEF Counts, TypeOK
<1> QED BY <1>1, <1>2, <1>3, <1>4 DEF Index, Option

\* Steps that send nothing and report nothing.
LEMMA QuietAccount ==
    ASSUME IInv, Account,
           \/ PassGates \/ CreationFails \/ Send \/ Settle \/ Reconnect
           \/ \E reason \in Reasons : Callback(reason)
           \/ UNCHANGED vars
    PROVE  Account'
PROOF
<1> USE DEF gateVars, contextVars, clusterVars
<1>0. Counts /\ Encoded /\ Counted /\ Logged /\ TypeOK /\ NotFailedYet
  BY DEF Account, Counts, IInv
<1>1. UNCHANGED <<batch, records, outcome, log, publishes>>
  BY DEF PassGates, CreationFails, Send, Settle, Reconnect, Callback, vars
<1>2. Index' = Index
  BY <1>1 DEF Index
<1>3. attempts' \in 0 .. MAX_AUTH_ATTEMPTS
  <2>1. CASE Settle
    <3>1. attempts < MAX_AUTH_ATTEMPTS /\ attempts \in Nat
      BY <1>0, <2>1, CountsFacts DEF Encoded, Settle
    <3>2. attempts' \in {0, 1, attempts, attempts + 1}
      BY <2>1 DEF Settle
    <3> QED BY <3>1, <3>2, PublishingAssumption
  <2>2. CASE ~Settle
    <3>1. attempts' = attempts \/ attempts' = 0
      BY <2>2 DEF PassGates, CreationFails, Send, Reconnect, Callback, vars
    <3> QED BY <1>0, <3>1, PublishingAssumption DEF TypeOK
  <2> QED BY <2>1, <2>2
<1>4. /\ connected' \in BOOLEAN /\ allowed' \in BOOLEAN /\ denied' \in BOOLEAN
      /\ rejected' \in BOOLEAN
  <2>1. CASE Settle
    BY <2>1, <1>0 DEF Settle, TypeOK
  <2>2. CASE \E reason \in Reasons : Callback(reason)
    BY <2>2, <1>0 DEF Callback, TypeOK, is_auth_failure_reason
  <2>3. CASE ~Settle /\ ~\E reason \in Reasons : Callback(reason)
    BY <2>3, <1>0
       DEF PassGates, CreationFails, Send, Reconnect, vars, TypeOK
  <2> QED BY <2>1, <2>2, <2>3
<1>5. /\ phase' \in {"idle", "gates", "encode", "send", "in_flight", "settle"}
      /\ writes' \in 0 .. MaxWrites
  <2>1. CASE Send
    <3>1. writes' = 0 /\ phase' \in {"in_flight", "settle"}
      BY <2>1 DEF Send
    <3> QED BY <3>1, PublishingAssumption
  <2>2. CASE ~Send
    <3>1. writes' = writes /\ phase' \in {phase, "idle", "encode"}
      BY <2>2 DEF PassGates, CreationFails, Settle, Reconnect, Callback, vars
    <3> QED BY <1>0, <3>1 DEF TypeOK
  <2> QED BY <2>1, <2>2
<1>6. lastError' \in Option(Reasons) /\ authError' \in Option({"rejected"})
  <2>1. CASE \E reason \in Reasons : Callback(reason)
    BY <2>1, <1>0 DEF Callback, TypeOK, is_auth_failure_reason, Option
  <2>2. CASE ~\E reason \in Reasons : Callback(reason)
    BY <2>2, <1>0 DEF PassGates, CreationFails, Send, Settle, Reconnect, vars,
       TypeOK
  <2> QED BY <2>1, <2>2
<1>7. Counts'
  BY <1>0, <1>1, <1>3, <1>4, <1>5, <1>6 DEF Counts, TypeOK
<1>8. Encoded'
  <2>1. CASE PassGates
    BY <2>1, <1>0, <1>1, CountsFacts, PublishingAssumption
       DEF PassGates, Encoded
  <2>2. CASE CreationFails \/ Settle \/ Reconnect
    BY <2>2, <1>0, <1>1 DEF CreationFails, Settle, Reconnect, Encoded
  <2>3. CASE Send \/ (\E reason \in Reasons : Callback(reason))
             \/ UNCHANGED vars
    BY <2>3, <1>0, <1>1 DEF Send, Callback, vars, Encoded
  <2> QED BY <2>1, <2>2, <2>3
<1>9. Counted'
  <2>1. CASE Send
    <3>1. phase = "send" /\ Index \in Nat /\ Len(records) \in Nat
          /\ Index <= Len(records) /\ outcome.failure = None
          /\ outcome.not_attempted = 0
      BY <2>1, <1>0, CountsFacts DEF Send, Counted, NotFailedYet
    <3>2. phase' = IF Index < Len(records) THEN "in_flight" ELSE "settle"
      BY <2>1 DEF Send
    <3>3. /\ phase' = "in_flight" => Index < Len(records)
          /\ phase' = "settle" => Index = Len(records)
      BY <3>1, <3>2
    <3> QED BY <1>1, <1>2, <3>1, <3>3 DEF Counted
  <2>2. CASE ~Send
    <3>1. phase' # "settle" \/ phase' = phase
      BY <2>2 DEF PassGates, CreationFails, Settle, Reconnect, Callback, vars
    <3>2. phase' # "in_flight" \/ phase' = phase
      BY <2>2 DEF PassGates, CreationFails, Settle, Reconnect, Callback, vars
    <3> QED BY <1>0, <1>1, <1>2, <3>1, <3>2 DEF Counted
  <2> QED BY <2>1, <2>2
<1>10. Logged'
  <2>1. CASE Send
    <3>1. phase = "send" /\ writes' = 0 /\ outcome.failure = None
      BY <2>1, <1>0 DEF Send, NotFailedYet
    <3> QED BY <1>0, <1>1, <1>2, <3>1 DEF Logged
  <2>2. CASE ~Send
    <3>1. phase = "in_flight" => phase' = phase \/ phase = phase'
      BY <2>2 DEF PassGates, CreationFails, Settle, Reconnect, Callback, vars
    <3>2. phase' = "in_flight" => phase = "in_flight" /\ writes' = writes
      BY <2>2 DEF PassGates, CreationFails, Settle, Reconnect, Callback, vars
    <3> QED BY <1>0, <1>1, <1>2, <3>1, <3>2 DEF Logged
  <2> QED BY <2>1, <2>2
<1>11. \A x \in DOMAIN outcome'.delivered : Placed(x)'
  BY <1>1 DEF Account, Placed
<1> QED BY <1>7, <1>8, <1>9, <1>10, <1>11 DEF Account

\* A publish starts with nothing: the log knows it by a number of its own.
LEMMA SubmitAccount == Account /\ Submit => Account'
PROOF
<1> SUFFICES ASSUME Account, Submit PROVE Account'
  OBVIOUS
<1> USE DEF gateVars, contextVars, clusterVars
<1>0. Counts /\ Encoded /\ Counted /\ Logged /\ TypeOK
  BY DEF Account, Counts
<1>1. /\ publishes' = publishes + 1 /\ publishes < MaxPublishes
      /\ batch' \in Batches /\ phase' = "gates" /\ records' = <<>>
      /\ outcome' = NoOutcome /\ rejected' = FALSE
      /\ UNCHANGED <<gateVars, contextVars, log, writes>>
  BY DEF Submit
<1>2. Index' = 0 /\ outcome'.failure = None /\ outcome'.not_attempted = 0
      /\ DOMAIN outcome'.delivered = {}
  BY <1>1 DEF Index, NoOutcome
<1>3. publishes' \in 0 .. MaxPublishes /\ publishes \in Nat
  BY <1>0, <1>1, CountsFacts, PublishingAssumption
<1>4. Len(records') = 0 /\ Len(batch') \in Nat
  BY <1>1, PublishingAssumption
<1>5. TypeOK'
  <2>1. /\ Len(records') \in 0 .. Len(batch')
        /\ outcome'.not_attempted \in 0 .. Len(records')
    BY <1>2, <1>4
  <2> QED BY <1>0, <1>1, <1>2, <1>3, <2>1 DEF TypeOK
<1>6. Counts'
  BY <1>0, <1>1, <1>5 DEF Counts, NoOutcome, Option
<1>7. Encoded'
  BY <1>1 DEF Encoded
<1>8. Counted'
  BY <1>1, <1>2, <1>4 DEF Counted
<1>9. Logged'
  <2>1. \A k \in DOMAIN log : log[k][1] \in Nat /\ log[k][1] <= publishes
    BY <1>0, CountsFacts DEF Logged
  <2>2. \A k \in DOMAIN log : /\ log[k][1] < publishes + 1
                              /\ log[k][1] <= publishes + 1
                              /\ log[k][1] # publishes + 1
    BY <1>3, <2>1
  <2> QED BY <1>1, <2>2 DEF Logged
<1> QED BY <1>2, <1>6, <1>7, <1>8, <1>9 DEF Account

\* The records are those of the whole batch, or there are none.
LEMMA EncodeAccount == IInv /\ Account /\ Encode => Account'
PROOF
<1> SUFFICES ASSUME IInv, Account, Encode PROVE Account'
  OBVIOUS
<1> USE DEF gateVars, contextVars, clusterVars
<1>0. Counts /\ Encoded /\ Counted /\ Logged /\ TypeOK
  BY DEF Account, Counts
<1>1. /\ phase = "encode" /\ lastError' = None /\ authError' = None
      /\ UNCHANGED <<gateVars, batch, outcome, clusterVars, publishes>>
  BY DEF Encode
<1>2. /\ records = <<>> /\ outcome = NoOutcome
      /\ attempts < MAX_AUTH_ATTEMPTS
  BY <1>0, <1>1 DEF Encoded
<1>3. Index = 0 /\ Index' = 0 /\ outcome.failure = None
      /\ outcome.not_attempted = 0 /\ DOMAIN outcome'.delivered = {}
  BY <1>1, <1>2 DEF Index, NoOutcome
<1>4. batch \in Seq(NewPublishMessage) /\ Len(batch) \in Nat
  BY <1>0, CountsFacts
<1>5. /\ Len(records') \in 0 .. Len(batch)
      /\ \/ phase' = "idle" /\ records' = records
         \/ /\ phase' = "send" /\ records' # <<>>
            /\ encode_messages(batch, Limits) # Refused
            /\ records' = encode_messages(batch, Limits)
  <2>1. CASE encode_messages(batch, Limits) = Refused
    <3>1. phase' = "idle" /\ records' = records /\ Len(records') = 0
      BY <2>1, <1>2 DEF Encode
    <3> QED BY <3>1, <1>4
  <2>2. CASE encode_messages(batch, Limits) # Refused
    <3>1. phase' = "send" /\ records' = encode_messages(batch, Limits)
      BY <2>2 DEF Encode
    <3>2. Len(records') = Len(batch) /\ Len(batch) \in Nat \ {0}
      BY <2>2, <3>1, <1>4, EncodedFacts
    <3>3. records' # <<>>
      BY <3>2
    <3> QED BY <2>2, <3>1, <3>2, <3>3
  <2> QED BY <2>1, <2>2
<1>6. TypeOK'
  <2>1. outcome'.not_attempted \in 0 .. Len(records')
    BY <1>1, <1>3, <1>4, <1>5
  <2>2. lastError' \in Option(Reasons) /\ authError' \in Option({"rejected"})
    BY <1>1 DEF Option
  <2>3. phase' \in {"idle", "gates", "encode", "send", "in_flight", "settle"}
    BY <1>5
  <2> QED BY <1>0, <1>1, <1>3, <1>5, <2>1, <2>2, <2>3 DEF TypeOK
<1>7. Counts'
  BY <1>0, <1>1, <1>6 DEF Counts
<1>8. Encoded'
  BY <1>1, <1>2, <1>5 DEF Encoded
<1>9. Counted'
  BY <1>1, <1>3, <1>4, <1>5 DEF Counted
<1>10. Logged'
  <2>1. \A k \in DOMAIN log : /\ log[k][1] \in Nat /\ log[k][1] < publishes
                              /\ log[k][1] <= publishes
                              /\ log[k][1] # publishes
    <3>1. publishes \in Nat /\ \A k \in DOMAIN log : log[k][1] \in Nat
      BY <1>0, CountsFacts
    <3>2. \A k \in DOMAIN log : log[k][1] < publishes
      BY <1>0, <1>2 DEF Logged
    <3> QED BY <3>1, <3>2
  <2>2. phase' # "in_flight"
    BY <1>5
  <2> QED BY <1>1, <2>1, <2>2 DEF Logged
<1> QED BY <1>3, <1>7, <1>8, <1>9, <1>10 DEF Account

\* librdkafka writes the record in flight, for the first time or again.
LEMMA WriteAccount == IInv /\ Account /\ Write => Account'
PROOF
<1> SUFFICES ASSUME IInv, Account, Write PROVE Account'
  OBVIOUS
<1> USE DEF gateVars, contextVars, clusterVars
<1>0. Counts /\ Encoded /\ Counted /\ Logged /\ TypeOK
  BY DEF Account, Counts
<1>1. /\ phase = "in_flight" /\ writes < MaxWrites
      /\ log' = Append(log, <<publishes, Index>>) /\ writes' = writes + 1
      /\ UNCHANGED <<gateVars, phase, batch, records, outcome, contextVars,
                     publishes, rejected>>
  BY DEF Write
<1>2. Index' = Index /\ Index \in Nat /\ publishes \in Nat /\ writes \in Nat
      /\ DOMAIN outcome.delivered = 1 .. Index
  BY <1>0, <1>1, CountsFacts DEF Index
<1> DEFINE n == Len(log)
           entry == <<publishes, Index>>
<1>3. /\ log \in Seq(Nat \X Nat) /\ n \in Nat /\ DOMAIN log = 1 .. n
      /\ entry \in Nat \X Nat
  BY <1>0, <1>2, CountsFacts
<1>4. /\ log' \in Seq(Nat \X Nat) /\ DOMAIN log' = 1 .. n + 1
      /\ Len(log') = n + 1 /\ log'[n + 1] = entry
      /\ \A k \in 1 .. n : log'[k] = log[k]
  <2>1. log' = Append(log, entry)
    BY <1>1
  <2> HIDE DEF entry
  <2> QED BY <2>1, <1>3
<1>5. writes' \in 0 .. MaxWrites
  BY <1>1, <1>2, PublishingAssumption
<1>6. Counts'
  <2>1. TypeOK'
    BY <1>0, <1>1, <1>5 DEF TypeOK
  <2> QED BY <1>0, <1>1, <1>4, <2>1 DEF Counts
<1>7. Encoded' /\ Counted'
  BY <1>0, <1>1, <1>2 DEF Encoded, Counted
<1>8. Logged'
  <2>1. ASSUME NEW k \in DOMAIN log'
        PROVE  /\ log'[k][1] <= publishes
               /\ records = <<>> => log'[k][1] < publishes
               /\ log'[k][1] = publishes =>
                     log'[k][2] < Index \/ log'[k][2] = Index
    <3>1. CASE k \in 1 .. n
      BY <3>1, <1>0, <1>3, <1>4 DEF Logged
    <3>2. CASE k \notin 1 .. n
      <4>1. k = n + 1
        BY <3>2, <1>3, <1>4
      <4>2. log'[k] = entry /\ records # <<>>
        BY <4>1, <1>0, <1>1, <1>4 DEF Encoded
      <4> QED BY <4>2, <1>2
    <3> QED BY <3>1, <3>2
  <2>2. log' # <<>> /\ log'[Len(log')] = entry
    BY <1>3, <1>4
  <2> QED BY <2>1, <2>2, <1>1, <1>2 DEF Logged
<1>9. ASSUME NEW i \in DOMAIN outcome'.delivered PROVE Placed(i)'
  <2>1. Placed(i) /\ outcome' = outcome /\ publishes' = publishes
    BY <1>1 DEF Account
  <2>2. outcome.delivered[i].offset + 1 \in 1 .. n
    BY <2>1, <1>3 DEF Placed
  <2>3. /\ outcome.delivered[i].offset + 1 \in DOMAIN log'
        /\ log'[outcome.delivered[i].offset + 1]
              = log[outcome.delivered[i].offset + 1]
    BY <2>2, <1>3, <1>4
  <2> QED BY <2>1, <2>3 DEF Placed
<1> QED BY <1>6, <1>7, <1>8, <1>9 DEF Account

\* The record in flight is acknowledged, where it was written last.
LEMMA DeliveredAccount == IInv /\ Account /\ Delivered => Account'
PROOF
<1> SUFFICES ASSUME IInv, Account, Delivered PROVE Account'
  OBVIOUS
<1> USE DEF gateVars, contextVars, clusterVars
<1>0. /\ Counts /\ Encoded /\ Counted /\ Logged /\ TypeOK
      /\ outcome.failure = None /\ outcome.not_attempted = 0
      /\ \A i \in DOMAIN outcome.delivered : Placed(i)
  BY DEF Account, Counts, Counted, IInv, NotFailedYet, Delivered
<1> DEFINE last == [index |-> Index, offset |-> Len(log) - 1]
<1>1. /\ phase = "in_flight" /\ writes > 0 /\ phase' = "send"
      /\ outcome' = [outcome EXCEPT !.delivered = Append(@, last)]
      /\ UNCHANGED <<gateVars, batch, records, contextVars, clusterVars,
                     publishes>>
  BY DEF Delivered
<1> DEFINE n == Index
           m == Len(log)
<1>2. /\ n \in Nat /\ DOMAIN outcome.delivered = 1 .. n
      /\ outcome.delivered \in Seq([index : Nat, offset : Nat])
      /\ m \in Nat /\ DOMAIN log = 1 .. m /\ publishes \in Nat
      /\ Len(records) \in Nat
  BY <1>0, CountsFacts
<1>3. /\ m > 0 /\ log[m] = <<publishes, n>> /\ n < Len(records)
      /\ records # <<>>
  <2>1. log # <<>> /\ log[m] = <<publishes, n>>
    BY <1>0, <1>1 DEF Logged
  <2>2. m # 0
    BY <2>1, <1>0, CountsFacts
  <2> QED BY <2>1, <2>2, <1>0, <1>1, <1>2 DEF Counted, Encoded
<1>4. last \in [index : Nat, offset : Nat]
  BY <1>2, <1>3
<1>5. /\ outcome'.delivered = Append(outcome.delivered, last)
      /\ outcome'.failure = outcome.failure
      /\ outcome'.not_attempted = outcome.not_attempted
      /\ outcome' \in [delivered : Seq([index : Nat, offset : Nat]),
                       failure : Option(PublishFailure),
                       not_attempted : Nat]
  <2>1. outcome \in [delivered : Seq([index : Nat, offset : Nat]),
                     failure : Option(PublishFailure),
                     not_attempted : Nat]
    BY <1>0 DEF Counts
  <2>2. Append(outcome.delivered, last) \in Seq([index : Nat, offset : Nat])
    BY <1>2, <1>4
  <2> HIDE DEF last
  <2> QED BY <2>1, <2>2, <1>1
<1>6. /\ Index' = n + 1 /\ DOMAIN outcome'.delivered = 1 .. n + 1
      /\ outcome'.delivered[n + 1] = last
      /\ \A i \in 1 .. n : outcome'.delivered[i] = outcome.delivered[i]
  <2>1. n = Len(outcome.delivered)
    BY DEF Index
  <2> HIDE DEF last, n
  <2>2. /\ Len(Append(outcome.delivered, last)) = n + 1
        /\ DOMAIN Append(outcome.delivered, last) = 1 .. n + 1
    BY <2>1, <1>2, <1>4
  <2> QED BY <2>1, <2>2, <1>2, <1>4, <1>5 DEF Index
<1>7. last.index = n /\ last.offset = m - 1
  OBVIOUS
<1> HIDE DEF last, n, m
<1>8. Counts'
  <2>1. TypeOK'
    BY <1>0, <1>1, <1>5 DEF TypeOK
  <2> QED BY <1>0, <1>1, <1>5, <2>1 DEF Counts
<1>9. Encoded'
  BY <1>0, <1>1, <1>3 DEF Encoded
<1>10. Counted'
  <2>1. Index' <= Len(records)
    BY <1>2, <1>3, <1>6
  <2> QED BY <2>1, <1>0, <1>1, <1>5 DEF Counted
<1>11. Logged'
  <2>1. \A k \in DOMAIN log :
           log[k][1] = publishes => log[k][2] < n \/ log[k][2] = n
    BY <1>0 DEF Logged, n
  <2>2. \A k \in DOMAIN log : log[k][2] \in Nat
    BY <1>0, CountsFacts
  <2>3. \A k \in DOMAIN log : log[k][1] = publishes => log[k][2] < Index'
    BY <2>1, <2>2, <1>2, <1>6
  <2> QED BY <2>3, <1>0, <1>1 DEF Logged
<1>12. ASSUME NEW i \in DOMAIN outcome'.delivered PROVE Placed(i)'
  <2>1. \A j \in 1 .. n : Placed(j)
    BY <1>0, <1>2
  <2>2. CASE i \in 1 .. n
    <3>1. \A j \in 1 .. i - 1 : j \in 1 .. n
      BY <2>2, <1>2
    <3> QED BY <2>1, <2>2, <3>1, <1>1, <1>6 DEF Placed
  <2>3. CASE i \notin 1 .. n
    <3>1. i = n + 1 /\ i - 1 = n
      BY <2>3, <1>2, <1>6
    <3>2. last.index = i - 1 /\ last.offset + 1 = m
      BY <3>1, <1>2, <1>7
    <3>3. m \in DOMAIN log /\ log[m] = <<publishes, i - 1>>
      BY <3>1, <1>2, <1>3
    <3>4. ASSUME NEW j \in 1 .. n
          PROVE  outcome.delivered[j].offset < last.offset
      <4> DEFINE o == outcome.delivered[j].offset
      <4>1. /\ o + 1 \in 1 .. m /\ log[o + 1] = <<publishes, j - 1>>
            /\ o \in Nat
        <5>1. /\ outcome.delivered[j].offset + 1 \in DOMAIN log
              /\ log[outcome.delivered[j].offset + 1]
                    = <<publishes, j - 1>>
          BY <2>1 DEF Placed
        <5>2. j \in DOMAIN outcome.delivered
          BY <1>2
        <5>3. outcome.delivered[j].offset \in Nat
          <6>1. outcome.delivered \in Seq([index : Nat, offset : Nat])
            BY <1>2
          <6>2. outcome.delivered[j] \in [index : Nat, offset : Nat]
            <7>1. j \in 1 .. Len(outcome.delivered)
              BY <5>2, <6>1
            <7> QED BY <6>1, <7>1, ElementOfSeq
          <6> QED BY <6>2
        <5> QED BY <5>1, <5>3, <1>2
      <4>2. log[o + 1] # log[m]
        <5>1. j - 1 # n
          BY <1>2
        <5> QED BY <5>1, <4>1, <1>3
      <4> HIDE DEF o
      <4>3. o + 1 # m
        BY <4>2
      <4>4. o < m - 1
        BY <4>1, <4>3, <1>2
      <4> QED BY <4>4, <1>7 DEF o
    <3> QED BY <3>1, <3>2, <3>3, <3>4, <1>1, <1>6 DEF Placed
  <2> QED BY <2>2, <2>3
<1> QED BY <1>8, <1>9, <1>10, <1>11, <1>12 DEF Account

\* The failure names the record in flight, and counts those after it.
LEMMA NotDeliveredAccount ==
    ASSUME IInv, Account, NEW code, NotDelivered(code)
    PROVE  Account'
PROOF
<1> USE DEF gateVars, contextVars, clusterVars
<1>0. /\ Counts /\ Encoded /\ Counted /\ Logged /\ TypeOK
      /\ \A i \in DOMAIN outcome.delivered : Placed(i)
  BY DEF Account, Counts
<1> DEFINE kind == classify_produce_error(code, failure_reason)
           failure == [index |-> Index, kind |-> kind]
           left == Len(records) - Index - 1
<1>1. /\ phase = "in_flight" /\ phase' = "settle"
      /\ outcome' = [outcome EXCEPT !.failure = failure,
                                    !.not_attempted = left]
      /\ rejected' = (rejected \/ SaysAuthentication(code, None))
      /\ UNCHANGED <<gateVars, batch, records, contextVars, log, writes,
                     publishes>>
  BY DEF NotDelivered
<1>2. /\ Index \in Nat /\ Len(records) \in Nat /\ Index < Len(records)
      /\ records # <<>>
  BY <1>0, <1>1, CountsFacts DEF Counted, Encoded
<1>3. kind \in PublishFailureKind
  BY DEF classify_produce_error, PublishFailureKind
<1> HIDE DEF kind
<1>4. left \in Nat /\ left \in 0 .. Len(records)
      /\ Index + 1 + left = Len(records)
  BY <1>2
<1>5. /\ failure \in [index : 0 .. Len(records) - 1,
                      kind : PublishFailureKind]
      /\ failure \in PublishFailure
      /\ failure.index = Index
  BY <1>2, <1>3 DEF PublishFailure
<1>6. failure # None
  BY <1>5, PublishingAssumption
<1> HIDE DEF failure, left
<1>7. /\ outcome'.failure = failure /\ outcome'.not_attempted = left
      /\ outcome'.delivered = outcome.delivered
      /\ outcome' \in [delivered : Seq([index : Nat, offset : Nat]),
                       failure : Option(PublishFailure),
                       not_attempted : Nat]
  <2>1. failure \in Option(PublishFailure)
    BY <1>5 DEF Option
  <2>2. outcome \in [delivered : Seq([index : Nat, offset : Nat]),
                     failure : Option(PublishFailure),
                     not_attempted : Nat]
    BY <1>0 DEF Counts
  <2> QED BY <2>1, <2>2, <1>1, <1>4
<1>8. Index' = Index
  BY <1>7 DEF Index
<1>9. Counts'
  <2>1. rejected' \in BOOLEAN
    BY <1>1
  <2>2. TypeOK'
    BY <1>0, <1>1, <1>4, <1>5, <1>7, <2>1 DEF TypeOK
  <2> QED BY <1>0, <1>1, <1>7, <2>2 DEF Counts
<1>10. Encoded'
  BY <1>0, <1>1, <1>2 DEF Encoded
<1>11. Counted'
  BY <1>1, <1>2, <1>4, <1>5, <1>6, <1>7, <1>8 DEF Counted
<1>12. Logged'
  BY <1>0, <1>1, <1>6, <1>7, <1>8 DEF Logged
<1>13. \A i \in DOMAIN outcome'.delivered : Placed(i)'
  BY <1>0, <1>1, <1>7 DEF Placed
<1> QED BY <1>9, <1>10, <1>11, <1>12, <1>13 DEF Account

\* The account is kept by every publish.
LEMMA AccountHolds == Spec => []Account
PROOF
<1>1. IInv /\ Account /\ [Next]_vars => Account'
  BY QuietAccount, SubmitAccount, EncodeAccount, WriteAccount,
     DeliveredAccount, NotDeliveredAccount DEF Next, Producer
<1> QED BY <1>1, InitAccount, InvHolds, PTL DEF Spec
-----------------------------------------------------------------------------
\* What publish_messages answers is what the partition holds: the delivered
\* messages are the first of the batch, in order, each at the offset reported
\* for it, the failed one comes next, and no message after it was ever
\* written; for any batch, however often librdkafka writes a record again.
THEOREM OutcomeIsTheTopic == Spec => []OutcomeInvariant
PROOF
<1>1. Account => OutcomeInvariant
  <2> SUFFICES ASSUME Account PROVE TypeOK /\ OutcomeMatchesTheTopic
    BY DEF OutcomeInvariant
  <2>1. /\ Counts /\ Encoded /\ Counted /\ Logged /\ TypeOK
        /\ \A i \in DOMAIN outcome.delivered : Placed(i)
    BY DEF Account, Counts
  <2> SUFFICES ASSUME phase = "settle" PROVE OutcomeMatchesTheTopic
    BY <2>1 DEF OutcomeMatchesTheTopic
  <2> DEFINE n == Len(outcome.delivered)
  <2>2. /\ n = Index /\ n \in Nat /\ DOMAIN outcome.delivered = 1 .. n
        /\ publishes \in Nat /\ DOMAIN log = 1 .. Len(log)
        /\ \A k \in DOMAIN log : log[k][2] \in Nat
    BY <2>1, CountsFacts DEF Index
  <2>3. Len(records) = Len(batch) /\ Len(batch) \in Nat
    <3>1. /\ records = encode_messages(batch, Limits)
          /\ encode_messages(batch, Limits) # Refused
      BY <2>1 DEF Encoded
    <3> QED BY <3>1, <2>1, CountsFacts, EncodedFacts
  <2>4. ASSUME NEW i \in 1 .. n
        PROVE  LET d == outcome.delivered[i]
               IN  /\ d.index = i - 1
                   /\ log[d.offset + 1] = <<publishes, d.index>>
                   /\ i < n => d.offset < outcome.delivered[i + 1].offset
    <3>1. Placed(i)
      BY <2>1, <2>2
    <3>2. ASSUME i < n
          PROVE  outcome.delivered[i].offset
                    < outcome.delivered[i + 1].offset
      <4>1. i + 1 \in 1 .. n /\ i \in 1 .. (i + 1) - 1
        BY <3>2, <2>2
      <4>2. Placed(i + 1)
        BY <4>1, <2>1, <2>2
      <4> QED BY <4>1, <4>2 DEF Placed
    <3> QED BY <3>1, <3>2 DEF Placed
  <2>5. IF outcome.failure = None
        THEN n = Len(batch) /\ outcome.not_attempted = 0
        ELSE /\ outcome.failure.index = n
             /\ n + 1 + outcome.not_attempted = Len(batch)
    BY <2>1, <2>2, <2>3 DEF Counted
  <2>6. ASSUME NEW i \in n + 1 .. Len(batch) - 1, <<publishes, i>> \in Written
        PROVE  FALSE
    <3>1. PICK k \in DOMAIN log : log[k] = <<publishes, i>>
      BY <2>6 DEF Written
    <3>2. log[k][2] < Index \/ log[k][2] = Index
      BY <3>1, <2>1 DEF Logged
    <3>3. i \in Nat /\ i > n
      BY <2>2, <2>3
    <3> QED BY <3>1, <3>2, <3>3, <2>2
  <2> HIDE DEF n
  <2> QED BY <2>4, <2>5, <2>6 DEF OutcomeMatchesTheTopic, n
<1> QED BY <1>1, AccountHolds, PTL

\* A record is only written if its whole batch could be encoded: each of its
\* messages could have been published alone, and all of them together fit the
\* limits (encode_messages).
THEOREM BatchesAreWhole == Spec => []WholeBatchOrNothing
PROOF
<1>1. Account => WholeBatchOrNothing
  <2> SUFFICES ASSUME Account, NEW i \in 0 .. Len(batch) - 1,
                      <<publishes, i>> \in Written
               PROVE  /\ Len(batch) <= Limits.max_batch_messages
                      /\ \A j \in DOMAIN batch :
                            encode_messages(<<batch[j]>>, Limits) # Refused
                      /\ SumFunction([j \in DOMAIN batch |->
                                         size_bytes(Record(batch[j]))])
                            <= Limits.max_batch_bytes
    BY DEF WholeBatchOrNothing
  <2>1. Counts /\ Encoded /\ Logged
    BY DEF Account
  <2>2. publishes \in Nat /\ batch \in Seq(NewPublishMessage)
    BY <2>1, CountsFacts
  <2>3. PICK k \in DOMAIN log : log[k] = <<publishes, i>>
    BY DEF Written
  <2>4. records # <<>>
    BY <2>1, <2>2, <2>3 DEF Logged
  <2>5. encode_messages(batch, Limits) # Refused
    BY <2>1, <2>4 DEF Encoded
  <2>6. /\ Accepted(batch, Limits, Len(batch)) /\ Len(batch) \in Nat \ {0}
        /\ Len(batch) <= Limits.max_batch_messages
    BY <2>2, <2>5, EncodedFacts
  <2>7. \A j \in DOMAIN batch :
           encode_messages(<<batch[j]>>, Limits) # Refused
    BY <2>2, <2>5, AcceptedAlone
  <2>8. SumFunction([j \in DOMAIN batch |-> size_bytes(Record(batch[j]))])
           <= Limits.max_batch_bytes
    <3>1. Len(batch) \in 1 .. Len(batch) /\ DOMAIN batch = 1 .. Len(batch)
      BY <2>2, <2>6
    <3> QED BY <3>1, <2>6 DEF Accepted
  <2> QED BY <2>6, <2>7, <2>8
<1> QED BY <1>1, AccountHolds, PTL
=============================================================================
