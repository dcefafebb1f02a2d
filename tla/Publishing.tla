------------------------------ MODULE Publishing ------------------------------
(***************************************************************************)
(* connection_publish_messages (src-tauri/src/commands/publish.rs) with    *)
(* the producer it runs (backend/kafka/src/producer.rs): a batch passes    *)
(* the gates, is encoded as a whole, and is then sent record by record,    *)
(* each one's delivery report awaited, up to the first failure.            *)
(*                                                                         *)
(* librdkafka and the broker are external.  While a record is in flight    *)
(* librdkafka may write it, write it again because the acknowledgement was *)
(* lost (enable.idempotence is off), and call the error callback; in the   *)
(* end it reports a delivery or an error code, a time-out at the latest.   *)
(* How commands interleave over the registry is Session's subject; here    *)
(* the publishes of one connection and topic follow each other.            *)
(***************************************************************************)
EXTENDS PublishRules, KafkaFailures

CONSTANTS Batches,             \* what the Publish tab may submit
          Limits,
          Codes,               \* error codes a record may come back with
          MAX_AUTH_ATTEMPTS,
          MaxPublishes,        \* bounds the publishes of a behaviour
          MaxWrites            \* bounds how often one record is written

PublishFailure == [index : Nat, kind : PublishFailureKind]

ASSUME PublishingAssumption ==
    /\ Batches \subseteq Seq(NewPublishMessage)
    /\ Limits \in PublishLimits
    /\ Codes \subseteq ErrorCodes /\ "MessageTimedOut" \in Codes
    /\ MAX_AUTH_ATTEMPTS \in Nat \ {0}
    /\ MaxPublishes \in Nat /\ MaxWrites \in Nat
    /\ None \notin Int \union Reasons /\ Refused \notin Int /\ None # Refused
    /\ Refused \notin Seq(EncodedRecord)
    /\ None \notin PublishFailure

VARIABLES
    connected, allowed, denied, attempts,   \* what the gates look at
    phase,         \* of the command: "idle", "gates", "encode", "send",
                   \* "in_flight", "settle"
    batch,         \* the messages submitted
    records,       \* the records made of them
    outcome,       \* PublishOutcome
    lastError, authError,                   \* ProducerErrorContext
    log,           \* the partition: <<publish, index>> at each offset
    publishes,     \* publishes issued so far
    writes,        \* how often the record in flight has been written
    rejected       \* history: this publish was told of bad credentials

gateVars == <<connected, allowed, denied, attempts>>
contextVars == <<lastError, authError>>
clusterVars == <<log, writes, rejected>>
vars == <<gateVars, phase, batch, records, outcome, contextVars, clusterVars,
          publishes>>

NoOutcome == [delivered |-> <<>>, failure |-> None, not_attempted |-> 0]

\* The record being sent, counted from 0.
Index == Len(outcome.delivered)

TypeOK ==
    /\ connected \in BOOLEAN /\ allowed \in BOOLEAN /\ denied \in BOOLEAN
    /\ attempts \in 0 .. MAX_AUTH_ATTEMPTS
    /\ phase \in {"idle", "gates", "encode", "send", "in_flight", "settle"}
    /\ batch \in Batches \union {<<>>}
    /\ Len(records) \in 0 .. Len(batch)
    /\ outcome.not_attempted \in 0 .. Len(records)
    /\ outcome.failure = None
         \/ outcome.failure \in [index : 0 .. Len(records) - 1,
                                 kind : PublishFailureKind]
    /\ lastError \in Option(Reasons)
    /\ authError \in Option({"rejected"})
    /\ publishes \in 0 .. MaxPublishes
    /\ writes \in 0 .. MaxWrites
    /\ rejected \in BOOLEAN

Init ==
    /\ connected \in BOOLEAN /\ allowed \in BOOLEAN
    /\ denied = FALSE
    /\ attempts = 0
    /\ phase = "idle"
    /\ batch = <<>> /\ records = <<>>
    /\ outcome = NoOutcome
    /\ lastError = None /\ authError = None
    /\ log = <<>>
    /\ publishes = 0 /\ writes = 0
    /\ rejected = FALSE
-----------------------------------------------------------------------------
(* The command, up to the producer. *)

Submit ==
    /\ phase = "idle"
    /\ publishes < MaxPublishes
    /\ publishes' = publishes + 1
    /\ batch' \in Batches
    /\ phase' = "gates"
    /\ records' = <<>>
    /\ outcome' = NoOutcome
    /\ rejected' = FALSE
    /\ UNCHANGED <<gateVars, contextVars, log, writes>>

\* The breaker in connection_for_request, then publish_refusal.
PassGates ==
    /\ phase = "gates"
    /\ phase' = IF \/ attempts >= MAX_AUTH_ATTEMPTS
                   \/ publish_refusal(connected, allowed, denied) # None
                THEN "idle" ELSE "encode"
    /\ UNCHANGED <<gateVars, batch, records, outcome, contextVars, clusterVars,
                   publishes>>

\* A producer exists only for the duration of one publish, and with it the
\* context its errors go to.
Encode ==
    /\ phase = "encode"
    /\ LET encoded == encode_messages(batch, Limits)
       IN  IF encoded = Refused
           THEN phase' = "idle" /\ UNCHANGED records
           ELSE phase' = "send" /\ records' = encoded
    /\ lastError' = None /\ authError' = None
    /\ UNCHANGED <<gateVars, batch, outcome, clusterVars, publishes>>

\* The client cannot be created: an Err, which leaves no trace.
CreationFails ==
    /\ phase = "send"
    /\ outcome = NoOutcome
    /\ phase' = "idle"
    /\ UNCHANGED <<gateVars, batch, records, outcome, contextVars, clusterVars,
                   publishes>>

\* For comparison: one record too many.
SendPastTheEnd ==
    /\ phase = "send"
    /\ phase' = IF Index <= Len(records) THEN "in_flight" ELSE "settle"
    /\ writes' = 0
    /\ UNCHANGED <<gateVars, batch, records, outcome, contextVars, log,
                   publishes, rejected>>

Send ==
    /\ phase = "send"
    /\ phase' = IF Index < Len(records) THEN "in_flight" ELSE "settle"
    /\ writes' = 0
    /\ UNCHANGED <<gateVars, batch, records, outcome, contextVars, log,
                   publishes, rejected>>
-----------------------------------------------------------------------------
(* A record in flight. *)

Write ==
    /\ phase = "in_flight"
    /\ writes < MaxWrites
    /\ log' = Append(log, <<publishes, Index>>)
    /\ writes' = writes + 1
    /\ UNCHANGED <<gateVars, phase, batch, records, outcome, contextVars,
                   publishes, rejected>>

\* For comparison: only the latest reason is kept.
CallbackKeepingTheLatest(reason) ==
    /\ phase = "in_flight"
    /\ lastError' = reason
    /\ authError' = IF is_auth_failure_reason(reason) THEN reason ELSE None
    /\ rejected' = (rejected \/ is_auth_failure_reason(reason))
    /\ UNCHANGED <<gateVars, phase, batch, records, outcome, log, writes,
                   publishes>>

\* ProducerErrorContext::error.
Callback(reason) ==
    /\ phase = "in_flight"
    /\ lastError' = reason
    /\ authError' = IF is_auth_failure_reason(reason) /\ authError = None
                    THEN reason ELSE authError
    /\ rejected' = (rejected \/ is_auth_failure_reason(reason))
    /\ UNCHANGED <<gateVars, phase, batch, records, outcome, log, writes,
                   publishes>>

failure_reason == IF authError # None THEN authError ELSE lastError

Delivered ==
    /\ phase = "in_flight"
    /\ writes > 0
    /\ outcome' = [outcome EXCEPT !.delivered =
                      Append(@, [index |-> Index, offset |-> Len(log) - 1])]
    /\ phase' = "send"
    /\ UNCHANGED <<gateVars, batch, records, contextVars, clusterVars,
                   publishes>>

\* For comparison: the records after the failed one are not counted.
NotDeliveredUncounted(code) ==
    /\ phase = "in_flight"
    /\ outcome' =
          [outcome EXCEPT
             !.failure = [index |-> Index,
                          kind |-> classify_produce_error(code,
                                                          failure_reason)],
             !.not_attempted = Len(records) - Index]
    /\ rejected' = (rejected \/ SaysAuthentication(code, None))
    /\ phase' = "settle"
    /\ UNCHANGED <<gateVars, batch, records, contextVars, log, writes,
                   publishes>>

\* The failure ends the publish.
NotDelivered(code) ==
    /\ phase = "in_flight"
    /\ outcome' =
          [outcome EXCEPT
             !.failure = [index |-> Index,
                          kind |-> classify_produce_error(code,
                                                          failure_reason)],
             !.not_attempted = Len(records) - Index - 1]
    /\ rejected' = (rejected \/ SaysAuthentication(code, None))
    /\ phase' = "settle"
    /\ UNCHANGED <<gateVars, batch, records, contextVars, log, writes,
                   publishes>>

\* For comparison: a record is given up only when the brokers are known to be
\* down.
TimesOutWhenDown ==
    lastError = "brokers_down" /\ NotDelivered("MessageTimedOut")

\* message.timeout.ms: no record stays in flight for ever.
TimesOut == NotDelivered("MessageTimedOut")
-----------------------------------------------------------------------------
(* The command, after the producer. *)

FailedWith(kind) == outcome.failure # None /\ outcome.failure.kind = kind

\* For comparison: a refusal to write counts as bad credentials.
ChargeableToo == FailedWith("Authentication") \/ FailedWith("Authorization")

\* Whether record_auth_failure is called.
Chargeable == FailedWith("Authentication")

\* record_auth_success, then record_write_denied or record_auth_failure.
Settle ==
    /\ phase = "settle"
    /\ LET proven == outcome.delivered # <<>>
           before == IF proven THEN 0 ELSE attempts
           count == IF Chargeable THEN before + 1 ELSE before
           trips == Chargeable /\ count >= MAX_AUTH_ATTEMPTS
       IN  /\ attempts' = count
           /\ connected' = (connected /\ ~trips)
           /\ denied' = /\ ~trips
                        /\ \/ denied /\ ~proven
                           \/ FailedWith("Authorization")
    /\ phase' = "idle"
    /\ UNCHANGED <<allowed, batch, records, outcome, contextVars, clusterVars,
                   publishes>>

\* connection_connect.
Reconnect ==
    /\ phase = "idle"
    /\ attempts' = 0 /\ denied' = FALSE /\ connected' = TRUE
    /\ UNCHANGED <<allowed, phase, batch, records, outcome, contextVars,
                   clusterVars, publishes>>
-----------------------------------------------------------------------------
Producer == \/ Write
            \/ Delivered
            \/ \E reason \in Reasons : Callback(reason)
            \/ \E code \in Codes : NotDelivered(code)

Next == Submit \/ PassGates \/ Encode \/ CreationFails \/ Send \/ Producer
          \/ Settle \/ Reconnect

\* The command goes on whenever it can, and librdkafka reports on every
\* record within its time-out.
Fairness == WF_vars(PassGates \/ Encode \/ Send \/ TimesOut \/ Settle)

Spec == Init /\ [][Next]_vars /\ Fairness
-----------------------------------------------------------------------------
Written == {log[i] : i \in DOMAIN log}

\* publish_messages: what the outcome says is what the partition holds.  The
\* delivered records are the first ones of the batch, in order, each at the
\* offset reported for it; a failure is the record after them, and what it
\* calls never attempted has not been written.
OutcomeMatchesTheTopic ==
    phase = "settle" =>
        LET n == Len(outcome.delivered)
        IN  /\ \A i \in 1 .. n :
                  LET d == outcome.delivered[i]
                  IN  /\ d.index = i - 1
                      /\ log[d.offset + 1] = <<publishes, d.index>>
                      /\ i < n => d.offset < outcome.delivered[i + 1].offset
            /\ IF outcome.failure = None
               THEN n = Len(batch) /\ outcome.not_attempted = 0
               ELSE /\ outcome.failure.index = n
                    /\ n + 1 + outcome.not_attempted = Len(batch)
            /\ \A i \in n + 1 .. Len(batch) - 1 :
                  <<publishes, i>> \notin Written

\* encode_messages: "a batch either reaches the broker whole or never
\* starts".  A record is only written if each message of its batch could have
\* been published alone and all of them together fit the limits.
WholeBatchOrNothing ==
    \A i \in 0 .. Len(batch) - 1 :
        <<publishes, i>> \in Written =>
            /\ Len(batch) <= Limits.max_batch_messages
            /\ \A j \in DOMAIN batch :
                  encode_messages(<<batch[j]>>, Limits) # Refused
            /\ SumFunction([j \in DOMAIN batch |->
                               size_bytes(Record(batch[j]))])
                  <= Limits.max_batch_bytes

\* ProducerErrorContext: a publish that fails is put down to the credentials
\* exactly when the broker rejected them while it ran, whatever librdkafka
\* said after that.
OnlyRejectionsBlameTheCredentials ==
    phase = "settle" /\ outcome.failure # None =>
        (rejected <=> outcome.failure.kind = "Authentication")

\* A principal that may not write keeps its working cluster: the breaker's
\* count only grows by a publish whose credentials were rejected.
DenialsNeverFeedTheBreaker == [][attempts' > attempts => rejected]_vars

\* publish_config: a publish is answered even if the broker never is.
PublishIsAnswered == phase # "idle" ~> phase = "idle"

\* The variables have their types, and the outcome is what the topic holds.
OutcomeInvariant == TypeOK /\ OutcomeMatchesTheTopic
=============================================================================
