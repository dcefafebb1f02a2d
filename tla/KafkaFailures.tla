---------------------------- MODULE KafkaFailures ----------------------------
(* How a librdkafka failure is typed, from its code and from the reason of the
   error callback: backend/core/src/auth.rs, backend/kafka/src/auth.rs and
   classify_produce_error of backend/kafka/src/producer.rs.                *)

\* RDKafkaErrorCode, as far as anything tells the codes apart.
AuthenticationCodes == {"Authentication", "SaslAuthenticationFailed"}

AuthorizationCodes ==
    {"TopicAuthorizationFailed", "ClusterAuthorizationFailed",
     "GroupAuthorizationFailed", "TransactionalIdAuthorizationFailed"}

ValidationCodes ==
    {"MessageSizeTooLarge", "UnknownTopicOrPartition", "UnknownTopic",
     "UnknownPartition", "InvalidPartitions", "MessageBatchTooLarge",
     "InvalidRecord", "InvalidMessage", "InvalidMessageSize"}

OtherCodes ==
    {"MessageTimedOut", "BrokerTransportFailure", "UnsupportedSASLMechanism"}

ErrorCodes == AuthenticationCodes \union AuthorizationCodes
                \union ValidationCodes \union OtherCodes

\* What librdkafka may pass to the error callback: a reason that
\* AUTH_FAILURE_REASONS recognises, and one it does not ("brokers are down").
Reasons == {"rejected", "brokers_down"}

is_auth_failure_reason(reason) == reason = "rejected"

is_auth_failure(code, reason) ==
    code \in AuthenticationCodes \/ is_auth_failure_reason(reason)

\* error.to_string(): the wording of these codes has one of the fragments.
ReasonOf(code) ==
    IF code \in {"SaslAuthenticationFailed", "UnsupportedSASLMechanism"}
    THEN "rejected" ELSE "worded_otherwise"

\* The AppError of a produce failure, as PublishFailureKind::from_error
\* passes it on.
PublishFailureKind ==
    {"Authorization", "Authentication", "Validation", "Transient"}

\* Whether both signals of a produce failure are asked.
SaysAuthentication(code, reason) ==
    is_auth_failure(code, reason) \/ is_auth_failure(code, ReasonOf(code))

classify_produce_error(code, reason) ==
    CASE SaysAuthentication(code, reason) -> "Authentication"
      [] ~SaysAuthentication(code, reason) /\ code \in AuthorizationCodes ->
            "Authorization"
      [] ~SaysAuthentication(code, reason) /\ code \in ValidationCodes ->
            "Validation"
      [] OTHER -> "Transient"
=============================================================================
