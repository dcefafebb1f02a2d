---------------------------- MODULE ClientConfig ----------------------------
(* The configurations of backend/kafka/src/config.rs: what librdkafka is told
   for a probe, a pooled client, a fetch and a publish.  A configuration is a
   function from property names to values; a property it does not hold has
   librdkafka's default.  Sizes are in units of Kilobyte bytes.            *)
EXTENDS Integers, FiniteSets

CONSTANTS
    None,               \* a setting the user left empty
    CLIENT_ID,          \* "salty/<version>"
    Kilobyte,           \* the bytes of a kilobyte: 1024 in the code
    PREFETCH_FLOOR,     \* 8192 kilobytes in the code
    NativeBundle        \* the trust store of the system, or None

ASSUME ConfigAssumption ==
    Kilobyte \in Nat \ {0} /\ PREFETCH_FLOOR \in Nat \ {0}

\* config.set.
Set(property, value) == [p \in {property} |-> value]

\* One setting and another; of two values of a property the first counts.
config ++ rest ==
    [p \in DOMAIN config \union DOMAIN rest |->
        IF p \in DOMAIN config THEN config[p] ELSE rest[p]]

\* config.set of an optional value.
SetWhen(condition, property, value) ==
    IF condition THEN Set(property, value) ELSE <<>>

SetSome(property, value) == SetWhen(value # None, property, value)

apply_connection_attempt_limits ==
    Set("reconnect.backoff.ms", 1000)
        ++ Set("reconnect.backoff.max.ms", 30000)
        ++ Set("socket.connection.setup.timeout.ms", 5000)

apply_connection_footprint_limits ==
    Set("enable.sparse.connections", TRUE) ++ Set("allow.auto.create.topics", FALSE)

\* The user name and the password are only told beside a mechanism.
Credentials(settings) ==
    IF settings.sasl_mechanism = None THEN <<>>
    ELSE Set("sasl.mechanism", settings.sasl_mechanism)
            ++ SetSome("sasl.username", settings.sasl_username)
            ++ SetSome("sasl.password", settings.sasl_password)

\* The user's own authorities, or those of the system where TLS is spoken.
Authorities(protocol, ssl) ==
    SetSome("ssl.ca.location", ssl.truststore_location)
        ++ SetWhen(/\ ssl.truststore_location = None
                   /\ protocol \in {"SSL", "SASL_SSL"}
                   /\ NativeBundle # None,
                   "ssl.ca.pem", NativeBundle)

build_client_config(settings, ssl) ==
    Set("bootstrap.servers", settings.bootstrap_servers)
        ++ Set("security.protocol", settings.security_protocol)
        ++ Set("client.id", CLIENT_ID)
        ++ apply_connection_attempt_limits
        ++ apply_connection_footprint_limits
        ++ Credentials(settings)
        ++ Authorities(settings.security_protocol, ssl)
        ++ SetSome("ssl.keystore.location", ssl.keystore_location)
        ++ SetSome("ssl.keystore.password", ssl.keystore_password)
        ++ SetSome("ssl.key.password", ssl.keystore_key_password)

\* Mutant: the password of the key store opens the key too.
OnePasswordForBoth(connection) ==
    [truststore_location |-> connection.ssl_truststore_location,
     keystore_location |-> connection.ssl_keystore_location,
     keystore_password |-> connection.ssl_keystore_password,
     keystore_key_password |-> connection.ssl_keystore_password]

\* The TLS part of a saved connection; its trust store password stays behind.
BrokerSslConfig(connection) ==
    [truststore_location |-> connection.ssl_truststore_location,
     keystore_location |-> connection.ssl_keystore_location,
     keystore_password |-> connection.ssl_keystore_password,
     keystore_key_password |-> connection.ssl_keystore_key_password]

client_config(connection) ==
    build_client_config(connection, BrokerSslConfig(connection))

\* The form's values, as connection_test hands them to the probe.
FormSslConfig(new_connection) ==
    [truststore_location |-> new_connection.ssl_truststore_location,
     keystore_location |-> new_connection.ssl_keystore_location,
     keystore_password |-> new_connection.ssl_keystore_password,
     keystore_key_password |-> new_connection.ssl_keystore_key_password]

test_config(new_connection) ==
    build_client_config(new_connection, FormSslConfig(new_connection))

\* Mutant: the floor does without the doubling.
WithoutDoubling(max_message_size) ==
    LET once == max_message_size \div Kilobyte
    IN IF once > PREFETCH_FLOOR THEN once ELSE PREFETCH_FLOOR

\* Twice the largest message, in kilobytes, from the floor up.
PrefetchKilobytes(max_message_size) ==
    LET twice == (max_message_size * 2) \div Kilobyte
    IN IF twice > PREFETCH_FLOOR THEN twice ELSE PREFETCH_FLOOR

\* Later settings win over the connection's own.
fetch_consumer_config(connection, max_message_size) ==
    Set("group.id", "salty-message-browser")
        ++ Set("enable.auto.commit", FALSE)
        ++ Set("max.partition.fetch.bytes", max_message_size)
        ++ Set("queued.max.messages.kbytes", PrefetchKilobytes(max_message_size))
        ++ Set("fetch.queue.backoff.ms", 10)
        ++ Set("fetch.wait.max.ms", 50)
        ++ Set("enable.partition.eof", TRUE)
        ++ client_config(connection)

publish_config(connection, max_message_size, write_timeout) ==
    Set("acks", "all")
        ++ Set("enable.idempotence", FALSE)
        ++ Set("message.max.bytes", max_message_size)
        ++ Set("message.timeout.ms", (IF write_timeout > 1 THEN write_timeout ELSE 1))
        ++ Set("linger.ms", 0)
        ++ client_config(connection)
=============================================================================
