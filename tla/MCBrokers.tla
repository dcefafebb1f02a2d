------------------------------ MODULE MCBrokers ------------------------------
(* Model-checking instance of everything that talks to the brokers outside a
   fetch and a publish: the row of the tree that watches its cluster, and the
   requests on the cluster's pooled client.  The two share no state, so the
   steps of one say nothing about the other: a behaviour follows one of them.
                                                                           *)
EXTENDS ClusterWatch, BrokerCalls

CONSTANTS r1, r2, r3

ThreeRequests == {r1, r2, r3}
TwoAddresses == 1..2

\* A connection that librdkafka builds a client for, and one it does not.
Setting(protocol, username, truststore) ==
    [bootstrap_servers |-> "broker", security_protocol |-> protocol,
     sasl_mechanism |-> "PLAIN", sasl_username |-> username,
     sasl_password |-> "secret", ssl_truststore_location |-> truststore,
     ssl_truststore_password |-> "trust", ssl_keystore_location |-> "keys",
     ssl_keystore_password |-> "store", ssl_keystore_key_password |-> "key"]

SomeSettings ==
    {Setting("SASL_SSL", "user", None), Setting("SASL_PLAINTEXT", None, "anchors")}

\* Sizes around the floor of the prefetch queue, and the largest of a byte.
SomeSizes == {1, 8, 15, 16, 17, 31, 32, 33, 255}

SomeCodes == {"BrokerTransportFailure", "Authentication"}

Init == WatchInit /\ CallsInit

CallsAtRest == \A r \in Requests: pc[r] = "idle"
WatchAtRest ==
    sessions = 0 /\ changes = 0 /\ \A a \in Addresses: links[a] = "accepts"

Next ==
    \/ CallsAtRest /\ WatchNext /\ UNCHANGED callVars
    \/ WatchAtRest /\ CallsNext /\ UNCHANGED watchVars

Spec == /\ Init /\ [][Next]_<<watchVars, callVars>>
        /\ WatchFairness /\ CallsFairness
==============================================================================
