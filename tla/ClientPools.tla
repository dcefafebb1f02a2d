---------------------------- MODULE ClientPools ----------------------------
(***************************************************************************)
(* The clients kept open per connection: the Kafka metadata and admin      *)
(* clients of RdKafkaClient (backend/kafka/src/client.rs) and the Schema   *)
(* Registry client of SchemaRegistryClients (backend/schema-registry).     *)
(*                                                                         *)
(* A client is its version: the saved settings it was built from, which    *)
(* the code recognises by updated_at (Kafka) or by a fingerprint of the    *)
(* endpoint and credentials (Schema Registry).  Each pool has its own      *)
(* mutex, held while a missing client is built.                            *)
(***************************************************************************)
EXTENDS SavedConnections

VARIABLES metadataClients, adminClients, schemaClients

poolVars == <<metadataClients, adminClients, schemaClients>>

Pool == [Conns -> Versions \union {NoVersion}]

PoolTypeOK ==
    /\ metadataClients \in Pool
    /\ adminClients \in Pool
    /\ schemaClients \in Pool

PoolInit ==
    /\ metadataClients = [c \in Conns |-> NoVersion]
    /\ adminClients = [c \in Conns |-> NoVersion]
    /\ schemaClients = [c \in Conns |-> NoVersion]

\* A weaker test, for comparison: any pooled client will do.
ReusableAtAnyVersion(pool, c, v) == pool[c] # NoVersion

\* There is a pooled client and it was built from these very settings.
Reusable(pool, c, v) == pool[c] # NoVersion /\ pool[c] = v

\* The client a request with settings v is handed ...
ClientFor(pool, c, v) == IF Reusable(pool, c, v) THEN pool[c] ELSE v

\* ... and the pool it leaves behind: a client that is not reused is replaced.
Pooled(pool, c, v) == [pool EXCEPT ![c] = ClientFor(pool, c, v)]

Dropped(pool, c) == [pool EXCEPT ![c] = NoVersion]
=============================================================================
